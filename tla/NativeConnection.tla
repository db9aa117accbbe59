-------------------------- MODULE NativeConnection --------------------------
(***************************************************************************)
(* A connection of websock-tungstenite: the whole Connection               *)
(* (connection.rs: send, recv, close) and, once split, the two halves and  *)
(* the two tasks behind them (stream.rs).                                  *)
(*                                                                         *)
(* Messages are numbered in the order their sender produced them.  An item *)
(* of the stream half is a number, Failed for a transport error or Closed  *)
(* for Error::Closed.  tungstenite, the transport and the peer are         *)
(* external: a write completes or fails, the peer sends messages, pings    *)
(* and its Close when it likes.  tungstenite delivers data until the       *)
(* peer's Close, refuses messages once a Close was sent or received, and   *)
(* keeps the reply to the peer's Close until the next flush, close or read. *)
(***************************************************************************)
EXTENDS Integers, Sequences

CONSTANTS
    CmdLen,    \* capacity of the writer's command channel (64)
    MsgLen,    \* capacity of the reader's message channel (64)
    MaxSend,   \* bound: messages the application sends
    MaxPeer,   \* bound: messages the peer sends
    MaxPings   \* bound: pings the peer sends

ASSUME ChannelAssumption ==
    /\ CmdLen \in Nat \ {0, 1} /\ MsgLen \in Nat \ {0}
    /\ MaxSend \in Nat /\ MaxPeer \in Nat /\ MaxPings \in Nat

VARIABLES
    mode,      \* whole or split
    replying,  \* Connection::recv is in the ws.close after the peer's Close
    \* tungstenite, the transport and the peer
    ws,        \* active, byUs, byPeer = peer's Close read, acked = both
    reply,     \* the reply to the peer's Close is queued, not flushed
    broken,    \* the transport has failed
    inbox,     \* what the peer has sent and nobody has read
    written,   \* the messages written to the transport
    peerSent, pings, peerClosed,
    \* ConnectionSink and ConnectionStream
    sink,      \* none, open, closed, dropped
    permit,    \* the sink's PollSender holds a reserved slot
    accepted,  \* messages taken from the application so far
    closeLost, \* history: the sink was dropped and its Close did not fit
    stream,    \* none, open, dropped
    got,       \* what the application has received
    \* the tasks and their channels
    cmds, wpc, wcmd,
    msgs, rpc, ritem,
    sawClose   \* history: the reader task has read the peer's Close

whole == <<mode, replying>>
sock  == <<ws, reply, broken, written>>
peer  == <<inbox, peerSent, pings, peerClosed>>
sinks == <<sink, permit, accepted, closeLost>>
outs  == <<stream, got>>
wtask == <<wpc, wcmd>>
rtask == <<rpc, ritem, sawClose>>
vars  == <<whole, sock, peer, sinks, outs, cmds, wtask, msgs, rtask>>

Failed == 0
Closed == -1
Ping   == -2

Msg(n) == [k |-> "msg", n |-> n]
Pong   == [k |-> "pong", n |-> 0]
Close  == [k |-> "close", n |-> 0]

RxLive == wpc # "ended"
Held   == IF permit THEN 1 ELSE 0
Room   == RxLive /\ Len(cmds) + Held < CmdLen

(* The halves of the channels end with their tasks and handles. *)
Queue(cmd)   == cmds' = Append(cmds, cmd)
CmdsClosed   == sink = "dropped" /\ rpc = "ended"

Init ==
    /\ mode = "whole" /\ replying = FALSE
    /\ ws = "active" /\ reply = FALSE /\ broken = FALSE /\ written = <<>>
    /\ inbox = <<>> /\ peerSent = 0 /\ pings = 0 /\ peerClosed = FALSE
    /\ sink = "none" /\ permit = FALSE /\ accepted = 0 /\ closeLost = FALSE
    /\ stream = "none" /\ got = <<>> /\ cmds = <<>>
    /\ wpc = "none" /\ wcmd = Pong
    /\ msgs = <<>> /\ rpc = "none" /\ ritem = Failed /\ sawClose = FALSE

-----------------------------------------------------------------------------
(* tungstenite, as connection.rs and stream.rs use it *)

CanWrite == ws = "active" /\ ~broken

(* ws.close(None): sends our Close, or flushes the reply to the peer's. *)
WsClose ==
    /\ ws' = CASE broken -> ws
               [] ~broken /\ ws = "active" -> "byUs"
               [] ~broken /\ ws = "byPeer" -> "acked"
               [] OTHER -> ws
    /\ reply' = (reply /\ broken)
    /\ UNCHANGED <<broken, written>>

WsReadClose ==
    /\ ws' = IF ws = "active" THEN "byPeer" ELSE "acked"
    /\ reply' = (ws = "active")
    /\ UNCHANGED <<broken, written>>

WsReadable == ws \in {"active", "byUs"} /\ inbox # <<>>

-----------------------------------------------------------------------------
(* Connection, before split *)

Idle == mode = "whole" /\ ~replying

Send ==
    /\ Idle /\ CanWrite /\ accepted < MaxSend
    /\ accepted' = accepted + 1 /\ written' = Append(written, accepted')
    /\ UNCHANGED <<ws, reply, broken, sink, permit, closeLost>>
    /\ UNCHANGED <<whole, peer, outs, cmds, wtask, msgs, rtask>>

Recv ==
    /\ Idle /\ WsReadable
    /\ inbox' = Tail(inbox)
    /\ LET item == Head(inbox) IN
       \/ /\ item > 0 /\ got' = Append(got, item)
          /\ UNCHANGED <<replying, sock>>
       \/ /\ item = Ping  \* answered, or the error is returned
          /\ UNCHANGED <<replying, sock, got>>
       \/ /\ item = Closed /\ WsReadClose /\ replying' = TRUE
          /\ UNCHANGED got
    /\ UNCHANGED <<mode, peerSent, pings, peerClosed, sinks, stream, cmds>>
    /\ UNCHANGED <<wtask, msgs, rtask>>

(* Once the peer's Close was read ws.next() flushes the reply, returns None. *)
RecvNone ==
    /\ Idle /\ ws \in {"byPeer", "acked"} /\ reply /\ ~broken
    /\ reply' = FALSE
    /\ UNCHANGED <<ws, broken, written>>
    /\ UNCHANGED <<whole, peer, sinks, outs, cmds, wtask, msgs, rtask>>

RecvReplies ==
    /\ replying /\ WsClose /\ replying' = FALSE
    /\ UNCHANGED <<mode, peer, sinks, outs, cmds, wtask, msgs, rtask>>

(* The future of recv is dropped; only here does that leave work undone. *)
CancelRecv ==
    /\ replying /\ replying' = FALSE
    /\ UNCHANGED <<mode, sock, peer, sinks, outs, cmds, wtask, msgs, rtask>>

CloseWhole ==
    /\ Idle /\ (ws = "active" \/ reply) /\ WsClose
    /\ UNCHANGED <<whole, peer, sinks, outs, cmds, wtask, msgs, rtask>>

Split ==
    /\ Idle /\ mode' = "split" /\ sink' = "open" /\ stream' = "open"
    /\ wpc' = "recv" /\ rpc' = "read"
    /\ UNCHANGED <<replying, sock, peer, permit, accepted, closeLost, got>>
    /\ UNCHANGED <<cmds, wcmd, msgs, ritem, sawClose>>

-----------------------------------------------------------------------------
(* ConnectionSink *)

PollReady ==
    /\ sink = "open" /\ ~permit /\ Room /\ permit' = TRUE
    /\ UNCHANGED <<sink, accepted, closeLost>>
    /\ UNCHANGED <<whole, sock, peer, outs, cmds, wtask, msgs, rtask>>

(* A reserved slot is used even when the receiver is gone by now. *)
StartSend ==
    /\ sink = "open" /\ permit /\ accepted < MaxSend
    /\ permit' = FALSE /\ accepted' = accepted + 1
    /\ IF RxLive THEN Queue(Msg(accepted')) ELSE UNCHANGED cmds
    /\ UNCHANGED <<sink, closeLost>>
    /\ UNCHANGED <<whole, sock, peer, outs, wtask, msgs, rtask>>

(* Mutant: the close does not go through the queue. *)
PollCloseOvertakes ==
    /\ sink = "open" /\ (permit \/ Room \/ ~RxLive)
    /\ sink' = "closed" /\ permit' = FALSE
    /\ cmds' = IF RxLive THEN <<Close>> \o cmds ELSE cmds
    /\ UNCHANGED <<accepted, closeLost>>
    /\ UNCHANGED <<whole, sock, peer, outs, wtask, msgs, rtask>>

PollClose ==
    /\ sink = "open" /\ (permit \/ Room \/ ~RxLive)
    /\ sink' = "closed" /\ permit' = FALSE
    /\ IF RxLive THEN Queue(Close) ELSE UNCHANGED cmds
    /\ UNCHANGED <<accepted, closeLost>>
    /\ UNCHANGED <<whole, sock, peer, outs, wtask, msgs, rtask>>

(* Mutant: Drop leaves the connection to the peer. *)
DropSinkSilently ==
    /\ sink \in {"open", "closed"} /\ sink' = "dropped" /\ permit' = FALSE
    /\ UNCHANGED <<cmds, closeLost, accepted>>
    /\ UNCHANGED <<whole, sock, peer, outs, wtask, msgs, rtask>>

(* Drop tries once; its own reserved slot counts against the capacity. *)
DropSink ==
    /\ sink \in {"open", "closed"} /\ sink' = "dropped" /\ permit' = FALSE
    /\ IF sink = "open" /\ Room THEN Queue(Close) ELSE UNCHANGED cmds
    /\ closeLost' = (sink = "open" /\ RxLive /\ ~Room)
    /\ UNCHANGED accepted
    /\ UNCHANGED <<whole, sock, peer, outs, wtask, msgs, rtask>>

-----------------------------------------------------------------------------
(* ConnectionStream *)

PollNext ==
    /\ stream = "open" /\ msgs # <<>>
    /\ got' = Append(got, Head(msgs)) /\ msgs' = Tail(msgs)
    /\ UNCHANGED <<stream, whole, sock, peer, sinks, cmds, wtask, rtask>>

DropStream ==
    /\ stream = "open" /\ stream' = "dropped" /\ msgs' = <<>>
    /\ UNCHANGED <<got, whole, sock, peer, sinks, cmds, wtask, rtask>>

-----------------------------------------------------------------------------
(* The writer task *)

WriterEnds == wpc' = "ended" /\ cmds' = <<>> /\ wcmd' = Pong

WriterTakes ==
    /\ wpc = "recv" /\ cmds # <<>>
    /\ wcmd' = Head(cmds) /\ cmds' = Tail(cmds) /\ wpc' = "write"
    /\ UNCHANGED <<whole, sock, peer, sinks, outs, msgs, rtask>>

WriterSends ==
    /\ wpc = "write" /\ wcmd.k = "msg"
    /\ \/ /\ CanWrite
          /\ written' = Append(written, wcmd.n)
          /\ wpc' = "recv" /\ wcmd' = Pong /\ UNCHANGED cmds
       \/ /\ ~CanWrite /\ WriterEnds /\ UNCHANGED written
    /\ UNCHANGED <<ws, reply, broken, whole, peer, sinks, outs, msgs, rtask>>

WriterPongs ==
    /\ wpc = "write" /\ wcmd.k = "pong" /\ wpc' = "recv"
    /\ UNCHANGED <<wcmd, cmds, whole, sock, peer, sinks, outs, msgs, rtask>>

WriterCloses ==
    /\ wpc = "write" /\ wcmd.k = "close" /\ WsClose /\ WriterEnds
    /\ UNCHANGED <<whole, peer, sinks, outs, msgs, rtask>>

(* recv returns None when every sender is gone and the queue is empty. *)
WriterDone ==
    /\ wpc = "recv" /\ cmds = <<>> /\ CmdsClosed /\ WriterEnds
    /\ UNCHANGED <<whole, sock, peer, sinks, outs, msgs, rtask>>

-----------------------------------------------------------------------------
(* The reader task *)

ReaderReads ==
    /\ rpc = "read" /\ WsReadable
    /\ inbox' = Tail(inbox)
    /\ ritem' = Head(inbox)
    /\ rpc' = IF ritem' = Ping THEN "pong" ELSE "deliver"
    /\ sawClose' = (ritem' = Closed)
    /\ IF ritem' = Closed THEN WsReadClose ELSE UNCHANGED sock
    /\ UNCHANGED <<whole, peerSent, pings, peerClosed, sinks, outs, cmds>>
    /\ UNCHANGED <<wtask, msgs>>

ReaderFails ==
    /\ rpc = "read" /\ broken
    /\ ritem' = Failed /\ rpc' = "deliver"
    /\ UNCHANGED <<sawClose, whole, sock, peer, sinks, outs, cmds, wtask, msgs>>

(* The stream of a connection whose Close was read before the split ends;   *)
(* tungstenite flushes the reply first.                                     *)
ReaderNone ==
    /\ rpc = "read" /\ ws \in {"byPeer", "acked"}
    /\ rpc' = "ended" /\ reply' = (reply /\ broken)
    /\ UNCHANGED <<ritem, sawClose, ws, broken, written>>
    /\ UNCHANGED <<whole, peer, sinks, outs, cmds, wtask, msgs>>

(* Mutant: try_send, which drops the message when the queue is full. *)
ReaderTriesDeliver ==
    /\ rpc = "deliver"
    /\ rpc' = CASE ritem = Closed -> "closing"
                [] ritem > 0 /\ stream = "open" -> "read"
                [] OTHER -> "ended"
    /\ msgs' = IF stream = "open" /\ Len(msgs) < MsgLen
               THEN Append(msgs, ritem) ELSE msgs
    /\ ritem' = Failed
    /\ UNCHANGED <<sawClose, whole, sock, peer, sinks, outs, cmds, wtask>>

(* tx_msg.send awaits a slot, and fails when the stream was dropped. *)
ReaderDelivers ==
    /\ rpc = "deliver"
    /\ \/ stream = "open" /\ Len(msgs) < MsgLen /\ msgs' = Append(msgs, ritem)
       \/ stream = "dropped" /\ UNCHANGED msgs
    /\ rpc' = CASE ritem = Closed -> "closing"
                [] ritem > 0 /\ stream = "open" -> "read"
                [] OTHER -> "ended"
    /\ ritem' = Failed
    /\ UNCHANGED <<sawClose, whole, sock, peer, sinks, outs, cmds, wtask>>

ReaderPongs ==
    /\ rpc = "pong" /\ rpc' = "read"
    /\ \/ Room /\ Queue(Pong)
       \/ ~RxLive /\ UNCHANGED cmds
    /\ UNCHANGED <<ritem, sawClose, whole, sock, peer, sinks, outs, wtask, msgs>>

(* Mutant: the writer is not told. *)
ReaderJustEnds ==
    /\ rpc = "closing" /\ rpc' = "ended" /\ UNCHANGED cmds
    /\ UNCHANGED <<ritem, sawClose, whole, sock, peer, sinks, outs, wtask, msgs>>

ReaderCloses ==
    /\ rpc = "closing" /\ rpc' = "ended"
    /\ \/ Room /\ Queue(Close)
       \/ ~RxLive /\ UNCHANGED cmds
    /\ UNCHANGED <<ritem, sawClose, whole, sock, peer, sinks, outs, wtask, msgs>>

-----------------------------------------------------------------------------
(* The peer and the transport *)

PeerSends ==
    /\ ~peerClosed /\ ~broken
    /\ \/ /\ peerSent < MaxPeer /\ peerSent' = peerSent + 1
          /\ inbox' = Append(inbox, peerSent') /\ UNCHANGED pings
       \/ /\ pings < MaxPings /\ pings' = pings + 1
          /\ inbox' = Append(inbox, Ping) /\ UNCHANGED peerSent
    /\ UNCHANGED <<peerClosed, whole, sock, sinks, outs, cmds, wtask, msgs, rtask>>

PeerCloses ==
    /\ ~peerClosed /\ ~broken /\ peerClosed' = TRUE
    /\ inbox' = Append(inbox, Closed)
    /\ UNCHANGED <<peerSent, pings, whole, sock, sinks, outs, cmds, wtask>>
    /\ UNCHANGED <<msgs, rtask>>

TransportFails ==
    /\ ~broken /\ broken' = TRUE
    /\ UNCHANGED <<ws, reply, written, whole, peer, sinks, outs, cmds, wtask>>
    /\ UNCHANGED <<msgs, rtask>>

-----------------------------------------------------------------------------

Whole  == \/ Send \/ Recv \/ RecvNone \/ RecvReplies \/ CancelRecv
          \/ CloseWhole \/ Split
Sink   == PollReady \/ StartSend \/ PollClose \/ DropSink
Stream == PollNext \/ DropStream
Writer == WriterTakes \/ WriterSends \/ WriterPongs \/ WriterCloses \/ WriterDone
Reader == \/ ReaderReads \/ ReaderFails \/ ReaderNone
          \/ ReaderDelivers \/ ReaderPongs \/ ReaderCloses
Peer   == PeerSends \/ PeerCloses \/ TransportFails

Next == Whole \/ Sink \/ Stream \/ Writer \/ Reader \/ Peer

(* The runtime polls both tasks, writes complete or fail, the application   *)
(* polls the stream it holds, and the peer answers a Close it received.     *)
(* The code has no timeout: these are assumptions on its environment.       *)
Fairness ==
    /\ WF_vars(Writer) /\ WF_vars(Reader) /\ WF_vars(PollNext)
    /\ WF_vars(ws = "byUs" /\ PeerCloses)

Spec == Init /\ [][Next]_vars /\ Fairness

-----------------------------------------------------------------------------
(* Properties *)

(* The application sees the peer's messages in order and without a gap,     *)
(* across the split and however full the channel was; an error comes last,  *)
(* and Error::Closed only when every message before the Close was handed    *)
(* over.                                                                    *)
StreamComplete ==
    LET all == got \o msgs IN
    \A i \in 1..Len(all) :
       \/ all[i] = i
       \/ i = Len(all) /\ all[i] = Failed
       \/ i = Len(all) /\ all[i] = Closed /\ i = peerSent + 1

(* The Close a sink queues, closed or dropped, goes out behind every        *)
(* message the sink accepted.                                               *)
CloseIsBarrier ==
    [][ws = "active" /\ ws' = "byUs" =>
         written = [i \in 1..accepted |-> i]]_vars

(* When the tasks are done with a peer that closed first, its Close has     *)
(* been answered.  A message the sink had accepted behind the Close ends    *)
(* the writer before it gets to the reply; then the peer sees the transport *)
(* end.                                                                     *)
PeerCloseAnswered ==
    (/\ sawClose /\ wpc = "ended" /\ rpc = "ended"
     /\ ~broken /\ Len(written) = accepted) => ~reply

(* Both tasks end, and the socket is released, when the peer has closed,    *)
(* whatever the sink's owner does, and when both halves are gone, unless    *)
(* the sink was dropped on a full queue and its Close was lost.             *)
TasksEnd ==
    []<>(\/ sawClose
         \/ sink = "dropped" /\ stream = "dropped" /\ ~closeLost
            => wpc = "ended" /\ rpc = "ended")

=============================================================================
