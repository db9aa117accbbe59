----------------------- MODULE NativeConnectionProofs -----------------------
(* Proofs about NativeConnection, for every value of its constants. *)
EXTENDS NativeConnection, SequenceTheorems, TLAPS

Command == [k : {"msg", "pong", "close"}, n : Nat]

WholeType == mode \in {"whole", "split"} /\ replying \in BOOLEAN
SockType  == /\ ws \in {"active", "byUs", "byPeer", "acked"}
             /\ reply \in BOOLEAN /\ broken \in BOOLEAN /\ written \in Seq(Nat)
PeerType  == /\ inbox \in Seq(Int) /\ peerSent \in Nat /\ pings \in Nat
             /\ peerClosed \in BOOLEAN
SinkType  == /\ sink \in {"none", "open", "closed", "dropped"}
             /\ permit \in BOOLEAN /\ accepted \in Nat /\ closeLost \in BOOLEAN
OutType   == stream \in {"none", "open", "dropped"} /\ got \in Seq(Int) /\ msgs \in Seq(Int)
WriterType == /\ cmds \in Seq(Command) /\ wpc \in {"none", "recv", "write", "ended"}
              /\ wcmd \in Command
ReaderType == /\ rpc \in {"none", "read", "pong", "deliver", "closing", "ended"}
              /\ ritem \in Int /\ sawClose \in BOOLEAN

TypeOK == /\ WholeType /\ SockType /\ PeerType /\ SinkType /\ OutType
          /\ WriterType /\ ReaderType

(* Before the split there are no halves and no tasks.                       *)
ModeInv ==
    /\ mode = "whole" =>
          /\ sink = "none" /\ stream = "none" /\ wpc = "none" /\ rpc = "none"
          /\ cmds = <<>> /\ msgs = <<>> /\ ~sawClose
    /\ mode = "split" => wpc # "none" /\ rpc # "none" /\ stream # "none" /\ ~replying
    /\ replying => ws \in {"byPeer", "acked"}

(* Every message the sink accepted is written, being written or queued, in  *)
(* order, while the writer lives: pos[i] is the number of messages taken    *)
(* once the i-th command is.  A Close that the sink queued has the last.    *)
Taken == Len(written) + (IF wpc = "write" /\ wcmd.k = "msg" THEN 1 ELSE 0)

CmdNumbering(pos) ==
    /\ pos[0] = Taken /\ pos[Len(cmds)] = accepted
    /\ \A i \in 1..Len(cmds) :
          /\ pos[i] = pos[i - 1] + (IF cmds[i].k = "msg" THEN 1 ELSE 0)
          /\ cmds[i].k = "msg" => cmds[i].n = pos[i]
          /\ cmds[i].k = "close" /\ ws = "active" => pos[i] = accepted /\ sink # "open"

WriteInv ==
    /\ \A i \in 1..Len(written) : written[i] = i
    /\ wpc = "write" /\ wcmd.k = "msg" => wcmd.n = Len(written) + 1
    /\ RxLive => \E pos \in [0..Len(cmds) -> 0..accepted] : CmdNumbering(pos)
    /\ wpc = "write" /\ wcmd.k = "close" /\ ws = "active" =>
          Len(written) = accepted /\ sink # "open"

(* The reader's place in the peer's messages.                               *)
Reading == stream # "dropped" /\ rpc \in {"none", "read", "pong", "deliver"}
Reached == Len(got \o msgs) + (IF rpc = "deliver" THEN 1 ELSE 0)

InboxNumbering(pos) ==
    /\ pos[0] = Reached /\ pos[Len(inbox)] = peerSent
    /\ \A i \in 1..Len(inbox) :
          /\ pos[i] = pos[i - 1] + (IF inbox[i] > 0 THEN 1 ELSE 0)
          /\ inbox[i] > 0 => inbox[i] = pos[i]

ReadInv ==
    /\ \A i \in 1..Len(inbox) : /\ inbox[i] > 0 \/ inbox[i] \in {Closed, Ping}
                                /\ inbox[i] = Closed => i = Len(inbox) /\ peerClosed
    /\ stream = "dropped" => msgs = <<>>
    /\ rpc = "deliver" => ritem \in {Failed, Closed} \/ ritem > 0
    /\ Reading => \A i \in 1..Len(got \o msgs) : (got \o msgs)[i] = i
    /\ Reading /\ rpc = "deliver" /\ ritem > 0 => ritem = Reached
    /\ Reading /\ rpc = "deliver" /\ ritem = Closed => Reached = peerSent + 1 /\ peerClosed
    /\ /\ Reading /\ ws \in {"active", "byUs"} /\ (rpc = "deliver" => ritem > 0)
       => \E pos \in [0..Len(inbox) -> 0..peerSent] : InboxNumbering(pos)
    /\ (\E i \in 1..Len(got \o msgs) : (got \o msgs)[i] = Closed) => peerClosed

CloseQueued ==
    \/ \E i \in 1..Len(cmds) : cmds[i].k = "close"
    \/ wpc = "write" /\ wcmd.k = "close"

(* The peer's Close and the writer that answers it.                         *)
AnswerInv ==
    /\ rpc = "closing" \/ (rpc = "deliver" /\ ritem = Closed) => ws \in {"byPeer", "acked"}
    /\ sawClose => \/ rpc \in {"closing", "ended"}
                   \/ rpc = "deliver" /\ ritem = Closed
    /\ wpc = "ended" /\ ws = "active" /\ ~broken =>
          Len(written) < accepted \/ rpc = "ended"
    /\ sawClose /\ wpc = "ended" /\ reply /\ ~broken => Len(written) < accepted
    /\ sawClose /\ rpc = "ended" /\ RxLive => CloseQueued

IInv == TypeOK /\ ModeInv /\ WriteInv /\ ReadInv /\ AnswerInv /\ StreamComplete

(* The variables keep their types: the commands the halves queue.           *)
LEMMA CommandTypes ==
    /\ Pong \in Command /\ Close \in Command
    /\ \A n \in Nat : Msg(n) \in Command /\ Msg(n).k = "msg" /\ Msg(n).n = n
    /\ Pong.k = "pong" /\ Close.k = "close" /\ <<>> \in Seq(Command)
  BY DEF Command, Pong, Close, Msg

(* A group of variables that a step leaves alone keeps its type.            *)
LEMMA GroupsKept ==
    ASSUME TypeOK
    PROVE  /\ UNCHANGED whole => WholeType'
           /\ UNCHANGED sock => SockType'
           /\ UNCHANGED peer => PeerType'
           /\ UNCHANGED sinks => SinkType'
           /\ UNCHANGED <<outs, msgs>> => OutType'
           /\ UNCHANGED <<cmds, wtask>> => WriterType'
           /\ UNCHANGED rtask => ReaderType'
  BY DEF TypeOK, WholeType, SockType, PeerType, SinkType, OutType, WriterType, ReaderType,
         whole, sock, peer, sinks, outs, wtask, rtask

(* The variables of the connection keep their types in every step.          *)
LEMMA TypeStep ==
    ASSUME TypeOK, [Next]_vars
    PROVE  TypeOK'
  <1> USE DEF TypeOK
  <1>1. CASE Send
    <2>1. SockType'
      BY <1>1 DEF Send, SockType, SinkType
    <2>2. SinkType'
      BY <1>1 DEF Send, SinkType, sinks
    <2> QED BY <1>1, <2>1, <2>2, GroupsKept DEF Send
  <1>2. CASE Recv
    <2>1. WholeType'
      BY <1>2 DEF Recv, WsReadable, WsReadClose, WholeType, whole
    <2>2. SockType'
      BY <1>2 DEF Recv, WsReadable, WsReadClose, SockType, sock
    <2>3. PeerType'
      BY <1>2 DEF Recv, WsReadable, WsReadClose, PeerType, peer, Closed, Ping
    <2>4. OutType'
      <3>1. Head(inbox) \in Int
        BY <1>2 DEF Recv, WsReadable, PeerType
      <3>2. Append(got, Head(inbox)) \in Seq(Int) /\ got \in Seq(Int)
        BY <3>1 DEF OutType
      <3>3. (got' = Append(got, Head(inbox)) \/ got' = got) /\ UNCHANGED <<stream, msgs>>
        BY <1>2, Zenon DEF Recv
      <3> QED BY <3>2, <3>3 DEF OutType
    <2> QED BY <1>2, <2>1, <2>2, <2>3, <2>4, GroupsKept DEF Recv
  <1>3. CASE RecvNone
    <2>1. SockType'
      BY <1>3 DEF RecvNone, SockType, sock
    <2> QED BY <1>3, <2>1, GroupsKept DEF RecvNone
  <1>4. CASE RecvReplies
    <2>1. WholeType'
      BY <1>4 DEF RecvReplies, WsClose, WholeType, whole
    <2>2. SockType'
      BY <1>4 DEF RecvReplies, WsClose, SockType, sock
    <2> QED BY <1>4, <2>1, <2>2, GroupsKept DEF RecvReplies
  <1>5. CASE CancelRecv
    <2>1. WholeType'
      BY <1>5 DEF CancelRecv, WholeType, whole
    <2> QED BY <1>5, <2>1, GroupsKept DEF CancelRecv
  <1>6. CASE CloseWhole
    <2>1. SockType'
      BY <1>6 DEF CloseWhole, WsClose, SockType, sock
    <2> QED BY <1>6, <2>1, GroupsKept DEF CloseWhole
  <1>7. CASE Split
    <2>1. WholeType'
      BY <1>7 DEF Split, WholeType, whole
    <2>2. SinkType'
      BY <1>7 DEF Split, SinkType, sinks
    <2>3. OutType'
      BY <1>7 DEF Split, OutType, outs
    <2>4. WriterType'
      BY <1>7, CommandTypes DEF Split, WriterType, wtask
    <2>5. ReaderType'
      BY <1>7 DEF Split, ReaderType, rtask, Failed
    <2> QED BY <1>7, <2>1, <2>2, <2>3, <2>4, <2>5, GroupsKept DEF Split
  <1>8. CASE PollReady
    <2>1. SinkType'
      BY <1>8 DEF PollReady, SinkType, sinks
    <2> QED BY <1>8, <2>1, GroupsKept DEF PollReady
  <1>9. CASE StartSend
    <2>1. SinkType'
      <3>1. UNCHANGED <<sink, closeLost>> /\ accepted' = accepted + 1 /\ permit' \in BOOLEAN
        BY <1>9 DEF StartSend
      <3> QED BY <3>1 DEF SinkType
    <2>2. WriterType'
      BY <1>9, CommandTypes DEF StartSend, Queue, WriterType, wtask, SinkType
    <2> QED BY <1>9, <2>1, <2>2, GroupsKept DEF StartSend
  <1>10. CASE PollClose
    <2>1. SinkType'
      BY <1>10 DEF PollClose, Queue, SinkType, sinks
    <2>2. WriterType'
      BY <1>10, CommandTypes DEF PollClose, Queue, WriterType, wtask
    <2> QED BY <1>10, <2>1, <2>2, GroupsKept DEF PollClose
  <1>11. CASE DropSink
    <2>1. SinkType'
      BY <1>11 DEF DropSink, Queue, SinkType, sinks
    <2>2. WriterType'
      BY <1>11, CommandTypes DEF DropSink, Queue, WriterType, wtask
    <2> QED BY <1>11, <2>1, <2>2, GroupsKept DEF DropSink
  <1>12. CASE PollNext
    <2>1. OutType'
      BY <1>12 DEF PollNext, OutType, outs
    <2> QED BY <1>12, <2>1, GroupsKept DEF PollNext
  <1>13. CASE DropStream
    <2>1. OutType'
      BY <1>13 DEF DropStream, OutType, outs
    <2> QED BY <1>13, <2>1, GroupsKept DEF DropStream
  <1>14. CASE WriterTakes
    <2>1. WriterType'
      BY <1>14, CommandTypes DEF WriterTakes, WriterType, wtask
    <2> QED BY <1>14, <2>1, GroupsKept DEF WriterTakes
  <1>15. CASE WriterSends
    <2>1. SockType'
      <3>1. wcmd.n \in Nat
        BY DEF WriterType, Command
      <3>2. written' \in Seq(Nat) /\ UNCHANGED <<ws, reply, broken>>
        BY <1>15, <3>1 DEF WriterSends, SockType
      <3> QED BY <3>2 DEF SockType
    <2>2. WriterType'
      BY <1>15, CommandTypes DEF WriterSends, WriterEnds, WriterType, wtask
    <2> QED BY <1>15, <2>1, <2>2, GroupsKept DEF WriterSends
  <1>16. CASE WriterPongs
    <2>1. WriterType'
      BY <1>16, CommandTypes DEF WriterPongs, WriterType, wtask
    <2> QED BY <1>16, <2>1, GroupsKept DEF WriterPongs
  <1>17. CASE WriterCloses
    <2>1. SockType'
      BY <1>17 DEF WriterCloses, WsClose, WriterEnds, SockType, sock
    <2>2. WriterType'
      BY <1>17, CommandTypes DEF WriterCloses, WsClose, WriterEnds, WriterType, wtask
    <2> QED BY <1>17, <2>1, <2>2, GroupsKept DEF WriterCloses
  <1>18. CASE WriterDone
    <2>1. WriterType'
      BY <1>18, CommandTypes DEF WriterDone, WriterEnds, WriterType, wtask
    <2> QED BY <1>18, <2>1, GroupsKept DEF WriterDone
  <1>19. CASE ReaderReads
    <2>1. PeerType'
      BY <1>19 DEF ReaderReads, WsReadable, WsReadClose, PeerType, peer, Closed, Ping
    <2>2. SockType'
      BY <1>19 DEF ReaderReads, WsReadable, WsReadClose, SockType, sock
    <2>3. ReaderType'
      BY <1>19 DEF ReaderReads, WsReadable, WsReadClose, ReaderType, rtask, PeerType, Failed, Closed, Ping
    <2> QED BY <1>19, <2>1, <2>2, <2>3, GroupsKept DEF ReaderReads
  <1>20. CASE ReaderFails
    <2>1. ReaderType'
      BY <1>20 DEF ReaderFails, ReaderType, rtask, Failed
    <2> QED BY <1>20, <2>1, GroupsKept DEF ReaderFails
  <1>21. CASE ReaderNone
    <2>1. SockType'
      BY <1>21 DEF ReaderNone, SockType, sock
    <2>2. ReaderType'
      BY <1>21 DEF ReaderNone, ReaderType, rtask, Failed
    <2> QED BY <1>21, <2>1, <2>2, GroupsKept DEF ReaderNone
  <1>22. CASE ReaderDelivers
    <2>1. OutType'
      <3>1. Append(msgs, ritem) \in Seq(Int) /\ msgs \in Seq(Int)
        BY DEF OutType, ReaderType
      <3>2. (msgs' = Append(msgs, ritem) \/ msgs' = msgs) /\ UNCHANGED <<stream, got>>
        BY <1>22, Zenon DEF ReaderDelivers, outs
      <3> QED BY <3>1, <3>2 DEF OutType
    <2>2. ReaderType'
      BY <1>22 DEF ReaderDelivers, ReaderType, rtask, Failed
    <2> QED BY <1>22, <2>1, <2>2, GroupsKept DEF ReaderDelivers
  <1>23. CASE ReaderPongs
    <2>1. WriterType'
      BY <1>23, CommandTypes DEF ReaderPongs, Queue, WriterType, wtask
    <2>2. ReaderType'
      BY <1>23 DEF ReaderPongs, Queue, ReaderType, rtask, Failed
    <2> QED BY <1>23, <2>1, <2>2, GroupsKept DEF ReaderPongs
  <1>24. CASE ReaderCloses
    <2>1. WriterType'
      BY <1>24, CommandTypes DEF ReaderCloses, Queue, WriterType, wtask
    <2>2. ReaderType'
      BY <1>24 DEF ReaderCloses, Queue, ReaderType, rtask, Failed
    <2> QED BY <1>24, <2>1, <2>2, GroupsKept DEF ReaderCloses
  <1>25. CASE PeerSends
    <2>1. PeerType'
      BY <1>25 DEF PeerSends, PeerType, peer, Closed, Ping
    <2> QED BY <1>25, <2>1, GroupsKept DEF PeerSends
  <1>26. CASE PeerCloses
    <2>1. PeerType'
      BY <1>26 DEF PeerCloses, PeerType, peer, Closed, Ping
    <2> QED BY <1>26, <2>1, GroupsKept DEF PeerCloses
  <1>27. CASE TransportFails
    <2>1. SockType'
      BY <1>27 DEF TransportFails, SockType, sock
    <2> QED BY <1>27, <2>1, GroupsKept DEF TransportFails
  <1>28. CASE UNCHANGED vars
    BY <1>28, GroupsKept DEF vars
  <1> QED BY <1>1, <1>2, <1>3, <1>4, <1>5, <1>6, <1>7, <1>8, <1>9, <1>10, <1>11, <1>12, <1>13, <1>14,
             <1>15, <1>16, <1>17, <1>18, <1>19, <1>20, <1>21, <1>22, <1>23, <1>24, <1>25, <1>26, <1>27, <1>28
       DEF Next, Whole, Sink, Stream, Writer, Reader, Peer

(* Halves and tasks begin with split and none of them comes back.           *)
LEMMA ModeStep ==
    ASSUME TypeOK, ModeInv, AnswerInv, [Next]_vars
    PROVE  ModeInv'
  <1> USE DEF ModeInv, whole, sock, sinks, outs, wtask, rtask
  <1>1. CASE Send \/ RecvNone \/ CancelRecv \/ Split
    BY <1>1 DEF Send, RecvNone, CancelRecv, Split, Idle, TypeOK, WholeType
  <1>2. CASE Recv
    BY <1>2 DEF Recv, Idle, WsReadClose
  <1>3. CASE RecvReplies \/ CloseWhole
    BY <1>3 DEF RecvReplies, CloseWhole, Idle, WsClose, TypeOK, SockType
  <1>4. CASE PollReady \/ StartSend \/ PollClose \/ DropSink
    BY <1>4 DEF PollReady, StartSend, PollClose, DropSink
  <1>5. CASE PollNext \/ DropStream
    BY <1>5 DEF PollNext, DropStream
  <1>6. CASE WriterTakes \/ WriterSends \/ WriterPongs \/ WriterDone
    BY <1>6 DEF WriterTakes, WriterSends, WriterPongs, WriterDone, WriterEnds
  <1>7. CASE WriterCloses
    BY <1>7 DEF WriterCloses, WriterEnds, WsClose
  <1>8. CASE ReaderReads
    <2>1. mode # "whole" /\ rpc' # "none" /\ UNCHANGED <<mode, replying, wpc, stream>>
      BY <1>8 DEF ReaderReads
    <2>2. mode = "split"
      BY <2>1 DEF TypeOK, WholeType
    <2> QED BY <2>1, <2>2
  <1>9. CASE ReaderFails \/ ReaderNone \/ ReaderPongs \/ ReaderCloses
    BY <1>9 DEF ReaderFails, ReaderNone, ReaderPongs, ReaderCloses
  <1>10. CASE ReaderDelivers
    <2>1. /\ mode # "whole" /\ UNCHANGED <<mode, replying, wpc, stream>>
          /\ rpc' \in {"closing", "read", "ended"}
      BY <1>10 DEF ReaderDelivers
    <2>2. mode = "split"
      BY <2>1 DEF TypeOK, WholeType
    <2> QED BY <2>1, <2>2
  <1>11. CASE PeerSends \/ PeerCloses \/ TransportFails \/ UNCHANGED vars
    BY <1>11 DEF PeerSends, PeerCloses, TransportFails, vars
  <1> QED BY <1>1, <1>2, <1>3, <1>4, <1>5, <1>6, <1>7, <1>8, <1>9, <1>10, <1>11
       DEF Next, Whole, Sink, Stream, Writer, Reader, Peer

(* The numbering of the command channel as a formula of its own.            *)
Numbered == \E pos \in [0..Len(cmds) -> 0..accepted] : CmdNumbering(pos)

(* A command that joins the channel takes the next number.                  *)
LEMMA CmdAppend ==
    ASSUME TypeOK, Numbered, NEW c \in Command, cmds' = Append(cmds, c),
           UNCHANGED <<written, wpc, wcmd, ws>>,
           accepted' = accepted + (IF c.k = "msg" THEN 1 ELSE 0),
           c.k = "msg" => c.n = accepted' /\ sink = "open",
           c.k = "close" /\ ws = "active" => sink' # "open",
           sink' = "open" => sink = "open"
    PROVE  Numbered'
  <1>1. PICK pos \in [0..Len(cmds) -> 0..accepted] : CmdNumbering(pos)
    BY DEF Numbered
  <1>2. PICK new : new = [i \in 0..Len(cmds) + 1 |->
                            IF i <= Len(cmds) THEN pos[i] ELSE accepted']
    OBVIOUS
  <1>3. /\ Len(cmds) \in Nat /\ Len(cmds') = Len(cmds) + 1 /\ accepted \in Nat
        /\ cmds'[Len(cmds) + 1] = c /\ accepted' \in Nat /\ accepted <= accepted'
        /\ \A i \in 1..Len(cmds) : cmds'[i] = cmds[i]
    BY DEF TypeOK, WriterType, SinkType
  <1>4. new \in [0..Len(cmds') -> 0..accepted']
    BY <1>2, <1>3
  <1>5. new[0] = Taken' /\ new[Len(cmds')] = accepted'
    BY <1>1, <1>2, <1>3 DEF CmdNumbering, Taken
  <1>6. ASSUME NEW i \in 1..Len(cmds')
        PROVE  /\ new[i] = new[i - 1] + (IF cmds'[i].k = "msg" THEN 1 ELSE 0)
               /\ cmds'[i].k = "msg" => cmds'[i].n = new[i]
               /\ cmds'[i].k = "close" /\ ws' = "active" => new[i] = accepted' /\ sink' # "open"
    <2>1. CASE i = Len(cmds) + 1
      <3>1. new[i - 1] = accepted
        BY <1>1, <1>2, <1>3, <2>1 DEF CmdNumbering
      <3>2. new[i] = accepted' /\ cmds'[i] = c
        BY <1>2, <1>3, <2>1
      <3> QED BY <3>1, <3>2
    <2>2. CASE i \in 1..Len(cmds)
      <3>1. new[i] = pos[i] /\ new[i - 1] = pos[i - 1] /\ cmds'[i] = cmds[i]
        BY <1>2, <1>3, <2>2
      <3>2. /\ pos[i] = pos[i - 1] + (IF cmds[i].k = "msg" THEN 1 ELSE 0)
            /\ cmds[i].k = "msg" => cmds[i].n = pos[i]
            /\ cmds[i].k = "close" /\ ws = "active" => pos[i] = accepted /\ sink # "open"
        BY <1>1, <2>2 DEF CmdNumbering
      <3>3. sink # "open" => accepted' = accepted
        BY <1>3
      <3> QED BY <3>1, <3>2, <3>3
    <2> QED BY <1>3, <2>1, <2>2
  <1>7. CmdNumbering(new)'
    BY <1>5, <1>6 DEF CmdNumbering
  <1> QED BY <1>4, <1>7 DEF Numbered

(* The writer takes the first command; the rest keep their numbers.         *)
LEMMA CmdTake ==
    ASSUME TypeOK, WriteInv, WriterTakes
    PROVE  /\ Numbered'
           /\ wcmd'.k = "msg" => wcmd'.n = Len(written) + 1
           /\ wcmd'.k = "close" /\ ws = "active" => Len(written) = accepted /\ sink # "open"
  <1>1. PICK pos \in [0..Len(cmds) -> 0..accepted] : CmdNumbering(pos)
    BY DEF WriteInv, WriterTakes, RxLive
  <1>2. PICK new : new = [i \in 0..Len(cmds) - 1 |-> pos[i + 1]]
    OBVIOUS
  <1>3. /\ Len(cmds) \in Nat \ {0} /\ Len(cmds') = Len(cmds) - 1
        /\ wcmd' = cmds[1] /\ cmds[1] \in Command
        /\ \A i \in 1..Len(cmds') : cmds'[i] = cmds[i + 1]
        /\ UNCHANGED <<accepted, written, ws, sink>> /\ wpc = "recv" /\ wpc' = "write"
    BY DEF WriterTakes, TypeOK, WriterType, sinks, sock
  <1>4. new \in [0..Len(cmds') -> 0..accepted']
    BY <1>2, <1>3
  <1>5. pos[0] = Len(written) /\ Len(written) \in Nat /\ pos[1] \in Nat
    BY <1>1, <1>3 DEF CmdNumbering, Taken, TypeOK, SockType
  <1>6. /\ pos[1] = pos[0] + (IF cmds[1].k = "msg" THEN 1 ELSE 0)
        /\ cmds[1].k = "msg" => cmds[1].n = pos[1]
        /\ cmds[1].k = "close" /\ ws = "active" => pos[1] = accepted /\ sink # "open"
    BY <1>1, <1>3 DEF CmdNumbering
  <1>7. new[0] = Taken' /\ new[Len(cmds')] = accepted'
    BY <1>1, <1>2, <1>3, <1>5, <1>6 DEF CmdNumbering, Taken
  <1>8. ASSUME NEW i \in 1..Len(cmds')
        PROVE  /\ new[i] = new[i - 1] + (IF cmds'[i].k = "msg" THEN 1 ELSE 0)
               /\ cmds'[i].k = "msg" => cmds'[i].n = new[i]
               /\ cmds'[i].k = "close" /\ ws' = "active" => new[i] = accepted' /\ sink' # "open"
    <2>1. i + 1 \in 1..Len(cmds) /\ cmds'[i] = cmds[i + 1]
      BY <1>3
    <2>2. new[i] = pos[i + 1] /\ new[i - 1] = pos[i]
      BY <1>2, <1>3
    <2> QED BY <1>1, <1>3, <2>1, <2>2 DEF CmdNumbering
  <1>9. CmdNumbering(new)'
    BY <1>7, <1>8 DEF CmdNumbering
  <1>10. Numbered'
    BY <1>4, <1>9 DEF Numbered
  <1> QED BY <1>3, <1>5, <1>6, <1>10

(* A step that leaves the channel and the count of taken messages alone.    *)
LEMMA CmdKept ==
    ASSUME TypeOK, Numbered, UNCHANGED <<cmds, accepted>>, Taken' = Taken,
           ws' = "active" => ws = "active", sink' = "open" => sink = "open" \/ cmds = <<>>
    PROVE  Numbered'
  <1>1. PICK pos \in [0..Len(cmds) -> 0..accepted] : CmdNumbering(pos)
    BY DEF Numbered
  <1>2. cmds = <<>> => Len(cmds) = 0
    OBVIOUS
  <1>3. CmdNumbering(pos)'
    BY <1>1, <1>2 DEF CmdNumbering
  <1> QED BY <1>3 DEF Numbered

(* Messages leave in the order the sink accepted them, and its Close after  *)
(* the last of them.                                                        *)
LEMMA WriteStep ==
    ASSUME TypeOK, ModeInv, WriteInv, AnswerInv, [Next]_vars, TypeOK'
    PROVE  WriteInv'
  <1> DEFINE Rest == /\ wpc = "write" /\ wcmd.k = "msg" => wcmd.n = Len(written) + 1
                     /\ wpc = "write" /\ wcmd.k = "close" /\ ws = "active" =>
                           Len(written) = accepted /\ sink # "open"
             Clean == \A i \in 1..Len(written) : written[i] = i
  <1>1. /\ WriteInv <=> Clean /\ Rest /\ (RxLive => Numbered)
        /\ WriteInv' <=> Clean' /\ Rest' /\ (RxLive' => Numbered')
    BY DEF WriteInv, Numbered
  <1>2. ASSUME UNCHANGED <<written, cmds, wpc, wcmd, accepted>>,
               ws' = "active" => ws = "active",
               sink' = "open" => sink = "open" \/ (cmds = <<>> /\ wpc # "write")
        PROVE  WriteInv'
    <2>1. RxLive' => Numbered'
      BY <1>1, <1>2, CmdKept DEF RxLive, Taken
    <2>2. Clean' /\ Rest'
      BY <1>1, <1>2
    <2> QED BY <1>1, <2>1, <2>2
  <1>3. ASSUME NEW c \in Command, RxLive, cmds' = Append(cmds, c),
               UNCHANGED <<written, wpc, wcmd, ws>>,
               accepted' = accepted + (IF c.k = "msg" THEN 1 ELSE 0),
               c.k = "msg" => c.n = accepted' /\ sink = "open",
               c.k = "close" /\ ws = "active" => sink' # "open",
               sink' = "open" => sink = "open"
        PROVE  WriteInv'
    <2>1. Numbered'
      BY <1>1, <1>3, CmdAppend
    <2>2. Clean'
      BY <1>1, <1>3
    <2>3. Rest'
      BY <1>1, <1>3 DEF TypeOK, SinkType
    <2> QED BY <1>1, <2>1, <2>2, <2>3
  <1>4. CASE Send
    <2>1. cmds = <<>> /\ wpc = "none" /\ Len(cmds) = 0 /\ cmds' = cmds /\ wpc' = wpc
      BY <1>4 DEF Send, Idle, ModeInv, wtask
    <2>2. PICK pos \in [0..Len(cmds) -> 0..accepted] : CmdNumbering(pos)
      BY <1>1, <2>1 DEF Numbered, RxLive
    <2>3. Len(written) = accepted
      BY <2>1, <2>2 DEF CmdNumbering, Taken, TypeOK, SockType
    <2>4. /\ written' = Append(written, accepted + 1) /\ accepted' = accepted + 1
          /\ accepted \in Nat
      BY <1>4 DEF Send, TypeOK, SinkType
    <2>5. /\ Len(written') = accepted' /\ written'[accepted'] = accepted'
          /\ \A i \in 1..Len(written) : written'[i] = written[i]
      BY <2>3, <2>4 DEF TypeOK, SockType
    <2>6. Clean'
      BY <1>1, <2>3, <2>4, <2>5
    <2>7. Numbered'
      <3>1. PICK new : new = [i \in 0..0 |-> accepted']
        OBVIOUS
      <3>2. new \in [0..Len(cmds') -> 0..accepted']
        BY <2>1, <2>4, <3>1
      <3>3. CmdNumbering(new)'
        BY <2>1, <2>5, <3>1, <2>4 DEF CmdNumbering, Taken
      <3> QED BY <3>2, <3>3 DEF Numbered
    <2> QED BY <1>1, <2>1, <2>6, <2>7
  <1>5. CASE Recv \/ ReaderReads
    BY <1>5, <1>2 DEF Recv, ReaderReads, WsReadClose, sock, wtask, sinks
  <1>6. CASE RecvNone \/ CancelRecv
    BY <1>6, <1>2 DEF RecvNone, CancelRecv, sock, wtask, sinks
  <1>7. CASE RecvReplies \/ CloseWhole
    BY <1>7, <1>2 DEF RecvReplies, CloseWhole, WsClose, wtask, sinks
  <1>8. CASE Split
    <2>1. cmds = <<>> /\ wpc = "none" /\ wpc' = "recv"
          /\ UNCHANGED <<written, cmds, wcmd, accepted, ws>>
      BY <1>8 DEF Split, Idle, ModeInv, sock
    <2>2. Numbered'
      BY <1>1, <2>1, CmdKept DEF RxLive, Taken
    <2> QED BY <1>1, <2>1, <2>2
  <1>9. CASE PollReady \/ PollNext \/ DropStream \/ ReaderFails \/ ReaderNone \/ UNCHANGED vars
    BY <1>9, <1>2 DEF PollReady, PollNext, DropStream, ReaderFails, ReaderNone, vars,
                      sock, wtask, sinks
  <1>10. CASE ReaderDelivers
    BY <1>10, <1>2 DEF ReaderDelivers, sock, wtask, sinks
  <1>11. CASE PeerSends \/ PeerCloses \/ TransportFails
    BY <1>11, <1>2 DEF PeerSends, PeerCloses, TransportFails, sock, wtask, sinks
  <1>12. CASE StartSend
    <2>1. accepted' = accepted + 1 /\ accepted' \in Nat /\ sink = "open"
          /\ UNCHANGED <<written, wpc, wcmd, ws, sink>>
      BY <1>12 DEF StartSend, TypeOK, SinkType, sock, wtask
    <2>2. CASE RxLive
      <3>1. cmds' = Append(cmds, Msg(accepted'))
        BY <1>12, <2>2 DEF StartSend, Queue
      <3> QED BY <1>3, <2>1, <2>2, <3>1, CommandTypes
    <2>3. CASE ~RxLive
      BY <1>1, <2>1, <2>3 DEF RxLive
    <2> QED BY <2>2, <2>3
  <1>13. CASE PollClose \/ DropSink
    <2>1. sink' # "open" /\ UNCHANGED <<written, wpc, wcmd, ws, accepted>>
      BY <1>13 DEF PollClose, DropSink, sock, wtask
    <2>2. UNCHANGED cmds \/ (RxLive /\ cmds' = Append(cmds, Close))
      BY <1>13 DEF PollClose, DropSink, Room, Queue
    <2>3. CASE UNCHANGED cmds
      BY <1>2, <2>1, <2>3
    <2>4. CASE RxLive /\ cmds' = Append(cmds, Close)
      BY <1>3, <2>1, <2>4, CommandTypes DEF TypeOK, SinkType
    <2> QED BY <2>2, <2>3, <2>4
  <1>14. CASE ReaderPongs
    <2>1. UNCHANGED <<written, wpc, wcmd, ws, accepted, sink>>
      BY <1>14 DEF ReaderPongs, sock, wtask, sinks
    <2>2. UNCHANGED cmds \/ (RxLive /\ cmds' = Append(cmds, Pong))
      BY <1>14 DEF ReaderPongs, Room, Queue
    <2>3. CASE UNCHANGED cmds
      BY <1>2, <2>1, <2>3
    <2>4. CASE RxLive /\ cmds' = Append(cmds, Pong)
      BY <1>3, <2>1, <2>4, CommandTypes DEF TypeOK, SinkType
    <2> QED BY <2>2, <2>3, <2>4
  <1>15. CASE ReaderCloses
    <2>1. UNCHANGED <<written, wpc, wcmd, ws, accepted, sink>> /\ ws # "active"
      BY <1>15 DEF ReaderCloses, sock, wtask, sinks, AnswerInv
    <2>2. UNCHANGED cmds \/ (RxLive /\ cmds' = Append(cmds, Close))
      BY <1>15 DEF ReaderCloses, Room, Queue
    <2>3. CASE UNCHANGED cmds
      BY <1>2, <2>1, <2>3
    <2>4. CASE RxLive /\ cmds' = Append(cmds, Close)
      BY <1>3, <2>1, <2>4, CommandTypes DEF TypeOK, SinkType
    <2> QED BY <2>2, <2>3, <2>4
  <1>16. CASE WriterTakes
    <2>1. UNCHANGED <<written, ws, accepted, sink>>
      BY <1>16 DEF WriterTakes, sock, sinks
    <2> QED BY <1>1, <1>16, <2>1, CmdTake
  <1>17. CASE WriterSends
    <2>1. UNCHANGED <<ws, accepted, sink>> /\ wpc = "write" /\ wcmd.k = "msg" /\ wpc' # "write"
      BY <1>17 DEF WriterSends, sinks, WriterEnds
    <2>2. CASE CanWrite
      <3>1. written' = Append(written, wcmd.n) /\ wpc' = "recv" /\ UNCHANGED cmds
            /\ wcmd.n = Len(written) + 1
        BY <1>1, <1>17, <2>1, <2>2 DEF WriterSends
      <3>2. /\ Len(written') = Len(written) + 1 /\ Len(written) \in Nat
            /\ written'[Len(written) + 1] = Len(written) + 1
            /\ \A i \in 1..Len(written) : written'[i] = written[i]
        BY <3>1 DEF TypeOK, SockType
      <3>3. Clean'
        BY <1>1, <3>2
      <3>4. Taken' = Taken
        BY <2>1, <3>1, <3>2 DEF Taken
      <3>5. Numbered'
        BY <1>1, <2>1, <3>1, <3>4, CmdKept DEF RxLive
      <3> QED BY <1>1, <2>1, <3>3, <3>5
    <2>3. CASE ~CanWrite
      <3>1. wpc' = "ended" /\ UNCHANGED written
        BY <1>17, <2>3 DEF WriterSends, WriterEnds
      <3> QED BY <1>1, <2>1, <3>1 DEF RxLive
    <2> QED BY <2>2, <2>3
  <1>18. CASE WriterPongs
    <2>1. UNCHANGED <<written, ws, cmds, accepted, sink>> /\ wpc = "write" /\ wcmd.k = "pong"
          /\ wpc' = "recv"
      BY <1>18 DEF WriterPongs, sock, sinks
    <2>2. Numbered'
      BY <1>1, <2>1, CmdKept DEF RxLive, Taken
    <2> QED BY <1>1, <2>1, <2>2
  <1>19. CASE WriterCloses \/ WriterDone
    BY <1>1, <1>19 DEF WriterCloses, WriterDone, WriterEnds, WsClose, RxLive, sock
  <1> QED BY <1>4, <1>5, <1>6, <1>7, <1>8, <1>9, <1>10, <1>11, <1>12, <1>13, <1>14, <1>15,
             <1>16, <1>17, <1>18, <1>19
       DEF Next, Whole, Sink, Stream, Writer, Reader, Peer

(* A message in the writer's hands has not been written.                    *)
LEMMA HeldUnwritten ==
    ASSUME TypeOK, WriteInv, wpc = "write", wcmd.k = "msg"
    PROVE  Len(written) < accepted
  <1>1. PICK pos \in [0..Len(cmds) -> 0..accepted] : CmdNumbering(pos)
    BY DEF WriteInv, RxLive
  <1>2. pos[0] = Len(written) + 1 /\ pos[0] \in 0..accepted
    BY <1>1 DEF CmdNumbering, Taken, TypeOK, WriterType
  <1> QED BY <1>2 DEF TypeOK, SockType, SinkType

(* The peer's Close is answered: the reader queues a Close for the writer,  *)
(* which flushes the reply unless a message it could not send ended it.     *)
LEMMA AnswerStep ==
    ASSUME TypeOK, ModeInv, WriteInv, AnswerInv, [Next]_vars, TypeOK'
    PROVE  AnswerInv'
  <1>0. /\ Len(written) \in Nat /\ Len(written') \in Nat /\ accepted \in Nat /\ accepted' \in Nat
        /\ ws \in {"active", "byUs", "byPeer", "acked"} /\ sawClose \in BOOLEAN
        /\ reply \in BOOLEAN /\ broken \in BOOLEAN
    BY DEF TypeOK, SockType, SinkType, ReaderType
  <1>1. ASSUME UNCHANGED <<rpc, ritem, sawClose, wpc, wcmd, cmds, written, ws, reply>>,
               broken => broken', accepted <= accepted'
        PROVE  AnswerInv'
    BY <1>0, <1>1 DEF AnswerInv, CloseQueued, RxLive
  <1>2. CASE Send \/ Recv \/ RecvNone \/ RecvReplies \/ CancelRecv \/ CloseWhole
    <2>1. mode = "whole"
      BY <1>2 DEF Send, Recv, RecvNone, RecvReplies, CancelRecv, CloseWhole, Idle, ModeInv,
                  TypeOK, WholeType
    <2>2. UNCHANGED <<mode, rpc, wpc, sawClose>>
      BY <1>2 DEF Send, Recv, RecvNone, RecvReplies, CancelRecv, CloseWhole, whole, wtask, rtask
    <2> QED BY <2>1, <2>2 DEF ModeInv, AnswerInv
  <1>3. CASE Split
    BY <1>3 DEF Split, Idle, ModeInv, AnswerInv, sock
  <1>4. CASE PollReady \/ PollNext \/ DropStream \/ PeerSends \/ PeerCloses \/ UNCHANGED vars
    BY <1>0, <1>4, <1>1 DEF PollReady, PollNext, DropStream, PeerSends, PeerCloses, vars,
                      sock, wtask, rtask, sinks
  <1>5. CASE TransportFails
    BY <1>0, <1>5, <1>1 DEF TransportFails, wtask, rtask, sinks
  <1>6. ASSUME NEW c \in Command, cmds' = Append(cmds, c)
        PROVE  CloseQueued /\ UNCHANGED <<wpc, wcmd>> => CloseQueued'
    <2>1. Len(cmds') = Len(cmds) + 1 /\ Len(cmds) \in Nat
          /\ \A i \in 1..Len(cmds) : cmds'[i] = cmds[i] /\ i \in 1..Len(cmds')
      BY <1>6 DEF TypeOK, WriterType
    <2> QED BY <2>1 DEF CloseQueued
  <1>7. CASE StartSend
    <2>1. /\ UNCHANGED <<rpc, ritem, sawClose, wpc, wcmd, written, ws, reply, broken>>
          /\ accepted' = accepted + 1
      BY <1>7 DEF StartSend, sock, wtask, rtask
    <2>2. CloseQueued => CloseQueued'
      BY <1>0, <1>6, <1>7, <2>1, CommandTypes DEF StartSend, Queue, CloseQueued
    <2> QED BY <1>0, <2>1, <2>2 DEF AnswerInv, RxLive
  <1>8. CASE PollClose \/ DropSink
    <2>1. /\ UNCHANGED <<rpc, ritem, sawClose, wpc, wcmd, written, ws, reply, broken, accepted>>
      BY <1>8 DEF PollClose, DropSink, sock, wtask, rtask
    <2>2. CloseQueued => CloseQueued'
      BY <1>6, <1>8, <2>1, CommandTypes DEF PollClose, DropSink, Queue, CloseQueued
    <2> QED BY <1>0, <2>1, <2>2 DEF AnswerInv, RxLive
  <1>9. CASE WriterTakes
    <2>1. /\ UNCHANGED <<rpc, ritem, sawClose, written, ws, reply, broken, accepted>>
          /\ wpc = "recv" /\ wpc' = "write"
      BY <1>9 DEF WriterTakes, sock, rtask, sinks
    <2>2. CloseQueued => CloseQueued'
      <3>1. /\ Len(cmds) \in Nat \ {0} /\ Len(cmds') = Len(cmds) - 1 /\ wcmd' = cmds[1]
            /\ \A i \in 1..Len(cmds') : cmds'[i] = cmds[i + 1]
        BY <1>9 DEF WriterTakes, TypeOK, WriterType
      <3>2. \A i \in 2..Len(cmds) : i - 1 \in 1..Len(cmds') /\ cmds'[i - 1] = cmds[i]
        BY <3>1
      <3>3. \A i \in 1..Len(cmds) : i = 1 \/ i \in 2..Len(cmds)
        BY <3>1
      <3> QED BY <2>1, <3>1, <3>2, <3>3 DEF CloseQueued
    <2> QED BY <1>0, <2>1, <2>2 DEF AnswerInv, RxLive
  <1>10. CASE WriterSends
    <2>1. /\ UNCHANGED <<rpc, ritem, sawClose, ws, reply, broken, accepted>>
          /\ wpc = "write" /\ wcmd.k = "msg"
      BY <1>10 DEF WriterSends, rtask, sinks
    <2>2. CASE CanWrite
      <3>1. wpc' = "recv" /\ UNCHANGED cmds
        BY <1>10, <2>2 DEF WriterSends
      <3> QED BY <1>0, <2>1, <3>1 DEF AnswerInv, RxLive, CloseQueued
    <2>3. CASE ~CanWrite
      <3>1. wpc' = "ended" /\ UNCHANGED written
        BY <1>10, <2>3 DEF WriterSends, WriterEnds
      <3> QED BY <2>1, <3>1, HeldUnwritten DEF AnswerInv, RxLive
    <2> QED BY <2>2, <2>3
  <1>11. CASE WriterPongs
    <2>1. /\ UNCHANGED <<rpc, ritem, sawClose, written, ws, reply, broken, accepted, cmds, wcmd>>
          /\ wpc = "write" /\ wcmd.k = "pong" /\ wpc' = "recv"
      BY <1>11 DEF WriterPongs, sock, rtask, sinks
    <2> QED BY <1>0, <2>1 DEF AnswerInv, RxLive, CloseQueued
  <1>12. CASE WriterCloses
    <2>1. /\ UNCHANGED <<rpc, ritem, sawClose, broken>> /\ wpc' = "ended"
          /\ reply' = (reply /\ broken)
          /\ ~broken => ws' # "active"
          /\ ws \in {"byPeer", "acked"} => ws' \in {"byPeer", "acked"}
      BY <1>0, <1>12 DEF WriterCloses, WsClose, WriterEnds, rtask
    <2> QED BY <1>0, <2>1 DEF AnswerInv, RxLive
  <1>13. CASE WriterDone
    <2>1. /\ UNCHANGED <<rpc, ritem, sawClose, ws, reply, broken, written, accepted>>
          /\ wpc = "recv" /\ wpc' = "ended" /\ cmds = <<>> /\ rpc = "ended"
      BY <1>13 DEF WriterDone, WriterEnds, CmdsClosed, sock, rtask, sinks
    <2>2. ~CloseQueued /\ RxLive
      BY <2>1 DEF CloseQueued, RxLive
    <2> QED BY <2>1, <2>2 DEF AnswerInv, RxLive
  <1>14. CASE ReaderReads
    <2>1. /\ UNCHANGED <<written, broken, accepted, wpc, wcmd, cmds>> /\ rpc = "read"
          /\ rpc' \in {"pong", "deliver"} /\ (sawClose' <=> ritem' = Closed)
      BY <1>14 DEF ReaderReads, sinks, wtask, WsReadClose, sock
    <2>2. CASE ritem' = Closed
      <3>1. rpc' = "deliver"
        <4>1. rpc' = IF ritem' = Ping THEN "pong" ELSE "deliver"
          BY <1>14, Zenon DEF ReaderReads
        <4> QED BY <2>2, <4>1 DEF Closed, Ping
      <3>2. WsReadClose
        BY <1>14, <2>2 DEF ReaderReads
      <3>3. ws' \in {"byPeer", "acked"}
        BY <3>2 DEF WsReadClose
      <3>4. reply' <=> ws = "active"
        BY <3>2, Zenon DEF WsReadClose
      <3> QED BY <1>0, <2>1, <2>2, <3>1, <3>3, <3>4 DEF AnswerInv
    <2>3. CASE ritem' # Closed
      <3>1. UNCHANGED <<ws, reply>> /\ ~sawClose'
        BY <1>14, <2>1, <2>3 DEF ReaderReads, sock
      <3> QED BY <1>0, <2>1, <2>3, <3>1 DEF AnswerInv
    <2> QED BY <2>2, <2>3
  <1>15. CASE ReaderFails \/ ReaderNone
    <2>1. /\ UNCHANGED <<sawClose, ws, broken, written, accepted, wpc, wcmd, cmds>>
          /\ rpc = "read" /\ (rpc' = "ended" \/ (rpc' = "deliver" /\ ritem' = Failed))
      BY <1>15 DEF ReaderFails, ReaderNone, sock, sinks, wtask
    <2>2. ~sawClose /\ Failed # Closed
      BY <2>1 DEF AnswerInv, Failed, Closed
    <2> QED BY <1>0, <2>1, <2>2 DEF AnswerInv
  <1>16. CASE ReaderDelivers
    <2>1. /\ UNCHANGED <<sawClose, ws, reply, broken, written, accepted, wpc, wcmd, cmds>>
          /\ rpc = "deliver"
      BY <1>16 DEF ReaderDelivers, sock, sinks, wtask
    <2>2. rpc' \in {"closing", "read", "ended"} /\ (ritem = Closed <=> rpc' = "closing")
      <3>1. rpc' = CASE ritem = Closed -> "closing"
                    [] ritem > 0 /\ stream = "open" -> "read"
                    [] OTHER -> "ended"
        BY <1>16, Zenon DEF ReaderDelivers
      <3>2. ritem \in Int
        BY DEF TypeOK, ReaderType
      <3> QED BY <3>1, <3>2 DEF Closed
    <2> QED BY <1>0, <2>1, <2>2 DEF AnswerInv
  <1>17. CASE ReaderPongs
    <2>1. /\ UNCHANGED <<ritem, sawClose, wpc, wcmd, written, ws, reply, broken, accepted>>
          /\ rpc = "pong" /\ rpc' = "read"
      BY <1>17 DEF ReaderPongs, sock, wtask, sinks
    <2> QED BY <1>0, <2>1 DEF AnswerInv
  <1>18. CASE ReaderCloses
    <2>1. /\ UNCHANGED <<ritem, sawClose, wpc, wcmd, written, ws, reply, broken, accepted>>
          /\ rpc = "closing" /\ rpc' = "ended"
      BY <1>18 DEF ReaderCloses, sock, wtask, sinks
    <2>2. RxLive => CloseQueued'
      <3>1. RxLive => cmds' = Append(cmds, Close)
        BY <1>18 DEF ReaderCloses, Queue
      <3>2. RxLive => Len(cmds') \in 1..Len(cmds') /\ cmds'[Len(cmds')].k = "close"
        BY <3>1, CommandTypes DEF TypeOK, WriterType
      <3> QED BY <3>2 DEF CloseQueued
    <2> QED BY <1>0, <2>1, <2>2 DEF AnswerInv, RxLive
  <1> QED BY <1>2, <1>3, <1>4, <1>5, <1>7, <1>8, <1>9, <1>10, <1>11, <1>12, <1>13, <1>14, <1>15,
             <1>16, <1>17, <1>18
       DEF Next, Whole, Sink, Stream, Writer, Reader, Peer

(* Everything that came for the application, taken or waiting.              *)
Items == got \o msgs

(* How a step changes the sequence of all items: not, by one more item, or  *)
(* by dropping those that wait.                                             *)
LEMMA AllItems ==
    ASSUME NEW s \in Seq(Int), NEW t \in Seq(Int)
    PROVE  /\ s \o t \in Seq(Int)
           /\ t # <<>> => Append(s, Head(t)) \o Tail(t) = s \o t
           /\ \A e \in Int : s \o Append(t, e) = Append(s \o t, e)
           /\ s \o <<>> = s
           /\ Len(s) <= Len(s \o t)
           /\ \A i \in 1..Len(s) : s[i] = (s \o t)[i]
  <1>1. ASSUME NEW e \in Int PROVE s \o Append(t, e) = Append(s \o t, e)
    BY <1>1, AppendIsConcat, ConcatAssociative
  <1>2. ASSUME t # <<>> PROVE Append(s, Head(t)) \o Tail(t) = s \o t
    <2> DEFINE u == Append(s, Head(t)) \o Tail(t)
               v == s \o t
    <2>1. Head(t) \in Int /\ Tail(t) \in Seq(Int) /\ Len(Tail(t)) = Len(t) - 1
      BY <1>2
    <2>2. u \in Seq(Int) /\ v \in Seq(Int) /\ Len(u) = Len(v)
      BY <2>1
    <2>3. \A i \in 1..Len(u) : u[i] = v[i]
      BY <1>2, <2>1
    <2> QED BY <2>2, <2>3, SeqEqual
  <1>3. s \o <<>> = s /\ s \o t \in Seq(Int)
    OBVIOUS
  <1>4. Len(s \o t) = Len(s) + Len(t) /\ Len(s) \in Nat /\ Len(t) \in Nat
    OBVIOUS
  <1>5. \A i \in 1..Len(s) : s[i] = (s \o t)[i]
    OBVIOUS
  <1>6. Len(s) <= Len(s \o t)
    BY <1>4
  <1> QED BY <1>1, <1>2, <1>3, <1>5, <1>6

(* The parts of ReadInv that the steps of the reader treat one by one.      *)
InboxShape ==
    \A i \in 1..Len(inbox) : /\ inbox[i] > 0 \/ inbox[i] \in {Closed, Ping}
                             /\ inbox[i] = Closed => i = Len(inbox) /\ peerClosed
InboxNumbered == \E pos \in [0..Len(inbox) -> 0..peerSent] : InboxNumbering(pos)
HeldItem ==
    /\ rpc = "deliver" => ritem \in {Failed, Closed} \/ ritem > 0
    /\ Reading /\ rpc = "deliver" /\ ritem > 0 => ritem = Reached
    /\ Reading /\ rpc = "deliver" /\ ritem = Closed => Reached = peerSent + 1 /\ peerClosed
Unread == Reading /\ ws \in {"active", "byUs"} /\ (rpc = "deliver" => ritem > 0)
Clean(all) == \A i \in 1..Len(all) : all[i] = i
NoClosed(all) == \A i \in 1..Len(all) : all[i] # Closed
Complete(all) ==
    \A i \in 1..Len(all) :
       \/ all[i] = i
       \/ i = Len(all) /\ all[i] = Failed
       \/ i = Len(all) /\ all[i] = Closed /\ i = peerSent + 1

(* The parts of ReadInv, under the names the steps below use.               *)
LEMMA ReadParts ==
    /\ ReadInv <=> /\ InboxShape /\ HeldItem /\ (stream = "dropped" => msgs = <<>>)
                   /\ (Reading => Clean(Items)) /\ (Unread => InboxNumbered)
                   /\ (~NoClosed(Items) => peerClosed)
    /\ StreamComplete <=> Complete(Items)
    /\ Reached = Len(Items) + (IF rpc = "deliver" THEN 1 ELSE 0)
  BY DEF ReadInv, InboxShape, HeldItem, Clean, Items, Unread, InboxNumbered, NoClosed,
         StreamComplete, Complete, Reached

(* The reader takes the first item of the inbox; the rest keep their place. *)
LEMMA InboxTake ==
    ASSUME TypeOK, InboxShape, InboxNumbered, inbox # <<>>, inbox' = Tail(inbox),
           UNCHANGED <<peerSent, peerClosed>>, Reached \in Nat
    PROVE  /\ Reached' = Reached + (IF Head(inbox) > 0 THEN 1 ELSE 0) => InboxNumbered'
           /\ Head(inbox) > 0 => Head(inbox) = Reached + 1
           /\ Head(inbox) = Closed => Reached = peerSent
  <1>1. PICK pos \in [0..Len(inbox) -> 0..peerSent] : InboxNumbering(pos)
    BY DEF InboxNumbered
  <1>2. PICK new : new = [i \in 0..Len(inbox) - 1 |-> pos[i + 1]]
    OBVIOUS
  <1>3. /\ Len(inbox) \in Nat \ {0} /\ Len(inbox') = Len(inbox) - 1
        /\ Head(inbox) = inbox[1] /\ inbox[1] \in Int /\ peerSent \in Nat
        /\ \A i \in 1..Len(inbox') : inbox'[i] = inbox[i + 1]
    BY DEF TypeOK, PeerType
  <1>4. new \in [0..Len(inbox') -> 0..peerSent']
    BY <1>2, <1>3
  <1>5. /\ pos[0] = Reached /\ pos[1] = pos[0] + (IF inbox[1] > 0 THEN 1 ELSE 0)
        /\ inbox[1] > 0 => inbox[1] = pos[1]
        /\ pos[Len(inbox)] = peerSent
    BY <1>1, <1>3 DEF InboxNumbering
  <1>6. ASSUME Reached' = Reached + (IF Head(inbox) > 0 THEN 1 ELSE 0)
        PROVE  InboxNumbered'
    <2>1. new[0] = Reached' /\ new[Len(inbox')] = peerSent'
      BY <1>2, <1>3, <1>5, <1>6
    <2>2. ASSUME NEW i \in 1..Len(inbox')
          PROVE  /\ new[i] = new[i - 1] + (IF inbox'[i] > 0 THEN 1 ELSE 0)
                 /\ inbox'[i] > 0 => inbox'[i] = new[i]
      <3>1. i + 1 \in 1..Len(inbox) /\ inbox'[i] = inbox[i + 1]
        BY <1>3
      <3>2. new[i] = pos[i + 1] /\ new[i - 1] = pos[i]
        BY <1>2, <1>3
      <3> QED BY <1>1, <1>3, <3>1, <3>2 DEF InboxNumbering
    <2>3. InboxNumbering(new)'
      BY <2>1, <2>2 DEF InboxNumbering
    <2> QED BY <1>4, <2>3 DEF InboxNumbered
  <1>7. inbox[1] = Closed => Len(inbox) = 1 /\ ~(inbox[1] > 0)
    <2>1. 1 \in 1..Len(inbox) /\ ~(Closed > 0)
      BY <1>3 DEF Closed
    <2> QED BY <2>1, Zenon DEF InboxShape
  <1> QED BY <1>3, <1>5, <1>6, <1>7

(* The peer sends; what is in the inbox keeps its place.                    *)
LEMMA InboxAppend ==
    ASSUME TypeOK, InboxNumbered, NEW e \in Int, inbox' = Append(inbox, e),
           peerSent' = peerSent + (IF e > 0 THEN 1 ELSE 0), e > 0 => e = peerSent',
           Reached' = Reached
    PROVE  InboxNumbered'
  <1>1. PICK pos \in [0..Len(inbox) -> 0..peerSent] : InboxNumbering(pos)
    BY DEF InboxNumbered
  <1>2. PICK new : new = [i \in 0..Len(inbox) + 1 |->
                            IF i <= Len(inbox) THEN pos[i] ELSE peerSent']
    OBVIOUS
  <1>3. /\ Len(inbox) \in Nat /\ Len(inbox') = Len(inbox) + 1 /\ peerSent \in Nat
        /\ inbox'[Len(inbox) + 1] = e /\ peerSent' \in Nat /\ peerSent <= peerSent'
        /\ \A i \in 1..Len(inbox) : inbox'[i] = inbox[i]
    BY DEF TypeOK, PeerType
  <1>4. new \in [0..Len(inbox') -> 0..peerSent']
    BY <1>2, <1>3
  <1>5. new[0] = Reached' /\ new[Len(inbox')] = peerSent'
    BY <1>1, <1>2, <1>3 DEF InboxNumbering
  <1>6. ASSUME NEW i \in 1..Len(inbox')
        PROVE  /\ new[i] = new[i - 1] + (IF inbox'[i] > 0 THEN 1 ELSE 0)
               /\ inbox'[i] > 0 => inbox'[i] = new[i]
    <2>1. CASE i = Len(inbox) + 1
      <3>1. new[i - 1] = peerSent
        BY <1>1, <1>2, <1>3, <2>1 DEF InboxNumbering
      <3>2. new[i] = peerSent' /\ inbox'[i] = e
        BY <1>2, <1>3, <2>1
      <3> QED BY <3>1, <3>2
    <2>2. CASE i \in 1..Len(inbox)
      <3>1. new[i] = pos[i] /\ new[i - 1] = pos[i - 1] /\ inbox'[i] = inbox[i]
        BY <1>2, <1>3, <2>2
      <3> QED BY <1>1, <2>2, <3>1 DEF InboxNumbering
    <2> QED BY <1>3, <2>1, <2>2
  <1>7. InboxNumbering(new)'
    BY <1>5, <1>6 DEF InboxNumbering
  <1> QED BY <1>4, <1>7 DEF InboxNumbered

(* The shape of the inbox: only its last item can be the peer's Close.      *)
LEMMA ShapeStep ==
    ASSUME TypeOK, InboxShape
    PROVE  /\ inbox # <<>> /\ inbox' = Tail(inbox) /\ UNCHANGED peerClosed => InboxShape'
           /\ \A e \in Int : ~peerClosed /\ inbox' = Append(inbox, e)
                  /\ (e > 0 \/ e = Ping \/ (e = Closed /\ peerClosed')) => InboxShape'
  <1>1. ASSUME inbox # <<>>, inbox' = Tail(inbox), UNCHANGED peerClosed
        PROVE  InboxShape'
    <2>1. /\ Len(inbox) \in Nat \ {0} /\ Len(inbox') = Len(inbox) - 1
          /\ \A i \in 1..Len(inbox') : inbox'[i] = inbox[i + 1]
      BY <1>1 DEF TypeOK, PeerType
    <2> SUFFICES ASSUME NEW i \in 1..Len(inbox')
                 PROVE  /\ inbox'[i] > 0 \/ inbox'[i] \in {Closed, Ping}
                        /\ inbox'[i] = Closed => i = Len(inbox') /\ peerClosed'
      BY DEF InboxShape
    <2>2. i + 1 \in 1..Len(inbox) /\ inbox'[i] = inbox[i + 1]
      BY <2>1
    <2>3. /\ inbox[i + 1] > 0 \/ inbox[i + 1] \in {Closed, Ping}
          /\ inbox[i + 1] = Closed => i + 1 = Len(inbox) /\ peerClosed
      BY <2>2 DEF InboxShape
    <2>4. i + 1 = Len(inbox) => i = Len(inbox')
      BY <2>1
    <2> QED BY <1>1, <2>2, <2>3, <2>4, Zenon
  <1>2. ASSUME NEW e \in Int, ~peerClosed, inbox' = Append(inbox, e),
               e > 0 \/ e = Ping \/ (e = Closed /\ peerClosed')
        PROVE  InboxShape'
    <2>1. /\ Len(inbox) \in Nat /\ Len(inbox') = Len(inbox) + 1
          /\ inbox'[Len(inbox) + 1] = e
          /\ \A i \in 1..Len(inbox) : inbox'[i] = inbox[i]
      BY <1>2 DEF TypeOK, PeerType
    <2> SUFFICES ASSUME NEW i \in 1..Len(inbox')
                 PROVE  /\ inbox'[i] > 0 \/ inbox'[i] \in {Closed, Ping}
                        /\ inbox'[i] = Closed => i = Len(inbox') /\ peerClosed'
      BY DEF InboxShape
    <2>2. CASE i = Len(inbox')
      BY <1>2, <2>1, <2>2 DEF Closed, Ping
    <2>3. CASE i \in 1..Len(inbox)
      <3>1. /\ inbox[i] > 0 \/ inbox[i] \in {Closed, Ping}
            /\ inbox[i] # Closed
        BY <1>2, <2>3 DEF InboxShape
      <3> QED BY <2>1, <2>3, <3>1
    <2> QED BY <2>1, <2>2, <2>3
  <1> QED BY <1>1, <1>2

(* One more item for the application.                                       *)
LEMMA ItemsAppend ==
    ASSUME NEW s \in Seq(Int), NEW e \in Int, Clean(s), peerSent \in Nat, UNCHANGED peerSent
    PROVE  /\ e = Len(s) + 1 => Clean(Append(s, e))
           /\ e = Len(s) + 1 \/ e = Failed \/ (e = Closed /\ Len(s) = peerSent)
              => Complete(Append(s, e))'
           /\ e # Closed => NoClosed(Append(s, e))
           /\ Len(Append(s, e)) = Len(s) + 1
  <1>1. /\ Len(s) \in Nat /\ Len(Append(s, e)) = Len(s) + 1
        /\ Append(s, e)[Len(s) + 1] = e
        /\ \A i \in 1..Len(s) : Append(s, e)[i] = s[i]
    OBVIOUS
  <1> QED BY <1>1 DEF Clean, Complete, NoClosed, Closed, Failed

(* The application's messages: a step that only moves the reader, or that   *)
(* does not concern it, keeps them.                                         *)
LEMMA ReadKept ==
    ASSUME TypeOK, ReadInv, StreamComplete,
           UNCHANGED <<got, msgs, inbox, peerSent, peerClosed>>,
           stream' = "dropped" <=> stream = "dropped",
           ws' \in {"active", "byUs"} => ws \in {"active", "byUs"},
           \/ UNCHANGED <<rpc, ritem>>
           \/ rpc' # "deliver" /\ (Reading' => Reading /\ rpc # "deliver")
    PROVE  ReadInv' /\ StreamComplete'
  <1>1. Reading' => Reading
    BY DEF Reading
  <1>2. Reading' => Reached' = Reached
    BY ReadParts DEF Reached
  <1>3. Items' = Items
    BY DEF Items
  <1>4. Unread' => InboxNumbered'
    <2> SUFFICES ASSUME Unread' PROVE InboxNumbered'
      OBVIOUS
    <2>1. Unread /\ Reached' = Reached
      BY <1>1, <1>2 DEF Unread
    <2>2. PICK pos \in [0..Len(inbox) -> 0..peerSent] : InboxNumbering(pos)
      BY <2>1, ReadParts DEF InboxNumbered
    <2>3. InboxNumbering(pos)'
      BY <2>1, <2>2 DEF InboxNumbering
    <2> QED BY <2>3 DEF InboxNumbered
  <1>5. InboxShape'
    BY ReadParts DEF InboxShape
  <1>6. HeldItem'
    BY <1>1, <1>2, ReadParts DEF HeldItem
  <1>7. (stream' = "dropped" => msgs' = <<>>) /\ (Reading' => Clean(Items)')
        /\ (~NoClosed(Items)' => peerClosed') /\ Complete(Items)'
    BY <1>1, <1>3, ReadParts DEF Clean, NoClosed, Complete
  <1>8. /\ ReadInv' <=> /\ InboxShape' /\ HeldItem' /\ (stream' = "dropped" => msgs' = <<>>)
                        /\ (Reading' => Clean(Items)') /\ (Unread' => InboxNumbered')
                        /\ (~NoClosed(Items)' => peerClosed')
        /\ StreamComplete' <=> Complete(Items)'
    BY DEF ReadInv, InboxShape, HeldItem, Clean, Items, Unread, InboxNumbered, NoClosed,
           StreamComplete, Complete, Reached
  <1> QED BY <1>4, <1>5, <1>6, <1>7, <1>8

(* The application gets the peer's messages in order, whoever reads them.   *)
LEMMA ReadStep ==
    ASSUME TypeOK, ModeInv, ReadInv, StreamComplete, AnswerInv, [Next]_vars, TypeOK'
    PROVE  ReadInv' /\ StreamComplete'
  <1>0. /\ got \in Seq(Int) /\ msgs \in Seq(Int) /\ inbox \in Seq(Int) /\ ritem \in Int
        /\ peerSent \in Nat /\ Items \in Seq(Int) /\ Len(Items) \in Nat /\ Reached \in Nat
    <2>1. got \in Seq(Int) /\ msgs \in Seq(Int) /\ inbox \in Seq(Int) /\ ritem \in Int /\ peerSent \in Nat
      BY DEF TypeOK, OutType, PeerType, ReaderType
    <2>2. Items \in Seq(Int)
      BY <2>1, AllItems DEF Items
    <2>3. Len(Items) \in Nat
      BY <2>2
    <2> QED BY <2>1, <2>2, <2>3, ReadParts
  <1>1. /\ InboxShape /\ HeldItem /\ (stream = "dropped" => msgs = <<>>)
        /\ (Reading => Clean(Items)) /\ (Unread => InboxNumbered)
        /\ (~NoClosed(Items) => peerClosed) /\ Complete(Items)
        /\ Reached = Len(Items) + (IF rpc = "deliver" THEN 1 ELSE 0)
    BY ReadParts
  <1>2. ASSUME InboxShape', HeldItem', stream' = "dropped" => msgs' = <<>>,
               Reading' => Clean(Items'), Unread' => InboxNumbered',
               ~NoClosed(Items') => peerClosed', Complete(Items)'
        PROVE  ReadInv' /\ StreamComplete'
    <2>1. /\ ReadInv' <=> /\ InboxShape' /\ HeldItem' /\ (stream' = "dropped" => msgs' = <<>>)
                          /\ (Reading' => Clean(Items)') /\ (Unread' => InboxNumbered')
                          /\ (~NoClosed(Items)' => peerClosed')
          /\ StreamComplete' <=> Complete(Items)'
      BY DEF ReadInv, InboxShape, HeldItem, Clean, Items, Unread, InboxNumbered, NoClosed,
             StreamComplete, Complete, Reached
    <2>2. (Clean(Items)' <=> Clean(Items')) /\ (NoClosed(Items)' <=> NoClosed(Items'))
      BY DEF Clean, NoClosed
    <2> QED BY <1>2, <2>1, <2>2
  <1>3. Reached' = Len(Items') + (IF rpc' = "deliver" THEN 1 ELSE 0)
    BY ReadParts DEF Reached, Items
  <1>4. CASE Send \/ RecvNone \/ CancelRecv
    BY <1>4, ReadKept DEF Send, RecvNone, CancelRecv, peer, outs, rtask, sock
  <1>5. CASE RecvReplies \/ CloseWhole
    BY <1>5, ReadKept DEF RecvReplies, CloseWhole, WsClose, peer, outs, rtask, ModeInv
  <1>6. CASE Split
    BY <1>6, ReadKept DEF Split, Idle, ModeInv, peer, sock, Reading
  <1>7. CASE PollReady \/ StartSend \/ PollClose \/ DropSink
    <2>1. UNCHANGED <<got, msgs, inbox, peerSent, peerClosed, stream, ws, rpc, ritem>>
      BY <1>7 DEF PollReady, StartSend, PollClose, DropSink, peer, outs, rtask, sock
    <2> QED BY <2>1, ReadKept
  <1>8. CASE WriterTakes \/ WriterSends \/ WriterPongs \/ WriterDone
    <2>1. UNCHANGED <<got, msgs, inbox, peerSent, peerClosed, stream, ws, rpc, ritem>>
      BY <1>8 DEF WriterTakes, WriterSends, WriterPongs, WriterDone, peer, outs, rtask, sock
    <2> QED BY <2>1, ReadKept
  <1>9. CASE WriterCloses
    BY <1>9, ReadKept DEF WriterCloses, WsClose, peer, outs, rtask
  <1>10. CASE ReaderNone \/ ReaderPongs \/ ReaderCloses
    BY <1>10, ReadKept DEF ReaderNone, ReaderPongs, ReaderCloses, Reading, peer, outs, sock
  <1>11. CASE TransportFails \/ UNCHANGED vars
    BY <1>11, ReadKept DEF TransportFails, vars, peer, outs, rtask, sock
  <1>12. CASE Recv
    <2>1. /\ rpc = "none" /\ stream = "none" /\ msgs = <<>> /\ UNCHANGED <<msgs, stream, rpc, ritem>>
          /\ UNCHANGED <<peerSent, peerClosed>> /\ inbox # <<>> /\ inbox' = Tail(inbox)
          /\ ws \in {"active", "byUs"}
      BY <1>12 DEF Recv, Idle, ModeInv, WsReadable, rtask
    <2>2. Reading /\ Reading' /\ Unread /\ Reached = Len(Items)
      BY <1>1, <2>1 DEF Reading, Unread
    <2>3. InboxShape'
      BY <1>1, <2>1, ShapeStep
    <2>4. HeldItem'
      BY <2>1 DEF HeldItem
    <2>5. /\ Reached' = Reached + (IF Head(inbox) > 0 THEN 1 ELSE 0) => InboxNumbered'
          /\ Head(inbox) > 0 => Head(inbox) = Reached + 1
      BY <1>0, <1>1, <2>1, <2>2, InboxTake
    <2>6. Items = got /\ Items' = got' /\ Head(inbox) \in Int
      BY <1>0, <2>1, AllItems DEF Items, TypeOK, OutType
    <2>7. \/ Head(inbox) > 0 /\ got' = Append(got, Head(inbox))
          \/ Head(inbox) = Ping /\ UNCHANGED got
          \/ Head(inbox) = Closed /\ UNCHANGED got
      BY <1>12 DEF Recv
    <2>8. CASE Head(inbox) > 0 /\ got' = Append(got, Head(inbox))
      <3>1. /\ Clean(Items') /\ Complete(Items') /\ NoClosed(Items')
            /\ Len(Items') = Len(Items) + 1
        BY <1>0, <1>1, <2>1, <2>2, <2>5, <2>6, <2>8, ItemsAppend DEF Closed, Complete
      <3>2. Reached' = Reached + 1
        BY <1>3, <2>1, <2>2, <3>1
      <3>3. InboxNumbered'
        BY <2>5, <2>8, <3>2
      <3>4. Complete(Items)'
        BY <2>1, <3>1 DEF Complete
      <3> QED BY <1>2, <2>1, <2>3, <2>4, <3>1, <3>3, <3>4
    <2>9. CASE Head(inbox) \in {Ping, Closed} /\ UNCHANGED got
      <3>1. Items' = Items /\ Reached' = Reached
        BY <1>0, <1>3, <2>1, <2>2, <2>6, <2>9
      <3>2. ~(Head(inbox) > 0)
        BY <2>9 DEF Ping, Closed
      <3>3. InboxNumbered'
        BY <1>0, <2>5, <3>1, <3>2
      <3>4. Complete(Items)'
        BY <1>1, <2>1, <3>1 DEF Complete
      <3> QED BY <1>1, <1>2, <2>1, <2>2, <2>3, <2>4, <3>1, <3>3, <3>4
    <2> QED BY <2>7, <2>8, <2>9
  <1>13. CASE PollNext
    <2>1. /\ UNCHANGED <<inbox, peerSent, peerClosed, stream, ws, rpc, ritem>> /\ msgs # <<>>
          /\ got' = Append(got, Head(msgs)) /\ msgs' = Tail(msgs) /\ stream = "open"
      BY <1>13 DEF PollNext, peer, sock, rtask
    <2>2. Items' = Items
      BY <1>0, <2>1, AllItems DEF Items
    <2>3. Reached' = Reached /\ (Reading' <=> Reading)
      BY <1>1, <1>3, <2>1, <2>2 DEF Reading
    <2>4. Unread' => InboxNumbered'
      <3> SUFFICES ASSUME Unread' PROVE InboxNumbered'
        OBVIOUS
      <3>1. Unread
        BY <2>1, <2>3 DEF Unread
      <3>2. PICK pos \in [0..Len(inbox) -> 0..peerSent] : InboxNumbering(pos)
        BY <1>1, <3>1 DEF InboxNumbered
      <3>3. InboxNumbering(pos)'
        BY <2>1, <2>3, <3>2 DEF InboxNumbering
      <3> QED BY <2>1, <3>3 DEF InboxNumbered
    <2>5. InboxShape' /\ HeldItem'
      BY <1>1, <2>1, <2>3 DEF InboxShape, HeldItem
    <2>6. Complete(Items)'
      BY <1>1, <2>1, <2>2 DEF Complete
    <2> QED BY <1>1, <1>2, <2>1, <2>2, <2>3, <2>4, <2>5, <2>6
  <1>14. CASE DropStream
    <2>1. /\ UNCHANGED <<inbox, peerSent, peerClosed, ws, rpc, ritem>>
          /\ UNCHANGED got /\ msgs' = <<>> /\ stream' = "dropped"
      BY <1>14 DEF DropStream, peer, sock, rtask
    <2>2. ~Reading' /\ ~Unread'
      BY <2>1 DEF Reading, Unread
    <2>3. Items' = got /\ Len(got) <= Len(Items) /\ (\A i \in 1..Len(got) : got[i] = Items[i])
          /\ Len(got) \in Nat
      BY <1>0, <2>1, AllItems DEF Items
    <2>4. ASSUME NEW i \in 1..Len(got)
          PROVE  /\ i \in 1..Len(Items) /\ got[i] = Items[i]
                 /\ i = Len(Items) => i = Len(got)
      <3>1. Len(Items) \in Nat /\ Len(got) \in Nat /\ Len(got) <= Len(Items)
        BY <1>0, <2>3
      <3>2. i \in 1..Len(Items) /\ (i = Len(Items) => i = Len(got))
        BY <3>1
      <3> QED BY <2>3, <3>2
    <2>5. Complete(Items)'
      <3>1. \A i \in 1..Len(got) : \/ got[i] = i
                                   \/ i = Len(got) /\ got[i] = Failed
                                   \/ i = Len(got) /\ got[i] = Closed /\ i = peerSent + 1
        BY <1>1, <2>4 DEF Complete
      <3> QED BY <2>1, <2>3, <3>1 DEF Complete
    <2>7. ~NoClosed(Items') => ~NoClosed(Items)
      BY <2>3, <2>4 DEF NoClosed
    <2>6. InboxShape' /\ HeldItem'
      BY <1>1, <2>1, <2>2 DEF InboxShape, HeldItem
    <2> QED BY <1>1, <1>2, <2>1, <2>2, <2>5, <2>6, <2>7
  <1>15. CASE ReaderReads
    <2>1. /\ rpc = "read" /\ UNCHANGED <<got, msgs, stream>>
          /\ UNCHANGED <<peerSent, peerClosed>> /\ inbox # <<>> /\ inbox' = Tail(inbox)
          /\ ws \in {"active", "byUs"} /\ ritem' = Head(inbox)
      BY <1>15 DEF ReaderReads, WsReadable, outs
    <2>2. rpc' = IF Head(inbox) = Ping THEN "pong" ELSE "deliver"
      BY <1>15, Zenon DEF ReaderReads
    <2>3. /\ Items' = Items /\ Reached = Len(Items) /\ Head(inbox) \in Int
          /\ (Reading' <=> Reading)
      BY <1>0, <1>1, <2>1, <2>2 DEF Items, Reading
    <2>4. InboxShape'
      BY <1>1, <2>1, ShapeStep
    <2>5. Reading => /\ Reached' = Reached + (IF Head(inbox) > 0 THEN 1 ELSE 0) => InboxNumbered'
                     /\ Head(inbox) > 0 => Head(inbox) = Reached + 1
                     /\ Head(inbox) = Closed => Reached = peerSent
      BY <1>0, <1>1, <2>1, InboxTake DEF Unread
    <2>6. Head(inbox) > 0 \/ Head(inbox) = Closed \/ Head(inbox) = Ping
      <3>1. 1 \in 1..Len(inbox) /\ Head(inbox) = inbox[1]
        BY <1>0, <2>1
      <3> QED BY <1>1, <3>1 DEF InboxShape
    <2>7. Head(inbox) = Closed => peerClosed
      <3>1. 1 \in 1..Len(inbox) /\ Head(inbox) = inbox[1]
        BY <1>0, <2>1
      <3> QED BY <1>1, <3>1 DEF InboxShape
    <2>8. Ping = -2 /\ Closed = -1 /\ Failed = 0
      BY DEF Ping, Closed, Failed
    <2>9. HeldItem'
      <3>1. rpc' = "deliver" => Reached' = Reached + 1
        BY <1>3, <2>3
      <3>2. rpc' = "deliver" => ritem' \in {Failed, Closed} \/ ritem' > 0
        BY <2>1, <2>2, <2>6
      <3>3. Reading' /\ rpc' = "deliver" /\ ritem' > 0 => ritem' = Reached'
        BY <2>1, <2>3, <2>5, <3>1
      <3>4. Reading' /\ rpc' = "deliver" /\ ritem' = Closed => Reached' = peerSent' + 1 /\ peerClosed'
        BY <2>1, <2>3, <2>5, <2>7, <3>1
      <3> QED BY <3>2, <3>3, <3>4 DEF HeldItem
    <2>10. Unread' => InboxNumbered'
      <3> SUFFICES ASSUME Unread' PROVE InboxNumbered'
        OBVIOUS
      <3>1. Reading /\ (rpc' = "deliver" => Head(inbox) > 0)
        BY <2>1, <2>3 DEF Unread
      <3>2. Reached' = Reached + (IF Head(inbox) > 0 THEN 1 ELSE 0)
        BY <1>0, <1>3, <2>2, <2>3, <2>6, <2>8, <3>1
      <3> QED BY <2>5, <3>1, <3>2
    <2>11. Complete(Items)'
      BY <1>1, <2>1, <2>3 DEF Complete
    <2> QED BY <1>1, <1>2, <2>1, <2>3, <2>4, <2>9, <2>10, <2>11
  <1>16. CASE ReaderFails
    <2>1. /\ UNCHANGED <<got, msgs, inbox, peerSent, peerClosed, stream, ws>>
          /\ rpc = "read" /\ rpc' = "deliver" /\ ritem' = Failed
      BY <1>16 DEF ReaderFails, peer, outs, sock
    <2>2. Items' = Items /\ (Reading' <=> Reading) /\ ~(Failed > 0) /\ Failed # Closed
      BY <2>1 DEF Items, Reading, Failed, Closed
    <2>3. ~Unread' /\ HeldItem'
      BY <2>1, <2>2 DEF Unread, HeldItem
    <2>4. InboxShape' /\ Complete(Items)'
      BY <1>1, <2>1, <2>2 DEF InboxShape, Complete
    <2> QED BY <1>1, <1>2, <2>1, <2>2, <2>3, <2>4
  <1>17. CASE ReaderDelivers
    <2>1. /\ UNCHANGED <<got, inbox, peerSent, peerClosed, stream, ws>> /\ rpc = "deliver"
      BY <1>17 DEF ReaderDelivers, peer, outs, sock
    <2>2. rpc' = CASE ritem = Closed -> "closing"
                   [] ritem > 0 /\ stream = "open" -> "read"
                   [] OTHER -> "ended"
      BY <1>17, Zenon DEF ReaderDelivers
    <2>3. Closed = -1 /\ Failed = 0
      BY DEF Closed, Failed
    <2>4. /\ rpc' \in {"closing", "read", "ended"}
          /\ rpc' = "read" => ritem > 0 /\ stream = "open"
      BY <1>0, <2>2, <2>3
    <2>5. InboxShape' /\ HeldItem'
      BY <1>1, <2>1, <2>4 DEF InboxShape, HeldItem
    <2>6. CASE stream = "open" /\ msgs' = Append(msgs, ritem)
      <3>1. Reading /\ Items' = Append(Items, ritem) /\ Clean(Items) /\ Reached = Len(Items) + 1
        BY <1>0, <1>1, <2>1, <2>6, AllItems DEF Items, Reading
      <3>2. /\ ritem = Len(Items) + 1 \/ ritem = Failed \/ (ritem = Closed /\ Len(Items) = peerSent)
            /\ ritem = Closed => peerClosed
            /\ ritem > 0 => ritem = Len(Items) + 1
        <4>1. /\ ritem \in {Failed, Closed} \/ ritem > 0
              /\ ritem > 0 => ritem = Reached
              /\ ritem = Closed => Reached = peerSent + 1 /\ peerClosed
          BY <1>1, <2>1, <3>1 DEF HeldItem
        <4>2. Reached = peerSent + 1 => Len(Items) = peerSent
          BY <1>0, <3>1
        <4> QED BY <3>1, <4>1, <4>2
      <3>3. /\ ritem = Len(Items) + 1 => Clean(Items')
            /\ Complete(Items)'
            /\ ritem # Closed => NoClosed(Items')
            /\ Len(Items') = Len(Items) + 1
        BY <1>0, <2>1, <3>1, <3>2, ItemsAppend DEF Complete
      <3>4. Reading' => ritem = Len(Items) + 1 /\ rpc' = "read"
        BY <2>4, <3>2 DEF Reading
      <3>5. Unread' => InboxNumbered'
        <4> SUFFICES ASSUME Unread' PROVE InboxNumbered'
          OBVIOUS
        <4>1. Unread /\ Reached' = Reached
          BY <1>0, <1>3, <2>1, <2>4, <3>1, <3>3, <3>4 DEF Unread
        <4>2. PICK pos \in [0..Len(inbox) -> 0..peerSent] : InboxNumbering(pos)
          BY <1>1, <4>1 DEF InboxNumbered
        <4>3. InboxNumbering(pos)'
          BY <2>1, <4>1, <4>2 DEF InboxNumbering
        <4> QED BY <2>1, <4>3 DEF InboxNumbered
      <3> QED BY <1>2, <2>1, <2>5, <2>6, <3>2, <3>3, <3>4, <3>5
    <2>7. CASE stream = "dropped" /\ UNCHANGED msgs
      <3>1. ~Reading' /\ ~Unread' /\ Items' = Items
        BY <2>1, <2>7 DEF Reading, Unread, Items
      <3>2. Complete(Items)'
        BY <1>1, <2>1, <3>1 DEF Complete
      <3> QED BY <1>1, <1>2, <2>1, <2>5, <2>7, <3>1, <3>2
    <2>8. \/ stream = "open" /\ msgs' = Append(msgs, ritem)
          \/ stream = "dropped" /\ UNCHANGED msgs
      BY <1>17, Zenon DEF ReaderDelivers
    <2> QED BY <2>6, <2>7, <2>8
  <1>18. ASSUME NEW e \in Int, inbox' = Append(inbox, e), ~peerClosed,
                UNCHANGED <<got, msgs, stream, ws, rpc, ritem>>,
                peerSent' = peerSent + (IF e > 0 THEN 1 ELSE 0), e > 0 => e = peerSent',
                e > 0 \/ e = Ping \/ (e = Closed /\ peerClosed')
         PROVE  ReadInv' /\ StreamComplete'
    <2>1. Items' = Items /\ (Reading' <=> Reading) /\ (Unread' <=> Unread)
      BY <1>18 DEF Items, Reading, Unread
    <2>2. Reached' = Reached
      BY <1>1, <1>3, <1>18, <2>1
    <2>3. InboxShape'
      BY <1>1, <1>18, ShapeStep
    <2>4. Unread' => InboxNumbered'
      BY <1>1, <1>18, <2>1, <2>2, InboxAppend
    <2>5. HeldItem'
      BY <1>1, <1>18, <2>1, <2>2 DEF HeldItem
    <2>6. Complete(Items)'
      BY <1>1, <1>18, <2>1 DEF Complete, NoClosed
    <2> QED BY <1>1, <1>2, <1>18, <2>1, <2>3, <2>4, <2>5, <2>6
  <1>19. CASE PeerSends \/ PeerCloses
    <2>1. ~peerClosed /\ UNCHANGED <<got, msgs, stream, ws, rpc, ritem>>
      BY <1>19 DEF PeerSends, PeerCloses, outs, sock, rtask
    <2>2. \/ inbox' = Append(inbox, peerSent + 1) /\ peerSent' = peerSent + 1
          \/ inbox' = Append(inbox, Ping) /\ UNCHANGED peerSent
          \/ inbox' = Append(inbox, Closed) /\ UNCHANGED peerSent /\ peerClosed'
      <3>1. CASE PeerSends
        BY <3>1 DEF PeerSends
      <3>2. CASE PeerCloses
        BY <3>2 DEF PeerCloses
      <3> QED BY <1>19, <3>1, <3>2
    <2>3. CASE inbox' = Append(inbox, peerSent + 1) /\ peerSent' = peerSent + 1
      <3>1. peerSent + 1 \in Int /\ peerSent + 1 > 0
        BY <1>0
      <3> QED BY <1>18, <2>1, <2>3, <3>1
    <2>4. CASE inbox' = Append(inbox, Ping) /\ UNCHANGED peerSent
      BY <1>0, <1>18, <2>1, <2>4 DEF Ping
    <2>5. CASE inbox' = Append(inbox, Closed) /\ UNCHANGED peerSent /\ peerClosed'
      BY <1>0, <1>18, <2>1, <2>5 DEF Closed
    <2> QED BY <2>2, <2>3, <2>4, <2>5
  <1> QED BY <1>4, <1>5, <1>6, <1>7, <1>8, <1>9, <1>10, <1>11, <1>12, <1>13, <1>14, <1>15,
             <1>16, <1>17, <1>19
       DEF Next, Whole, Sink, Stream, Writer, Reader, Peer

(* A connection that was just established.                                  *)
LEMMA InitIInv == Init => IInv
  <1> SUFFICES ASSUME Init PROVE IInv
    OBVIOUS
  <1>1. /\ mode = "whole" /\ ~replying /\ ws = "active" /\ ~reply /\ ~broken
        /\ sink = "none" /\ stream = "none" /\ wpc = "none" /\ rpc = "none" /\ ~sawClose
    BY DEF Init
  <1>2. /\ written = <<>> /\ inbox = <<>> /\ got = <<>> /\ cmds = <<>> /\ msgs = <<>>
        /\ peerSent = 0 /\ pings = 0 /\ accepted = 0 /\ wcmd = Pong /\ ritem = 0
    BY DEF Init, Failed
  <1>3. /\ replying \in BOOLEAN /\ reply \in BOOLEAN /\ broken \in BOOLEAN
        /\ peerClosed \in BOOLEAN /\ permit \in BOOLEAN /\ closeLost \in BOOLEAN
        /\ sawClose \in BOOLEAN
    BY DEF Init
  <1>4. /\ written \in Seq(Nat) /\ inbox \in Seq(Int) /\ got \in Seq(Int)
        /\ msgs \in Seq(Int) /\ cmds \in Seq(Command) /\ wcmd \in Command
    BY <1>2, CommandTypes
  <1>5. /\ Len(written) = 0 /\ Len(inbox) = 0 /\ Len(cmds) = 0 /\ Len(got \o msgs) = 0
        /\ got \o msgs = <<>>
    BY <1>2
  <1>6. TypeOK
    BY <1>1, <1>2, <1>3, <1>4 DEF TypeOK, WholeType, SockType, PeerType, SinkType, OutType,
                                  WriterType, ReaderType
  <1>7. ModeInv
    BY <1>1, <1>2 DEF ModeInv
  <1>8. PICK zero : zero = [i \in 0..0 |-> 0]
    OBVIOUS
  <1>9. zero \in [0..0 -> 0..0] /\ zero[0] = 0
    BY <1>8
  <1>10. CmdNumbering(zero) /\ InboxNumbering(zero)
    BY <1>1, <1>2, <1>5, <1>9 DEF CmdNumbering, InboxNumbering, Taken, Reached
  <1>11. WriteInv
    BY <1>1, <1>2, <1>5, <1>9, <1>10 DEF WriteInv
  <1>12. ReadInv
    BY <1>1, <1>2, <1>5, <1>9, <1>10 DEF ReadInv
  <1>13. AnswerInv /\ StreamComplete
    BY <1>1, <1>5 DEF AnswerInv, StreamComplete
  <1> QED BY <1>6, <1>7, <1>11, <1>12, <1>13 DEF IInv

(* The inductive invariant of the native connection.                        *)
THEOREM ConnectionInvariant == Spec => []IInv
  <1>1. IInv /\ [Next]_vars => IInv'
    <2> SUFFICES ASSUME IInv, [Next]_vars PROVE IInv'
      OBVIOUS
    <2>1. TypeOK'
      BY TypeStep DEF IInv
    <2> QED BY <2>1, ModeStep, WriteStep, ReadStep, AnswerStep DEF IInv
  <1> QED BY InitIInv, <1>1, PTL DEF Spec

(* recv and poll_next hand on the peer's messages in order and without a    *)
(* gap, across the split and for every channel capacity; an error comes     *)
(* last, and Error::Closed only behind every message of the peer.           *)
THEOREM MessagesInOrder == Spec => []StreamComplete
  <1>1. IInv => StreamComplete
    BY DEF IInv
  <1> QED BY ConnectionInvariant, <1>1, PTL

(* When both tasks are done with a peer that closed first its Close has     *)
(* been answered, unless the transport broke or the writer was ended by a   *)
(* message the sink had accepted.                                           *)
THEOREM CloseIsAnswered == Spec => []PeerCloseAnswered
  <1>1. IInv => PeerCloseAnswered
    BY DEF IInv, AnswerInv, PeerCloseAnswered, TypeOK, SockType, SinkType
  <1> QED BY ConnectionInvariant, <1>1, PTL

(* The Close that a connection sends first, from Connection::close or from  *)
(* the sink's queue, goes out behind every message accepted before it.      *)
THEOREM CloseBehindMessages == Spec => CloseIsBarrier
  <1>1. ASSUME IInv, Len(written) = accepted
        PROVE  written = [i \in 1..accepted |-> i]
    <2>1. written \in [1..accepted -> Nat] /\ (\A i \in 1..accepted : written[i] = i)
      <3>1. written \in Seq(Nat) /\ (\A i \in 1..Len(written) : written[i] = i)
        BY <1>1 DEF IInv, TypeOK, SockType, WriteInv
      <3> QED BY <1>1, <3>1, LenProperties
    <2> QED BY <2>1
  <1>2. ASSUME IInv, [Next]_vars, ws = "active", ws' = "byUs"
        PROVE  Len(written) = accepted
    <2>1. WriterCloses \/ CloseWhole
      <3>1. CASE Whole
        BY <1>2, <3>1 DEF Whole, Send, Recv, RecvNone, RecvReplies, CancelRecv, CloseWhole, Split,
                          WsReadClose, sock, IInv, ModeInv
      <3>2. CASE Sink \/ Stream
        BY <1>2, <3>2 DEF Sink, PollReady, StartSend, PollClose, DropSink, Stream, PollNext,
                          DropStream, sock
      <3>3. CASE Writer
        BY <1>2, <3>3 DEF Writer, WriterTakes, WriterSends, WriterPongs, WriterDone, sock
      <3>4. CASE Reader
        <4>1. CASE ReaderReads
          BY <1>2, <4>1 DEF ReaderReads, WsReadClose, sock
        <4>2. CASE ReaderDelivers
          BY <1>2, <4>2 DEF ReaderDelivers, sock
        <4>3. CASE ReaderFails \/ ReaderNone \/ ReaderPongs \/ ReaderCloses
          BY <1>2, <4>3 DEF ReaderFails, ReaderNone, ReaderPongs, ReaderCloses, sock
        <4> QED BY <3>4, <4>1, <4>2, <4>3 DEF Reader
      <3>5. CASE Peer \/ UNCHANGED vars
        BY <1>2, <3>5 DEF Peer, PeerSends, PeerCloses, TransportFails, vars, sock
      <3> QED BY <1>2, <3>1, <3>2, <3>3, <3>4, <3>5 DEF Next
    <2>2. CASE WriterCloses
      BY <1>2, <2>2 DEF WriterCloses, IInv, WriteInv
    <2>3. CASE CloseWhole
      <3>1. cmds = <<>> /\ wpc = "none" /\ Len(cmds) = 0
        BY <1>2, <2>3 DEF CloseWhole, Idle, IInv, ModeInv
      <3>2. PICK pos \in [0..Len(cmds) -> 0..accepted] : CmdNumbering(pos)
        BY <1>2, <3>1 DEF IInv, WriteInv, RxLive
      <3> QED BY <1>2, <3>1, <3>2 DEF CmdNumbering, Taken, IInv, TypeOK, SockType
    <2> QED BY <2>1, <2>2, <2>3
  <1>3. IInv /\ [Next]_vars =>
          [ws = "active" /\ ws' = "byUs" => written = [i \in 1..accepted |-> i]]_vars
    BY <1>1, <1>2
  <1> QED BY ConnectionInvariant, <1>3, PTL DEF Spec, CloseIsBarrier

=============================================================================
