---------------------- MODULE BrowserConnectionProofs ----------------------
(* Proofs about BrowserConnection, for every value of its constants. *)
EXTENDS BrowserConnection, TLAPS

Ended == sock \in {"CLOSING", "CLOSED"}

TypeOK ==
    /\ phase \in {"connecting", "opened", "failed", "whole", "split", "done"}
    /\ sock \in {"CONNECTING", "OPEN", "CLOSING", "CLOSED"} /\ lost \in BOOLEAN
    /\ attached \in {"none", "wait", "conn"} /\ alive \in SUBSET {"wait", "conn"}
    /\ chan \in Seq(Int) /\ parked \in Seq({"msg", "err", "close"})
    /\ chanOpen \in BOOLEAN /\ rx \in BOOLEAN
    /\ op \in {"idle", "closing"} /\ buffered \in Nat
    /\ sink \in {"none", "open", "closed", "dropped"} /\ refs \in Int
    /\ got \in Seq(Int) /\ fired \in Nat
    /\ asked \in BOOLEAN /\ cut \in BOOLEAN /\ closedOk \in BOOLEAN

(* Where the connection stands in its life.  A socket that is OPEN with the *)
(* connection's callbacks has a channel they can use.                       *)
PhaseInv ==
    /\ phase = "connecting" => sock = "CONNECTING"
    /\ phase \in {"connecting", "opened", "failed"} =>
          chanOpen /\ rx /\ got = <<>> /\ chan = <<>> /\ fired = 0 /\ attached = "wait"
    /\ lost => sock = "CLOSED"
    /\ attached = "conn" => phase = "whole" \/ (phase = "split" /\ rx)
    /\ phase = "split" =>
          refs = (IF sink = "dropped" THEN 0 ELSE 1) + (IF rx THEN 1 ELSE 0)
    /\ op = "closing" => phase = "whole" /\ Ended
    /\ sink = "closed" => Ended
    /\ attached = "conn" /\ sock = "OPEN" => chanOpen /\ rx

(* While the channel is open it holds every message so far, then at most    *)
(* errors, and those only after the socket was lost.                        *)
ChanInv ==
    LET all == got \o chan IN
    chanOpen /\ rx =>
        /\ fired <= Len(all)
        /\ \A i \in 1..Len(all) : all[i] = IF i <= fired THEN i ELSE Failed
        /\ sock # "CLOSED" => fired = Len(all)

(* The end of the channel, and an item that is not a message, mean that the *)
(* socket is closed or was cut.                                             *)
EndInv ==
    /\ ~chanOpen \/ (phase = "whole" /\ ~rx) => sock = "CLOSED" \/ cut
    /\ \A i \in 1..Len(chan) : chan[i] \in {Failed, Closed} => sock = "CLOSED" \/ cut

IInv == /\ TypeOK /\ PhaseInv /\ ChanInv /\ EndInv
        /\ NoDanglingCallback /\ NoGap /\ SocketFollowsOwner /\ CloseMeansClosed

(* The body of NoGap for a sequence of items and a number of messages.      *)
InOrder(all, n) ==
    \A i \in 1..Len(all) :
       \/ all[i] = i
       \/ all[i] = Failed /\ \A j \in i + 1..Len(all) : all[j] \in {Failed, Closed}
       \/ /\ all[i] = Closed /\ i = Len(all)
          /\ \A m \in 1..n : \E j \in 1..i : all[j] = m

(* The body of ChanInv: the messages so far, then errors.                   *)
Stands(all, n) ==
    n <= Len(all) /\ \A i \in 1..Len(all) : all[i] = IF i <= n THEN i ELSE Failed

(* What a channel's contents may be cut down to keeps its order.            *)
LEMMA InOrderPrefix ==
    ASSUME NEW s \in Seq(Int), NEW t \in Seq(Int), NEW n \in Nat, InOrder(s, n),
           Len(t) <= Len(s), \A i \in 1..Len(t) : t[i] = s[i]
    PROVE  InOrder(t, n)
  <1> SUFFICES ASSUME NEW i \in 1..Len(t)
               PROVE  \/ t[i] = i
                      \/ t[i] = Failed /\ \A j \in i + 1..Len(t) : t[j] \in {Failed, Closed}
                      \/ /\ t[i] = Closed /\ i = Len(t)
                         /\ \A m \in 1..n : \E j \in 1..i : t[j] = m
    BY DEF InOrder
  <1>1. i \in 1..Len(s) /\ \A j \in i..Len(t) : j \in 1..Len(t) /\ j \in i..Len(s)
    OBVIOUS
  <1>2. CASE s[i] = i
    BY <1>2
  <1>3. CASE s[i] = Failed /\ \A j \in i + 1..Len(s) : s[j] \in {Failed, Closed}
    <2>1. ASSUME NEW j \in i + 1..Len(t) PROVE t[j] \in {Failed, Closed}
      <3>1. j \in i + 1..Len(s) /\ j \in 1..Len(t)
        OBVIOUS
      <3> QED BY <1>3, <3>1
    <2> QED BY <1>3, <2>1
  <1>4. CASE /\ s[i] = Closed /\ i = Len(s)
             /\ \A m \in 1..n : \E j \in 1..i : s[j] = m
    <2>1. i = Len(t) /\ t[i] = Closed
      BY <1>4
    <2>2. \A j \in 1..i : t[j] = s[j]
      BY <2>1
    <2> QED BY <1>4, <2>1, <2>2
  <1> QED BY <1>1, <1>2, <1>3, <1>4 DEF InOrder

(* Messages followed by errors are in order, whatever count is asked for.   *)
LEMMA StandsInOrder ==
    ASSUME NEW s \in Seq(Int), NEW n \in Nat, NEW m \in Nat, Stands(s, n)
    PROVE  InOrder(s, m)
  BY DEF InOrder, Stands, Failed, Closed

(* One more item: the next message, an error, or the final Closed.          *)
LEMMA StandsAppend ==
    ASSUME NEW s \in Seq(Int), NEW n \in Nat, Stands(s, n)
    PROVE  /\ Len(s) = n => Stands(Append(s, n + 1), n + 1)
           /\ Stands(Append(s, Failed), n)
           /\ InOrder(Append(s, Failed), n + 1)
           /\ InOrder(Append(s, Closed), n)
           /\ Len(Append(s, n + 1)) = Len(s) + 1
  <1>1. \A e \in Int : /\ Len(Append(s, e)) = Len(s) + 1 /\ Len(s) \in Nat
                       /\ Append(s, e) \in Seq(Int)
                       /\ \A i \in 1..Len(s) : Append(s, e)[i] = s[i]
                       /\ Append(s, e)[Len(s) + 1] = e
    OBVIOUS
  <1>2. Failed \in Int /\ Closed \in Int /\ n + 1 \in Int
    BY DEF Failed, Closed
  <1>3. Len(s) = n => Stands(Append(s, n + 1), n + 1)
    BY <1>1, <1>2 DEF Stands
  <1>4. Stands(Append(s, Failed), n)
    <2> DEFINE t == Append(s, Failed)
    <2>1. ASSUME NEW i \in 1..Len(t) PROVE t[i] = IF i <= n THEN i ELSE Failed
      <3>1. CASE i = Len(s) + 1
        BY <1>1, <1>2, <3>1 DEF Stands
      <3>2. CASE i \in 1..Len(s)
        BY <1>1, <1>2, <3>2 DEF Stands
      <3> QED BY <1>1, <1>2, <3>1, <3>2
    <2> QED BY <1>1, <1>2, <2>1 DEF Stands
  <1>5. InOrder(Append(s, Failed), n + 1)
    BY <1>1, <1>2, <1>4, StandsInOrder, n + 1 \in Nat
  <1>6. InOrder(Append(s, Closed), n)
    <2> DEFINE t == Append(s, Closed)
    <2> SUFFICES ASSUME NEW i \in 1..Len(t)
                 PROVE  \/ t[i] = i
                        \/ t[i] = Failed /\ \A j \in i + 1..Len(t) : t[j] \in {Failed, Closed}
                        \/ /\ t[i] = Closed /\ i = Len(t)
                           /\ \A m \in 1..n : \E j \in 1..i : t[j] = m
      BY DEF InOrder
    <2>1. CASE i = Len(s) + 1
      <3>1. \A m \in 1..n : m \in 1..i /\ t[m] = m
        BY <1>1, <1>2, <2>1 DEF Stands
      <3> QED BY <1>1, <1>2, <2>1, <3>1
    <2>2. CASE i \in 1..Len(s)
      <3>1. t[i] = i \/ (t[i] = Failed /\ i > n)
        BY <1>1, <1>2, <2>2 DEF Stands
      <3>2. i > n => \A j \in i + 1..Len(t) : t[j] \in {Failed, Closed}
        BY <1>1, <1>2, <2>2 DEF Stands
      <3> QED BY <3>1, <3>2
    <2> QED BY <1>1, <1>2, <2>1, <2>2
  <1> QED BY <1>1, <1>2, <1>3, <1>4, <1>5, <1>6

(* How a step changes the sequence of all items: not, by one more item, or  *)
(* by dropping those that wait.                                             *)
LEMMA AllItems ==
    ASSUME got \in Seq(Int), chan \in Seq(Int)
    PROVE  /\ got \o chan \in Seq(Int)
           /\ chan # <<>> => Append(got, Head(chan)) \o Tail(chan) = got \o chan
           /\ \A e \in Int : got \o Append(chan, e) = Append(got \o chan, e)
           /\ got \o <<>> = got
           /\ Len(got) <= Len(got \o chan)
           /\ \A i \in 1..Len(got) : got[i] = (got \o chan)[i]
  <1>1. \A e \in Int : got \o Append(chan, e) = Append(got \o chan, e)
    OBVIOUS
  <1>2. ASSUME chan # <<>> PROVE Append(got, Head(chan)) \o Tail(chan) = got \o chan
    BY <1>2
  <1>3. got \o <<>> = got /\ got \o chan \in Seq(Int)
    OBVIOUS
  <1>4. Len(got \o chan) = Len(got) + Len(chan) /\ Len(got) \in Nat /\ Len(chan) \in Nat
    OBVIOUS
  <1>5. \A i \in 1..Len(got) : got[i] = (got \o chan)[i]
    OBVIOUS
  <1>6. Len(got) <= Len(got \o chan)
    BY <1>4
  <1> QED BY <1>1, <1>2, <1>3, <1>5, <1>6

(* The variables of the module: what the operations on the channel leave.   *)
LEMMA ChannelTypes ==
    ASSUME TypeOK
    PROVE  /\ Closing \in {"CONNECTING", "OPEN", "CLOSING", "CLOSED"}
           /\ ReceiverDropped => /\ rx' \in BOOLEAN /\ chan' \in Seq(Int)
                                 /\ parked' \in Seq({"msg", "err", "close"})
           /\ Take => chan' \in Seq(Int) /\ parked' \in Seq({"msg", "err", "close"})
           /\ \A s \in {"msg", "err", "close"}, item \in Int :
                 TrySend(s, item) => /\ chan' \in Seq(Int)
                                     /\ parked' \in Seq({"msg", "err", "close"})
  <1>1. Closing \in {"CONNECTING", "OPEN", "CLOSING", "CLOSED"}
    BY DEF TypeOK, Closing
  <1>2. ReceiverDropped => /\ rx' \in BOOLEAN /\ chan' \in Seq(Int)
                           /\ parked' \in Seq({"msg", "err", "close"})
    <2>1. <<>> \in Seq(Int) /\ <<>> \in Seq({"msg", "err", "close"})
      OBVIOUS
    <2> QED BY <2>1, Zenon DEF ReceiverDropped
  <1>3. Take => chan' \in Seq(Int) /\ parked' \in Seq({"msg", "err", "close"})
    BY DEF TypeOK, Take
  <1>4. ASSUME NEW s \in {"msg", "err", "close"}, NEW item \in Int, TrySend(s, item)
        PROVE  chan' \in Seq(Int) /\ parked' \in Seq({"msg", "err", "close"})
    <2>1. Append(chan, item) \in Seq(Int)
      BY DEF TypeOK
    <2>2. Append(parked, s) \in Seq({"msg", "err", "close"})
      BY DEF TypeOK
    <2> QED BY <1>4, <2>1, <2>2 DEF TrySend, TypeOK
  <1> QED BY <1>1, <1>2, <1>3, <1>4

(* The variables keep their types in every step.                            *)
LEMMA TypeStep ==
    ASSUME TypeOK, [Next]_vars
    PROVE  TypeOK'
  <1> USE BufferAssumption, ChannelTypes
      DEF TypeOK, vars, socket, calls, channel, halves, app, Failed, Closed
  <1>1. CASE OpenEvent
    BY <1>1 DEF OpenEvent
  <1>2. CASE ConnectFails
    BY <1>2 DEF ConnectFails
  <1>3. CASE Connected
    <2>1. CASE phase = "opened"
      BY <1>3, <2>1 DEF Connected
    <2>2. CASE phase = "failed"
      BY <1>3, <2>2 DEF Connected
    <2> QED BY <1>3, <2>1, <2>2 DEF Connected
  <1>4. ASSUME NEW valid \in BOOLEAN, OnMessage(valid) PROVE TypeOK'
    <2>1. chan' \in Seq(Int) /\ parked' \in Seq({"msg", "err", "close"})
      <3>1. fired' \in Int /\ Failed \in Int
        BY <1>4 DEF OnMessage
      <3> QED BY <1>4, <3>1 DEF OnMessage
    <2>2. /\ fired' \in Nat /\ chanOpen' \in BOOLEAN /\ cut' \in BOOLEAN
          /\ sock' \in {"CONNECTING", "OPEN", "CLOSING", "CLOSED"}
      <3>1. fired' \in Nat
        BY <1>4 DEF OnMessage
      <3>2. CASE valid /\ CanSend("msg")
        BY <1>4, <3>1, <3>2 DEF OnMessage
      <3>3. CASE ~(valid /\ CanSend("msg"))
        BY <1>4, <3>1, <3>3 DEF OnMessage
      <3> QED BY <3>2, <3>3
    <2> QED BY <1>4, <2>1, <2>2 DEF OnMessage
  <1>5. CASE OnError
    <2>1. chan' \in Seq(Int) /\ parked' \in Seq({"msg", "err", "close"})
      BY <1>5 DEF OnError
    <2>2. chanOpen' \in BOOLEAN
      BY <1>5 DEF OnError
    <2> QED BY <1>5, <2>1, <2>2 DEF OnError
  <1>6. CASE OnClose
    <2>1. chan' \in Seq(Int) /\ parked' \in Seq({"msg", "err", "close"})
      BY <1>6 DEF OnClose
    <2>2. chanOpen' \in BOOLEAN
      BY <1>6 DEF OnClose
    <2> QED BY <1>6, <2>1, <2>2 DEF OnClose
  <1>7. CASE Drained
    BY <1>7 DEF Drained
  <1>8. CASE CancelConnect
    BY <1>8 DEF CancelConnect
  <1>9. CASE Send
    BY <1>9 DEF Send, HasCapacity
  <1>10. CASE Recv
    <2>1. Append(got, Head(chan)) \in Seq(Int)
      BY <1>10 DEF Recv, Take
    <2> QED BY <1>10, <2>1 DEF Recv, Take
  <1>11. CASE CloseWhole
    <2>1. CASE CloseReturns(TRUE)
      BY <1>11, <2>1 DEF CloseWhole, CloseReturns
    <2>2. CASE op' = "closing" /\ UNCHANGED <<channel, closedOk>>
      BY <1>11, <2>2 DEF CloseWhole
    <2> QED BY <1>11, <2>1, <2>2 DEF CloseWhole
  <1>12. CASE CloseDrains
    <2>1. CASE CloseReturns(TRUE) \/ CloseReturns(FALSE)
      <3>1. /\ rx' \in BOOLEAN /\ chan' \in Seq(Int) /\ closedOk' \in BOOLEAN
            /\ parked' \in Seq({"msg", "err", "close"}) /\ op' = "idle"
        BY <2>1 DEF CloseReturns
      <3>2. UNCHANGED <<chanOpen, got>>
        BY <1>12, <2>1, <3>1 DEF CloseDrains, CloseReturns
      <3> QED BY <1>12, <3>1, <3>2 DEF CloseDrains
    <2>2. CASE chan # <<>> /\ Take /\ UNCHANGED <<rx, op, closedOk>>
      <3>1. Append(got, Head(chan)) \in Seq(Int)
        BY <2>2
      <3> QED BY <1>12, <2>2, <3>1 DEF CloseDrains, Take
    <2> QED BY <1>12, <2>1, <2>2 DEF CloseDrains
  <1>13. CASE CancelClose
    BY <1>13 DEF CancelClose
  <1>14. CASE DropConnection
    BY <1>14 DEF DropConnection, Whole
  <1>15. CASE Split
    BY <1>15 DEF Split, Whole
  <1>16. CASE PollClose
    BY <1>16 DEF PollClose
  <1>17. CASE DropSink
    BY <1>17 DEF DropSink, Release
  <1>18. CASE DropStream
    BY <1>18 DEF DropStream, Release
  <1>19. CASE UNCHANGED vars
    BY <1>19 DEF vars
  <1> QED BY <1>1, <1>2, <1>3, <1>4, <1>5, <1>6, <1>7, <1>8, <1>9, <1>10, <1>11, <1>12, <1>13, <1>14, <1>15, <1>16, <1>17, <1>18, <1>19
       DEF Next, Browser, User

(* Callbacks are attached only with their closures: ConnectingGuard and the *)
(* drops detach before they drop.                                           *)
LEMMA CallbackStep ==
    ASSUME NoDanglingCallback, [Next]_vars
    PROVE  NoDanglingCallback'
  <1> USE DEF NoDanglingCallback, calls
  <1>1. CASE OpenEvent
    BY <1>1 DEF OpenEvent
  <1>2. CASE ConnectFails
    BY <1>2 DEF ConnectFails
  <1>3. CASE Connected
    BY <1>3 DEF Connected, Closing, ReceiverDropped
  <1>4. ASSUME NEW valid \in BOOLEAN, OnMessage(valid) PROVE NoDanglingCallback'
    BY <1>4 DEF OnMessage
  <1>5. CASE OnError
    BY <1>5 DEF OnError
  <1>6. CASE OnClose
    BY <1>6 DEF OnClose
  <1>7. CASE Drained
    BY <1>7 DEF Drained
  <1>8. CASE CancelConnect
    BY <1>8 DEF CancelConnect, Closing, ReceiverDropped
  <1>9. CASE Send
    BY <1>9 DEF Send, HasCapacity
  <1>10. CASE Recv
    BY <1>10 DEF Recv, Take
  <1>11. CASE CloseWhole
    BY <1>11 DEF CloseWhole, Closing, CloseReturns, ReceiverDropped
  <1>12. CASE CloseDrains
    BY <1>12 DEF CloseDrains, CloseReturns, ReceiverDropped, Take
  <1>13. CASE CancelClose
    BY <1>13 DEF CancelClose
  <1>14. CASE DropConnection
    BY <1>14 DEF DropConnection, Closing, ReceiverDropped, Whole
  <1>15. CASE Split
    BY <1>15 DEF Split, Whole
  <1>16. CASE PollClose
    BY <1>16 DEF PollClose, Closing
  <1>17. CASE DropSink
    BY <1>17 DEF DropSink, Closing, Release
  <1>18. CASE DropStream
    BY <1>18 DEF DropStream, Closing, Release, ReceiverDropped
  <1>19. CASE UNCHANGED vars
    BY <1>19 DEF vars
  <1> QED BY <1>1, <1>2, <1>3, <1>4, <1>5, <1>6, <1>7, <1>8, <1>9, <1>10, <1>11, <1>12, <1>13, <1>14, <1>15, <1>16, <1>17, <1>18, <1>19
       DEF Next, Browser, User

(* The life of the connection moves forward; the callbacks of an OPEN       *)
(* socket always find the channel open.                                     *)
LEMMA PhaseStep ==
    ASSUME TypeOK, PhaseInv, [Next]_vars
    PROVE  PhaseInv'
  <1> USE DEF TypeOK, PhaseInv, Ended, vars, socket, calls, channel, halves, app
  <1>1. CASE OpenEvent \/ ConnectFails \/ CancelConnect
    BY <1>1 DEF OpenEvent, ConnectFails, CancelConnect, Closing
  <1>2. CASE Connected
    BY <1>2 DEF Connected, Closing
  <1>3. ASSUME NEW valid \in BOOLEAN, OnMessage(valid) PROVE PhaseInv'
    BY <1>3 DEF OnMessage
  <1>4. CASE OnError \/ OnClose
    BY <1>4 DEF OnError, OnClose
  <1>5. CASE Drained \/ Send \/ CancelClose \/ Split \/ PollClose
    BY <1>5 DEF Drained, Send, CancelClose, Split, PollClose, Whole, Closing
  <1>6. CASE Recv
    BY <1>6 DEF Recv, Take, Whole
  <1>7. CASE CloseWhole
    BY <1>7 DEF CloseWhole, CloseReturns, ReceiverDropped, Whole, Closing
  <1>8. CASE CloseDrains
    <2>1. phase = "whole" /\ Ended /\ UNCHANGED <<phase, sock, lost, attached, sink>>
      BY <1>8 DEF CloseDrains
    <2> QED BY <2>1
  <1>9. CASE DropConnection \/ DropStream
    BY <1>9 DEF DropConnection, DropStream, StreamLive, Release, Whole, Closing, ReceiverDropped
  <1>10. CASE DropSink
    BY <1>10 DEF DropSink, Release, Closing
  <1>11. CASE UNCHANGED vars
    BY <1>11
  <1> QED BY <1>1, <1>2, <1>3, <1>4, <1>5, <1>6, <1>7, <1>8, <1>9, <1>10, <1>11
          DEF Next, Browser, User

(* A socket is closed by its last owner, by a call of close, by onmessage   *)
(* or by the other side, and by nothing else.                               *)
LEMMA OwnerStep ==
    ASSUME TypeOK, PhaseInv, SocketFollowsOwner, [Next]_vars
    PROVE  SocketFollowsOwner'
  <1> USE DEF TypeOK, PhaseInv, Ended, SocketFollowsOwner, vars, socket, app
  <1>1. CASE OpenEvent \/ ConnectFails \/ CancelConnect
    BY <1>1 DEF OpenEvent, ConnectFails, CancelConnect, Closing
  <1>2. CASE Connected
    BY <1>2 DEF Connected, Closing
  <1>3. ASSUME NEW valid \in BOOLEAN, OnMessage(valid) PROVE SocketFollowsOwner'
    BY <1>3 DEF OnMessage
  <1>4. CASE OnError \/ OnClose
    BY <1>4 DEF OnError, OnClose
  <1>5. CASE Drained \/ Send \/ CancelClose \/ Split \/ PollClose
    BY <1>5 DEF Drained, Send, CancelClose, Split, PollClose, Whole, Closing
  <1>6. CASE Recv \/ CloseDrains
    BY <1>6 DEF Recv, CloseDrains
  <1>7. CASE CloseWhole
    BY <1>7 DEF CloseWhole, Whole, Closing
  <1>8. CASE DropConnection \/ DropStream
    BY <1>8 DEF DropConnection, DropStream, Release, Whole, Closing
  <1>9. CASE DropSink
    BY <1>9 DEF DropSink, Release, Closing
  <1>10. CASE UNCHANGED vars
    BY <1>10
  <1> QED BY <1>1, <1>2, <1>3, <1>4, <1>5, <1>6, <1>7, <1>8, <1>9, <1>10
          DEF Next, Browser, User

(* An item that joins the channel, when it is not a message, comes with the *)
(* end of the socket.                                                       *)
LEMMA EndAppend ==
    ASSUME TypeOK, EndInv, NEW s, NEW item \in Int, TrySend(s, item), TypeOK',
           phase' = phase, rx' = rx,
           ~chanOpen' => ~chanOpen \/ sock' = "CLOSED" \/ cut',
           sock = "CLOSED" \/ cut => sock' = "CLOSED" \/ cut',
           item \in {Failed, Closed} => sock' = "CLOSED" \/ cut'
    PROVE  EndInv'
  <1>1. /\ Len(chan') = Len(chan) + 1 /\ chan'[Len(chan) + 1] = item /\ Len(chan) \in Nat
        /\ \A i \in 1..Len(chan) : chan'[i] = chan[i]
    BY DEF TypeOK, TrySend
  <1>2. ASSUME NEW i \in 1..Len(chan'), chan'[i] \in {Failed, Closed}
        PROVE  sock' = "CLOSED" \/ cut'
    <2>1. CASE i = Len(chan) + 1
      BY <1>1, <1>2, <2>1
    <2>2. CASE i \in 1..Len(chan)
      BY <1>1, <1>2, <2>2 DEF EndInv
    <2> QED BY <1>1, <2>1, <2>2
  <1> QED BY <1>2 DEF EndInv

(* close takes the end of the channel, or an item that is not a message,    *)
(* for the end of the socket: it is, or onmessage had cut it.               *)
LEMMA EndStep ==
    ASSUME TypeOK, PhaseInv, EndInv, CloseMeansClosed, [Next]_vars, TypeOK'
    PROVE  EndInv' /\ CloseMeansClosed'
  <1> USE DEF CloseMeansClosed
  <1>1. ASSUME chan' = <<>>, UNCHANGED <<chanOpen, cut>>, phase' # "whole" \/ rx' \/ sock' = "CLOSED" \/ cut',
               sock = "CLOSED" => sock' = "CLOSED", closedOk' => closedOk \/ sock' = "CLOSED" \/ cut'
        PROVE  EndInv' /\ CloseMeansClosed'
    BY <1>1 DEF EndInv
  <1>2. ASSUME UNCHANGED <<chan, chanOpen, rx, cut, closedOk>>,
               sock = "CLOSED" => sock' = "CLOSED",
               phase' = "whole" => phase = "whole" \/ rx'
        PROVE  EndInv' /\ CloseMeansClosed'
    BY <1>2 DEF EndInv
  <1>3. CASE OpenEvent \/ ConnectFails
    BY <1>3, <1>2 DEF OpenEvent, ConnectFails, PhaseInv, channel, app
  <1>4. CASE CancelConnect \/ DropConnection
    BY <1>4, <1>1 DEF CancelConnect, DropConnection, ReceiverDropped, Closing, app
  <1>5. CASE Connected
    <2>1. CASE phase = "opened"
      BY <1>5, <2>1, <1>2 DEF Connected, channel, app, PhaseInv
    <2>2. CASE phase = "failed"
      BY <1>5, <2>2, <1>1 DEF Connected, ReceiverDropped, Closing, app
    <2> QED BY <1>5, <2>1, <2>2 DEF Connected
  <1>6. ASSUME NEW valid \in BOOLEAN, OnMessage(valid) PROVE EndInv' /\ CloseMeansClosed'
    <2>1. closedOk' => cut'
      BY <1>6 DEF OnMessage, app, TypeOK
    <2>2. CASE CanSend("msg")
      <3>1. (IF valid THEN fired' ELSE Failed) \in Int
        BY <1>6 DEF OnMessage, TypeOK, Failed
      <3>2. TrySend("msg", IF valid THEN fired' ELSE Failed)
        BY <1>6, <2>2 DEF OnMessage
      <3>3. valid => fired' \notin {Failed, Closed}
        BY <1>6 DEF OnMessage, TypeOK, Failed, Closed
      <3>4. ~valid => cut'
        BY <1>6 DEF OnMessage
      <3>5. phase' = phase /\ rx' = rx /\ (cut => cut') /\ sock # "CLOSED"
        BY <1>6 DEF OnMessage, TypeOK
      <3>6. ~chanOpen' => ~chanOpen \/ cut'
        BY <1>6 DEF OnMessage
      <3>7. EndInv'
        BY <3>1, <3>2, <3>3, <3>4, <3>5, <3>6, EndAppend
      <3> QED BY <2>1, <3>7
    <2>3. CASE ~CanSend("msg")
      BY <1>6, <2>1, <2>3 DEF OnMessage, EndInv
    <2> QED BY <2>2, <2>3
  <1>7. CASE OnError \/ OnClose
    <2>1. sock' = "CLOSED"
      BY <1>7 DEF OnError, OnClose
    <2> QED BY <2>1 DEF EndInv
  <1>8. CASE Drained \/ Send \/ CancelClose \/ Split \/ PollClose \/ DropSink \/ UNCHANGED vars
    BY <1>8, <1>2 DEF Drained, Send, CancelClose, Split, PollClose, DropSink, Release,
                      Closing, vars, channel, app, socket
  <1>9. CASE Recv \/ (CloseDrains /\ Take /\ UNCHANGED <<rx, op, closedOk>>)
    <2>1. chan # <<>> /\ chan' = Tail(chan)
          /\ UNCHANGED <<phase, chanOpen, rx, cut, sock, closedOk>>
      BY <1>9 DEF Recv, CloseDrains, Take, socket
    <2>2. \A i \in 1..Len(chan') : i + 1 \in 1..Len(chan) /\ chan'[i] = chan[i + 1]
      BY <2>1 DEF TypeOK
    <2> QED BY <2>1, <2>2 DEF EndInv
  <1>10. CASE CloseWhole
    <2>1. CASE sock = "CLOSED"
      BY <1>10, <2>1 DEF CloseWhole, Closing, EndInv
    <2>2. CASE sock # "CLOSED"
      BY <1>10, <2>2, <1>2 DEF CloseWhole, channel
    <2> QED BY <2>1, <2>2
  <1>11. CASE CloseDrains /\ (CloseReturns(TRUE) \/ CloseReturns(FALSE))
    <2>1. \/ ~rx \/ (chan = <<>> /\ ~chanOpen)
          \/ chan # <<>> /\ Head(chan) \in {Failed, Closed}
      BY <1>11 DEF CloseDrains, CloseReturns
    <2>2. phase = "whole" /\ UNCHANGED <<phase, sock, cut>>
      BY <1>11 DEF CloseDrains, PhaseInv, socket
    <2>3. chan # <<>> => 1 \in 1..Len(chan) /\ Head(chan) = chan[1]
      BY DEF TypeOK
    <2>4. sock = "CLOSED" \/ cut
      BY <2>1, <2>2, <2>3 DEF EndInv
    <2> QED BY <2>2, <2>4 DEF EndInv
  <1>12. CASE DropStream
    BY <1>12, <1>1 DEF DropStream, StreamLive, ReceiverDropped, Release, Closing, app
  <1> QED BY <1>3, <1>4, <1>5, <1>6, <1>7, <1>8, <1>9, <1>10, <1>11, <1>12
          DEF Next, Browser, User, CloseDrains

(* What the application sees of the server's messages stays in order: the   *)
(* channel takes a message only while it holds all earlier ones, and an     *)
(* item that ends it only then.                                             *)
LEMMA ItemsStep ==
    ASSUME TypeOK, PhaseInv, ChanInv, NoGap, [Next]_vars, TypeOK'
    PROVE  ChanInv' /\ NoGap'
  <1> DEFINE all == got \o chan
  <1>1. /\ all \in Seq(Int) /\ all' \in Seq(Int) /\ Len(all) \in Nat
        /\ Failed \in Int /\ Closed \in Int /\ fired \in Nat
    BY AllItems DEF TypeOK, Failed, Closed
  <1>2. /\ NoGap <=> InOrder(all, fired)
        /\ NoGap' <=> InOrder(all', fired')
        /\ ChanInv <=> (chanOpen /\ rx => Stands(all, fired) /\ (sock # "CLOSED" => fired = Len(all)))
        /\ ChanInv' <=> (chanOpen' /\ rx' =>
                            Stands(all', fired') /\ (sock' # "CLOSED" => fired' = Len(all')))
    BY DEF NoGap, InOrder, ChanInv, Stands
  <1> HIDE DEF all
  <1>3. ASSUME all' = all, fired' = fired, chanOpen' /\ rx' => chanOpen /\ rx,
               sock = "CLOSED" => sock' = "CLOSED"
        PROVE  ChanInv' /\ NoGap'
    BY <1>2, <1>3
  <1>4. ASSUME got' = got, chan' = <<>>, fired' = fired, ~rx'
        PROVE  ChanInv' /\ NoGap'
    <2>1. /\ all' = got /\ Len(got) <= Len(all)
          /\ \A i \in 1..Len(got) : got[i] = all[i]
      BY <1>4, AllItems DEF TypeOK, all
    <2>2. InOrder(got, fired)
      BY <1>1, <1>2, <2>1, InOrderPrefix DEF TypeOK
    <2> QED BY <1>2, <1>4, <2>1, <2>2
  <1>5. CASE OpenEvent \/ ConnectFails
    BY <1>5, <1>3 DEF OpenEvent, ConnectFails, PhaseInv, channel, app, all
  <1>6. CASE CancelConnect \/ DropConnection \/ DropStream
    BY <1>6, <1>4 DEF CancelConnect, DropConnection, DropStream, ReceiverDropped, app
  <1>7. CASE Connected
    <2>1. CASE phase = "opened"
      BY <1>7, <2>1, <1>3 DEF Connected, channel, app, all
    <2>2. CASE phase = "failed"
      BY <1>7, <2>2, <1>4 DEF Connected, ReceiverDropped, app
    <2> QED BY <1>7, <2>1, <2>2 DEF Connected
  <1>8. ASSUME NEW valid \in BOOLEAN, OnMessage(valid) PROVE ChanInv' /\ NoGap'
    <2>1. /\ chanOpen /\ rx /\ sock = "OPEN" /\ fired' = fired + 1
          /\ UNCHANGED <<got, rx>>
      BY <1>8 DEF OnMessage, PhaseInv, app
    <2>2. Stands(all, fired) /\ fired = Len(all)
      BY <1>2, <2>1
    <2>3. CASE CanSend("msg") /\ valid
      <3>1. chan' = Append(chan, fired + 1)
        BY <1>8, <2>1, <2>3 DEF OnMessage, TrySend
      <3>2. all' = Append(all, fired + 1)
        BY <2>1, <3>1, AllItems DEF TypeOK, all
      <3>3. Stands(all', fired') /\ Len(all') = fired'
        BY <1>1, <2>1, <2>2, <3>2, StandsAppend
      <3>4. InOrder(all', fired')
        BY <1>1, <2>1, <3>3, StandsInOrder DEF TypeOK
      <3> QED BY <1>2, <3>3, <3>4
    <2>4. CASE CanSend("msg") /\ ~valid
      <3>1. chan' = Append(chan, Failed) /\ ~chanOpen'
        BY <1>8, <2>4 DEF OnMessage, TrySend
      <3>2. all' = Append(all, Failed)
        BY <1>1, <2>1, <3>1, AllItems DEF TypeOK, all
      <3>3. InOrder(all', fired')
        BY <1>1, <2>1, <2>2, <3>2, StandsAppend
      <3> QED BY <1>2, <3>1, <3>3
    <2>5. CASE ~CanSend("msg")
      <3>1. chan' = chan /\ ~chanOpen'
        BY <1>8, <2>5 DEF OnMessage
      <3>2. all' = all
        BY <2>1, <3>1 DEF all
      <3>3. InOrder(all', fired')
        BY <1>1, <2>1, <2>2, <3>2, StandsInOrder DEF TypeOK
      <3> QED BY <1>2, <3>1, <3>3
    <2> QED BY <2>3, <2>4, <2>5
  <1>9. CASE OnError
    <2>1. sock' = "CLOSED" /\ UNCHANGED <<got, rx, fired>> /\ (chanOpen' => chanOpen)
      BY <1>9 DEF OnError, app, TypeOK
    <2>2. CASE attached = "conn" /\ CanSend("err")
      <3>1. chan' = Append(chan, Failed) /\ chanOpen /\ rx
        BY <1>9, <2>2 DEF OnError, TrySend, CanSend
      <3>2. all' = Append(all, Failed)
        BY <1>1, <2>1, <3>1, AllItems DEF TypeOK, all
      <3>3. Stands(all, fired)
        BY <1>2, <3>1
      <3>4. Stands(all', fired)
        BY <1>1, <3>2, <3>3, StandsAppend
      <3>5. InOrder(all', fired)
        BY <1>1, <3>4, StandsInOrder
      <3> QED BY <1>2, <2>1, <3>4, <3>5
    <2>3. CASE ~(attached = "conn" /\ CanSend("err"))
      BY <1>9, <2>1, <2>3, <1>3 DEF OnError, all
    <2> QED BY <2>2, <2>3
  <1>10. CASE OnClose
    <2>1. sock' = "CLOSED" /\ UNCHANGED <<got, rx, fired>> /\ (chanOpen' => chanOpen)
      BY <1>10 DEF OnClose, app, TypeOK
    <2>2. CASE attached = "conn" /\ CanSend("close")
      <3>1. chan' = Append(chan, Closed) /\ chanOpen /\ rx /\ ~chanOpen'
        BY <1>10, <2>2 DEF OnClose, TrySend, CanSend
      <3>2. all' = Append(all, Closed)
        BY <1>1, <2>1, <3>1, AllItems DEF TypeOK, all
      <3>3. Stands(all, fired)
        BY <1>2, <3>1
      <3>4. InOrder(all', fired)
        BY <1>1, <3>2, <3>3, StandsAppend
      <3> QED BY <1>2, <2>1, <3>1, <3>4
    <2>3. CASE ~(attached = "conn" /\ CanSend("close"))
      BY <1>10, <2>1, <2>3, <1>3 DEF OnClose, all
    <2> QED BY <2>2, <2>3
  <1>11. CASE Drained \/ Send \/ CancelClose \/ Split \/ PollClose \/ DropSink \/ UNCHANGED vars
    BY <1>11, <1>3 DEF Drained, Send, CancelClose, Split, PollClose, DropSink, Closing,
                       vars, channel, app, socket, all
  <1>12. CASE Recv \/ (CloseDrains /\ Take /\ UNCHANGED <<rx, op, closedOk>>)
    <2>1. /\ chan # <<>> /\ chan' = Tail(chan) /\ got' = Append(got, Head(chan))
          /\ UNCHANGED <<chanOpen, rx, fired, sock>>
      BY <1>12 DEF Recv, CloseDrains, Take, socket
    <2>2. all' = all
      BY <2>1, AllItems DEF TypeOK, all
    <2> QED BY <2>1, <2>2, <1>3
  <1>13. CASE CloseWhole
    <2>1. CASE CloseReturns(TRUE)
      BY <1>13, <2>1, <1>4 DEF CloseWhole, CloseReturns, ReceiverDropped
    <2>2. CASE UNCHANGED channel
      BY <1>13, <2>2, <1>3 DEF CloseWhole, channel, Closing, all
    <2> QED BY <1>13, <2>1, <2>2 DEF CloseWhole
  <1>14. CASE CloseDrains /\ (CloseReturns(TRUE) \/ CloseReturns(FALSE))
    BY <1>14, <1>4 DEF CloseDrains, CloseReturns, ReceiverDropped
  <1> QED BY <1>5, <1>6, <1>7, <1>8, <1>9, <1>10, <1>11, <1>12, <1>13, <1>14
          DEF Next, Browser, User, CloseDrains

(* connect has been called, and nothing has happened yet.                   *)
LEMMA InitIInv == Init => IInv
  <1> SUFFICES ASSUME Init PROVE IInv
    OBVIOUS
  <1>1. /\ chan \in Seq(Int) /\ got \in Seq(Int) /\ parked \in Seq({"msg", "err", "close"})
        /\ Len(chan) = 0 /\ got \o chan = <<>> /\ Len(got \o chan) = 0
    BY DEF Init
  <1>2. TypeOK
    <2>1. /\ lost \in BOOLEAN /\ chanOpen \in BOOLEAN /\ rx \in BOOLEAN
          /\ asked \in BOOLEAN /\ cut \in BOOLEAN /\ closedOk \in BOOLEAN
      BY DEF Init
    <2> QED BY <1>1, <2>1 DEF Init, TypeOK
  <1>3. PhaseInv /\ EndInv /\ NoDanglingCallback
    <2>1. PhaseInv
      BY DEF Init, PhaseInv, Ended
    <2>2. EndInv /\ NoDanglingCallback
      BY <1>1 DEF Init, EndInv, NoDanglingCallback
    <2> QED BY <2>1, <2>2
  <1>4. ChanInv /\ NoGap
    BY <1>1 DEF Init, ChanInv, NoGap
  <1>5. SocketFollowsOwner /\ CloseMeansClosed
    BY DEF Init, SocketFollowsOwner, CloseMeansClosed
  <1> QED BY <1>2, <1>3, <1>4, <1>5 DEF IInv

(* The inductive invariant of the browser connection.                       *)
THEOREM ConnectionInvariant == Spec => []IInv
  <1>1. IInv /\ [Next]_vars => IInv'
    BY TypeStep, CallbackStep, PhaseStep, OwnerStep, EndStep, ItemsStep DEF IInv
  <1> QED BY InitIInv, <1>1, PTL DEF Spec

(* However connect is cancelled and whichever half goes first, the browser  *)
(* never calls a closure that Rust has dropped.                             *)
THEOREM CallbacksOutliveSocket == Spec => []NoDanglingCallback
  <1>1. IInv => NoDanglingCallback
    BY DEF IInv
  <1> QED BY ConnectionInvariant, <1>1, PTL

(* recv and poll_next hand on the messages of the server in order, without  *)
(* a gap, for every buffer size: overflow ends the stream, it skips nothing.*)
THEOREM MessagesInOrder == Spec => []NoGap
  <1>1. IInv => NoGap
    BY DEF IInv
  <1> QED BY ConnectionInvariant, <1>1, PTL

(* The socket is closed once Connection and halves are gone, and not before *)
(* unless the application, onmessage or the other side asked for it.        *)
THEOREM SocketHasOwner == Spec => []SocketFollowsOwner
  <1>1. IInv => SocketFollowsOwner
    BY DEF IInv
  <1> QED BY ConnectionInvariant, <1>1, PTL

(* Connection::close returns Ok only for a socket that is CLOSED, or whose  *)
(* channel onmessage had cut.                                               *)
THEOREM CloseIsConfirmed == Spec => []CloseMeansClosed
  <1>1. IInv => CloseMeansClosed
    BY DEF IInv
  <1> QED BY ConnectionInvariant, <1>1, PTL

============================================================================
