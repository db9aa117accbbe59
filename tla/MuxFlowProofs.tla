-------------------------- MODULE MuxFlowProofs --------------------------
(* Proofs about MuxFlow, for every value of its constants. *)
EXTENDS MuxFlow, TLAPS

(* A frame as S builds it: an interval of the bytes published up to pos, at *)
(* most one chunk long; only Stream frames carry bytes or FIN.              *)
FrameOK(f, pos) ==
    /\ f.lo <= f.hi /\ f.hi <= pos
    /\ f.t = "stream" => f.hi - f.lo <= MaxChunk
    /\ f.t # "stream" => f.lo = f.hi /\ ~f.fin

FramesOK ==
    /\ \A i \in 1..Len(sWire)  : FrameOK(sWire[i], written)
    /\ \A i \in 1..Len(sQueue) : FrameOK(sQueue[i], written)

(* Each number is bounded by the next one along the path the credit took.   *)
CreditInv ==
    /\ written + grant <= sentData /\ sentData <= maxData /\ maxData <= rMax
    /\ wpc = "send" => grant <= MaxChunk
    /\ credit <= rMax
    /\ \A i \in 1..Len(rWire)  : rWire[i].max <= rMax
    /\ \A i \in 1..Len(rQueue) : rQueue[i].max <= rMax
    /\ rMax <= granted
    /\ rpc = "queue" => granted <= rMax

(* Before R has read OPEN nothing exists at R; OPEN is then the first frame *)
(* on its way, unless the transport lost it.                                *)
OpenInv ==
    /\ rpc = "none" => /\ rMax = 0 /\ entry = "none"
                       /\ rIn \notin {"deliver", "retire"}
    /\ rpc = "opening" => InitialWindow <= rMax
    /\ \A i \in 1..Len(sWire)  : sWire[i].t = "open" => rpc = "none" /\ i = 1
    /\ \A i \in 1..Len(sQueue) : sQueue[i].t = "open" =>
                                   rpc = "none" /\ i = 1 /\ sWire = <<>>
    /\ rpc = "none" /\ rConn = "up" =>
         \/ sWire # <<>> /\ sWire[1].t = "open"
         \/ sWire = <<>> /\ sQueue # <<>> /\ sQueue[1].t = "open"
         \/ sWire = <<>> /\ sConn = "gone"

Contig(q) == \A i \in 1..Len(q) - 1 : q[i].hi = q[i + 1].lo

(* Where the first byte still in S's queue, or not published yet, belongs.  *)
QueueStart == IF sQueue = <<>> THEN written ELSE sQueue[1].lo

(* What is on its way to R continues exactly where R stands.                *)
ChainInv ==
    /\ sConn = "gone" => sQueue = <<>>
    /\ rConn = "up" =>
         /\ Contig(sWire) /\ Contig(sQueue)
         /\ sWire # <<>> => sWire[1].lo = received
         /\ sConn # "gone" =>
              /\ sQueue # <<>> => sQueue[Len(sQueue)].hi = written
              /\ IF sWire = <<>> THEN QueueStart = received
                                 ELSE sWire[Len(sWire)].hi = QueueStart

Terminal(f) == f.t = "reset" \/ f.fin
Over        == ~flowLive \/ wpc = "finRemove"
NoData(q)   == \A i \in 1..Len(q) : q[i].t # "stream"

(* The receive direction is retired, or about to be.                        *)
Ended ==
    \/ entry = "none" /\ rpc # "none"
    \/ rIn \in {"deliver", "retire"} /\ cur.fin

TermInv ==
    /\ wpc = "rstSend" => ~flowLive
    /\ sIn = "ack" => ~flowLive
    /\ rIn = "retire" => cur.fin
    /\ \A i \in 1..Len(sWire) : Terminal(sWire[i]) =>
          Over /\ NoData(sQueue) /\ \A j \in i + 1..Len(sWire) : sWire[j].t # "stream"
    /\ \A i \in 1..Len(sQueue) : Terminal(sQueue[i]) =>
          Over /\ \A j \in i + 1..Len(sQueue) : sQueue[j].t # "stream"
    /\ Ended /\ rConn = "up" /\ ~rDown => Over /\ NoData(sWire) /\ NoData(sQueue)

(* R accepts no byte beyond what it granted, and grants no more than one    *)
(* window beyond what the application consumed.                             *)
WindowInv == /\ received <= rMax
             /\ granted <= consumed + InitialWindow
             /\ \A i \in 1..Len(events) : events[i].lo <= events[i].hi
             /\ cur.lo <= cur.hi

IInv == /\ TypeOK /\ FramesOK /\ CreditInv /\ OpenInv /\ ChainInv /\ TermInv
        /\ WindowInv /\ NoSpuriousError

(* Append keeps the old elements in place and adds one at the end.          *)
LEMMA AppendFacts ==
    ASSUME NEW S, NEW q \in Seq(S), NEW e \in S
    PROVE  /\ Append(q, e) \in Seq(S) /\ Len(Append(q, e)) = Len(q) + 1
           /\ \A i \in 1..Len(q) : Append(q, e)[i] = q[i]
           /\ Append(q, e)[Len(q) + 1] = e
           /\ Append(q, e) # <<>> /\ Len(q) \in Nat
  OBVIOUS

(* What Head and Tail return for a sequence that is not empty.              *)
LEMMA TailFacts ==
    ASSUME NEW S, NEW q \in Seq(S), q # <<>>
    PROVE  /\ Head(q) = q[1] /\ q[1] \in S /\ Len(q) \in Nat \ {0}
           /\ Tail(q) \in Seq(S) /\ Len(Tail(q)) = Len(q) - 1
           /\ \A i \in 1..Len(q) - 1 : Tail(q)[i] = q[i + 1]
  OBVIOUS

(* A prefix has the elements of the sequence it was cut from.               *)
LEMMA PrefixFacts ==
    ASSUME NEW S, NEW q \in Seq(S), NEW k \in 0..Len(q)
    PROVE  /\ SubSeq(q, 1, k) \in Seq(S) /\ Len(SubSeq(q, 1, k)) = k
           /\ \A i \in 1..k : SubSeq(q, 1, k)[i] = q[i]
  OBVIOUS

(* Length, emptiness and element types of a sequence.                       *)
LEMMA EmptyFacts ==
    ASSUME NEW S, NEW q \in Seq(S)
    PROVE  /\ Len(q) \in Nat /\ (q = <<>> <=> Len(q) = 0)
           /\ \A i \in 1..Len(q) : q[i] \in S
           /\ <<>> \in Seq(S) /\ Len(<<>>) = 0
  OBVIOUS

(* on_bytes_consumed only raises granted, and never beyond one window past  *)
(* the bytes consumed.                                                      *)
LEMMA ConsumedFacts ==
    ASSUME TypeOK, rpc = "idle", NEW n \in Nat, NEW fin \in BOOLEAN,
           OnBytesConsumed(n, fin)
    PROVE  /\ consumed' \in Nat /\ granted' \in Nat /\ granted <= granted'
           /\ rpc' \in {"idle", "store"} /\ consumed' = consumed + n
           /\ granted <= consumed + InitialWindow => granted' <= consumed' + InitialWindow
  BY LimitsAssumption DEF TypeOK, OnBytesConsumed, Min2

(* S's outbound queue after a frame was admitted to it.                     *)
LEMMA SPushFacts ==
    ASSUME TypeOK, NEW f \in Frame, SPush(f)
    PROVE  /\ sQueue' \in Seq(Frame) /\ Len(sQueue') = Len(sQueue) + 1
           /\ \A i \in 1..Len(sQueue) : sQueue'[i] = sQueue[i]
           /\ sQueue'[Len(sQueue) + 1] = f
           /\ sQueue' # <<>>
  BY AppendFacts DEF TypeOK, SPush

(* A credit within rMax may join R's queue.                                 *)
LEMMA RQueuePush ==
    ASSUME TypeOK, CreditInv, NEW c \in Ctl, c.max <= rMax,
           rQueue' = Append(rQueue, c)
    PROVE  /\ rQueue' \in Seq(Ctl)
           /\ \A i \in 1..Len(rQueue') : rQueue'[i].max <= rMax
<1>1. rQueue \in Seq(Ctl)
  BY DEF TypeOK
<1>2. \A i \in 1..Len(rQueue) : rQueue[i].max <= rMax
  BY DEF CreditInv
<1> QED BY <1>1, <1>2, AppendFacts

(* A credit within rMax may join R's wire.                                  *)
LEMMA RWirePush ==
    ASSUME TypeOK, CreditInv, NEW c \in Ctl, c.max <= rMax,
           rWire' = Append(rWire, c)
    PROVE  /\ rWire' \in Seq(Ctl)
           /\ \A i \in 1..Len(rWire') : rWire'[i].max <= rMax
<1>1. rWire \in Seq(Ctl)
  BY DEF TypeOK
<1>2. \A i \in 1..Len(rWire) : rWire[i].max <= rMax
  BY DEF CreditInv
<1> QED BY <1>1, <1>2, AppendFacts

(* A frame that starts at the position published so far extends the chain.  *)
LEMMA PushPreserves ==
    ASSUME TypeOK, FramesOK, OpenInv, ChainInv,
           NEW f \in Frame, SPush(f), sConn # "gone", f.t # "open",
           written' \in Nat, written <= written',
           f.lo = written, f.hi = written', FrameOK(f, written'),
           UNCHANGED <<rpc, rMax, entry, rIn, rConn, sConn, received>>
    PROVE  FramesOK' /\ OpenInv' /\ ChainInv'
<1>1. /\ sQueue \in Seq(Frame) /\ sWire \in Seq(Frame) /\ written \in Nat
      /\ Len(sQueue) \in Nat /\ Len(sWire) \in Nat
  BY EmptyFacts DEF TypeOK
<1>2. /\ sQueue' \in Seq(Frame) /\ Len(sQueue') = Len(sQueue) + 1
      /\ \A i \in 1..Len(sQueue) : sQueue'[i] = sQueue[i]
      /\ sQueue'[Len(sQueue) + 1] = f /\ sQueue' # <<>>
      /\ sWire' = sWire
  BY SPushFacts DEF SPush
<1>3. \A g \in Frame : FrameOK(g, written) => FrameOK(g, written')
  BY <1>1 DEF FrameOK, Frame
<1>4. FramesOK'
  BY <1>1, <1>2, <1>3, EmptyFacts DEF FramesOK
<1>a. \A i \in 1..Len(sQueue') :
         \/ i \in 1..Len(sQueue) /\ sQueue'[i] = sQueue[i]
         \/ i = Len(sQueue) + 1 /\ sQueue'[i] = f
  BY <1>1, <1>2
<1>b. /\ sQueue # <<>> => Len(sQueue) >= 1 /\ sQueue'[1] = sQueue[1]
      /\ sQueue = <<>> => Len(sQueue) = 0 /\ sQueue'[1] = f
  BY <1>1, <1>2, EmptyFacts
<1>5. OpenInv'
  BY <1>1, <1>2, <1>a, <1>b DEF OpenInv
<1>6. Contig(sQueue)' \/ rConn # "up"
  <2> SUFFICES ASSUME rConn = "up", NEW i \in 1..Len(sQueue') - 1
               PROVE  sQueue'[i].hi = sQueue'[i + 1].lo
    BY DEF Contig
  <2>1. CASE i < Len(sQueue)
    <3>1. i \in 1..Len(sQueue) - 1 /\ i \in 1..Len(sQueue) /\ i + 1 \in 1..Len(sQueue)
      BY <1>1, <1>2, <2>1
    <3>2. sQueue[i].hi = sQueue[i + 1].lo
      BY <3>1 DEF ChainInv, Contig
    <3> QED BY <1>2, <3>1, <3>2
  <2>2. CASE i = Len(sQueue)
    BY <1>1, <1>2, <1>b, <2>2 DEF ChainInv
  <2> QED BY <1>1, <1>2, <2>1, <2>2
<1>7. ChainInv'
  BY <1>1, <1>2, <1>b, <1>6 DEF ChainInv, QueueStart
<1> QED BY <1>4, <1>5, <1>7

(* A RESET may follow anything, once the flow is retired.                   *)
LEMMA ResetPreserves ==
    ASSUME TypeOK, TermInv, SPush(ResetStream), ~flowLive',
           UNCHANGED <<rIn, cur, entry, rpc, rConn, rDown>>
    PROVE  TermInv'
<1>1. /\ sQueue \in Seq(Frame) /\ sWire \in Seq(Frame)
      /\ Len(sQueue) \in Nat /\ Len(sWire) \in Nat
      /\ ResetStream \in Frame
  BY EmptyFacts DEF TypeOK, ResetStream, Frame
<1>2. /\ sQueue' \in Seq(Frame) /\ Len(sQueue') = Len(sQueue) + 1
      /\ \A i \in 1..Len(sQueue) : sQueue'[i] = sQueue[i]
      /\ sQueue'[Len(sQueue) + 1] = ResetStream /\ sWire' = sWire
  BY <1>1, SPushFacts DEF SPush
<1>3. NoData(sQueue) => NoData(sQueue)'
  BY <1>1, <1>2 DEF NoData, ResetStream
<1>4. \A i \in 1..Len(sQueue') : Terminal(sQueue'[i]) =>
         \A j \in i + 1..Len(sQueue') : sQueue'[j].t # "stream"
  <2> SUFFICES ASSUME NEW i \in 1..Len(sQueue'), Terminal(sQueue'[i]),
                      NEW j \in i + 1..Len(sQueue')
               PROVE  sQueue'[j].t # "stream"
    OBVIOUS
  <2>1. CASE j = Len(sQueue) + 1
    BY <1>2, <2>1 DEF ResetStream
  <2>2. CASE j \in i + 1..Len(sQueue)
    <3>1. i \in 1..Len(sQueue) /\ sQueue'[i] = sQueue[i] /\ sQueue'[j] = sQueue[j]
      BY <1>1, <1>2, <2>2
    <3> QED BY <2>2, <3>1 DEF TermInv
  <2> QED BY <1>1, <1>2, <2>1, <2>2
<1> QED BY <1>1, <1>2, <1>3, <1>4 DEF TermInv, Over, Ended, Terminal, NoData

(* S's wire after R's inbound task took a frame from it.                    *)
LEMMA ReadFacts ==
    ASSUME TypeOK, sWire # <<>>, sWire' = Tail(sWire)
    PROVE  /\ sWire' \in Seq(Frame) /\ Len(sWire') = Len(sWire) - 1
           /\ \A i \in 1..Len(sWire) - 1 : sWire'[i] = sWire[i + 1]
           /\ Head(sWire) = sWire[1] /\ sWire[1] \in Frame
           /\ Len(sWire) \in Nat \ {0} /\ sQueue \in Seq(Frame)
           /\ Len(sQueue) \in Nat
           /\ (sWire' = <<>> <=> Len(sWire) = 1)
<1>1. sWire \in Seq(Frame) /\ sQueue \in Seq(Frame) /\ Len(sQueue) \in Nat
  BY EmptyFacts DEF TypeOK
<1>2. /\ sWire' \in Seq(Frame) /\ Len(sWire') = Len(sWire) - 1
      /\ \A i \in 1..Len(sWire) - 1 : sWire'[i] = sWire[i + 1]
      /\ Head(sWire) = sWire[1] /\ sWire[1] \in Frame
      /\ Len(sWire) \in Nat \ {0}
  BY <1>1, TailFacts
<1>3. sWire' = <<>> <=> Len(sWire) = 1
  BY <1>2, EmptyFacts
<1> QED BY <1>1, <1>2, <1>3

(* WriteBuf preserves the inductive invariant.                              *)
LEMMA WriteBufStep ==
    ASSUME IInv, NEW n \in 1..TotalBytes, WriteBuf(n) PROVE IInv'
<1> USE LimitsAssumption DEF IInv, WriteBuf, SIsClosed, snd, rst, rapp, ses, inb, net
<1>1. TypeOK'
  BY DEF TypeOK
<1>2. FramesOK' /\ OpenInv' /\ ChainInv' /\ NoSpuriousError'
  BY
  DEF FramesOK, FrameOK, OpenInv, ChainInv, Contig, QueueStart, NoSpuriousError
<1>3. CreditInv'
  BY DEF CreditInv, TypeOK
<1>4. TermInv'
  BY DEF TermInv, Over, NoData, Ended, Terminal
<1>5. WindowInv'
  BY DEF WindowInv, TypeOK
<1> QED BY <1>1, <1>2, <1>3, <1>4, <1>5

(* Reserve preserves the inductive invariant.                               *)
LEMMA ReserveStep ==
    ASSUME IInv, Reserve PROVE IInv'
<1> USE LimitsAssumption DEF IInv, Reserve, TryReserve, Min2, Todo, snd, rst, rapp, ses, inb, net
<1>1. TypeOK'
  BY DEF TypeOK
<1>2. FramesOK' /\ OpenInv' /\ ChainInv' /\ NoSpuriousError'
  BY
  DEF FramesOK, FrameOK, OpenInv, ChainInv, Contig, QueueStart, NoSpuriousError
<1>3. CreditInv'
  BY DEF CreditInv, TypeOK
<1>4. TermInv'
  BY DEF TermInv, Over, NoData, Ended, Terminal
<1>5. WindowInv'
  BY DEF WindowInv, TypeOK
<1> QED BY <1>1, <1>2, <1>3, <1>4, <1>5

(* Release preserves the inductive invariant.                               *)
LEMMA ReleaseStep ==
    ASSUME IInv, Release PROVE IInv'
<1> USE LimitsAssumption DEF IInv, Release, SendFails, snd, rst, rapp, ses, inb, net
<1>1. TypeOK'
  BY DEF TypeOK, CreditInv
<1>2. FramesOK' /\ OpenInv' /\ ChainInv' /\ NoSpuriousError'
  BY
  DEF FramesOK, FrameOK, OpenInv, ChainInv, Contig, QueueStart, NoSpuriousError
<1>3. CreditInv'
  BY DEF CreditInv, TypeOK
<1>4. TermInv'
  BY DEF TermInv, Over, NoData, Ended, Terminal
<1>5. WindowInv'
  BY DEF WindowInv, TypeOK
<1> QED BY <1>1, <1>2, <1>3, <1>4, <1>5

(* Finish preserves the inductive invariant.                                *)
LEMMA FinishStep ==
    ASSUME IInv, Finish PROVE IInv'
<1> USE LimitsAssumption DEF IInv, Finish, snd, rst, rapp, ses, inb, net
<1>1. TypeOK'
  BY DEF TypeOK
<1>2. FramesOK' /\ OpenInv' /\ ChainInv' /\ NoSpuriousError'
  BY
  DEF FramesOK, FrameOK, OpenInv, ChainInv, Contig, QueueStart, NoSpuriousError
<1>3. CreditInv'
  BY DEF CreditInv, TypeOK
<1>4. TermInv'
  BY DEF TermInv, Over, NoData, Ended, Terminal
<1>5. WindowInv'
  BY DEF WindowInv, TypeOK
<1> QED BY <1>1, <1>2, <1>3, <1>4, <1>5

(* FinRemove preserves the inductive invariant.                             *)
LEMMA FinRemoveStep ==
    ASSUME IInv, FinRemove PROVE IInv'
<1> USE LimitsAssumption DEF IInv, FinRemove, snd, rst, rapp, ses, inb, net
<1>0. flowLive' \in BOOLEAN
  BY DEF TypeOK
<1>1. TypeOK'
  BY <1>0 DEF TypeOK
<1>2. FramesOK' /\ OpenInv' /\ ChainInv' /\ NoSpuriousError'
  BY
  DEF FramesOK, FrameOK, OpenInv, ChainInv, Contig, QueueStart, NoSpuriousError
<1>3. CreditInv'
  BY DEF CreditInv, TypeOK
<1>4. TermInv'
  BY DEF TermInv, Over, NoData, Ended, Terminal
<1>5. WindowInv'
  BY DEF WindowInv, TypeOK
<1> QED BY <1>1, <1>2, <1>3, <1>4, <1>5

(* Reset preserves the inductive invariant.                                 *)
LEMMA ResetStep ==
    ASSUME IInv, Reset PROVE IInv'
<1> USE LimitsAssumption DEF IInv, Reset, snd, rst, rapp, ses, inb, net
<1>0. flowLive' \in BOOLEAN
  BY DEF TypeOK
<1>1. TypeOK'
  BY <1>0 DEF TypeOK
<1>2. FramesOK' /\ OpenInv' /\ ChainInv' /\ NoSpuriousError'
  BY
  DEF FramesOK, FrameOK, OpenInv, ChainInv, Contig, QueueStart, NoSpuriousError
<1>3. CreditInv'
  BY DEF CreditInv, TypeOK
<1>4. TermInv'
  BY DEF TermInv, Over, NoData, Ended, Terminal
<1>5. WindowInv'
  BY DEF WindowInv, TypeOK
<1> QED BY <1>1, <1>2, <1>3, <1>4, <1>5

(* CancelSend preserves the inductive invariant.                            *)
LEMMA CancelSendStep ==
    ASSUME IInv, CancelSend PROVE IInv'
<1> USE LimitsAssumption DEF IInv, CancelSend, snd, rst, rapp, ses, inb, net
<1>0. sDown' \in BOOLEAN
  BY DEF TypeOK
<1>1. TypeOK'
  BY <1>0 DEF TypeOK
<1>2. FramesOK' /\ OpenInv' /\ ChainInv' /\ NoSpuriousError'
  BY
  DEF FramesOK, FrameOK, OpenInv, ChainInv, Contig, QueueStart, NoSpuriousError
<1>3. CreditInv'
  BY DEF CreditInv, TypeOK
<1>4. TermInv'
  BY DEF TermInv, Over, NoData, Ended, Terminal
<1>5. WindowInv'
  BY DEF WindowInv, TypeOK
<1> QED BY <1>1, <1>2, <1>3, <1>4, <1>5

(* Publish preserves the inductive invariant.                               *)
LEMMA PublishStep ==
    ASSUME IInv, Publish PROVE IInv'
<1> USE LimitsAssumption DEF IInv, Publish, SPush, SRoom, Stream, Todo, snd, rst, rapp, ses, inb, net
<1>a. /\ sQueue \in Seq(Frame) /\ sWire \in Seq(Frame)
      /\ Len(sQueue) \in Nat /\ Len(sWire) \in Nat
  BY EmptyFacts DEF TypeOK
<1>b. Stream(written, written + grant, FALSE) \in Frame
  BY DEF TypeOK, Frame
<1>f. /\ sQueue' \in Seq(Frame) /\ Len(sQueue') = Len(sQueue) + 1
      /\ \A i \in 1..Len(sQueue) : sQueue'[i] = sQueue[i]
      /\ sQueue'[Len(sQueue) + 1] = Stream(written, written + grant, FALSE)
      /\ sQueue' # <<>>
  BY <1>a, <1>b, AppendFacts
<1>g. FrameOK(Stream(written, written + grant, FALSE), written')
  BY DEF FrameOK, TypeOK, CreditInv
<1>h. \A f \in Frame : FrameOK(f, written) => FrameOK(f, written')
  BY DEF FrameOK, TypeOK, Frame
<1>1. TypeOK'
  BY <1>a, <1>b, <1>f, EmptyFacts DEF TypeOK
<1>2. FramesOK'
  BY <1>a, <1>b, <1>f, <1>g, <1>h, EmptyFacts DEF FramesOK
<1>3. CreditInv'
  BY DEF CreditInv, TypeOK
<1>4. OpenInv'
  BY <1>a, <1>b, <1>f, EmptyFacts DEF OpenInv
<1>5. ChainInv'
  BY <1>a, <1>b, <1>f, EmptyFacts DEF ChainInv, Contig, QueueStart
<1>6. TermInv'
  BY <1>a, <1>b, <1>f, EmptyFacts
  DEF TermInv, Over, NoData, Ended, Terminal
<1>7. WindowInv'
  BY DEF WindowInv, TypeOK
<1>8. NoSpuriousError'
  BY DEF NoSpuriousError
<1> QED BY <1>1, <1>2, <1>3, <1>4, <1>5, <1>6, <1>7, <1>8

(* ReadPending preserves the inductive invariant.                           *)
LEMMA ReadPendingStep ==
    ASSUME IInv, NEW k \in 1..MaxFrame, ReadPending(k) PROVE IInv'
<1> USE LimitsAssumption DEF IInv, ReadPending, snd, rst, rapp, ses, inb, net
<1>a. pend[1] \in Nat /\ pend[2] \in Nat /\ k \in Nat
  BY DEF TypeOK
<1>b. Min2(k, pend[2] - pend[1]) \in Nat
  BY <1>a DEF Min2
<1>c. pend' \in Nat \X Nat
  BY <1>a, <1>b
<1>d. /\ consumed' \in Nat /\ granted' \in Nat /\ granted <= granted'
      /\ rpc' \in {"idle", "store"}
      /\ granted' <= consumed' + InitialWindow
  BY <1>b, ConsumedFacts DEF TypeOK, WindowInv
<1>1. TypeOK'
  BY <1>c, <1>d DEF TypeOK
<1>2. FramesOK'
  BY <1>c, <1>d DEF FramesOK, FrameOK
<1>3. CreditInv'
  BY <1>c, <1>d DEF CreditInv, TypeOK
<1>4. OpenInv'
  BY <1>c, <1>d DEF OpenInv
<1>5. ChainInv'
  BY <1>c, <1>d DEF ChainInv, Contig, QueueStart
<1>6. TermInv'
  BY <1>c, <1>d DEF TermInv, Over, NoData, Ended, Terminal
<1>7. WindowInv'
  BY <1>c, <1>d DEF WindowInv, TypeOK
<1>8. NoSpuriousError'
  BY DEF NoSpuriousError
<1> QED BY <1>1, <1>2, <1>3, <1>4, <1>5, <1>6, <1>7, <1>8

(* ReadEvent preserves the inductive invariant.                             *)
LEMMA ReadEventStep ==
    ASSUME IInv, NEW k \in 1..MaxFrame, ReadEvent(k) PROVE IInv'
<1> USE LimitsAssumption DEF IInv, ReadEvent, snd, rst, rapp, ses, inb, net
<1>a. /\ events' \in Seq(Frame) /\ Head(events) \in Frame /\ k \in Nat
  BY TailFacts DEF TypeOK
<1>b. /\ Head(events).hi \in Nat /\ Head(events).lo \in Nat
      /\ Head(events).fin \in BOOLEAN
  BY <1>a DEF Frame
<1>c. /\ Head(events).lo <= Head(events).hi
      /\ \A i \in 1..Len(events') : events'[i].lo <= events'[i].hi
  BY TailFacts DEF TypeOK, WindowInv
<1>d. Min2(k, Head(events).hi - Head(events).lo) \in Nat
  BY <1>a, <1>b, <1>c DEF Min2
<1>e. pend' \in Nat \X Nat /\ rfin' \in BOOLEAN /\ sawFin' \in BOOLEAN
  BY <1>b, <1>d DEF TypeOK
<1>f. /\ consumed' \in Nat /\ granted' \in Nat /\ granted <= granted'
      /\ rpc' \in {"idle", "store"}
      /\ granted' <= consumed' + InitialWindow
  BY <1>b, <1>d, ConsumedFacts DEF TypeOK, WindowInv
<1>1. TypeOK'
  BY <1>a, <1>c, <1>e, <1>f DEF TypeOK
<1>2. FramesOK'
  BY <1>a, <1>c, <1>e, <1>f DEF FramesOK, FrameOK
<1>3. CreditInv'
  BY <1>a, <1>c, <1>e, <1>f DEF CreditInv, TypeOK
<1>4. OpenInv'
  BY <1>a, <1>c, <1>e, <1>f DEF OpenInv
<1>5. ChainInv'
  BY <1>a, <1>c, <1>e, <1>f DEF ChainInv, Contig, QueueStart
<1>6. TermInv'
  BY <1>a, <1>c, <1>e, <1>f DEF TermInv, Over, NoData, Ended, Terminal
<1>7. WindowInv'
  BY <1>a, <1>c, <1>e, <1>f DEF WindowInv, TypeOK
<1>8. NoSpuriousError'
  BY DEF NoSpuriousError
<1> QED BY <1>1, <1>2, <1>3, <1>4, <1>5, <1>6, <1>7, <1>8

(* ReadClosed preserves the inductive invariant.                            *)
LEMMA ReadClosedStep ==
    ASSUME IInv, ReadClosed PROVE IInv'
<1> USE LimitsAssumption DEF IInv, ReadClosed, ChannelClosed, snd, rst, rapp, ses, inb, net
<1>1. TypeOK'
  BY DEF TypeOK
<1>2. FramesOK' /\ OpenInv' /\ ChainInv' /\ NoSpuriousError'
  BY
  DEF FramesOK, FrameOK, OpenInv, ChainInv, Contig, QueueStart, NoSpuriousError
<1>3. CreditInv'
  BY DEF CreditInv, TypeOK
<1>4. TermInv'
  BY DEF TermInv, Over, NoData, Ended, Terminal
<1>5. WindowInv'
  BY DEF WindowInv, TypeOK
<1> QED BY <1>1, <1>2, <1>3, <1>4, <1>5

(* StoreMax preserves the inductive invariant.                              *)
LEMMA StoreMaxStep ==
    ASSUME IInv, StoreMax PROVE IInv'
<1> USE LimitsAssumption DEF IInv, StoreMax, snd, rst, rapp, ses, inb, net
<1>a. /\ \A i \in 1..Len(rWire) : rWire[i] \in Ctl
      /\ \A i \in 1..Len(rQueue) : rQueue[i] \in Ctl
  BY EmptyFacts DEF TypeOK
<1>b. \A c \in Ctl : c.max \in Nat
  BY DEF Ctl
<1>1. TypeOK'
  BY DEF TypeOK
<1>2. FramesOK' /\ OpenInv' /\ ChainInv' /\ NoSpuriousError'
  BY
  DEF FramesOK, FrameOK, OpenInv, ChainInv, Contig, QueueStart, NoSpuriousError
<1>3. CreditInv'
  BY <1>a, <1>b DEF CreditInv, TypeOK
<1>4. TermInv'
  BY DEF TermInv, Over, NoData, Ended, Terminal
<1>5. WindowInv'
  BY DEF WindowInv, TypeOK, CreditInv
<1> QED BY <1>1, <1>2, <1>3, <1>4, <1>5

(* QueueCredit preserves the inductive invariant.                           *)
LEMMA QueueCreditStep ==
    ASSUME IInv, QueueCredit PROVE IInv'
<1> USE LimitsAssumption DEF IInv, QueueCredit, snd, rst, rapp, ses, inb, net
<1>1. TypeOK'
  BY DEF TypeOK
<1>2. FramesOK' /\ OpenInv' /\ ChainInv' /\ NoSpuriousError'
  BY
  DEF FramesOK, FrameOK, OpenInv, ChainInv, Contig, QueueStart, NoSpuriousError
<1>3. CreditInv'
  BY DEF CreditInv, TypeOK
<1>4. TermInv'
  BY DEF TermInv, Over, NoData, Ended, Terminal
<1>5. WindowInv'
  BY DEF WindowInv, TypeOK
<1> QED BY <1>1, <1>2, <1>3, <1>4, <1>5

(* Stop preserves the inductive invariant.                                  *)
LEMMA StopStep ==
    ASSUME IInv, Stop PROVE IInv'
<1> USE LimitsAssumption DEF IInv, Stop, StopRecvStream, snd, rst, rapp, ses, inb, net
<1>0. stopSent' \in BOOLEAN
  BY DEF TypeOK
<1>1. TypeOK'
  BY <1>0 DEF TypeOK
<1>2. FramesOK' /\ OpenInv' /\ ChainInv' /\ NoSpuriousError'
  BY
  DEF FramesOK, FrameOK, OpenInv, ChainInv, Contig, QueueStart, NoSpuriousError
<1>3. CreditInv'
  BY DEF CreditInv, TypeOK
<1>4. TermInv'
  BY DEF TermInv, Over, NoData, Ended, Terminal
<1>5. WindowInv'
  BY DEF WindowInv, TypeOK
<1> QED BY <1>1, <1>2, <1>3, <1>4, <1>5

(* CancelStop preserves the inductive invariant.                            *)
LEMMA CancelStopStep ==
    ASSUME IInv, CancelStop PROVE IInv'
<1> USE LimitsAssumption DEF IInv, CancelStop, snd, rst, rapp, ses, inb, net
<1>0. rDown' \in BOOLEAN
  BY DEF TypeOK
<1>1. TypeOK'
  BY <1>0 DEF TypeOK
<1>2. FramesOK' /\ OpenInv' /\ ChainInv' /\ NoSpuriousError'
  BY
  DEF FramesOK, FrameOK, OpenInv, ChainInv, Contig, QueueStart, NoSpuriousError
<1>3. CreditInv'
  BY DEF CreditInv, TypeOK
<1>4. TermInv'
  BY DEF TermInv, Over, NoData, Ended, Terminal
<1>5. WindowInv'
  BY DEF WindowInv, TypeOK
<1> QED BY <1>1, <1>2, <1>3, <1>4, <1>5

(* HandleMaxStreamData preserves the inductive invariant.                   *)
LEMMA HandleMaxStreamDataStep ==
    ASSUME IInv, HandleMaxStreamData PROVE IInv'
<1> USE LimitsAssumption DEF IInv, HandleMaxStreamData, SReads, UpdateMax, snd, rst, rapp, ses, inb, net
<1>a. /\ rWire \in Seq(Ctl) /\ rWire # <<>> /\ Len(rWire) \in Nat
  BY EmptyFacts DEF TypeOK, SReads
<1>b. /\ rWire' \in Seq(Ctl) /\ Len(rWire') = Len(rWire) - 1
      /\ \A i \in 1..Len(rWire) - 1 : rWire'[i] = rWire[i + 1]
      /\ Head(rWire) = rWire[1] /\ rWire[1] \in Ctl /\ Len(rWire) \in Nat \ {0}
  BY <1>a, TailFacts DEF SReads
<1>c. rWire[1].max \in Nat
  BY <1>b DEF Ctl
<1>1. TypeOK'
  BY <1>b, <1>c DEF TypeOK
<1>2. FramesOK' /\ OpenInv' /\ ChainInv' /\ NoSpuriousError'
  BY
  DEF FramesOK, FrameOK, OpenInv, ChainInv, Contig, QueueStart, NoSpuriousError
<1>3. CreditInv'
  BY <1>b, <1>c DEF CreditInv, TypeOK
<1>4. TermInv'
  BY DEF TermInv, Over, NoData, Ended, Terminal
<1>5. WindowInv'
  BY DEF WindowInv, TypeOK
<1> QED BY <1>1, <1>2, <1>3, <1>4, <1>5

(* HandleStopSending preserves the inductive invariant.                     *)
LEMMA HandleStopSendingStep ==
    ASSUME IInv, HandleStopSending PROVE IInv'
<1> USE LimitsAssumption DEF IInv, HandleStopSending, SReads, snd, rst, rapp, ses, inb, net
<1>0. flowLive' \in BOOLEAN
  BY DEF TypeOK
<1>a. /\ rWire \in Seq(Ctl) /\ rWire # <<>> /\ Len(rWire) \in Nat
  BY EmptyFacts DEF TypeOK, SReads
<1>b. /\ rWire' \in Seq(Ctl) /\ Len(rWire') = Len(rWire) - 1
      /\ \A i \in 1..Len(rWire) - 1 : rWire'[i] = rWire[i + 1]
      /\ Head(rWire) = rWire[1] /\ rWire[1] \in Ctl /\ Len(rWire) \in Nat \ {0}
  BY <1>a, TailFacts DEF SReads
<1>c. rWire[1].max \in Nat
  BY <1>b DEF Ctl
<1>1. TypeOK'
  BY <1>0, <1>b, <1>c DEF TypeOK
<1>2. FramesOK' /\ OpenInv' /\ ChainInv' /\ NoSpuriousError'
  BY
  DEF FramesOK, FrameOK, OpenInv, ChainInv, Contig, QueueStart, NoSpuriousError
<1>3. CreditInv'
  BY <1>b DEF CreditInv
<1>4. TermInv'
  BY DEF TermInv, Over, NoData, Ended, Terminal
<1>5. WindowInv'
  BY DEF WindowInv, TypeOK
<1> QED BY <1>1, <1>2, <1>3, <1>4, <1>5

(* HandleConnectionClose preserves the inductive invariant.                 *)
LEMMA HandleConnectionCloseStep ==
    ASSUME IInv, HandleConnectionClose PROVE IInv'
<1> USE LimitsAssumption DEF IInv, HandleConnectionClose, SReads, snd, rst, rapp, ses, inb, net
<1>0. flowLive' \in BOOLEAN
  BY DEF TypeOK
<1>a. /\ rWire \in Seq(Ctl) /\ rWire # <<>> /\ Len(rWire) \in Nat
  BY EmptyFacts DEF TypeOK, SReads
<1>b. /\ rWire' \in Seq(Ctl) /\ Len(rWire') = Len(rWire) - 1
      /\ \A i \in 1..Len(rWire) - 1 : rWire'[i] = rWire[i + 1]
      /\ Head(rWire) = rWire[1] /\ rWire[1] \in Ctl /\ Len(rWire) \in Nat \ {0}
  BY <1>a, TailFacts DEF SReads
<1>c. rWire[1].max \in Nat
  BY <1>b DEF Ctl
<1>1. TypeOK'
  BY <1>0, <1>b, <1>c DEF TypeOK
<1>2. FramesOK' /\ OpenInv' /\ ChainInv' /\ NoSpuriousError'
  BY
  DEF FramesOK, FrameOK, OpenInv, ChainInv, Contig, QueueStart, NoSpuriousError
<1>3. CreditInv'
  BY <1>b DEF CreditInv
<1>4. TermInv'
  BY DEF TermInv, Over, NoData, Ended, Terminal
<1>5. WindowInv'
  BY DEF WindowInv, TypeOK
<1> QED BY <1>1, <1>2, <1>3, <1>4, <1>5

(* Retire preserves the inductive invariant.                                *)
LEMMA RetireStep ==
    ASSUME IInv, Retire PROVE IInv'
<1> USE LimitsAssumption DEF IInv, Retire, snd, rst, rapp, ses, inb, net
<1>1. TypeOK'
  BY DEF TypeOK, Open, Frame
<1>2. FramesOK' /\ OpenInv' /\ ChainInv' /\ NoSpuriousError'
  BY
  DEF FramesOK, FrameOK, OpenInv, ChainInv, Contig, QueueStart, NoSpuriousError
<1>3. CreditInv'
  BY DEF CreditInv, TypeOK
<1>4. TermInv'
  BY DEF TermInv, Over, NoData, Ended, Terminal
<1>5. WindowInv'
  BY DEF WindowInv, TypeOK, Open
<1> QED BY <1>1, <1>2, <1>3, <1>4, <1>5

(* SShutdown preserves the inductive invariant.                             *)
LEMMA SShutdownStep ==
    ASSUME IInv, SShutdown PROVE IInv'
<1> USE LimitsAssumption DEF IInv, SShutdown, snd, rst, rapp, ses, inb, net
<1>0. sDown' \in BOOLEAN
  BY DEF TypeOK
<1>1. TypeOK'
  BY <1>0 DEF TypeOK
<1>2. FramesOK' /\ OpenInv' /\ ChainInv' /\ NoSpuriousError'
  BY
  DEF FramesOK, FrameOK, OpenInv, ChainInv, Contig, QueueStart, NoSpuriousError
<1>3. CreditInv'
  BY DEF CreditInv, TypeOK
<1>4. TermInv'
  BY DEF TermInv, Over, NoData, Ended, Terminal
<1>5. WindowInv'
  BY DEF WindowInv, TypeOK
<1> QED BY <1>1, <1>2, <1>3, <1>4, <1>5

(* RShutdown preserves the inductive invariant.                             *)
LEMMA RShutdownStep ==
    ASSUME IInv, RShutdown PROVE IInv'
<1> USE LimitsAssumption DEF IInv, RShutdown, snd, rst, rapp, ses, inb, net
<1>0. rDown' \in BOOLEAN
  BY DEF TypeOK
<1>1. TypeOK'
  BY <1>0 DEF TypeOK
<1>2. FramesOK' /\ OpenInv' /\ ChainInv' /\ NoSpuriousError'
  BY
  DEF FramesOK, FrameOK, OpenInv, ChainInv, Contig, QueueStart, NoSpuriousError
<1>3. CreditInv'
  BY DEF CreditInv, TypeOK
<1>4. TermInv'
  BY DEF TermInv, Over, NoData, Ended, Terminal
<1>5. WindowInv'
  BY DEF WindowInv, TypeOK
<1> QED BY <1>1, <1>2, <1>3, <1>4, <1>5

(* TransportFails preserves the inductive invariant.                        *)
LEMMA TransportFailsStep ==
    ASSUME IInv, TransportFails PROVE IInv'
<1> USE LimitsAssumption DEF IInv, TransportFails, snd, rst, rapp, ses, inb, net
<1>0. broken' \in BOOLEAN
  BY DEF TypeOK
<1>1. TypeOK'
  BY <1>0 DEF TypeOK
<1>2. FramesOK' /\ OpenInv' /\ ChainInv' /\ NoSpuriousError'
  BY
  DEF FramesOK, FrameOK, OpenInv, ChainInv, Contig, QueueStart, NoSpuriousError
<1>3. CreditInv'
  BY DEF CreditInv, TypeOK
<1>4. TermInv'
  BY DEF TermInv, Over, NoData, Ended, Terminal
<1>5. WindowInv'
  BY DEF WindowInv, TypeOK
<1> QED BY <1>1, <1>2, <1>3, <1>4, <1>5

(* SInboundEnds preserves the inductive invariant.                          *)
LEMMA SInboundEndsStep ==
    ASSUME IInv, SInboundEnds PROVE IInv'
<1> USE LimitsAssumption DEF IInv, SInboundEnds, snd, rst, rapp, ses, inb, net
<1>0. flowLive' \in BOOLEAN
  BY DEF TypeOK
<1>1. TypeOK'
  BY <1>0 DEF TypeOK
<1>2. FramesOK' /\ OpenInv' /\ ChainInv' /\ NoSpuriousError'
  BY
  DEF FramesOK, FrameOK, OpenInv, ChainInv, Contig, QueueStart, NoSpuriousError
<1>3. CreditInv'
  BY DEF CreditInv, TypeOK
<1>4. TermInv'
  BY DEF TermInv, Over, NoData, Ended, Terminal
<1>5. WindowInv'
  BY DEF WindowInv, TypeOK
<1> QED BY <1>1, <1>2, <1>3, <1>4, <1>5

(* RInboundEnds preserves the inductive invariant.                          *)
LEMMA RInboundEndsStep ==
    ASSUME IInv, RInboundEnds PROVE IInv'
<1> USE LimitsAssumption DEF IInv, RInboundEnds, snd, rst, rapp, ses, inb, net
<1>1. TypeOK'
  BY DEF TypeOK, Open, Frame
<1>2. FramesOK' /\ OpenInv' /\ ChainInv' /\ NoSpuriousError'
  BY
  DEF FramesOK, FrameOK, OpenInv, ChainInv, Contig, QueueStart, NoSpuriousError
<1>3. CreditInv'
  BY DEF CreditInv, TypeOK
<1>4. TermInv'
  BY DEF TermInv, Over, NoData, Ended, Terminal
<1>5. WindowInv'
  BY DEF WindowInv, TypeOK, Open
<1> QED BY <1>1, <1>2, <1>3, <1>4, <1>5

(* OpenFails preserves the inductive invariant.                             *)
LEMMA OpenFailsStep ==
    ASSUME IInv, OpenFails PROVE IInv'
<1> USE LimitsAssumption DEF IInv, OpenFails, RIsClosed, snd, rst, rapp, ses, inb, net
<1>0. rDown' \in BOOLEAN
  BY DEF TypeOK
<1>1. TypeOK'
  BY <1>0 DEF TypeOK
<1>2. FramesOK' /\ OpenInv' /\ ChainInv' /\ NoSpuriousError'
  BY
  DEF FramesOK, FrameOK, OpenInv, ChainInv, Contig, QueueStart, NoSpuriousError
<1>3. CreditInv'
  BY DEF CreditInv, TypeOK
<1>4. TermInv'
  BY DEF TermInv, Over, NoData, Ended, Terminal
<1>5. WindowInv'
  BY DEF WindowInv, TypeOK
<1> QED BY <1>1, <1>2, <1>3, <1>4, <1>5

(* PublishReset preserves the inductive invariant.                          *)
LEMMA PublishResetStep ==
    ASSUME IInv, PublishReset PROVE IInv'
<1> USE LimitsAssumption DEF IInv, PublishReset
<1>1. ResetStream \in Frame /\ FrameOK(ResetStream, written)
      /\ ResetStream.t = "reset" /\ ResetStream.lo = written
      /\ ResetStream.hi = written /\ written \in Nat
  BY DEF TypeOK, Frame, ResetStream, FrameOK
<1>2. CASE SPush(ResetStream) /\ SRoom
  <2>0. UNCHANGED <<maxData, sentData, grant, written, rst, rapp, rDown, sConn>>
        /\ UNCHANGED <<rConn, rIn, cur, err, sWire, rQueue, rWire>>
        /\ ~flowLive' /\ flowLive' \in BOOLEAN /\ sDown' \in BOOLEAN
        /\ wpc' \in {wpc, "idle", "dropped"}
    BY <1>2 DEF snd, rst, rapp, ses, inb, SPush, TypeOK, TermInv
  <2>1. TypeOK'
    BY <1>1, <1>2, <2>0, SPushFacts DEF TypeOK, snd, rst, rapp, ses, inb
  <2>2. FramesOK' /\ OpenInv' /\ ChainInv'
    BY <1>1, <1>2, <2>0, PushPreserves DEF rst, rapp, SRoom
  <2>3. CreditInv' /\ WindowInv' /\ NoSpuriousError'
    BY <2>0 DEF CreditInv, WindowInv, NoSpuriousError, TypeOK, rst, rapp
  <2>4. TermInv'
    BY <1>2, <2>0, ResetPreserves DEF rst, rapp
  <2> QED BY <2>1, <2>2, <2>3, <2>4
<1>3. CASE UNCHANGED net /\ wpc' \in {"idle", "dropped"}
  <2>0. UNCHANGED <<maxData, sentData, grant, written, rst, rapp, rDown, sConn>>
        /\ UNCHANGED <<rConn, rIn, sIn, cur, err, net>>
        /\ flowLive' \in BOOLEAN /\ (flowLive' => flowLive)
        /\ wpc' \in {"idle", "dropped"} /\ wpc # "finRemove"
        /\ sDown' \in BOOLEAN
    BY <1>3 DEF snd, rst, rapp, ses, inb, TypeOK
  <2>1. TypeOK'
    BY <1>3, <2>0 DEF TypeOK, snd, rst, rapp, ses, inb, net
  <2>2. FramesOK' /\ OpenInv' /\ ChainInv'
    BY <2>0 DEF FramesOK, OpenInv, ChainInv, Contig, QueueStart, rst, rapp, net
  <2>3. CreditInv' /\ WindowInv' /\ NoSpuriousError'
    BY <2>0 DEF CreditInv, WindowInv, NoSpuriousError, rst, rapp, net
  <2>4. TermInv'
    BY <2>0 DEF TermInv, Over, Ended, Terminal, NoData, rst, rapp, net
  <2> QED BY <2>1, <2>2, <2>3, <2>4
<1> QED BY <1>2, <1>3

(* AckStop preserves the inductive invariant.                               *)
LEMMA AckStopStep ==
    ASSUME IInv, AckStop PROVE IInv'
<1> USE LimitsAssumption DEF IInv, AckStop
<1>1. ResetStream \in Frame /\ FrameOK(ResetStream, written)
      /\ ResetStream.t = "reset" /\ ResetStream.lo = written
      /\ ResetStream.hi = written /\ written \in Nat
  BY DEF TypeOK, Frame, ResetStream, FrameOK
<1>2. CASE SPush(ResetStream) /\ SRoom
  <2>0. UNCHANGED <<maxData, sentData, grant, written, rst, rapp, rDown, sConn>>
        /\ UNCHANGED <<rConn, rIn, cur, err, sWire, rQueue, rWire>>
        /\ ~flowLive' /\ flowLive' \in BOOLEAN /\ sDown' \in BOOLEAN
        /\ wpc' \in {wpc, "idle", "dropped"}
    BY <1>2 DEF snd, rst, rapp, ses, inb, SPush, TypeOK, TermInv
  <2>1. TypeOK'
    BY <1>1, <1>2, <2>0, SPushFacts DEF TypeOK, snd, rst, rapp, ses, inb
  <2>2. FramesOK' /\ OpenInv' /\ ChainInv'
    BY <1>1, <1>2, <2>0, PushPreserves DEF rst, rapp, SRoom
  <2>3. CreditInv' /\ WindowInv' /\ NoSpuriousError'
    BY <2>0 DEF CreditInv, WindowInv, NoSpuriousError, TypeOK, rst, rapp
  <2>4. TermInv'
    BY <1>2, <2>0, ResetPreserves DEF rst, rapp
  <2> QED BY <2>1, <2>2, <2>3, <2>4
<1> QED BY <1>2

(* DropSend preserves the inductive invariant.                              *)
LEMMA DropSendStep ==
    ASSUME IInv, DropSend PROVE IInv'
<1> USE LimitsAssumption DEF IInv, DropSend
<1>1. ResetStream \in Frame /\ FrameOK(ResetStream, written)
      /\ ResetStream.t = "reset" /\ ResetStream.lo = written
      /\ ResetStream.hi = written /\ written \in Nat
  BY DEF TypeOK, Frame, ResetStream, FrameOK
<1>2. CASE SPush(ResetStream) /\ SRoom
  <2>0. UNCHANGED <<maxData, sentData, grant, written, rst, rapp, rDown, sConn>>
        /\ UNCHANGED <<rConn, rIn, cur, err, sWire, rQueue, rWire>>
        /\ ~flowLive' /\ flowLive' \in BOOLEAN /\ sDown' \in BOOLEAN
        /\ wpc' \in {wpc, "idle", "dropped"}
    BY <1>2 DEF snd, rst, rapp, ses, inb, SPush, TypeOK, TermInv
  <2>1. TypeOK'
    BY <1>1, <1>2, <2>0, SPushFacts DEF TypeOK, snd, rst, rapp, ses, inb
  <2>2. FramesOK' /\ OpenInv' /\ ChainInv'
    BY <1>1, <1>2, <2>0, PushPreserves DEF rst, rapp, SRoom
  <2>3. CreditInv' /\ WindowInv' /\ NoSpuriousError'
    BY <2>0 DEF CreditInv, WindowInv, NoSpuriousError, TypeOK, rst, rapp
  <2>4. TermInv'
    BY <1>2, <2>0, ResetPreserves DEF rst, rapp
  <2> QED BY <2>1, <2>2, <2>3, <2>4
<1>3. CASE UNCHANGED net /\ wpc' \in {"idle", "dropped"}
  <2>0. UNCHANGED <<maxData, sentData, grant, written, rst, rapp, rDown, sConn>>
        /\ UNCHANGED <<rConn, rIn, sIn, cur, err, net>>
        /\ flowLive' \in BOOLEAN /\ (flowLive' => flowLive)
        /\ wpc' \in {"idle", "dropped"} /\ wpc # "finRemove"
        /\ sDown' \in BOOLEAN
    BY <1>3 DEF snd, rst, rapp, ses, inb, TypeOK
  <2>1. TypeOK'
    BY <1>3, <2>0 DEF TypeOK, snd, rst, rapp, ses, inb, net
  <2>2. FramesOK' /\ OpenInv' /\ ChainInv'
    BY <2>0 DEF FramesOK, OpenInv, ChainInv, Contig, QueueStart, rst, rapp, net
  <2>3. CreditInv' /\ WindowInv' /\ NoSpuriousError'
    BY <2>0 DEF CreditInv, WindowInv, NoSpuriousError, rst, rapp, net
  <2>4. TermInv'
    BY <2>0 DEF TermInv, Over, Ended, Terminal, NoData, rst, rapp, net
  <2> QED BY <2>1, <2>2, <2>3, <2>4
<1> QED BY <1>2, <1>3

(* PublishFin preserves the inductive invariant.                            *)
LEMMA PublishFinStep ==
    ASSUME IInv, PublishFin PROVE IInv'
<1> USE LimitsAssumption DEF IInv, PublishFin
<1> DEFINE f == Stream(written, written, TRUE)
<1>1. f \in Frame /\ FrameOK(f, written) /\ f.t = "stream" /\ f.fin
      /\ f.lo = written /\ f.hi = written /\ written \in Nat
  BY DEF TypeOK, Frame, Stream, FrameOK
<1> HIDE DEF f
<1>2. CASE SPush(f) /\ SRoom /\ flowLive /\ wpc' = "finRemove"
  <2>0. UNCHANGED <<flowLive, maxData, sentData, grant, written, rst, rapp, ses, inb>>
        /\ UNCHANGED <<sWire, rQueue, rWire>>
    BY <1>2 DEF SPush
  <2>1. TypeOK'
    BY <1>1, <1>2, <2>0, SPushFacts DEF TypeOK, rst, rapp, ses, inb
  <2>2. FramesOK' /\ OpenInv' /\ ChainInv'
    BY <1>1, <1>2, <2>0, PushPreserves DEF rst, rapp, ses, inb, SRoom
  <2>3. CreditInv' /\ WindowInv' /\ NoSpuriousError'
    BY <1>2, <2>0 DEF CreditInv, WindowInv, NoSpuriousError, rst, rapp, inb
  <2>4. /\ Len(sQueue') = Len(sQueue) + 1 /\ Len(sQueue) \in Nat
        /\ \A i \in 1..Len(sQueue) : sQueue'[i] = sQueue[i]
        /\ Len(sWire) \in Nat
    BY <1>1, <1>2, SPushFacts, EmptyFacts DEF TypeOK
  <2>5. TermInv'
    BY <1>2, <2>0, <2>4 DEF TermInv, Over, Ended, Terminal, NoData, rst, rapp, ses, inb
  <2> QED BY <2>1, <2>2, <2>3, <2>5
<1>3. CASE UNCHANGED net /\ wpc' \in {"idle", "dropped"}
  <2>0. UNCHANGED <<maxData, sentData, grant, written, rst, rapp, rDown, sConn>>
        /\ UNCHANGED <<rConn, rIn, sIn, cur, err, net>>
        /\ flowLive' \in BOOLEAN /\ (flowLive' => flowLive)
        /\ wpc' \in {"idle", "dropped"} /\ wpc # "finRemove"
        /\ sDown' \in BOOLEAN
    BY <1>3 DEF snd, rst, rapp, ses, inb, TypeOK
  <2>1. TypeOK'
    BY <1>3, <2>0 DEF TypeOK, snd, rst, rapp, ses, inb, net
  <2>2. FramesOK' /\ OpenInv' /\ ChainInv'
    BY <2>0 DEF FramesOK, OpenInv, ChainInv, Contig, QueueStart, rst, rapp, net
  <2>3. CreditInv' /\ WindowInv' /\ NoSpuriousError'
    BY <2>0 DEF CreditInv, WindowInv, NoSpuriousError, rst, rapp, net
  <2>4. TermInv'
    BY <2>0 DEF TermInv, Over, Ended, Terminal, NoData, rst, rapp, net
  <2> QED BY <2>1, <2>2, <2>3, <2>4
<1> QED BY <1>2, <1>3 DEF f, SRoom, SendFails

(* PublishStop preserves the inductive invariant.                           *)
LEMMA PublishStopStep ==
    ASSUME IInv, PublishStop PROVE IInv'
<1> USE LimitsAssumption DEF IInv, PublishStop, snd, rst, rapp, ses, inb, net
<1>a. StopSending \in Ctl /\ StopSending.max <= rMax
  BY DEF TypeOK, Ctl, StopSending, MaxStreamData, CreditInv
<1>b. /\ UNCHANGED <<sQueue, sWire, rWire>>
      /\ rQueue' \in Seq(Ctl)
      /\ \A i \in 1..Len(rQueue') : rQueue'[i].max <= rMax
  BY <1>a, RQueuePush DEF RPush, TypeOK, CreditInv
<1>1. TypeOK'
  BY <1>b DEF TypeOK
<1>2. FramesOK'
  BY <1>b DEF FramesOK, FrameOK
<1>3. CreditInv'
  BY <1>b DEF CreditInv, TypeOK
<1>4. OpenInv'
  BY <1>b DEF OpenInv
<1>5. ChainInv'
  BY <1>b DEF ChainInv, Contig, QueueStart
<1>6. TermInv'
  BY <1>b DEF TermInv, Over, NoData, Ended, Terminal
<1>7. WindowInv'
  BY <1>b DEF WindowInv, TypeOK
<1>8. NoSpuriousError'
  BY DEF NoSpuriousError
<1> QED BY <1>1, <1>2, <1>3, <1>4, <1>5, <1>6, <1>7, <1>8

(* SendInitialCredit preserves the inductive invariant.                     *)
LEMMA SendInitialCreditStep ==
    ASSUME IInv, SendInitialCredit PROVE IInv'
<1> USE LimitsAssumption DEF IInv, SendInitialCredit, snd, rst, rapp, ses, inb, net
<1>0. InitialWindow <= rMax
  BY DEF OpenInv
<1>a. MaxStreamData(InitialWindow) \in Ctl /\ MaxStreamData(InitialWindow).max <= rMax
  BY <1>0 DEF TypeOK, Ctl, StopSending, MaxStreamData, CreditInv
<1>b. /\ UNCHANGED <<sQueue, sWire, rWire>>
      /\ rQueue' \in Seq(Ctl)
      /\ \A i \in 1..Len(rQueue') : rQueue'[i].max <= rMax
  BY <1>a, RQueuePush DEF RPush, TypeOK, CreditInv
<1>1. TypeOK'
  BY <1>b DEF TypeOK
<1>2. FramesOK'
  BY <1>b DEF FramesOK, FrameOK
<1>3. CreditInv'
  BY <1>b DEF CreditInv, TypeOK
<1>4. OpenInv'
  BY <1>b DEF OpenInv
<1>5. ChainInv'
  BY <1>b DEF ChainInv, Contig, QueueStart
<1>6. TermInv'
  BY <1>b DEF TermInv, Over, NoData, Ended, Terminal
<1>7. WindowInv'
  BY <1>b DEF WindowInv, TypeOK
<1>8. NoSpuriousError'
  BY DEF NoSpuriousError
<1> QED BY <1>1, <1>2, <1>3, <1>4, <1>5, <1>6, <1>7, <1>8

(* NextCredit preserves the inductive invariant.                            *)
LEMMA NextCreditStep ==
    ASSUME IInv, NextCredit PROVE IInv'
<1> USE LimitsAssumption DEF IInv, NextCredit, snd, rst, rapp, ses, inb, net
<1>a. MaxStreamData(credit) \in Ctl /\ MaxStreamData(credit).max <= rMax
  BY DEF TypeOK, Ctl, MaxStreamData, CreditInv
<1>b. /\ rWire' \in Seq(Ctl)
      /\ \A i \in 1..Len(rWire') : rWire'[i].max <= rMax
  BY <1>a, RWirePush
<1>1. TypeOK'
  BY <1>b DEF TypeOK
<1>2. FramesOK'
  BY <1>b DEF FramesOK, FrameOK
<1>3. CreditInv'
  BY <1>b DEF CreditInv, TypeOK
<1>4. OpenInv'
  BY <1>b DEF OpenInv
<1>5. ChainInv'
  BY <1>b DEF ChainInv, Contig, QueueStart
<1>6. TermInv'
  BY <1>b DEF TermInv, Over, NoData, Ended, Terminal
<1>7. WindowInv'
  BY <1>b DEF WindowInv, TypeOK
<1>8. NoSpuriousError'
  BY DEF NoSpuriousError
<1> QED BY <1>1, <1>2, <1>3, <1>4, <1>5, <1>6, <1>7, <1>8

(* RWrite preserves the inductive invariant.                                *)
LEMMA RWriteStep ==
    ASSUME IInv, RWrite PROVE IInv'
<1> USE LimitsAssumption DEF IInv, RWrite, snd, rst, rapp, ses, inb, net
<1>a. /\ rQueue \in Seq(Ctl) /\ rQueue # <<>>
  BY DEF TypeOK
<1>b. /\ Head(rQueue) \in Ctl /\ Head(rQueue).max <= rMax
      /\ rQueue' \in Seq(Ctl)
      /\ \A i \in 1..Len(rQueue') : rQueue'[i].max <= rMax
  BY <1>a, TailFacts DEF CreditInv
<1>c. /\ rWire' \in Seq(Ctl)
      /\ \A i \in 1..Len(rWire') : rWire'[i].max <= rMax
  BY <1>b, RWirePush
<1>1. TypeOK'
  BY <1>b, <1>c DEF TypeOK
<1>2. FramesOK' /\ OpenInv' /\ ChainInv' /\ NoSpuriousError'
  BY
  DEF FramesOK, FrameOK, OpenInv, ChainInv, Contig, QueueStart, NoSpuriousError
<1>3. CreditInv'
  BY <1>b, <1>c DEF CreditInv, TypeOK
<1>4. TermInv'
  BY DEF TermInv, Over, NoData, Ended, Terminal
<1>5. WindowInv'
  BY DEF WindowInv, TypeOK
<1> QED BY <1>1, <1>2, <1>3, <1>4, <1>5

(* HandleReset preserves the inductive invariant.                           *)
LEMMA HandleResetStep ==
    ASSUME IInv, HandleReset PROVE IInv'
<1> USE LimitsAssumption DEF IInv, HandleReset, RReads, snd, rst, rapp, ses, inb, net
<1>a. sWire # <<>> /\ sWire' = Tail(sWire)
  OBVIOUS
<1>b. /\ sWire' \in Seq(Frame) /\ Len(sWire') = Len(sWire) - 1
      /\ \A i \in 1..Len(sWire) - 1 : sWire'[i] = sWire[i + 1]
      /\ Head(sWire) = sWire[1] /\ sWire[1] \in Frame
      /\ Len(sWire) \in Nat \ {0} /\ sQueue \in Seq(Frame)
      /\ Len(sQueue) \in Nat
      /\ (sWire' = <<>> <=> Len(sWire) = 1)
  BY <1>a, ReadFacts
<1>1. TypeOK'
  BY <1>a, <1>b DEF TypeOK
<1>2. FramesOK'
  BY <1>a, <1>b DEF FramesOK, FrameOK
<1>3. CreditInv'
  BY <1>a, <1>b DEF CreditInv, TypeOK
<1>4. OpenInv'
  BY <1>a, <1>b DEF OpenInv
<1>5. ChainInv'
  BY <1>a, <1>b DEF ChainInv, Contig, QueueStart, FramesOK, FrameOK
<1>6. TermInv'
  BY <1>a, <1>b DEF TermInv, Over, NoData, Ended, Terminal
<1>7. WindowInv'
  BY <1>a, <1>b DEF WindowInv, TypeOK
<1>8. NoSpuriousError'
  BY DEF NoSpuriousError
<1> QED BY <1>1, <1>2, <1>3, <1>4, <1>5, <1>6, <1>7, <1>8

(* HandleOpen preserves the inductive invariant.                            *)
LEMMA HandleOpenStep ==
    ASSUME IInv, HandleOpen PROVE IInv'
<1> USE LimitsAssumption DEF IInv, HandleOpen, RReads, snd, rst, rapp, ses, inb, net
<1>a. sWire # <<>> /\ sWire' = Tail(sWire)
  OBVIOUS
<1>b. /\ sWire' \in Seq(Frame) /\ Len(sWire') = Len(sWire) - 1
      /\ \A i \in 1..Len(sWire) - 1 : sWire'[i] = sWire[i + 1]
      /\ Head(sWire) = sWire[1] /\ sWire[1] \in Frame
      /\ Len(sWire) \in Nat \ {0} /\ sQueue \in Seq(Frame)
      /\ Len(sQueue) \in Nat
      /\ (sWire' = <<>> <=> Len(sWire) = 1)
  BY <1>a, ReadFacts
<1>c. /\ \A i \in 1..Len(rWire) : rWire[i] \in Ctl
      /\ \A i \in 1..Len(rQueue) : rQueue[i] \in Ctl
  BY EmptyFacts DEF TypeOK
<1>d. \A c \in Ctl : c.max \in Nat
  BY DEF Ctl
<1>e. rpc = "none" /\ rMax = 0 /\ received = 0
  BY <1>b DEF OpenInv, WindowInv, TypeOK
<1>1. TypeOK'
  BY <1>a, <1>b DEF TypeOK
<1>2. FramesOK'
  BY <1>a, <1>b DEF FramesOK, FrameOK
<1>3. CreditInv'
  BY <1>c, <1>d, <1>e DEF CreditInv, TypeOK, OpenInv, WindowInv
<1>4. OpenInv'
  BY <1>a, <1>b DEF OpenInv
<1>5. ChainInv'
  BY <1>a, <1>b DEF ChainInv, Contig, QueueStart, FramesOK, FrameOK
<1>6. TermInv'
  BY <1>a, <1>b DEF TermInv, Over, NoData, Ended, Terminal, OpenInv
<1>7. WindowInv'
  BY <1>e DEF WindowInv, TypeOK, OpenInv
<1>8. NoSpuriousError'
  BY DEF NoSpuriousError
<1> QED BY <1>1, <1>2, <1>3, <1>4, <1>5, <1>6, <1>7, <1>8

(* Deliver preserves the inductive invariant.                               *)
LEMMA DeliverStep ==
    ASSUME IInv, Deliver PROVE IInv'
<1> USE LimitsAssumption DEF IInv, Deliver, ProtocolError, snd, rst, rapp, ses, inb, net
<1>0. /\ events \in Seq(Frame) /\ cur \in Frame /\ Len(events) \in Nat
      /\ \A i \in 1..Len(events) : events[i].lo <= events[i].hi
      /\ cur.lo <= cur.hi
  BY EmptyFacts DEF TypeOK, WindowInv
<1>e. events' = events \/ events' = Append(events, cur)
  OBVIOUS
<1>a. /\ events' \in Seq(Frame)
      /\ \A i \in 1..Len(events') : events'[i].lo <= events'[i].hi
  BY <1>0, <1>e, AppendFacts
<1>f. Open \in Frame /\ Open.lo <= Open.hi
  BY DEF Open, Frame
<1>g. cur' = cur \/ cur' = Open
  OBVIOUS
<1>d. cur' \in Frame /\ cur'.lo <= cur'.hi
  BY <1>0, <1>f, <1>g
<1>b. ConnectionClose \in Ctl /\ ConnectionClose.max <= rMax
  BY DEF TypeOK, Ctl, ConnectionClose
<1>c. /\ rQueue' \in Seq(Ctl)
      /\ \A i \in 1..Len(rQueue') : rQueue'[i].max <= rMax
  BY <1>b, RQueuePush DEF TypeOK, CreditInv
<1>h. /\ rIn' \in {"run", "retire"} /\ err' \in {err, "full"}
      /\ rConn' \in {rConn, "closed"} /\ entry' \in {entry, "none"}
      /\ credit' \in {credit, 0}
  OBVIOUS
<1>i. /\ UNCHANGED <<snd, rapp, received, rMax, sDown, rDown, sConn, broken>>
      /\ UNCHANGED <<sIn, sQueue, sWire, rWire>>
  OBVIOUS
<1>1. TypeOK'
  <2> USE <1>a, <1>c, <1>d, <1>h, <1>i DEF TypeOK
  <2> HIDE DEF Deliver, ProtocolError
  <2> QED OBVIOUS
<1>2. FramesOK'
  BY <1>a, <1>c DEF FramesOK, FrameOK
<1>3. CreditInv'
  BY <1>a, <1>c DEF CreditInv, TypeOK
<1>4. OpenInv'
  BY <1>a, <1>c DEF OpenInv
<1>5. ChainInv'
  BY <1>a, <1>c DEF ChainInv, Contig, QueueStart
<1>6. TermInv'
  BY <1>a, <1>c DEF TermInv, Over, NoData, Ended, Terminal
<1>7. WindowInv'
  BY <1>a, <1>c, <1>d DEF WindowInv, TypeOK
<1>8. NoSpuriousError'
  BY DEF NoSpuriousError
<1> QED BY <1>1, <1>2, <1>3, <1>4, <1>5, <1>6, <1>7, <1>8

(* DropRecv preserves the inductive invariant.                              *)
LEMMA DropRecvStep ==
    ASSUME IInv, DropRecv PROVE IInv'
<1> USE LimitsAssumption DEF IInv, DropRecv, RecvDropped, StopRecvStream, snd, rst, rapp, ses, inb, net
<1>0. rDown' \in BOOLEAN
  BY DEF TypeOK
<1>a. StopSending \in Ctl /\ StopSending.max <= rMax
  BY DEF TypeOK, Ctl, StopSending
<1>b. /\ UNCHANGED <<sQueue, sWire, rWire>> /\ rQueue' \in Seq(Ctl)
      /\ \A i \in 1..Len(rQueue') : rQueue'[i].max <= rMax
  BY <1>a, RQueuePush DEF RPush, TypeOK, CreditInv
<1>c. /\ entry' = IF entry = "none" THEN "none" ELSE "stopped"
      /\ rpc' = "dropped" /\ rpc = "idle" /\ (rDown => rDown')
      /\ UNCHANGED <<snd, rConn, inb>>
  BY DEF TypeOK
<1>1. TypeOK'
  BY <1>0, <1>b DEF TypeOK
<1>2. FramesOK'
  BY <1>b DEF FramesOK, FrameOK
<1>3. CreditInv'
  BY <1>b DEF CreditInv, TypeOK
<1>4. OpenInv'
  BY <1>b DEF OpenInv
<1>5. ChainInv'
  BY <1>b DEF ChainInv, Contig, QueueStart
<1>6. TermInv'
  BY <1>b, <1>c DEF TermInv, Over, NoData, Ended, Terminal
<1>7. WindowInv'
  BY <1>b DEF WindowInv, TypeOK
<1>8. NoSpuriousError'
  BY DEF NoSpuriousError
<1> QED BY <1>1, <1>2, <1>3, <1>4, <1>5, <1>6, <1>7, <1>8

(* CancelOpen preserves the inductive invariant.                            *)
LEMMA CancelOpenStep ==
    ASSUME IInv, CancelOpen PROVE IInv'
<1> USE LimitsAssumption DEF IInv, CancelOpen, RecvDropped, StopRecvStream, snd, rst, rapp, ses, inb, net
<1>0. rDown' \in BOOLEAN
  BY DEF TypeOK
<1>a. StopSending \in Ctl /\ StopSending.max <= rMax
  BY DEF TypeOK, Ctl, StopSending
<1>b. /\ UNCHANGED <<sQueue, sWire, rWire>> /\ rQueue' \in Seq(Ctl)
      /\ \A i \in 1..Len(rQueue') : rQueue'[i].max <= rMax
  BY <1>a, RQueuePush DEF RPush, TypeOK, CreditInv
<1>1. TypeOK'
  BY <1>0, <1>b DEF TypeOK
<1>2. FramesOK'
  BY <1>b DEF FramesOK, FrameOK
<1>3. CreditInv'
  BY <1>b DEF CreditInv, TypeOK
<1>4. OpenInv'
  BY <1>b DEF OpenInv
<1>5. ChainInv'
  BY <1>b DEF ChainInv, Contig, QueueStart
<1>6. TermInv'
  BY <1>b DEF TermInv, Over, NoData, Ended, Terminal
<1>7. WindowInv'
  BY <1>b DEF WindowInv, TypeOK
<1>8. NoSpuriousError'
  BY DEF NoSpuriousError
<1> QED BY <1>1, <1>2, <1>3, <1>4, <1>5, <1>6, <1>7, <1>8

(* ROutboundEnds preserves the inductive invariant.                         *)
LEMMA ROutboundEndsStep ==
    ASSUME IInv, ROutboundEnds PROVE IInv'
<1> USE LimitsAssumption DEF IInv, ROutboundEnds, snd, rst, rapp, ses, inb, net
<1>a. PICK k \in 0..Len(rWire) : rWire' = SubSeq(rWire, 1, k)
  OBVIOUS
<1>b. /\ rWire' \in Seq(Ctl) /\ Len(rWire') = k /\ k \in Nat /\ k <= Len(rWire)
      /\ \A i \in 1..k : rWire'[i] = rWire[i]
      /\ rQueue' \in Seq(Ctl) /\ Len(rQueue') = 0 /\ Len(rWire) \in Nat
  BY <1>a, PrefixFacts, EmptyFacts DEF TypeOK
<1>c. cur' \in Frame /\ cur'.lo <= cur'.hi
  BY DEF Open, Frame
<1>1. TypeOK'
  BY <1>b, <1>c DEF TypeOK
<1>2. FramesOK' /\ OpenInv' /\ ChainInv' /\ NoSpuriousError'
  BY
  DEF FramesOK, FrameOK, OpenInv, ChainInv, Contig, QueueStart, NoSpuriousError
<1>3. CreditInv'
  BY <1>b DEF CreditInv, TypeOK
<1>4. TermInv'
  BY DEF TermInv, Over, NoData, Ended, Terminal
<1>5. WindowInv'
  BY <1>c DEF WindowInv, TypeOK
<1> QED BY <1>1, <1>2, <1>3, <1>4, <1>5

(* SOutboundEnds preserves the inductive invariant.                         *)
LEMMA SOutboundEndsStep ==
    ASSUME IInv, SOutboundEnds PROVE IInv'
<1> USE LimitsAssumption DEF IInv, SOutboundEnds, snd, rst, rapp, ses, inb, net
<1>0. flowLive' \in BOOLEAN
  BY DEF TypeOK
<1>a. PICK k \in 0..Len(sWire) : sWire' = SubSeq(sWire, 1, k)
  OBVIOUS
<1>b. /\ sWire' \in Seq(Frame) /\ Len(sWire') = k /\ k \in Nat /\ k <= Len(sWire)
      /\ \A i \in 1..k : sWire'[i] = sWire[i]
      /\ sQueue' \in Seq(Frame) /\ Len(sQueue') = 0 /\ Len(sWire) \in Nat
  BY <1>a, PrefixFacts, EmptyFacts DEF TypeOK
<1>d. sWire \in Seq(Frame)
  BY DEF TypeOK
<1>c. (sWire' = <<>> <=> k = 0) /\ (sWire = <<>> <=> Len(sWire) = 0)
  BY <1>b, <1>d, EmptyFacts
<1>1. TypeOK'
  BY <1>0, <1>b, <1>c DEF TypeOK
<1>2. FramesOK'
  BY <1>b, <1>c DEF FramesOK, FrameOK
<1>3. CreditInv'
  BY <1>b, <1>c DEF CreditInv, TypeOK
<1>4. OpenInv'
  BY <1>b, <1>c DEF OpenInv
<1>5. ChainInv'
  BY <1>b, <1>c DEF ChainInv, Contig, QueueStart
<1>6. TermInv'
  BY <1>b, <1>c DEF TermInv, Over, NoData, Ended, Terminal
<1>7. WindowInv'
  BY <1>b, <1>c DEF WindowInv, TypeOK
<1>8. NoSpuriousError'
  BY DEF NoSpuriousError
<1> QED BY <1>1, <1>2, <1>3, <1>4, <1>5, <1>6, <1>7, <1>8

(* HandleStream preserves the inductive invariant.                          *)
LEMMA HandleStreamStep ==
    ASSUME IInv, HandleStream PROVE IInv'
<1> USE LimitsAssumption DEF IInv
<1> DEFINE f == sWire[1]
           len == f.hi - f.lo
<1>1. sWire # <<>> /\ sWire' = Tail(sWire) /\ rConn = "up" /\ rIn = "run"
  BY DEF HandleStream, RReads
<1>2. /\ sWire' \in Seq(Frame) /\ Len(sWire') = Len(sWire) - 1
      /\ \A i \in 1..Len(sWire) - 1 : sWire'[i] = sWire[i + 1]
      /\ Head(sWire) = f /\ f \in Frame
      /\ Len(sWire) \in Nat \ {0} /\ sQueue \in Seq(Frame)
      /\ Len(sQueue) \in Nat
      /\ (sWire' = <<>> <=> Len(sWire) = 1)
  BY <1>1, ReadFacts
<1>3. f.t = "stream" /\ f.lo \in Nat /\ f.hi \in Nat /\ f.fin \in BOOLEAN
  BY <1>2 DEF HandleStream, RReads, Frame
<1>a. FrameOK(f, written) /\ f.lo = received
  BY <1>1, <1>2 DEF FramesOK, ChainInv
<1>4. /\ f.lo = received /\ f.lo <= f.hi /\ f.hi <= written /\ len <= MaxChunk
      /\ len \in Nat /\ received + len = f.hi
  BY <1>3, <1>a DEF FrameOK
<1>5. rpc # "none"
  BY <1>1, <1>2, <1>3 DEF OpenInv
<1>b. written <= rMax /\ written \in Nat /\ rMax \in Nat
  BY DEF CreditInv, TypeOK
<1>6. received + len <= rMax
  BY <1>3, <1>4, <1>b
<1>7. StreamRefused(len) \in {"none", "unknown"}
  BY <1>4, <1>6 DEF StreamRefused, TypeOK
<1>8. StreamRefused(len) # "none" => rDown
  <2> SUFFICES ASSUME StreamRefused(len) # "none", ~rDown PROVE FALSE
    BY DEF TypeOK
  <2>1. entry = "none"
    BY <1>4, <1>6 DEF StreamRefused, TypeOK
  <2>2. NoData(sWire)
    BY <1>1, <1>5, <2>1 DEF TermInv, Ended
  <2> QED BY <1>2, <1>3, <2>2 DEF NoData
<1>c. f.fin => /\ Over /\ NoData(sQueue)
               /\ \A j \in 2..Len(sWire) : sWire[j].t # "stream"
  BY <1>2 DEF TermInv, Terminal
<1>d. f.fin => NoData(sWire')
  BY <1>2, <1>c DEF NoData
<1>e. /\ \A i \in 1..Len(sWire') : sWire'[i].t # "open"
      /\ \A i \in 1..Len(sQueue) : sQueue[i].t # "open"
  <2>1. \A i \in 1..Len(sWire) : sWire[i].t # "open"
    BY <1>5 DEF OpenInv
  <2>2. \A i \in 1..Len(sQueue) : sQueue[i].t # "open"
    BY <1>5 DEF OpenInv
  <2> QED BY <1>2, <2>1, <2>2
<1>g. \A i \in 1..Len(sWire') : Terminal(sWire'[i]) =>
         /\ Over /\ NoData(sQueue)
         /\ \A j \in i + 1..Len(sWire') : sWire'[j].t # "stream"
  <2> SUFFICES ASSUME NEW i \in 1..Len(sWire'), Terminal(sWire'[i])
               PROVE  /\ Over /\ NoData(sQueue)
                      /\ \A j \in i + 1..Len(sWire') : sWire'[j].t # "stream"
    OBVIOUS
  <2>1. i + 1 \in 1..Len(sWire) /\ sWire'[i] = sWire[i + 1]
    BY <1>2
  <2>2. /\ Over /\ NoData(sQueue)
        /\ \A j \in (i + 1) + 1..Len(sWire) : sWire[j].t # "stream"
    BY <2>1 DEF TermInv
  <2> QED BY <1>2, <2>1, <2>2
<1> HIDE DEF len, f
<1>9. /\ UNCHANGED <<snd, rapp, rMax, events, sDown, rDown, sConn, broken>>
      /\ UNCHANGED <<sIn, sQueue, rWire>>
  BY DEF HandleStream
<1>10. CASE StreamRefused(len) # "none" /\ ProtocolError(StreamRefused(len))
            /\ UNCHANGED <<received, rIn, cur>>
  <2>1. ConnectionClose \in Ctl /\ ConnectionClose.max <= rMax
    BY DEF TypeOK, Ctl, ConnectionClose
  <2>2. /\ rQueue' \in Seq(Ctl)
        /\ \A i \in 1..Len(rQueue') : rQueue'[i].max <= rMax
    BY <1>10, <2>1, RQueuePush DEF TypeOK, CreditInv, ProtocolError
  <2>3. err' = err /\ rConn' = "closed" /\ entry' = "none" /\ credit' = 0
    BY <1>8, <1>10 DEF ProtocolError
  <2>4. TypeOK'
    BY <1>2, <1>9, <1>10, <2>2, <2>3 DEF TypeOK, snd, rapp
  <2>5. FramesOK' /\ ChainInv'
    BY <1>2, <1>9, <2>3 DEF FramesOK, ChainInv, snd
  <2>6. OpenInv'
    BY <1>e, <1>5, <1>9, <1>10, <2>3 DEF OpenInv, rapp
  <2>7. CreditInv' /\ WindowInv' /\ NoSpuriousError'
    BY <1>9, <1>10, <2>2, <2>3
    DEF CreditInv, WindowInv, NoSpuriousError, TypeOK, snd, rapp
  <2>8. TermInv'
    BY <1>g, <1>9, <1>10, <2>3
    DEF TermInv, Over, NoData, Terminal, snd, rapp
  <2> QED BY <2>4, <2>5, <2>6, <2>7, <2>8
<1>11. CASE /\ entry # "none" /\ received' = received + len
            /\ entry' \in {entry, "none"} /\ (entry' = "none" => f.fin)
            /\ \/ UNCHANGED <<rIn, cur>>
               \/ rIn' = "deliver" /\ cur' = f
            /\ UNCHANGED <<err, rConn, credit, rQueue>>
  <2>1. TypeOK'
    BY <1>2, <1>4, <1>9, <1>11 DEF TypeOK, snd, rapp
  <2>2. FramesOK'
    BY <1>2, <1>9 DEF FramesOK, snd
  <2>3. ChainInv'
    BY <1>1, <1>2, <1>3, <1>4, <1>9, <1>11
    DEF ChainInv, Contig, QueueStart, snd
  <2>4. OpenInv'
    BY <1>e, <1>1, <1>5, <1>9, <1>11 DEF OpenInv, rapp
  <2>5. CreditInv' /\ WindowInv' /\ NoSpuriousError'
    BY <1>4, <1>6, <1>9, <1>11
    DEF CreditInv, WindowInv, NoSpuriousError, TypeOK, snd, rapp
  <2>6. NoData(sWire) => NoData(sWire')
    BY <1>2 DEF NoData
  <2>7. TermInv'
    BY <1>1, <1>9, <1>11, <2>6, <1>c, <1>d, <1>g
    DEF TermInv, Over, NoData, Ended, Terminal, snd, rapp
  <2> QED BY <2>1, <2>2, <2>3, <2>4, <2>5, <2>7
<1> QED
  <2>1. len = Head(sWire).hi - Head(sWire).lo
    BY <1>2 DEF len
  <2>2. entry = "none" => StreamRefused(len) # "none"
    BY DEF StreamRefused
  <2> QED BY <1>2, <1>10, <1>11, <2>1, <2>2 DEF HandleStream

(* SWrite preserves the inductive invariant.                                *)
LEMMA SWriteStep ==
    ASSUME IInv, SWrite PROVE IInv'
<1> USE LimitsAssumption DEF IInv, SWrite, snd, rst, rapp, ses, inb
<1>a. /\ sQueue \in Seq(Frame) /\ sWire \in Seq(Frame) /\ sQueue # <<>>
  BY DEF TypeOK
<1>b. /\ Head(sQueue) = sQueue[1] /\ sQueue[1] \in Frame
      /\ Len(sQueue) \in Nat \ {0} /\ Len(sWire) \in Nat
      /\ (sWire = <<>> <=> Len(sWire) = 0)
  BY <1>a, TailFacts, EmptyFacts
<1>c. /\ sQueue' \in Seq(Frame) /\ Len(sQueue') = Len(sQueue) - 1
      /\ \A i \in 1..Len(sQueue) - 1 : sQueue'[i] = sQueue[i + 1]
  BY <1>a, TailFacts
<1>d. /\ sWire' \in Seq(Frame) /\ Len(sWire') = Len(sWire) + 1
      /\ \A i \in 1..Len(sWire) : sWire'[i] = sWire[i]
      /\ sWire'[Len(sWire) + 1] = sQueue[1] /\ sWire' # <<>>
  BY <1>a, <1>b, AppendFacts
<1>e. sQueue' = <<>> <=> Len(sQueue) = 1
  BY <1>b, <1>c, EmptyFacts
<1>1. TypeOK'
  BY <1>c, <1>d DEF TypeOK
<1>2. FramesOK'
  BY <1>b, <1>c, <1>d DEF FramesOK
<1>3. CreditInv' /\ WindowInv' /\ NoSpuriousError'
  BY DEF CreditInv, WindowInv, NoSpuriousError
<1>4. OpenInv'
  BY <1>a, <1>b, <1>c, <1>d DEF OpenInv
<1>5. rConn = "up" => Contig(sWire)' /\ Contig(sQueue)'
  BY <1>a, <1>b, <1>c, <1>d DEF ChainInv, Contig, QueueStart
<1>6. ChainInv'
  BY <1>a, <1>b, <1>c, <1>d, <1>e, <1>5 DEF ChainInv, Contig, QueueStart
<1>7. TermInv'
  BY <1>a, <1>b, <1>c, <1>d DEF TermInv, Over, NoData, Ended, Terminal
<1> QED BY <1>1, <1>2, <1>3, <1>4, <1>6, <1>7

(* The initial states satisfy the inductive invariant.                      *)
LEMMA InitIInv == Init => IInv
<1> SUFFICES ASSUME Init PROVE IInv
  OBVIOUS
<1>0. /\ Open \in Frame /\ <<Open>> \in Seq(Frame)
      /\ <<>> \in Seq(Frame) /\ <<>> \in Seq(Ctl) /\ <<0, 0>> \in Nat \X Nat
  BY DEF Open, Frame
<1>1. TypeOK
  BY <1>0, LimitsAssumption DEF TypeOK, Init
<1> USE LimitsAssumption DEF Init, Open
<1>2. FramesOK
  BY DEF FramesOK, FrameOK
<1>3. CreditInv /\ WindowInv /\ NoSpuriousError
  BY DEF CreditInv, WindowInv, NoSpuriousError
<1>4. OpenInv
  BY DEF OpenInv
<1>5. ChainInv
  BY DEF ChainInv, Contig, QueueStart
<1>6. TermInv
  BY DEF TermInv, Over, NoData, Ended, Terminal
<1> QED BY <1>1, <1>2, <1>3, <1>4, <1>5, <1>6 DEF IInv

(* Every step preserves the inductive invariant.                            *)
LEMMA NextIInv == IInv /\ [Next]_vars => IInv'
<1> SUFFICES ASSUME IInv, [Next]_vars PROVE IInv'
  OBVIOUS
<1>1. CASE SendCall \/ SendStep \/ SendLeave
  BY <1>1, WriteBufStep, FinishStep, ResetStep, ReserveStep, PublishStep,
     ReleaseStep, PublishFinStep, FinRemoveStep, PublishResetStep,
     CancelSendStep, DropSendStep
  DEF SendCall, SendStep, SendLeave
<1>2. CASE Read \/ RecvStep \/ RecvLeave
  BY <1>2, ReadPendingStep, ReadEventStep, ReadClosedStep, StoreMaxStep,
     QueueCreditStep, PublishStopStep, SendInitialCreditStep, OpenFailsStep,
     StopStep, CancelStopStep, DropRecvStep, CancelOpenStep
  DEF Read, RecvStep, RecvLeave
<1>3. CASE TaskStep
  BY <1>3, SWriteStep, RWriteStep, NextCreditStep, HandleMaxStreamDataStep,
     HandleStopSendingStep, AckStopStep, HandleConnectionCloseStep,
     HandleOpenStep, HandleStreamStep, DeliverStep, RetireStep,
     HandleResetStep, SInboundEndsStep, SOutboundEndsStep, RInboundEndsStep,
     ROutboundEndsStep
  DEF TaskStep, SInbound, RInbound, SEnds, REnds
<1>4. CASE SShutdown \/ RShutdown \/ TransportFails
  BY <1>4, SShutdownStep, RShutdownStep, TransportFailsStep
<1>5. CASE UNCHANGED vars
  BY <1>5 DEF vars, snd, rst, rapp, ses, inb, net, IInv, TypeOK, FramesOK,
     CreditInv, OpenInv, ChainInv, Contig, QueueStart, TermInv, Over, NoData,
     Ended, WindowInv, NoSpuriousError
<1> QED BY <1>1, <1>2, <1>3, <1>4, <1>5 DEF Next

(* IInv is an invariant of the session pair.                                *)
THEOREM Invariance == Spec => []IInv
  BY InitIInv, NextIInv, PTL DEF Spec

(* The variables keep their types.                                          *)
THEOREM TypeCorrect == Spec => []TypeOK
<1>1. IInv => TypeOK
  BY DEF IInv
<1> QED BY <1>1, Invariance, PTL

(* Two endpoints running this code never close the session for a            *)
(* flow-control, frame-size or unknown-stream error of the Stream case of   *)
(* handle_frame, for every window, threshold and queue length, provided S    *)
(* cuts no chunk larger than R's max_stream_data_per_frame: the endpoints do *)
(* not negotiate it, LimitsAssumption says so.                              *)
THEOREM NoErrorBetweenPeers == Spec => []NoSpuriousError
<1>1. IInv => NoSpuriousError
  BY DEF IInv
<1> QED BY <1>1, Invariance, PTL

(* No Stream frame is behind a FIN or RESET of the same direction on its way*)
(* to the peer ("MUST NOT be sent after FIN or reset"), for every size of   *)
(* the queues and windows.                                                  *)
THEOREM NoDataOnceTerminated == Spec => []NoDataAfterTerminal
<1>1. IInv => NoDataAfterTerminal
  <2> SUFFICES ASSUME IInv PROVE NoDataAfterTerminal
    OBVIOUS
  <2> DEFINE out == sWire \o sQueue
  <2>1. /\ sWire \in Seq(Frame) /\ sQueue \in Seq(Frame)
        /\ Len(sWire) \in Nat /\ Len(sQueue) \in Nat
    BY EmptyFacts DEF IInv, TypeOK
  <2>2. /\ Len(out) = Len(sWire) + Len(sQueue)
        /\ \A i \in 1..Len(out) :
              out[i] = IF i <= Len(sWire) THEN sWire[i]
                                          ELSE sQueue[i - Len(sWire)]
    BY <2>1
  <2>3. ASSUME NEW i \in 1..Len(out), NEW j \in 1..Len(out), i < j,
               Terminal(out[i])
        PROVE  out[j].t # "stream"
    <3>1. CASE i <= Len(sWire) /\ j <= Len(sWire)
      BY <2>1, <2>2, <2>3, <3>1 DEF IInv, TermInv
    <3>2. CASE i <= Len(sWire) /\ j > Len(sWire)
      BY <2>1, <2>2, <2>3, <3>2 DEF IInv, TermInv, NoData
    <3>3. CASE i > Len(sWire)
      BY <2>1, <2>2, <2>3, <3>3 DEF IInv, TermInv
    <3> QED BY <2>1, <2>2, <3>1, <3>2, <3>3
  <2> QED BY <2>3 DEF NoDataAfterTerminal, Terminal
<1> QED BY <1>1, Invariance, PTL

(* R never holds more unconsumed bytes than initial_stream_window, for every*)
(* window and update threshold Limits::validate admits.                     *)
THEOREM BufferedWithinWindow == Spec => []WindowBound
<1>1. IInv => WindowBound
  BY LimitsAssumption DEF IInv, TypeOK, CreditInv, WindowInv, WindowBound
<1> QED BY <1>1, Invariance, PTL

-----------------------------------------------------------------------------
(* The credit a mux stream announces is monotonic, and the stream           *)
(* implements ByteStream.                                                   *)

(* A write that was given up leaves the flow or the session closed, so FIN  *)
(* is queued only behind every byte that was passed to write_buf.           *)
AskInv ==
    /\ written + grant <= asked
    /\ wpc = "idle" /\ flowLive /\ ~SIsClosed => written = asked
    /\ wpc \in {"finSend", "finRemove"} => written = asked /\ finished

FinOK(f, done, n) == f.fin => done /\ f.lo = f.hi /\ f.hi = n
FinsOK(q, done, n) == \A i \in 1..Len(q) : FinOK(q[i], done, n)

(* A FIN, wherever it is on its way, is an empty frame behind every byte.   *)
FinInv ==
    /\ FinsOK(sWire, finished, asked) /\ FinsOK(sQueue, finished, asked)
    /\ FinsOK(events, finished, asked) /\ FinOK(cur, finished, asked)

(* Where the bytes handed to R's application end.                           *)
Tip == IF events = <<>> THEN pend[2] ELSE events[Len(events)].hi

(* The reader, its channel and the frame being delivered are one stretch of *)
(* bytes, from what was consumed to what was received.                      *)
PosInv ==
    /\ received <= written
    /\ rIn = "deliver" => rConn = "up" /\ cur.hi = received
    /\ sawFin => rfin
    /\ rpc = "none" => /\ pend = <<0, 0>> /\ consumed = 0 /\ events = <<>>
                       /\ received = 0 /\ ~rfin
    /\ rpc # "dropped" =>
         /\ pend[1] = consumed /\ pend[1] <= pend[2] /\ pend[2] <= received
         /\ rfin => pend[1] = pend[2]
         /\ Contig(events) /\ (events # <<>> => events[1].lo = pend[2])
         /\ \A i \in 1..Len(events) : events[i].hi <= received
         /\ rIn = "deliver" => cur.lo = Tip
         /\ entry = "live" /\ rIn # "deliver" => Tip = received

(* The first MaxStreamData, which open_bi or the inbound task puts in the   *)
(* queue, has not been written: nothing can have been consumed.             *)
Fresh == rpc \in {"none", "opening"} \/ \E i \in 1..Len(rQueue) : rQueue[i].t = "max"

(* Every credit is above those before it, on the wire, pending and next.    *)
CreditOrder ==
    /\ rpc # "none" => InitialWindow <= granted
    /\ \A i \in 1..Len(rQueue) : rQueue[i].t = "max" =>
          /\ rpc \notin {"none", "opening"} /\ rQueue[i].max = InitialWindow
          /\ \A j \in 1..Len(rQueue) : rQueue[j].t = "max" => j = i
    /\ Fresh => /\ maxData = 0 /\ credit = 0 /\ rpc \notin {"store", "queue"}
                /\ \A i \in 1..Len(rWire) : rWire[i].t # "max"
    /\ \A i \in 1..Len(rWire) : rWire[i].t = "max" =>
          /\ maxData < rWire[i].max /\ rWire[i].max <= granted
          /\ credit > 0 => rWire[i].max < credit
          /\ rpc \in {"store", "queue"} => rWire[i].max < granted
          /\ \A j \in i + 1..Len(rWire) : rWire[j].t = "max" => rWire[i].max < rWire[j].max
    /\ credit > 0 => /\ maxData < credit /\ credit <= granted
                     /\ rpc \in {"store", "queue"} => credit < granted
    /\ rpc \in {"store", "queue"} => maxData < granted

PInv == IInv /\ AskInv /\ FinInv /\ PosInv /\ CreditOrder

-----------------------------------------------------------------------------
(* The steps, sorted by what they can change *)

(* What the sender's side is built from, apart from its queue and wire.     *)
askVars == <<written, grant, asked, wpc, finished, flowLive, sDown, sConn>>

(* Steps of R, of the transport and of S's writer leave the sender alone.   *)
LEMMA OthersKeepAsked ==
    ASSUME \/ Read \/ RecvStep \/ RecvLeave \/ RInbound \/ REnds
           \/ SWrite \/ RWrite \/ NextCredit \/ HandleMaxStreamData \/ AckStop
           \/ RShutdown \/ TransportFails \/ UNCHANGED vars
    PROVE  UNCHANGED askVars
<1> USE DEF askVars, vars, snd, ses, inb
<1>1. CASE Read
  BY <1>1 DEF Read, ReadPending, ReadEvent, ReadClosed
<1>2. CASE RecvStep
  BY <1>2 DEF RecvStep, StoreMax, QueueCredit, PublishStop, SendInitialCredit, OpenFails
<1>3. CASE RecvLeave
  BY <1>3 DEF RecvLeave, Stop, CancelStop, DropRecv, CancelOpen, RecvDropped
<1>4. CASE RInbound
  BY <1>4 DEF RInbound, HandleOpen, HandleStream, Deliver, Retire, HandleReset
<1>5. CASE REnds
  BY <1>5 DEF REnds, RInboundEnds, ROutboundEnds
<1>6. CASE SWrite \/ RWrite \/ NextCredit \/ HandleMaxStreamData \/ AckStop
  BY <1>6 DEF SWrite, RWrite, NextCredit, HandleMaxStreamData, AckStop
<1>7. CASE RShutdown \/ TransportFails \/ UNCHANGED vars
  BY <1>7 DEF RShutdown, TransportFails
<1> QED BY <1>1, <1>2, <1>3, <1>4, <1>5, <1>6, <1>7

(* AskInv is kept by every step, beside IInv.                               *)
LEMMA AskStep ==
    ASSUME IInv, AskInv, [Next]_vars PROVE AskInv'
<1>0. /\ TypeOK /\ written \in Nat /\ grant \in Nat /\ asked \in Nat
      /\ (wpc = "rstSend" => ~flowLive)
  BY DEF IInv, TypeOK, TermInv
<1> USE <1>0 DEF AskInv, SIsClosed
<1>1. CASE \E n \in 1..TotalBytes : WriteBuf(n)
  BY <1>1, LimitsAssumption DEF WriteBuf, ses
<1>2. CASE Finish \/ Reset
  BY <1>2 DEF Finish, Reset, ses
<1>3. CASE Reserve
  <2>1. /\ wpc = "reserve" /\ UNCHANGED <<asked, written, flowLive, finished, sDown, sConn>>
        /\ wpc' \in {"send", "idle"}
        /\ wpc' = "idle" => ~flowLive \/ SIsClosed
    BY <1>3 DEF Reserve, ses
  <2>2. grant' = grant \/ written + grant' <= asked
    BY <1>3, LimitsAssumption DEF Reserve, TryReserve, Min2, Todo, TypeOK
  <2> QED BY <2>1, <2>2
<1>4. CASE Publish
  BY <1>4 DEF Publish, Todo, ses
<1>5. CASE Release
  <2>1. ~flowLive \/ sConn = "gone"
    BY <1>5 DEF Release, SendFails
  <2> QED BY <1>5, <2>1 DEF Release, ses
<1>a. CASE PublishFin
  <2>1. wpc' = "finRemove" \/ (wpc' = "idle" /\ (~flowLive \/ sConn = "gone"))
    BY <1>a DEF PublishFin, SendFails
  <2> QED BY <1>a, <2>1 DEF PublishFin, ses
<1>b. CASE FinRemove
  BY <1>b DEF FinRemove, ses
<1>6. CASE PublishReset \/ CancelSend \/ DropSend
  BY <1>6 DEF PublishReset, CancelSend, DropSend, ses
<1>7. CASE HandleStopSending \/ HandleConnectionClose
  BY <1>7 DEF HandleStopSending, HandleConnectionClose, ses
<1>8. CASE SEnds \/ SShutdown
  BY <1>8 DEF SEnds, SInboundEnds, SOutboundEnds, SShutdown, snd
<1>9. CASE UNCHANGED askVars
  BY <1>9 DEF askVars
<1> QED
  BY <1>1, <1>2, <1>3, <1>4, <1>5, <1>a, <1>b, <1>6, <1>7, <1>8, <1>9, OthersKeepAsked
  DEF Next, TaskStep, SendCall, SendStep, SendLeave, SInbound

(* FinsOK through Append, Tail and cutting.                                 *)
LEMMA FinsMove ==
    ASSUME NEW q \in Seq(Frame), NEW done, NEW n, FinsOK(q, done, n)
    PROVE  /\ \A e \in Frame : FinOK(e, done, n) => FinsOK(Append(q, e), done, n)
           /\ q # <<>> => FinOK(Head(q), done, n) /\ FinsOK(Tail(q), done, n)
           /\ \A k \in 0..Len(q) : FinsOK(SubSeq(q, 1, k), done, n)
           /\ FinsOK(<<>>, done, n) /\ FinOK(Open, done, n)
<1>1. ASSUME NEW e \in Frame, FinOK(e, done, n)
      PROVE  FinsOK(Append(q, e), done, n)
  <2>1. /\ Len(Append(q, e)) = Len(q) + 1 /\ Append(q, e)[Len(q) + 1] = e
        /\ \A i \in 1..Len(q) : Append(q, e)[i] = q[i]
        /\ Len(q) \in Nat
    BY <1>1, AppendFacts
  <2> QED BY <1>1, <2>1 DEF FinsOK
<1>2. ASSUME q # <<>> PROVE FinOK(Head(q), done, n) /\ FinsOK(Tail(q), done, n)
  <2>1. /\ Head(q) = q[1] /\ Len(q) \in Nat \ {0} /\ Len(Tail(q)) = Len(q) - 1
        /\ \A i \in 1..Len(q) - 1 : Tail(q)[i] = q[i + 1]
    BY <1>2, TailFacts
  <2> QED BY <2>1 DEF FinsOK
<1>3. ASSUME NEW k \in 0..Len(q) PROVE FinsOK(SubSeq(q, 1, k), done, n)
  <2>1. /\ Len(SubSeq(q, 1, k)) = k /\ \A i \in 1..k : SubSeq(q, 1, k)[i] = q[i]
        /\ Len(q) \in Nat
    BY <1>3, PrefixFacts, EmptyFacts
  <2> QED BY <2>1 DEF FinsOK
<1>4. FinsOK(<<>>, done, n) /\ FinOK(Open, done, n)
  BY DEF FinsOK, FinOK, Open
<1> QED BY <1>1, <1>2, <1>3, <1>4

(* FinInv is kept by every step, beside IInv and AskInv.                    *)
LEMMA FinStep ==
    ASSUME IInv, AskInv, FinInv, [Next]_vars PROVE FinInv'
<1>0. /\ sWire \in Seq(Frame) /\ sQueue \in Seq(Frame) /\ events \in Seq(Frame)
      /\ cur \in Frame /\ finished \in BOOLEAN /\ asked \in Nat
      /\ written \in Nat /\ grant \in Nat
  BY DEF IInv, TypeOK
<1>1. /\ ResetStream \in Frame /\ FinOK(ResetStream, finished, asked)
      /\ Stream(written, written + grant, FALSE) \in Frame
      /\ FinOK(Stream(written, written + grant, FALSE), finished, asked)
      /\ Stream(written, written, TRUE) \in Frame
  BY <1>0 DEF ResetStream, Stream, Frame, FinOK
<1> DEFINE Move == FinsOK(sWire', finished, asked) /\ FinsOK(sQueue', finished, asked)
                   /\ FinsOK(events', finished, asked) /\ FinOK(cur', finished, asked)
                   /\ UNCHANGED <<finished, asked>>
<1>2. Move => FinInv'
  BY DEF FinInv
<1>3. ASSUME NEW f \in Frame, FinOK(f, finished, asked), SPush(f),
             UNCHANGED <<events, cur, finished, asked>>
      PROVE  Move
  BY <1>0, <1>3, FinsMove DEF FinInv, SPush
<1>4. ASSUME UNCHANGED <<sWire, sQueue, events, cur, finished, asked>>
      PROVE  Move
  BY <1>4 DEF FinInv
<1> HIDE DEF Move
<1>5. CASE \E n \in 1..TotalBytes : WriteBuf(n)
  <2>1. ~finished /\ UNCHANGED <<sWire, sQueue, events, cur, finished>>
    BY <1>5 DEF WriteBuf, rst, inb, net
  <2> QED BY <2>1, <1>0 DEF FinInv, FinsOK, FinOK
<1>6. CASE Finish \/ Reset
  <2>1. finished' = TRUE /\ UNCHANGED <<sWire, sQueue, events, cur, asked>>
    BY <1>6 DEF Finish, Reset, rst, inb, net
  <2> QED BY <2>1, <1>0 DEF FinInv, FinsOK, FinOK
<1>7. CASE Reserve \/ Release \/ FinRemove \/ CancelSend
  <2>1. UNCHANGED <<sWire, sQueue, events, cur, finished, asked>>
    BY <1>7 DEF Reserve, Release, FinRemove, CancelSend, rst, inb, net
  <2> QED BY <2>1, <1>2, <1>4
<1>8. CASE Publish
  <2>1. SPush(Stream(written, written + grant, FALSE))
        /\ UNCHANGED <<events, cur, finished, asked>>
    BY <1>8 DEF Publish, rst, inb
  <2> QED BY <2>1, <1>1, <1>2, <1>3
<1>9. CASE PublishFin
  <2>1. FinOK(Stream(written, written, TRUE), finished, asked)
    BY <1>9 DEF AskInv, PublishFin, FinOK, Stream
  <2>2. UNCHANGED <<events, cur, finished, asked>>
    BY <1>9 DEF PublishFin, rst, inb
  <2>3. SPush(Stream(written, written, TRUE)) \/ UNCHANGED net
    BY <1>9 DEF PublishFin, SPush, net
  <2>4. CASE UNCHANGED net
    BY <2>2, <2>4, <1>2, <1>4 DEF net
  <2> QED BY <2>1, <2>2, <2>3, <2>4, <1>1, <1>2, <1>3
<1>10. CASE PublishReset \/ DropSend \/ AckStop
  <2>1. UNCHANGED <<events, cur, finished, asked>>
        /\ (SPush(ResetStream) \/ UNCHANGED <<sQueue, sWire>>)
    BY <1>10 DEF PublishReset, DropSend, AckStop, snd, rst, inb, net
  <2> QED BY <2>1, <1>1, <1>2, <1>3, <1>4
<1>11. CASE Read
  <2>1. UNCHANGED <<sWire, sQueue, cur, finished, asked>>
        /\ (events' = events \/ (events # <<>> /\ events' = Tail(events)))
    BY <1>11 DEF Read, ReadPending, ReadEvent, ReadClosed, snd, rst, inb, net
  <2> QED BY <2>1, <1>0, <1>2, FinsMove DEF Move, FinInv
<1>12. CASE RecvStep \/ RecvLeave
  <2>1. UNCHANGED <<sWire, sQueue, cur, finished, asked>> /\ events' \in {events, <<>>}
    BY <1>12 DEF RecvStep, StoreMax, QueueCredit, PublishStop, SendInitialCredit,
       OpenFails, RecvLeave, Stop, CancelStop, DropRecv, CancelOpen, RecvDropped,
       RPush, snd, rst, inb, net
  <2> QED BY <2>1, <1>0, <1>2, FinsMove DEF Move, FinInv
<1>13. CASE SWrite
  <2>1. /\ sQueue # <<>> /\ sWire' = Append(sWire, Head(sQueue)) /\ sQueue' = Tail(sQueue)
        /\ UNCHANGED <<events, cur, finished, asked>>
    BY <1>13 DEF SWrite, snd, rst, inb
  <2>2. Head(sQueue) \in Frame
    BY <2>1, <1>0, TailFacts
  <2> QED BY <2>1, <2>2, <1>0, <1>2, FinsMove DEF Move, FinInv
<1>14. CASE RInbound
  <2>1. UNCHANGED <<sQueue, finished, asked>>
        /\ (sWire' = sWire \/ (sWire # <<>> /\ sWire' = Tail(sWire)))
        /\ (cur' \in {cur, Open} \/ (sWire # <<>> /\ cur' = Head(sWire)))
        /\ (events' = events \/ events' = Append(events, cur))
    BY <1>14 DEF RInbound, HandleOpen, HandleStream, Deliver, Retire, HandleReset,
       RReads, ProtocolError, snd, inb, net
  <2> QED BY <2>1, <1>0, <1>2, FinsMove DEF Move, FinInv
<1>15. CASE SEnds \/ REnds
  <2>1. /\ UNCHANGED <<events, finished, asked>> /\ cur' \in {cur, Open}
        /\ sQueue' \in {sQueue, <<>>}
        /\ (sWire' = sWire \/ \E k \in 0..Len(sWire) : sWire' = SubSeq(sWire, 1, k))
    BY <1>15 DEF SEnds, REnds, SInboundEnds, SOutboundEnds, RInboundEnds,
       ROutboundEnds, snd, rst, inb, net
  <2> QED BY <2>1, <1>0, <1>2, FinsMove DEF Move, FinInv
<1>16. CASE \/ RWrite \/ NextCredit \/ HandleMaxStreamData \/ HandleStopSending
            \/ HandleConnectionClose \/ SShutdown \/ RShutdown \/ TransportFails
            \/ UNCHANGED vars
  <2>1. UNCHANGED <<sWire, sQueue, events, cur, finished, asked>>
    BY <1>16 DEF RWrite, NextCredit, HandleMaxStreamData, HandleStopSending,
       HandleConnectionClose, SReads, SShutdown, RShutdown, TransportFails, vars,
       snd, rst, inb, net
  <2> QED BY <2>1, <1>2, <1>4
<1> QED
  BY <1>5, <1>6, <1>7, <1>8, <1>9, <1>10, <1>11, <1>12, <1>13, <1>14, <1>15, <1>16
  DEF Next, TaskStep, SendCall, SendStep, SendLeave, SInbound

-----------------------------------------------------------------------------
(* Positions *)

(* What PosInv speaks of, apart from written.                               *)
posVars == <<received, rIn, rConn, cur, sawFin, rfin, rpc, pend, consumed, events>>

(* PosInv when only written, entry or nothing of it has moved.              *)
LEMMA PosKept ==
    ASSUME TypeOK, PosInv, UNCHANGED posVars, written' \in Nat, written <= written',
           entry' \in {entry, "none", "stopped"}
    PROVE  PosInv'
  BY DEF posVars, PosInv, Tip, Contig, TypeOK

(* PosInv once the handle is gone.                                          *)
LEMMA PosDropped ==
    ASSUME TypeOK, PosInv, rpc' = "dropped",
           UNCHANGED <<received, written, sawFin, rfin, cur>>,
           \/ UNCHANGED <<rIn, rConn>>
           \/ rIn # "deliver" /\ rIn' # "deliver"
    PROVE  PosInv'
  BY DEF PosInv, TypeOK

(* The frame at the front of S's wire starts where R stands.                *)
LEMMA FrontFacts ==
    ASSUME IInv, sWire # <<>>, rConn = "up"
    PROVE  /\ Head(sWire) = sWire[1] /\ sWire[1] \in Frame
           /\ sWire[1].lo = received /\ sWire[1].lo <= sWire[1].hi
           /\ sWire[1].hi <= written
<1>1. sWire \in Seq(Frame)
  BY DEF IInv, TypeOK
<1>2. Head(sWire) = sWire[1] /\ sWire[1] \in Frame /\ 1 \in 1..Len(sWire)
  BY <1>1, TailFacts
<1> QED BY <1>2 DEF IInv, ChainInv, FramesOK, FrameOK

(* A read from what the handle holds advances pend and consumed together.   *)
LEMMA ReadPendingPos ==
    ASSUME IInv, PosInv, NEW k \in 1..MaxFrame, ReadPending(k) PROVE PosInv'
<1>1. TypeOK /\ k \in Nat \ {0}
  BY LimitsAssumption DEF IInv
<1>2. pend \in Nat \X Nat /\ pend[1] \in Nat /\ pend[2] \in Nat /\ pend[1] < pend[2]
  BY <1>1 DEF TypeOK, ReadPending
<1>3. PICK n \in Nat : /\ n = Min2(k, pend[2] - pend[1])
                       /\ pend[1] + n <= pend[2]
                       /\ pend' = <<pend[1] + n, pend[2]>> /\ OnBytesConsumed(n, rfin)
  BY <1>1, <1>2 DEF ReadPending, Min2
<1>4. pend'[1] = pend[1] + n /\ pend'[2] = pend[2]
  BY <1>3
<1>5. consumed' = consumed + n /\ rpc' \in {"idle", "store"} /\ rpc = "idle" /\ rfin \in BOOLEAN
  BY <1>1, <1>3, ConsumedFacts DEF TypeOK, ReadPending
<1>6. UNCHANGED <<received, written, rIn, rConn, cur, entry, sawFin, rfin, events>>
  BY DEF ReadPending, snd, rst, ses, inb
<1> QED BY <1>1, <1>2, <1>3, <1>4, <1>5, <1>6 DEF PosInv, Tip, Contig, TypeOK

(* A read of the next event starts where pend ended.                        *)
LEMMA ReadEventPos ==
    ASSUME IInv, FinInv, PosInv, NEW k \in 1..MaxFrame, ReadEvent(k) PROVE PosInv'
<1>1. /\ TypeOK /\ k \in Nat \ {0} /\ events \in Seq(Frame) /\ events # <<>>
      /\ rpc = "idle" /\ pend \in Nat \X Nat /\ pend[1] = pend[2] /\ ~rfin
  BY LimitsAssumption DEF IInv, TypeOK, ReadEvent
<1> DEFINE e == events[1]
<1>2. /\ Head(events) = e /\ e \in Frame /\ Len(events) \in Nat \ {0}
      /\ Tail(events) \in Seq(Frame) /\ Len(Tail(events)) = Len(events) - 1
      /\ \A i \in 1..Len(events) - 1 : Tail(events)[i] = events[i + 1]
  BY <1>1, TailFacts
<1>3. /\ e.lo \in Nat /\ e.hi \in Nat /\ e.fin \in BOOLEAN /\ e.lo <= e.hi
      /\ e.lo = pend[2] /\ e.hi <= received
  BY <1>1, <1>2 DEF Frame, IInv, WindowInv, PosInv
<1>4. e.fin => e.lo = e.hi
  BY <1>2 DEF FinInv, FinsOK, FinOK
<1>5. PICK n \in Nat : /\ n = Min2(k, e.hi - e.lo) /\ e.lo + n <= e.hi
                       /\ pend' = <<e.lo + n, e.hi>> /\ OnBytesConsumed(n, e.fin)
  BY <1>1, <1>2, <1>3 DEF ReadEvent, Min2
<1>6. pend'[1] = e.lo + n /\ pend'[2] = e.hi
  BY <1>5
<1>7. consumed' = consumed + n /\ rpc' \in {"idle", "store"}
  BY <1>1, <1>3, <1>5, ConsumedFacts
<1>8. events' = Tail(events) /\ rfin' = e.fin /\ sawFin' = (sawFin \/ e.fin)
  BY <1>2 DEF ReadEvent
<1>9. UNCHANGED <<received, written, rIn, rConn, cur, entry>>
  BY DEF ReadEvent, snd, ses, inb
<1>10. sawFin' => rfin'
  BY <1>1, <1>8 DEF PosInv
<1>11. rfin' => pend'[1] = pend'[2]
  BY <1>3, <1>4, <1>5, <1>6, <1>8
<1> HIDE DEF e
<1>12. Contig(events') /\ \A i \in 1..Len(events') : events'[i].hi <= received
  BY <1>1, <1>2, <1>8 DEF PosInv, Contig
<1>13. events' # <<>> => events'[1].lo = e.hi
  <2> SUFFICES ASSUME events' # <<>> PROVE events'[1].lo = e.hi
    OBVIOUS
  <2>1. Len(events) >= 2
    BY <1>2, <1>8, EmptyFacts
  <2> QED BY <1>1, <1>2, <1>8, <2>1 DEF PosInv, Contig, e
<1>14. Tip' = Tip
  <2>1. CASE Len(events) = 1
    <3>1. events' = <<>>
      BY <1>2, <1>8, <2>1, EmptyFacts
    <3> QED BY <1>1, <1>6, <2>1, <3>1 DEF Tip, e
  <2>2. CASE Len(events) >= 2
    <3>1. Len(events') = Len(events) - 1 /\ Len(events) - 1 \in 1..Len(events) - 1
      BY <1>2, <1>8, <2>2
    <3>2. events'[Len(events')] = events[Len(events)]
      BY <1>2, <1>8, <3>1
    <3>3. events' # <<>>
      BY <3>1
    <3> QED BY <1>1, <3>2, <3>3 DEF Tip
  <2> QED BY <1>2, <2>1, <2>2
<1> QED BY <1>1, <1>3, <1>5, <1>6, <1>7, <1>9, <1>10, <1>11, <1>12, <1>13, <1>14
        DEF PosInv, TypeOK

(* A frame accepted by R ends where R stands then.                          *)
LEMMA HandleStreamPos ==
    ASSUME IInv, PosInv, HandleStream PROVE PosInv'
<1>1. /\ TypeOK /\ sWire # <<>> /\ rConn = "up" /\ rIn = "run"
      /\ UNCHANGED <<written, rpc, pend, consumed, rfin, sawFin, events>>
  BY DEF IInv, HandleStream, RReads, snd, rapp
<1> DEFINE f == sWire[1]
<1>2. /\ Head(sWire) = f /\ f \in Frame /\ f.lo = received /\ f.lo <= f.hi
      /\ f.hi <= written
  BY <1>1, FrontFacts
<1>3. f.lo \in Nat /\ f.hi \in Nat /\ received \in Nat /\ written \in Nat
  BY <1>1, <1>2 DEF Frame, TypeOK
<1>4. \/ /\ entry' = "none" /\ UNCHANGED <<received, rIn, cur>>
      \/ /\ entry = "stopped" /\ entry' \in {"stopped", "none"}
         /\ received' = f.hi /\ UNCHANGED <<rIn, cur, rConn>>
      \/ /\ entry = "live" /\ entry' = "live" /\ received' = f.hi
         /\ rIn' = "deliver" /\ cur' = f /\ UNCHANGED rConn
  BY <1>2, <1>3 DEF HandleStream, ProtocolError
<1>5. entry # "none" => rpc # "none"
  BY DEF IInv, OpenInv
<1> HIDE DEF f
<1>6. CASE entry' = "none" /\ UNCHANGED <<received, rIn, cur>>
  BY <1>1, <1>6 DEF PosInv, Tip, Contig
<1>a. rpc # "dropped" => /\ pend[2] <= f.hi
                         /\ \A i \in 1..Len(events) : events[i].hi <= f.hi
  <2>1. events \in Seq(Frame) /\ pend \in Nat \X Nat
    BY <1>1 DEF TypeOK
  <2>2. \A i \in 1..Len(events) : events[i].hi \in Nat
    <3>1. \A i \in 1..Len(events) : events[i] \in Frame
      BY <2>1, EmptyFacts
    <3> QED BY <3>1 DEF Frame
  <2>3. rpc # "dropped" => pend[2] <= received
                           /\ \A i \in 1..Len(events) : events[i].hi <= received
    BY DEF PosInv
  <2>4. pend[2] \in Nat /\ received <= f.hi
    BY <1>2, <1>3, <2>1
  <2> QED BY <1>3, <2>2, <2>3, <2>4
<1>7. CASE /\ entry = "stopped" /\ entry' \in {"stopped", "none"}
           /\ received' = f.hi /\ UNCHANGED <<rIn, cur, rConn>>
  BY <1>1, <1>2, <1>5, <1>a, <1>7 DEF PosInv, Tip, Contig
<1>8. CASE /\ entry = "live" /\ entry' = "live" /\ received' = f.hi
           /\ rIn' = "deliver" /\ cur' = f /\ UNCHANGED rConn
  BY <1>1, <1>2, <1>5, <1>a, <1>8 DEF PosInv, Tip, Contig
<1> QED BY <1>4, <1>6, <1>7, <1>8

(* An event delivered continues the channel.                                *)
LEMMA DeliverPos ==
    ASSUME IInv, PosInv, Deliver PROVE PosInv'
<1>1. /\ TypeOK /\ rIn = "deliver" /\ rConn = "up" /\ events \in Seq(Frame) /\ cur \in Frame
      /\ UNCHANGED <<written, rpc, pend, consumed, rfin, sawFin, received>>
      /\ rpc # "none" /\ rIn' # "deliver"
  BY DEF IInv, TypeOK, OpenInv, Deliver, snd, rapp
<1>2. CASE rpc = "dropped"
  BY <1>1, <1>2 DEF PosInv
<1>3. CASE rpc # "dropped" /\ entry' = "none" /\ events' = events
  BY <1>1, <1>3 DEF PosInv, Contig, Tip
<1>4. CASE rpc # "dropped" /\ events' = Append(events, cur)
  <2>1. /\ events' \in Seq(Frame) /\ Len(events') = Len(events) + 1
        /\ \A i \in 1..Len(events) : events'[i] = events[i]
        /\ events'[Len(events) + 1] = cur /\ events' # <<>> /\ Len(events) \in Nat
        /\ (events = <<>> <=> Len(events) = 0)
    BY <1>1, <1>4, AppendFacts, EmptyFacts
  <2>2. cur.hi = received /\ cur.lo = Tip
    BY <1>1, <1>4 DEF PosInv
  <2>3. Contig(events')
    BY <1>1, <1>4, <2>1, <2>2 DEF PosInv, Contig, Tip
  <2>4. events'[1].lo = pend[2]
    BY <1>1, <1>4, <2>1, <2>2 DEF PosInv, Tip
  <2>5. Tip' = received
    BY <2>1, <2>2 DEF Tip
  <2>6. \A i \in 1..Len(events') : events'[i].hi <= received
    BY <1>1, <1>4, <2>1, <2>2 DEF PosInv, TypeOK
  <2> QED BY <1>1, <1>4, <2>1, <2>3, <2>4, <2>5, <2>6 DEF PosInv
<1> QED BY <1>2, <1>3, <1>4 DEF Deliver, ProtocolError

(* PosInv is kept by every step, beside IInv and FinInv.                    *)
LEMMA PosStep ==
    ASSUME IInv, FinInv, PosInv, [Next]_vars PROVE PosInv'
<1>0. TypeOK /\ written \in Nat /\ grant \in Nat /\ entry \in {"none", "live", "stopped"}
  BY DEF IInv, TypeOK
<1>1. CASE SendCall \/ SendStep \/ SendLeave
  <2>1. UNCHANGED <<posVars, entry>>
    BY <1>1 DEF posVars, SendCall, SendStep, SendLeave, WriteBuf, Finish, Reset, Reserve,
       Publish, Release, PublishFin, FinRemove, PublishReset, CancelSend, DropSend,
       rst, rapp, ses, inb
  <2>2. written' \in {written, written + grant}
    BY <1>1 DEF SendCall, SendStep, SendLeave, WriteBuf, Finish, Reset, Reserve,
       Publish, Release, PublishFin, FinRemove, PublishReset, CancelSend, DropSend
  <2> QED BY <2>1, <2>2, <1>0, PosKept
<1>2. CASE SInbound \/ SEnds \/ SShutdown \/ RShutdown \/ TransportFails \/ UNCHANGED vars
  <2>1. UNCHANGED <<posVars, entry, written>>
    BY <1>2 DEF posVars, SInbound, HandleMaxStreamData, HandleStopSending, AckStop,
       HandleConnectionClose, SEnds, SInboundEnds, SOutboundEnds, SShutdown, RShutdown,
       TransportFails, vars, snd, rst, rapp, ses, inb
  <2> QED BY <2>1, <1>0, PosKept
<1>3. CASE SWrite \/ RWrite \/ NextCredit
  <2>1. UNCHANGED <<posVars, entry, written>>
    BY <1>3 DEF posVars, SWrite, RWrite, NextCredit, snd, rst, rapp, ses, inb
  <2> QED BY <2>1, <1>0, PosKept
<1>4. CASE ReadClosed
  <2>1. /\ UNCHANGED <<received, rIn, rConn, cur, sawFin, rpc, pend, consumed, events,
                       written, entry>>
        /\ rpc = "idle" /\ pend[1] = pend[2] /\ rfin' = TRUE
    BY <1>4 DEF ReadClosed, snd, rst, ses, inb
  <2> QED BY <2>1 DEF PosInv, Tip, Contig
<1>5. CASE StoreMax \/ QueueCredit \/ PublishStop \/ CancelStop \/ Stop
  <2>1. /\ UNCHANGED <<received, rIn, rConn, cur, sawFin, rfin, pend, consumed, events, written>>
        /\ rpc \notin {"none", "dropped"} /\ rpc' \notin {"none", "dropped"}
        /\ entry' \in {entry, "stopped"}
    BY <1>5 DEF StoreMax, QueueCredit, PublishStop, CancelStop, Stop, StopRecvStream,
       snd, rst, ses, inb
  <2> QED BY <2>1 DEF PosInv, Tip, Contig
<1>6. CASE SendInitialCredit
  <2>1. /\ UNCHANGED <<received, rConn, cur, sawFin, rfin, pend, consumed, events, written, entry>>
        /\ rpc = "opening" /\ rpc' = "idle"
        /\ rIn' = rIn \/ (rIn = "credit" /\ rIn' = "run")
    BY <1>6 DEF SendInitialCredit, snd, rst, ses
  <2> QED BY <2>1 DEF PosInv, Tip, Contig
<1>7. CASE OpenFails
  <2>1. /\ UNCHANGED <<received, cur, sawFin, rfin, written>> /\ rpc' = "dropped"
        /\ UNCHANGED <<rIn, rConn>> \/ (rIn = "credit" /\ rIn' = "run")
    BY <1>7 DEF OpenFails, snd
  <2> QED BY <2>1, <1>0, PosDropped
<1>8. CASE DropRecv \/ CancelOpen
  <2>1. /\ UNCHANGED <<received, cur, sawFin, rfin, written, rIn, rConn>> /\ rpc' = "dropped"
    BY <1>8 DEF DropRecv, CancelOpen, RecvDropped, snd, inb
  <2> QED BY <2>1, <1>0, PosDropped
<1>9. CASE HandleOpen
  <2>1. /\ UNCHANGED <<received, rConn, cur, sawFin, rfin, pend, consumed, events, written>>
        /\ rpc' = "opening" /\ rIn' = "credit" /\ sWire # <<>>
        /\ Head(sWire).t = "open"
    BY <1>9 DEF HandleOpen, RReads, snd, ses
  <2>2. Head(sWire) = sWire[1] /\ 1 \in 1..Len(sWire)
    BY <1>0, <2>1, TailFacts DEF TypeOK
  <2>3. rpc = "none"
    BY <2>1, <2>2 DEF IInv, OpenInv
  <2>4. Tip' = received
    BY <2>1, <2>3 DEF PosInv, Tip
  <2> QED BY <2>1, <2>3, <2>4 DEF PosInv, Contig
<1>10. CASE Retire
  BY <1>10 DEF Retire, PosInv, Tip, Contig, snd, rapp
<1>11. CASE HandleReset
  <2>1. UNCHANGED <<posVars, written>> /\ entry' = "none"
    BY <1>11 DEF posVars, HandleReset, snd, rapp, ses, inb
  <2> QED BY <2>1, <1>0, PosKept
<1>12. CASE REnds
  <2>1. /\ UNCHANGED <<received, sawFin, rfin, rpc, pend, consumed, events, written>>
        /\ rIn' = "run" /\ entry' = "none"
    BY <1>12 DEF REnds, RInboundEnds, ROutboundEnds, snd, rapp
  <2> QED BY <2>1 DEF PosInv, Tip, Contig
<1> QED
  BY <1>1, <1>2, <1>3, <1>4, <1>5, <1>6, <1>7, <1>8, <1>9, <1>10, <1>11, <1>12,
     ReadPendingPos, ReadEventPos, HandleStreamPos, DeliverPos
  DEF Next, TaskStep, Read, RecvStep, RecvLeave, RInbound

-----------------------------------------------------------------------------
(* The order of the credits *)

(* Nothing can be read while the first credit is on its way.                *)
LEMMA FreshIsEmpty ==
    ASSUME IInv, PosInv, CreditOrder, Fresh PROVE received = 0 /\ rpc \notin {"store", "queue"}
<1>1. written + grant <= sentData /\ sentData <= maxData /\ maxData = 0
  BY DEF IInv, CreditInv, CreditOrder
<1>2. written \in Nat /\ grant \in Nat /\ sentData \in Nat /\ received \in Nat
  BY DEF IInv, TypeOK
<1> QED BY <1>1, <1>2 DEF PosInv, CreditOrder

creditVars == <<maxData, rpc, granted, credit, rQueue, rWire>>

(* Steps that neither grant, queue, write nor read a credit.                *)
LEMMA OthersKeepCredit ==
    ASSUME \/ SendCall \/ SendStep \/ SendLeave \/ ReadClosed \/ SWrite
           \/ AckStop \/ SEnds \/ SShutdown \/ RShutdown \/ TransportFails
           \/ HandleReset \/ Retire \/ UNCHANGED vars
    PROVE  UNCHANGED creditVars
<1> USE DEF creditVars, snd, rst, rapp, net
<1>1. CASE SendCall \/ SendStep
  BY <1>1 DEF SendCall, SendStep, WriteBuf, Finish, Reset, Reserve,
     Publish, Release, PublishFin, FinRemove, PublishReset, SPush
<1>2. CASE SendLeave \/ AckStop
  BY <1>2 DEF SendLeave, CancelSend, DropSend, SPush, AckStop
<1>3. CASE ReadClosed \/ SWrite \/ SEnds
  BY <1>3 DEF ReadClosed, SWrite, SEnds, SInboundEnds, SOutboundEnds
<1>4. CASE SShutdown \/ RShutdown \/ TransportFails \/ HandleReset \/ Retire \/ UNCHANGED vars
  BY <1>4 DEF SShutdown, RShutdown, TransportFails, HandleReset, Retire, vars
<1> QED BY <1>1, <1>2, <1>3, <1>4

(* The types CreditOrder needs.                                             *)
LEMMA CreditTypes ==
    ASSUME TypeOK
    PROVE  /\ rQueue \in Seq(Ctl) /\ rWire \in Seq(Ctl)
           /\ Len(rQueue) \in Nat /\ Len(rWire) \in Nat
           /\ \A i \in 1..Len(rQueue) : rQueue[i].max \in Nat
           /\ \A i \in 1..Len(rWire) : rWire[i].max \in Nat
           /\ maxData \in Nat /\ credit \in Nat /\ granted \in Nat
<1>1. /\ rQueue \in Seq(Ctl) /\ rWire \in Seq(Ctl) /\ maxData \in Nat /\ credit \in Nat
      /\ granted \in Nat
  BY DEF TypeOK
<1>2. /\ Len(rQueue) \in Nat /\ Len(rWire) \in Nat
      /\ \A i \in 1..Len(rQueue) : rQueue[i] \in Ctl
      /\ \A i \in 1..Len(rWire) : rWire[i] \in Ctl
  BY <1>1, EmptyFacts
<1> QED BY <1>1, <1>2 DEF Ctl

(* The order when a control frame other than a credit joins R's queue, a    *)
(* pending credit is dropped, or the reader moves on.                       *)
LEMMA CreditKept ==
    ASSUME TypeOK, CreditOrder, UNCHANGED <<maxData, granted, rWire>>,
           credit' \in {credit, 0},
           rpc' \in {"store", "queue"} => rpc \in {"store", "queue"},
           rpc' \in {"none", "opening"} => rpc' = rpc,
           rpc = "none" => rpc' = "none",
           \/ rQueue' = rQueue
           \/ \E c \in Ctl : c.t # "max" /\ rQueue' = Append(rQueue, c)
    PROVE  CreditOrder'
<1>1. Len(rQueue) \in Nat /\ credit \in Nat /\ rQueue \in Seq(Ctl)
  BY CreditTypes
<1>2. \A i \in 1..Len(rQueue') : rQueue'[i].t = "max" =>
         i \in 1..Len(rQueue) /\ rQueue'[i] = rQueue[i]
  <2>1. CASE rQueue' = rQueue
    BY <2>1
  <2>2. ASSUME NEW c \in Ctl, c.t # "max", rQueue' = Append(rQueue, c)
        PROVE  \A i \in 1..Len(rQueue') : rQueue'[i].t = "max" =>
                  i \in 1..Len(rQueue) /\ rQueue'[i] = rQueue[i]
    <3>1. /\ Len(rQueue') = Len(rQueue) + 1
          /\ \A i \in 1..Len(rQueue) : rQueue'[i] = rQueue[i]
          /\ rQueue'[Len(rQueue) + 1] = c
      BY <1>1, <2>2, AppendFacts
    <3> QED BY <1>1, <2>2, <3>1
  <2> QED BY <2>1, <2>2
<1>3. Fresh' => Fresh
  BY <1>2 DEF Fresh
<1>4. Fresh' => rpc' \notin {"store", "queue"}
  BY <1>3 DEF CreditOrder
<1>5. ASSUME NEW i \in 1..Len(rQueue'), rQueue'[i].t = "max"
      PROVE  /\ rpc' \notin {"none", "opening"} /\ rQueue'[i].max = InitialWindow
             /\ \A j \in 1..Len(rQueue') : rQueue'[j].t = "max" => j = i
  BY <1>2, <1>5 DEF CreditOrder
<1> QED BY <1>1, <1>3, <1>4, <1>5 DEF CreditOrder

(* The order when credits are lost with R's queue or R's wire, or S's       *)
(* inbound task takes another frame.                                        *)
LEMMA CreditCut ==
    ASSUME TypeOK, CreditOrder, UNCHANGED <<maxData, granted, rpc>>,
           credit' \in {credit, 0}, rQueue' \in {rQueue, <<>>},
           \/ \E k \in 0..Len(rWire) : rWire' = SubSeq(rWire, 1, k)
           \/ rWire # <<>> /\ rWire' = Tail(rWire)
    PROVE  CreditOrder'
<1>1. Len(rQueue) \in Nat /\ credit \in Nat /\ rWire \in Seq(Ctl) /\ Len(rWire) \in Nat
  BY CreditTypes
<1>2. \E d \in Nat : \A i \in 1..Len(rWire') : i + d \in 1..Len(rWire) /\ rWire'[i] = rWire[i + d]
  <2>1. ASSUME NEW k \in 0..Len(rWire), rWire' = SubSeq(rWire, 1, k)
        PROVE  \A i \in 1..Len(rWire') : i + 0 \in 1..Len(rWire) /\ rWire'[i] = rWire[i + 0]
    <3>1. Len(rWire') = k /\ \A i \in 1..k : rWire'[i] = rWire[i]
      BY <1>1, <2>1, PrefixFacts
    <3> QED BY <1>1, <3>1
  <2>2. ASSUME rWire # <<>>, rWire' = Tail(rWire)
        PROVE  \A i \in 1..Len(rWire') : i + 1 \in 1..Len(rWire) /\ rWire'[i] = rWire[i + 1]
    <3>1. /\ Len(rWire) \in Nat \ {0} /\ Len(rWire') = Len(rWire) - 1
          /\ \A i \in 1..Len(rWire) - 1 : rWire'[i] = rWire[i + 1]
      BY <1>1, <2>2, TailFacts
    <3> QED BY <1>1, <3>1
  <2> QED BY <2>1, <2>2
<1>3. PICK d \in Nat : \A i \in 1..Len(rWire') : i + d \in 1..Len(rWire) /\ rWire'[i] = rWire[i + d]
  BY <1>2
<1>4. Fresh' => Fresh
  BY DEF Fresh
<1>5. ASSUME NEW i \in 1..Len(rQueue'), rQueue'[i].t = "max"
      PROVE  /\ rpc' \notin {"none", "opening"} /\ rQueue'[i].max = InitialWindow
             /\ \A j \in 1..Len(rQueue') : rQueue'[j].t = "max" => j = i
  BY <1>5 DEF CreditOrder
<1>6. ASSUME NEW i \in 1..Len(rWire'), rWire'[i].t = "max"
      PROVE  /\ ~Fresh'
             /\ maxData < rWire'[i].max /\ rWire'[i].max <= granted
             /\ credit' > 0 => rWire'[i].max < credit'
             /\ rpc \in {"store", "queue"} => rWire'[i].max < granted
             /\ \A j \in i + 1..Len(rWire') : rWire'[j].t = "max" => rWire'[i].max < rWire'[j].max
  <2>1. i + d \in 1..Len(rWire) /\ rWire'[i] = rWire[i + d]
    BY <1>3, <1>6
  <2>2. ASSUME NEW j \in i + 1..Len(rWire'), rWire'[j].t = "max"
        PROVE  rWire'[i].max < rWire'[j].max
    <3>1. j \in 1..Len(rWire')
      BY <1>6, <2>2
    <3>2. j + d \in i + d + 1..Len(rWire) /\ rWire'[j] = rWire[j + d]
      BY <1>1, <1>3, <2>2, <3>1
    <3> QED BY <1>6, <2>1, <2>2, <3>2 DEF CreditOrder
  <2> QED BY <1>1, <1>4, <1>6, <2>1, <2>2 DEF CreditOrder
<1>7. Fresh' => maxData' = 0 /\ credit' = 0 /\ rpc' \notin {"store", "queue"}
  BY <1>4 DEF CreditOrder
<1>8. /\ rpc' # "none" => InitialWindow <= granted'
      /\ credit' > 0 => /\ maxData' < credit' /\ credit' <= granted'
                        /\ rpc' \in {"store", "queue"} => credit' < granted'
      /\ rpc' \in {"store", "queue"} => maxData' < granted'
  BY <1>1 DEF CreditOrder
<1> HIDE DEF Fresh
<1> QED BY <1>5, <1>6, <1>7, <1>8 DEF CreditOrder

(* SendInitialCredit puts the only credit of the queue there.               *)
LEMMA InitialCreditOrder ==
    ASSUME IInv, CreditOrder, SendInitialCredit PROVE CreditOrder'
<1>1. /\ TypeOK /\ rpc = "opening" /\ rpc' = "idle" /\ Fresh
      /\ rQueue' = Append(rQueue, MaxStreamData(InitialWindow))
      /\ UNCHANGED <<maxData, granted, credit, rWire>>
  BY DEF IInv, SendInitialCredit, RPush, Fresh, snd, rst
<1>2. MaxStreamData(InitialWindow) \in Ctl
  BY LimitsAssumption DEF MaxStreamData, Ctl
<1>3. /\ Len(rQueue') = Len(rQueue) + 1 /\ Len(rQueue) \in Nat
      /\ \A i \in 1..Len(rQueue) : rQueue'[i] = rQueue[i]
      /\ rQueue'[Len(rQueue) + 1] = MaxStreamData(InitialWindow)
  BY <1>1, <1>2, AppendFacts, CreditTypes
<1>4. \A i \in 1..Len(rQueue) : rQueue[i].t # "max"
  BY <1>1 DEF CreditOrder
<1>5. \A i \in 1..Len(rQueue') : rQueue'[i].t = "max" =>
         i = Len(rQueue) + 1 /\ rQueue'[i].max = InitialWindow
  BY <1>3, <1>4 DEF MaxStreamData
<1> QED BY <1>1, <1>5 DEF CreditOrder

(* HandleOpen starts with nothing granted to the peer.                      *)
LEMMA HandleOpenOrder ==
    ASSUME IInv, CreditOrder, HandleOpen PROVE CreditOrder'
<1>1. /\ rpc' = "opening" /\ granted' = InitialWindow /\ sWire # <<>>
      /\ Head(sWire).t = "open" /\ UNCHANGED <<maxData, credit, rQueue, rWire>>
  BY DEF HandleOpen, RReads, snd
<1>2. Head(sWire) = sWire[1] /\ 1 \in 1..Len(sWire)
  BY <1>1, TailFacts DEF IInv, TypeOK
<1>3. rpc = "none" /\ Fresh
  BY <1>1, <1>2 DEF IInv, OpenInv, Fresh
<1> QED BY <1>1, <1>3, LimitsAssumption DEF CreditOrder

(* The writer puts the first credit on a wire that holds none, or another   *)
(* frame.                                                                   *)
LEMMA RWriteOrder ==
    ASSUME IInv, CreditOrder, RWrite PROVE CreditOrder'
<1>1. /\ TypeOK /\ rQueue # <<>> /\ rQueue \in Seq(Ctl) /\ rWire \in Seq(Ctl)
      /\ UNCHANGED <<maxData, rpc, granted, credit>>
      /\ maxData \in Nat /\ credit \in Nat
  BY DEF IInv, TypeOK, RWrite, snd, rst, rapp
<1> DEFINE c == rQueue[1]
<1>2. /\ Head(rQueue) = c /\ c \in Ctl /\ Len(rQueue) \in Nat \ {0}
      /\ Len(rQueue') = Len(rQueue) - 1
      /\ \A i \in 1..Len(rQueue) - 1 : rQueue'[i] = rQueue[i + 1]
  BY <1>1, TailFacts DEF RWrite
<1>3. /\ Len(rWire') = Len(rWire) + 1 /\ Len(rWire) \in Nat
      /\ \A i \in 1..Len(rWire) : rWire'[i] = rWire[i]
      /\ rWire'[Len(rWire) + 1] = c
  BY <1>1, <1>2, AppendFacts DEF RWrite
<1>4. \A i \in 1..Len(rQueue') : i + 1 \in 1..Len(rQueue) /\ rQueue'[i] = rQueue[i + 1]
  BY <1>2
<1>5. ASSUME NEW i \in 1..Len(rQueue'), rQueue'[i].t = "max"
      PROVE  /\ rpc' \notin {"none", "opening"} /\ rQueue'[i].max = InitialWindow
             /\ \A j \in 1..Len(rQueue') : rQueue'[j].t = "max" => j = i
  <2>1. i + 1 \in 1..Len(rQueue) /\ rQueue[i + 1].t = "max"
    BY <1>4, <1>5
  <2>2. ASSUME NEW j \in 1..Len(rQueue'), rQueue'[j].t = "max" PROVE j = i
    <3>1. j + 1 \in 1..Len(rQueue) /\ rQueue[j + 1].t = "max"
      BY <1>4, <2>2
    <3>2. j + 1 = i + 1
      BY <2>1, <3>1 DEF CreditOrder
    <3> QED BY <1>2, <3>2
  <2> QED BY <1>1, <1>4, <1>5, <2>1, <2>2 DEF CreditOrder
<1>6. Fresh' => Fresh
  BY <1>1, <1>4 DEF Fresh
<1>7. CASE c.t # "max"
  <2>1. \A i \in 1..Len(rWire') : rWire'[i].t = "max" =>
           i \in 1..Len(rWire) /\ rWire'[i] = rWire[i]
    BY <1>3, <1>7
  <2>2. ASSUME NEW i \in 1..Len(rWire'), rWire'[i].t = "max",
               NEW j \in i + 1..Len(rWire'), rWire'[j].t = "max"
        PROVE  rWire'[i].max < rWire'[j].max
    <3>1. i \in 1..Len(rWire) /\ rWire'[i] = rWire[i] /\ rWire'[j] = rWire[j] /\ j \in i + 1..Len(rWire)
      BY <1>3, <2>1, <2>2
    <3> QED BY <2>2, <3>1 DEF CreditOrder
  <2> HIDE DEF Fresh
  <2> QED BY <1>1, <1>5, <1>6, <2>1, <2>2 DEF CreditOrder
<1>8. CASE c.t = "max"
  <2>1. 1 \in 1..Len(rQueue) /\ Fresh
    BY <1>2, <1>8 DEF Fresh
  <2>2. /\ c.max = InitialWindow /\ rpc \notin {"none", "opening"}
        /\ \A j \in 1..Len(rQueue) : rQueue[j].t = "max" => j = 1
    BY <1>8, <2>1 DEF CreditOrder
  <2>3. \A i \in 1..Len(rQueue') : rQueue'[i].t # "max"
    <3> SUFFICES ASSUME NEW i \in 1..Len(rQueue'), rQueue'[i].t = "max" PROVE FALSE
      OBVIOUS
    <3>1. i + 1 \in 1..Len(rQueue) /\ rQueue[i + 1].t = "max"
      BY <1>4
    <3>2. i + 1 = 1
      BY <2>2, <3>1
    <3> QED BY <1>2, <3>2
  <2>4. ~Fresh'
    BY <1>1, <2>2, <2>3 DEF Fresh
  <2>5. \A i \in 1..Len(rWire') : rWire'[i].t = "max" =>
           i = Len(rWire) + 1 /\ rWire'[i].max = InitialWindow
    BY <1>3, <2>1, <2>2 DEF CreditOrder
  <2>6. maxData = 0 /\ credit = 0 /\ rpc \notin {"store", "queue"} /\ InitialWindow <= granted
    BY <2>1, <2>2 DEF CreditOrder
  <2> QED BY <1>1, <1>3, <2>2, <2>3, <2>4, <2>5, <2>6, LimitsAssumption DEF CreditOrder
<1> QED BY <1>7, <1>8

(* A coalesced credit overtakes the queue only when no credit is in it.     *)
LEMMA NextCreditOrder ==
    ASSUME IInv, CreditOrder, NextCredit PROVE CreditOrder'
<1>1. /\ TypeOK /\ credit > 0 /\ credit' = 0 /\ credit \in Nat
      /\ rWire' = Append(rWire, MaxStreamData(credit))
      /\ UNCHANGED <<maxData, rpc, granted, rQueue>>
  BY DEF IInv, TypeOK, NextCredit, snd, rapp
<1>2. MaxStreamData(credit) \in Ctl /\ MaxStreamData(credit).max = credit
  BY <1>1 DEF MaxStreamData, Ctl
<1>3. /\ Len(rWire') = Len(rWire) + 1 /\ Len(rWire) \in Nat
      /\ \A i \in 1..Len(rWire) : rWire'[i] = rWire[i]
      /\ rWire'[Len(rWire) + 1] = MaxStreamData(credit)
  BY <1>1, <1>2, AppendFacts, CreditTypes
<1>4. ~Fresh /\ ~Fresh'
  BY <1>1 DEF Fresh, CreditOrder
<1>5. ASSUME NEW i \in 1..Len(rWire'), rWire'[i].t = "max"
      PROVE  /\ maxData < rWire'[i].max /\ rWire'[i].max <= granted
             /\ rpc \in {"store", "queue"} => rWire'[i].max < granted
             /\ \A j \in i + 1..Len(rWire') : rWire'[j].t = "max" => rWire'[i].max < rWire'[j].max
  <2>1. CASE i = Len(rWire) + 1
    BY <1>1, <1>2, <1>3, <2>1 DEF CreditOrder
  <2>2. CASE i \in 1..Len(rWire)
    <3>1. rWire'[i] = rWire[i] /\ rWire[i].t = "max"
      BY <1>3, <1>5, <2>2
    <3>2. ASSUME NEW j \in i + 1..Len(rWire'), rWire'[j].t = "max"
          PROVE  rWire'[i].max < rWire'[j].max
      <4>1. CASE j = Len(rWire) + 1
        BY <1>1, <1>2, <1>3, <2>2, <3>1, <4>1 DEF CreditOrder
      <4>2. CASE j \in i + 1..Len(rWire)
        <5>1. rWire'[j] = rWire[j]
          BY <1>3, <2>2, <4>2
        <5> QED BY <2>2, <3>1, <3>2, <4>2, <5>1 DEF CreditOrder
      <4> QED BY <1>3, <4>1, <4>2
    <3> QED BY <2>2, <3>1, <3>2 DEF CreditOrder
  <2> QED BY <1>3, <2>1, <2>2
<1> HIDE DEF Fresh
<1> QED BY <1>1, <1>4, <1>5 DEF CreditOrder

(* S takes the lowest credit of the wire.                                   *)
LEMMA HandleMaxOrder ==
    ASSUME IInv, CreditOrder, HandleMaxStreamData PROVE CreditOrder'
<1>1. /\ TypeOK /\ rWire # <<>> /\ Head(rWire).t = "max" /\ rWire' = Tail(rWire)
      /\ UNCHANGED <<rpc, granted, credit, rQueue>>
      /\ maxData' = UpdateMax(Head(rWire).max)
  BY DEF IInv, HandleMaxStreamData, SReads, rst, rapp
<1>2. /\ Len(rWire) \in Nat \ {0} /\ Len(rWire') = Len(rWire) - 1
      /\ \A i \in 1..Len(rWire) - 1 : rWire'[i] = rWire[i + 1]
      /\ Head(rWire) = rWire[1] /\ 1 \in 1..Len(rWire)
  BY <1>1, TailFacts, CreditTypes
<1>3. /\ maxData' \in {maxData, rWire[1].max} /\ maxData \in Nat /\ rWire[1].max \in Nat
      /\ maxData < rWire[1].max /\ maxData' <= rWire[1].max
      /\ credit \in Nat /\ granted \in Nat
  BY <1>1, <1>2, CreditTypes DEF UpdateMax, CreditOrder
<1>4. ~Fresh
  BY <1>1, <1>2 DEF CreditOrder
<1>5. ~Fresh'
  BY <1>1, <1>4 DEF Fresh
<1>6. ASSUME NEW i \in 1..Len(rWire'), rWire'[i].t = "max"
      PROVE  /\ maxData' < rWire'[i].max /\ rWire'[i].max <= granted
             /\ credit > 0 => rWire'[i].max < credit
             /\ rpc \in {"store", "queue"} => rWire'[i].max < granted
             /\ \A j \in i + 1..Len(rWire') : rWire'[j].t = "max" => rWire'[i].max < rWire'[j].max
  <2>1. /\ i + 1 \in 1..Len(rWire) /\ i + 1 \in 1 + 1..Len(rWire) /\ rWire'[i] = rWire[i + 1]
        /\ rWire[i + 1].max \in Nat
    BY <1>1, <1>2, CreditTypes
  <2>2. rWire[1].max < rWire[i + 1].max
    BY <1>1, <1>2, <1>6, <2>1 DEF CreditOrder
  <2>3. ASSUME NEW j \in i + 1..Len(rWire'), rWire'[j].t = "max"
        PROVE  rWire'[i].max < rWire'[j].max
    <3>1. j + 1 \in i + 1 + 1..Len(rWire) /\ rWire'[j] = rWire[j + 1]
      BY <1>2, <2>3
    <3> QED BY <1>6, <2>1, <2>3, <3>1 DEF CreditOrder
  <2>4. /\ rWire[i + 1].max <= granted
        /\ credit > 0 => rWire[i + 1].max < credit
        /\ rpc \in {"store", "queue"} => rWire[i + 1].max < granted
    BY <1>6, <2>1 DEF CreditOrder
  <2> QED BY <1>3, <2>1, <2>2, <2>3, <2>4
<1>7. /\ credit > 0 => /\ maxData' < credit /\ credit <= granted
                       /\ rpc \in {"store", "queue"} => credit < granted
      /\ rpc \in {"store", "queue"} => maxData' < granted
  <2>1. /\ credit > 0 => rWire[1].max < credit
        /\ rpc \in {"store", "queue"} => rWire[1].max < granted
    BY <1>1, <1>2 DEF CreditOrder
  <2>2. credit > 0 => credit <= granted /\ (rpc \in {"store", "queue"} => credit < granted)
    BY DEF CreditOrder
  <2> QED BY <1>3, <2>1, <2>2
<1>8. ASSUME NEW i \in 1..Len(rQueue'), rQueue'[i].t = "max"
      PROVE  /\ rpc' \notin {"none", "opening"} /\ rQueue'[i].max = InitialWindow
             /\ \A j \in 1..Len(rQueue') : rQueue'[j].t = "max" => j = i
  BY <1>1, <1>8 DEF CreditOrder
<1>9. rpc' # "none" => InitialWindow <= granted'
  BY <1>1 DEF CreditOrder
<1> HIDE DEF Fresh
<1> QED BY <1>1, <1>5, <1>6, <1>7, <1>8, <1>9 DEF CreditOrder

(* The credit put in pending_credit replaces a lower one.                   *)
LEMMA QueueCreditOrder ==
    ASSUME IInv, CreditOrder, QueueCredit PROVE CreditOrder'
<1>1. /\ TypeOK /\ rpc = "queue" /\ rpc' = "idle" /\ credit' \in {credit, granted}
      /\ UNCHANGED <<maxData, granted, rQueue, rWire>> /\ ~Fresh
  BY DEF IInv, QueueCredit, snd, net, CreditOrder
<1>2. ~Fresh'
  BY <1>1 DEF Fresh
<1>3. maxData \in Nat /\ granted \in Nat /\ credit \in Nat
      /\ \A i \in 1..Len(rWire) : rWire[i].max \in Nat
  BY <1>1, CreditTypes
<1> HIDE DEF Fresh
<1> QED BY <1>1, <1>2, <1>3 DEF CreditOrder

(* A grant is above every credit announced before.                          *)
LEMMA GrantOrder ==
    ASSUME IInv, PosInv, CreditOrder, rpc = "idle", NEW n \in Nat, NEW fin \in BOOLEAN,
           OnBytesConsumed(n, fin), n > 0 => received > 0,
           UNCHANGED <<maxData, credit, rQueue, rWire>>
    PROVE  CreditOrder'
<1>1. /\ TypeOK /\ maxData <= rMax /\ rMax <= granted /\ rMax \in Nat
      /\ maxData \in Nat /\ granted \in Nat /\ credit \in Nat
      /\ \A i \in 1..Len(rWire) : rWire[i].max \in Nat
  BY CreditTypes DEF IInv, CreditInv, TypeOK
<1>2. CASE UNCHANGED <<granted, rpc>>
  BY <1>1, <1>2, CreditKept
<1>3. CASE n > 0 /\ rpc' = "store" /\ granted' > granted /\ granted' \in Nat
  <2>1. ~Fresh
    BY <1>3, FreshIsEmpty
  <2>2. ~Fresh'
    BY <1>3, <2>1 DEF Fresh
  <2> HIDE DEF Fresh
  <2>3. ASSUME NEW i \in 1..Len(rWire), rWire[i].t = "max" PROVE rWire[i].max < granted'
    BY <1>1, <1>3, <2>3 DEF CreditOrder
  <2>4. /\ credit > 0 => credit < granted'
        /\ maxData < granted' /\ InitialWindow <= granted'
    BY <1>1, <1>3, LimitsAssumption DEF CreditOrder
  <2>5. ASSUME NEW i \in 1..Len(rQueue'), rQueue'[i].t = "max"
        PROVE  /\ rpc' \notin {"none", "opening"} /\ rQueue'[i].max = InitialWindow
               /\ \A j \in 1..Len(rQueue') : rQueue'[j].t = "max" => j = i
    BY <1>3, <2>5 DEF CreditOrder
  <2>6. \A i \in 1..Len(rWire) : rWire[i].t = "max" =>
           /\ rWire[i].max <= granted'
           /\ maxData < rWire[i].max /\ (credit > 0 => rWire[i].max < credit)
           /\ \A j \in i + 1..Len(rWire) : rWire[j].t = "max" => rWire[i].max < rWire[j].max
    BY <1>1, <1>3, <2>3 DEF CreditOrder
  <2>7. credit > 0 => maxData < credit /\ credit <= granted'
    BY <1>1, <1>3, <2>4 DEF CreditOrder
  <2> QED BY <1>3, <2>2, <2>3, <2>4, <2>5, <2>6, <2>7 DEF CreditOrder
<1>4. UNCHANGED <<granted, rpc>> \/ (n > 0 /\ rpc' = "store" /\ granted' > granted /\ granted' \in Nat)
  BY <1>1, LimitsAssumption DEF OnBytesConsumed, Min2, TypeOK
<1> QED BY <1>2, <1>3, <1>4

(* Reading bytes, from what the handle holds or from the next event.        *)
LEMMA ReadOrder ==
    ASSUME IInv, PosInv, CreditOrder, NEW k \in 1..MaxFrame, ReadPending(k) \/ ReadEvent(k)
    PROVE  CreditOrder'
<1>0. TypeOK /\ k \in Nat /\ received \in Nat /\ pend \in Nat \X Nat /\ rfin \in BOOLEAN
  BY LimitsAssumption DEF IInv, TypeOK
<1>1. rpc = "idle" /\ UNCHANGED <<maxData, credit, rQueue, rWire>>
  BY DEF ReadPending, ReadEvent, snd, rst, net
<1>2. CASE ReadPending(k)
  <2>1. PICK n : n = Min2(k, pend[2] - pend[1]) /\ OnBytesConsumed(n, rfin) /\ pend[1] < pend[2]
    BY <1>2 DEF ReadPending
  <2>2. n \in Nat /\ n <= pend[2] - pend[1]
    BY <1>0, <2>1 DEF Min2
  <2>3. pend[2] <= received /\ pend[1] \in Nat /\ pend[2] \in Nat
    BY <1>0, <1>1 DEF PosInv
  <2> QED BY <1>0, <1>1, <2>1, <2>2, <2>3, GrantOrder
<1>3. CASE ReadEvent(k)
  <2>1. PICK n : n = Min2(k, Head(events).hi - Head(events).lo)
                 /\ OnBytesConsumed(n, Head(events).fin) /\ events # <<>>
    BY <1>3 DEF ReadEvent
  <2>2. Head(events) = events[1] /\ events[1] \in Frame /\ 1 \in 1..Len(events)
    BY <1>0, <2>1, TailFacts DEF TypeOK
  <2>3. /\ events[1].lo \in Nat /\ events[1].hi \in Nat /\ events[1].fin \in BOOLEAN
        /\ events[1].lo <= events[1].hi /\ events[1].hi <= received
    BY <1>1, <2>2 DEF Frame, IInv, WindowInv, PosInv
  <2>4. n = Min2(k, events[1].hi - events[1].lo) /\ OnBytesConsumed(n, events[1].fin)
    BY <2>1, <2>2
  <2>5. events[1].hi - events[1].lo \in Nat
    BY <2>3
  <2>6. n \in Nat /\ n <= events[1].hi - events[1].lo
    BY <1>0, <2>4, <2>5 DEF Min2
  <2>7. n > 0 => received > 0
    BY <1>0, <2>3, <2>6
  <2> QED BY <1>1, <2>3, <2>4, <2>6, <2>7, GrantOrder
<1> QED BY <1>2, <1>3

(* CreditOrder is kept by every step, beside IInv and PosInv.               *)
LEMMA CreditStep ==
    ASSUME IInv, PosInv, CreditOrder, [Next]_vars PROVE CreditOrder'
<1>0. TypeOK /\ rWire \in Seq(Ctl) /\ StopSending \in Ctl /\ ConnectionClose \in Ctl
      /\ StopSending.t # "max" /\ ConnectionClose.t # "max"
  BY DEF IInv, TypeOK, StopSending, ConnectionClose, Ctl
<1>1. CASE UNCHANGED creditVars
  BY <1>0, <1>1, CreditKept DEF creditVars
<1>2. CASE StoreMax \/ Stop \/ PublishStop \/ CancelStop
  <2>1. /\ UNCHANGED <<maxData, granted, rWire>> /\ credit' \in {credit, 0}
        /\ rQueue' = rQueue \/ rQueue' = Append(rQueue, StopSending)
        /\ rpc \in {"store", "idle", "stopSend"} /\ rpc' \in {"queue", "idle", "stopSend"}
        /\ rpc' = "queue" => rpc = "store"
    BY <1>2 DEF StoreMax, Stop, PublishStop, CancelStop, StopRecvStream, RPush, snd, rst, net
  <2> QED BY <2>1, <1>0, CreditKept
<1>3. CASE OpenFails \/ DropRecv \/ CancelOpen
  <2>1. /\ UNCHANGED <<maxData, granted, rWire>> /\ credit' \in {credit, 0}
        /\ rQueue' = rQueue \/ rQueue' = Append(rQueue, StopSending)
        /\ rpc \in {"opening", "idle"} /\ rpc' = "dropped"
    BY <1>3 DEF OpenFails, DropRecv, CancelOpen, RecvDropped, StopRecvStream, RPush, snd, net
  <2> QED BY <2>1, <1>0, CreditKept
<1>4. CASE HandleStream \/ Deliver \/ RInboundEnds
  <2>1. /\ UNCHANGED <<maxData, granted, rWire, rpc>> /\ credit' \in {credit, 0}
        /\ rQueue' = rQueue \/ rQueue' = Append(rQueue, ConnectionClose)
    BY <1>4 DEF HandleStream, Deliver, RInboundEnds, ProtocolError, snd, rapp, net
  <2> QED BY <2>1, <1>0, CreditKept
<1>5. CASE HandleStopSending \/ HandleConnectionClose
  <2>1. /\ UNCHANGED <<maxData, granted, rpc, credit, rQueue>>
        /\ rWire # <<>> /\ rWire' = Tail(rWire)
    BY <1>5 DEF HandleStopSending, HandleConnectionClose, SReads, rst, rapp
  <2> QED BY <2>1, <1>0, CreditCut
<1>6. CASE ROutboundEnds
  <2>1. /\ UNCHANGED <<maxData, granted, rpc>> /\ credit' = 0 /\ rQueue' = <<>>
        /\ \E k \in 0..Len(rWire) : rWire' = SubSeq(rWire, 1, k)
    BY <1>6 DEF ROutboundEnds, snd, rapp
  <2> QED BY <2>1, <1>0, CreditCut
<1> QED
  BY <1>1, <1>2, <1>3, <1>4, <1>5, <1>6, OthersKeepCredit, InitialCreditOrder,
     HandleOpenOrder, RWriteOrder, NextCreditOrder, HandleMaxOrder, QueueCreditOrder,
     ReadOrder
  DEF Next, TaskStep, Read, RecvStep, RecvLeave, SInbound, RInbound, REnds

-----------------------------------------------------------------------------
(* The theorems *)

(* The initial states satisfy the inductive invariant.                      *)
LEMMA InitPInv == Init => PInv
<1> SUFFICES ASSUME Init PROVE PInv
  OBVIOUS
<1>1. IInv
  BY InitIInv
<1>2. AskInv /\ FinInv
  BY DEF Init, AskInv, FinInv, FinsOK, FinOK, Open
<1>3. PosInv
  BY DEF Init, PosInv, Contig, Tip
<1>4. CreditOrder
  BY LimitsAssumption DEF Init, CreditOrder, Fresh
<1> QED BY <1>1, <1>2, <1>3, <1>4 DEF PInv

(* Every step preserves the inductive invariant.                            *)
LEMMA NextPInv == PInv /\ [Next]_vars => PInv'
  BY NextIInv, AskStep, FinStep, PosStep, CreditStep DEF PInv

(* PInv is an invariant of the session pair.                                *)
THEOREM PipeInvariant == Spec => []PInv
  BY InitPInv, NextPInv, PTL DEF Spec

(* "Values MUST be monotonic": every MaxStreamData on its way, whether it   *)
(* went through the queue or next_credit, is above S's limit and above all  *)
(* those before it, for every window, threshold and queue size.             *)
THEOREM CreditIsMonotonic == Spec => []CreditMonotonic
<1>1. PInv => CreditMonotonic
  <2> SUFFICES ASSUME PInv PROVE CreditMonotonic
    OBVIOUS
  <2> DEFINE ctl == rWire \o rQueue
  <2>1. /\ rWire \in Seq(Ctl) /\ rQueue \in Seq(Ctl)
        /\ Len(rWire) \in Nat /\ Len(rQueue) \in Nat
    BY CreditTypes DEF PInv, IInv
  <2>2. /\ Len(ctl) = Len(rWire) + Len(rQueue)
        /\ \A i \in 1..Len(ctl) :
              ctl[i] = IF i <= Len(rWire) THEN rWire[i]
                                          ELSE rQueue[i - Len(rWire)]
    BY <2>1
  <2>3. CreditOrder
    BY DEF PInv
  <2>4. ASSUME NEW i \in 1..Len(ctl), ctl[i].t = "max",
               NEW j \in i + 1..Len(ctl), ctl[j].t = "max"
        PROVE  maxData < ctl[i].max /\ ctl[i].max < ctl[j].max
    <3>1. CASE j <= Len(rWire)
      <4>1. i \in 1..Len(rWire) /\ j \in i + 1..Len(rWire) /\ j \in 1..Len(ctl)
        BY <2>1, <2>2, <2>4, <3>1
      <4>2. ctl[i] = rWire[i] /\ ctl[j] = rWire[j]
        BY <2>1, <2>2, <4>1
      <4> QED BY <2>3, <2>4, <4>1, <4>2 DEF CreditOrder
    <3>2. CASE j > Len(rWire)
      <4>1. j - Len(rWire) \in 1..Len(rQueue) /\ j \in 1..Len(ctl)
        BY <2>1, <2>2, <2>4, <3>2
      <4>2. ctl[j] = rQueue[j - Len(rWire)]
        BY <2>1, <2>2, <3>2, <4>1
      <4>3. Fresh
        BY <2>4, <4>1, <4>2 DEF Fresh
      <4>4. CASE i <= Len(rWire)
        <5>1. i \in 1..Len(rWire) /\ ctl[i] = rWire[i]
          BY <2>1, <2>2, <4>4
        <5> QED BY <2>3, <2>4, <4>3, <5>1 DEF CreditOrder
      <4>5. CASE i > Len(rWire)
        <5>1. i - Len(rWire) \in 1..Len(rQueue) /\ ctl[i] = rQueue[i - Len(rWire)]
          BY <2>1, <2>2, <4>5
        <5>2. i - Len(rWire) = j - Len(rWire)
          BY <2>3, <2>4, <4>1, <4>2, <5>1 DEF CreditOrder
        <5> QED BY <2>1, <2>2, <2>4, <5>2
      <4> QED BY <2>1, <2>2, <4>4, <4>5
    <3> QED BY <2>1, <2>2, <3>1, <3>2
  <2>5. ASSUME NEW i \in 1..Len(ctl), ctl[i].t = "max" PROVE maxData < ctl[i].max
    <3>1. CASE i <= Len(rWire)
      <4>1. i \in 1..Len(rWire) /\ ctl[i] = rWire[i]
        BY <2>1, <2>2, <3>1
      <4> QED BY <2>3, <2>5, <4>1 DEF CreditOrder
    <3>2. CASE i > Len(rWire)
      <4>1. i - Len(rWire) \in 1..Len(rQueue) /\ ctl[i] = rQueue[i - Len(rWire)]
        BY <2>1, <2>2, <3>2
      <4>2. Fresh /\ ctl[i].max = InitialWindow
        BY <2>3, <2>5, <4>1 DEF CreditOrder, Fresh
      <4> QED BY <2>3, <4>2, LimitsAssumption DEF CreditOrder
    <3> QED BY <2>1, <2>2, <3>1, <3>2
  <2> HIDE DEF ctl
  <2>6. \A i \in 1..Len(ctl) : ctl[i].t = "max" =>
           /\ maxData < ctl[i].max
           /\ \A j \in i + 1..Len(ctl) : ctl[j].t = "max" => ctl[i].max < ctl[j].max
    BY <2>4, <2>5
  <2> QED BY <2>6 DEF CreditMonotonic, ctl
<1> QED BY <1>1, PipeInvariant, PTL

(* The byte the reader is handed next is the one after those it had.        *)
LEMMA NextByteIsConsumed == PInv => NextByte = consumed
  BY DEF PInv, IInv, TypeOK, PosInv, NextByte

(* The same of the state after a step.                                      *)
LEMMA NextByteIsConsumedNext == PInv' => NextByte' = consumed'
<1> SUFFICES ASSUME PInv' PROVE NextByte' = consumed'
  OBVIOUS
<1>1. (pend \in Nat \X Nat)' /\ PosInv'
  BY DEF PInv, IInv, TypeOK
<1>2. pend'[1] \in Nat /\ pend'[2] \in Nat
  BY <1>1
<1> QED BY <1>1, <1>2 DEF PosInv, NextByte

(* A step that moves nothing the two applications can see.                  *)
LEMMA PipeStutters ==
    ASSUME PInv, PInv',
           UNCHANGED <<asked, finished, consumed, sawFin, rfin>>,
           rpc' = "dropped" <=> rpc = "dropped"
    PROVE  UNCHANGED Pipe!vars
<1>1. NextByte' = NextByte
  <2>1. NextByte = consumed
    BY NextByteIsConsumed
  <2>2. NextByte' = consumed'
    BY NextByteIsConsumedNext
  <2> QED BY <2>1, <2>2
<1>2. ToldEnd' = ToldEnd
  BY DEF ToldEnd
<1> QED BY <1>1, <1>2 DEF Pipe!vars

(* The reader's handle goes away: the pipe is cut, unless its end was told. *)
LEMMA DropIsCut ==
    ASSUME PInv, PInv', rpc # "dropped", rpc' = "dropped",
           UNCHANGED <<asked, finished, consumed, sawFin, rfin>>
    PROVE  Pipe!Cut \/ UNCHANGED Pipe!vars
<1>1. NextByte' = NextByte
  <2>1. NextByte = consumed
    BY NextByteIsConsumed
  <2>2. NextByte' = consumed'
    BY DEF NextByte
  <2> QED BY <2>1, <2>2
<1>2. CASE sawFin \/ rfin
  BY <1>1, <1>2 DEF ToldEnd, Pipe!vars
<1>3. CASE ~sawFin /\ ~rfin
  BY <1>1, <1>3 DEF ToldEnd, Pipe!Cut
<1> QED BY <1>2, <1>3

(* A read of pending bytes hands over the next ones that were written.      *)
LEMMA ReadPendingIsGet ==
    ASSUME PInv, PInv', NEW k \in 1..MaxFrame, ReadPending(k) PROVE Pipe!Get
<1>1. /\ IInv /\ PosInv /\ AskInv /\ TypeOK /\ k \in Nat \ {0}
      /\ pend \in Nat \X Nat /\ rfin \in BOOLEAN /\ sawFin \in BOOLEAN
      /\ received \in Nat /\ written \in Nat /\ grant \in Nat /\ asked \in Nat
      /\ consumed \in Nat
  BY LimitsAssumption DEF PInv, IInv, TypeOK
<1>2. /\ rpc = "idle" /\ pend[1] < pend[2] /\ pend[1] \in Nat /\ pend[2] \in Nat
      /\ UNCHANGED <<rfin, sawFin, asked, finished>>
  BY <1>1 DEF ReadPending, snd
<1>3. PICK n : n = Min2(k, pend[2] - pend[1]) /\ OnBytesConsumed(n, rfin)
  BY DEF ReadPending
<1>4. n \in Nat \ {0} /\ n <= pend[2] - pend[1]
  BY <1>1, <1>2, <1>3 DEF Min2
<1>5. consumed' = consumed + n /\ rpc' \in {"idle", "store"}
  BY <1>1, <1>2, <1>3, <1>4, ConsumedFacts
<1>6. pend[1] = consumed /\ pend[2] <= received /\ received <= written /\ ~rfin /\ ~sawFin
  BY <1>1, <1>2 DEF PosInv
<1>7. written <= asked
  BY <1>1 DEF AskInv
<1>8. consumed' \in consumed + 1..asked
  BY <1>1, <1>2, <1>4, <1>5, <1>6, <1>7
<1>9. ToldEnd = "open" /\ ToldEnd' = "open"
  BY <1>2, <1>5, <1>6 DEF ToldEnd
<1>10. NextByte' = consumed'
  BY NextByteIsConsumedNext
<1> QED BY <1>2, <1>8, <1>9, <1>10 DEF Pipe!Get

(* A read of an event hands over the next bytes, or the FIN behind them.    *)
LEMMA ReadEventIsGet ==
    ASSUME PInv, PInv', NEW k \in 1..MaxFrame, ReadEvent(k)
    PROVE  Pipe!Get \/ Pipe!Complete \/ UNCHANGED Pipe!vars
<1>1. /\ IInv /\ PosInv /\ AskInv /\ TypeOK /\ FinInv /\ k \in Nat \ {0}
      /\ pend \in Nat \X Nat /\ rfin \in BOOLEAN /\ sawFin \in BOOLEAN
      /\ received \in Nat /\ written \in Nat /\ grant \in Nat /\ asked \in Nat
      /\ consumed \in Nat /\ events \in Seq(Frame)
  BY LimitsAssumption DEF PInv, IInv, TypeOK
<1>2. /\ rpc = "idle" /\ pend[1] = pend[2] /\ events # <<>> /\ ~rfin
      /\ UNCHANGED <<asked, finished>>
  BY DEF ReadEvent, snd
<1> DEFINE e == events[1]
<1>3. Head(events) = e /\ e \in Frame /\ 1 \in 1..Len(events)
  BY <1>1, <1>2, TailFacts
<1>4. /\ e.lo \in Nat /\ e.hi \in Nat /\ e.fin \in BOOLEAN
      /\ e.lo <= e.hi /\ e.hi <= received /\ e.lo = consumed /\ ~sawFin
  BY <1>1, <1>2, <1>3 DEF Frame, IInv, WindowInv, PosInv
<1>5. e.fin => finished /\ e.lo = e.hi /\ e.hi = asked
  BY <1>1, <1>3 DEF FinInv, FinsOK, FinOK
<1>6. PICK n : /\ n = Min2(k, e.hi - e.lo) /\ OnBytesConsumed(n, e.fin)
               /\ rfin' = e.fin /\ sawFin' = (sawFin \/ e.fin)
  BY <1>3 DEF ReadEvent
<1> HIDE DEF e
<1>a. e.hi - e.lo \in Nat
  BY <1>4
<1>7. n \in Nat /\ n <= e.hi - e.lo
  BY <1>1, <1>a, <1>6 DEF Min2
<1>8. consumed' = consumed + n /\ rpc' \in {"idle", "store"}
  BY <1>1, <1>2, <1>4, <1>6, <1>7, ConsumedFacts
<1>9. NextByte' = consumed' /\ NextByte = consumed
  BY NextByteIsConsumed, NextByteIsConsumedNext
<1>10. ToldEnd = "open"
  BY <1>2, <1>4 DEF ToldEnd
<1>11. CASE e.fin
  <2>1. n = 0 /\ consumed = asked /\ finished
    BY <1>4, <1>5, <1>7, <1>11
  <2>2. ToldEnd' = "complete"
    BY <1>6, <1>11 DEF ToldEnd
  <2> QED BY <1>1, <1>2, <1>8, <1>9, <1>10, <2>1, <2>2 DEF Pipe!Complete
<1>12. CASE ~e.fin
  <2>1. ToldEnd' = "open"
    BY <1>4, <1>6, <1>8, <1>12 DEF ToldEnd
  <2>2. CASE n = 0
    BY <1>1, <1>2, <1>8, <1>9, <1>10, <2>1, <2>2 DEF Pipe!vars
  <2>3. CASE n > 0
    <3>1. received <= written /\ written <= asked
      BY <1>1 DEF PosInv, AskInv
    <3>2. /\ received \in Nat /\ written \in Nat /\ asked \in Nat /\ consumed \in Nat
          /\ e.hi \in Nat /\ e.hi <= received /\ e.lo = consumed
      BY <1>1, <1>4
    <3>a. n <= e.hi - consumed
      BY <1>7, <3>2
    <3>b. consumed + n <= e.hi /\ e.hi <= asked
      BY <1>7, <3>1, <3>2, <3>a
    <3>3. consumed' \in consumed + 1..asked
      BY <1>7, <1>8, <2>3, <3>2, <3>b
    <3> QED BY <1>2, <1>9, <1>10, <2>1, <3>3 DEF Pipe!Get
  <2> QED BY <1>7, <2>2, <2>3
<1> QED BY <1>4, <1>11, <1>12

(* Every step of the session pair is a step of the pipe or none.            *)
LEMMA StepIsPipeStep ==
    ASSUME PInv, PInv', [Next]_vars PROVE [Pipe!Next]_(Pipe!vars)
<1> USE DEF Pipe!Next
<1>1. CASE \E n \in 1..TotalBytes : WriteBuf(n)
  <2>1. /\ asked' > asked /\ ~finished
        /\ UNCHANGED <<finished, consumed, sawFin, rfin, rpc>>
    BY <1>1, LimitsAssumption DEF WriteBuf, rapp, PInv, IInv, TypeOK
  <2>2. NextByte' = NextByte
    BY <2>1, NextByteIsConsumed, NextByteIsConsumedNext
  <2>3. ToldEnd' = ToldEnd
    BY <2>1 DEF ToldEnd
  <2> QED BY <2>1, <2>2, <2>3 DEF Pipe!Put
<1>2. CASE Finish \/ Reset
  <2>1. finished' = TRUE /\ UNCHANGED <<asked, consumed, sawFin, rfin, rpc>>
    BY <1>2 DEF Finish, Reset, rapp
  <2>2. NextByte' = NextByte
    BY <2>1, NextByteIsConsumed, NextByteIsConsumedNext
  <2>3. ToldEnd' = ToldEnd
    BY <2>1 DEF ToldEnd
  <2> QED BY <2>1, <2>2, <2>3 DEF Pipe!Close
<1>3. CASE \E k \in 1..MaxFrame : ReadPending(k)
  BY <1>3, ReadPendingIsGet
<1>4. CASE \E k \in 1..MaxFrame : ReadEvent(k)
  BY <1>4, ReadEventIsGet
<1>5. CASE ReadClosed
  <2>1. /\ rpc = "idle" /\ ~rfin /\ rfin' = TRUE
        /\ UNCHANGED <<asked, finished, consumed, sawFin, rpc>>
    BY <1>5 DEF ReadClosed, snd
  <2>2. ~sawFin
    BY <2>1 DEF PInv, PosInv
  <2>3. NextByte' = NextByte
    BY <2>1, NextByteIsConsumed, NextByteIsConsumedNext
  <2>4. ToldEnd = "open" /\ ToldEnd' = "cut"
    BY <2>1, <2>2 DEF ToldEnd
  <2> QED BY <2>1, <2>3, <2>4 DEF Pipe!Cut
<1>6. CASE OpenFails \/ DropRecv \/ CancelOpen
  <2>1. /\ rpc # "dropped" /\ rpc' = "dropped"
        /\ UNCHANGED <<asked, finished, consumed, sawFin, rfin>>
    BY <1>6 DEF OpenFails, DropRecv, CancelOpen, RecvDropped, snd
  <2> QED BY <2>1, DropIsCut
<1>7. CASE SendStep \/ SendLeave
  <2>1. UNCHANGED <<asked, finished, consumed, sawFin, rfin, rpc>>
    BY <1>7 DEF SendStep, SendLeave, Reserve, Publish, Release, PublishFin, FinRemove,
       PublishReset, CancelSend, DropSend, rapp
  <2> QED BY <2>1, PipeStutters
<1>8. CASE StoreMax \/ QueueCredit \/ PublishStop \/ SendInitialCredit \/ Stop \/ CancelStop
  <2>1. /\ UNCHANGED <<asked, finished, consumed, sawFin, rfin>>
        /\ rpc # "dropped" /\ rpc' # "dropped"
    BY <1>8 DEF StoreMax, QueueCredit, PublishStop, SendInitialCredit, Stop, CancelStop, snd
  <2> QED BY <2>1, PipeStutters
<1>9. CASE SInbound \/ SEnds \/ SWrite \/ RWrite \/ NextCredit
  <2>1. UNCHANGED <<asked, finished, consumed, sawFin, rfin, rpc>>
    BY <1>9 DEF SInbound, HandleMaxStreamData, HandleStopSending, AckStop,
       HandleConnectionClose, SEnds, SInboundEnds, SOutboundEnds, SWrite, RWrite,
       NextCredit, snd, rapp
  <2> QED BY <2>1, PipeStutters
<1>10. CASE HandleOpen
  <2>1. /\ UNCHANGED <<asked, finished, consumed, sawFin, rfin>> /\ rpc' = "opening"
        /\ sWire # <<>> /\ Head(sWire).t = "open"
    BY <1>10 DEF HandleOpen, RReads, snd
  <2>2. Head(sWire) = sWire[1] /\ 1 \in 1..Len(sWire)
    BY <2>1, TailFacts DEF PInv, IInv, TypeOK
  <2>3. rpc = "none"
    BY <2>1, <2>2 DEF PInv, IInv, OpenInv
  <2> QED BY <2>1, <2>3, PipeStutters
<1>11. CASE HandleStream \/ Deliver \/ Retire \/ HandleReset \/ REnds
  <2>1. UNCHANGED <<asked, finished, consumed, sawFin, rfin, rpc>>
    BY <1>11 DEF HandleStream, Deliver, Retire, HandleReset, REnds, RInboundEnds,
       ROutboundEnds, snd, rapp
  <2> QED BY <2>1, PipeStutters
<1>12. CASE SShutdown \/ RShutdown \/ TransportFails \/ UNCHANGED vars
  <2>1. UNCHANGED <<asked, finished, consumed, sawFin, rfin, rpc>>
    BY <1>12 DEF SShutdown, RShutdown, TransportFails, vars, snd, rapp
  <2> QED BY <2>1, PipeStutters
<1> QED
  BY <1>1, <1>2, <1>3, <1>4, <1>5, <1>6, <1>7, <1>8, <1>9, <1>10, <1>11, <1>12
  DEF Next, TaskStep, SendCall, Read, RecvStep, RecvLeave, RInbound

(* The two sessions implement the pipe of ByteStream: write_buf is Put,     *)
(* read is Get, the FIN event Complete, for every value of the constants.   *)
THEOREM ImplementsByteStream == Spec => IsByteStream
<1>1. Init => Pipe!Init
  BY LimitsAssumption DEF Init, Pipe!Init, NextByte, ToldEnd
<1>2. PInv /\ PInv' /\ [Next]_vars => [Pipe!Next]_(Pipe!vars)
  BY StepIsPipeStep
<1> QED BY <1>1, <1>2, PipeInvariant, PTL DEF Spec, IsByteStream, Pipe!Spec

=============================================================================
