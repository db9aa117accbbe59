--------------------------- MODULE MuxOpenProofs ---------------------------
(* Proofs about the stream tables of MuxOpen, for every set of opener tasks,*)
(* limit of open streams and length of the accept queues.                   *)
EXTENDS MuxOpen, FiniteSetTheorems, TLAPS

Reasons == {"none", "aborted", "slots", "monotonic", "limit", "accept", "unknown"}
Opener  == [at : Ends, dir : Dirs, k : Nat]
IdSets  == [Ends -> SUBSET StreamId]

TableType ==
    /\ nextId \in [Ends -> [Dirs -> Nat]] /\ nextPeer \in [Ends -> [Dirs -> Nat]]
    /\ flows \in IdSets /\ streams \in IdSets /\ stopped \in IdSets /\ pending \in IdSets
    /\ accept \in [Ends -> [Dirs -> Seq(StreamId)]]
    /\ \A e \in Ends : IsFiniteSet(streams[e])
AppType ==
    /\ DOMAIN opening \subseteq Opener /\ opening \in [DOMAIN opening -> StreamId]
    /\ sends \in IdSets /\ recvs \in IdSets
    /\ finning \in IdSets /\ resetting \in IdSets
NetType == inbound \in IdSets /\ net \in [Ends -> Seq(Frame)]
TypeOK  == setup \in Setups /\ TableType /\ AppType /\ NetType

(* The ids an endpoint may send on, and those it may receive on.            *)
Sender(e, id)   == id.by = e \/ id.dir = "bi"
Receiver(e, id) == id.by # e \/ id.dir = "bi"

(* e has allocated the id, or has read its OPEN.                            *)
Here(e, id) == IF id.by = e THEN id.n < nextId[e][id.dir]
                            ELSE id.n < nextPeer[e][id.dir]

(* A frame of this type and id is among the first k of the queue.           *)
Has(q, t, id, k) == \E j \in 1..k : q[j].t = t /\ q[j].id = id
In(e, t, id)     == Has(net[e], t, id, Len(net[e]))

(* A task has registered the id and not published its OPEN.                 *)
Claimed(id) == \E o \in DOMAIN opening : opening[o] = id

(* The peer has read the OPEN, or it is among the first k frames.           *)
Announced(e, id, k) ==
    id.by = e => id.n < nextPeer[Peer(e)][id.dir] \/ Has(net[e], "open", id, k)

(* What an endpoint may still send a terminal frame for.                    *)
Sending(e) == sends[e] \cup finning[e] \cup resetting[e] \cup inbound[e]

(* Every id in the tables of e is one of e's directions, and known to e.    *)
IdInv(e) ==
    /\ \A d \in Dirs : nextPeer[e][d] <= nextId[Peer(e)][d]
    /\ \A id \in flows[e] \cup Sending(e) : Sender(e, id) /\ Here(e, id)
    /\ \A id \in streams[e] \cup recvs[e] : Receiver(e, id) /\ Here(e, id)

(* So is every id in the frames e has sent; whatever is not an OPEN comes   *)
(* behind the OPEN of its id.                                               *)
FrameInv(e) ==
    \A i \in 1..Len(net[e]) :
       /\ Here(e, net[e][i].id)
       /\ net[e][i].t = "open" => net[e][i].id.by = e
       /\ net[e][i].t \in {"fin", "reset"} => Sender(e, net[e][i].id)
       /\ net[e][i].t = "stop" => Receiver(e, net[e][i].id)
       /\ net[e][i].t # "open" => Announced(e, net[e][i].id, i - 1)

(* A stream that waits to be accepted was not finished.                     *)
AcceptInv(e) ==
    \A d \in Dirs : \A i \in 1..Len(accept[e][d]) :
       /\ accept[e][d][i].by = Peer(e) /\ accept[e][d][i].dir = d
       /\ Here(e, accept[e][d][i])
       /\ accept[e][d][i] \notin sends[e] \cup finning[e] /\ ~In(e, "fin", accept[e][d][i])
       /\ \A j \in 1..Len(accept[e][d]) : accept[e][d][j] = accept[e][d][i] => j = i

(* Nobody but the opener has heard of an id whose OPEN is not published.    *)
Unheard(e, id) ==
    /\ id \notin Sending(e) \cup recvs[e]
    /\ \A d \in Dirs : \A i \in 1..Len(accept[e][d]) : accept[e][d][i] # id
    /\ \A i \in 1..Len(net[e]) : net[e][i].id # id
OpeningInv ==
    \A o \in DOMAIN opening :
       /\ opening[o].by = o.at /\ opening[o].dir = o.dir /\ Here(o.at, opening[o])
       /\ opening[o] \in flows[o.at]
       /\ o.dir = "bi" => opening[o] \in streams[o.at]
       /\ opening[o] \notin flows[Peer(o.at)] \cup streams[Peer(o.at)]
       /\ \A e \in Ends : Unheard(e, opening[o])
       /\ \A q \in DOMAIN opening : opening[q] = opening[o] => q = o

AnnounceInv(e) ==
    /\ \A id \in Sending(e) \cup recvs[e] : Announced(e, id, Len(net[e]))
    /\ \A id \in flows[e] : Announced(e, id, Len(net[e])) \/ Claimed(id)

(* The terminal frames of a direction: at most one FIN, with no RESET ahead *)
(* of it and an entry to end at the peer.                                   *)
FinalInv(e) ==
    /\ \A id \in sends[e] : id \notin finning[e] /\ ~In(e, "fin", id)
    /\ \A id \in flows[e] :
          /\ id \notin resetting[e] \cup inbound[e] /\ ~In(e, "reset", id)
          /\ In(e, "fin", id) => id \in finning[e]
    /\ \A i \in 1..Len(net[e]) : net[e][i].t = "fin" =>
          /\ \/ net[e][i].id \in streams[Peer(e)]
             \/ Has(net[e], "open", net[e][i].id, i - 1)
          /\ ~Has(net[e], "fin", net[e][i].id, i - 1)
          /\ ~Has(net[e], "reset", net[e][i].id, i - 1)
    /\ \A id \in finning[e] :
          \/ In(e, "fin", id)
          \/ /\ id \notin streams[Peer(e)]
             /\ id.by = e => id.n < nextPeer[Peer(e)][id.dir]

(* The sender of a direction has it, or its terminal frame is on its way.   *)
Kept(e, id) == \/ id \in flows[e] \cup resetting[e] \cup inbound[e]
               \/ In(e, "fin", id) \/ In(e, "reset", id)

PairInv(e) ==
    /\ \A id \in streams[Peer(e)] :
          \/ Kept(e, id)
          \/ id.by = Peer(e) /\ (Claimed(id) \/ In(Peer(e), "open", id))
    /\ \A id \in flows[e] \ finning[e] :
          \/ id \in streams[Peer(e)]
          \/ (id.by = e /\ (Claimed(id) \/ In(e, "open", id)))
    /\ \A id \in StreamId :
          In(e, "open", id) /\ id.n >= nextPeer[Peer(e)][id.dir] =>
             Kept(e, id) /\ (id.dir = "bi" => id \in streams[e])

Part(e) == /\ IdInv(e) /\ FrameInv(e) /\ AcceptInv(e) /\ AnnounceInv(e)
           /\ FinalInv(e) /\ PairInv(e)

Core == TypeOK /\ OpeningInv /\ \A e \in Ends : Part(e)

(* A session that ended takes no further step.                              *)
IInv == /\ err \in [Ends -> Reasons] /\ TerminalsMayCross /\ SlotsSuffice
        /\ BothUp => Core

-----------------------------------------------------------------------------
(* The two endpoints and their queues *)

(* There are two endpoints, each the peer of the other.                     *)
LEMMA PeerFacts ==
    ASSUME NEW e \in Ends
    PROVE  /\ Peer(e) \in Ends /\ Peer(e) # e /\ Peer(Peer(e)) = e
           /\ \A x \in Ends : x = e \/ x = Peer(e)
  BY DEF Ends, Peer

(* What is in a queue after a frame joined it.                              *)
LEMMA HasAppend ==
    ASSUME NEW q \in Seq(Frame), NEW f \in Frame
    PROVE  /\ Append(q, f) \in Seq(Frame) /\ Len(q) \in Nat
           /\ Len(Append(q, f)) = Len(q) + 1 /\ Append(q, f)[Len(q) + 1] = f
           /\ \A i \in 1..Len(q) : Append(q, f)[i] = q[i]
           /\ \A t, id : \A k \in 0..Len(q) :
                 Has(Append(q, f), t, id, k) <=> Has(q, t, id, k)
           /\ \A t, id : Has(Append(q, f), t, id, Len(q) + 1) <=>
                 Has(q, t, id, Len(q)) \/ (f.t = t /\ f.id = id)
<1>1. /\ Append(q, f) \in Seq(Frame) /\ Len(q) \in Nat
      /\ Len(Append(q, f)) = Len(q) + 1 /\ Append(q, f)[Len(q) + 1] = f
      /\ \A i \in 1..Len(q) : Append(q, f)[i] = q[i]
  OBVIOUS
<1>2. ASSUME NEW t, NEW id, NEW k \in 0..Len(q)
      PROVE  Has(Append(q, f), t, id, k) <=> Has(q, t, id, k)
  <2>1. \A j \in 1..k : Append(q, f)[j] = q[j]
    BY <1>1
  <2> QED BY <2>1 DEF Has
<1>3. ASSUME NEW t, NEW id
      PROVE  Has(Append(q, f), t, id, Len(q) + 1) <=>
                Has(q, t, id, Len(q)) \/ (f.t = t /\ f.id = id)
  BY <1>1 DEF Has
<1> QED BY <1>1, <1>2, <1>3

(* What is in a queue before its first frame is taken.                      *)
LEMMA HasTail ==
    ASSUME NEW q \in Seq(Frame), q # <<>>
    PROVE  /\ Tail(q) \in Seq(Frame) /\ Len(q) \in Nat \ {0}
           /\ Len(Tail(q)) = Len(q) - 1 /\ Head(q) = q[1] /\ q[1] \in Frame
           /\ \A i \in 1..Len(Tail(q)) : i + 1 \in 1..Len(q) /\ Tail(q)[i] = q[i + 1]
           /\ \A t, id : \A k \in 0..Len(Tail(q)) : Has(q, t, id, k + 1) <=>
                 Has(Tail(q), t, id, k) \/ (q[1].t = t /\ q[1].id = id)
<1>1. /\ Tail(q) \in Seq(Frame) /\ Len(q) \in Nat \ {0}
      /\ Len(Tail(q)) = Len(q) - 1 /\ Head(q) = q[1] /\ q[1] \in Frame
      /\ \A i \in 1..Len(q) - 1 : Tail(q)[i] = q[i + 1]
  OBVIOUS
<1>2. \A i \in 1..Len(Tail(q)) : i + 1 \in 1..Len(q) /\ Tail(q)[i] = q[i + 1]
  BY <1>1
<1>3. ASSUME NEW t, NEW id, NEW k \in 0..Len(Tail(q))
      PROVE  Has(q, t, id, k + 1) <=> Has(Tail(q), t, id, k) \/ (q[1].t = t /\ q[1].id = id)
  <2>1. ASSUME NEW j \in 1..k + 1, q[j].t = t, q[j].id = id, j # 1
        PROVE  Has(Tail(q), t, id, k)
    <3>1. j - 1 \in 1..k /\ j - 1 \in 1..Len(Tail(q)) /\ j - 1 + 1 = j
      BY <1>1, <2>1
    <3>2. Tail(q)[j - 1] = q[j]
      BY <1>2, <3>1
    <3> QED BY <2>1, <3>1, <3>2 DEF Has
  <2>2. ASSUME NEW j \in 1..k, Tail(q)[j].t = t, Tail(q)[j].id = id
        PROVE  Has(q, t, id, k + 1)
    <3>1. j \in 1..Len(Tail(q)) /\ j + 1 \in 1..k + 1
      BY <1>1
    <3> QED BY <1>2, <2>2, <3>1 DEF Has
  <2>3. 1 \in 1..k + 1
    BY <1>1
  <2> QED BY <2>1, <2>2, <2>3 DEF Has
<1> QED BY <1>1, <1>2, <1>3

-----------------------------------------------------------------------------
(* The end that does not move *)

(* Nothing in the tables and the handles of x changes.                      *)
Untouched(x) ==
    /\ nextId'[x] = nextId[x] /\ nextPeer'[x] = nextPeer[x]
    /\ flows'[x] = flows[x] /\ streams'[x] = streams[x] /\ accept'[x] = accept[x]
    /\ sends'[x] = sends[x] /\ recvs'[x] = recvs[x] /\ finning'[x] = finning[x]
    /\ resetting'[x] = resetting[x] /\ inbound'[x] = inbound[x]

(* A step of e that reads no frame keeps what holds at its peer, if e keeps *)
(* its receive entries and adds one only for an OPEN it is about to send.   *)
LEMMA PeerSide ==
    ASSUME TypeOK, TypeOK', NEW e \in Ends, Part(Peer(e)),
           Untouched(Peer(e)), net'[Peer(e)] = net[Peer(e)], nextPeer'[e] = nextPeer[e],
           \A d \in Dirs : nextId[e][d] <= nextId'[e][d],
           streams[e] \subseteq streams'[e],
           \A id \in streams'[e] \ streams[e] :
              id.by = e /\ Claimed(id)' /\ id \notin finning[Peer(e)],
           \A id : id.by = Peer(e) /\ Claimed(id) => Claimed(id)',
           \A id : id.by = e /\ (Claimed(id) \/ In(e, "open", id)) =>
                      Claimed(id)' \/ In(e, "open", id)'
    PROVE  Part(Peer(e))'
<1> DEFINE p == Peer(e)
<1>p. p \in Ends /\ p # e /\ Peer(p) = e /\ Peer(e) = p
  BY PeerFacts
<1> HIDE DEF p
<1>1. /\ \A id : Here(p, id)' <=> Here(p, id)
      /\ \A id, k : Announced(p, id, k)' <=> Announced(p, id, k)
      /\ \A t, id : In(p, t, id)' <=> In(p, t, id)
      /\ Sending(p)' = Sending(p)
  BY <1>p DEF Here, Announced, In, Untouched, Sending
<1>2. \A id : Kept(p, id)' <=> Kept(p, id)
  BY <1>p, <1>1 DEF Kept, Untouched
<1>3. IdInv(p)'
  <2>1. \A d \in Dirs : nextPeer'[p][d] <= nextId'[e][d]
    <3> TAKE d \in Dirs
    <3>1. nextPeer[p][d] <= nextId[e][d] /\ nextId[e][d] <= nextId'[e][d]
      BY <1>p DEF Part, IdInv
    <3>2. nextPeer'[p][d] = nextPeer[p][d]
      BY <1>p DEF Untouched
    <3>3. nextPeer[p][d] \in Nat /\ nextId[e][d] \in Nat /\ nextId'[e][d] \in Nat
      BY <1>p DEF TypeOK, TableType
    <3> QED BY <3>1, <3>2, <3>3
  <2> QED BY <1>p, <1>1, <2>1 DEF Part, IdInv, Untouched
<1>4. FrameInv(p)'
  BY <1>p, <1>1 DEF Part, FrameInv
<1>5. AcceptInv(p)'
  BY <1>p, <1>1 DEF Part, AcceptInv, Untouched
<1>6. AnnounceInv(p)'
  <2>1. \A id \in flows[p] : Announced(p, id, Len(net[p]))' \/ Claimed(id)'
    BY <1>p, <1>1 DEF Part, AnnounceInv, Announced
  <2> QED BY <1>p, <1>1, <2>1 DEF Part, AnnounceInv, Untouched
<1>7. FinalInv(p)'
  <2>1. /\ \A id \in sends'[p] : id \notin finning'[p] /\ ~In(p, "fin", id)'
        /\ \A id \in flows'[p] :
              /\ id \notin resetting'[p] \cup inbound'[p] /\ ~In(p, "reset", id)'
              /\ In(p, "fin", id)' => id \in finning'[p]
    BY <1>p, <1>1 DEF Part, FinalInv, Untouched
  <2>2. \A i \in 1..Len(net'[p]) : net'[p][i].t = "fin" =>
          /\ \/ net'[p][i].id \in streams'[e]
             \/ Has(net'[p], "open", net'[p][i].id, i - 1)
          /\ ~Has(net'[p], "fin", net'[p][i].id, i - 1)
          /\ ~Has(net'[p], "reset", net'[p][i].id, i - 1)
    BY <1>p, <1>1 DEF Part, FinalInv
  <2>3. \A id \in finning'[p] :
          \/ In(p, "fin", id)'
          \/ /\ id \notin streams'[e]
             /\ id.by = p => id.n < nextPeer'[e][id.dir]
    BY <1>p, <1>1 DEF Part, FinalInv, Untouched
  <2> QED BY <1>p, <2>1, <2>2, <2>3 DEF FinalInv
<1>8. PairInv(p)'
  <2>0. /\ \A id \in streams[e] :
              Kept(p, id) \/ (id.by = e /\ (Claimed(id) \/ In(e, "open", id)))
        /\ \A id \in flows[p] \ finning[p] :
              id \in streams[e] \/ (id.by = p /\ (Claimed(id) \/ In(p, "open", id)))
    BY <1>p DEF Part, PairInv
  <2>1. \A id \in streams'[e] :
          Kept(p, id)' \/ (id.by = e /\ (Claimed(id)' \/ In(e, "open", id)'))
    <3> TAKE id \in streams'[e]
    <3>1. CASE id \in streams[e]
      <4>1. Kept(p, id) \/ (id.by = e /\ (Claimed(id) \/ In(e, "open", id)))
        BY <2>0, <3>1
      <4>2. Kept(p, id)' <=> Kept(p, id)
        BY <1>2
      <4>3. id.by = e /\ (Claimed(id) \/ In(e, "open", id)) => Claimed(id)' \/ In(e, "open", id)'
        OBVIOUS
      <4> QED BY <4>1, <4>2, <4>3
    <3>2. CASE id \notin streams[e]
      BY <3>2
    <3> QED BY <3>1, <3>2
  <2>2. \A id \in flows'[p] \ finning'[p] :
          id \in streams'[e] \/ (id.by = p /\ (Claimed(id)' \/ In(p, "open", id)'))
    <3> TAKE id \in flows'[p] \ finning'[p]
    <3>1. id \in streams[e] \/ (id.by = p /\ (Claimed(id) \/ In(p, "open", id)))
      BY <1>p, <2>0 DEF Untouched
    <3>2. (In(p, "open", id)' <=> In(p, "open", id)) /\ (id.by = p /\ Claimed(id) => Claimed(id)')
      BY <1>p, <1>1
    <3> QED BY <3>1, <3>2
  <2>3. \A id \in StreamId :
          In(p, "open", id)' /\ id.n >= nextPeer'[e][id.dir] =>
             Kept(p, id)' /\ (id.dir = "bi" => id \in streams'[p])
    BY <1>p, <1>1, <1>2 DEF Part, PairInv, Untouched
  <2> QED BY <1>p, <2>1, <2>2, <2>3 DEF PairInv
<1> QED BY <1>3, <1>4, <1>5, <1>6, <1>7, <1>8 DEF Part, p

(* An OPEN that waits to be published is undisturbed by a step that touches *)
(* no id nobody has heard of.                                               *)
LEMMA OpeningKept ==
    ASSUME OpeningInv, TypeOK, opening' = opening,
           \A x \in Ends : \A id \in StreamId : Here(x, id) => Here(x, id)',
           \A id \in StreamId : (\A y \in Ends : Unheard(y, id)) =>
              \A x \in Ends : /\ Unheard(x, id)'
                              /\ id \in flows'[x] <=> id \in flows[x]
                              /\ id \in streams'[x] <=> id \in streams[x]
    PROVE  OpeningInv'
<1> SUFFICES ASSUME NEW o \in DOMAIN opening
             PROVE  /\ opening[o].by = o.at /\ opening[o].dir = o.dir /\ Here(o.at, opening[o])'
                    /\ opening[o] \in flows'[o.at]
                    /\ o.dir = "bi" => opening[o] \in streams'[o.at]
                    /\ opening[o] \notin flows'[Peer(o.at)] \cup streams'[Peer(o.at)]
                    /\ \A e \in Ends : Unheard(e, opening[o])'
                    /\ \A q \in DOMAIN opening : opening[q] = opening[o] => q = o
  BY DEF OpeningInv
<1>1. opening[o] \in StreamId /\ o.at \in Ends /\ Peer(o.at) \in Ends
  BY PeerFacts DEF TypeOK, AppType, Opener
<1>2. /\ opening[o].by = o.at /\ opening[o].dir = o.dir /\ Here(o.at, opening[o])
      /\ opening[o] \in flows[o.at]
      /\ o.dir = "bi" => opening[o] \in streams[o.at]
      /\ opening[o] \notin flows[Peer(o.at)] \cup streams[Peer(o.at)]
      /\ \A e \in Ends : Unheard(e, opening[o])
      /\ \A q \in DOMAIN opening : opening[q] = opening[o] => q = o
  BY DEF OpeningInv
<1>3. /\ Here(o.at, opening[o])'
      /\ \A x \in Ends : /\ Unheard(x, opening[o])'
                         /\ opening[o] \in flows'[x] <=> opening[o] \in flows[x]
                         /\ opening[o] \in streams'[x] <=> opening[o] \in streams[x]
  BY <1>1, <1>2
<1> QED BY <1>1, <1>2, <1>3

(* What a step that leaves the counters and the queues alone leaves true.   *)
LEMMA QuietFacts ==
    ASSUME UNCHANGED <<nextId, nextPeer, net>>
    PROVE  /\ \A x, id : Here(x, id)' <=> Here(x, id)
           /\ \A x, id, k : Announced(x, id, k)' <=> Announced(x, id, k)
           /\ \A x, t, id : In(x, t, id)' <=> In(x, t, id)
           /\ \A x : FrameInv(x) => FrameInv(x)'
<1>1. /\ \A x, id : Here(x, id)' <=> Here(x, id)
      /\ \A x, id, k : Announced(x, id, k)' <=> Announced(x, id, k)
      /\ \A x, t, id : In(x, t, id)' <=> In(x, t, id)
  BY DEF Here, Announced, In
<1> QED BY <1>1 DEF FrameInv

(* What the frames in a queue say of their ids.                             *)
LEMMA InFacts ==
    ASSUME NEW e, FrameInv(e), NEW i
    PROVE  /\ In(e, "open", i) => i.by = e
           /\ In(e, "fin", i) \/ In(e, "reset", i) => Sender(e, i)
           /\ In(e, "stop", i) => Receiver(e, i)
           /\ \A t : In(e, t, i) => Here(e, i)
  BY DEF FrameInv, In, Has

(* The counters are numbers.                                                *)
LEMMA CounterTypes ==
    ASSUME TypeOK, NEW e \in Ends, NEW id \in StreamId
    PROVE  /\ id.n \in Nat /\ id.dir \in Dirs /\ id.by \in Ends
           /\ nextId[e][id.dir] \in Nat /\ nextPeer[e][id.dir] \in Nat
  BY DEF TypeOK, TableType, StreamId

(* The frames in a queue are frames.                                        *)
LEMMA FrameTypes ==
    ASSUME TypeOK, NEW e \in Ends
    PROVE  /\ net[e] \in Seq(Frame) /\ Len(net[e]) \in Nat
           /\ \A i \in 1..Len(net[e]) :
                 /\ net[e][i] \in Frame /\ net[e][i].id \in StreamId
                 /\ net[e][i].t \in {"open", "fin", "reset", "stop"}
<1>1. net[e] \in Seq(Frame)
  BY DEF TypeOK, NetType
<1>2. Len(net[e]) \in Nat /\ \A i \in 1..Len(net[e]) : net[e][i] \in Frame
  BY <1>1
<1> QED BY <1>1, <1>2 DEF Frame

-----------------------------------------------------------------------------
(* Types *)

(* Adding an id to a table and taking one out of it.                        *)
LEMMA IdSetFacts ==
    ASSUME NEW f \in IdSets, NEW e \in Ends, NEW id
    PROVE  /\ id \in StreamId => Add(f, e, id) \in IdSets
           /\ Drop(f, e, id) \in IdSets
           /\ Add(f, e, id)[e] = f[e] \cup {id} /\ Add(f, e, id)[Peer(e)] = f[Peer(e)]
           /\ Drop(f, e, id)[e] = f[e] \ {id} /\ Drop(f, e, id)[Peer(e)] = f[Peer(e)]
  BY PeerFacts DEF IdSets, Add, Drop

(* The receive entries of an endpoint stay finitely many.                   *)
LEMMA FiniteFacts ==
    ASSUME NEW f \in IdSets, NEW e \in Ends, NEW id, \A x \in Ends : IsFiniteSet(f[x])
    PROVE  \A x \in Ends : /\ IsFiniteSet(Add(f, e, id)[x]) /\ IsFiniteSet(Drop(f, e, id)[x])
                           /\ IsFiniteSet([f EXCEPT ![e] = {}][x])
<1> TAKE x \in Ends
<1>1. IsFiniteSet(f[e] \cup {id})
  BY FS_AddElement
<1>2. IsFiniteSet(f[e] \ {id})
  BY FS_RemoveElement
<1>3. IsFiniteSet({})
  BY FS_EmptySet
<1>4. /\ Add(f, e, id)[x] = IF x = e THEN f[e] \cup {id} ELSE f[x]
      /\ Drop(f, e, id)[x] = IF x = e THEN f[e] \ {id} ELSE f[x]
      /\ [f EXCEPT ![e] = {}][x] = IF x = e THEN {} ELSE f[x]
  BY DEF IdSets, Add, Drop
<1> QED BY <1>1, <1>2, <1>3, <1>4

(* A frame joins a queue, or is taken from one.                             *)
LEMMA NetTyped ==
    ASSUME NEW q \in [Ends -> Seq(Frame)], NEW e \in Ends
    PROVE  /\ \A f \in Frame : [q EXCEPT ![e] = Append(@, f)] \in [Ends -> Seq(Frame)]
           /\ q[e] # <<>> => [q EXCEPT ![e] = Tail(@)] \in [Ends -> Seq(Frame)]
<1>1. ASSUME NEW f \in Frame
      PROVE  [q EXCEPT ![e] = Append(@, f)] \in [Ends -> Seq(Frame)]
  <2>1. Append(q[e], f) \in Seq(Frame)
    BY <1>1, HasAppend
  <2> QED BY <2>1
<1>2. ASSUME q[e] # <<>>
      PROVE  [q EXCEPT ![e] = Tail(@)] \in [Ends -> Seq(Frame)]
  <2>1. Tail(q[e]) \in Seq(Frame)
    BY <1>2, HasTail
  <2> QED BY <2>1
<1> QED BY <1>1, <1>2

(* The steps of an opener keep the types.                                   *)
LEMMA OpenerTypes ==
    ASSUME TypeOK, UNCHANGED setup, NEW o \in Openers,
           Register(o) \/ PublishOpen(o) \/ CancelOpen(o)
    PROVE  TypeOK'
<1> USE OpenAssumption
<1>0. /\ o \in Opener /\ o.at \in Ends /\ o.dir \in Dirs
      /\ setup \in Setups
  BY DEF TypeOK, Openers, Opener
<1>1. CASE Register(o)
  <2> DEFINE e  == o.at
             id == [n |-> nextId[e][o.dir], by |-> e, dir |-> o.dir]
  <2>1. id \in StreamId /\ id.n \in Nat
    BY <1>0 DEF TypeOK, TableType, StreamId
  <2>2. nextId' \in [Ends -> [Dirs -> Nat]]
    BY <1>0, <1>1 DEF Register, TypeOK, TableType
  <2>3. /\ flows' \in IdSets /\ streams' \in IdSets
        /\ \A x \in Ends : IsFiniteSet(streams'[x])
    <3> HIDE DEF id
    <3>1. \/ UNCHANGED <<flows, streams>>
          \/ flows' = Add(flows, e, id) /\ (streams' = Add(streams, e, id) \/ streams' = streams)
      BY <1>1 DEF Register, id
    <3>2. /\ flows \in IdSets /\ streams \in IdSets
          /\ \A x \in Ends : IsFiniteSet(streams[x])
      BY DEF TypeOK, TableType
    <3>3. /\ Add(flows, e, id) \in IdSets /\ Add(streams, e, id) \in IdSets
          /\ \A x \in Ends : IsFiniteSet(Add(streams, e, id)[x])
      BY <1>0, <2>1, <3>2, IdSetFacts, FiniteFacts
    <3> QED BY <3>1, <3>2, <3>3
  <2>4. TableType'
    BY <1>1, <2>2, <2>3 DEF Register, TypeOK, TableType
  <2>5. DOMAIN opening' \subseteq Opener /\ opening' \in [DOMAIN opening' -> StreamId]
    <3> HIDE DEF id
    <3>1. \/ opening' = opening
          \/ opening' = [q \in DOMAIN opening \cup {o} |-> IF q = o THEN id ELSE opening[q]]
      BY <1>1 DEF Register, id
    <3> QED BY <1>0, <2>1, <3>1 DEF TypeOK, AppType
  <2> QED BY <1>1, <2>4, <2>5 DEF Register, TypeOK, AppType, NetType
<1>2. CASE PublishOpen(o)
  <2> DEFINE e == o.at
             id == opening[o]
  <2>1. id \in StreamId
    BY <1>2 DEF PublishOpen, TypeOK, AppType
  <2>2. net' \in [Ends -> Seq(Frame)]
    <3>1. [t |-> "open", id |-> id] \in Frame
      BY <2>1 DEF Frame
    <3> QED BY <1>0, <1>2, <3>1, NetTyped DEF PublishOpen, Push, TypeOK, NetType
  <2>3. sends' \in IdSets /\ recvs' \in IdSets
    BY <1>0, <1>2, <2>1, IdSetFacts DEF PublishOpen, TypeOK, AppType
  <2>4. DOMAIN opening' \subseteq Opener /\ opening' \in [DOMAIN opening' -> StreamId]
    BY <1>2 DEF PublishOpen, TypeOK, AppType
  <2> QED BY <1>2, <2>2, <2>3, <2>4 DEF PublishOpen, TypeOK, TableType, AppType, NetType, tables
<1>3. CASE CancelOpen(o)
  BY <1>3 DEF CancelOpen, TypeOK, TableType, AppType, NetType, tables, apps
<1> QED BY <1>1, <1>2, <1>3

(* The steps of the application and of the writer keep the types.           *)
LEMMA ApplicationTypes ==
    ASSUME TypeOK, UNCHANGED setup, NEW e \in Ends,
           Application(e) \/ \E id \in pending[e] : NextCredit(e, id)
    PROVE  TypeOK'
<1>0. /\ flows \in IdSets /\ streams \in IdSets /\ stopped \in IdSets /\ pending \in IdSets
      /\ sends \in IdSets /\ recvs \in IdSets /\ finning \in IdSets /\ resetting \in IdSets
      /\ net \in [Ends -> Seq(Frame)]
  BY DEF TypeOK, TableType, AppType, NetType
<1>1. ASSUME NEW d \in Dirs, Accept(e, d)
      PROVE  TypeOK'
  <2>1. /\ accept[e] \in [Dirs -> Seq(StreamId)] /\ accept[e][d] \in Seq(StreamId)
        /\ accept[e][d] # <<>>
    BY <1>1 DEF Accept, TypeOK, TableType
  <2>2. Head(accept[e][d]) \in StreamId /\ Tail(accept[e][d]) \in Seq(StreamId)
    BY <2>1
  <2>3. accept' \in [Ends -> [Dirs -> Seq(StreamId)]]
    BY <1>1, <2>1, <2>2 DEF Accept, TypeOK, TableType
  <2>4. sends' \in IdSets /\ recvs' \in IdSets
    BY <1>0, <1>1, <2>2, IdSetFacts DEF Accept
  <2> QED BY <1>1, <2>3, <2>4 DEF Accept, TypeOK, TableType, AppType, NetType
<1>2. ASSUME NEW id \in StreamId, NEW type \in {"fin", "reset", "stop"}, Push(e, type, id)
      PROVE  net' \in [Ends -> Seq(Frame)]
  <2>1. [t |-> type, id |-> id] \in Frame
    BY DEF Frame
  <2> QED BY <1>0, <1>2, <2>1, NetTyped DEF Push
<1>3. ASSUME NEW id \in sends[e], Finish(e, id)
      PROVE  TypeOK'
  <2>1. id \in StreamId
    BY <1>0 DEF IdSets
  <2>2. net' \in [Ends -> Seq(Frame)]
    BY <1>2, <1>3, <2>1 DEF Finish
  <2>3. sends' \in IdSets /\ finning' \in IdSets
    BY <1>0, <1>3, <2>1, IdSetFacts DEF Finish
  <2> QED BY <1>3, <2>2, <2>3 DEF Finish, TypeOK, TableType, AppType, NetType, tables
<1>4. ASSUME NEW id \in sends[e], Reset(e, id)
      PROVE  TypeOK'
  <2>1. id \in StreamId
    BY <1>0 DEF IdSets
  <2>2. sends' \in IdSets /\ flows' \in IdSets /\ resetting' \in IdSets
    BY <1>0, <1>4, <2>1, IdSetFacts DEF Reset
  <2> QED BY <1>4, <2>2 DEF Reset, TypeOK, TableType, AppType, NetType
<1>5. ASSUME NEW id \in sends[e], DropSend(e, id)
      PROVE  TypeOK'
  <2>1. id \in StreamId
    BY <1>0 DEF IdSets
  <2>2. net' \in [Ends -> Seq(Frame)]
    BY <1>0, <1>2, <1>5, <2>1 DEF DropSend
  <2>3. sends' \in IdSets /\ flows' \in IdSets
    BY <1>0, <1>5, <2>1, IdSetFacts DEF DropSend
  <2> QED BY <1>5, <2>2, <2>3 DEF DropSend, TypeOK, TableType, AppType, NetType
<1>6. ASSUME NEW id \in finning[e], FinRemove(e, id)
      PROVE  TypeOK'
  <2>1. finning' \in IdSets /\ flows' \in IdSets
    BY <1>0, <1>6, IdSetFacts DEF FinRemove
  <2> QED BY <1>6, <2>1 DEF FinRemove, TypeOK, TableType, AppType, NetType
<1>7. ASSUME NEW id \in resetting[e], PublishReset(e, id)
      PROVE  TypeOK'
  <2>1. id \in StreamId
    BY <1>0 DEF IdSets
  <2>2. net' \in [Ends -> Seq(Frame)]
    BY <1>2, <1>7, <2>1 DEF PublishReset
  <2>3. resetting' \in IdSets
    BY <1>0, <1>7, IdSetFacts DEF PublishReset
  <2> QED BY <1>7, <2>2, <2>3 DEF PublishReset, TypeOK, TableType, AppType, NetType, tables
<1>8. ASSUME NEW id \in recvs[e], Stop(e, id)
      PROVE  TypeOK'
  <2>1. id \in StreamId
    BY <1>0 DEF IdSets
  <2>2. net' \in [Ends -> Seq(Frame)]
    BY <1>0, <1>2, <1>8, <2>1 DEF Stop
  <2>3. recvs' \in IdSets /\ stopped' \in IdSets /\ pending' \in IdSets
    BY <1>0, <1>8, <2>1, IdSetFacts DEF Stop
  <2> QED BY <1>8, <2>2, <2>3 DEF Stop, TypeOK, TableType, AppType, NetType
<1>9. ASSUME NEW id \in recvs[e], QueueCredit(e, id)
      PROVE  TypeOK'
  <2>1. id \in StreamId
    BY <1>0 DEF IdSets
  <2>2. PICK slots \in SUBSET StreamId : pending' = [pending EXCEPT ![e] = slots]
    <3> DEFINE s == IF Cardinality(pending[e]) >= MaxOpen
                    THEN pending[e] \cap streams[e] ELSE pending[e]
    <3>1. s \in SUBSET StreamId /\ s \cup {id} \in SUBSET StreamId
      BY <1>0, <2>1 DEF IdSets
    <3>2. \/ pending' = [pending EXCEPT ![e] = s]
          \/ pending' = [pending EXCEPT ![e] = s \cup {id}]
      BY <1>9 DEF QueueCredit
    <3> QED BY <3>1, <3>2
  <2>3. pending' \in IdSets
    BY <1>0, <2>2 DEF IdSets
  <2> QED BY <1>9, <2>3 DEF QueueCredit, TypeOK, TableType, AppType, NetType, apps
<1>10. ASSUME NEW id \in pending[e], NextCredit(e, id)
       PROVE  TypeOK'
  <2>1. pending' \in IdSets
    BY <1>0, <1>10, IdSetFacts DEF NextCredit
  <2> QED BY <1>10, <2>1 DEF NextCredit, TypeOK, TableType, AppType, NetType, apps
<1> QED BY <1>1, <1>3, <1>4, <1>5, <1>6, <1>7, <1>8, <1>9, <1>10 DEF Application

(* The inbound task's steps keep the types.                                 *)
LEMMA InboundTypes ==
    ASSUME TypeOK, UNCHANGED setup, NEW e \in Ends, Inbound(e)
    PROVE  TypeOK'
<1> DEFINE f == Incoming(e)
<1>0. /\ flows \in IdSets /\ streams \in IdSets /\ stopped \in IdSets /\ pending \in IdSets
      /\ inbound \in IdSets /\ net \in [Ends -> Seq(Frame)] /\ Peer(e) \in Ends
      /\ accept \in [Ends -> [Dirs -> Seq(StreamId)]]
      /\ \A x \in Ends : IsFiniteSet(streams[x])
  BY PeerFacts DEF TypeOK, TableType, AppType, NetType
<1>1. ASSUME net[Peer(e)] # <<>>
      PROVE  /\ f \in Frame /\ f.id \in StreamId /\ f.id.n \in Nat /\ f.id.dir \in Dirs
             /\ Consume(e) => net' \in [Ends -> Seq(Frame)]
  <2>1. net[Peer(e)] \in Seq(Frame)
    BY <1>0
  <2>2. f \in Frame
    BY <1>1, <2>1, HasTail DEF Incoming
  <2>3. f.id \in StreamId
    BY <2>2 DEF Frame
  <2>4. f.id.n \in Nat /\ f.id.dir \in Dirs
    BY <2>3 DEF StreamId
  <2>5. [net EXCEPT ![Peer(e)] = Tail(@)] \in [Ends -> Seq(Frame)]
    BY <1>0, <1>1, NetTyped
  <2> QED BY <2>2, <2>3, <2>4, <2>5 DEF Consume
<1>2. ASSUME NEW reason, ProtocolError(e, reason), net[Peer(e)] # <<>>,
             nextId' \in [Ends -> [Dirs -> Nat]], nextPeer' \in [Ends -> [Dirs -> Nat]]
      PROVE  TypeOK'
  <2>1. net' \in [Ends -> Seq(Frame)]
    BY <1>1, <1>2 DEF ProtocolError
  <2>2. /\ flows' \in IdSets /\ streams' \in IdSets /\ stopped' \in IdSets
        /\ pending' \in IdSets /\ accept' \in [Ends -> [Dirs -> Seq(StreamId)]]
    BY <1>0, <1>2 DEF ProtocolError, IdSets
  <2>3. \A x \in Ends : IsFiniteSet(streams'[x])
    BY <1>0, <1>2, FiniteFacts DEF ProtocolError
  <2> QED BY <1>2, <2>1, <2>2, <2>3 DEF ProtocolError, TypeOK, TableType, AppType, NetType, apps
<1> HIDE DEF f
<1>3. CASE HandleOpen(e)
  <2>1. f.id \in StreamId /\ f.id.n \in Nat /\ f.id.dir \in Dirs /\ net[Peer(e)] # <<>>
    BY <1>1, <1>3 DEF HandleOpen, Reads
  <2>2. nextId' \in [Ends -> [Dirs -> Nat]] /\ nextPeer' \in [Ends -> [Dirs -> Nat]]
    <3>1. \/ nextPeer' = nextPeer
          \/ nextPeer' = [nextPeer EXCEPT ![e][f.id.dir] = f.id.n + 1]
      BY <1>3 DEF HandleOpen, f
    <3>2. nextId' = nextId
      BY <1>3 DEF HandleOpen
    <3>3. /\ nextId \in [Ends -> [Dirs -> Nat]] /\ nextPeer \in [Ends -> [Dirs -> Nat]]
          /\ f.id.n + 1 \in Nat
      BY <2>1 DEF TypeOK, TableType
    <3>4. [nextPeer EXCEPT ![e][f.id.dir] = f.id.n + 1] \in [Ends -> [Dirs -> Nat]]
      BY <2>1, <3>3
    <3> QED BY <3>1, <3>2, <3>3, <3>4
  <2>3. CASE \E reason : ProtocolError(e, reason)
    BY <1>2, <2>1, <2>2, <2>3
  <2>4. CASE ~\E reason : ProtocolError(e, reason)
    <3>1. /\ Consume(e) /\ streams' = Add(streams, e, f.id)
          /\ flows' = Add(flows, e, f.id) \/ flows' = flows
          /\ accept' = [accept EXCEPT ![e][f.id.dir] = Append(@, f.id)]
          /\ UNCHANGED <<stopped, pending, apps, inbound, err>>
      BY <1>3, <2>4 DEF HandleOpen, f
    <3>2. /\ flows' \in IdSets /\ streams' \in IdSets
          /\ \A x \in Ends : IsFiniteSet(streams'[x])
      <4>1. /\ Add(flows, e, f.id) \in IdSets /\ Add(streams, e, f.id) \in IdSets
            /\ \A x \in Ends : IsFiniteSet(Add(streams, e, f.id)[x])
        BY <1>0, <2>1, IdSetFacts, FiniteFacts
      <4> QED BY <1>0, <3>1, <4>1
    <3>3. accept' \in [Ends -> [Dirs -> Seq(StreamId)]]
      <4>1. accept[e] \in [Dirs -> Seq(StreamId)] /\ accept[e][f.id.dir] \in Seq(StreamId)
        BY <1>0, <2>1
      <4>2. Append(accept[e][f.id.dir], f.id) \in Seq(StreamId)
        BY <2>1, <4>1
      <4> QED BY <1>0, <2>1, <3>1, <4>1, <4>2
    <3>4. net' \in [Ends -> Seq(Frame)]
      BY <1>1, <2>1, <3>1
    <3> QED BY <2>2, <3>1, <3>2, <3>3, <3>4 DEF TypeOK, TableType, AppType, NetType, apps
  <2> QED BY <2>3, <2>4
<1>4. CASE HandleFin(e) \/ HandleReset(e)
  <2>1. net[Peer(e)] # <<>> /\ UNCHANGED <<nextId, nextPeer>>
    BY <1>4 DEF HandleFin, HandleReset, Reads
  <2>2. CASE \E reason : ProtocolError(e, reason)
    BY <1>2, <2>1, <2>2 DEF TypeOK, TableType
  <2>3. CASE ~\E reason : ProtocolError(e, reason)
    <3>1. /\ Consume(e) /\ streams' = Drop(streams, e, f.id) /\ stopped' = Drop(stopped, e, f.id)
          /\ UNCHANGED <<flows, pending, accept, apps, inbound, err>>
      BY <1>4, <2>3 DEF HandleFin, HandleReset, f
    <3>2. streams' \in IdSets /\ stopped' \in IdSets /\ \A x \in Ends : IsFiniteSet(streams'[x])
      BY <1>0, <3>1, IdSetFacts, FiniteFacts
    <3>3. net' \in [Ends -> Seq(Frame)]
      BY <1>1, <2>1, <3>1
    <3> QED BY <2>1, <3>1, <3>2, <3>3 DEF TypeOK, TableType, AppType, NetType, apps
  <2> QED BY <2>2, <2>3
<1>5. CASE HandleStop(e)
  <2>1. net[Peer(e)] # <<>> /\ UNCHANGED <<nextId, nextPeer>>
    BY <1>5 DEF HandleStop, Reads
  <2>2. CASE \E reason : ProtocolError(e, reason)
    BY <1>2, <2>1, <2>2 DEF TypeOK, TableType
  <2>3. CASE ~\E reason : ProtocolError(e, reason)
    <3>1. /\ Consume(e) /\ flows' = Drop(flows, e, f.id)
          /\ inbound' = [inbound EXCEPT ![e] = {f.id} \cap flows[e]]
          /\ UNCHANGED <<streams, stopped, pending, accept, apps, err>>
      BY <1>5, <2>3 DEF HandleStop, f
    <3>2. flows' \in IdSets /\ inbound' \in IdSets
      BY <1>0, <3>1, IdSetFacts DEF IdSets
    <3>3. net' \in [Ends -> Seq(Frame)]
      BY <1>1, <2>1, <3>1
    <3> QED BY <2>1, <3>1, <3>2, <3>3 DEF TypeOK, TableType, AppType, NetType, apps
  <2> QED BY <2>2, <2>3
<1>6. CASE AckStop(e)
  <2>1. PICK id \in inbound[e] : Push(e, "reset", id) /\ inbound' = Drop(inbound, e, id)
    BY <1>6 DEF AckStop
  <2>2. [t |-> "reset", id |-> id] \in Frame
    BY <1>0 DEF Frame, IdSets
  <2>3. inbound' \in IdSets /\ net' \in [Ends -> Seq(Frame)]
    BY <1>0, <2>1, <2>2, IdSetFacts, NetTyped DEF Push
  <2> QED BY <1>6, <2>3 DEF AckStop, TypeOK, TableType, AppType, NetType, tables, apps
<1> QED BY <1>3, <1>4, <1>5, <1>6 DEF Inbound

-----------------------------------------------------------------------------
(* Steps that send and read nothing *)

(* The flow of a finished stream goes: its FIN is queued, or was read.      *)
LEMMA FinRemoveKeeps ==
    ASSUME Core, TypeOK', NEW e \in Ends, NEW id \in finning[e], FinRemove(e, id)
    PROVE  Core'
<1> DEFINE p == Peer(e)
<1>p. p \in Ends /\ p # e /\ Peer(p) = e /\ Peer(e) = p /\ \A x \in Ends : x = e \/ x = p
  BY PeerFacts
<1> HIDE DEF p
<1>1. /\ flows'[e] = flows[e] \ {id} /\ finning'[e] = finning[e] \ {id}
      /\ flows'[p] = flows[p] /\ finning'[p] = finning[p]
      /\ UNCHANGED <<nextId, nextPeer, streams, accept, opening>>
      /\ UNCHANGED <<sends, recvs, resetting, inbound, net>>
  BY <1>p, IdSetFacts DEF FinRemove, Core, TypeOK, TableType, AppType
<1>2. Part(e) /\ Part(p) /\ OpeningInv /\ TypeOK /\ id \in StreamId
  BY <1>p DEF Core, TypeOK, AppType, IdSets
<1>3. /\ \A x, i : Here(x, i)' <=> Here(x, i)
      /\ \A x, i, k : Announced(x, i, k)' <=> Announced(x, i, k)
      /\ \A x, t, i : In(x, t, i)' <=> In(x, t, i)
      /\ FrameInv(e)'
      /\ \A i : Claimed(i)' <=> Claimed(i)
  BY <1>1, <1>2, QuietFacts DEF Claimed, Part
<1>4. Part(p)'
  <2>1. Untouched(p) /\ \A d \in Dirs : nextId[e][d] <= nextId'[e][d]
    BY <1>1, <1>2, <1>p DEF Untouched, TypeOK, TableType
  <2> QED BY <1>1, <1>2, <1>3, <1>p, <2>1, PeerSide
<1>5. OpeningInv'
  <2>1. \A i \in StreamId : (\A y \in Ends : Unheard(y, i)) =>
          \A x \in Ends : /\ Unheard(x, i)'
                          /\ i \in flows'[x] <=> i \in flows[x]
                          /\ i \in streams'[x] <=> i \in streams[x]
    BY <1>1, <1>p DEF Unheard, Sending
  <2> QED BY <1>1, <1>2, <1>3, <2>1, OpeningKept
<1>6. IdInv(e)' /\ AcceptInv(e)' /\ AnnounceInv(e)' /\ FinalInv(e)'
  BY <1>1, <1>2, <1>3, <1>p DEF Part, IdInv, AcceptInv, AnnounceInv, FinalInv, Sending
<1>7. PairInv(e)'
  <2>1. In(e, "fin", id) \/ (/\ id \notin streams[p]
                             /\ id.by = e => id.n < nextPeer[p][id.dir])
    BY <1>2, <1>p DEF Part, FinalInv
  <2>2. \A i : Kept(e, i) => Kept(e, i)' \/ (i = id /\ ~In(e, "fin", id))
    BY <1>1, <1>3 DEF Kept
  <2>3. \A i \in StreamId : In(e, "open", i) /\ i.n >= nextPeer[p][i.dir] =>
          Kept(e, i)' /\ (i.dir = "bi" => i \in streams[e])
    <3> SUFFICES ASSUME NEW i \in StreamId, In(e, "open", i), i.n >= nextPeer[p][i.dir]
                 PROVE  Kept(e, i)' /\ (i.dir = "bi" => i \in streams[e])
      OBVIOUS
    <3>1. Kept(e, i) /\ (i.dir = "bi" => i \in streams[e]) /\ i.by = e
      BY <1>2, <1>p, InFacts DEF Part, PairInv
    <3>2. ~(i.n < nextPeer[p][i.dir])
      BY <1>2, <1>p, CounterTypes
    <3> QED BY <2>1, <2>2, <3>1, <3>2
  <2>4. \A i \in streams[p] : \/ Kept(e, i)'
                              \/ i.by = p /\ (Claimed(i) \/ In(p, "open", i))
    BY <1>2, <1>p, <2>1, <2>2 DEF Part, PairInv
  <2> QED BY <1>1, <1>2, <1>3, <1>p, <2>3, <2>4 DEF Part, PairInv
<1> QED BY <1>2, <1>3, <1>4, <1>5, <1>6, <1>7, <1>p DEF Core, Part

(* The flow of a reset stream goes: its RESET is owed.                      *)
LEMMA ResetKeeps ==
    ASSUME Core, TypeOK', NEW e \in Ends, NEW id \in sends[e], Reset(e, id)
    PROVE  Core'
<1> DEFINE p == Peer(e)
<1>p. p \in Ends /\ p # e /\ Peer(p) = e /\ Peer(e) = p /\ \A x \in Ends : x = e \/ x = p
  BY PeerFacts
<1> HIDE DEF p
<1>1. /\ flows'[e] = flows[e] \ {id} /\ sends'[e] = sends[e] \ {id}
      /\ resetting'[e] = resetting[e] \cup {id}
      /\ flows'[p] = flows[p] /\ sends'[p] = sends[p] /\ resetting'[p] = resetting[p]
      /\ UNCHANGED <<nextId, nextPeer, streams, accept, opening>>
      /\ UNCHANGED <<recvs, finning, inbound, net>>
  BY <1>p, IdSetFacts DEF Reset, Core, TypeOK, TableType, AppType
<1>2. Part(e) /\ Part(p) /\ OpeningInv /\ TypeOK /\ id \in StreamId
  BY <1>p DEF Core, TypeOK, AppType, IdSets
<1>3. /\ \A x, i : Here(x, i)' <=> Here(x, i)
      /\ \A x, i, k : Announced(x, i, k)' <=> Announced(x, i, k)
      /\ \A x, t, i : In(x, t, i)' <=> In(x, t, i)
      /\ FrameInv(e)'
      /\ \A i : Claimed(i)' <=> Claimed(i)
  BY <1>1, <1>2, QuietFacts DEF Claimed, Part
<1>4. Part(p)'
  <2>1. Untouched(p) /\ \A d \in Dirs : nextId[e][d] <= nextId'[e][d]
    BY <1>1, <1>2, <1>p DEF Untouched, TypeOK, TableType
  <2> QED BY <1>1, <1>2, <1>3, <1>p, <2>1, PeerSide
<1>5. OpeningInv'
  <2>1. \A i \in StreamId : (\A y \in Ends : Unheard(y, i)) =>
          \A x \in Ends : /\ Unheard(x, i)'
                          /\ i \in flows'[x] <=> i \in flows[x]
                          /\ i \in streams'[x] <=> i \in streams[x]
    BY <1>1, <1>p DEF Unheard, Sending
  <2> QED BY <1>1, <1>2, <1>3, <2>1, OpeningKept
<1>6. IdInv(e)' /\ AcceptInv(e)' /\ AnnounceInv(e)' /\ FinalInv(e)'
  BY <1>1, <1>2, <1>3, <1>p DEF Part, IdInv, AcceptInv, AnnounceInv, FinalInv, Sending
<1>7. PairInv(e)'
  <2>1. \A i : Kept(e, i) => Kept(e, i)'
    BY <1>1, <1>3 DEF Kept
  <2> QED BY <1>1, <1>2, <1>3, <1>p, <2>1 DEF Part, PairInv
<1> QED BY <1>2, <1>3, <1>4, <1>5, <1>6, <1>7, <1>p DEF Core, Part

(* A stream moves from the accept queue to the application.                 *)
LEMMA AcceptKeeps ==
    ASSUME Core, TypeOK', NEW e \in Ends, NEW d \in Dirs, Accept(e, d)
    PROVE  Core'
<1> DEFINE p  == Peer(e)
           id == Head(accept[e][d])
           q  == accept[e][d]
<1>p. p \in Ends /\ p # e /\ Peer(p) = e /\ Peer(e) = p /\ \A x \in Ends : x = e \/ x = p
  BY PeerFacts
<1> HIDE DEF p
<1>q. /\ q \in Seq(StreamId) /\ q # <<>> /\ id = q[1] /\ id \in StreamId
      /\ Len(q) \in Nat \ {0} /\ Len(Tail(q)) = Len(q) - 1
      /\ \A i \in 1..Len(q) - 1 : Tail(q)[i] = q[i + 1]
  <2>1. q \in Seq(StreamId) /\ q # <<>>
    BY DEF Accept, Core, TypeOK, TableType
  <2> QED BY <2>1
<1>1. /\ recvs'[e] = recvs[e] \cup {id}
      /\ sends'[e] = IF d = "bi" THEN sends[e] \cup {id} ELSE sends[e]
      /\ recvs'[p] = recvs[p] /\ sends'[p] = sends[p]
      /\ accept'[e][d] = Tail(q) /\ accept'[p] = accept[p]
      /\ \A c \in Dirs : c # d => accept'[e][c] = accept[e][c]
      /\ UNCHANGED <<nextId, nextPeer, flows, streams, opening>>
      /\ UNCHANGED <<finning, resetting, inbound, net>>
  <2>1. /\ recvs \in IdSets /\ sends \in IdSets
        /\ accept \in [Ends -> [Dirs -> Seq(StreamId)]]
    BY DEF Core, TypeOK, TableType, AppType
  <2>2. /\ recvs' = Add(recvs, e, id)
        /\ sends' = IF d = "bi" THEN Add(sends, e, id) ELSE sends
        /\ accept' = [accept EXCEPT ![e][d] = Tail(@)]
        /\ UNCHANGED <<nextId, nextPeer, flows, streams, opening>>
        /\ UNCHANGED <<finning, resetting, inbound, net>>
    BY DEF Accept
  <2> HIDE DEF id
  <2>3. /\ Add(recvs, e, id)[e] = recvs[e] \cup {id} /\ Add(recvs, e, id)[p] = recvs[p]
        /\ Add(sends, e, id)[e] = sends[e] \cup {id} /\ Add(sends, e, id)[p] = sends[p]
    BY <1>p, <2>1, IdSetFacts
  <2>4. /\ accept'[e][d] = Tail(q) /\ accept'[p] = accept[p]
        /\ \A c \in Dirs : c # d => accept'[e][c] = accept[e][c]
    BY <1>p, <2>1, <2>2
  <2> QED BY <2>2, <2>3, <2>4
<1>2. Part(e) /\ Part(p) /\ OpeningInv /\ TypeOK
  BY <1>p DEF Core
<1>3. /\ \A x, i : Here(x, i)' <=> Here(x, i)
      /\ \A x, i, k : Announced(x, i, k)' <=> Announced(x, i, k)
      /\ \A x, t, i : In(x, t, i)' <=> In(x, t, i)
      /\ FrameInv(e)'
      /\ \A i : Claimed(i)' <=> Claimed(i)
  BY <1>1, <1>2, QuietFacts DEF Claimed, Part
<1>4. Part(p)'
  <2>1. Untouched(p) /\ \A c \in Dirs : nextId[e][c] <= nextId'[e][c]
    BY <1>1, <1>2, <1>p DEF Untouched, TypeOK, TableType
  <2> QED BY <1>1, <1>2, <1>3, <1>p, <2>1, PeerSide
<1>5. /\ id.by = p /\ id.dir = d /\ Here(e, id)
      /\ id \notin sends[e] \cup finning[e] /\ ~In(e, "fin", id)
      /\ \A c \in Dirs : \A i \in 1..Len(accept'[e][c]) :
            /\ accept'[e][c][i] # id
            /\ accept'[e][c][i].by = p /\ accept'[e][c][i].dir = c
            /\ Here(e, accept'[e][c][i])
            /\ accept'[e][c][i] \notin sends[e] \cup finning[e]
            /\ ~In(e, "fin", accept'[e][c][i])
            /\ \A j \in 1..Len(accept'[e][c]) : accept'[e][c][j] = accept'[e][c][i] => j = i
            /\ \E k \in 1..Len(accept[e][c]) : accept'[e][c][i] = accept[e][c][k]
  <2>0. \A c \in Dirs : \A i \in 1..Len(accept[e][c]) :
           /\ accept[e][c][i].by = p /\ accept[e][c][i].dir = c
           /\ Here(e, accept[e][c][i])
           /\ accept[e][c][i] \notin sends[e] \cup finning[e] /\ ~In(e, "fin", accept[e][c][i])
           /\ \A j \in 1..Len(accept[e][c]) : accept[e][c][j] = accept[e][c][i] => j = i
    BY <1>2, <1>p DEF Part, AcceptInv
  <2>1. /\ id.by = p /\ id.dir = d /\ Here(e, id)
        /\ id \notin sends[e] \cup finning[e] /\ ~In(e, "fin", id)
        /\ \A j \in 1..Len(q) : q[j] = id => j = 1
    BY <1>q, <2>0
  <2> SUFFICES ASSUME NEW c \in Dirs, NEW i \in 1..Len(accept'[e][c])
               PROVE  /\ accept'[e][c][i] # id
                      /\ accept'[e][c][i].by = p /\ accept'[e][c][i].dir = c
                      /\ Here(e, accept'[e][c][i])
                      /\ accept'[e][c][i] \notin sends[e] \cup finning[e]
                      /\ ~In(e, "fin", accept'[e][c][i])
                      /\ \A j \in 1..Len(accept'[e][c]) :
                            accept'[e][c][j] = accept'[e][c][i] => j = i
                      /\ \E k \in 1..Len(accept[e][c]) : accept'[e][c][i] = accept[e][c][k]
    BY <2>1
  <2>2. CASE c # d
    <3>1. accept'[e][c] = accept[e][c]
      BY <1>1, <2>2
    <3> QED BY <2>0, <2>1, <2>2, <3>1
  <2>3. CASE c = d
    <3>1. accept'[e][c] = Tail(q) /\ i \in 1..Len(q) - 1 /\ accept'[e][c][i] = q[i + 1]
      BY <1>1, <1>q, <2>3
    <3>2. i + 1 \in 1..Len(q) /\ i + 1 # 1
      BY <1>q, <3>1
    <3>3. ASSUME NEW j \in 1..Len(accept'[e][c]), accept'[e][c][j] = accept'[e][c][i]
          PROVE  j = i
      <4>1. j \in 1..Len(q) - 1 /\ accept'[e][c][j] = q[j + 1] /\ j + 1 \in 1..Len(q)
        BY <1>q, <3>1
      <4>2. j + 1 = i + 1
        BY <2>0, <2>3, <3>1, <3>2, <3>3, <4>1
      <4> QED BY <4>1, <4>2, <3>1, <1>q
    <3>4. /\ q[i + 1].by = p /\ q[i + 1].dir = d /\ Here(e, q[i + 1])
          /\ q[i + 1] \notin sends[e] \cup finning[e] /\ ~In(e, "fin", q[i + 1])
      BY <2>0, <3>2
    <3>5. q[i + 1] # id
      BY <2>1, <3>2
    <3>6. \E k \in 1..Len(accept[e][c]) : q[i + 1] = accept[e][c][k]
      BY <2>3, <3>2
    <3> HIDE DEF q, id
    <3> QED BY <2>3, <3>1, <3>3, <3>4, <3>5, <3>6
  <2> QED BY <2>2, <2>3
<1> HIDE DEF id, q
<1>6. OpeningInv'
  <2>1. ASSUME NEW i \in StreamId, \A y \in Ends : Unheard(y, i)
        PROVE  \A x \in Ends : Unheard(x, i)'
    <3>1. i # id
      BY <1>q, <2>1 DEF Unheard, q
    <3>2. \A c \in Dirs : \A k \in 1..Len(accept'[e][c]) : accept'[e][c][k] # i
      BY <1>5, <2>1 DEF Unheard
    <3>3. Unheard(e, i)'
      BY <1>1, <2>1, <3>1, <3>2 DEF Unheard, Sending
    <3>4. Unheard(p, i)'
      BY <1>1, <1>p, <2>1 DEF Unheard, Sending
    <3> QED BY <1>p, <3>3, <3>4
  <2> QED BY <1>1, <1>2, <1>3, <2>1, OpeningKept
<1>7. IdInv(e)'
  BY <1>1, <1>2, <1>3, <1>5, <1>p DEF Part, IdInv, Sending, Sender, Receiver
<1>8. AcceptInv(e)'
  BY <1>1, <1>3, <1>5, <1>p DEF AcceptInv
<1>9. AnnounceInv(e)' /\ FinalInv(e)'
  BY <1>1, <1>2, <1>3, <1>5, <1>p DEF Part, AnnounceInv, Announced, FinalInv, Sending
<1>10. PairInv(e)'
  <2>1. \A i : Kept(e, i) <=> Kept(e, i)'
    BY <1>1, <1>3 DEF Kept
  <2> QED BY <1>1, <1>2, <1>3, <1>p, <2>1 DEF Part, PairInv
<1> QED BY <1>2, <1>3, <1>4, <1>6, <1>7, <1>8, <1>9, <1>10, <1>p DEF Core, Part

(* The credit slots and the stopped marks are nobody else's concern.        *)
LEMMA CreditKeeps ==
    ASSUME Core, TypeOK', UNCHANGED <<nextId, nextPeer, flows, streams, accept>>,
           UNCHANGED <<apps, inbound, net>>
    PROVE  Core'
<1>1. /\ \A x, i : Here(x, i)' <=> Here(x, i)
      /\ \A x, i, k : Announced(x, i, k)' <=> Announced(x, i, k)
      /\ \A x, t, i : In(x, t, i)' <=> In(x, t, i)
      /\ \A x : FrameInv(x) => FrameInv(x)'
      /\ \A i : Claimed(i)' <=> Claimed(i)
      /\ UNCHANGED <<opening, sends, recvs, finning, resetting>>
  BY QuietFacts DEF Claimed, apps
<1>2. \A x, i : Kept(x, i)' <=> Kept(x, i)
  BY <1>1 DEF Kept
<1>3. OpeningInv'
  <2>1. \A x, i : Unheard(x, i)' <=> Unheard(x, i)
    BY <1>1 DEF Unheard, Sending
  <2> QED BY <1>1, <2>1, OpeningKept DEF Core
<1>4. ASSUME NEW e \in Ends PROVE Part(e)'
  <2>0. Part(e)
    BY DEF Core
  <2>1. IdInv(e)' /\ AcceptInv(e)' /\ AnnounceInv(e)' /\ FinalInv(e)'
    BY <1>1, <2>0 DEF Part, IdInv, AcceptInv, AnnounceInv, FinalInv, Sending
  <2>2. PairInv(e)'
    BY <1>1, <1>2, <2>0 DEF Part, PairInv
  <2> QED BY <1>1, <2>0, <2>1, <2>2 DEF Part
<1> QED BY <1>3, <1>4 DEF Core

(* The id of a new stream: nobody has seen it before.                       *)
LEMMA FreshId ==
    ASSUME Core, NEW e \in Ends, NEW id \in StreamId, id.by = e, id.n >= nextId[e][id.dir]
    PROVE  /\ ~Here(e, id) /\ ~Here(Peer(e), id) /\ ~Claimed(id)
           /\ \A x \in Ends : /\ id \notin flows[x] \cup streams[x] /\ Unheard(x, id)
                              /\ \A t : ~In(x, t, id)
<1> DEFINE p == Peer(e)
<1>p. p \in Ends /\ p # e /\ Peer(p) = e /\ \A x \in Ends : x = e \/ x = p
  BY PeerFacts
<1> HIDE DEF p
<1>1. ~Here(e, id) /\ ~Here(p, id)
  <2>1. nextPeer[p][id.dir] <= nextId[e][id.dir]
    BY <1>p, CounterTypes DEF Core, Part, IdInv
  <2>2. /\ id.n \in Nat /\ nextPeer[p][id.dir] \in Nat /\ nextId[e][id.dir] \in Nat
    BY <1>p, CounterTypes DEF Core
  <2>3. ~(id.n < nextPeer[p][id.dir]) /\ ~(id.n < nextId[e][id.dir])
    BY <2>1, <2>2
  <2> QED BY <1>p, <2>3 DEF Here
<1>2. ~Claimed(id)
  <2> SUFFICES ASSUME NEW o \in DOMAIN opening, opening[o] = id PROVE FALSE
    BY DEF Claimed
  <2>1. Here(o.at, id) /\ o.at = e
    BY DEF Core, OpeningInv
  <2> QED BY <1>1, <2>1
<1>3. ASSUME NEW x \in Ends
      PROVE  /\ id \notin flows[x] \cup streams[x] /\ Unheard(x, id)
             /\ \A t : ~In(x, t, id)
  <2>1. ~Here(x, id) /\ Part(x)
    BY <1>1, <1>p DEF Core
  <2>2. id \notin flows[x] \cup streams[x] \cup Sending(x) \cup recvs[x]
    BY <2>1 DEF Part, IdInv
  <2>3. \A i \in 1..Len(net[x]) : net[x][i].id # id
    BY <2>1 DEF Part, FrameInv
  <2>4. \A d \in Dirs : \A i \in 1..Len(accept[x][d]) : accept[x][d][i] # id
    BY <2>1 DEF Part, AcceptInv
  <2> QED BY <2>2, <2>3, <2>4 DEF Unheard, In, Has
<1> QED BY <1>1, <1>2, <1>3 DEF p

(* An opener allocates an id: refused, or registered and not yet announced. *)
LEMMA RegisterKeeps ==
    ASSUME Core, TypeOK', NEW o \in Opener, Register(o)
    PROVE  Core'
<1> DEFINE e  == o.at
           p  == Peer(e)
<1>i. PICK id : id = [n |-> nextId[e][o.dir], by |-> e, dir |-> o.dir]
  OBVIOUS
<1>e. e \in Ends /\ o.dir \in Dirs
  BY DEF Opener
<1>p. p \in Ends /\ p # e /\ Peer(p) = e /\ Peer(e) = p /\ \A x \in Ends : x = e \/ x = p
  BY <1>e, PeerFacts
<1>0. /\ id \in StreamId /\ id.by = e /\ id.dir = o.dir /\ id.n = nextId[e][o.dir]
      /\ id.n \in Nat
  BY <1>e, <1>i DEF Core, TypeOK, TableType, StreamId
<1>1. /\ nextId'[e][o.dir] = id.n + 1 /\ nextId'[p] = nextId[p]
      /\ \A d \in Dirs : d # o.dir => nextId'[e][d] = nextId[e][d]
      /\ flows'[p] = flows[p] /\ streams'[p] = streams[p]
      /\ \/ /\ flows'[e] = flows[e] /\ streams'[e] = streams[e] /\ opening' = opening
         \/ /\ flows'[e] = flows[e] \cup {id}
            /\ streams'[e] = IF o.dir = "bi" THEN streams[e] \cup {id} ELSE streams[e]
            /\ opening' = [q \in DOMAIN opening \cup {o} |-> IF q = o THEN id ELSE opening[q]]
      /\ o \notin DOMAIN opening
      /\ UNCHANGED <<nextPeer, accept, sends, recvs, finning, resetting, inbound, net>>
  <2>1. nextId \in [Ends -> [Dirs -> Nat]] /\ flows \in IdSets /\ streams \in IdSets
    BY DEF Core, TypeOK, TableType
  <2>2. /\ nextId'[e][o.dir] = id.n + 1 /\ nextId'[p] = nextId[p]
        /\ \A d \in Dirs : d # o.dir => nextId'[e][d] = nextId[e][d]
    BY <1>e, <1>p, <1>0, <2>1 DEF Register
  <2>3. /\ \/ UNCHANGED <<flows, streams, opening>>
           \/ /\ flows' = Add(flows, e, id)
              /\ streams' = IF o.dir = "bi" THEN Add(streams, e, id) ELSE streams
              /\ opening' = [q \in DOMAIN opening \cup {o} |-> IF q = o THEN id ELSE opening[q]]
        /\ o \notin DOMAIN opening
        /\ UNCHANGED <<nextPeer, accept, sends, recvs, finning, resetting, inbound, net>>
    BY <1>i DEF Register
  <2> HIDE DEF e, p
  <2>4. /\ Add(flows, e, id)[e] = flows[e] \cup {id} /\ Add(flows, e, id)[p] = flows[p]
        /\ Add(streams, e, id)[e] = streams[e] \cup {id} /\ Add(streams, e, id)[p] = streams[p]
    BY <1>e, <1>p, <2>1, IdSetFacts
  <2> QED BY <2>2, <2>3, <2>4
<1> HIDE DEF e, p
<1>2. Part(e) /\ Part(p) /\ OpeningInv /\ TypeOK
  BY <1>e, <1>p DEF Core
<1>f. /\ ~Here(e, id) /\ ~Here(p, id) /\ ~Claimed(id)
      /\ \A x \in Ends : /\ id \notin flows[x] \cup streams[x] /\ Unheard(x, id)
                         /\ \A t : ~In(x, t, id)
  BY <1>e, <1>0, FreshId DEF p
<1>3. /\ \A d \in Dirs : nextId[e][d] <= nextId'[e][d]
      /\ Here(e, id)'
      /\ \A x \in Ends : \A i \in StreamId : Here(x, i) => Here(x, i)'
  <2>1. \A d \in Dirs : nextId[e][d] \in Nat /\ nextId'[e][d] \in Nat
    BY <1>2, <1>e DEF TypeOK, TableType
  <2>2. \A d \in Dirs : nextId[e][d] <= nextId'[e][d]
    BY <1>0, <1>1, <2>1
  <2>3. Here(e, id)'
    <3>1. id.n < nextId'[e][id.dir]
      BY <1>0, <1>1
    <3> QED BY <1>0, <3>1 DEF Here
  <2>4. ASSUME NEW x \in Ends, NEW i \in StreamId, Here(x, i)
        PROVE  Here(x, i)'
    <3>1. i.n \in Nat /\ i.dir \in Dirs
      BY DEF StreamId
    <3>2. CASE x = p
      BY <1>1, <2>4, <3>2 DEF Here
    <3>3. CASE x = e /\ i.by = e
      BY <2>1, <2>2, <2>4, <3>1, <3>3 DEF Here
    <3>4. CASE x = e /\ i.by # e
      BY <1>1, <2>4, <3>4 DEF Here
    <3> QED BY <1>p, <3>2, <3>3, <3>4
  <2> QED BY <2>2, <2>3, <2>4
<1>4. /\ \A x, i, k : Announced(x, i, k)' <=> Announced(x, i, k)
      /\ \A x, t, i : In(x, t, i)' <=> In(x, t, i)
      /\ \A i : Claimed(i) => Claimed(i)'
      /\ \A i \in flows'[e] : i \in flows[e] \/ (i = id /\ Claimed(i)')
      /\ \A i \in streams'[e] : i \in streams[e] \/ (i = id /\ Claimed(i)' /\ o.dir = "bi")
      /\ flows[e] \subseteq flows'[e] /\ streams[e] \subseteq streams'[e]
  BY <1>1 DEF Announced, In, Claimed
<1>5. Part(p)'
  <2>1. Untouched(p)
    BY <1>1 DEF Untouched
  <2>2. \A i \in streams'[e] \ streams[e] : i.by = e /\ Claimed(i)' /\ i \notin finning[p]
    BY <1>0, <1>4, <1>f, <1>p DEF Unheard, Sending
  <2> QED BY <1>1, <1>2, <1>3, <1>4, <1>e, <1>p, <2>1, <2>2, PeerSide
<1>6. OpeningInv'
  <2>1. ASSUME NEW q \in DOMAIN opening
        PROVE  /\ opening[q] \in StreamId /\ q.at \in Ends /\ opening[q] # id
               /\ \A i : i = opening[q] => Here(q.at, i)'
    <3>1. opening[q] \in StreamId /\ q.at \in Ends /\ opening[q] # id
      BY <1>2, <1>f DEF TypeOK, AppType, Opener, Claimed
    <3>2. Here(q.at, opening[q])
      BY <1>2 DEF OpeningInv
    <3> QED BY <1>3, <3>1, <3>2
  <2>2. \A x \in Ends : \A i : Unheard(x, i)' <=> Unheard(x, i)
    BY <1>1 DEF Unheard, Sending
  <2>3. ASSUME NEW q \in DOMAIN opening
        PROVE  /\ opening[q].by = q.at /\ opening[q].dir = q.dir
               /\ opening[q] \in flows'[q.at]
               /\ q.dir = "bi" => opening[q] \in streams'[q.at]
               /\ opening[q] \notin flows'[Peer(q.at)] \cup streams'[Peer(q.at)]
               /\ \A i : i = opening[q] => \A x \in Ends : Unheard(x, i)'
               /\ \A r \in DOMAIN opening : opening[r] = opening[q] => r = q
    <3>1. /\ opening[q].by = q.at /\ opening[q].dir = q.dir
          /\ opening[q] \in flows[q.at]
          /\ q.dir = "bi" => opening[q] \in streams[q.at]
          /\ opening[q] \notin flows[Peer(q.at)] \cup streams[Peer(q.at)]
          /\ \A x \in Ends : Unheard(x, opening[q])
          /\ \A r \in DOMAIN opening : opening[r] = opening[q] => r = q
      BY <1>2 DEF OpeningInv
    <3>2. q.at = e \/ q.at = p
      BY <1>p, <2>1
    <3> QED BY <1>1, <1>p, <1>4, <2>1, <2>2, <3>1, <3>2
  <2>4. CASE opening' = opening
    BY <2>1, <2>3, <2>4 DEF OpeningInv
  <2>5. CASE /\ opening' = [q \in DOMAIN opening \cup {o} |-> IF q = o THEN id ELSE opening[q]]
             /\ flows'[e] = flows[e] \cup {id}
             /\ streams'[e] = IF o.dir = "bi" THEN streams[e] \cup {id} ELSE streams[e]
    <3>1. /\ id \in flows'[e] /\ (o.dir = "bi" => id \in streams'[e])
          /\ id \notin flows'[p] \cup streams'[p]
          /\ \A x \in Ends : Unheard(x, id)'
      BY <1>1, <1>p, <1>f, <2>2, <2>5
    <3>2. /\ DOMAIN opening' = DOMAIN opening \cup {o} /\ opening'[o] = id
          /\ \A q \in DOMAIN opening : q # o /\ opening'[q] = opening[q]
      BY <1>1, <2>5
    <3>3. ASSUME NEW q \in DOMAIN opening'
          PROVE  /\ opening'[q].by = q.at /\ opening'[q].dir = q.dir /\ Here(q.at, opening[q])'
                 /\ opening'[q] \in flows'[q.at]
                 /\ q.dir = "bi" => opening'[q] \in streams'[q.at]
                 /\ opening'[q] \notin flows'[Peer(q.at)] \cup streams'[Peer(q.at)]
                 /\ \A x \in Ends : Unheard(x, opening[q])'
                 /\ \A r \in DOMAIN opening' : opening'[r] = opening'[q] => r = q
      <4>1. CASE q = o
        BY <1>0, <1>3, <1>p, <2>1, <3>1, <3>2, <4>1 DEF e, p
      <4>2. CASE q # o
        BY <2>1, <2>3, <3>2, <4>2
      <4> QED BY <4>1, <4>2
    <3> QED BY <3>3 DEF OpeningInv
  <2> QED BY <1>1, <2>4, <2>5
<1>7. IdInv(e)'
  <2>1. \A i \in flows[e] \cup Sending(e) \cup streams[e] \cup recvs[e] : i \in StreamId
    BY <1>2, <1>e DEF TypeOK, TableType, AppType, NetType, IdSets, Sending
  <2>2. Sending(e)' = Sending(e)
    BY <1>1 DEF Sending
  <2>3. /\ \A i \in flows[e] \cup Sending(e) : Sender(e, i) /\ Here(e, i)
        /\ \A i \in streams[e] \cup recvs[e] : Receiver(e, i) /\ Here(e, i)
    BY <1>2 DEF Part, IdInv
  <2>4. Sender(e, id) /\ (o.dir = "bi" => Receiver(e, id))
    BY <1>0 DEF Sender, Receiver
  <2>5. /\ \A i \in flows'[e] \cup Sending(e) : Sender(e, i) /\ Here(e, i)'
        /\ \A i \in streams'[e] \cup recvs[e] : Receiver(e, i) /\ Here(e, i)'
    BY <1>3, <1>4, <1>e, <2>1, <2>3, <2>4
  <2> QED BY <1>1, <1>2, <1>p, <2>2, <2>5 DEF Part, IdInv
<1>8. FrameInv(e)'
  <2>1. \A i \in 1..Len(net[e]) : net[e][i].id \in StreamId
    BY <1>2, <1>e, FrameTypes
  <2> QED BY <1>1, <1>2, <1>3, <1>4, <1>e, <2>1 DEF Part, FrameInv
<1>9. AcceptInv(e)'
  <2>1. \A d \in Dirs : \A i \in 1..Len(accept[e][d]) : accept[e][d][i] \in StreamId
    BY <1>2, <1>e DEF TypeOK, TableType
  <2> QED BY <1>1, <1>2, <1>3, <1>4, <1>e, <2>1 DEF Part, AcceptInv
<1>10. AnnounceInv(e)' /\ FinalInv(e)'
  BY <1>1, <1>2, <1>4, <1>e, <1>p, <1>f DEF Part, AnnounceInv, FinalInv, Sending, Unheard
<1>11. PairInv(e)'
  <2>1. \A i : Kept(e, i) => Kept(e, i)'
    BY <1>1, <1>4 DEF Kept
  <2>2. \A i \in flows'[e] \ finning[e] :
           \/ i \in streams[p]
           \/ i.by = e /\ (Claimed(i)' \/ In(e, "open", i))
    BY <1>0, <1>2, <1>4, <1>p DEF Part, PairInv
  <2> QED BY <1>1, <1>2, <1>4, <1>p, <2>1, <2>2 DEF Part, PairInv
<1> QED BY <1>e, <1>5, <1>6, <1>7, <1>8, <1>9, <1>10, <1>11, <1>p DEF Core, Part

-----------------------------------------------------------------------------
(* Steps that send a frame *)

(* A frame is published.                                                    *)
LEMMA Pushed ==
    ASSUME TypeOK, NEW e \in Ends, NEW id \in StreamId,
           NEW type \in {"open", "fin", "reset", "stop"}, Push(e, type, id)
    PROVE  /\ net'[Peer(e)] = net[Peer(e)] /\ Len(net[e]) \in Nat
           /\ Len(net'[e]) = Len(net[e]) + 1
           /\ net'[e][Len(net[e]) + 1].t = type /\ net'[e][Len(net[e]) + 1].id = id
           /\ \A i \in 1..Len(net[e]) : net'[e][i] = net[e][i]
           /\ \A t, i : \A k \in 0..Len(net[e]) : Has(net'[e], t, i, k) <=> Has(net[e], t, i, k)
           /\ \A t, i : In(e, t, i)' <=> In(e, t, i) \/ (t = type /\ i = id)
           /\ \A t, i : In(Peer(e), t, i)' <=> In(Peer(e), t, i)
<1> DEFINE f == [t |-> type, id |-> id]
<1>1. f \in Frame /\ net[e] \in Seq(Frame) /\ f.t = type /\ f.id = id
  BY FrameTypes DEF Frame
<1>2. net'[e] = Append(net[e], f) /\ net'[Peer(e)] = net[Peer(e)]
  BY PeerFacts DEF Push, TypeOK, NetType
<1> HIDE DEF f
<1>3. /\ Len(net[e]) \in Nat /\ Len(net'[e]) = Len(net[e]) + 1
      /\ net'[e][Len(net[e]) + 1] = f
      /\ \A i \in 1..Len(net[e]) : net'[e][i] = net[e][i]
      /\ \A t, i : \A k \in 0..Len(net[e]) : Has(net'[e], t, i, k) <=> Has(net[e], t, i, k)
      /\ \A t, i : Has(net'[e], t, i, Len(net[e]) + 1) <=>
            Has(net[e], t, i, Len(net[e])) \/ (f.t = t /\ f.id = i)
  <2> DEFINE q == net[e]
  <2>1. /\ Len(q) \in Nat /\ Len(Append(q, f)) = Len(q) + 1 /\ Append(q, f)[Len(q) + 1] = f
        /\ \A i \in 1..Len(q) : Append(q, f)[i] = q[i]
        /\ \A t, i : \A k \in 0..Len(q) : Has(Append(q, f), t, i, k) <=> Has(q, t, i, k)
        /\ \A t, i : Has(Append(q, f), t, i, Len(q) + 1) <=>
              Has(q, t, i, Len(q)) \/ (f.t = t /\ f.id = i)
    <3> HIDE DEF q
    <3>1. q \in Seq(Frame)
      BY <1>1 DEF q
    <3> QED BY <1>1, <3>1, HasAppend
  <2> QED BY <1>2, <2>1
<1>4. /\ \A t, i : In(e, t, i)' <=> In(e, t, i) \/ (t = type /\ i = id)
      /\ \A t, i : In(Peer(e), t, i)' <=> In(Peer(e), t, i)
  BY <1>1, <1>2, <1>3 DEF In
<1> QED BY <1>1, <1>2, <1>3, <1>4

(* What a published frame leaves true of the ids and the frames.            *)
LEMMA PushedFrames ==
    ASSUME TypeOK, NEW e \in Ends, NEW id \in StreamId,
           NEW type \in {"open", "fin", "reset", "stop"}, Push(e, type, id),
           UNCHANGED <<nextId, nextPeer>>, FrameInv(e), Here(e, id),
           type = "open" => id.by = e,
           type \in {"fin", "reset"} => Sender(e, id),
           type = "stop" => Receiver(e, id),
           type # "open" => Announced(e, id, Len(net[e]))
    PROVE  /\ FrameInv(e)'
           /\ \A x, i : Here(x, i)' <=> Here(x, i)
           /\ \A i : Announced(e, i, Len(net[e])) => Announced(e, i, Len(net[e]))'
           /\ type = "open" => Announced(e, id, Len(net[e]))'
<1> DEFINE L == Len(net[e])
<1>1. /\ L \in Nat /\ Len(net'[e]) = L + 1
      /\ net'[e][L + 1].t = type /\ net'[e][L + 1].id = id
      /\ \A i \in 1..L : net'[e][i] = net[e][i]
      /\ \A t, i : \A k \in 0..L : Has(net'[e], t, i, k) <=> Has(net[e], t, i, k)
      /\ \A t, i : In(e, t, i)' <=> In(e, t, i) \/ (t = type /\ i = id)
  BY Pushed
<1>2. \A x, i : Here(x, i)' <=> Here(x, i)
  BY DEF Here
<1>3. \A i : /\ Announced(e, i, Len(net[e])) => Announced(e, i, Len(net[e]))'
             /\ type = "open" => Announced(e, id, Len(net[e]))'
  BY <1>1 DEF Announced, In
<1>4. ASSUME NEW i \in 1..L + 1
      PROVE  /\ Here(e, net[e][i].id)'
             /\ net'[e][i].t = "open" => net'[e][i].id.by = e
             /\ net'[e][i].t \in {"fin", "reset"} => Sender(e, net'[e][i].id)
             /\ net'[e][i].t = "stop" => Receiver(e, net'[e][i].id)
             /\ net'[e][i].t # "open" =>
                   (net'[e][i].id.by = e =>
                      \/ net'[e][i].id.n < nextPeer'[Peer(e)][net'[e][i].id.dir]
                      \/ Has(net'[e], "open", net'[e][i].id, i - 1))
  <2>1. CASE i \in 1..L
    <3>1. i - 1 \in 0..L /\ net'[e][i] = net[e][i]
      BY <1>1, <2>1
    <3> HIDE DEF L
    <3> QED BY <1>1, <1>2, <2>1, <3>1 DEF FrameInv, Announced, L
  <2>2. CASE i = L + 1
    <3>1. i - 1 = L /\ L \in 0..L /\ net'[e][i].t = type /\ net'[e][i].id = id
      BY <1>1, <2>2
    <3> QED BY <1>1, <1>2, <3>1 DEF Announced
  <2> QED BY <1>1, <2>1, <2>2
<1>5. FrameInv(e)'
  BY <1>1, <1>4 DEF FrameInv, Announced
<1> QED BY <1>2, <1>3, <1>5

(* A RESET is published for a stream the endpoint does not have any more.   *)
LEMMA ResetSent ==
    ASSUME Core, TypeOK', NEW e \in Ends, NEW id \in Sending(e), Push(e, "reset", id),
           flows'[e] = flows[e] \ {id} /\ flows'[Peer(e)] = flows[Peer(e)],
           sends'[e] \in {sends[e], sends[e] \ {id}} /\ sends'[Peer(e)] = sends[Peer(e)],
           resetting'[e] \in {resetting[e], resetting[e] \ {id}},
           resetting'[Peer(e)] = resetting[Peer(e)],
           inbound'[e] \in {inbound[e], inbound[e] \ {id}} /\ inbound'[Peer(e)] = inbound[Peer(e)],
           UNCHANGED <<nextId, nextPeer, streams, accept, opening, recvs, finning>>
    PROVE  Core'
<1> DEFINE p == Peer(e)
<1>p. p \in Ends /\ p # e /\ Peer(p) = e /\ Peer(e) = p /\ \A x \in Ends : x = e \/ x = p
  BY PeerFacts
<1> HIDE DEF p
<1>1. /\ flows'[e] = flows[e] \ {id} /\ flows'[p] = flows[p]
      /\ sends'[e] \subseteq sends[e] /\ sends'[p] = sends[p]
      /\ resetting'[e] \subseteq resetting[e] /\ resetting[e] \subseteq resetting'[e] \cup {id}
      /\ inbound'[e] \subseteq inbound[e] /\ inbound[e] \subseteq inbound'[e] \cup {id}
      /\ resetting'[p] = resetting[p] /\ inbound'[p] = inbound[p]
      /\ Sending(e)' \subseteq Sending(e)
  BY <1>p DEF Sending
<1>2. /\ Part(e) /\ Part(p) /\ OpeningInv /\ TypeOK /\ id \in StreamId
      /\ Sender(e, id) /\ Here(e, id) /\ Announced(e, id, Len(net[e]))
  <2>1. Part(e) /\ Part(p) /\ OpeningInv /\ TypeOK
    BY <1>p DEF Core
  <2>2. id \in StreamId
    BY <2>1 DEF TypeOK, AppType, NetType, IdSets, Sending
  <2> QED BY <2>1, <2>2 DEF Part, IdInv, AnnounceInv
<1>n. /\ net'[p] = net[p] /\ Len(net[e]) \in Nat /\ Len(net'[e]) = Len(net[e]) + 1
      /\ net'[e][Len(net[e]) + 1].t = "reset" /\ net'[e][Len(net[e]) + 1].id = id
      /\ \A i \in 1..Len(net[e]) : net'[e][i] = net[e][i]
      /\ \A t, i : \A k \in 0..Len(net[e]) : Has(net'[e], t, i, k) <=> Has(net[e], t, i, k)
      /\ \A t, i : In(e, t, i)' <=> In(e, t, i) \/ (t = "reset" /\ i = id)
      /\ \A t, i : In(p, t, i)' <=> In(p, t, i)
  BY <1>2, Pushed DEF p
<1>3. /\ FrameInv(e)'
      /\ \A x, i : Here(x, i)' <=> Here(x, i)
      /\ \A i : Announced(e, i, Len(net[e])) => Announced(e, i, Len(net[e]))'
      /\ \A i : Claimed(i)' <=> Claimed(i)
  BY <1>2, PushedFrames DEF Claimed, Part
<1>4. Part(p)'
  <2>1. Untouched(p) /\ \A d \in Dirs : nextId[e][d] <= nextId'[e][d]
    BY <1>1, <1>2, <1>p DEF Untouched, TypeOK, TableType
  <2> QED BY <1>1, <1>2, <1>3, <1>n, <1>p, <2>1, PeerSide
<1>5. OpeningInv'
  <2>1. ASSUME NEW i \in StreamId, \A y \in Ends : Unheard(y, i)
        PROVE  /\ i # id /\ \A x \in Ends : Unheard(x, i)'
    <3>1. i # id
      BY <2>1 DEF Unheard
    <3>2. Unheard(e, i)'
      BY <1>1, <1>n, <2>1, <3>1 DEF Unheard
    <3>3. Unheard(p, i)'
      BY <1>1, <1>n, <1>p, <2>1 DEF Unheard, Sending
    <3> QED BY <1>p, <3>1, <3>2, <3>3
  <2>2. \A i \in StreamId : (\A y \in Ends : Unheard(y, i)) =>
          \A x \in Ends : /\ Unheard(x, i)'
                          /\ i \in flows'[x] <=> i \in flows[x]
                          /\ i \in streams'[x] <=> i \in streams[x]
    BY <1>1, <1>p, <2>1
  <2> QED BY <1>2, <1>3, <2>2, OpeningKept
<1>6. IdInv(e)' /\ AcceptInv(e)' /\ AnnounceInv(e)'
  BY <1>1, <1>2, <1>3, <1>n, <1>p DEF Part, IdInv, AcceptInv, AnnounceInv
<1>7. FinalInv(e)'
  <2>1. \A i \in 1..Len(net'[e]) : net'[e][i].t = "fin" =>
          /\ \/ net'[e][i].id \in streams[p]
             \/ Has(net'[e], "open", net'[e][i].id, i - 1)
          /\ ~Has(net'[e], "fin", net'[e][i].id, i - 1)
          /\ ~Has(net'[e], "reset", net'[e][i].id, i - 1)
    <3> SUFFICES ASSUME NEW i \in 1..Len(net[e]), net[e][i].t = "fin"
                 PROVE  /\ \/ net[e][i].id \in streams[p]
                           \/ Has(net'[e], "open", net[e][i].id, i - 1)
                        /\ ~Has(net'[e], "fin", net[e][i].id, i - 1)
                        /\ ~Has(net'[e], "reset", net[e][i].id, i - 1)
      BY <1>n
    <3>1. i - 1 \in 0..Len(net[e])
      BY <1>n
    <3> QED BY <1>2, <1>n, <1>p, <3>1 DEF Part, FinalInv
  <2>2. /\ \A i \in sends'[e] : i \notin finning[e] /\ ~In(e, "fin", i)'
        /\ \A i \in flows'[e] :
              /\ i \notin resetting'[e] \cup inbound'[e] /\ ~In(e, "reset", i)'
              /\ In(e, "fin", i)' => i \in finning[e]
        /\ \A i \in finning[e] :
              \/ In(e, "fin", i)'
              \/ /\ i \notin streams[p]
                 /\ i.by = e => i.n < nextPeer[p][i.dir]
    BY <1>1, <1>2, <1>n, <1>p DEF Part, FinalInv
  <2> QED BY <1>p, <2>1, <2>2 DEF FinalInv
<1>8. PairInv(e)'
  <2>1. \A i : Kept(e, i) => Kept(e, i)'
    BY <1>1, <1>n DEF Kept
  <2> QED BY <1>1, <1>2, <1>3, <1>n, <1>p, <2>1 DEF Part, PairInv
<1> QED BY <1>3, <1>4, <1>5, <1>6, <1>7, <1>8, <1>p DEF Core, Part

(* A stream is finished: its peer has the entry that the FIN ends, or will  *)
(* have it when it has read the OPEN ahead of the FIN.                      *)
LEMMA FinishKeeps ==
    ASSUME Core, TypeOK', NEW e \in Ends, NEW id \in sends[e], Finish(e, id)
    PROVE  Core'
<1> DEFINE p == Peer(e)
<1>p. p \in Ends /\ p # e /\ Peer(p) = e /\ Peer(e) = p /\ \A x \in Ends : x = e \/ x = p
  BY PeerFacts
<1> HIDE DEF p
<1>1. /\ sends'[e] = sends[e] \ {id} /\ finning'[e] = finning[e] \cup {id}
      /\ sends'[p] = sends[p] /\ finning'[p] = finning[p] /\ Push(e, "fin", id)
      /\ id \in flows[e]
      /\ UNCHANGED <<nextId, nextPeer, flows, streams, accept, opening>>
      /\ UNCHANGED <<recvs, resetting, inbound>>
  BY <1>p, IdSetFacts DEF Finish, Core, TypeOK, AppType, tables
<1>2. /\ Part(e) /\ Part(p) /\ OpeningInv /\ TypeOK /\ id \in StreamId
      /\ Sender(e, id) /\ Here(e, id) /\ Announced(e, id, Len(net[e]))
      /\ Sending(e)' = Sending(e)
  <2>1. Part(e) /\ Part(p) /\ OpeningInv /\ TypeOK
    BY <1>p DEF Core
  <2>2. id \in StreamId
    BY <2>1 DEF TypeOK, AppType, NetType, IdSets
  <2> QED BY <1>1, <2>1, <2>2 DEF Part, IdInv, AnnounceInv, Sending
<1>n. /\ net'[p] = net[p] /\ Len(net[e]) \in Nat /\ Len(net'[e]) = Len(net[e]) + 1
      /\ net'[e][Len(net[e]) + 1].t = "fin" /\ net'[e][Len(net[e]) + 1].id = id
      /\ \A i \in 1..Len(net[e]) : net'[e][i] = net[e][i]
      /\ \A t, i : \A k \in 0..Len(net[e]) : Has(net'[e], t, i, k) <=> Has(net[e], t, i, k)
      /\ \A t, i : In(e, t, i)' <=> In(e, t, i) \/ (t = "fin" /\ i = id)
      /\ \A t, i : In(p, t, i)' <=> In(p, t, i)
  BY <1>1, <1>2, Pushed DEF p
<1>3. /\ FrameInv(e)'
      /\ \A x, i : Here(x, i)' <=> Here(x, i)
      /\ \A i : Announced(e, i, Len(net[e])) => Announced(e, i, Len(net[e]))'
      /\ \A i : Claimed(i)' <=> Claimed(i)
  BY <1>1, <1>2, PushedFrames DEF Claimed, Part
<1>4. Part(p)'
  <2>1. Untouched(p) /\ \A d \in Dirs : nextId[e][d] <= nextId'[e][d]
    BY <1>1, <1>2, <1>p DEF Untouched, TypeOK, TableType
  <2> QED BY <1>1, <1>2, <1>3, <1>n, <1>p, <2>1, PeerSide
<1>5. OpeningInv'
  <2>1. ASSUME NEW i \in StreamId, \A y \in Ends : Unheard(y, i)
        PROVE  \A x \in Ends : Unheard(x, i)'
    <3>1. i # id
      BY <2>1 DEF Unheard, Sending
    <3>2. Unheard(e, i)'
      BY <1>1, <1>2, <1>n, <2>1, <3>1 DEF Unheard
    <3>3. Unheard(p, i)'
      BY <1>1, <1>n, <1>p, <2>1 DEF Unheard, Sending
    <3> QED BY <1>p, <3>2, <3>3
  <2> QED BY <1>1, <1>2, <1>3, <2>1, OpeningKept
<1>6. IdInv(e)' /\ AcceptInv(e)' /\ AnnounceInv(e)'
  BY <1>1, <1>2, <1>3, <1>n, <1>p DEF Part, IdInv, AcceptInv, AnnounceInv
<1>7. FinalInv(e)'
  <2>0. /\ id \notin finning[e] /\ ~In(e, "fin", id) /\ ~In(e, "reset", id) /\ ~Claimed(id)
        /\ id \in streams[p] \/ In(e, "open", id)
    <3>1. id \notin finning[e] /\ ~In(e, "fin", id) /\ ~In(e, "reset", id)
      BY <1>1, <1>2 DEF Part, FinalInv
    <3>2. ~Claimed(id)
      BY <1>2 DEF OpeningInv, Claimed, Unheard, Sending
    <3> QED BY <1>1, <1>2, <1>p, <3>1, <3>2 DEF Part, PairInv
  <2>1. ASSUME NEW i \in 1..Len(net'[e]), net'[e][i].t = "fin"
        PROVE  /\ \/ net'[e][i].id \in streams[p]
                  \/ Has(net'[e], "open", net'[e][i].id, i - 1)
               /\ ~Has(net'[e], "fin", net'[e][i].id, i - 1)
               /\ ~Has(net'[e], "reset", net'[e][i].id, i - 1)
    <3>1. i - 1 \in 0..Len(net[e])
      BY <1>n
    <3>2. CASE i \in 1..Len(net[e])
      BY <1>2, <1>n, <1>p, <2>1, <3>1, <3>2 DEF Part, FinalInv
    <3>3. CASE i = Len(net[e]) + 1
      <4>1. i - 1 = Len(net[e]) /\ net'[e][i].id = id
        BY <1>n, <3>3
      <4> QED BY <1>n, <2>0, <3>1, <4>1 DEF In
    <3> QED BY <1>n, <3>2, <3>3
  <2>2. /\ \A i \in sends'[e] : i \notin finning'[e] /\ ~In(e, "fin", i)'
        /\ \A i \in flows'[e] :
              /\ i \notin resetting'[e] \cup inbound'[e] /\ ~In(e, "reset", i)'
              /\ In(e, "fin", i)' => i \in finning'[e]
        /\ \A i \in finning'[e] :
              \/ In(e, "fin", i)'
              \/ /\ i \notin streams[p]
                 /\ i.by = e => i.n < nextPeer[p][i.dir]
    BY <1>1, <1>2, <1>n, <1>p DEF Part, FinalInv
  <2> QED BY <1>1, <1>p, <2>1, <2>2 DEF FinalInv
<1>8. PairInv(e)'
  <2>1. \A i : Kept(e, i) => Kept(e, i)'
    BY <1>1, <1>n DEF Kept
  <2> QED BY <1>1, <1>2, <1>3, <1>n, <1>p, <2>1 DEF Part, PairInv
<1> QED BY <1>3, <1>4, <1>5, <1>6, <1>7, <1>8, <1>p DEF Core, Part

(* A receive stream is given up, with a StopSending if it has an entry.     *)
LEMMA StopKeeps ==
    ASSUME Core, TypeOK', NEW e \in Ends, NEW id \in recvs[e], Stop(e, id)
    PROVE  Core'
<1> DEFINE p == Peer(e)
<1>p. p \in Ends /\ p # e /\ Peer(p) = e /\ Peer(e) = p /\ \A x \in Ends : x = e \/ x = p
  BY PeerFacts
<1> HIDE DEF p
<1>1. /\ recvs'[e] = recvs[e] \ {id} /\ recvs'[p] = recvs[p]
      /\ Push(e, "stop", id) \/ net' = net
      /\ UNCHANGED <<nextId, nextPeer, flows, streams, accept, opening>>
      /\ UNCHANGED <<sends, finning, resetting, inbound>>
  BY <1>p, IdSetFacts DEF Stop, Core, TypeOK, AppType
<1>2. /\ Part(e) /\ Part(p) /\ OpeningInv /\ TypeOK /\ id \in StreamId
      /\ Receiver(e, id) /\ Here(e, id) /\ Announced(e, id, Len(net[e]))
      /\ Sending(e)' = Sending(e)
  <2>1. Part(e) /\ Part(p) /\ OpeningInv /\ TypeOK
    BY <1>p DEF Core
  <2>2. id \in StreamId
    BY <2>1 DEF TypeOK, AppType, NetType, IdSets
  <2> QED BY <1>1, <2>1, <2>2 DEF Part, IdInv, AnnounceInv, Sending
<1>n. /\ net'[p] = net[p] /\ Len(net[e]) \in Nat
      /\ Len(net'[e]) \in {Len(net[e]), Len(net[e]) + 1}
      /\ Len(net'[e]) = Len(net[e]) + 1 =>
            net'[e][Len(net[e]) + 1].t = "stop" /\ net'[e][Len(net[e]) + 1].id = id
      /\ \A i \in 1..Len(net[e]) : net'[e][i] = net[e][i]
      /\ \A t, i : \A k \in 0..Len(net[e]) : Has(net'[e], t, i, k) <=> Has(net[e], t, i, k)
      /\ \A t, i : t # "stop" => (In(e, t, i)' <=> In(e, t, i))
      /\ \A t, i : In(p, t, i)' <=> In(p, t, i)
  <2>1. CASE Push(e, "stop", id)
    <3>1. /\ net'[p] = net[p] /\ Len(net[e]) \in Nat /\ Len(net'[e]) = Len(net[e]) + 1
          /\ net'[e][Len(net[e]) + 1].t = "stop" /\ net'[e][Len(net[e]) + 1].id = id
          /\ \A i \in 1..Len(net[e]) : net'[e][i] = net[e][i]
          /\ \A t, i : \A k \in 0..Len(net[e]) : Has(net'[e], t, i, k) <=> Has(net[e], t, i, k)
          /\ \A t, i : In(e, t, i)' <=> In(e, t, i) \/ (t = "stop" /\ i = id)
          /\ \A t, i : In(p, t, i)' <=> In(p, t, i)
      BY <1>2, <2>1, Pushed DEF p
    <3> QED BY <3>1
  <2>2. CASE net' = net
    <3>1. Len(net[e]) \in Nat
      BY <1>2, FrameTypes
    <3> QED BY <2>2, <3>1 DEF In
  <2> QED BY <1>1, <2>1, <2>2
<1>3. /\ FrameInv(e)'
      /\ \A x, i : Here(x, i)' <=> Here(x, i)
      /\ \A i : Announced(e, i, Len(net[e])) => Announced(e, i, Len(net[e]))'
      /\ \A i : Claimed(i)' <=> Claimed(i)
  <2>1. CASE Push(e, "stop", id)
    BY <1>1, <1>2, <2>1, PushedFrames DEF Claimed, Part
  <2>2. CASE net' = net
    BY <1>1, <1>2, <2>2, QuietFacts DEF Claimed, Part
  <2> QED BY <1>1, <2>1, <2>2
<1>4. Part(p)'
  <2>1. Untouched(p) /\ \A d \in Dirs : nextId[e][d] <= nextId'[e][d]
    BY <1>1, <1>2, <1>p DEF Untouched, TypeOK, TableType
  <2> QED BY <1>1, <1>2, <1>3, <1>n, <1>p, <2>1, PeerSide
<1>5. OpeningInv'
  <2>1. ASSUME NEW i \in StreamId, \A y \in Ends : Unheard(y, i)
        PROVE  \A x \in Ends : Unheard(x, i)'
    <3>1. i # id
      BY <2>1 DEF Unheard, Sending
    <3>2. Unheard(e, i)'
      BY <1>1, <1>2, <1>n, <2>1, <3>1 DEF Unheard
    <3>3. Unheard(p, i)'
      BY <1>1, <1>n, <1>p, <2>1 DEF Unheard, Sending
    <3> QED BY <1>p, <3>2, <3>3
  <2> QED BY <1>1, <1>2, <1>3, <2>1, OpeningKept
<1>6. IdInv(e)' /\ AcceptInv(e)' /\ AnnounceInv(e)'
  BY <1>1, <1>2, <1>3, <1>n, <1>p DEF Part, IdInv, AcceptInv, AnnounceInv
<1>7. FinalInv(e)'
  <2>1. ASSUME NEW i \in 1..Len(net'[e]), net'[e][i].t = "fin"
        PROVE  /\ \/ net'[e][i].id \in streams[p]
                  \/ Has(net'[e], "open", net'[e][i].id, i - 1)
               /\ ~Has(net'[e], "fin", net'[e][i].id, i - 1)
               /\ ~Has(net'[e], "reset", net'[e][i].id, i - 1)
    <3>1. i \in 1..Len(net[e]) /\ i - 1 \in 0..Len(net[e])
      BY <1>n, <2>1
    <3> QED BY <1>2, <1>n, <1>p, <2>1, <3>1 DEF Part, FinalInv
  <2>2. /\ \A i \in sends'[e] : i \notin finning'[e] /\ ~In(e, "fin", i)'
        /\ \A i \in flows'[e] :
              /\ i \notin resetting'[e] \cup inbound'[e] /\ ~In(e, "reset", i)'
              /\ In(e, "fin", i)' => i \in finning'[e]
        /\ \A i \in finning'[e] :
              \/ In(e, "fin", i)'
              \/ /\ i \notin streams[p]
                 /\ i.by = e => i.n < nextPeer[p][i.dir]
    BY <1>1, <1>2, <1>n, <1>p DEF Part, FinalInv
  <2> QED BY <1>1, <1>p, <2>1, <2>2 DEF FinalInv
<1>8. PairInv(e)'
  <2>1. \A i : Kept(e, i) => Kept(e, i)'
    BY <1>1, <1>n DEF Kept
  <2> QED BY <1>1, <1>2, <1>3, <1>n, <1>p, <2>1 DEF Part, PairInv
<1> QED BY <1>3, <1>4, <1>5, <1>6, <1>7, <1>8, <1>p DEF Core, Part

(* The OPEN of a registered id is published, and the application has the    *)
(* stream.                                                                  *)
LEMMA PublishOpenKeeps ==
    ASSUME Core, TypeOK', NEW o \in Opener, PublishOpen(o)
    PROVE  Core'
<1> DEFINE e == o.at
           p == Peer(e)
<1>i. PICK id : id = opening[o]
  OBVIOUS
<1>e. e \in Ends /\ o.dir \in Dirs /\ o \in DOMAIN opening
  BY DEF Opener, PublishOpen
<1>p. p \in Ends /\ p # e /\ Peer(p) = e /\ Peer(e) = p /\ \A x \in Ends : x = e \/ x = p
  BY <1>e, PeerFacts
<1>1. /\ sends'[e] = sends[e] \cup {id} /\ sends'[p] = sends[p]
      /\ recvs'[e] = (IF o.dir = "bi" THEN recvs[e] \cup {id} ELSE recvs[e])
      /\ recvs'[p] = recvs[p]
      /\ Push(e, "open", id)
      /\ opening' = [q \in DOMAIN opening \ {o} |-> opening[q]]
      /\ UNCHANGED <<nextId, nextPeer, flows, streams, accept, finning, resetting, inbound>>
  <2>1. recvs \in IdSets /\ sends \in IdSets
    BY DEF Core, TypeOK, AppType
  <2>2. /\ recvs' = (IF o.dir = "bi" THEN Add(recvs, e, id) ELSE recvs)
        /\ sends' = Add(sends, e, id) /\ Push(e, "open", id)
        /\ opening' = [q \in DOMAIN opening \ {o} |-> opening[q]]
        /\ UNCHANGED <<nextId, nextPeer, flows, streams, accept, finning, resetting, inbound>>
    BY <1>i DEF PublishOpen, tables
  <2> HIDE DEF e, p
  <2>3. /\ Add(recvs, e, id)[e] = recvs[e] \cup {id} /\ Add(recvs, e, id)[p] = recvs[p]
        /\ Add(sends, e, id)[e] = sends[e] \cup {id} /\ Add(sends, e, id)[p] = sends[p]
    BY <1>e, <1>p, <2>1, IdSetFacts
  <2> QED BY <2>2, <2>3
<1>2. /\ Part(e) /\ Part(p) /\ OpeningInv /\ TypeOK /\ id \in StreamId
      /\ id.by = e /\ id.dir = o.dir /\ Here(e, id) /\ id \in flows[e]
      /\ o.dir = "bi" => id \in streams[e]
      /\ id \notin flows[p] \cup streams[p]
      /\ \A x \in Ends : Unheard(x, id)
      /\ \A q \in DOMAIN opening : opening[q] = id => q = o
  <2>1. Part(e) /\ Part(p) /\ OpeningInv /\ TypeOK
    BY <1>e, <1>p DEF Core
  <2>2. id \in StreamId
    BY <1>i, <1>e, <2>1 DEF TypeOK, AppType
  <2> QED BY <1>i, <1>e, <2>1, <2>2 DEF OpeningInv
<1> HIDE DEF e, p
<1>n. /\ net'[p] = net[p] /\ Len(net[e]) \in Nat /\ Len(net'[e]) = Len(net[e]) + 1
      /\ net'[e][Len(net[e]) + 1].t = "open" /\ net'[e][Len(net[e]) + 1].id = id
      /\ \A i \in 1..Len(net[e]) : net'[e][i] = net[e][i]
      /\ \A t, i : \A k \in 0..Len(net[e]) : Has(net'[e], t, i, k) <=> Has(net[e], t, i, k)
      /\ \A t, i : In(e, t, i)' <=> In(e, t, i) \/ (t = "open" /\ i = id)
      /\ \A t, i : In(p, t, i)' <=> In(p, t, i)
  <2>1. TypeOK /\ e \in Ends /\ id \in StreamId /\ Push(e, "open", id)
    BY <1>1, <1>2, <1>e
  <2> QED BY ONLY <2>1, Pushed DEF p
<1>3. /\ FrameInv(e)'
      /\ \A x, i : Here(x, i)' <=> Here(x, i)
      /\ \A i : Announced(e, i, Len(net[e])) => Announced(e, i, Len(net[e]))'
      /\ Announced(e, id, Len(net[e]))'
  <2>1. FrameInv(e)
    BY <1>2 DEF Part
  <2> QED BY <1>1, <1>2, <1>e, <2>1, PushedFrames
<1>c. \A i : Claimed(i) => Claimed(i)' \/ i = id
  BY <1>1, <1>i DEF Claimed
<1>4. Part(p)'
  <2>1. Untouched(p) /\ \A d \in Dirs : nextId[e][d] <= nextId'[e][d]
    BY <1>1, <1>2, <1>e, <1>p DEF Untouched, TypeOK, TableType
  <2> QED BY <1>1, <1>2, <1>c, <1>n, <1>e, <1>p, <2>1, PeerSide
<1>5. OpeningInv'
  <2>1. ASSUME NEW q \in DOMAIN opening'
        PROVE  /\ q \in DOMAIN opening /\ q # o /\ opening'[q] = opening[q]
               /\ opening[q] # id /\ opening[q] \in StreamId /\ q.at \in Ends
    BY <1>1, <1>2 DEF TypeOK, AppType, Opener
  <2>2. ASSUME NEW i, i # id, \A x \in Ends : Unheard(x, i)
        PROVE  \A x \in Ends : Unheard(x, i)'
    <3>1. Unheard(e, i)'
      BY <1>1, <1>n, <1>e, <2>2 DEF Unheard, Sending
    <3>2. Unheard(p, i)'
      BY <1>1, <1>n, <1>p, <2>2 DEF Unheard, Sending
    <3> QED BY <1>p, <3>1, <3>2
  <2>3. ASSUME NEW q \in DOMAIN opening'
        PROVE  /\ opening'[q].by = q.at /\ opening'[q].dir = q.dir /\ Here(q.at, opening[q])'
               /\ opening'[q] \in flows'[q.at]
               /\ q.dir = "bi" => opening'[q] \in streams'[q.at]
               /\ opening'[q] \notin flows'[Peer(q.at)] \cup streams'[Peer(q.at)]
               /\ \A x \in Ends : Unheard(x, opening[q])'
               /\ \A r \in DOMAIN opening' : opening'[r] = opening'[q] => r = q
    <3>1. /\ opening[q].by = q.at /\ opening[q].dir = q.dir /\ Here(q.at, opening[q])
          /\ opening[q] \in flows[q.at]
          /\ q.dir = "bi" => opening[q] \in streams[q.at]
          /\ opening[q] \notin flows[Peer(q.at)] \cup streams[Peer(q.at)]
          /\ \A x \in Ends : Unheard(x, opening[q])
          /\ \A r \in DOMAIN opening : opening[r] = opening[q] => r = q
      BY <1>2, <2>1 DEF OpeningInv
    <3> QED BY <1>1, <1>3, <2>1, <2>2, <3>1
  <2> QED BY <2>3 DEF OpeningInv
<1>6. IdInv(e)'
  BY <1>1, <1>2, <1>3, <1>p DEF Part, IdInv, Sending, Sender, Receiver
<1>7. AcceptInv(e)'
  <2>1. \A d \in Dirs : \A i \in 1..Len(accept[e][d]) : accept[e][d][i] # id
    BY <1>2, <1>e DEF Unheard
  <2> QED BY <1>1, <1>2, <1>3, <1>n, <1>p, <2>1 DEF Part, AcceptInv
<1>8. AnnounceInv(e)'
  BY <1>1, <1>2, <1>3, <1>c DEF Part, AnnounceInv, Sending
<1>9. FinalInv(e)'
  <2>1. ASSUME NEW i \in 1..Len(net'[e]), net'[e][i].t = "fin"
        PROVE  /\ \/ net'[e][i].id \in streams[p]
                  \/ Has(net'[e], "open", net'[e][i].id, i - 1)
               /\ ~Has(net'[e], "fin", net'[e][i].id, i - 1)
               /\ ~Has(net'[e], "reset", net'[e][i].id, i - 1)
    <3>1. i # Len(net[e]) + 1
      BY <1>n, <2>1
    <3>2. i \in 1..Len(net[e]) /\ i - 1 \in 0..Len(net[e])
      BY <1>n, <3>1
    <3> QED BY <1>2, <1>n, <1>p, <2>1, <3>2 DEF Part, FinalInv
  <2>2. id \notin finning[e] /\ ~In(e, "fin", id)
    BY <1>2, <1>e DEF Unheard, Sending, In, Has
  <2>3. /\ \A i \in sends'[e] : i \notin finning'[e] /\ ~In(e, "fin", i)'
        /\ \A i \in flows'[e] :
              /\ i \notin resetting'[e] \cup inbound'[e] /\ ~In(e, "reset", i)'
              /\ In(e, "fin", i)' => i \in finning'[e]
        /\ \A i \in finning'[e] :
              \/ In(e, "fin", i)'
              \/ /\ i \notin streams[p]
                 /\ i.by = e => i.n < nextPeer[p][i.dir]
    BY <1>1, <1>2, <1>n, <1>p, <2>2 DEF Part, FinalInv
  <2> QED BY <1>1, <1>p, <2>1, <2>3 DEF FinalInv
<1>10. PairInv(e)'
  <2>1. (\A i : Kept(e, i) => Kept(e, i)') /\ Kept(e, id)'
    BY <1>1, <1>2, <1>n DEF Kept
  <2>2. \A i \in streams[p] : \/ Kept(e, i)'
                              \/ i.by = p /\ (Claimed(i)' \/ In(p, "open", i))
    BY <1>2, <1>c, <1>p, <2>1 DEF Part, PairInv
  <2>3. \A i \in flows[e] \ finning[e] :
           \/ i \in streams[p]
           \/ i.by = e /\ (Claimed(i)' \/ In(e, "open", i)')
    BY <1>2, <1>c, <1>n, <1>p DEF Part, PairInv
  <2>4. \A i \in StreamId :
          In(e, "open", i)' /\ i.n >= nextPeer[p][i.dir] =>
             Kept(e, i)' /\ (i.dir = "bi" => i \in streams[e])
    BY <1>2, <1>n, <1>p, <2>1 DEF Part, PairInv
  <2> QED BY <1>1, <1>n, <1>p, <2>2, <2>3, <2>4 DEF PairInv
<1> QED BY <1>e, <1>3, <1>4, <1>5, <1>6, <1>7, <1>8, <1>9, <1>10, <1>p DEF Core, Part

-----------------------------------------------------------------------------
(* Steps that read a frame *)

(* r is the queue q without its first frame f.                              *)
Shifted(q, r, f) ==
    \A t, i : \A k \in 0..Len(r) :
       Has(q, t, i, k + 1) <=> Has(r, t, i, k) \/ (f.t = t /\ f.id = i)

(* The oldest frame of the peer is taken from its queue.                    *)
LEMMA Taken ==
    ASSUME TypeOK, NEW e \in Ends, NEW p, p = Peer(e), net[p] # <<>>, Consume(e),
           NEW f, f = Incoming(e)
    PROVE  /\ net'[e] = net[e] /\ Len(net[p]) \in Nat \ {0} /\ Len(net'[p]) = Len(net[p]) - 1
           /\ 1 \in 1..Len(net[p]) /\ f = net[p][1] /\ f \in Frame /\ f.id \in StreamId
           /\ f.t \in {"open", "fin", "reset", "stop"}
           /\ \A i \in 1..Len(net'[p]) :
                 /\ i \in Nat \ {0} /\ i - 1 \in 0..Len(net'[p]) /\ i + 1 \in 1..Len(net[p])
                 /\ net'[p][i] = net[p][i + 1]
           /\ Shifted(net[p], net'[p], f)
           /\ \A t, i : In(p, t, i) <=> In(p, t, i)' \/ (f.t = t /\ f.id = i)
           /\ \A t, i : In(e, t, i)' <=> In(e, t, i)
<1>1. p \in Ends /\ p # e
  BY PeerFacts
<1>2. net'[p] = Tail(net[p]) /\ net'[e] = net[e] /\ f = Head(net[p])
  BY <1>1 DEF Consume, Incoming, TypeOK, NetType
<1>3. net[p] \in Seq(Frame)
  BY <1>1, FrameTypes
<1>4. /\ Len(net[p]) \in Nat \ {0} /\ Len(net'[p]) = Len(net[p]) - 1
      /\ f = net[p][1] /\ f \in Frame
      /\ \A i \in 1..Len(net'[p]) : i + 1 \in 1..Len(net[p]) /\ net'[p][i] = net[p][i + 1]
      /\ \A t, i : \A k \in 0..Len(net'[p]) :
            Has(net[p], t, i, k + 1) <=> Has(net'[p], t, i, k) \/ (f.t = t /\ f.id = i)
  <2> DEFINE q == net[p]
  <2>1. /\ Tail(q) \in Seq(Frame) /\ Len(q) \in Nat \ {0}
        /\ Len(Tail(q)) = Len(q) - 1 /\ Head(q) = q[1] /\ q[1] \in Frame
        /\ \A i \in 1..Len(Tail(q)) : i + 1 \in 1..Len(q) /\ Tail(q)[i] = q[i + 1]
        /\ \A t, i : \A k \in 0..Len(Tail(q)) : Has(q, t, i, k + 1) <=>
              Has(Tail(q), t, i, k) \/ (q[1].t = t /\ q[1].id = i)
    <3> HIDE DEF q
    <3>1. q \in Seq(Frame) /\ q # <<>>
      BY <1>3 DEF q
    <3> QED BY <3>1, HasTail
  <2> QED BY <1>2, <2>1
<1>5. /\ Len(net'[p]) \in 0..Len(net'[p]) /\ Len(net'[p]) + 1 = Len(net[p])
      /\ 1 \in 1..Len(net[p])
      /\ \A i \in 1..Len(net'[p]) : i \in Nat \ {0} /\ i - 1 \in 0..Len(net'[p])
  BY <1>4
<1>6. /\ \A t, i : In(p, t, i) <=> In(p, t, i)' \/ (f.t = t /\ f.id = i)
      /\ \A t, i : In(e, t, i)' <=> In(e, t, i)
  <2>1. \A t, i : Has(net[p], t, i, Len(net'[p]) + 1) <=>
           Has(net'[p], t, i, Len(net'[p])) \/ (f.t = t /\ f.id = i)
    BY <1>4, <1>5
  <2> QED BY <1>2, <1>5, <2>1 DEF In
<1>7. f.id \in StreamId /\ f.t \in {"open", "fin", "reset", "stop"}
  BY <1>4 DEF Frame
<1>8. Shifted(net[p], net'[p], f)
  BY <1>4 DEF Shifted
<1> QED BY <1>2, <1>4, <1>5, <1>6, <1>7, <1>8

(* What the frame at the head of a queue says of its id.                    *)
LEMMA HeadFacts ==
    ASSUME Core, NEW e \in Ends, NEW p, p = Peer(e), net[p] # <<>>, NEW f, f = Incoming(e)
    PROVE  /\ f = net[p][1] /\ f.id \in StreamId /\ In(p, f.t, f.id) /\ Here(p, f.id)
           /\ f.t \in {"open", "fin", "reset", "stop"}
           /\ f.t = "open" => f.id.by = p
           /\ f.t \in {"fin", "reset"} => Sender(p, f.id)
           /\ f.t = "stop" => Receiver(p, f.id)
           /\ f.t # "open" /\ f.id.by = p => f.id.n < nextPeer[e][f.id.dir]
           /\ f.t = "fin" => f.id \in streams[e]
           /\ ~Unheard(p, f.id) /\ ~Claimed(f.id)
<1>1. p \in Ends /\ p # e /\ Peer(p) = e
  BY PeerFacts
<1>2. net[p] \in Seq(Frame)
  BY <1>1, FrameTypes DEF Core
<1>3. /\ f = net[p][1] /\ 1 \in 1..Len(net[p]) /\ f \in Frame
  BY <1>2 DEF Incoming
<1>4. f.id \in StreamId /\ f.t \in {"open", "fin", "reset", "stop"}
  BY <1>3 DEF Frame
<1>5. In(p, f.t, f.id) /\ ~Unheard(p, f.id)
  BY <1>3 DEF In, Has, Unheard
<1>6. ~Claimed(f.id)
  BY <1>1, <1>5 DEF Core, OpeningInv, Claimed
<1>7. \A t, i : ~Has(net[p], t, i, 1 - 1)
  BY DEF Has
<1>8. /\ Here(p, f.id)
      /\ f.t = "open" => f.id.by = p
      /\ f.t \in {"fin", "reset"} => Sender(p, f.id)
      /\ f.t = "stop" => Receiver(p, f.id)
      /\ f.t # "open" => Announced(p, f.id, 1 - 1)
  BY <1>1, <1>3 DEF Core, Part, FrameInv
<1>9. f.t # "open" /\ f.id.by = p => f.id.n < nextPeer[e][f.id.dir]
  BY <1>1, <1>7, <1>8 DEF Announced
<1>10. f.t = "fin" => f.id \in streams[e]
  BY <1>1, <1>3, <1>7 DEF Core, Part, FinalInv
<1> QED BY <1>3, <1>4, <1>5, <1>6, <1>8, <1>9, <1>10

(* e reads a frame of p: an OPEN makes an entry, a FIN or RESET ends one.   *)
Read(e, p, f) ==
    /\ p = Peer(e) /\ net[p] # <<>> /\ f = Incoming(e) /\ Consume(e)
    /\ Untouched(p) /\ nextId' = nextId /\ opening' = opening
    /\ IF f.t = "open"
       THEN /\ f.id.n >= nextPeer[e][f.id.dir] /\ nextPeer'[e][f.id.dir] = f.id.n + 1
            /\ \A d \in Dirs : d # f.id.dir => nextPeer'[e][d] = nextPeer[e][d]
       ELSE nextPeer'[e] = nextPeer[e]
    /\ streams'[e] = CASE f.t = "open" -> streams[e] \cup {f.id}
                       [] f.t \in {"fin", "reset"} -> streams[e] \ {f.id}
                       [] f.t = "stop" -> streams[e]

(* What both ends know of the ids after a frame was read.                   *)
LEMMA ReadFacts ==
    ASSUME Core, TypeOK', NEW e \in Ends, NEW p, NEW f, Read(e, p, f)
    PROVE  /\ \A d \in Dirs : nextPeer[e][d] <= nextPeer'[e][d]
           /\ \A i : Here(p, i)' <=> Here(p, i)
           /\ \A i \in StreamId : Here(e, i) => Here(e, i)'
           /\ \A i : Claimed(i)' <=> Claimed(i)
           /\ \A i, k : Announced(e, i, k)' <=> Announced(e, i, k)
           /\ \A i \in StreamId : \A k \in 0..Len(net'[p]) :
                 Announced(p, i, k + 1) => Announced(p, i, k)'
           /\ FrameInv(e)' /\ FrameInv(p)'
<1>p. p = Peer(e) /\ p \in Ends /\ p # e /\ Peer(p) = e
  BY PeerFacts DEF Read
<1>1. /\ net'[e] = net[e] /\ Len(net[p]) \in Nat \ {0} /\ Len(net'[p]) = Len(net[p]) - 1
      /\ f.id \in StreamId
      /\ \A i \in 1..Len(net'[p]) :
            /\ i \in Nat \ {0} /\ i - 1 \in 0..Len(net'[p]) /\ i + 1 \in 1..Len(net[p])
            /\ net'[p][i] = net[p][i + 1]
      /\ Shifted(net[p], net'[p], f)
  <2>1. TypeOK /\ net[p] # <<>> /\ Consume(e) /\ f = Incoming(e) /\ p = Peer(e)
    BY DEF Core, Read
  <2> QED BY <2>1, Taken
<1>2. /\ \A d \in Dirs : nextPeer[e][d] \in Nat /\ nextPeer'[e][d] \in Nat
      /\ f.id.n \in Nat /\ f.id.dir \in Dirs
      /\ nextPeer'[p] = nextPeer[p] /\ nextId' = nextId /\ opening' = opening
      /\ f.t = "open" => f.id.n < nextPeer'[e][f.id.dir]
  BY <1>1 DEF Core, TypeOK, TableType, StreamId, Read, Untouched
<1>3. \A d \in Dirs : nextPeer[e][d] <= nextPeer'[e][d]
  BY <1>2 DEF Read
<1>4. /\ \A i : Here(p, i)' <=> Here(p, i)
      /\ \A i : Claimed(i)' <=> Claimed(i)
      /\ \A i, k : Announced(e, i, k)' <=> Announced(e, i, k)
  BY <1>1, <1>2, <1>p DEF Here, Claimed, Announced
<1>5. ASSUME NEW i \in StreamId
      PROVE  /\ Here(e, i) => Here(e, i)'
             /\ i.n < nextPeer[e][i.dir] => i.n < nextPeer'[e][i.dir]
  <2>1. i.n \in Nat /\ i.dir \in Dirs
    BY DEF StreamId
  <2>2. i.n < nextPeer[e][i.dir] => i.n < nextPeer'[e][i.dir]
    BY <1>2, <1>3, <2>1
  <2> QED BY <1>2, <2>2 DEF Here
<1>6. ASSUME NEW i \in StreamId, NEW k \in 0..Len(net'[p]), Announced(p, i, k + 1)
      PROVE  Announced(p, i, k)'
  <2>1. i.by = p => i.n < nextPeer[e][i.dir] \/ Has(net[p], "open", i, k + 1)
    BY <1>6, <1>p DEF Announced
  <2>2. i.by = p => i.n < nextPeer'[e][i.dir] \/ Has(net'[p], "open", i, k)
    BY <1>1, <1>2, <1>5, <2>1 DEF Shifted
  <2> QED BY <1>p, <2>2 DEF Announced
<1>7. FrameInv(e)'
  <2>1. \A i \in 1..Len(net[e]) : net[e][i].id \in StreamId
    BY FrameTypes DEF Core
  <2>2. FrameInv(e)
    BY DEF Core, Part
  <2> QED BY <1>1, <1>4, <1>5, <2>1, <2>2 DEF FrameInv
<1>8. FrameInv(p)'
  <2>1. ASSUME NEW i \in 1..Len(net'[p]), NEW g, g = net'[p][i]
        PROVE  /\ Here(p, g.id)' /\ (g.t = "open" => g.id.by = p)
               /\ g.t \in {"fin", "reset"} => Sender(p, g.id)
               /\ g.t = "stop" => Receiver(p, g.id)
               /\ g.t # "open" => Announced(p, g.id, i - 1)'
    <3>1. /\ i \in Nat \ {0} /\ i - 1 \in 0..Len(net'[p]) /\ i + 1 \in 1..Len(net[p])
          /\ g = net[p][i + 1] /\ (i + 1) - 1 = (i - 1) + 1
      BY <1>1, <2>1
    <3>2. g.id \in StreamId
      BY <1>p, <3>1, FrameTypes DEF Core
    <3>3. /\ Here(p, g.id) /\ (g.t = "open" => g.id.by = p)
          /\ g.t \in {"fin", "reset"} => Sender(p, g.id)
          /\ g.t = "stop" => Receiver(p, g.id)
          /\ g.t # "open" => Announced(p, g.id, (i + 1) - 1)
      BY <1>p, <3>1 DEF Core, Part, FrameInv
    <3> QED BY <1>4, <1>6, <3>1, <3>2, <3>3
  <2> QED BY <2>1 DEF FrameInv
<1> QED BY <1>3, <1>4, <1>5, <1>6, <1>7, <1>8

(* What holds at the end whose frame was read still does.                   *)
LEMMA ReadSide ==
    ASSUME Core, TypeOK', NEW e \in Ends, NEW p, NEW f, Read(e, p, f)
    PROVE  Part(p)'
<1>p. p = Peer(e) /\ p \in Ends /\ p # e /\ Peer(p) = e
  BY PeerFacts DEF Read
<1>0. Part(p) /\ TypeOK
  BY <1>p DEF Core
<1>1. /\ net'[e] = net[e] /\ Len(net[p]) \in Nat \ {0} /\ Len(net'[p]) = Len(net[p]) - 1
      /\ f.id \in StreamId /\ f.t \in {"open", "fin", "reset", "stop"}
      /\ f = net[p][1]
      /\ \A i \in 1..Len(net'[p]) :
            /\ i \in Nat \ {0} /\ i - 1 \in 0..Len(net'[p]) /\ i + 1 \in 1..Len(net[p])
            /\ net'[p][i] = net[p][i + 1]
      /\ Shifted(net[p], net'[p], f)
      /\ \A t, i : In(p, t, i) <=> In(p, t, i)' \/ (f.t = t /\ f.id = i)
      /\ \A t, i : In(e, t, i)' <=> In(e, t, i)
  <2>1. TypeOK /\ net[p] # <<>> /\ Consume(e) /\ f = Incoming(e) /\ p = Peer(e)
    BY DEF Core, Read
  <2> QED BY <2>1, Taken
<1>2. /\ f.t # "open" /\ f.id.by = p => f.id.n < nextPeer[e][f.id.dir]
      /\ In(p, f.t, f.id)
  <2>1. net[p] # <<>> /\ f = Incoming(e) /\ p = Peer(e)
    BY DEF Read
  <2> QED BY <2>1, HeadFacts
<1>3. /\ \A d \in Dirs : nextPeer[e][d] <= nextPeer'[e][d]
      /\ \A i : Here(p, i)' <=> Here(p, i)
      /\ \A i : Claimed(i)' <=> Claimed(i)
      /\ \A i \in StreamId : \A k \in 0..Len(net'[p]) :
            Announced(p, i, k + 1) => Announced(p, i, k)'
      /\ FrameInv(p)'
  BY ReadFacts
<1>4. /\ Untouched(p) /\ nextId' = nextId /\ Sending(p)' = Sending(p)
      /\ f.t = "open" => ~(f.id.n < nextPeer[e][f.id.dir])
      /\ f.t = "open" => streams'[e] = streams[e] \cup {f.id}
      /\ f.t \in {"fin", "reset"} => streams'[e] = streams[e] \ {f.id}
      /\ f.t = "stop" => streams'[e] = streams[e]
  <2>1. Untouched(p) /\ nextId' = nextId /\ Sending(p)' = Sending(p)
    BY DEF Read, Untouched, Sending
  <2>2. f.id.n \in Nat /\ nextPeer[e][f.id.dir] \in Nat
    BY <1>0, <1>1, CounterTypes
  <2>3. f.t = "open" => ~(f.id.n < nextPeer[e][f.id.dir])
    BY <2>2 DEF Read
  <2> QED BY <2>1, <2>3 DEF Read
<1>5. \A i \in StreamId : i.n < nextPeer[e][i.dir] => i.n < nextPeer'[e][i.dir]
  <2> TAKE i \in StreamId
  <2>1. /\ i.n \in Nat /\ i.dir \in Dirs
        /\ nextPeer[e][i.dir] \in Nat /\ nextPeer'[e][i.dir] \in Nat
    BY <1>0 DEF TypeOK, TableType, StreamId
  <2> QED BY <1>3, <2>1
<1>6. IdInv(p)'
  BY <1>0, <1>3, <1>4, <1>p DEF Part, IdInv, Untouched
<1>7. AcceptInv(p)'
  BY <1>0, <1>1, <1>3, <1>4, <1>p DEF Part, AcceptInv, Untouched
<1>8. AnnounceInv(p)'
  <2>1. /\ Len(net'[p]) \in 0..Len(net'[p]) /\ Len(net'[p]) + 1 = Len(net[p])
    BY <1>1
  <2>2. \A i \in StreamId : Announced(p, i, Len(net[p])) => Announced(p, i, Len(net[p]))'
    BY <1>3, <2>1
  <2>3. \A i \in Sending(p) \cup recvs[p] \cup flows[p] : i \in StreamId
    BY <1>0, <1>p DEF TypeOK, TableType, AppType, NetType, IdSets, Sending
  <2> QED BY <1>0, <1>3, <1>4, <2>2, <2>3 DEF Part, AnnounceInv, Untouched
<1>9. FinalInv(p)'
  <2>0. FinalInv(p)
    BY <1>0 DEF Part
  <2>1. /\ \A i \in sends'[p] : i \notin finning'[p] /\ ~In(p, "fin", i)'
        /\ \A i \in flows'[p] :
              /\ i \notin resetting'[p] \cup inbound'[p] /\ ~In(p, "reset", i)'
              /\ In(p, "fin", i)' => i \in finning'[p]
    BY <1>1, <1>4, <2>0 DEF FinalInv, Untouched
  <2>2. ASSUME NEW i \in 1..Len(net'[p]), NEW id, id = net'[p][i].id, net'[p][i].t = "fin"
        PROVE  /\ id \in streams'[e] \/ Has(net'[p], "open", id, i - 1)
               /\ ~Has(net'[p], "fin", id, i - 1) /\ ~Has(net'[p], "reset", id, i - 1)
    <3>1. /\ i \in Nat \ {0} /\ i - 1 \in 0..Len(net'[p]) /\ i + 1 \in 1..Len(net[p])
          /\ net'[p][i] = net[p][i + 1] /\ (i + 1) - 1 = (i - 1) + 1
      BY <1>1
    <3>2. /\ id \in streams[e] \/ Has(net[p], "open", id, (i - 1) + 1)
          /\ ~Has(net[p], "fin", id, (i - 1) + 1) /\ ~Has(net[p], "reset", id, (i - 1) + 1)
      BY <1>p, <2>0, <2>2, <3>1 DEF FinalInv
    <3>3. \A t : Has(net[p], t, id, (i - 1) + 1) <=>
                    Has(net'[p], t, id, i - 1) \/ (f.t = t /\ f.id = id)
      BY <1>1, <3>1 DEF Shifted
    <3>4. ~(f.t \in {"fin", "reset"} /\ f.id = id)
      BY <3>2, <3>3
    <3>5. id \in streams[e] => id \in streams'[e]
      BY <1>1, <1>4, <3>4
    <3>6. f.t = "open" /\ f.id = id => id \in streams'[e]
      BY <1>4
    <3> QED BY <3>2, <3>3, <3>5, <3>6
  <2>3. ASSUME NEW i \in finning'[p]
        PROVE  \/ In(p, "fin", i)'
               \/ /\ i \notin streams'[e]
                  /\ i.by = p => i.n < nextPeer'[e][i.dir]
    <3>1. i \in finning[p] /\ i \in StreamId
      BY <1>0, <1>4, <1>p DEF Untouched, TypeOK, AppType, IdSets
    <3>2. CASE In(p, "fin", i)
      <4>1. CASE f.t = "fin" /\ f.id = i
        BY <1>2, <1>4, <1>5, <3>1, <4>1
      <4> QED BY <1>1, <3>2, <4>1
    <3>3. CASE ~In(p, "fin", i)
      <4>1. i \notin streams[e] /\ (i.by = p => i.n < nextPeer[e][i.dir])
        BY <1>p, <2>0, <3>1, <3>3 DEF FinalInv
      <4>2. ~(f.t = "open" /\ f.id = i)
        <5> SUFFICES ASSUME f.t = "open", f.id = i PROVE FALSE
          OBVIOUS
        <5>1. i.by = p
          BY <1>0, <1>2, InFacts DEF Part
        <5> QED BY <1>4, <4>1, <5>1
      <4> QED BY <1>1, <1>4, <1>5, <3>1, <4>1, <4>2
    <3> QED BY <3>2, <3>3
  <2> QED BY <1>p, <2>1, <2>2, <2>3 DEF FinalInv
<1>10. PairInv(p)'
  <2>0. PairInv(p) /\ FinalInv(p) /\ FrameInv(p)
    BY <1>0 DEF Part
  <2>1. \A i : Kept(p, i) => Kept(p, i)' \/ (f.t \in {"fin", "reset"} /\ f.id = i)
    BY <1>1, <1>4 DEF Kept, Untouched
  <2>2. ASSUME NEW i \in streams'[e]
        PROVE  Kept(p, i)' \/ (i.by = e /\ (Claimed(i)' \/ In(e, "open", i)'))
    <3>1. CASE i \in streams[e]
      <4>1. Kept(p, i) \/ (i.by = e /\ (Claimed(i) \/ In(e, "open", i)))
        BY <1>p, <2>0, <3>1 DEF PairInv
      <4>2. ~(f.t \in {"fin", "reset"} /\ f.id = i)
        BY <1>4
      <4> QED BY <1>1, <1>3, <2>1, <4>1, <4>2
    <3>2. CASE i \notin streams[e]
      <4>1. f.t = "open" /\ i = f.id
        BY <1>1, <1>4, <3>2
      <4>2. i.n >= nextPeer[e][i.dir]
        BY <4>1 DEF Read
      <4>3. Kept(p, i)
        BY <1>1, <1>2, <1>p, <2>0, <4>1, <4>2 DEF PairInv
      <4> QED BY <2>1, <4>1, <4>3
    <3> QED BY <3>1, <3>2
  <2>3. ASSUME NEW i \in flows'[p] \ finning'[p]
        PROVE  i \in streams'[e] \/ (i.by = p /\ (Claimed(i)' \/ In(p, "open", i)'))
    <3>1. i \in flows[p] \ finning[p]
      BY <1>4 DEF Untouched
    <3>2. i \in streams[e] \/ (i.by = p /\ (Claimed(i) \/ In(p, "open", i)))
      BY <1>p, <2>0, <3>1 DEF PairInv
    <3>3. ~(f.t \in {"fin", "reset"} /\ f.id = i)
      BY <1>2, <2>0, <3>1 DEF FinalInv
    <3>4. i \in streams[e] => i \in streams'[e]
      BY <1>1, <1>4, <3>3
    <3>5. In(p, "open", i) => In(p, "open", i)' \/ i \in streams'[e]
      BY <1>1, <1>4
    <3> QED BY <1>3, <3>2, <3>4, <3>5
  <2>4. ASSUME NEW i \in StreamId, In(p, "open", i)', i.n >= nextPeer'[e][i.dir]
        PROVE  Kept(p, i)' /\ (i.dir = "bi" => i \in streams'[p])
    <3>1. /\ In(p, "open", i) /\ i.by = p
      BY <1>1, <2>0, <2>4, InFacts
    <3>2. /\ i.n \in Nat /\ i.dir \in Dirs
          /\ nextPeer[e][i.dir] \in Nat /\ nextPeer'[e][i.dir] \in Nat
      BY <1>0 DEF TypeOK, TableType, StreamId
    <3>3. i.n >= nextPeer[e][i.dir] /\ ~(i.n < nextPeer[e][i.dir])
      BY <1>3, <2>4, <3>2
    <3>4. Kept(p, i) /\ (i.dir = "bi" => i \in streams[p])
      BY <1>p, <2>0, <3>1, <3>3 DEF PairInv
    <3>5. ~(f.t \in {"fin", "reset"} /\ f.id = i)
      BY <1>2, <3>1, <3>3
    <3> QED BY <1>4, <2>1, <3>4, <3>5 DEF Untouched
  <2> QED BY <1>p, <2>2, <2>3, <2>4 DEF PairInv
<1> QED BY <1>3, <1>6, <1>7, <1>8, <1>9, <1>10 DEF Part

(* An OPEN that is not refused: the id is new to its reader.                *)
LEMMA HandleOpenKeeps ==
    ASSUME Core, TypeOK', NEW e \in Ends, HandleOpen(e), ~\E r : r # "none" /\ ProtocolError(e, r)
    PROVE  Core'
<1> DEFINE p == Peer(e)
<1>f. PICK f : f = Incoming(e)
  OBVIOUS
<1>i. PICK id : id = f.id
  OBVIOUS
<1>p. p \in Ends /\ p # e /\ Peer(p) = e /\ Peer(e) = p /\ \A x \in Ends : x = e \/ x = p
  BY PeerFacts
<1>0. /\ net[p] # <<>> /\ f.t = "open" /\ OpenRefused(e, id) = "none" /\ Consume(e)
      /\ nextId' = nextId /\ nextPeer' = [nextPeer EXCEPT ![e][id.dir] = id.n + 1]
      /\ streams' = Add(streams, e, id)
      /\ flows' = (IF id.dir = "bi" THEN Add(flows, e, id) ELSE flows)
      /\ accept' = [accept EXCEPT ![e][id.dir] = Append(@, id)]
      /\ UNCHANGED <<opening, sends, recvs, finning, resetting, inbound>>
  BY <1>f, <1>i DEF HandleOpen, Reads, apps
<1> HIDE DEF p
<1>1. /\ id \in StreamId /\ id.n \in Nat /\ id.dir \in Dirs /\ id.by = p
      /\ Here(p, id) /\ In(p, "open", id) /\ ~Unheard(p, id)
      /\ Part(e) /\ Part(p) /\ OpeningInv /\ TypeOK
  <2>1. p = Peer(e)
    BY DEF p
  <2>2. /\ f.id \in StreamId /\ In(p, f.t, f.id) /\ Here(p, f.id)
        /\ f.t = "open" => f.id.by = p
        /\ ~Unheard(p, f.id)
    BY <1>0, <1>f, <2>1, HeadFacts
  <2>3. id.n \in Nat /\ id.dir \in Dirs
    BY <1>i, <2>2 DEF StreamId
  <2> QED BY <1>0, <1>i, <1>p, <2>2, <2>3 DEF Core
<1>2. /\ flows'[e] = (IF id.dir = "bi" THEN flows[e] \cup {id} ELSE flows[e])
      /\ streams'[e] = streams[e] \cup {id}
      /\ flows'[p] = flows[p] /\ streams'[p] = streams[p]
      /\ nextPeer'[p] = nextPeer[p] /\ nextPeer'[e][id.dir] = id.n + 1
      /\ \A d \in Dirs : d # id.dir => nextPeer'[e][d] = nextPeer[e][d]
      /\ accept'[p] = accept[p] /\ accept'[e][id.dir] = Append(accept[e][id.dir], id)
      /\ \A d \in Dirs : d # id.dir => accept'[e][d] = accept[e][d]
  <2>1. /\ flows \in IdSets /\ streams \in IdSets /\ nextPeer \in [Ends -> [Dirs -> Nat]]
        /\ accept \in [Ends -> [Dirs -> Seq(StreamId)]]
    BY <1>1 DEF TypeOK, TableType
  <2>2. /\ Add(flows, e, id)[e] = flows[e] \cup {id} /\ Add(flows, e, id)[p] = flows[p]
        /\ Add(streams, e, id)[e] = streams[e] \cup {id} /\ Add(streams, e, id)[p] = streams[p]
    BY <1>p, <2>1, IdSetFacts
  <2>3. /\ nextPeer'[p] = nextPeer[p] /\ nextPeer'[e][id.dir] = id.n + 1
        /\ \A d \in Dirs : d # id.dir => nextPeer'[e][d] = nextPeer[e][d]
    BY <1>0, <1>1, <1>p, <2>1
  <2>4. /\ accept'[p] = accept[p] /\ accept'[e][id.dir] = Append(accept[e][id.dir], id)
        /\ \A d \in Dirs : d # id.dir => accept'[e][d] = accept[e][d]
    BY <1>0, <1>1, <1>p, <2>1
  <2> QED BY <1>0, <2>2, <2>3, <2>4
<1>3. id.n >= nextPeer[e][id.dir] /\ ~Here(e, id)
  <2>1. nextPeer[e][id.dir] \in Nat
    BY <1>1, CounterTypes
  <2>2. ~(id.n < nextPeer[e][id.dir])
    BY <1>0 DEF OpenRefused
  <2> QED BY <1>1, <1>p, <2>1, <2>2 DEF Here
<1>4. Read(e, p, f)
  BY <1>0, <1>2, <1>3, <1>f, <1>i DEF Read, Untouched, p
<1>5. /\ net'[e] = net[e]
      /\ \A t, i : In(p, t, i) <=> In(p, t, i)' \/ (t = "open" /\ i = id)
      /\ \A t, i : In(e, t, i)' <=> In(e, t, i)
  <2>1. p = Peer(e)
    BY DEF p
  <2>2. /\ net'[e] = net[e]
        /\ \A t, i : In(p, t, i) <=> In(p, t, i)' \/ (f.t = t /\ f.id = i)
        /\ \A t, i : In(e, t, i)' <=> In(e, t, i)
    BY <1>0, <1>1, <1>f, <2>1, Taken
  <2> QED BY <1>0, <1>i, <2>2
<1>6. /\ \A i : Here(p, i)' <=> Here(p, i)
      /\ \A i \in StreamId : Here(e, i) => Here(e, i)'
      /\ \A i : Claimed(i)' <=> Claimed(i)
      /\ \A i, k : Announced(e, i, k)' <=> Announced(e, i, k)
      /\ FrameInv(e)'
  BY <1>4, ReadFacts
<1>7. Part(p)'
  BY <1>4, ReadSide
<1>8. /\ id \notin flows[e] \cup streams[e] \cup Sending(e) \cup recvs[e]
      /\ \A t : ~In(e, t, id)
      /\ \A d \in Dirs : \A k \in 1..Len(accept[e][d]) : accept[e][d][k] # id
      /\ Sending(e)' = Sending(e)
  <2>1. id \notin flows[e] \cup streams[e] \cup Sending(e) \cup recvs[e]
    BY <1>1, <1>3 DEF Part, IdInv
  <2>2. \A t : ~In(e, t, id)
    BY <1>1, <1>3, InFacts DEF Part
  <2>3. \A d \in Dirs : \A k \in 1..Len(accept[e][d]) : accept[e][d][k] # id
    BY <1>1, <1>3 DEF Part, AcceptInv
  <2> QED BY <1>0, <2>1, <2>2, <2>3 DEF Sending
<1>9. Here(e, id)' /\ id.n < nextId[p][id.dir]
  <2>1. id.n < id.n + 1
    BY <1>1
  <2> QED BY <1>1, <1>2, <1>p, <2>1 DEF Here
<1>q. ASSUME NEW d \in Dirs, NEW k \in 1..Len(accept'[e][d])
      PROVE  \/ k \in 1..Len(accept[e][d]) /\ accept'[e][d][k] = accept[e][d][k]
             \/ d = id.dir /\ k = Len(accept[e][d]) + 1 /\ accept'[e][d][k] = id
  <2>1. CASE d # id.dir
    BY <1>2, <2>1
  <2>2. CASE d = id.dir
    <3>1. accept[e][d] \in Seq(StreamId) /\ accept'[e][d] = Append(accept[e][d], id)
      BY <1>1, <1>2, <2>2 DEF TypeOK, TableType
    <3>2. /\ Len(accept[e][d]) \in Nat /\ Len(accept'[e][d]) = Len(accept[e][d]) + 1
          /\ accept'[e][d][Len(accept[e][d]) + 1] = id
          /\ \A j \in 1..Len(accept[e][d]) : accept'[e][d][j] = accept[e][d][j]
      BY <1>1, <3>1
    <3> QED BY <2>2, <3>2
  <2> QED BY <2>1, <2>2
<1>10. OpeningInv'
  <2>1. ASSUME NEW i \in StreamId, \A y \in Ends : Unheard(y, i)
        PROVE  i # id /\ \A x \in Ends : Unheard(x, i)'
    <3>1. i # id
      BY <1>1, <1>p, <2>1
    <3>2. Unheard(e, i)'
      BY <1>0, <1>5, <1>8, <1>q, <2>1, <3>1 DEF Unheard
    <3>3. Unheard(p, i)'
      <4>1. \A k \in 1..Len(net'[p]) : net'[p][k].id # i
        <5>1. \A k \in 1..Len(net'[p]) : k + 1 \in 1..Len(net[p]) /\ net'[p][k] = net[p][k + 1]
          BY <1>0, <1>1, <1>f, Taken DEF p
        <5> QED BY <1>p, <2>1, <5>1 DEF Unheard
      <4> QED BY <1>0, <1>2, <1>p, <2>1, <4>1 DEF Unheard, Sending
    <3> QED BY <1>p, <3>1, <3>2, <3>3
  <2>2. \A i \in StreamId : (\A y \in Ends : Unheard(y, i)) =>
          \A x \in Ends : /\ Unheard(x, i)'
                          /\ i \in flows'[x] <=> i \in flows[x]
                          /\ i \in streams'[x] <=> i \in streams[x]
    BY <1>2, <1>p, <2>1
  <2> QED BY <1>0, <1>1, <1>6, <1>p, <2>2, OpeningKept
<1>11. IdInv(e)'
  <2>1. \A d \in Dirs : nextPeer'[e][d] <= nextId'[p][d]
    <3> TAKE d \in Dirs
    <3>1. nextPeer[e][d] <= nextId[p][d] /\ nextId[p][d] \in Nat
      BY <1>1, <1>p DEF Part, IdInv, TypeOK, TableType
    <3>2. CASE d = id.dir
      BY <1>0, <1>1, <1>2, <1>9, <3>1, <3>2
    <3>3. CASE d # id.dir
      BY <1>0, <1>2, <3>1, <3>3
    <3> QED BY <3>2, <3>3
  <2>2. \A i \in flows[e] \cup Sending(e) \cup streams[e] \cup recvs[e] : i \in StreamId
    BY <1>1 DEF TypeOK, TableType, AppType, NetType, IdSets, Sending
  <2>3. /\ \A i \in flows[e] \cup Sending(e) : Sender(e, i) /\ Here(e, i)
        /\ \A i \in streams[e] \cup recvs[e] : Receiver(e, i) /\ Here(e, i)
    BY <1>1 DEF Part, IdInv
  <2>4. Receiver(e, id) /\ (id.dir = "bi" => Sender(e, id))
    BY <1>1, <1>p DEF Sender, Receiver
  <2>5. /\ \A i \in flows'[e] \cup Sending(e) : Sender(e, i) /\ Here(e, i)'
        /\ \A i \in streams'[e] \cup recvs[e] : Receiver(e, i) /\ Here(e, i)'
    BY <1>2, <1>6, <1>9, <2>2, <2>3, <2>4
  <2> QED BY <1>0, <1>8, <1>p, <2>1, <2>5 DEF IdInv
<1>12. AcceptInv(e)'
  <2> SUFFICES ASSUME NEW d \in Dirs, NEW k \in 1..Len(accept'[e][d]), NEW a, a = accept'[e][d][k]
               PROVE  /\ a.by = p /\ a.dir = d /\ Here(e, a)'
                      /\ a \notin sends[e] \cup finning[e] /\ ~In(e, "fin", a)
                      /\ \A j \in 1..Len(accept'[e][d]) : accept'[e][d][j] = a => j = k
    BY <1>0, <1>5, <1>p DEF AcceptInv
  <2>1. CASE k \in 1..Len(accept[e][d]) /\ accept'[e][d][k] = accept[e][d][k]
    <3>1. /\ a.by = p /\ a.dir = d /\ Here(e, a) /\ a # id
          /\ a \notin sends[e] \cup finning[e] /\ ~In(e, "fin", a)
          /\ \A j \in 1..Len(accept[e][d]) : accept[e][d][j] = a => j = k
      BY <1>1, <1>8, <1>p, <2>1 DEF Part, AcceptInv
    <3>2. a \in StreamId
      BY <1>1, <2>1 DEF TypeOK, TableType
    <3> QED BY <1>6, <1>q, <3>1, <3>2
  <2>2. CASE d = id.dir /\ k = Len(accept[e][d]) + 1 /\ accept'[e][d][k] = id
    <3>1. a.by = p /\ a.dir = d /\ Here(e, a)' /\ a = id
      BY <1>1, <1>9, <2>2
    <3>2. a \notin sends[e] \cup finning[e] /\ ~In(e, "fin", a)
      BY <1>8, <3>1 DEF Sending
    <3>3. ASSUME NEW j \in 1..Len(accept'[e][d]), accept'[e][d][j] = a PROVE j = k
      <4>1. ~(j \in 1..Len(accept[e][d]) /\ accept'[e][d][j] = accept[e][d][j])
        BY <1>8, <3>1, <3>3
      <4> QED BY <1>q, <2>2, <4>1
    <3> QED BY <3>1, <3>2, <3>3
  <2> QED BY <1>q, <2>1, <2>2
<1>13. AnnounceInv(e)'
  BY <1>0, <1>1, <1>2, <1>5, <1>6, <1>8, <1>p DEF Part, AnnounceInv, Announced
<1>14. FinalInv(e)'
  BY <1>0, <1>1, <1>2, <1>5, <1>8, <1>p DEF Part, FinalInv, Sending
<1>15. PairInv(e)'
  <2>0. PairInv(e) /\ PairInv(p) /\ IdInv(p)
    BY <1>1 DEF Part
  <2>1. (\A i : Kept(e, i) => Kept(e, i)') /\ (id.dir = "bi" => Kept(e, id)')
    BY <1>0, <1>2, <1>5 DEF Kept
  <2>2. id.dir = "bi" => id \in streams[p]
    BY <1>1, <1>3, <1>p, <2>0 DEF PairInv
  <2>3. id \in streams[p] => id.dir = "bi"
    BY <1>1, <2>0 DEF IdInv, Receiver
  <2>4. ASSUME NEW i \in streams[p]
        PROVE  Kept(e, i)' \/ (i.by = p /\ (Claimed(i)' \/ In(p, "open", i)'))
    <3>1. Kept(e, i) \/ (i.by = p /\ (Claimed(i) \/ In(p, "open", i)))
      BY <1>p, <2>0 DEF PairInv
    <3> QED BY <1>5, <1>6, <2>1, <2>3, <3>1
  <2>5. ASSUME NEW i \in flows'[e] \ finning[e]
        PROVE  i \in streams[p] \/ (i.by = e /\ (Claimed(i)' \/ In(e, "open", i)'))
    BY <1>2, <1>5, <1>6, <1>p, <2>0, <2>2 DEF PairInv
  <2>6. ASSUME NEW i \in StreamId, In(e, "open", i)', i.n >= nextPeer[p][i.dir]
        PROVE  Kept(e, i)' /\ (i.dir = "bi" => i \in streams'[e])
    BY <1>2, <1>5, <1>p, <2>0, <2>1, <2>6 DEF PairInv
  <2> QED BY <1>0, <1>2, <1>p, <2>4, <2>5, <2>6 DEF PairInv
<1> QED BY <1>6, <1>7, <1>10, <1>11, <1>12, <1>13, <1>14, <1>15, <1>p DEF Core, Part

(* A FIN or a RESET ends the entry of a stream.                             *)
LEMMA HandleEndKeeps ==
    ASSUME Core, TypeOK', NEW e \in Ends, HandleFin(e) \/ HandleReset(e),
           ~\E r : r # "none" /\ ProtocolError(e, r)
    PROVE  Core'
<1> DEFINE p == Peer(e)
<1>f. PICK f : f = Incoming(e)
  OBVIOUS
<1>i. PICK id : id = f.id
  OBVIOUS
<1>p. p \in Ends /\ p # e /\ Peer(p) = e /\ Peer(e) = p /\ \A x \in Ends : x = e \/ x = p
  BY PeerFacts
<1>0. /\ net[p] # <<>> /\ f.t \in {"fin", "reset"} /\ Consume(e)
      /\ streams' = Drop(streams, e, id)
      /\ UNCHANGED <<nextId, nextPeer, flows, accept>>
      /\ UNCHANGED <<opening, sends, recvs, finning, resetting, inbound>>
  BY <1>f, <1>i DEF HandleFin, HandleReset, Reads, apps
<1>1. /\ id \in StreamId /\ Here(p, id) /\ ~Unheard(p, id)
      /\ Part(e) /\ Part(p) /\ OpeningInv /\ TypeOK
  <2>1. f.id \in StreamId /\ Here(p, f.id) /\ ~Unheard(p, f.id)
    BY <1>0, <1>f, HeadFacts
  <2> QED BY <1>i, <1>p, <2>1 DEF Core
<1>2. streams'[e] = streams[e] \ {id} /\ streams'[p] = streams[p]
  BY <1>0, <1>1, IdSetFacts DEF TypeOK, TableType
<1>4. Read(e, p, f)
  <2>1. f.t # "open" /\ f.t # "stop"
    BY <1>0
  <2> QED BY <1>0, <1>2, <1>f, <1>i, <2>1 DEF Read, Untouched
<1>5. /\ net'[e] = net[e]
      /\ \A i \in 1..Len(net'[p]) : i + 1 \in 1..Len(net[p]) /\ net'[p][i] = net[p][i + 1]
      /\ \A t, i : In(p, t, i) <=> In(p, t, i)' \/ (f.t = t /\ i = id)
      /\ \A t, i : In(e, t, i)' <=> In(e, t, i)
  BY <1>0, <1>1, <1>f, <1>i, Taken
<1>6. /\ \A i : Here(p, i)' <=> Here(p, i)
      /\ \A i \in StreamId : Here(e, i) => Here(e, i)'
      /\ \A i : Claimed(i)' <=> Claimed(i)
      /\ \A i, k : Announced(e, i, k)' <=> Announced(e, i, k)
      /\ FrameInv(e)'
  BY <1>4, ReadFacts
<1>7. Part(p)'
  BY <1>4, ReadSide
<1> HIDE DEF p
<1>8. \A i : Here(e, i)' <=> Here(e, i)
  BY <1>0 DEF Here
<1>10. OpeningInv'
  <2>1. ASSUME NEW i \in StreamId, \A y \in Ends : Unheard(y, i)
        PROVE  i # id /\ \A x \in Ends : Unheard(x, i)'
    <3>1. i # id
      BY <1>1, <1>p, <2>1
    <3>2. Unheard(e, i)'
      BY <1>0, <1>5, <2>1 DEF Unheard, Sending
    <3>3. Unheard(p, i)'
      <4>1. \A k \in 1..Len(net'[p]) : net'[p][k].id # i
        BY <1>p, <1>5, <2>1 DEF Unheard
      <4> QED BY <1>0, <1>p, <2>1, <4>1 DEF Unheard, Sending
    <3> QED BY <1>p, <3>1, <3>2, <3>3
  <2>2. \A i \in StreamId : (\A y \in Ends : Unheard(y, i)) =>
          \A x \in Ends : /\ Unheard(x, i)'
                          /\ i \in flows'[x] <=> i \in flows[x]
                          /\ i \in streams'[x] <=> i \in streams[x]
    BY <1>0, <1>2, <1>p, <2>1
  <2> QED BY <1>0, <1>1, <1>6, <1>p, <2>2, OpeningKept
<1>11. IdInv(e)' /\ AcceptInv(e)' /\ AnnounceInv(e)' /\ FinalInv(e)'
  BY <1>0, <1>1, <1>2, <1>5, <1>6, <1>8, <1>p
     DEF Part, IdInv, AcceptInv, AnnounceInv, FinalInv, Sending
<1>12. PairInv(e)'
  <2>0. PairInv(e) /\ FrameInv(e)
    BY <1>1 DEF Part
  <2>1. \A i : Kept(e, i)' <=> Kept(e, i)
    BY <1>0, <1>5 DEF Kept
  <2>2. \A i : In(p, "open", i) <=> In(p, "open", i)'
    BY <1>0, <1>5
  <2>3. ASSUME NEW i \in StreamId, In(e, "open", i), i.n >= nextPeer[p][i.dir]
        PROVE  Kept(e, i) /\ (i.dir = "bi" => i \in streams'[e])
    <3>1. i.by = e /\ Kept(e, i) /\ (i.dir = "bi" => i \in streams[e])
      BY <1>p, <2>0, <2>3, InFacts DEF PairInv
    <3>2. ~(i.n < nextPeer[p][i.dir])
      BY <1>1, <1>p, <2>3, CounterTypes
    <3>3. i # id
      BY <1>1, <1>p, <3>1, <3>2 DEF Here
    <3> QED BY <1>2, <3>1, <3>3
  <2> QED BY <1>0, <1>2, <1>5, <1>6, <1>p, <2>0, <2>1, <2>2, <2>3 DEF PairInv
<1> QED BY <1>6, <1>7, <1>10, <1>11, <1>12, <1>p DEF Core, Part

(* A StopSending takes the flow; its RESET is owed if there was one.        *)
LEMMA HandleStopKeeps ==
    ASSUME Core, TypeOK', NEW e \in Ends, HandleStop(e), ~\E r : r # "none" /\ ProtocolError(e, r)
    PROVE  Core'
<1> DEFINE p == Peer(e)
<1>f. PICK f : f = Incoming(e)
  OBVIOUS
<1>i. PICK id : id = f.id
  OBVIOUS
<1>p. p \in Ends /\ p # e /\ Peer(p) = e /\ Peer(e) = p /\ \A x \in Ends : x = e \/ x = p
  BY PeerFacts
<1>0. /\ net[p] # <<>> /\ f.t = "stop" /\ Consume(e) /\ inbound[e] = {}
      /\ flows' = Drop(flows, e, id)
      /\ inbound' = [inbound EXCEPT ![e] = {id} \cap flows[e]]
      /\ UNCHANGED <<nextId, nextPeer, streams, accept>>
      /\ UNCHANGED <<opening, sends, recvs, finning, resetting>>
  BY <1>f, <1>i DEF HandleStop, Reads, apps
<1>1. /\ id \in StreamId /\ ~Unheard(p, id) /\ ~Claimed(id)
      /\ Part(e) /\ Part(p) /\ OpeningInv /\ TypeOK
  <2>1. f.id \in StreamId /\ ~Unheard(p, f.id) /\ ~Claimed(f.id)
    BY <1>0, <1>f, HeadFacts
  <2> QED BY <1>i, <1>p, <2>1 DEF Core
<1>2. /\ flows'[e] = flows[e] \ {id} /\ flows'[p] = flows[p]
      /\ inbound'[e] = {id} \cap flows[e] /\ inbound'[p] = inbound[p]
  <2>1. flows \in IdSets /\ inbound \in IdSets
    BY <1>1 DEF TypeOK, TableType, NetType
  <2>2. inbound'[e] = {id} \cap flows[e] /\ inbound'[p] = inbound[p]
    BY <1>0, <1>p, <2>1 DEF IdSets
  <2> QED BY <1>0, <2>1, <2>2, IdSetFacts
<1>4. Read(e, p, f)
  BY <1>0, <1>2, <1>f, <1>i DEF Read, Untouched
<1>5. /\ net'[e] = net[e]
      /\ \A i \in 1..Len(net'[p]) : i + 1 \in 1..Len(net[p]) /\ net'[p][i] = net[p][i + 1]
      /\ \A t, i : In(p, t, i) <=> In(p, t, i)' \/ (f.t = t /\ i = id)
      /\ \A t, i : In(e, t, i)' <=> In(e, t, i)
  BY <1>0, <1>1, <1>f, <1>i, Taken
<1>6. /\ \A i : Here(p, i)' <=> Here(p, i)
      /\ \A i \in StreamId : Here(e, i) => Here(e, i)'
      /\ \A i : Claimed(i)' <=> Claimed(i)
      /\ \A i, k : Announced(e, i, k)' <=> Announced(e, i, k)
      /\ FrameInv(e)'
  BY <1>4, ReadFacts
<1>7. Part(p)'
  BY <1>4, ReadSide
<1> HIDE DEF p
<1>8. \A i : Here(e, i)' <=> Here(e, i)
  BY <1>0 DEF Here
<1>9. Sending(e)' \subseteq Sending(e) \cup (flows[e] \cap {id})
  BY <1>0, <1>2 DEF Sending
<1>10. OpeningInv'
  <2>1. ASSUME NEW i \in StreamId, \A y \in Ends : Unheard(y, i)
        PROVE  i # id /\ \A x \in Ends : Unheard(x, i)'
    <3>1. i # id
      BY <1>1, <1>p, <2>1
    <3>2. Unheard(e, i)'
      BY <1>0, <1>5, <1>9, <2>1, <3>1 DEF Unheard
    <3>3. Unheard(p, i)'
      <4>1. \A k \in 1..Len(net'[p]) : net'[p][k].id # i
        BY <1>p, <1>5, <2>1 DEF Unheard
      <4> QED BY <1>0, <1>2, <1>p, <2>1, <4>1 DEF Unheard, Sending
    <3> QED BY <1>p, <3>1, <3>2, <3>3
  <2>2. \A i \in StreamId : (\A y \in Ends : Unheard(y, i)) =>
          \A x \in Ends : /\ Unheard(x, i)'
                          /\ i \in flows'[x] <=> i \in flows[x]
                          /\ i \in streams'[x] <=> i \in streams[x]
    BY <1>0, <1>2, <1>p, <2>1
  <2> QED BY <1>0, <1>1, <1>6, <1>p, <2>2, OpeningKept
<1>11. IdInv(e)' /\ AcceptInv(e)'
  BY <1>0, <1>1, <1>2, <1>5, <1>6, <1>8, <1>9, <1>p DEF Part, IdInv, AcceptInv
<1>12. AnnounceInv(e)'
  BY <1>0, <1>1, <1>2, <1>5, <1>6, <1>9 DEF Part, AnnounceInv
<1>13. FinalInv(e)'
  BY <1>0, <1>1, <1>2, <1>5, <1>p DEF Part, FinalInv
<1>14. PairInv(e)'
  <2>0. PairInv(e)
    BY <1>1 DEF Part
  <2>1. \A i : Kept(e, i) => Kept(e, i)'
    BY <1>0, <1>2, <1>5 DEF Kept
  <2>2. \A i : In(p, "open", i) <=> In(p, "open", i)'
    BY <1>0, <1>5
  <2> QED BY <1>0, <1>2, <1>5, <1>6, <1>p, <2>0, <2>1, <2>2 DEF PairInv
<1> QED BY <1>6, <1>7, <1>10, <1>11, <1>12, <1>13, <1>14, <1>p DEF Core, Part

-----------------------------------------------------------------------------
(* The invariant *)

(* A frame of a retired direction is one its reader recognises.             *)
LEMMA RetiredIsKnown ==
    ASSUME Core, NEW e \in Ends, NEW f, net[Peer(e)] # <<>>, f = Incoming(e)
    PROVE  /\ f.t = "fin" => f.id \in streams[e]
           /\ f.t = "reset" => IsRetired(e, f.id, TRUE)
           /\ f.t = "stop" => IsRetired(e, f.id, FALSE)
<1>p. Peer(e) \in Ends /\ Peer(e) # e /\ Peer(Peer(e)) = e
  BY PeerFacts
<1> DEFINE p == Peer(e)
<1>1. /\ f.id \in StreamId /\ Here(p, f.id)
      /\ f.t = "fin" => f.id \in streams[e]
      /\ f.t = "reset" => Sender(p, f.id)
      /\ f.t = "stop" => Receiver(p, f.id)
      /\ f.t # "open" /\ f.id.by = p => f.id.n < nextPeer[e][f.id.dir]
  BY HeadFacts
<1>2. /\ f.id.n \in Nat /\ f.id.dir \in Dirs /\ f.id.by \in Ends
      /\ nextPeer[p][f.id.dir] \in Nat /\ nextId[e][f.id.dir] \in Nat
      /\ nextPeer[p][f.id.dir] <= nextId[e][f.id.dir]
  <2>1. IdInv(p) /\ TypeOK
    BY <1>p DEF Core, Part
  <2>2. /\ f.id.n \in Nat /\ f.id.dir \in Dirs /\ f.id.by \in Ends
    BY <1>1 DEF StreamId
  <2> QED BY <1>p, <2>1, <2>2 DEF IdInv, TypeOK, TableType
<1>3. f.id.by = e \/ f.id.by = p
  BY <1>2, PeerFacts
<1>4. f.t # "open" =>
        f.id.n < (IF f.id.by = e THEN nextId ELSE nextPeer)[e][f.id.dir]
  <2>1. CASE f.id.by = e
    BY <1>1, <1>2, <1>p, <2>1 DEF Here
  <2>2. CASE f.id.by = p
    BY <1>1, <1>p, <2>2
  <2> QED BY <1>3, <2>1, <2>2
<1>5. /\ f.t = "reset" => ~(f.id.dir = "uni" /\ (f.id.by = e) = TRUE)
      /\ f.t = "stop" => ~(f.id.dir = "uni" /\ (f.id.by = e) = FALSE)
  BY <1>1, <1>3, <1>p DEF Sender, Receiver
<1> QED BY <1>1, <1>4, <1>5 DEF IsRetired

(* An abort for want of a credit slot: every slot belongs to an open        *)
(* stream, and so does the credit that found none.                          *)
LEMMA SlotsAreStreams ==
    ASSUME TypeOK, NEW e \in Ends, NEW id \in streams[e], NEW slots,
           slots = IF Cardinality(pending[e]) >= MaxOpen
                   THEN pending[e] \cap streams[e] ELSE pending[e],
           Cardinality(slots) >= MaxOpen, id \notin slots
    PROVE  Cardinality(streams[e]) > MaxOpen
<1>1. slots = pending[e] \cap streams[e]
  OBVIOUS
<1>2. IsFiniteSet(streams[e])
  BY DEF TypeOK, TableType
<1>3. slots \cup {id} \subseteq streams[e] /\ slots \subseteq streams[e]
  BY <1>1
<1>4. IsFiniteSet(slots) /\ IsFiniteSet(slots \cup {id})
  BY <1>2, <1>3, FS_Subset
<1>5. Cardinality(slots \cup {id}) = Cardinality(slots) + 1
  BY <1>4, FS_AddElement
<1>6. Cardinality(slots \cup {id}) <= Cardinality(streams[e])
  BY <1>2, <1>3, FS_Subset
<1>7. /\ Cardinality(slots) \in Nat /\ Cardinality(streams[e]) \in Nat
      /\ Cardinality(slots \cup {id}) \in Nat
  BY <1>2, <1>4, FS_CardinalityType
<1>8. MaxOpen \in Nat
  BY OpenAssumption DEF TypeOK, MaxOpen
<1> QED BY <1>5, <1>6, <1>7, <1>8

(* Why a session may end.                                                   *)
LEMMA EndReasons ==
    ASSUME Core, BothUp, err \in [Ends -> Reasons], Next
    PROVE  /\ err' \in [Ends -> Reasons]
           /\ \A x \in Ends : /\ err'[x] # "unknown"
                              /\ err'[x] = "slots" => Cardinality(streams'[x]) > MaxOpen'
<1>0. \A x \in Ends : err[x] = "none"
  BY DEF BothUp
<1>1. setup' = setup /\ MaxOpen' = MaxOpen
  BY DEF Next, MaxOpen
<1>2. ASSUME NEW e \in Ends, NEW r \in Reasons, err' = [err EXCEPT ![e] = r],
             r # "unknown", r = "slots" => Cardinality(streams'[e]) > MaxOpen
      PROVE  /\ err' \in [Ends -> Reasons]
             /\ \A x \in Ends : /\ err'[x] # "unknown"
                                /\ err'[x] = "slots" => Cardinality(streams'[x]) > MaxOpen'
  <2>1. \A x \in Ends : err'[x] = IF x = e THEN r ELSE err[x]
    BY <1>2
  <2>2. err' \in [Ends -> Reasons]
    BY <1>2
  <2> QED BY <1>0, <1>1, <1>2, <2>1, <2>2
<1>3. ASSUME err' = err
      PROVE  /\ err' \in [Ends -> Reasons]
             /\ \A x \in Ends : /\ err'[x] # "unknown"
                                /\ err'[x] = "slots" => Cardinality(streams'[x]) > MaxOpen'
  BY <1>0, <1>3
<1>4. CASE \E o \in Openers : Register(o) \/ PublishOpen(o) \/ CancelOpen(o)
  <2>1. PICK o \in Openers : Register(o) \/ PublishOpen(o) \/ CancelOpen(o)
    BY <1>4
  <2>2. o.at \in Ends
    BY OpenAssumption DEF Core, TypeOK, Openers
  <2>3. CASE CancelOpen(o)
    <3>1. err' = [err EXCEPT ![o.at] = "aborted"] /\ "aborted" \in Reasons
      BY <2>3 DEF CancelOpen, Reasons
    <3> QED BY <1>2, <2>2, <3>1
  <2>4. CASE Register(o) \/ PublishOpen(o)
    BY <1>3, <2>4 DEF Register, PublishOpen
  <2> QED BY <2>1, <2>3, <2>4
<1>5. ASSUME NEW e \in Ends, Application(e) \/ \E id \in pending[e] : NextCredit(e, id)
      PROVE  \/ err' = err
             \/ err' = [err EXCEPT ![e] = "aborted"]
             \/ /\ err' = [err EXCEPT ![e] = "slots"]
                /\ Cardinality(streams'[e]) > MaxOpen
  <2>1. ASSUME NEW id \in recvs[e], QueueCredit(e, id)
        PROVE  \/ err' = err
               \/ err' = [err EXCEPT ![e] = "slots"] /\ Cardinality(streams'[e]) > MaxOpen
    <3>1. PICK slots : slots = IF Cardinality(pending[e]) >= MaxOpen
                               THEN pending[e] \cap streams[e] ELSE pending[e]
      OBVIOUS
    <3>2. /\ id \in streams[e] /\ streams' = streams
          /\ \/ /\ Cardinality(slots) >= MaxOpen /\ id \notin slots
                /\ err' = [err EXCEPT ![e] = "slots"]
             \/ err' = err
      BY <2>1, <3>1 DEF QueueCredit
    <3>3. TypeOK
      BY DEF Core
    <3> QED BY <3>1, <3>2, <3>3, SlotsAreStreams
  <2> QED BY <1>5, <2>1 DEF Application, Accept, Finish, Reset, DropSend, FinRemove,
                            PublishReset, Stop, NextCredit
<1>6. ASSUME NEW e \in Ends, Inbound(e)
      PROVE  err' = err \/ \E r \in {"monotonic", "limit", "accept"} : err' = [err EXCEPT ![e] = r]
  <2>f. PICK f : f = Incoming(e)
    OBVIOUS
  <2>1. CASE HandleOpen(e)
    <3>1. OpenRefused(e, Incoming(e).id) \in {"monotonic", "limit", "accept", "none"}
      BY DEF OpenRefused
    <3> QED BY <2>1, <3>1 DEF HandleOpen, ProtocolError
  <2>2. CASE HandleFin(e)
    <3>1. f.id \in streams[e]
      BY <2>2, <2>f, RetiredIsKnown DEF HandleFin, Reads
    <3> QED BY <2>2, <2>f, <3>1 DEF HandleFin
  <2>3. CASE HandleReset(e)
    <3>1. IsRetired(e, f.id, TRUE)
      BY <2>3, <2>f, RetiredIsKnown DEF HandleReset, Reads
    <3> QED BY <2>3, <2>f, <3>1 DEF HandleReset
  <2>4. CASE HandleStop(e)
    <3>1. IsRetired(e, f.id, FALSE)
      BY <2>4, <2>f, RetiredIsKnown DEF HandleStop, Reads
    <3> QED BY <2>4, <2>f, <3>1 DEF HandleStop
  <2>5. CASE AckStop(e)
    BY <2>5 DEF AckStop
  <2> QED BY <1>6, <2>1, <2>2, <2>3, <2>4, <2>5 DEF Inbound
<1>7. {"aborted", "slots", "monotonic", "limit", "accept"} \subseteq Reasons
  BY DEF Reasons
<1>8. ASSUME NEW e \in Ends, \/ Application(e) \/ Inbound(e)
                             \/ \E id \in pending[e] : NextCredit(e, id)
      PROVE  /\ err' \in [Ends -> Reasons]
             /\ \A x \in Ends : /\ err'[x] # "unknown"
                                /\ err'[x] = "slots" => Cardinality(streams'[x]) > MaxOpen'
  BY <1>2, <1>3, <1>5, <1>6, <1>7, <1>8
<1> QED BY <1>4, <1>8 DEF Next

(* Every step that leaves both sessions up keeps the core.                  *)
LEMMA CoreStep ==
    ASSUME Core, err \in [Ends -> Reasons], Next, BothUp'
    PROVE  Core'
<1>0. UNCHANGED setup /\ TypeOK
  BY DEF Next, Core
<1>1. ASSUME NEW o \in Openers, Register(o) \/ PublishOpen(o) \/ CancelOpen(o)
      PROVE  Core'
  <2>1. TypeOK'
    BY <1>0, <1>1, OpenerTypes
  <2>2. o \in Opener
    BY <1>0, OpenAssumption DEF TypeOK, Openers, Opener
  <2>3. CASE CancelOpen(o)
    <3>1. err'[o.at] = "aborted" /\ o.at \in Ends
      BY <2>2, <2>3 DEF CancelOpen, Opener
    <3> QED BY <3>1 DEF BothUp
  <2> QED BY <1>1, <2>1, <2>2, <2>3, RegisterKeeps, PublishOpenKeeps
<1>2. ASSUME NEW e \in Ends, Application(e) \/ \E id \in pending[e] : NextCredit(e, id)
      PROVE  Core'
  <2>1. TypeOK'
    BY <1>0, <1>2, ApplicationTypes
  <2>2. ASSUME NEW d \in Dirs, Accept(e, d) PROVE Core'
    BY <2>1, <2>2, AcceptKeeps
  <2>3. ASSUME NEW id \in sends[e], Finish(e, id) \/ Reset(e, id) \/ DropSend(e, id)
        PROVE  Core'
    <3>1. CASE DropSend(e, id)
      <4>1. err'[e] = "none"
        BY DEF BothUp
      <4>2. /\ Push(e, "reset", id) /\ sends' = Drop(sends, e, id) /\ flows' = Drop(flows, e, id)
            /\ UNCHANGED <<nextId, nextPeer, streams, accept>>
            /\ UNCHANGED <<opening, recvs, finning, resetting, inbound>>
        BY <3>1, <4>1 DEF DropSend
      <4>3. /\ sends'[e] = sends[e] \ {id} /\ sends'[Peer(e)] = sends[Peer(e)]
            /\ flows'[e] = flows[e] \ {id} /\ flows'[Peer(e)] = flows[Peer(e)]
            /\ id \in Sending(e)
        BY <1>0, <4>2, IdSetFacts DEF TypeOK, TableType, AppType, Sending
      <4> QED BY <2>1, <4>2, <4>3, ResetSent
    <3> QED BY <2>1, <2>3, <3>1, FinishKeeps, ResetKeeps
  <2>4. ASSUME NEW id \in finning[e], FinRemove(e, id) PROVE Core'
    BY <2>1, <2>4, FinRemoveKeeps
  <2>5. ASSUME NEW id \in resetting[e], PublishReset(e, id) PROVE Core'
    <3>1. /\ Push(e, "reset", id) /\ resetting' = Drop(resetting, e, id)
          /\ UNCHANGED <<nextId, nextPeer, flows, streams, accept>>
          /\ UNCHANGED <<opening, sends, recvs, finning, inbound>>
      BY <2>5 DEF PublishReset, tables
    <3>2. /\ resetting'[e] = resetting[e] \ {id} /\ resetting'[Peer(e)] = resetting[Peer(e)]
          /\ id \in Sending(e)
      BY <1>0, <3>1, IdSetFacts DEF TypeOK, AppType, Sending
    <3>3. flows[e] = flows[e] \ {id}
      BY DEF Core, Part, FinalInv
    <3> QED BY <2>1, <3>1, <3>2, <3>3, ResetSent
  <2>6. ASSUME NEW id \in recvs[e], Stop(e, id) \/ QueueCredit(e, id) PROVE Core'
    <3>1. CASE QueueCredit(e, id)
      BY <2>1, <3>1, CreditKeeps DEF QueueCredit
    <3> QED BY <2>1, <2>6, <3>1, StopKeeps
  <2>7. ASSUME NEW id \in pending[e], NextCredit(e, id) PROVE Core'
    BY <2>1, <2>7, CreditKeeps DEF NextCredit
  <2> QED BY <1>2, <2>2, <2>3, <2>4, <2>5, <2>6, <2>7 DEF Application
<1>3. ASSUME NEW e \in Ends, Inbound(e)
      PROVE  Core'
  <2>1. TypeOK'
    BY <1>0, <1>3, InboundTypes
  <2>2. ~\E r : r # "none" /\ ProtocolError(e, r)
    BY DEF BothUp, ProtocolError
  <2>3. CASE AckStop(e)
    <3>1. PICK id \in inbound[e] : Push(e, "reset", id) /\ inbound' = Drop(inbound, e, id)
      BY <2>3 DEF AckStop
    <3>2. /\ UNCHANGED <<nextId, nextPeer, flows, streams, accept>>
          /\ UNCHANGED <<opening, sends, recvs, finning, resetting>>
      BY <2>3 DEF AckStop, tables, apps
    <3>3. /\ inbound'[e] = inbound[e] \ {id} /\ inbound'[Peer(e)] = inbound[Peer(e)]
          /\ id \in Sending(e)
      BY <1>0, <3>1, IdSetFacts DEF TypeOK, NetType, Sending
    <3>4. flows[e] = flows[e] \ {id}
      BY DEF Core, Part, FinalInv
    <3> QED BY <2>1, <3>1, <3>2, <3>3, <3>4, ResetSent
  <2> QED BY <1>3, <2>1, <2>2, <2>3, HandleOpenKeeps, HandleEndKeeps, HandleStopKeeps DEF Inbound
<1> QED BY <1>1, <1>2, <1>3 DEF Next

(* The tables are empty at the start.                                       *)
LEMMA CoreInit ==
    ASSUME Init
    PROVE  IInv
<1>1. TypeOK
  <2>1. /\ nextId \in [Ends -> [Dirs -> Nat]] /\ nextPeer \in [Ends -> [Dirs -> Nat]]
        /\ flows \in IdSets /\ \A e \in Ends : flows[e] = {}
        /\ accept \in [Ends -> [Dirs -> Seq(StreamId)]] /\ net \in [Ends -> Seq(Frame)]
        /\ DOMAIN opening = {} /\ setup \in Setups
    BY DEF Init, IdSets
  <2>2. streams = flows /\ stopped = flows /\ pending = flows /\ sends = flows
        /\ recvs = flows /\ finning = flows /\ resetting = flows /\ inbound = flows
    BY DEF Init
  <2>3. \A e \in Ends : IsFiniteSet(streams[e])
    BY <2>1, <2>2, FS_EmptySet
  <2>4. opening \in [DOMAIN opening -> StreamId]
    BY <2>1 DEF Init
  <2> QED BY <2>1, <2>2, <2>3, <2>4 DEF TypeOK, TableType, AppType, NetType
<1>2. OpeningInv
  BY DEF Init, OpeningInv
<1>3. ASSUME NEW e \in Ends PROVE Part(e)
  <2>1. /\ Peer(e) \in Ends /\ Sending(e) = {} /\ flows[e] = {} /\ streams[e] = {}
        /\ recvs[e] = {} /\ sends[e] = {} /\ finning[e] = {} /\ streams[Peer(e)] = {}
        /\ \A d \in Dirs : accept[e][d] = <<>>
        /\ net[e] = <<>> /\ \A d \in Dirs : nextPeer[e][d] = 0 /\ nextId[Peer(e)][d] = 0
    BY PeerFacts DEF Init, Sending
  <2>2. Len(net[e]) = 0 /\ \A d \in Dirs : Len(accept[e][d]) = 0
    BY <2>1
  <2>3. \A t, id : ~In(e, t, id)
    BY <2>2 DEF In, Has
  <2>4. IdInv(e) /\ FrameInv(e) /\ AcceptInv(e)
    BY <2>1, <2>2 DEF IdInv, FrameInv, AcceptInv
  <2>5. AnnounceInv(e) /\ FinalInv(e) /\ PairInv(e)
    BY <2>1, <2>2, <2>3 DEF AnnounceInv, FinalInv, PairInv
  <2> QED BY <2>4, <2>5 DEF Part
<1>4. err \in [Ends -> Reasons] /\ TerminalsMayCross /\ SlotsSuffice
  BY DEF Init, Reasons, TerminalsMayCross, SlotsSuffice
<1> QED BY <1>1, <1>2, <1>3, <1>4 DEF IInv, Core

-----------------------------------------------------------------------------
(* The theorems *)

(* The tables of the two endpoints, the ids in their queues and the streams *)
(* their applications hold stay consistent for as long as both are up.      *)
THEOREM OpenInvariant == Spec => []IInv
<1>1. Init => IInv
  BY CoreInit
<1>2. IInv /\ [Next]_vars => IInv'
  <2> SUFFICES ASSUME IInv, [Next]_vars PROVE IInv'
    OBVIOUS
  <2>1. CASE Next
    <3>1. BothUp /\ Core /\ err \in [Ends -> Reasons]
      BY <2>1 DEF IInv, Next
    <3>2. /\ err' \in [Ends -> Reasons]
          /\ \A x \in Ends : /\ err'[x] # "unknown"
                             /\ err'[x] = "slots" => Cardinality(streams'[x]) > MaxOpen'
      BY <2>1, <3>1, EndReasons
    <3>3. BothUp' => Core'
      BY <2>1, <3>1, CoreStep
    <3> QED BY <3>2, <3>3 DEF IInv, TerminalsMayCross, SlotsSuffice
  <2>2. CASE UNCHANGED vars
    <3>1. /\ UNCHANGED <<setup, nextId, nextPeer, flows, streams, accept>>
          /\ UNCHANGED <<stopped, pending, apps, inbound, net, err>>
      BY <2>2 DEF vars, tables
    <3>2. TypeOK => TypeOK'
      BY <3>1 DEF TypeOK, TableType, AppType, NetType, apps
    <3>3. Core => Core'
      BY <3>1, <3>2, CreditKeeps DEF Core
    <3>4. (BothUp' <=> BothUp) /\ MaxOpen' = MaxOpen
      BY <3>1 DEF BothUp, MaxOpen
    <3> QED BY <3>1, <3>3, <3>4 DEF IInv, TerminalsMayCross, SlotsSuffice
  <2> QED BY <2>1, <2>2
<1> QED BY <1>1, <1>2, PTL DEF Spec

(* No order of finish, reset, stop, drop and their frames makes a session   *)
(* end with an unknown-stream error.                                        *)
THEOREM TerminalsAreHarmless == Spec => []TerminalsMayCross
<1>1. IInv => TerminalsMayCross
  BY DEF IInv
<1> QED BY <1>1, OpenInvariant, PTL

(* A session is aborted for want of a credit slot only with more receive    *)
(* streams open than max_open_streams.                                      *)
THEOREM CreditSlotsSuffice == Spec => []SlotsSuffice
<1>1. IInv => SlotsSuffice
  BY DEF IInv
<1> QED BY <1>1, OpenInvariant, PTL

(* A receive entry has its sender or the frame that ends it, and a flow     *)
(* that can carry data has its receive entry or the OPEN that makes it.     *)
THEOREM NothingIsOrphaned == Spec => []NoOrphans
<1>1. IInv => NoOrphans
  <2> SUFFICES ASSUME Core, NEW e \in Ends
               PROVE  /\ \A id \in streams[e] :
                            \/ id \in flows[Peer(e)]
                            \/ id \in resetting[Peer(e)] \cup inbound[Peer(e)]
                            \/ InNet(Peer(e), {"fin", "reset"}, id) \/ Unopened(e, id)
                      /\ \A id \in flows[e] \ finning[e] :
                            id \in streams[Peer(e)] \/ Unopened(e, id)
    BY DEF IInv, NoOrphans
  <2>1. Peer(e) \in Ends /\ Peer(Peer(e)) = e
    BY PeerFacts
  <2>2. /\ \A x, id : In(x, "open", id) => InNet(x, {"open"}, id)
        /\ \A x, id : In(x, "fin", id) \/ In(x, "reset", id) => InNet(x, {"fin", "reset"}, id)
    BY DEF In, Has, InNet
  <2>3. \A id : Claimed(id) \/ In(e, "open", id) => Unopened(e, id)
    BY <2>2 DEF Claimed, Unopened
  <2>4. PairInv(Peer(e)) /\ PairInv(e)
    BY <2>1 DEF Core, Part
  <2>5. ASSUME NEW id \in streams[e]
        PROVE  \/ id \in flows[Peer(e)]
               \/ id \in resetting[Peer(e)] \cup inbound[Peer(e)]
               \/ InNet(Peer(e), {"fin", "reset"}, id) \/ Unopened(e, id)
    <3>1. Kept(Peer(e), id) \/ (id.by = e /\ (Claimed(id) \/ In(e, "open", id)))
      BY <2>1, <2>4 DEF PairInv
    <3> QED BY <2>2, <2>3, <3>1 DEF Kept
  <2>6. ASSUME NEW id \in flows[e] \ finning[e]
        PROVE  id \in streams[Peer(e)] \/ Unopened(e, id)
    BY <2>3, <2>4 DEF PairInv
  <2> QED BY <2>5, <2>6
<1> QED BY <1>1, OpenInvariant, PTL

=============================================================================
