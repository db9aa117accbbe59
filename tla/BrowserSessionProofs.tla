------------------------ MODULE BrowserSessionProofs ------------------------
(***************************************************************************)
(* Proofs about BrowserSession.                                            *)
(***************************************************************************)
EXTENDS BrowserSession, SequenceTheorems, WellFoundedInduction, TLAPS

-----------------------------------------------------------------------------
(* Types                                                                   *)

Frames == [t : {"open", "data", "fin", "reset", "max", "stop", "close"},
           id : Ids \cup {NoId}, n : Nat]

(* Every frame but ConnectionClose is about a stream. *)
Wire == {f \in Frames : f.t # "close" => f.id \in Streams}

SendState == [flow : {"none", "open", "closed"}, max : Nat, sent : Nat,
              handle : {"none", "queued", "held", "dropped"}, finished : BOOLEAN,
              mode : 0..2, pc : {"idle", "credit", "slot"}, left : Nat, grant : Nat]

Events == Seq(Frames)

RecvState == [entry : {"none", "live", "stopped"}, received : Nat, granted : Nat,
              ev : Events, handle : {"none", "queued", "held", "dropped"},
              finished : BOOLEAN, pending : Nat, consumed : Nat, stopSent : BOOLEAN]

PeerState == [net : Seq(Wire), known : SUBSET Streams, inEnd : SUBSET Streams,
              stopped : SUBSET Streams, outEnd : SUBSET Streams,
              got : [Streams -> Nat], granted : [Streams -> Nat],
              credit : [Streams -> Nat], sent : [Streams -> Nat]]

Senders == {"ctl", "own", "call", "gone"} \X (Ids \cup {NoId})

Channel == [q : Seq(Wire), parked : Seq(Senders)]

Sessions == [started : BOOLEAN, closed : BOOLEAN, held : BOOLEAN,
             waiter : {"none", "waiting", "done"}]

Histories == [fins : SUBSET Streams, failed : SUBSET Streams, stopFailed : SUBSET Streams,
              reset : SUBSET Streams, half : SUBSET Streams, late : SUBSET Streams,
              accused : SUBSET Streams, broken : BOOLEAN]

(* Every value the session keeps has the shape its users expect. *)
TypeOK ==
    /\ setup \in Setups
    /\ next \in [[local : BOOLEAN, bi : BOOLEAN] -> Nat]
    /\ snd \in [Streams -> SendState] /\ rcv \in [Streams -> RecvState]
    /\ chan \in Channel /\ slot \in Seq(Wire)
    /\ credit \in [Streams -> Nat] /\ accept \in [BOOLEAN -> Seq(Streams)]
    /\ session \in Sessions
    /\ task \in {"run", "closing", "ended"}
    /\ peer \in PeerState
    /\ hist \in Histories

-----------------------------------------------------------------------------
(* The inductive invariant                                                 *)

(* An identifier at or above its frontier has not been used. *)
Born(id) == id.n < next[Key(id)]
Unborn ==
    /\ \A id \in Streams : ~Born(id) => snd[id] = NoSend /\ rcv[id] = NoRecv
    /\ \A b \in BOOLEAN : \A i \in DOMAIN accept[b] : Born(accept[b][i])

(* A write holds a reservation exactly while it waits for a slot. *)
Reserves(s) ==
    /\ s.sent <= s.max
    /\ s.pc = "slot" => s.grant \in 1..s.left /\ s.grant <= s.sent
    /\ s.pc # "slot" => s.grant = 0
    /\ s.pc = "credit" => s.left > 0
Reserving == \A id \in Streams : Reserves(snd[id])

(* The end of a stream is seen by its reader after its entry is gone. *)
ReadsToEnd(r) ==
    /\ r.finished => r.entry = "none"
    /\ \A i \in DOMAIN r.ev :
          IF r.ev[i].t = "fin" THEN r.entry = "none" ELSE r.ev[i].n > 0
EndRead == \A id \in Streams : ReadsToEnd(rcv[id])

(* close_all runs when the loop is left, and again only finds late streams. *)
Ending ==
    /\ session.closed => task # "run" /\ Entries \cup Flows \subseteq hist.late
    /\ task = "ended" => session.closed /\ session.waiter # "waiting"

On(out, id, types) == \E i \in DOMAIN out : out[i].id = id /\ out[i].t \in types
Before(out, i, id, types) ==
    \E j \in 1..(i - 1) : out[j].id = id /\ out[j].t \in types

(* What the handles of a stream have told the peer p, with out under way. *)
Told(p, out) ==
    \A id \in Streams :
       /\ snd[id].handle = "dropped" \/ snd[id].finished =>
             id \in p.inEnd \cup hist.failed \/ On(out, id, {"fin", "reset"})
       /\ rcv[id].entry # "none" /\ (rcv[id].handle = "dropped" \/ rcv[id].stopSent) =>
             id \in p.outEnd \cup hist.stopFailed \/ On(out, id, {"stop"})

(* The frames under way, in order. *)
OutFrame(p, out, i) ==
    LET f == out[i] IN
    /\ f.t # "close" /\ Born(f.id)
    /\ f.t = "open" => /\ f.n = 0 /\ f.id.local /\ f.id \notin p.known
                       /\ ~Before(out, i, f.id, {"open"})
                       /\ f.id.bi /\ f.id \notin hist.half => rcv[f.id].entry # "none"
    /\ f.t \in {"data", "fin"} => /\ f.id \notin p.inEnd
                                  /\ ~Before(out, i, f.id, {"fin", "reset"})
    /\ f.t \in {"data", "fin", "stop"} => f.id \in p.known \/ Before(out, i, f.id, {"open"})
    /\ f.t = "stop" => RecvSide(f.id)
    /\ f.t = "max" => f.n <= rcv[f.id].granted

OutFrames(p, out) == \A i \in DOMAIN out : OutFrame(p, out, i)

(* An open flow or entry is one the peer knows of and has not seen the end of. *)
Announced(p, out) ==
    /\ \A id \in p.inEnd : Born(id)
    /\ \A id \in Streams :
          /\ snd[id].flow = "open" =>
                /\ id \notin p.inEnd /\ ~On(out, id, {"fin", "reset"})
                /\ id \in p.known \/ On(out, id, {"open"})
          /\ rcv[id].entry # "none" =>
                RecvSide(id) /\ (id \in p.known \/ On(out, id, {"open"}))

(* The frames of the peer, in order. *)
NetFrame(p, i) ==
    LET f == p.net[i] IN
    /\ f.t # "close" => f.id \in p.known
    /\ f.t = "open" =>
          /\ ~f.id.local /\ ~Born(f.id)
          /\ \A j \in 1..(i - 1) : p.net[j].t = "open" /\ Key(p.net[j].id) = Key(f.id)
                                      => p.net[j].id.n < f.id.n
    /\ f.t \notin {"open", "close"} /\ ~Born(f.id) => Before(p.net, i, f.id, {"open"})
    /\ f.t \in {"data", "fin"} => /\ RecvSide(f.id) /\ ~Before(p.net, i, f.id, {"fin", "reset"})
                                  /\ f.t = "data" => f.n > 0
                                  /\ f.id \notin hist.half /\ Born(f.id) => rcv[f.id].entry # "none"
    /\ f.t \in {"fin", "reset"} => RecvSide(f.id) /\ f.id \in p.outEnd
    /\ f.t \in {"stop", "max"} => SendSide(f.id)
    /\ f.t = "max" => f.n <= p.granted[f.id]

NetFrames(p) == \A i \in DOMAIN p.net : NetFrame(p, i)

(* The peer opens its streams in order, each of them once. *)
Openings(p) ==
    /\ \A id \in p.known : \A j \in Streams :
          ~id.local /\ Key(j) = Key(id) /\ j.n < id.n => j \in p.known
    /\ \A id \in Streams : ~id.local /\ Born(id) => id \in p.known
    /\ \A id \in p.known : ~Born(id) => ~id.local /\ On(p.net, id, {"open"})
    /\ \A id \in p.known \ p.outEnd :
          id \notin hist.half /\ RecvSide(id) /\ Born(id) => rcv[id].entry # "none"

(* What has been received of a stream, and what will have been with every   *)
(* frame of the peer that is under way.                                     *)
Payload(f, id) == IF f.id = id /\ f.t \in {"data", "fin"} THEN f.n ELSE 0
Counted(p, id) ==
    \E c \in [0..Len(p.net) -> 0..p.sent[id]] :
       /\ c[0] = rcv[id].received
       /\ \A i \in 1..Len(p.net) : c[i] = c[i - 1] + Payload(p.net[i], id)

PeerCredit(p) ==
    \A id \in Streams :
       /\ Counted(p, id) /\ p.sent[id] <= p.credit[id]
       /\ p.credit[id] <= rcv[id].granted /\ credit[id] <= rcv[id].granted

OwnCredit(p, out) ==
    \A id \in Streams :
       /\ snd[id].max <= p.granted[id]
       /\ Delivered(p, out).got[id] + snd[id].grant <= snd[id].sent

Link(p, out) ==
    /\ OutFrames(p, out) /\ Announced(p, out) /\ NetFrames(p) /\ Openings(p)
    /\ PeerCredit(p) /\ OwnCredit(p, out)
    /\ ~session.started => Told(p, out)

Books == Unborn /\ Reserving /\ EndRead /\ Ending /\ HonestPeerTrusted /\ Len(slot) <= 1

IInv == Books /\ (task = "run" => Link(peer, Outgoing))

-----------------------------------------------------------------------------
(* Induction over the natural numbers, for a set.                          *)

Below == {p \in Nat \X Nat : p[1] < p[2]}

(* The order of the natural numbers, as a relation, is well-founded. *)
LEMMA BelowWellFounded == IsWellFoundedOn(Below, Nat)
BY NatLessThanWellFounded DEF OpToRel, Below

(* A set that holds 0 and, with a number, the next one, holds them all. *)
LEMMA SetInduction ==
    ASSUME NEW S, 0 \in S, \A n \in Nat : n \in S => n + 1 \in S
    PROVE  \A n \in Nat : n \in S
<1> DEFINE T == Nat \ S
<1>1. SUFFICES ASSUME T # {} PROVE FALSE
  OBVIOUS
<1>2. PICK x \in T : \A y \in T : ~(<<y, x>> \in Below)
  <2>1. T \subseteq Nat
    OBVIOUS
  <2> QED
    BY ONLY BelowWellFounded, <2>1, <1>1, WFMin
<1>3. x \in Nat /\ x # 0 /\ x - 1 \in Nat
  BY <1>2
<1>4. <<x - 1, x>> \in Below
  BY <1>3 DEF Below
<1>5. x - 1 \in S
  BY <1>2, <1>3, <1>4
<1> QED
  BY <1>2, <1>3, <1>5

-----------------------------------------------------------------------------
(* Delivered: a fold, unrolled                                             *)

(* The function the fold over n frames is taken from. *)
Unrolled(p, s, n, g) ==
    g = [u \in SUBSET (1..n) |->
           IF u = {} THEN p ELSE Deliver(g[u \ {Max(u)}], s[Max(u)])]

LEMMA MaxOfLast ==
    ASSUME NEW n \in Nat, NEW u \in SUBSET (1..n), n \in u
    PROVE  Max(u) = n
<1>1. \A y \in u : n >= y
  OBVIOUS
<1>2. \A x \in u : (\A y \in u : x >= y) => x = n
  OBVIOUS
<1> QED
  BY <1>1, <1>2 DEF Max

(* The recursion of the fold has a solution. *)
LEMMA UnrolledExists ==
    ASSUME NEW p, NEW s
    PROVE  \A n \in Nat : \E g : Unrolled(p, s, n, g)
<1> DEFINE S == {n \in Nat : \E g : Unrolled(p, s, n, g)}
<1>1. 0 \in S
  <2> DEFINE g0 == [u \in SUBSET (1..0) |-> p]
  <2>1. \A u \in SUBSET (1..0) : u = {}
    OBVIOUS
  <2>2. Unrolled(p, s, 0, g0)
    BY <2>1 DEF Unrolled
  <2> QED
    BY <2>2
<1>2. ASSUME NEW n \in Nat, n \in S PROVE n + 1 \in S
  <2>1. PICK g : Unrolled(p, s, n, g)
    BY <1>2
  <2> DEFINE h == [u \in SUBSET (1..(n + 1)) |->
                     IF n + 1 \in u THEN Deliver(g[u \ {n + 1}], s[n + 1]) ELSE g[u]]
             R(u) == IF u = {} THEN p ELSE Deliver(h[u \ {Max(u)}], s[Max(u)])
  <2>2. ASSUME NEW u \in SUBSET (1..(n + 1)) PROVE h[u] = R(u)
    <3>1. CASE n + 1 \in u
      <4>1. Max(u) = n + 1
        BY <3>1, MaxOfLast
      <4>2. h[u \ {n + 1}] = g[u \ {n + 1}]
        OBVIOUS
      <4>3. h[u] = Deliver(g[u \ {n + 1}], s[n + 1])
        BY <3>1
      <4> QED
        BY <3>1, <4>1, <4>2, <4>3
    <3>2. CASE n + 1 \notin u
      <4>1. u \in SUBSET (1..n)
        BY <3>2
      <4>2. h[u] = g[u] /\ h[u \ {Max(u)}] = g[u \ {Max(u)}]
        BY <3>2
      <4>3. g[u] = IF u = {} THEN p ELSE Deliver(g[u \ {Max(u)}], s[Max(u)])
        BY <2>1, <4>1 DEF Unrolled
      <4> QED
        BY <4>2, <4>3
    <3> QED
      BY <3>1, <3>2
  <2>3. Unrolled(p, s, n + 1, h)
    <3> HIDE DEF R
    <3>1. h = [u \in SUBSET (1..(n + 1)) |-> R(u)]
      BY <2>2
    <3> QED
      BY <3>1 DEF Unrolled, R
  <2> QED
    BY <2>3
<1>3. \A n \in Nat : n \in S
  <2> HIDE DEF S
  <2> QED
    BY <1>1, <1>2, SetInduction
<1> QED
  BY <1>3

(* A trace of deliveries: d[k] is the peer when k frames of s have arrived. *)
Trace(p, s, n, d) ==
    d[0] = p /\ \A k \in 1..n : d[k] = Deliver(d[k - 1], s[k])

(* Delivered is the end of a trace: the frames arrive one after the other. *)
LEMMA DeliveredTrace ==
    ASSUME NEW p, NEW s, NEW n \in Nat, DOMAIN s = 1..n
    PROVE  \E d : Trace(p, s, n, d) /\ d[n] = Delivered(p, s)
<1> DEFINE iter == CHOOSE g : Unrolled(p, s, n, g)
           d == [k \in 0..n |-> iter[1..k]]
<1>1. Unrolled(p, s, n, iter)
  BY UnrolledExists
<1>2. Delivered(p, s) = iter[1..n]
  BY DEF Delivered, FoldLeft, MapThenFoldSet, Unrolled
<1> HIDE DEF iter
<1>3. d[0] = p
  BY <1>1 DEF Unrolled
<1>4. ASSUME NEW k \in 1..n PROVE d[k] = Deliver(d[k - 1], s[k])
  <2>1. Max(1..k) = k
    BY MaxOfLast
  <2>2. (1..k) \ {k} = 1..(k - 1) /\ 1..k \in SUBSET (1..n) /\ 1..k # {}
    OBVIOUS
  <2>3. iter[1..k] = Deliver(iter[1..(k - 1)], s[k])
    BY <1>1, <2>1, <2>2 DEF Unrolled
  <2> QED
    BY <2>3
<1>5. Trace(p, s, n, d)
  BY <1>3, <1>4 DEF Trace
<1>6. d[n] = Delivered(p, s)
  BY <1>2
<1> HIDE DEF d
<1> QED
  BY <1>5, <1>6

-----------------------------------------------------------------------------
(* The model's helpers                                                     *)

LEMMA StreamIds ==
    ASSUME setup \in Setups
    PROVE  /\ Streams \subseteq Ids
           /\ \A id \in Streams : /\ id.n \in Nat /\ id.local \in BOOLEAN /\ id.bi \in BOOLEAN
                                  /\ id = [n |-> id.n, local |-> id.local, bi |-> id.bi]
<1>1. Streams \subseteq Ids
  BY DEF Streams, Ids
<1> QED
  BY <1>1, BrowserAssumption

LEMMA MaxOfTwo ==
    ASSUME NEW a \in Nat, NEW b \in Nat
    PROVE  Max({a, b}) \in Nat /\ Max({a, b}) >= a /\ Max({a, b}) >= b /\ Max({a, b}) \in {a, b}
<1>1. \E x \in {a, b} : \A y \in {a, b} : x >= y
  <2>1. CASE a >= b
    BY <2>1
  <2>2. CASE b >= a
    BY <2>2
  <2> QED
    BY <2>1, <2>2
<1>2. Max({a, b}) \in {a, b} /\ \A y \in {a, b} : Max({a, b}) >= y
  BY <1>1 DEF Max
<1> QED
  BY <1>2

LEMMA MinOfTwo ==
    ASSUME NEW a \in Int, NEW b \in Int
    PROVE  Min({a, b}) \in {a, b} /\ Min({a, b}) <= a /\ Min({a, b}) <= b
<1>1. \E x \in {a, b} : \A y \in {a, b} : x =< y
  <2>1. CASE a <= b
    BY <2>1
  <2>2. CASE b <= a
    BY <2>2
  <2> QED
    BY <2>1, <2>2
<1>2. Min({a, b}) \in {a, b} /\ \A y \in {a, b} : Min({a, b}) =< y
  BY <1>1 DEF Min
<1> QED
  BY <1>2

LEMMA MinOfThree ==
    ASSUME NEW a \in Int, NEW b \in Int, NEW c \in Int
    PROVE  /\ Min({a, b, c}) \in {a, b, c}
           /\ Min({a, b, c}) <= a /\ Min({a, b, c}) <= b /\ Min({a, b, c}) <= c
<1>1. \E x \in {a, b, c} : \A y \in {a, b, c} : x =< y
  <2>1. CASE a <= b /\ a <= c
    BY <2>1
  <2>2. CASE b <= a /\ b <= c
    BY <2>2
  <2>3. CASE c <= a /\ c <= b
    BY <2>3
  <2> QED
    BY <2>1, <2>2, <2>3
<1>2. Min({a, b, c}) \in {a, b, c} /\ \A y \in {a, b, c} : Min({a, b, c}) =< y
  BY <1>1 DEF Min
<1> QED
  BY <1>2

(* A reservation is within what was wanted and what the peer has granted. *)
LEMMA ReservationBounds ==
    ASSUME NEW s \in SendState, NEW w \in Nat, w > 0
    PROVE  /\ TryReserve(s, w) \in 0..w
           /\ TryReserve(s, w) > 0 => s.flow = "open" /\ TryReserve(s, w) <= s.max - s.sent
<1>1. MaxChunk \in Nat \ {0} /\ s.max \in Nat /\ s.sent \in Nat
  BY BrowserAssumption DEF SendState
<1>2. CASE s.flow # "open" \/ s.max <= s.sent
  BY <1>2 DEF TryReserve
<1>3. CASE ~(s.flow # "open" \/ s.max <= s.sent)
  <2>1. PICK r \in Nat : r = s.max - s.sent /\ r > 0
    BY <1>1, <1>3
  <2> DEFINE m == Min({w, MaxChunk, r})
  <2>2. m \in {w, MaxChunk, r} /\ m <= w /\ m <= MaxChunk /\ m <= r
    <3>1. w \in Int /\ MaxChunk \in Int /\ r \in Int
      BY <1>1
    <3> QED
      BY ONLY <3>1, MinOfThree, Zenon
  <2>3. TryReserve(s, w) = m
    BY <1>3, <2>1 DEF TryReserve
  <2> HIDE DEF m
  <2>4. m \in Nat /\ m > 0
    BY <1>1, <2>1, <2>2
  <2> QED
    BY <1>3, <2>1, <2>2, <2>3, <2>4
<1> QED
  BY <1>2, <1>3

LEMMA FrameWire ==
    ASSUME setup \in Setups, NEW id \in Streams, NEW n \in Nat,
           NEW t \in {"open", "data", "fin", "reset", "max", "stop"}
    PROVE  Frame(t, id, n) \in Wire
BY StreamIds DEF Frame, Wire, Frames

LEMMA PushChannel ==
    ASSUME NEW c \in Channel, NEW s \in Senders, NEW f \in Wire
    PROVE  Push(c, s, f) \in Channel /\ Push(c, s, f).q = Append(c.q, f)
BY DEF Push, Channel

LEMMA CtlSender == Ctl \in Senders
BY DEF Ctl, Senders

LEMMA StreamSenders ==
    ASSUME setup \in Setups, NEW id \in Streams
    PROVE  Own(id) \in Senders /\ Call(id) \in Senders
BY StreamIds DEF Own, Call, Senders

LEMMA TrySendChannel ==
    ASSUME NEW c \in Channel, NEW f \in Wire
    PROVE  /\ TrySend(c, f) \in Channel
           /\ CanSend(c, Ctl) => TrySend(c, f).q = Append(c.q, f)
           /\ ~CanSend(c, Ctl) => TrySend(c, f) = c
BY PushChannel, CtlSender DEF TrySend

LEMMA DropSenderChannel ==
    ASSUME NEW c \in Channel, NEW s
    PROVE  DropSender(c, s) \in Channel /\ DropSender(c, s).q = c.q
<1> DEFINE par == [i \in DOMAIN c.parked |-> IF c.parked[i] = s THEN <<"gone", NoId>> ELSE c.parked[i]]
<1>1. c.parked \in Seq(Senders) /\ <<"gone", NoId>> \in Senders
  BY DEF Channel, Senders
<1>2. DOMAIN c.parked = 1..Len(c.parked) /\ Len(c.parked) \in Nat
  BY <1>1
<1>3. par \in [1..Len(c.parked) -> Senders]
  BY <1>1, <1>2
<1>4. par \in Seq(Senders)
  BY <1>2, <1>3
<1>5. DropSender(c, s) = [c EXCEPT !.parked = par]
  BY DEF DropSender
<1> HIDE DEF par
<1> QED
  BY <1>4, <1>5 DEF Channel

LEMMA PopNChannel ==
    ASSUME NEW c \in Channel, NEW k \in 0..Len(c.q)
    PROVE  /\ PopN(c, k) \in Channel
           /\ PopN(c, k).q = SubSeq(c.q, k + 1, Len(c.q))
BY DEF PopN, Channel

LEMMA SendHelpers ==
    ASSUME NEW s \in SendState
    PROVE  RemoveFlow(s) \in SendState /\ DroppedSend(s) \in SendState /\ Idle(s) \in SendState
BY DEF RemoveFlow, DroppedSend, Idle, SendState

LEMMA RecvHelpers ==
    ASSUME NEW r \in RecvState
    PROVE  StopEntry(r) \in RecvState /\ DroppedRecv(r) \in RecvState
<1>1. StopEntry(r) \in RecvState
  BY DEF StopEntry, RecvState
<1>2. <<>> \in Events
  BY DEF Events
<1>3. PICK s \in RecvState : s = StopEntry(r)
  BY <1>1
<1>4. DroppedRecv(r) = [s EXCEPT !.handle = "dropped", !.ev = <<>>, !.pending = 0]
  BY <1>3 DEF DroppedRecv
<1>5. [s EXCEPT !.handle = "dropped", !.ev = <<>>, !.pending = 0] \in RecvState
  BY <1>2, Zenon DEF RecvState
<1> QED
  BY <1>1, <1>4, <1>5

LEMMA BlankStreams ==
    NoSend \in SendState /\ NoRecv \in RecvState
<1>1. Window \in Nat /\ <<>> \in Events
  BY BrowserAssumption DEF Events
<1>2. NoSend \in SendState
  BY DEF NoSend, SendState
<1>3. NoRecv \in RecvState
  BY <1>1 DEF NoRecv, RecvState
<1> QED
  BY <1>2, <1>3

LEMMA DeliverType ==
    ASSUME setup \in Setups, NEW p \in PeerState, NEW f \in Wire, f.t # "close"
    PROVE  Deliver(p, f) \in PeerState
<1>1. f.id \in Streams /\ f.n \in Nat
  BY DEF Wire, Frames
<1>2. f.t \in {"open", "data", "fin", "reset", "max", "stop"}
  BY DEF Wire, Frames
<1>3. Frame("reset", f.id, 0) \in Wire
  BY <1>1, FrameWire
<1>4. CASE f.t = "open"
  BY <1>1, <1>4 DEF Deliver, PeerState
<1>5. CASE f.t = "data"
  <2>1. Deliver(p, f) = [p EXCEPT !.got[f.id] = @ + f.n]
    BY <1>5 DEF Deliver
  <2>2. [p.got EXCEPT ![f.id] = @ + f.n] \in [Streams -> Nat]
    BY <1>1 DEF PeerState
  <2>3. PICK g : g = [p.got EXCEPT ![f.id] = @ + f.n]
    OBVIOUS
  <2>4. Deliver(p, f) = [p EXCEPT !.got = g]
    BY <2>1, <2>3 DEF PeerState
  <2> QED
    BY <2>2, <2>3, <2>4 DEF PeerState
<1>6. CASE f.t \in {"fin", "reset"}
  BY <1>1, <1>6 DEF Deliver, PeerState
<1>7. CASE f.t = "max"
  <2>1. Max({p.credit[f.id], f.n}) \in Nat
    BY <1>1, MaxOfTwo DEF PeerState
  <2> QED
    BY <1>1, <1>7, <2>1 DEF Deliver, PeerState
<1>8. CASE f.t = "stop"
  <2>1. \/ Deliver(p, f) = p
        \/ Deliver(p, f) = [p EXCEPT !.outEnd = @ \cup {f.id},
                                     !.net = Append(@, Frame("reset", f.id, 0))]
    BY <1>8 DEF Deliver
  <2>2. Append(p.net, Frame("reset", f.id, 0)) \in Seq(Wire)
    BY <1>3 DEF PeerState
  <2>3. PICK net : net = Append(p.net, Frame("reset", f.id, 0))
    OBVIOUS
  <2>4. PICK ended \in SUBSET Streams : ended = p.outEnd \cup {f.id}
    BY <1>1 DEF PeerState
  <2>5. CASE Deliver(p, f) = [p EXCEPT !.outEnd = ended, !.net = net]
    BY <2>2, <2>3, <2>5 DEF PeerState
  <2> QED
    BY <2>1, <2>3, <2>4, <2>5
<1> QED
  BY <1>2, <1>4, <1>5, <1>6, <1>7, <1>8

-----------------------------------------------------------------------------
(* What a sequence of deliveries does                                      *)

(* Two traces that start alike and see the same frames are the same. *)
LEMMA TracesAgree ==
    ASSUME NEW n \in Nat, NEW p, NEW s, NEW t, NEW d, NEW e,
           Trace(p, s, n, d), Trace(p, t, n, e), \A k \in 1..n : s[k] = t[k]
    PROVE  d[n] = e[n]
<1> DEFINE S == {k \in Nat : k <= n => d[k] = e[k]}
<1>1. 0 \in S
  BY DEF Trace
<1>2. ASSUME NEW k \in Nat, k \in S PROVE k + 1 \in S
  <2>1. SUFFICES ASSUME k + 1 <= n PROVE d[k + 1] = e[k + 1]
    OBVIOUS
  <2>2. k + 1 \in 1..n /\ (k + 1) - 1 = k /\ d[k] = e[k]
    BY <1>2, <2>1
  <2>3. d[k + 1] = Deliver(d[k], s[k + 1]) /\ e[k + 1] = Deliver(e[k], t[k + 1])
    BY <2>2 DEF Trace
  <2> QED
    BY <2>2, <2>3
<1>3. \A k \in Nat : k \in S
  <2> HIDE DEF S
  <2> QED
    BY <1>1, <1>2, SetInduction
<1> QED
  BY <1>3

LEMMA DeliveredNone ==
    ASSUME NEW p PROVE Delivered(p, <<>>) = p
<1>1. DOMAIN <<>> = 1..0
  OBVIOUS
<1>2. PICK d : Trace(p, <<>>, 0, d) /\ d[0] = Delivered(p, <<>>)
  BY <1>1, DeliveredTrace
<1> QED
  BY <1>2 DEF Trace

LEMMA DeliveredAppend ==
    ASSUME NEW T, NEW s \in Seq(T), NEW f \in T, NEW p
    PROVE  Delivered(p, Append(s, f)) = Deliver(Delivered(p, s), f)
<1> DEFINE n == Len(s)
           t == Append(s, f)
<1>1. n \in Nat /\ DOMAIN s = 1..n /\ DOMAIN t = 1..(n + 1) /\ n + 1 \in Nat
  OBVIOUS
<1>2. PICK d : Trace(p, s, n, d) /\ d[n] = Delivered(p, s)
  BY <1>1, DeliveredTrace
<1>3. PICK e : Trace(p, t, n + 1, e) /\ e[n + 1] = Delivered(p, t)
  BY <1>1, DeliveredTrace
<1>4. Trace(p, t, n, e) /\ e[n + 1] = Deliver(e[n], t[n + 1])
  <2>1. \A k \in 1..n : k \in 1..(n + 1)
    BY <1>1
  <2>2. n + 1 \in 1..(n + 1) /\ (n + 1) - 1 = n
    BY <1>1
  <2> HIDE DEF n, t
  <2> QED
    BY <1>3, <2>1, <2>2 DEF Trace
<1>5. (\A k \in 1..n : s[k] = t[k]) /\ t[n + 1] = f
  OBVIOUS
<1> HIDE DEF n, t
<1>6. d[n] = e[n]
  BY <1>1, <1>2, <1>4, <1>5, TracesAgree
<1> QED
  BY <1>2, <1>3, <1>4, <1>5, <1>6 DEF t

LEMMA DeliveredTail ==
    ASSUME NEW T, NEW s \in Seq(T), s # <<>>, NEW p
    PROVE  Delivered(p, s) = Delivered(Deliver(p, Head(s)), Tail(s))
<1> DEFINE n == Len(s)
           t == Tail(s)
<1>1. n \in Nat /\ n > 0 /\ n - 1 \in Nat /\ DOMAIN s = 1..n /\ DOMAIN t = 1..(n - 1)
  OBVIOUS
<1>2. PICK d : Trace(p, s, n, d) /\ d[n] = Delivered(p, s)
  BY <1>1, DeliveredTrace
<1>3. PICK q : q = Deliver(p, Head(s))
  OBVIOUS
<1>4. PICK e : Trace(q, t, n - 1, e) /\ e[n - 1] = Delivered(q, t)
  BY <1>1, DeliveredTrace
<1> DEFINE g == [k \in 0..(n - 1) |-> d[k + 1]]
<1>5. \A k \in 1..(n - 1) : t[k] = s[k + 1]
  OBVIOUS
<1>6. s[1] = Head(s)
  OBVIOUS
<1> HIDE DEF n, t
<1>7. Trace(q, t, n - 1, g)
  <2>1. g[0] = q
    <3>1. 1 \in 1..n /\ 1 - 1 = 0 /\ 0 \in 0..(n - 1) /\ 0 + 1 = 1
      BY <1>1
    <3>2. d[1] = Deliver(d[0], s[1]) /\ d[0] = p
      BY <1>2, <3>1 DEF Trace
    <3> QED
      BY <1>3, <1>6, <3>1, <3>2
  <2>2. ASSUME NEW k \in 1..(n - 1) PROVE g[k] = Deliver(g[k - 1], t[k])
    <3>1. k + 1 \in 1..n /\ (k + 1) - 1 = k /\ k \in 0..(n - 1) /\ k - 1 \in 0..(n - 1)
          /\ (k - 1) + 1 = k
      BY <1>1
    <3>2. d[k + 1] = Deliver(d[k], s[k + 1])
      BY <1>2, <3>1 DEF Trace
    <3> QED
      BY <1>5, <3>1, <3>2
  <2> QED
    BY <2>1, <2>2 DEF Trace
<1>8. g[n - 1] = d[n]
  BY <1>1
<1> HIDE DEF g
<1>9. e[n - 1] = g[n - 1]
  BY <1>1, <1>4, <1>7, TracesAgree
<1> QED
  BY <1>2, <1>3, <1>4, <1>8, <1>9 DEF t

(* Frames that can be delivered: no ConnectionClose among them. *)
Deliverable == {s \in Seq(Wire) : \A i \in DOMAIN s : s[i].t # "close"}

LEMMA DeliveredType ==
    ASSUME setup \in Setups, NEW p \in PeerState, NEW s \in Deliverable
    PROVE  Delivered(p, s) \in PeerState
<1> DEFINE n == Len(s)
<1>1. n \in Nat /\ DOMAIN s = 1..n
  BY DEF Deliverable
<1>2. PICK d : Trace(p, s, n, d) /\ d[n] = Delivered(p, s)
  BY <1>1, DeliveredTrace
<1> DEFINE S == {k \in Nat : k <= n => d[k] \in PeerState}
<1>3. \A k \in 1..n : s[k] \in Wire /\ s[k].t # "close"
  BY DEF Deliverable
<1> HIDE DEF n
<1>4. 0 \in S
  BY <1>2 DEF Trace
<1>5. ASSUME NEW k \in Nat, k \in S PROVE k + 1 \in S
  <2>1. SUFFICES ASSUME k + 1 <= n PROVE d[k + 1] \in PeerState
    OBVIOUS
  <2>2. k + 1 \in 1..n /\ (k + 1) - 1 = k /\ d[k] \in PeerState
    BY <1>1, <1>5, <2>1
  <2>3. d[k + 1] = Deliver(d[k], s[k + 1])
    BY <1>2, <2>2 DEF Trace
  <2> QED
    BY <1>3, <2>2, <2>3, DeliverType
<1>6. \A k \in Nat : k \in S
  <2> HIDE DEF S
  <2> QED
    BY <1>4, <1>5, SetInduction
<1> QED
  BY <1>1, <1>2, <1>6

(* Only data counts. *)
LEMMA DeliverGot ==
    ASSUME setup \in Setups, NEW p \in PeerState, NEW f \in Wire, f.t # "close"
    PROVE  Deliver(p, f).got = IF f.t = "data" THEN [p.got EXCEPT ![f.id] = @ + f.n] ELSE p.got
<1>1. f.t \in {"open", "data", "fin", "reset", "max", "stop"}
  BY DEF Wire, Frames
<1>2. CASE f.t = "data"
  BY <1>2 DEF Deliver, PeerState
<1>3. CASE f.t \in {"open", "fin", "reset", "max"}
  BY <1>3 DEF Deliver, PeerState
<1>4. CASE f.t = "stop"
  BY <1>4 DEF Deliver, PeerState
<1> QED
  BY <1>1, <1>2, <1>3, <1>4

LEMMA DeliveredGot ==
    ASSUME setup \in Setups, NEW p \in PeerState, NEW q \in PeerState, p.got = q.got,
           NEW s \in Deliverable
    PROVE  Delivered(p, s).got = Delivered(q, s).got
<1> DEFINE n == Len(s)
<1>1. n \in Nat /\ DOMAIN s = 1..n
  BY DEF Deliverable
<1>2. PICK d : Trace(p, s, n, d) /\ d[n] = Delivered(p, s)
  BY <1>1, DeliveredTrace
<1>3. PICK e : Trace(q, s, n, e) /\ e[n] = Delivered(q, s)
  BY <1>1, DeliveredTrace
<1> DEFINE S == {k \in Nat : k <= n => /\ d[k] \in PeerState /\ e[k] \in PeerState
                                       /\ d[k].got = e[k].got}
<1>4. \A k \in 1..n : s[k] \in Wire /\ s[k].t # "close"
  BY DEF Deliverable
<1> HIDE DEF n
<1>5. 0 \in S
  BY <1>2, <1>3 DEF Trace
<1>6. ASSUME NEW k \in Nat, k \in S PROVE k + 1 \in S
  <2>1. SUFFICES ASSUME k + 1 <= n
                 PROVE  /\ d[k + 1] \in PeerState /\ e[k + 1] \in PeerState
                        /\ d[k + 1].got = e[k + 1].got
    OBVIOUS
  <2>2. /\ k + 1 \in 1..n /\ (k + 1) - 1 = k
        /\ d[k] \in PeerState /\ e[k] \in PeerState /\ d[k].got = e[k].got
    BY <1>1, <1>6, <2>1
  <2>3. d[k + 1] = Deliver(d[k], s[k + 1]) /\ e[k + 1] = Deliver(e[k], s[k + 1])
    BY <1>2, <1>3, <2>2 DEF Trace
  <2>4. PICK f \in Wire : f = s[k + 1] /\ f.t # "close"
    BY <1>4, <2>2
  <2>5. Deliver(d[k], f) \in PeerState /\ Deliver(e[k], f) \in PeerState
    BY <2>2, <2>4, DeliverType
  <2>6. Deliver(d[k], f).got = Deliver(e[k], f).got
    <3>1. PICK x \in PeerState, y \in PeerState : x = d[k] /\ y = e[k] /\ x.got = y.got
      BY <2>2
    <3>2. Deliver(x, f).got = IF f.t = "data" THEN [x.got EXCEPT ![f.id] = @ + f.n] ELSE x.got
      BY <2>4, DeliverGot
    <3>3. Deliver(y, f).got = IF f.t = "data" THEN [y.got EXCEPT ![f.id] = @ + f.n] ELSE y.got
      BY <2>4, DeliverGot
    <3>4. Deliver(x, f).got = Deliver(y, f).got
      BY <3>1, <3>2, <3>3
    <3> QED
      BY <3>1, <3>4
  <2> QED
    BY <2>3, <2>4, <2>5, <2>6
<1>7. \A k \in Nat : k \in S
  <2> HIDE DEF S
  <2> QED
    BY <1>5, <1>6, SetInduction
<1> QED
  BY <1>1, <1>2, <1>3, <1>7

-----------------------------------------------------------------------------
(* Frames in a queue                                                       *)

LEMMA OnAppend ==
    ASSUME NEW T, NEW s \in Seq(T), NEW f \in T, NEW id, NEW ts
    PROVE  On(Append(s, f), id, ts) <=> On(s, id, ts) \/ (f.id = id /\ f.t \in ts)
<1>1. Len(s) \in Nat /\ DOMAIN s = 1..Len(s) /\ DOMAIN Append(s, f) = 1..(Len(s) + 1)
  OBVIOUS
<1>2. Append(s, f)[Len(s) + 1] = f /\ \A i \in 1..Len(s) : Append(s, f)[i] = s[i]
  OBVIOUS
<1>3. ASSUME On(Append(s, f), id, ts) PROVE On(s, id, ts) \/ (f.id = id /\ f.t \in ts)
  <2>1. PICK i \in 1..(Len(s) + 1) : Append(s, f)[i].id = id /\ Append(s, f)[i].t \in ts
    BY <1>1, <1>3 DEF On
  <2>2. i = Len(s) + 1 \/ i \in 1..Len(s)
    BY <1>1
  <2> QED
    BY <1>1, <1>2, <2>1, <2>2 DEF On
<1>4. ASSUME On(s, id, ts) PROVE On(Append(s, f), id, ts)
  BY <1>1, <1>2, <1>4 DEF On
<1>5. ASSUME f.id = id, f.t \in ts PROVE On(Append(s, f), id, ts)
  BY <1>1, <1>2, <1>5 DEF On
<1> QED
  BY <1>3, <1>4, <1>5

LEMMA BeforeAppend ==
    ASSUME NEW T, NEW s \in Seq(T), NEW f \in T, NEW id, NEW ts
    PROVE  /\ \A i \in 1..Len(s) : Before(Append(s, f), i, id, ts) <=> Before(s, i, id, ts)
           /\ Before(Append(s, f), Len(s) + 1, id, ts) <=> On(s, id, ts)
<1>1. Len(s) \in Nat /\ DOMAIN s = 1..Len(s)
  OBVIOUS
<1>2. \A i \in 1..Len(s) : Append(s, f)[i] = s[i]
  OBVIOUS
<1>3. ASSUME NEW i \in 1..Len(s)
      PROVE  Before(Append(s, f), i, id, ts) <=> Before(s, i, id, ts)
  <2>1. \A j \in 1..(i - 1) : j \in 1..Len(s)
    BY <1>1
  <2> QED
    BY <1>2, <2>1 DEF Before
<1>4. Before(Append(s, f), Len(s) + 1, id, ts) <=> On(s, id, ts)
  <2>1. (Len(s) + 1) - 1 = Len(s)
    BY <1>1
  <2> QED
    BY <1>1, <1>2, <2>1 DEF Before, On
<1> QED
  BY <1>3, <1>4

LEMMA OnTail ==
    ASSUME NEW T, NEW s \in Seq(T), s # <<>>, NEW id, NEW ts
    PROVE  On(s, id, ts) <=> On(Tail(s), id, ts) \/ (Head(s).id = id /\ Head(s).t \in ts)
<1>1. /\ Len(s) \in Nat \ {0} /\ DOMAIN s = 1..Len(s) /\ DOMAIN Tail(s) = 1..(Len(s) - 1)
      /\ Head(s) = s[1]
  OBVIOUS
<1>2. \A i \in 1..(Len(s) - 1) : Tail(s)[i] = s[i + 1]
  OBVIOUS
<1>3. ASSUME On(s, id, ts) PROVE On(Tail(s), id, ts) \/ (Head(s).id = id /\ Head(s).t \in ts)
  <2>1. PICK i \in 1..Len(s) : s[i].id = id /\ s[i].t \in ts
    BY <1>1, <1>3 DEF On
  <2>2. CASE i = 1
    BY <1>1, <2>1, <2>2
  <2>3. CASE i # 1
    <3>1. i - 1 \in 1..(Len(s) - 1) /\ (i - 1) + 1 = i
      BY <1>1, <2>3
    <3> QED
      BY <1>1, <1>2, <2>1, <3>1 DEF On
  <2> QED
    BY <2>2, <2>3
<1>4. ASSUME On(Tail(s), id, ts) PROVE On(s, id, ts)
  <2>1. PICK i \in 1..(Len(s) - 1) : Tail(s)[i].id = id /\ Tail(s)[i].t \in ts
    BY <1>1, <1>4 DEF On
  <2>2. i + 1 \in 1..Len(s)
    BY <1>1
  <2> QED
    BY <1>1, <1>2, <2>1, <2>2 DEF On
<1>5. ASSUME Head(s).id = id, Head(s).t \in ts PROVE On(s, id, ts)
  BY <1>1, <1>5 DEF On
<1> QED
  BY <1>3, <1>4, <1>5

LEMMA BeforeTail ==
    ASSUME NEW T, NEW s \in Seq(T), s # <<>>, NEW id, NEW ts, NEW i \in 1..Len(Tail(s))
    PROVE  /\ i + 1 \in 1..Len(s) /\ Tail(s)[i] = s[i + 1]
           /\ Before(s, i + 1, id, ts) <=>
                Before(Tail(s), i, id, ts) \/ (Head(s).id = id /\ Head(s).t \in ts)
<1>1. /\ Len(s) \in Nat \ {0} /\ DOMAIN s = 1..Len(s) /\ Len(Tail(s)) = Len(s) - 1
      /\ Head(s) = s[1]
  OBVIOUS
<1>2. \A j \in 1..(Len(s) - 1) : Tail(s)[j] = s[j + 1]
  OBVIOUS
<1>3. ASSUME Before(s, i + 1, id, ts)
      PROVE  Before(Tail(s), i, id, ts) \/ (Head(s).id = id /\ Head(s).t \in ts)
  <2>1. PICK j \in 1..((i + 1) - 1) : s[j].id = id /\ s[j].t \in ts
    BY <1>3 DEF Before
  <2>2. CASE j = 1
    BY <1>1, <2>1, <2>2
  <2>3. CASE j # 1
    <3>1. j - 1 \in 1..(i - 1) /\ j - 1 \in 1..(Len(s) - 1) /\ (j - 1) + 1 = j
      BY <1>1, <2>3
    <3> QED
      BY <1>1, <1>2, <2>1, <3>1 DEF Before
  <2> QED
    BY <2>2, <2>3
<1>4. ASSUME Before(Tail(s), i, id, ts) PROVE Before(s, i + 1, id, ts)
  <2>1. PICK j \in 1..(i - 1) : Tail(s)[j].id = id /\ Tail(s)[j].t \in ts
    BY <1>4 DEF Before
  <2>2. j + 1 \in 1..((i + 1) - 1) /\ j \in 1..(Len(s) - 1)
    BY <1>1
  <2> QED
    BY <1>2, <2>1, <2>2 DEF Before
<1>5. ASSUME Head(s).id = id, Head(s).t \in ts PROVE Before(s, i + 1, id, ts)
  <2>1. 1 \in 1..((i + 1) - 1)
    BY <1>1
  <2> QED
    BY <1>1, <1>5, <2>1 DEF Before
<1>6. i + 1 \in 1..Len(s) /\ Tail(s)[i] = s[i + 1]
  BY <1>1, <1>2
<1> QED
  BY <1>3, <1>4, <1>5, <1>6

LEMMA NothingBefore ==
    ASSUME NEW s, NEW id, NEW ts
    PROVE  ~Before(s, 1, id, ts)
BY DEF Before

-----------------------------------------------------------------------------
(* The frames under way, step by step                                      *)

LEMMA DeliverFields ==
    ASSUME NEW p \in PeerState, NEW f \in Wire, f.t # "close", NEW q, q = Deliver(p, f)
    PROVE  /\ q.known = IF f.t = "open" THEN p.known \cup {f.id} ELSE p.known
           /\ q.inEnd = IF f.t \in {"fin", "reset"} THEN p.inEnd \cup {f.id} ELSE p.inEnd
           /\ q.outEnd = IF f.t = "stop" THEN p.outEnd \cup {f.id} ELSE p.outEnd
           /\ q.net = IF f.t = "stop" /\ f.id \notin p.outEnd
                      THEN Append(p.net, Frame("reset", f.id, 0)) ELSE p.net
           /\ q.credit = IF f.t = "max" THEN [p.credit EXCEPT ![f.id] = Max({@, f.n})]
                         ELSE p.credit
           /\ q.granted = p.granted /\ q.sent = p.sent
<1>1. f.t \in {"open", "data", "fin", "reset", "max", "stop"}
  BY DEF Wire, Frames
<1>2. CASE f.t = "open"
  BY <1>2 DEF Deliver, PeerState
<1>3. CASE f.t = "data"
  BY <1>3 DEF Deliver, PeerState
<1>4. CASE f.t \in {"fin", "reset"}
  BY <1>4 DEF Deliver, PeerState
<1>5. CASE f.t = "max"
  BY <1>5 DEF Deliver, PeerState
<1>6. CASE f.t = "stop" /\ f.id \notin p.outEnd
  BY <1>6 DEF Deliver, PeerState
<1>7. CASE f.t = "stop" /\ f.id \in p.outEnd
  BY <1>7 DEF Deliver, PeerState
<1> QED
  BY <1>1, <1>2, <1>3, <1>4, <1>5, <1>6, <1>7

(* What a frame has to satisfy to be put behind out. *)
NewOut(p, out, f) ==
    /\ f.t # "close" /\ Born(f.id)
    /\ f.t = "open" => /\ f.n = 0 /\ f.id.local /\ f.id \notin p.known
                       /\ ~On(out, f.id, {"open"})
                       /\ f.id.bi /\ f.id \notin hist.half => rcv[f.id].entry # "none"
    /\ f.t \in {"data", "fin"} => f.id \notin p.inEnd /\ ~On(out, f.id, {"fin", "reset"})
    /\ f.t \in {"data", "fin", "stop"} => f.id \in p.known \/ On(out, f.id, {"open"})
    /\ f.t = "stop" => RecvSide(f.id)
    /\ f.t = "max" => f.n <= rcv[f.id].granted

LEMMA OutFramesAppend ==
    ASSUME NEW p, NEW out \in Seq(Wire), NEW f \in Wire,
           OutFrames(p, out)', NewOut(p, out, f)'
    PROVE  OutFrames(p, Append(out, f))'
<1>1. Len(out) \in Nat /\ DOMAIN out = 1..Len(out) /\ DOMAIN Append(out, f) = 1..(Len(out) + 1)
  OBVIOUS
<1>2. SUFFICES ASSUME NEW i \in 1..(Len(out) + 1) PROVE OutFrame(p, Append(out, f), i)'
  BY <1>1 DEF OutFrames
<1>3. CASE i \in 1..Len(out)
  <2>1. Append(out, f)[i] = out[i]
    BY <1>3
  <2>2. \A id : /\ Before(Append(out, f), i, id, {"open"}) <=> Before(out, i, id, {"open"})
                /\ Before(Append(out, f), i, id, {"fin", "reset"})
                      <=> Before(out, i, id, {"fin", "reset"})
    BY <1>3, BeforeAppend
  <2>3. OutFrame(p, out, i)'
    BY <1>1, <1>3 DEF OutFrames
  <2> QED
    BY <2>1, <2>2, <2>3 DEF OutFrame
<1>4. CASE i = Len(out) + 1
  <2>1. Append(out, f)[i] = f
    BY <1>4
  <2>2. \A id : /\ Before(Append(out, f), i, id, {"open"}) <=> On(out, id, {"open"})
                /\ Before(Append(out, f), i, id, {"fin", "reset"}) <=> On(out, id, {"fin", "reset"})
    BY <1>4, BeforeAppend
  <2> QED
    BY <2>1, <2>2 DEF OutFrame, NewOut
<1> QED
  BY <1>1, <1>3, <1>4

(* Frames under way do not mind streams that are born, entries that are kept *)
(* until the peer knows the stream, nor credit that grows.                   *)
LEMMA OutFramesKept ==
    ASSUME NEW p, NEW out \in Seq(Wire), OutFrames(p, out),
           \A id \in Streams :
              /\ Born(id) => Born(id)'
              /\ rcv[id].entry # "none" => rcv'[id].entry # "none" \/ id \in p.known
              /\ \A n \in Nat : n <= rcv[id].granted => n <= rcv'[id].granted,
           hist.half \subseteq hist'.half
    PROVE  OutFrames(p, out)'
<1>1. SUFFICES ASSUME NEW i \in DOMAIN out PROVE OutFrame(p, out, i)'
  BY DEF OutFrames
<1>2. OutFrame(p, out, i) /\ out[i] \in Wire
  BY DEF OutFrames
<1>3. out[i].id \in Streams /\ out[i].n \in Nat
  BY <1>2 DEF OutFrame, Wire, Frames
<1> QED
  BY <1>2, <1>3 DEF OutFrame

LEMMA OutFramesDeliver ==
    ASSUME NEW p \in PeerState, NEW out \in Seq(Wire), out # <<>>, OutFrames(p, out)
    PROVE  OutFrames(Deliver(p, Head(out)), Tail(out))
<1>1. PICK f \in Wire : f = Head(out)
  OBVIOUS
<1>2. PICK q : q = Deliver(p, f)
  OBVIOUS
<1>3. Len(Tail(out)) \in Nat /\ DOMAIN Tail(out) = 1..Len(Tail(out)) /\ DOMAIN out = 1..Len(out)
      /\ 1 \in 1..Len(out) /\ f = out[1]
  BY <1>1
<1>4. OutFrame(p, out, 1) /\ f.t # "close"
  BY <1>3 DEF OutFrames, OutFrame
<1>5. /\ q.known = IF f.t = "open" THEN p.known \cup {f.id} ELSE p.known
      /\ q.inEnd = IF f.t \in {"fin", "reset"} THEN p.inEnd \cup {f.id} ELSE p.inEnd
  BY <1>2, <1>4, DeliverFields
<1>6. ASSUME NEW i \in 1..Len(Tail(out)) PROVE OutFrame(q, Tail(out), i)
  <2>1. i + 1 \in 1..Len(out) /\ Tail(out)[i] = out[i + 1]
    BY BeforeTail
  <2>2. \A id : /\ Before(out, i + 1, id, {"open"}) <=>
                     Before(Tail(out), i, id, {"open"}) \/ (f.id = id /\ f.t = "open")
                /\ Before(out, i + 1, id, {"fin", "reset"}) <=>
                     Before(Tail(out), i, id, {"fin", "reset"})
                       \/ (f.id = id /\ f.t \in {"fin", "reset"})
    <3>1. ASSUME NEW id
          PROVE Before(out, i + 1, id, {"open"}) <=>
                     Before(Tail(out), i, id, {"open"}) \/ (f.id = id /\ f.t \in {"open"})
      BY <1>1, BeforeTail
    <3>2. ASSUME NEW id
          PROVE Before(out, i + 1, id, {"fin", "reset"}) <=>
                     Before(Tail(out), i, id, {"fin", "reset"})
                       \/ (f.id = id /\ f.t \in {"fin", "reset"})
      BY <1>1, BeforeTail
    <3> QED
      BY <3>1, <3>2
  <2>3. OutFrame(p, out, i + 1)
    BY <1>3, <2>1 DEF OutFrames
  <2> QED
    BY <1>5, <2>1, <2>2, <2>3 DEF OutFrame
<1> QED
  BY <1>1, <1>2, <1>3, <1>6 DEF OutFrames

(* The peer may learn of streams of its own and of the end of streams. *)
LEMMA OutFramesPeer ==
    ASSUME NEW p, NEW q, NEW out, OutFrames(p, out),
           q.inEnd = p.inEnd, p.known \subseteq q.known,
           \A id \in q.known : id \in p.known \/ ~id.local
    PROVE  OutFrames(q, out)
BY DEF OutFrames, OutFrame

LEMMA AnnouncedAppend ==
    ASSUME NEW p, NEW out \in Seq(Wire), NEW f \in Wire, Announced(p, out)',
           f.t \in {"fin", "reset"} => snd'[f.id].flow # "open"
    PROVE  Announced(p, Append(out, f))'
<1>1. \A id : /\ On(Append(out, f), id, {"open"}) <=>
                   On(out, id, {"open"}) \/ (f.id = id /\ f.t \in {"open"})
              /\ On(Append(out, f), id, {"fin", "reset"}) <=>
                   On(out, id, {"fin", "reset"}) \/ (f.id = id /\ f.t \in {"fin", "reset"})
  BY OnAppend
<1> QED
  BY <1>1 DEF Announced

LEMMA AnnouncedKept ==
    ASSUME NEW p, NEW out, Announced(p, out), setup' = setup, p.inEnd \subseteq Streams,
           \A id \in Streams :
              /\ Born(id) => Born(id)'
              /\ snd'[id].flow = "open" =>
                    \/ snd[id].flow = "open"
                    \/ /\ id \notin p.inEnd /\ ~On(out, id, {"fin", "reset"})
                       /\ id \in p.known \/ On(out, id, {"open"})
              /\ rcv'[id].entry # "none" =>
                    \/ rcv[id].entry # "none"
                    \/ RecvSide(id) /\ (id \in p.known \/ On(out, id, {"open"}))
    PROVE  Announced(p, out)'
BY DEF Announced, Streams

LEMMA AnnouncedDeliver ==
    ASSUME setup \in Setups,
           NEW p \in PeerState, NEW out \in Seq(Wire), out # <<>>, OutFrames(p, out),
           Announced(p, out)
    PROVE  Announced(Deliver(p, Head(out)), Tail(out))
<1>1. PICK f \in Wire : f = Head(out)
  OBVIOUS
<1>2. PICK q : q = Deliver(p, f)
  OBVIOUS
<1>3. 1 \in DOMAIN out /\ f = out[1]
  BY <1>1
<1>4. OutFrame(p, out, 1) /\ f.t # "close" /\ Born(f.id)
  BY <1>3 DEF OutFrames, OutFrame
<1>5. /\ q.known = IF f.t = "open" THEN p.known \cup {f.id} ELSE p.known
      /\ q.inEnd = IF f.t \in {"fin", "reset"} THEN p.inEnd \cup {f.id} ELSE p.inEnd
  BY <1>2, <1>4, DeliverFields
<1>6. \A id : /\ On(out, id, {"open"}) <=>
                   On(Tail(out), id, {"open"}) \/ (f.id = id /\ f.t \in {"open"})
              /\ On(out, id, {"fin", "reset"}) <=>
                   On(Tail(out), id, {"fin", "reset"}) \/ (f.id = id /\ f.t \in {"fin", "reset"})
  BY <1>1, OnTail
<1>7. Announced(q, Tail(out))
  BY <1>4, <1>5, <1>6 DEF Announced
<1> QED
  BY <1>1, <1>2, <1>7

LEMMA AnnouncedPeer ==
    ASSUME NEW p, NEW q, NEW out, Announced(p, out), q.inEnd = p.inEnd, p.known \subseteq q.known
    PROVE  Announced(q, out)
BY DEF Announced

-----------------------------------------------------------------------------
(* The frames of the peer, step by step                                    *)

(* What a frame has to satisfy for a peer q to send it behind net. *)
NewNet(q, net, g) ==
    /\ g.t # "close" => g.id \in q.known
    /\ g.t = "open" =>
          /\ ~g.id.local /\ ~Born(g.id)
          /\ \A j \in DOMAIN net : net[j].t = "open" /\ Key(net[j].id) = Key(g.id)
                                      => net[j].id.n < g.id.n
    /\ g.t \notin {"open", "close"} /\ ~Born(g.id) => On(net, g.id, {"open"})
    /\ g.t \in {"data", "fin"} => /\ RecvSide(g.id) /\ ~On(net, g.id, {"fin", "reset"})
                                  /\ g.t = "data" => g.n > 0
                                  /\ g.id \notin hist.half /\ Born(g.id) => rcv[g.id].entry # "none"
    /\ g.t \in {"fin", "reset"} => RecvSide(g.id) /\ g.id \in q.outEnd
    /\ g.t \in {"stop", "max"} => SendSide(g.id)
    /\ g.t = "max" => g.n <= q.granted[g.id]

(* A peer q that has learnt something since p, with the same frames under way. *)
Learnt(p, q) ==
    /\ p.known \subseteq q.known /\ p.outEnd \subseteq q.outEnd
    /\ \A id \in Streams : p.granted[id] <= q.granted[id]

LEMMA NetFramesSame ==
    ASSUME NEW p \in PeerState, NEW q \in PeerState, NetFrames(p), Learnt(p, q), q.net = p.net
    PROVE  NetFrames(q)
<1>1. SUFFICES ASSUME NEW i \in DOMAIN p.net PROVE NetFrame(q, i)
  BY DEF NetFrames
<1>2. NetFrame(p, i) /\ p.net[i] \in Wire
  BY DEF NetFrames, PeerState
<1>3. \A id \in Streams : p.granted[id] \in Nat /\ q.granted[id] \in Nat
  BY DEF PeerState
<1>4. p.net[i].n \in Nat /\ (p.net[i].t # "close" => p.net[i].id \in Streams)
  BY <1>2 DEF Wire, Frames
<1> QED
  BY <1>2, <1>3, <1>4 DEF NetFrame, Learnt

LEMMA NetFramesAppend ==
    ASSUME NEW p \in PeerState, NEW q \in PeerState, NEW g \in Wire,
           NetFrames(p), Learnt(p, q), q.net = Append(p.net, g), NewNet(q, p.net, g)
    PROVE  NetFrames(q)
<1>1. PICK net \in Seq(Wire) : net = p.net
  BY DEF PeerState
<1>2. Len(net) \in Nat /\ DOMAIN net = 1..Len(net) /\ DOMAIN Append(net, g) = 1..(Len(net) + 1)
  OBVIOUS
<1>3. ASSUME NEW i \in 1..Len(net) PROVE NetFrame(q, i)
  <2>1. NetFrame(p, i) /\ net[i] \in Wire /\ q.net[i] = net[i]
    BY <1>1, <1>2 DEF NetFrames
  <2>2. \A j \in 1..(i - 1) : j \in 1..Len(net) /\ q.net[j] = net[j]
    BY <1>1, <1>2
  <2>3. \A id : /\ Before(q.net, i, id, {"open"}) <=> Before(net, i, id, {"open"})
                /\ Before(q.net, i, id, {"fin", "reset"}) <=> Before(net, i, id, {"fin", "reset"})
    <3>1. \A id : /\ Before(Append(net, g), i, id, {"open"}) <=> Before(net, i, id, {"open"})
                  /\ Before(Append(net, g), i, id, {"fin", "reset"})
                        <=> Before(net, i, id, {"fin", "reset"})
      BY BeforeAppend
    <3> QED
      BY <1>1, <3>1
  <2>4. \A id \in Streams : p.granted[id] \in Nat /\ q.granted[id] \in Nat
    BY DEF PeerState
  <2>5. net[i].n \in Nat /\ (net[i].t # "close" => net[i].id \in Streams)
    BY <2>1 DEF Wire, Frames
  <2>6. PICK f \in Wire : f = net[i]
    BY <2>1
  <2>7. f.t = "max" => f.n <= q.granted[f.id]
    BY <1>1, <2>1, <2>4, <2>5, <2>6 DEF NetFrame, Learnt
  <2>8. f.t = "open" =>
          \A j \in 1..(i - 1) : q.net[j].t = "open" /\ Key(q.net[j].id) = Key(f.id)
                                  => q.net[j].id.n < f.id.n
    BY <1>1, <2>1, <2>2, <2>6 DEF NetFrame
  <2> QED
    BY <1>1, <2>1, <2>3, <2>6, <2>7, <2>8 DEF NetFrame, Learnt
<1>4. NetFrame(q, Len(net) + 1)
  <2>1. q.net[Len(net) + 1] = g /\ (Len(net) + 1) - 1 = Len(net)
    BY <1>1, <1>2
  <2>2. \A j \in 1..Len(net) : q.net[j] = net[j]
    BY <1>1, <1>2
  <2>3. \A id : /\ Before(q.net, Len(net) + 1, id, {"open"}) <=> On(net, id, {"open"})
                /\ Before(q.net, Len(net) + 1, id, {"fin", "reset"})
                      <=> On(net, id, {"fin", "reset"})
    BY <1>1, BeforeAppend
  <2> QED
    BY <1>1, <1>2, <2>1, <2>2, <2>3 DEF NetFrame, NewNet
<1> QED
  BY <1>1, <1>2, <1>3, <1>4 DEF NetFrames

(* The positions behind the first frame. *)
LEMMA NetTail ==
    ASSUME NEW p \in PeerState, NEW q \in PeerState, p.net # <<>>, q.net = Tail(p.net),
           NEW i \in DOMAIN q.net
    PROVE  /\ i + 1 \in DOMAIN p.net /\ q.net[i] = p.net[i + 1]
           /\ \A j \in 1..(i - 1) : j + 1 \in 1..((i + 1) - 1) /\ q.net[j] = p.net[j + 1]
           /\ \A id : /\ Before(p.net, i + 1, id, {"open"}) <=>
                           \/ Before(q.net, i, id, {"open"})
                           \/ Head(p.net).id = id /\ Head(p.net).t = "open"
                      /\ Before(q.net, i, id, {"fin", "reset"}) =>
                           Before(p.net, i + 1, id, {"fin", "reset"})
<1>1. PICK net \in Seq(Wire) : net = p.net
  BY DEF PeerState
<1>2. Len(net) \in Nat \ {0} /\ DOMAIN net = 1..Len(net) /\ DOMAIN Tail(net) = 1..(Len(net) - 1)
      /\ Len(Tail(net)) = Len(net) - 1
  BY <1>1
<1>3. \A j \in 1..(Len(net) - 1) : Tail(net)[j] = net[j + 1]
  OBVIOUS
<1>4. i \in 1..Len(Tail(net))
  BY <1>1, <1>2
<1>5. i + 1 \in DOMAIN p.net /\ q.net[i] = p.net[i + 1]
  BY <1>1, <1>2, <1>3, <1>4
<1>6. ASSUME NEW j \in 1..(i - 1) PROVE j + 1 \in 1..((i + 1) - 1) /\ q.net[j] = p.net[j + 1]
  <2>1. j \in 1..(Len(net) - 1) /\ j + 1 \in 1..((i + 1) - 1)
    BY <1>2, <1>4
  <2> QED
    BY <1>1, <1>3, <2>1
<1>7. ASSUME NEW id
      PROVE  /\ Before(net, i + 1, id, {"open"}) <=>
                  Before(Tail(net), i, id, {"open"}) \/ (Head(net).id = id /\ Head(net).t \in {"open"})
             /\ Before(net, i + 1, id, {"fin", "reset"}) <=>
                  \/ Before(Tail(net), i, id, {"fin", "reset"})
                  \/ Head(net).id = id /\ Head(net).t \in {"fin", "reset"}
  BY <1>1, <1>4, BeforeTail
<1> QED
  BY <1>1, <1>5, <1>6, <1>7

LEMMA NetFramesTail ==
    ASSUME NEW p \in PeerState, NEW q \in PeerState, NetFrames(p), p.net # <<>>,
           Head(p.net).t # "open", q.net = Tail(p.net),
           q.known = p.known, q.outEnd = p.outEnd, q.granted = p.granted
    PROVE  NetFrames(q)
<1>1. SUFFICES ASSUME NEW i \in DOMAIN q.net PROVE NetFrame(q, i)
  BY DEF NetFrames
<1>2. /\ i + 1 \in DOMAIN p.net /\ q.net[i] = p.net[i + 1]
      /\ \A j \in 1..(i - 1) : j + 1 \in 1..((i + 1) - 1) /\ q.net[j] = p.net[j + 1]
      /\ \A id : /\ Before(p.net, i + 1, id, {"open"}) <=> Before(q.net, i, id, {"open"})
                 /\ Before(q.net, i, id, {"fin", "reset"}) =>
                      Before(p.net, i + 1, id, {"fin", "reset"})
  BY NetTail
<1>3. NetFrame(p, i + 1)
  BY <1>2 DEF NetFrames
<1> QED
  BY <1>2, <1>3 DEF NetFrame

LEMMA NetFramesKept ==
    ASSUME NEW p \in PeerState, NetFrames(p), setup' = setup, setup \in Setups,
           \A id \in Streams :
              /\ id \in p.known => (Born(id)' <=> Born(id))
              /\ rcv[id].entry # "none" =>
                    rcv'[id].entry # "none" \/ ~On(p.net, id, {"data", "fin"}),
           hist.half \subseteq hist'.half
    PROVE  NetFrames(p)'
<1>1. SUFFICES ASSUME NEW i \in DOMAIN p.net PROVE NetFrame(p, i)'
  BY DEF NetFrames
<1>2. NetFrame(p, i) /\ p.net[i] \in Wire
  BY DEF NetFrames, PeerState
<1>3. p.net[i].t # "close" => p.net[i].id \in Streams
  BY <1>2 DEF Wire
<1>4. p.net[i].t \in {"data", "fin"} => On(p.net, p.net[i].id, {"data", "fin"})
  BY DEF On
<1> QED
  BY <1>2, <1>3, <1>4 DEF NetFrame

LEMMA OpeningsGrow ==
    ASSUME NEW p \in PeerState, NEW q \in PeerState, Openings(p), Learnt(p, q),
           \A id : On(p.net, id, {"open"}) => On(q.net, id, {"open"}),
           \A id \in q.known : id \notin p.known =>
              /\ \A j \in Streams : ~id.local /\ Key(j) = Key(id) /\ j.n < id.n => j \in q.known
              /\ ~Born(id) => ~id.local /\ On(q.net, id, {"open"})
              /\ id \notin hist.half /\ RecvSide(id) /\ Born(id) /\ id \notin q.outEnd =>
                    rcv[id].entry # "none"
    PROVE  Openings(q)
BY DEF Openings, Learnt

LEMMA OpeningsTail ==
    ASSUME NEW p \in PeerState, NEW q \in PeerState, Openings(p), p.net # <<>>,
           Head(p.net).t # "open", q.net = Tail(p.net),
           q.known = p.known, q.outEnd = p.outEnd
    PROVE  Openings(q)
<1>1. PICK net \in Seq(Wire) : net = p.net
  BY DEF PeerState
<1>2. \A id : On(net, id, {"open"}) <=>
                On(Tail(net), id, {"open"}) \/ (Head(net).id = id /\ Head(net).t \in {"open"})
  BY <1>1, OnTail
<1> QED
  BY <1>1, <1>2 DEF Openings

LEMMA OpeningsKept ==
    ASSUME NEW p \in PeerState, Openings(p), setup' = setup,
           \A id \in Streams :
              /\ id.local => (Born(id) => Born(id)')
              /\ ~id.local => (Born(id)' <=> Born(id))
              /\ Born(id)' /\ rcv'[id].entry = "none" =>
                    (Born(id) /\ rcv[id].entry = "none") \/ id \notin p.known \/ id \in p.outEnd,
           hist.half \subseteq hist'.half
    PROVE  Openings(p)'
<1>1. p.known \subseteq Streams
  BY DEF PeerState
<1> QED
  BY <1>1 DEF Openings, Streams

-----------------------------------------------------------------------------
(* Credit, step by step                                                    *)

LEMMA PayloadNat ==
    ASSUME NEW f \in Wire, NEW id PROVE Payload(f, id) \in Nat
BY DEF Payload, Wire, Frames

LEMMA CountedAppend ==
    ASSUME NEW p \in PeerState, NEW q \in PeerState, NEW g \in Wire, NEW id \in Streams,
           Counted(p, id), q.net = Append(p.net, g),
           p.sent[id] + Payload(g, id) <= q.sent[id]
    PROVE  Counted(q, id)
<1>1. PICK net \in Seq(Wire) : net = p.net
  BY DEF PeerState
<1>2. PICK n \in Nat : n = Len(net)
  OBVIOUS
<1>3. PICK m \in Nat, k \in Nat, g0 \in Nat : m = p.sent[id] /\ k = q.sent[id] /\ g0 = Payload(g, id)
  BY PayloadNat DEF PeerState
<1>4. PICK c \in [0..n -> 0..m] : /\ c[0] = rcv[id].received
                                  /\ \A i \in 1..n : c[i] = c[i - 1] + Payload(net[i], id)
  BY <1>1, <1>2, <1>3 DEF Counted
<1> DEFINE e == [i \in 0..(n + 1) |-> IF i <= n THEN c[i] ELSE c[n] + g0]
<1>5. n \in 0..n /\ c[n] \in 0..m /\ m + g0 <= k
  BY <1>3
<1>6. e \in [0..(n + 1) -> 0..k]
  BY <1>3, <1>5
<1>7. Len(q.net) = n + 1 /\ q.net[n + 1] = g /\ \A i \in 1..n : q.net[i] = net[i]
  BY <1>1, <1>2
<1>8. e[0] = rcv[id].received
  BY <1>4
<1>9. ASSUME NEW i \in 1..(n + 1) PROVE e[i] = e[i - 1] + Payload(q.net[i], id)
  <2>1. CASE i \in 1..n
    BY <1>4, <1>7, <2>1
  <2>2. CASE i = n + 1
    <3>1. e[n + 1] = c[n] + g0 /\ e[n] = c[n] /\ i - 1 = n
      BY <2>2
    <3> HIDE DEF e
    <3> QED
      BY <1>3, <1>7, <2>2, <3>1
  <2>3. i \in 1..n \/ i = n + 1
    OBVIOUS
  <2> HIDE DEF e
  <2> QED
    BY <2>1, <2>2, <2>3
<1> HIDE DEF e
<1> QED
  BY <1>3, <1>6, <1>7, <1>8, <1>9 DEF Counted

LEMMA CountedHead ==
    ASSUME NEW p \in PeerState, NEW id \in Streams, Counted(p, id), p.net # <<>>
    PROVE  rcv[id].received + Payload(Head(p.net), id) <= p.sent[id]
<1>1. PICK net \in Seq(Wire) : net = p.net /\ net # <<>>
  BY DEF PeerState
<1>2. PICK n \in Nat : n = Len(net) /\ 1 \in 1..n
  BY <1>1
<1>3. PICK c \in [0..n -> 0..p.sent[id]] :
             /\ c[0] = rcv[id].received
             /\ \A i \in 1..n : c[i] = c[i - 1] + Payload(net[i], id)
  BY <1>1, <1>2 DEF Counted
<1>4. c[1] = c[0] + Payload(net[1], id) /\ c[1] \in 0..p.sent[id] /\ net[1] = Head(net)
  BY <1>1, <1>2, <1>3
<1> QED
  BY <1>1, <1>3, <1>4

LEMMA CountedTail ==
    ASSUME NEW p \in PeerState, NEW q \in PeerState, NEW id \in Streams, Counted(p, id),
           p.net # <<>>, q.net = Tail(p.net), q.sent = p.sent,
           rcv'[id].received = rcv[id].received + Payload(Head(p.net), id)
    PROVE  Counted(q, id)'
<1>1. PICK net \in Seq(Wire) : net = p.net /\ net # <<>>
  BY DEF PeerState
<1>2. PICK n \in Nat : n = Len(net) /\ 1 \in 1..n
  BY <1>1
<1>3. PICK m \in Nat : m = p.sent[id]
  BY DEF PeerState
<1>4. PICK c \in [0..n -> 0..m] : /\ c[0] = rcv[id].received
                                  /\ \A i \in 1..n : c[i] = c[i - 1] + Payload(net[i], id)
  BY <1>1, <1>2, <1>3 DEF Counted
<1> DEFINE e == [i \in 0..(n - 1) |-> c[i + 1]]
<1>5. e \in [0..(n - 1) -> 0..m]
  BY <1>2
<1>6. Len(q.net) = n - 1 /\ \A i \in 1..(n - 1) : q.net[i] = net[i + 1]
  BY <1>1, <1>2
<1>7. e[0] = rcv'[id].received
  <2>1. c[1] = c[0] + Payload(net[1], id) /\ net[1] = Head(net)
    BY <1>1, <1>2, <1>4
  <2> QED
    BY <1>1, <1>2, <1>4, <2>1
<1>8. ASSUME NEW i \in 1..(n - 1) PROVE e[i] = e[i - 1] + Payload(q.net[i], id)
  <2>1. i + 1 \in 1..n /\ (i + 1) - 1 = i /\ (i - 1) + 1 = i /\ i \in 0..(n - 1) /\ i - 1 \in 0..(n - 1)
    BY <1>2
  <2>2. c[i + 1] = c[i] + Payload(net[i + 1], id)
    BY <1>4, <2>1
  <2> QED
    BY <1>6, <2>1, <2>2
<1> HIDE DEF e
<1> QED
  BY <1>3, <1>5, <1>6, <1>7, <1>8 DEF Counted

LEMMA CountedKept ==
    ASSUME NEW p, NEW id, Counted(p, id), rcv'[id].received = rcv[id].received
    PROVE  Counted(p, id)'
BY DEF Counted

LEMMA OwnCreditAppend ==
    ASSUME setup \in Setups, setup' = setup, snd \in [Streams -> SendState],
           snd' \in [Streams -> SendState],
           NEW p \in PeerState, NEW out \in Deliverable, NEW f \in Wire, f.t # "close",
           OwnCredit(p, out),
           \A id \in Streams :
              /\ snd'[id].max <= p.granted[id]
              /\ snd[id].sent - snd[id].grant + (IF f.t = "data" /\ f.id = id THEN f.n ELSE 0)
                    <= snd'[id].sent - snd'[id].grant
    PROVE  OwnCredit(p, Append(out, f))'
<1>1. PICK d \in PeerState : d = Delivered(p, out)
  BY DeliveredType
<1>2. out \in Seq(Wire)
  BY DEF Deliverable
<1>3. Delivered(p, Append(out, f)) = Deliver(d, f)
  BY <1>1, <1>2, DeliveredAppend
<1>4. Deliver(d, f).got = IF f.t = "data" THEN [d.got EXCEPT ![f.id] = @ + f.n] ELSE d.got
  BY DeliverGot
<1>5. f.id \in Streams /\ f.n \in Nat
  BY DEF Wire, Frames
<1>6. ASSUME NEW id \in Streams
      PROVE  Delivered(p, Append(out, f)).got[id] + snd'[id].grant <= snd'[id].sent
  <2>1. d.got[id] \in Nat /\ d.got \in [Streams -> Nat]
    BY DEF PeerState
  <2>2. Deliver(d, f).got[id] = d.got[id] + (IF f.t = "data" /\ f.id = id THEN f.n ELSE 0)
    BY <1>4, <1>5, <2>1
  <2>3. d.got[id] + snd[id].grant <= snd[id].sent
    BY <1>1 DEF OwnCredit
  <2>4. /\ snd[id].grant \in Nat /\ snd[id].sent \in Nat
        /\ snd'[id].grant \in Nat /\ snd'[id].sent \in Nat
    BY DEF SendState
  <2>5. PICK a \in Nat : a = IF f.t = "data" /\ f.id = id THEN f.n ELSE 0
    BY <1>5
  <2>6. snd[id].sent - snd[id].grant + a <= snd'[id].sent - snd'[id].grant
    BY <2>5
  <2> QED
    BY <1>3, <2>1, <2>2, <2>3, <2>4, <2>5, <2>6
<1> QED
  BY <1>6 DEF OwnCredit, Streams

LEMMA OwnCreditKept ==
    ASSUME setup \in Setups, setup' = setup, snd \in [Streams -> SendState],
           snd' \in [Streams -> SendState],
           NEW p \in PeerState, NEW out \in Deliverable, OwnCredit(p, out),
           \A id \in Streams :
              /\ snd'[id].max <= p.granted[id]
              /\ snd[id].sent - snd[id].grant <= snd'[id].sent - snd'[id].grant
    PROVE  OwnCredit(p, out)'
<1>1. PICK d \in PeerState : d = Delivered(p, out)
  BY DeliveredType
<1>2. ASSUME NEW id \in Streams PROVE d.got[id] + snd'[id].grant <= snd'[id].sent
  <2>1. d.got[id] \in Nat
    BY DEF PeerState
  <2>2. d.got[id] + snd[id].grant <= snd[id].sent
    BY <1>1 DEF OwnCredit
  <2>3. /\ snd[id].grant \in Nat /\ snd[id].sent \in Nat
        /\ snd'[id].grant \in Nat /\ snd'[id].sent \in Nat
    BY DEF SendState
  <2> QED
    BY <2>1, <2>2, <2>3
<1> QED
  BY <1>1, <1>2 DEF OwnCredit, Streams

LEMMA OwnCreditPeer ==
    ASSUME setup \in Setups, snd \in [Streams -> SendState],
           NEW p \in PeerState, NEW q \in PeerState, NEW out \in Deliverable, OwnCredit(p, out),
           q.got = p.got, \A id \in Streams : p.granted[id] <= q.granted[id]
    PROVE  OwnCredit(q, out)
<1>1. Delivered(q, out).got = Delivered(p, out).got
  BY DeliveredGot
<1>2. ASSUME NEW id \in Streams PROVE snd[id].max <= q.granted[id]
  <2>1. snd[id].max \in Nat /\ p.granted[id] \in Nat /\ q.granted[id] \in Nat
    BY DEF SendState, PeerState
  <2> QED
    BY <2>1 DEF OwnCredit
<1> QED
  BY <1>1, <1>2 DEF OwnCredit

LEMMA ToldStep ==
    ASSUME setup' = setup, NEW p, NEW out, NEW out2, Told(p, out),
           \A id \in Streams :
              /\ On(out, id, {"fin", "reset"}) => On(out2, id, {"fin", "reset"})
              /\ On(out, id, {"stop"}) => On(out2, id, {"stop"}),
           hist.failed \subseteq hist'.failed, hist.stopFailed \subseteq hist'.stopFailed,
           \A id \in Streams :
              /\ snd'[id].handle = "dropped" \/ snd'[id].finished =>
                    \/ snd[id].handle = "dropped" \/ snd[id].finished
                    \/ id \in hist'.failed \/ On(out2, id, {"fin", "reset"})
              /\ rcv'[id].entry # "none" /\ (rcv'[id].handle = "dropped" \/ rcv'[id].stopSent) =>
                    \/ rcv[id].entry # "none" /\ (rcv[id].handle = "dropped" \/ rcv[id].stopSent)
                    \/ id \in hist'.stopFailed \/ On(out2, id, {"stop"})
    PROVE  Told(p, out2)'
BY DEF Told, Streams

LEMMA ToldPeer ==
    ASSUME NEW p, NEW q, NEW out, Told(p, out), p.inEnd \subseteq q.inEnd, p.outEnd \subseteq q.outEnd
    PROVE  Told(q, out)
BY DEF Told

LEMMA ToldDeliver ==
    ASSUME NEW p \in PeerState, NEW out \in Deliverable, out # <<>>, Told(p, out)
    PROVE  Told(Deliver(p, Head(out)), Tail(out))
<1>1. out \in Seq(Wire) /\ 1 \in DOMAIN out /\ Head(out) = out[1]
  BY DEF Deliverable
<1>2. PICK f \in Wire : f = Head(out) /\ f.t # "close"
  BY <1>1 DEF Deliverable
<1>3. PICK q : q = Deliver(p, f)
  OBVIOUS
<1>4. /\ q.inEnd = IF f.t \in {"fin", "reset"} THEN p.inEnd \cup {f.id} ELSE p.inEnd
      /\ q.outEnd = IF f.t = "stop" THEN p.outEnd \cup {f.id} ELSE p.outEnd
  BY <1>2, <1>3, DeliverFields
<1>5. \A id : /\ On(out, id, {"stop"}) <=>
                   On(Tail(out), id, {"stop"}) \/ (f.id = id /\ f.t \in {"stop"})
              /\ On(out, id, {"fin", "reset"}) <=>
                   On(Tail(out), id, {"fin", "reset"}) \/ (f.id = id /\ f.t \in {"fin", "reset"})
  BY <1>1, <1>2, OnTail
<1>6. Told(q, Tail(out))
  BY <1>4, <1>5 DEF Told
<1> QED
  BY <1>2, <1>3, <1>6

(* A frame that reaches the peer leaves what it sends, or adds the RESET that *)
(* answers a StopSending.                                                     *)
LEMMA NetDeliver ==
    ASSUME setup \in Setups, rcv \in [Streams -> RecvState],
           NEW p \in PeerState, NEW f \in Wire, f.t # "close",
           NetFrames(p), Openings(p), PeerCredit(p),
           f.t = "open" => /\ f.id.local /\ Born(f.id)
                           /\ f.id.bi /\ f.id \notin hist.half => rcv[f.id].entry # "none",
           f.t = "stop" => RecvSide(f.id) /\ Born(f.id) /\ f.id \in p.known,
           f.t = "max" => f.n <= rcv[f.id].granted
    PROVE  /\ NetFrames(Deliver(p, f)) /\ Openings(Deliver(p, f)) /\ PeerCredit(Deliver(p, f))
<1>1. PICK q \in PeerState : q = Deliver(p, f)
  BY DeliverType
<1>2. /\ q.known = IF f.t = "open" THEN p.known \cup {f.id} ELSE p.known
      /\ q.outEnd = IF f.t = "stop" THEN p.outEnd \cup {f.id} ELSE p.outEnd
      /\ q.net = IF f.t = "stop" /\ f.id \notin p.outEnd
                 THEN Append(p.net, Frame("reset", f.id, 0)) ELSE p.net
      /\ q.credit = IF f.t = "max" THEN [p.credit EXCEPT ![f.id] = Max({@, f.n})]
                    ELSE p.credit
      /\ q.granted = p.granted /\ q.sent = p.sent
  BY ONLY p \in PeerState, f \in Wire, f.t # "close", q = Deliver(p, f), <1>1, DeliverFields, Zenon
<1>3. f.id \in Streams /\ f.n \in Nat
  BY DEF Wire, Frames
<1>4. Learnt(p, q)
  <2>1. \A id \in Streams : p.granted[id] \in Nat
    BY DEF PeerState
  <2>2. p.known \subseteq q.known /\ p.outEnd \subseteq q.outEnd
    BY <1>2
  <2> QED
    BY <1>2, <2>1, <2>2 DEF Learnt
<1>5. PICK g \in Wire : g = Frame("reset", f.id, 0)
  BY <1>3, FrameWire
<1>6. NetFrames(q) /\ (\A id : On(p.net, id, {"open"}) => On(q.net, id, {"open"}))
      /\ (\A id \in Streams : Counted(q, id))
  <2>1. CASE f.t = "stop" /\ f.id \notin p.outEnd
    <3>1. q.net = Append(p.net, g) /\ p.net \in Seq(Wire)
      BY <1>2, <1>5, <2>1 DEF PeerState
    <3>2. NewNet(q, p.net, g)
      BY <1>2, <1>5, <2>1 DEF NewNet, Frame
    <3>3. ASSUME NEW id \in Streams PROVE Counted(q, id)
      <4>1. Payload(g, id) = 0 /\ p.sent[id] \in Nat
        BY <1>5 DEF Payload, Frame, PeerState
      <4>2. p.sent[id] + Payload(g, id) <= q.sent[id]
        BY <1>2, <4>1
      <4> QED
        BY <3>1, <4>2, CountedAppend DEF PeerCredit
    <3>4. NetFrames(q)
      BY <1>4, <3>1, <3>2, NetFramesAppend
    <3>5. \A id : On(p.net, id, {"open"}) => On(q.net, id, {"open"})
      <4>1. PICK net \in Seq(Wire) : net = p.net
        BY <3>1
      <4>2. \A id : On(net, id, {"open"}) => On(Append(net, g), id, {"open"})
        BY OnAppend
      <4> QED
        BY <3>1, <4>1, <4>2
    <3> QED
      BY <3>3, <3>4, <3>5
  <2>2. CASE ~(f.t = "stop" /\ f.id \notin p.outEnd)
    <3>1. q.net = p.net
      BY <1>2, <2>2
    <3>2. NetFrames(q)
      BY <1>4, <3>1, NetFramesSame
    <3>3. ASSUME NEW id \in Streams PROVE Counted(q, id)
      <4>1. Counted(p, id) /\ q.sent = p.sent
        BY <1>2 DEF PeerCredit
      <4> QED
        BY ONLY <3>1, <4>1 DEF Counted
    <3> QED
      BY <3>1, <3>2, <3>3
  <2> QED
    BY <2>1, <2>2
<1>7. Openings(q)
  <2>1. ASSUME NEW id \in q.known, id \notin p.known
        PROVE  /\ id.local /\ Born(id)
               /\ id \notin hist.half /\ RecvSide(id) => rcv[id].entry # "none"
    BY <1>2, <2>1 DEF RecvSide
  <2> QED
    BY <1>4, <1>6, <2>1, OpeningsGrow
<1>8. PeerCredit(q)
  <2>1. ASSUME NEW id \in Streams
        PROVE  q.sent[id] <= q.credit[id] /\ q.credit[id] <= rcv[id].granted
    <3>1. /\ p.sent[id] <= p.credit[id] /\ p.credit[id] <= rcv[id].granted
          /\ p.sent[id] \in Nat /\ p.credit[id] \in Nat /\ rcv[id].granted \in Nat
      BY DEF PeerCredit, PeerState, RecvState
    <3>2. CASE f.t = "max" /\ f.id = id
      <4>1. PICK m \in Nat : m = Max({p.credit[id], f.n}) /\ m >= p.credit[id] /\ m \in {p.credit[id], f.n}
        BY <1>3, <3>1, MaxOfTwo
      <4>2. q.credit[id] = m
        BY <1>2, <3>2, <4>1 DEF PeerState
      <4> QED
        BY <1>2, <1>3, <3>1, <3>2, <4>1, <4>2
    <3>3. CASE ~(f.t = "max" /\ f.id = id)
      <4>1. q.credit[id] = p.credit[id]
        BY <1>2, <3>3 DEF PeerState
      <4> QED
        BY <1>2, <3>1, <4>1
    <3> QED
      BY <3>2, <3>3
  <2> QED
    BY <1>6, <2>1 DEF PeerCredit
<1> QED
  BY <1>1, <1>6, <1>7, <1>8

-----------------------------------------------------------------------------
(* A message reaches the peer                                              *)

LEMMA LinkDeliverable ==
    ASSUME NEW p, NEW out \in Seq(Wire), Link(p, out)
    PROVE  out \in Deliverable
BY DEF Link, OutFrames, OutFrame, Deliverable

LEMMA LinkDeliver ==
    ASSUME TypeOK, NEW p \in PeerState, NEW out \in Seq(Wire), out # <<>>, Link(p, out)
    PROVE  Link(Deliver(p, Head(out)), Tail(out)) /\ Deliver(p, Head(out)) \in PeerState
<1>1. out \in Deliverable
  BY LinkDeliverable
<1>2. PICK f \in Wire : f = Head(out) /\ f.t # "close" /\ 1 \in DOMAIN out /\ f = out[1]
  BY <1>1 DEF Deliverable
<1>3. PICK q \in PeerState : q = Deliver(p, f)
  BY <1>2, DeliverType DEF TypeOK
<1>4. OutFrame(p, out, 1) /\ ~Before(out, 1, f.id, {"open"})
  BY <1>2, NothingBefore DEF Link, OutFrames
<1>5. Tail(out) \in Deliverable
  <2>1. /\ Tail(out) \in Seq(Wire)
        /\ \A i \in DOMAIN Tail(out) : i + 1 \in DOMAIN out /\ Tail(out)[i] = out[i + 1]
    OBVIOUS
  <2> QED
    BY <1>1, <2>1 DEF Deliverable
<1>6. OutFrames(q, Tail(out))
  BY <1>2, <1>3, OutFramesDeliver DEF Link
<1>7. Announced(q, Tail(out))
  BY <1>2, <1>3, AnnouncedDeliver DEF Link, TypeOK
<1>8. NetFrames(q) /\ Openings(q) /\ PeerCredit(q)
  <2>1. /\ f.t = "open" => /\ f.id.local /\ Born(f.id)
                           /\ f.id.bi /\ f.id \notin hist.half => rcv[f.id].entry # "none"
        /\ f.t = "stop" => RecvSide(f.id) /\ Born(f.id) /\ f.id \in p.known
        /\ f.t = "max" => f.n <= rcv[f.id].granted
    BY <1>2, <1>4 DEF OutFrame
  <2>2. setup \in Setups /\ rcv \in [Streams -> RecvState]
    BY DEF TypeOK
  <2>3. NetFrames(p) /\ Openings(p) /\ PeerCredit(p)
    BY DEF Link
  <2> QED
    BY <1>2, <1>3, <2>1, <2>2, <2>3, NetDeliver
<1>9. OwnCredit(q, Tail(out))
  <2>1. Delivered(p, out) = Delivered(q, Tail(out))
    BY <1>2, <1>3, DeliveredTail
  <2>2. q.granted = p.granted
    BY <1>2, <1>3, DeliverFields
  <2> QED
    BY <2>1, <2>2 DEF Link, OwnCredit
<1>10. ~session.started => Told(q, Tail(out))
  BY <1>1, <1>2, <1>3, ToldDeliver DEF Link
<1> QED
  BY <1>2, <1>3, <1>6, <1>7, <1>8, <1>9, <1>10 DEF Link

(* A MAX_STREAM_DATA frame made of pending_credit, in front of the rest. *)
LEMMA LinkCredit ==
    ASSUME TypeOK, NEW p \in PeerState, NEW out \in Seq(Wire), Link(p, out),
           NEW id \in Streams, NEW f \in Wire, f = Frame("max", id, credit[id])
    PROVE  Link(Deliver(p, f), out) /\ Deliver(p, f) \in PeerState
<1>1. out \in Deliverable
  BY LinkDeliverable
<1>2. f.t = "max" /\ f.id = id /\ f.n = credit[id]
  BY DEF Frame
<1>3. PICK q \in PeerState : q = Deliver(p, f)
  BY <1>2, DeliverType DEF TypeOK
<1>4. q.known = p.known /\ q.inEnd = p.inEnd /\ q.outEnd = p.outEnd /\ q.granted = p.granted
  <2>0. f.t # "close"
    BY <1>2
  <2>1. ~(f.t = "open") /\ ~(f.t \in {"fin", "reset"}) /\ ~(f.t = "stop")
    BY <1>2
  <2>2. /\ q.known = IF f.t = "open" THEN p.known \cup {f.id} ELSE p.known
        /\ q.inEnd = IF f.t \in {"fin", "reset"} THEN p.inEnd \cup {f.id} ELSE p.inEnd
        /\ q.outEnd = IF f.t = "stop" THEN p.outEnd \cup {f.id} ELSE p.outEnd
        /\ q.net = IF f.t = "stop" /\ f.id \notin p.outEnd
                   THEN Append(p.net, Frame("reset", f.id, 0)) ELSE p.net
        /\ q.credit = IF f.t = "max" THEN [p.credit EXCEPT ![f.id] = Max({@, f.n})]
                      ELSE p.credit
        /\ q.granted = p.granted /\ q.sent = p.sent
    BY ONLY p \in PeerState, f \in Wire, q = Deliver(p, f), <1>3, <2>0, DeliverFields, Zenon
  <2> QED
    BY <2>1, <2>2
<1>5. OutFrames(q, out)
  BY <1>4, OutFramesPeer DEF Link
<1>6. Announced(q, out)
  BY <1>4, AnnouncedPeer DEF Link
<1>7. NetFrames(q) /\ Openings(q) /\ PeerCredit(q)
  <2>1. f.n <= rcv[f.id].granted
    BY <1>2 DEF Link, PeerCredit
  <2>2. setup \in Setups /\ rcv \in [Streams -> RecvState]
    BY DEF TypeOK
  <2>3. NetFrames(p) /\ Openings(p) /\ PeerCredit(p)
    BY DEF Link
  <2> QED
    BY <1>2, <1>3, <2>1, <2>2, <2>3, NetDeliver
<1>8. OwnCredit(q, out)
  <2>1. q.got = p.got
    BY <1>2, <1>3, DeliverGot DEF TypeOK
  <2>2. \A i \in Streams : p.granted[i] \in Nat
    BY DEF PeerState
  <2>3. setup \in Setups /\ snd \in [Streams -> SendState] /\ OwnCredit(p, out)
    BY DEF TypeOK, Link
  <2> QED
    BY <1>1, <1>4, <2>1, <2>2, <2>3, OwnCreditPeer
<1>9. ~session.started => Told(q, out)
  BY <1>4, ToldPeer DEF Link
<1> QED
  BY <1>3, <1>5, <1>6, <1>7, <1>8, <1>9 DEF Link

(* A message of k frames, one after the other. *)
LEMMA LinkBatch ==
    ASSUME TypeOK, NEW p \in PeerState, NEW out \in Seq(Wire), Link(p, out)
    PROVE  \A k \in 0..Len(out) :
              /\ Delivered(p, SubSeq(out, 1, k)) \in PeerState
              /\ Link(Delivered(p, SubSeq(out, 1, k)), SubSeq(out, k + 1, Len(out)))
<1> DEFINE Good(k) == /\ Delivered(p, SubSeq(out, 1, k)) \in PeerState
                      /\ Link(Delivered(p, SubSeq(out, 1, k)), SubSeq(out, k + 1, Len(out)))
           S == {k \in Nat : k <= Len(out) => Good(k)}
<1>1. 0 \in S
  <2>1. SubSeq(out, 1, 0) = <<>> /\ SubSeq(out, 0 + 1, Len(out)) = out
    OBVIOUS
  <2>2. Delivered(p, SubSeq(out, 1, 0)) = p
    BY <2>1, DeliveredNone
  <2>3. Good(0)
    BY <2>1, <2>2
  <2> HIDE DEF Good
  <2> QED
    BY <2>3
<1>2. ASSUME NEW k \in Nat, k \in S PROVE k + 1 \in S
  <2>1. SUFFICES ASSUME k + 1 <= Len(out) PROVE Good(k + 1)
    <3> HIDE DEF Good
    <3> QED
      OBVIOUS
  <2>2. Good(k)
    <3> HIDE DEF Good
    <3> QED
      BY <1>2, <2>1
  <2>3. PICK s \in Seq(Wire), t \in Seq(Wire) :
           s = SubSeq(out, 1, k) /\ t = SubSeq(out, k + 1, Len(out))
    <3>1. \A i \in 1..Len(out) : out[i] \in Wire
      OBVIOUS
    <3>2. /\ k \in Int /\ 1 \in Int /\ k + 1 \in Int /\ Len(out) \in Int
          /\ \A i \in 1..k : out[i] \in Wire
          /\ \A i \in (k + 1)..Len(out) : out[i] \in Wire
      BY ONLY k \in Nat, Len(out) \in Nat, <2>1, <3>1
    <3>3. SubSeq(out, 1, k) \in Seq(Wire) /\ SubSeq(out, k + 1, Len(out)) \in Seq(Wire)
      BY ONLY <3>2, SubSeqProperties
    <3> QED
      BY <3>3, Zenon
  <2>4. t # <<>> /\ Head(t) = out[k + 1] /\ out[k + 1] \in Wire
    <3>1. /\ k + 1 \in 1..Len(out) /\ Len(out) \in (k + 1)..Len(out) /\ out[k + 1] \in Wire
          /\ k + 1 \in Int /\ Len(out) \in Int
      BY <2>1
    <3>2. Head(t) = out[k + 1]
      BY <2>3, <3>1, HeadTailOfSubSeq
    <3>3. \A i \in (k + 1)..Len(out) : out[i] \in Wire
      BY <2>1
    <3>4. Len(t) = IF k + 1 <= Len(out) THEN Len(out) - (k + 1) + 1 ELSE 0
      BY ONLY <2>3, <3>1, <3>3, SubSeqProperties
    <3>5. Len(t) # 0
      BY ONLY <3>4, <3>1
    <3> QED
      BY ONLY <3>1, <3>2, <3>5, t \in Seq(Wire), Len(<<>>) = 0
  <2>5. Tail(t) = SubSeq(out, (k + 1) + 1, Len(out))
    <3>1. k + 1 \in 1..Len(out) /\ Len(out) \in (k + 1)..Len(out)
      BY <2>1
    <3> QED
      BY <2>3, <3>1, HeadTailOfSubSeq
  <2>6. SubSeq(out, 1, k + 1) = Append(s, out[k + 1])
    <3>1. k + 1 \in 1..Len(out) /\ 1 \in 1..Len(out) /\ (k + 1) - 1 = k
      BY <2>1
    <3>2. SubSeq(out, 1, k + 1) = SubSeq(out, 1, (k + 1) - 1) \o <<out[k + 1]>>
      BY <3>1, SubSeqRecursiveSecond
    <3> QED
      BY <2>3, <2>4, <3>1, <3>2
  <2>7. PICK q \in PeerState : q = Delivered(p, s) /\ Link(q, t)
    BY <2>2, <2>3
  <2>8. Delivered(p, SubSeq(out, 1, k + 1)) = Deliver(q, Head(t))
    <3>1. Delivered(p, Append(s, out[k + 1])) = Deliver(Delivered(p, s), out[k + 1])
      BY <2>3, <2>4, DeliveredAppend
    <3> QED
      BY <2>4, <2>6, <2>7, <3>1
  <2>9. Link(Deliver(q, Head(t)), Tail(t)) /\ Deliver(q, Head(t)) \in PeerState
    BY <2>4, <2>7, LinkDeliver
  <2>10. /\ Delivered(p, SubSeq(out, 1, k + 1)) \in PeerState
         /\ Link(Delivered(p, SubSeq(out, 1, k + 1)), SubSeq(out, (k + 1) + 1, Len(out)))
    BY <2>5, <2>8, <2>9, Zenon
  <2> QED
    BY <2>10
<1>3. \A k \in Nat : k \in S
  <2> HIDE DEF S
  <2> QED
    BY <1>1, <1>2, SetInduction
<1>4. \A k \in 0..Len(out) : Good(k)
  <2> HIDE DEF Good
  <2> QED
    BY <1>3
<1> QED
  BY <1>4

LEMMA LinkSame ==
    ASSUME NEW p, NEW out, Link(p, out), UNCHANGED <<setup, next, snd, rcv, hist, session>>,
           \A id \in Streams : credit'[id] <= rcv[id].granted
    PROVE  Link(p, out)'
<1>1. OutFrames(p, out)' /\ Announced(p, out)' /\ NetFrames(p)' /\ Openings(p)'
  BY DEF Link, OutFrames, OutFrame, Announced, NetFrames, NetFrame, Openings, Born, Streams
<1>2. \A id \in Streams : Counted(p, id)'
  BY DEF Link, PeerCredit, Counted
<1>3. PeerCredit(p)' /\ OwnCredit(p, out)' /\ (~session'.started => Told(p, out)')
  BY <1>2 DEF Link, PeerCredit, OwnCredit, Told, Streams
<1> QED
  BY <1>1, <1>3 DEF Link

-----------------------------------------------------------------------------
(* The link, step by step                                                  *)

LEMMA LinkNow ==
    ASSUME NEW p, NEW out, peer' = p, Outgoing' = out, Link(p, out)'
    PROVE  Link(peer, Outgoing)'
BY Zenon

(* What a step may do to the tables, as the peer q sees it, when it makes no *)
(* stream and the rest of the link is looked after elsewhere.                *)
Quiet(q) ==
    /\ UNCHANGED <<setup, next>> /\ hist'.half = hist.half
    /\ \A id \in Streams :
          /\ rcv'[id].entry # "none" => rcv[id].entry # "none"
          /\ rcv[id].entry # "none" =>
                \/ rcv'[id].entry # "none"
                \/ id \in q.known /\ id \in q.outEnd /\ ~On(q.net, id, {"data", "fin"})
          /\ rcv[id].granted <= rcv'[id].granted /\ credit'[id] <= rcv'[id].granted
          /\ snd'[id].flow = "open" => snd[id].flow = "open"
          /\ snd'[id].max = snd[id].max \/ snd'[id].max <= q.granted[id]

(* The peer p without some of its frames under way. *)
Less(p, q) ==
    /\ q.known = p.known /\ q.inEnd = p.inEnd /\ q.outEnd = p.outEnd /\ q.got = p.got
    /\ q.granted = p.granted /\ q.credit = p.credit /\ q.sent = p.sent

(* All of the link but what out adds to it. *)
LEMMA LinkQuiet ==
    ASSUME TypeOK, TypeOK', NEW p \in PeerState, NEW q \in PeerState, NEW out \in Seq(Wire),
           Link(p, out), Less(p, q), NetFrames(q), Openings(q),
           \A id \in Streams : Counted(q, id)', Quiet(q)
    PROVE  /\ OutFrames(q, out)' /\ Announced(q, out)' /\ NetFrames(q)' /\ Openings(q)'
           /\ PeerCredit(q)' /\ OwnCredit(q, out) /\ out \in Deliverable
<1>1. setup \in Setups /\ setup' = setup /\ Streams' = Streams /\ (hist.half \subseteq hist'.half)
  BY DEF TypeOK, Quiet, Streams
<1>2. \A id \in Streams : Born(id)' <=> Born(id)
  BY DEF Quiet, Born
<1>3. out \in Deliverable
  BY LinkDeliverable
<1>4. OutFrames(q, out)
  <2>1. q.inEnd = p.inEnd /\ p.known \subseteq q.known /\ \A id \in q.known : id \in p.known
    BY DEF Less
  <2> QED
    BY <2>1, OutFramesPeer DEF Link
<1>5. Announced(q, out)
  BY AnnouncedPeer DEF Link, Less
<1>6. OutFrames(q, out)'
  <2>1. \A id \in Streams : rcv[id].granted \in Nat /\ rcv'[id].granted \in Nat
    BY <1>1 DEF TypeOK, RecvState
  <2>2. \A id \in Streams :
           /\ rcv[id].entry # "none" => rcv'[id].entry # "none" \/ id \in q.known
           /\ \A n \in Nat : n <= rcv[id].granted => n <= rcv'[id].granted
    BY <2>1 DEF Quiet
  <2> QED
    BY <1>1, <1>2, <1>4, <2>2, OutFramesKept
<1>7. Announced(q, out)'
  <2>1. q.inEnd \subseteq Streams
    BY DEF PeerState
  <2> QED
    BY <1>1, <1>2, <1>5, <2>1, AnnouncedKept DEF Quiet
<1>8. NetFrames(q)'
  BY <1>1, <1>2, NetFramesKept DEF Quiet
<1>9. Openings(q)'
  <2>1. \A id \in Streams :
          Born(id)' /\ rcv'[id].entry = "none" =>
             (Born(id) /\ rcv[id].entry = "none") \/ id \notin q.known \/ id \in q.outEnd
    BY <1>2 DEF Quiet
  <2> QED
    BY <1>1, <1>2, <2>1, OpeningsKept
<1>10. PeerCredit(q)'
  <2>1. ASSUME NEW id \in Streams
        PROVE q.sent[id] <= q.credit[id] /\ q.credit[id] <= rcv'[id].granted
                /\ credit'[id] <= rcv'[id].granted
    <3>1. rcv[id].granted \in Nat /\ rcv'[id].granted \in Nat /\ p.credit[id] \in Nat /\ p.sent[id] \in Nat
      BY <1>1 DEF TypeOK, RecvState, PeerState
    <3>2. p.sent[id] <= p.credit[id] /\ p.credit[id] <= rcv[id].granted
      BY DEF Link, PeerCredit
    <3>3. rcv[id].granted <= rcv'[id].granted /\ credit'[id] <= rcv'[id].granted
      BY DEF Quiet
    <3>4. q.sent = p.sent /\ q.credit = p.credit
      BY DEF Less
    <3> QED
      BY <3>1, <3>2, <3>3, <3>4
  <2> QED
    <3>1. \A id \in Streams :
             /\ Counted(q, id)' /\ q.sent[id] <= q.credit[id]
             /\ q.credit[id] <= rcv'[id].granted /\ credit'[id] <= rcv'[id].granted
      BY <2>1
    <3> QED
      BY ONLY <1>1, <3>1 DEF PeerCredit, Streams
<1>11. OwnCredit(q, out)
  <2>1. snd \in [Streams -> SendState] /\ OwnCredit(p, out) /\ q.got = p.got /\ q.granted = p.granted
    BY DEF TypeOK, Link, Less
  <2>2. \A id \in Streams : p.granted[id] \in Nat
    BY DEF PeerState
  <2>3. \A id \in Streams : p.granted[id] <= q.granted[id]
    BY <2>1, <2>2
  <2> QED
    BY <1>1, <1>3, <2>1, <2>3, OwnCreditPeer
<1> QED
  BY <1>3, <1>6, <1>7, <1>8, <1>9, <1>10, <1>11

(* A quiet step with nothing new in out. *)
LEMMA LinkKept ==
    ASSUME TypeOK, TypeOK', NEW p \in PeerState, NEW q \in PeerState, NEW out \in Seq(Wire),
           Link(p, out), Less(p, q), NetFrames(q), Openings(q),
           \A id \in Streams : Counted(q, id)', Quiet(q),
           \A id \in Streams : snd[id].sent - snd[id].grant <= snd'[id].sent - snd'[id].grant,
           ~session'.started => Told(q, out)'
    PROVE  Link(q, out)'
<1>1. /\ OutFrames(q, out)' /\ Announced(q, out)' /\ NetFrames(q)' /\ Openings(q)'
      /\ PeerCredit(q)' /\ OwnCredit(q, out) /\ out \in Deliverable
  BY LinkQuiet
<1>2. setup \in Setups /\ setup' = setup /\ snd \in [Streams -> SendState] /\ snd' \in [Streams -> SendState]
  BY DEF TypeOK, Quiet, Streams
<1>3. \A id \in Streams : snd'[id].max <= q.granted[id]
  BY <1>1 DEF OwnCredit, Quiet
<1>4. OwnCredit(q, out)'
  BY <1>1, <1>2, <1>3, OwnCreditKept
<1> QED
  BY <1>1, <1>4 DEF Link

(* A quiet step that queues the frame f. *)
LEMMA LinkPush ==
    ASSUME TypeOK, TypeOK', NEW p \in PeerState, NEW q \in PeerState, NEW out \in Seq(Wire),
           Link(p, out), Less(p, q), NetFrames(q), Openings(q),
           \A id \in Streams : Counted(q, id)', Quiet(q),
           NEW f \in Wire, NewOut(q, out, f)',
           f.t \in {"fin", "reset"} => snd'[f.id].flow # "open",
           \A id \in Streams :
              snd[id].sent - snd[id].grant + (IF f.t = "data" /\ f.id = id THEN f.n ELSE 0)
                 <= snd'[id].sent - snd'[id].grant,
           ~session'.started => Told(q, Append(out, f))'
    PROVE  Link(q, Append(out, f))'
<1>1. /\ OutFrames(q, out)' /\ Announced(q, out)' /\ NetFrames(q)' /\ Openings(q)'
      /\ PeerCredit(q)' /\ OwnCredit(q, out) /\ out \in Deliverable
  BY LinkQuiet
<1>2. setup \in Setups /\ setup' = setup /\ snd \in [Streams -> SendState] /\ snd' \in [Streams -> SendState]
  BY DEF TypeOK, Quiet, Streams
<1>3. \A id \in Streams : snd'[id].max <= q.granted[id]
  BY <1>1 DEF OwnCredit, Quiet
<1>4. f.t # "close"
  BY DEF NewOut
<1>5. OwnCredit(q, Append(out, f))'
  BY <1>1, <1>2, <1>3, <1>4, OwnCreditAppend
<1>6. OutFrames(q, Append(out, f))'
  BY <1>1, OutFramesAppend
<1>7. Announced(q, Append(out, f))'
  BY <1>1, AnnouncedAppend
<1> QED
  BY <1>1, <1>5, <1>6, <1>7 DEF Link

-----------------------------------------------------------------------------
(* Steps of a SendStream                                                   *)

LEMMA OutgoingPushed ==
    ASSUME NEW T, NEW s \in Seq(T), NEW q \in Seq(T), NEW f \in T
    PROVE  s \o Append(q, f) = Append(s \o q, f) /\ s \o q \in Seq(T)
OBVIOUS

(* Session and history as a step of a handle may leave them. *)
Aside ==
    /\ session' \in {session, [session EXCEPT !.started = TRUE]}
    /\ hist' \in Histories
    /\ hist'.half = hist.half /\ hist'.late = hist.late /\ hist'.accused = hist.accused
    /\ hist.failed \subseteq hist'.failed /\ hist.stopFailed \subseteq hist'.stopFailed

SendChange(id, s) ==
    /\ Born(id) /\ Reserves(s) /\ Aside /\ chan' \in Channel
    /\ snd' = [snd EXCEPT ![id] = s] /\ UNCHANGED StreamKeeps
    /\ s.flow = "open" => snd[id].flow = "open"
    /\ s.max = snd[id].max

LEMMA AsideFacts ==
    ASSUME session \in Sessions, Aside
    PROVE  /\ session' \in Sessions /\ session'.closed = session.closed
           /\ session'.waiter = session.waiter /\ (session.started => session'.started)
           /\ session'.held = session.held
BY DEF Aside, Sessions

LEMMA SendChangeBooks ==
    ASSUME TypeOK, Books, NEW id \in Streams, NEW s \in SendState, SendChange(id, s)
    PROVE  TypeOK' /\ Books' /\ Streams' = Streams
<1>1. UNCHANGED <<setup, next, rcv, slot, credit, accept, task, peer>> /\ Streams' = Streams
  BY DEF SendChange, StreamKeeps, Streams
<1>2. session' \in Sessions /\ session'.closed = session.closed /\ session'.waiter = session.waiter
  BY AsideFacts DEF SendChange, TypeOK
<1>3. snd' \in [Streams -> SendState] /\ \A j \in Streams : snd'[j] = IF j = id THEN s ELSE snd[j]
  BY DEF SendChange, TypeOK
<1>4. TypeOK'
  <2>1. Wire' = Wire /\ PeerState' = PeerState /\ Histories' = Histories /\ Channel' = Channel
    BY <1>1 DEF Wire, PeerState, Histories, Channel
  <2>2. hist' \in Histories /\ chan' \in Channel
    BY DEF SendChange, Aside
  <2> QED
    BY <1>1, <1>2, <1>3, <2>1, <2>2 DEF TypeOK
<1>5. Unborn'
  <2>1. \A j : Born(j)' <=> Born(j)
    BY <1>1 DEF Born
  <2> QED
    BY <1>1, <1>3, <2>1 DEF Books, Unborn, SendChange
<1>6. Reserving'
  BY <1>1, <1>3 DEF Books, Reserving, SendChange
<1>7. EndRead' /\ Len(slot') <= 1 /\ HonestPeerTrusted'
  BY <1>1 DEF Books, EndRead, SendChange, Aside, HonestPeerTrusted
<1>8. Ending'
  <2>1. Entries' = Entries /\ Flows' \subseteq Flows
    BY <1>1, <1>3 DEF Entries, Flows, SendChange
  <2> QED
    BY <1>1, <1>2, <2>1 DEF Books, Ending, SendChange, Aside
<1> QED
  BY <1>1, <1>4, <1>5, <1>6, <1>7, <1>8 DEF Books

(* What the change leaves of the link, while the loop runs. *)
LEMMA SendChangeLink ==
    ASSUME TypeOK, IInv, task = "run", NEW id \in Streams, NEW s \in SendState, SendChange(id, s)
    PROVE  /\ Quiet(peer) /\ Less(peer, peer) /\ NetFrames(peer) /\ Openings(peer)
           /\ \A j \in Streams : Counted(peer, j)'
           /\ \A j \in Streams : snd'[j] = IF j = id THEN s ELSE snd[j]
           /\ Link(peer, Outgoing) /\ Outgoing \in Seq(Wire) /\ peer \in PeerState /\ peer' = peer
<1>1. UNCHANGED <<setup, next, rcv, slot, credit, accept, task, peer>>
  BY DEF SendChange, StreamKeeps
<1>2. Link(peer, Outgoing) /\ Outgoing \in Seq(Wire) /\ peer \in PeerState
  BY DEF IInv, TypeOK, Outgoing, Channel
<1>3. \A j \in Streams : snd'[j] = IF j = id THEN s ELSE snd[j]
  BY DEF SendChange, TypeOK
<1>4. Quiet(peer)
  <2>1. \A j \in Streams : rcv[j].granted \in Nat
    BY DEF TypeOK, RecvState
  <2>2. \A j \in Streams : credit[j] <= rcv[j].granted
    BY <1>2 DEF Link, PeerCredit
  <2>3. \A j \in Streams : (snd'[j].flow = "open" => snd[j].flow = "open") /\ snd'[j].max = snd[j].max
    BY <1>3 DEF SendChange
  <2> QED
    BY <1>1, <2>1, <2>2, <2>3 DEF Quiet, SendChange, Aside
<1>5. \A j \in Streams : Counted(peer, j)'
  BY <1>1, <1>2, CountedKept DEF Link, PeerCredit
<1> QED
  BY <1>1, <1>2, <1>3, <1>4, <1>5 DEF Link, Less

(* A step of a SendStream that queues nothing. *)
LEMMA SendKept ==
    ASSUME TypeOK, IInv, NEW id \in Streams, NEW s \in SendState, SendChange(id, s),
           chan'.q = chan.q,
           snd[id].sent - snd[id].grant <= s.sent - s.grant,
           s.handle = "dropped" \/ s.finished =>
              \/ snd[id].handle = "dropped" \/ snd[id].finished
              \/ id \in hist'.failed \/ session'.started
    PROVE  TypeOK' /\ IInv'
<1>1. TypeOK' /\ Books' /\ Streams' = Streams
  BY SendChangeBooks DEF IInv
<1>2. task' = task /\ Outgoing' = Outgoing
  BY DEF SendChange, StreamKeeps, Outgoing
<1>3. SUFFICES ASSUME task = "run" PROVE Link(peer, Outgoing)'
  BY <1>1, <1>2 DEF IInv
<1>4. /\ Quiet(peer) /\ Less(peer, peer) /\ NetFrames(peer) /\ Openings(peer)
      /\ \A j \in Streams : Counted(peer, j)'
      /\ \A j \in Streams : snd'[j] = IF j = id THEN s ELSE snd[j]
      /\ Link(peer, Outgoing) /\ Outgoing \in Seq(Wire) /\ peer \in PeerState /\ peer' = peer
  BY <1>3, SendChangeLink
<1>5. PICK p \in PeerState, out \in Seq(Wire) : p = peer /\ out = Outgoing
  BY <1>4
<1>6. \A j \in Streams : snd[j].sent - snd[j].grant <= snd'[j].sent - snd'[j].grant
  <2>1. \A j \in Streams : snd[j].sent \in Nat /\ snd[j].grant \in Nat
    BY DEF TypeOK, SendState
  <2> QED
    BY <1>4, <2>1
<1>7. ~session'.started => Told(p, out)'
  <2>1. HAVE ~session'.started
  <2>2. Told(p, out)
    BY <1>4, <1>5, <2>1, AsideFacts DEF Link, SendChange, TypeOK
  <2>3. rcv' = rcv /\ setup' = setup
    BY DEF SendChange, StreamKeeps
  <2>4. \A j \in Streams : snd'[j].handle = "dropped" \/ snd'[j].finished =>
           snd[j].handle = "dropped" \/ snd[j].finished \/ j \in hist'.failed
    BY <1>4, <2>1
  <2> QED
    BY <2>2, <2>3, <2>4, ToldStep DEF SendChange, Aside
<1>8. Link(p, out) /\ Less(p, p) /\ NetFrames(p) /\ Openings(p) /\ Quiet(p)
  BY <1>4, <1>5
<1>9. \A j \in Streams : Counted(p, j)'
  BY <1>4, <1>5
<1>10. Link(p, out)'
  BY <1>1, <1>6, <1>7, <1>8, <1>9, LinkKept
<1> QED
  BY <1>2, <1>4, <1>5, <1>10, LinkNow

(* A step of a SendStream that queues the frame f. *)
LEMMA SendPush ==
    ASSUME TypeOK, IInv, NEW id \in Streams, NEW s \in SendState, SendChange(id, s),
           NEW f \in Wire, f.id = id, f.t \in {"data", "fin", "reset"},
           chan'.q = Append(chan.q, f),
           f.t \in {"data", "fin"} => snd[id].flow = "open",
           f.t \in {"fin", "reset"} => s.flow # "open",
           snd[id].sent - snd[id].grant + (IF f.t = "data" THEN f.n ELSE 0) <= s.sent - s.grant,
           s.handle = "dropped" \/ s.finished =>
              snd[id].handle = "dropped" \/ snd[id].finished \/ f.t \in {"fin", "reset"}
    PROVE  TypeOK' /\ IInv'
<1>1. TypeOK' /\ Books' /\ Streams' = Streams
  BY SendChangeBooks DEF IInv
<1>2. task' = task /\ Outgoing' = Append(Outgoing, f)
  <2>1. slot \in Seq(Wire) /\ chan.q \in Seq(Wire) /\ slot' = slot /\ task' = task
    BY DEF SendChange, StreamKeeps, TypeOK, Channel
  <2>2. slot \o Append(chan.q, f) = Append(slot \o chan.q, f)
    BY <2>1, OutgoingPushed
  <2> QED
    BY <2>1, <2>2 DEF Outgoing
<1>3. SUFFICES ASSUME task = "run" PROVE Link(peer, Outgoing)'
  BY <1>1, <1>2 DEF IInv
<1>4. /\ Quiet(peer) /\ Less(peer, peer) /\ NetFrames(peer) /\ Openings(peer)
      /\ \A j \in Streams : Counted(peer, j)'
      /\ \A j \in Streams : snd'[j] = IF j = id THEN s ELSE snd[j]
      /\ Link(peer, Outgoing) /\ Outgoing \in Seq(Wire) /\ peer \in PeerState /\ peer' = peer
  BY <1>3, SendChangeLink
<1>5. PICK p \in PeerState, out \in Seq(Wire) : p = peer /\ out = Outgoing
  BY <1>4
<1>6. \A j \in Streams :
        snd[j].sent - snd[j].grant + (IF f.t = "data" /\ f.id = j THEN f.n ELSE 0)
           <= snd'[j].sent - snd'[j].grant
  <2>1. \A j \in Streams : snd[j].sent \in Nat /\ snd[j].grant \in Nat
    BY DEF TypeOK, SendState
  <2> QED
    BY <1>4, <2>1
<1>7. ~session'.started => Told(p, Append(out, f))'
  <2>1. HAVE ~session'.started
  <2>2. Told(p, out)
    BY <1>4, <1>5, <2>1, AsideFacts DEF Link, SendChange, TypeOK
  <2>3. rcv' = rcv /\ setup' = setup
    BY DEF SendChange, StreamKeeps
  <2>4. \A j, ts : On(Append(out, f), j, ts) <=> On(out, j, ts) \/ (f.id = j /\ f.t \in ts)
    BY OnAppend
  <2>5. \A j \in Streams : snd'[j].handle = "dropped" \/ snd'[j].finished =>
           \/ snd[j].handle = "dropped" \/ snd[j].finished
           \/ On(Append(out, f), j, {"fin", "reset"})
    BY <1>4, <2>4
  <2> QED
    BY <2>2, <2>3, <2>4, <2>5, ToldStep DEF SendChange, Aside
<1>8. Link(p, out) /\ Less(p, p) /\ NetFrames(p) /\ Openings(p) /\ Quiet(p)
  BY <1>4, <1>5
<1>9. \A j \in Streams : Counted(p, j)'
  BY <1>4, <1>5
<1>10. NewOut(p, out, f)'
  <2>1. Born(f.id)'
    BY DEF SendChange, StreamKeeps, Born
  <2>2. snd[id].flow = "open" => /\ id \notin p.inEnd /\ ~On(out, id, {"fin", "reset"})
                                 /\ id \in p.known \/ On(out, id, {"open"})
    BY <1>8 DEF Link, Announced
  <2> QED
    BY <2>1, <2>2 DEF NewOut
<1>11. f.t \in {"fin", "reset"} => snd'[f.id].flow # "open"
  BY <1>4
<1>12. Link(p, Append(out, f))'
  BY <1>1, <1>6, <1>7, <1>8, <1>9, <1>10, <1>11, LinkPush
<1> QED
  BY <1>2, <1>4, <1>5, <1>12, LinkNow

LEMMA UsedBorn ==
    ASSUME Books, NEW id \in Streams, snd[id] # NoSend \/ rcv[id] # NoRecv
    PROVE  Born(id)
BY DEF Books, Unborn

LEMMA HeldSend ==
    ASSUME TypeOK, Books, NEW id \in Streams, snd[id].handle = "held" \/ snd[id].pc # "idle"
    PROVE  /\ Born(id) /\ snd[id] \in SendState /\ Reserves(snd[id])
           /\ session \in Sessions /\ hist \in Histories /\ chan \in Channel
           /\ chan.q \in Seq(Wire) /\ setup \in Setups
<1>1. snd[id] # NoSend
  BY DEF NoSend
<1> QED
  BY <1>1, UsedBorn DEF TypeOK, Books, Reserving, Channel

LEMMA AsideNone ==
    ASSUME hist \in Histories, UNCHANGED <<session, hist>>
    PROVE  Aside
BY DEF Aside

LEMMA WriteBufStep ==
    ASSUME TypeOK, IInv, NEW id \in Ids, WriteBuf(id)
    PROVE  TypeOK' /\ IInv'
<1>1. id \in Streams /\ snd[id].handle = "held" /\ snd[id].pc = "idle"
  BY DEF WriteBuf, Admits
<1>2. /\ Born(id) /\ snd[id] \in SendState /\ Reserves(snd[id])
      /\ session \in Sessions /\ hist \in Histories /\ chan \in Channel /\ setup \in Setups
  BY <1>1, HeldSend DEF IInv
<1>3. PICK n \in 1..setup.units :
         snd' = [snd EXCEPT ![id].mode = 1, ![id].pc = "credit", ![id].left = n]
  BY DEF WriteBuf
<1>4. n \in Nat /\ n > 0
  BY <1>2, BrowserAssumption
<1> DEFINE s == [snd[id] EXCEPT !.mode = 1, !.pc = "credit", !.left = n]
<1>5. s \in SendState /\ snd' = [snd EXCEPT ![id] = s]
  <2>0. 1 \in 0..2 /\ n \in Nat
    BY <1>4
  <2>1. s \in SendState
    BY <1>2, <2>0, Zenon DEF SendState
  <2>2. snd' = [snd EXCEPT ![id] = s]
    BY <1>1, <1>3, Zenon
  <2> QED
    BY <2>1, <2>2
<1>6. /\ Reserves(s) /\ s.flow = snd[id].flow /\ s.max = snd[id].max
      /\ s.sent = snd[id].sent /\ s.grant = snd[id].grant
      /\ s.handle = snd[id].handle /\ s.finished = snd[id].finished
  BY <1>1, <1>2, <1>4 DEF Reserves, SendState
<1> HIDE DEF s
<1>7. SendChange(id, s) /\ chan'.q = chan.q
  BY <1>2, <1>5, <1>6, AsideNone DEF SendChange, WriteBuf
<1>8. snd[id].sent - snd[id].grant <= s.sent - s.grant
  BY <1>2, <1>6 DEF SendState
<1> QED
  BY <1>1, <1>5, <1>6, <1>7, <1>8, SendKept

(* The same stream for everyone but the write_buf that holds it. *)
SameSend(s, t) == /\ t.flow = s.flow /\ t.max = s.max /\ t.handle = s.handle
                  /\ t.finished = s.finished

LEMMA ReservedFacts ==
    ASSUME NEW s \in SendState, Reserves(s), s.pc # "idle", NEW t, t = Reserved(s)
    PROVE  /\ t \in SendState /\ Reserves(t) /\ SameSend(s, t) /\ t.pc \in {"credit", "slot"}
           /\ t.sent - t.grant = s.sent - s.grant
<1>1. /\ s.pc \in {"credit", "slot"} /\ s.left \in Nat /\ s.sent \in Nat /\ s.max \in Nat
      /\ s.grant \in Nat
  BY DEF SendState
<1>2. CASE s.pc = "credit" /\ TryReserve(s, s.left) > 0
  <2>1. s.left > 0 /\ s.grant = 0 /\ s.sent <= s.max
    BY <1>2 DEF Reserves
  <2>2. PICK g \in Nat : g = TryReserve(s, s.left) /\ g \in 1..s.left /\ g <= s.max - s.sent
    BY <1>1, <1>2, <2>1, ReservationBounds
  <2>3. t = [s EXCEPT !.pc = "slot", !.grant = g, !.sent = @ + g]
    BY <1>2, <2>2 DEF Reserved
  <2>4. /\ t.flow = s.flow /\ t.max = s.max /\ t.handle = s.handle /\ t.left = s.left
        /\ t.finished = s.finished /\ t.pc = "slot" /\ t.grant = g /\ t.sent = s.sent + g
    BY <2>3 DEF SendState
  <2>5. s.sent + g \in Nat
    BY <1>1
  <2>6. t \in SendState
    BY <2>3, <2>5, Zenon DEF SendState
  <2>7. g <= s.sent + g /\ s.sent + g <= s.max /\ (s.sent + g) - g = s.sent - s.grant
    BY <1>1, <2>1, <2>2
  <2> QED
    BY <2>2, <2>4, <2>6, <2>7 DEF Reserves, SameSend
<1>3. CASE ~(s.pc = "credit" /\ TryReserve(s, s.left) > 0)
  <2>1. t = s
    BY <1>3 DEF Reserved
  <2> QED
    BY <1>1, <2>1 DEF SameSend
<1> QED
  BY <1>2, <1>3

LEMMA IdleFacts ==
    ASSUME NEW s \in SendState, s.sent <= s.max
    PROVE  /\ Idle(s) \in SendState /\ Reserves(Idle(s)) /\ SameSend(s, Idle(s))
           /\ Idle(s).sent = s.sent /\ Idle(s).grant = 0
BY SendHelpers DEF Idle, Reserves, SameSend, SendState

LEMMA ReleaseFacts ==
    ASSUME NEW s \in SendState, s.grant <= s.sent, s.sent <= s.max
    PROVE  /\ Release(s) \in SendState /\ SameSend(s, Release(s))
           /\ Release(s).sent = s.sent - s.grant /\ Release(s).sent <= Release(s).max
<1>1. s.sent - s.grant \in Nat /\ s.sent - s.grant <= s.max
  BY DEF SendState
<1>2. Release(s) \in SendState
  BY <1>1, Zenon DEF Release, SendState
<1> QED
  BY <1>1, <1>2 DEF Release, SameSend, SendState

(* A write_buf call that ends without a frame. *)
LEMMA EndCallStep ==
    ASSUME TypeOK, IInv, NEW id \in Streams, snd[id].pc # "idle", NEW s \in SendState,
           SameSend(snd[id], s), s.sent <= s.max,
           snd[id].sent - snd[id].grant <= s.sent,
           EndCall(id, s), Aside, UNCHANGED StreamKeeps
    PROVE  TypeOK' /\ IInv'
<1>1. /\ Born(id) /\ snd[id] \in SendState /\ chan \in Channel
  BY HeldSend DEF IInv
<1>2. PICK t \in SendState : t = Idle(s) /\ Reserves(t) /\ SameSend(s, t) /\ t.sent = s.sent /\ t.grant = 0
  BY IdleFacts
<1>3. SendChange(id, t) /\ chan'.q = chan.q
  BY <1>1, <1>2, DropSenderChannel DEF SendChange, EndCall, SameSend
<1>4. snd[id].sent - snd[id].grant <= t.sent - t.grant
  BY <1>1, <1>2 DEF SendState
<1>5. t.handle = snd[id].handle /\ t.finished = snd[id].finished
  BY <1>2 DEF SameSend
<1> QED
  BY <1>3, <1>4, <1>5, SendKept

(* A chunk of a write_buf call is queued. *)
LEMMA PushChunkStep ==
    ASSUME TypeOK, IInv, NEW id \in Streams, snd[id].pc # "idle",
           NEW s \in SendState, s = Reserved(snd[id]), s.pc = "slot", s.flow = "open",
           PushChunk(id, s), UNCHANGED <<StreamKeeps, session, hist>>
    PROVE  TypeOK' /\ IInv'
<1>1. /\ Born(id) /\ snd[id] \in SendState /\ Reserves(snd[id])
      /\ hist \in Histories /\ chan \in Channel /\ setup \in Setups
  BY HeldSend DEF IInv
<1>2. Reserves(s) /\ SameSend(snd[id], s) /\ s.sent - s.grant = snd[id].sent - snd[id].grant
  BY <1>1, ReservedFacts
<1>3. /\ s.sent <= s.max /\ s.grant \in 1..s.left /\ s.grant <= s.sent
      /\ s.left \in Nat /\ s.grant \in Nat /\ s.sent \in Nat /\ s.max \in Nat
  BY <1>2 DEF Reserves, SendState
<1>4. PICK f \in Wire : f = Frame("data", id, s.grant)
  BY <1>1, <1>3, FrameWire
<1>5. f.id = id /\ f.t = "data" /\ f.n = s.grant
  BY <1>4 DEF Frame
<1>6. PICK c \in Channel : c = Push(chan, Call(id), f) /\ c.q = Append(chan.q, f)
  BY <1>1, PushChannel, StreamSenders
<1>7. Aside /\ snd[id].flow = "open"
  BY <1>1, <1>2, AsideNone DEF SameSend
<1>8. ASSUME NEW t \in SendState, Reserves(t), SameSend(s, t), t.sent = s.sent, t.grant = 0,
             snd' = [snd EXCEPT ![id] = t], chan' \in Channel, chan'.q = Append(chan.q, f)
      PROVE  TypeOK' /\ IInv'
  <2>1. SendChange(id, t)
    BY <1>1, <1>2, <1>7, <1>8 DEF SendChange, SameSend
  <2>2. snd[id].sent - snd[id].grant + f.n <= t.sent - t.grant
    <3>1. snd[id].sent - snd[id].grant + f.n = s.sent - s.grant + s.grant
      BY <1>2, <1>5
    <3> QED
      BY <1>3, <1>8, <3>1
  <2>3. t.handle = snd[id].handle /\ t.finished = snd[id].finished
    BY <1>2, <1>8 DEF SameSend
  <2> QED
    BY <1>5, <1>7, <1>8, <2>1, <2>2, <2>3, SendPush
<1>9. CASE s.left = s.grant
  <2>1. snd' = [snd EXCEPT ![id] = Idle(s)] /\ chan' = DropSender(c, Call(id))
    BY <1>4, <1>6, <1>9 DEF PushChunk
  <2>2. chan' \in Channel /\ chan'.q = Append(chan.q, f)
    BY <1>6, <2>1, DropSenderChannel
  <2>3. /\ Idle(s) \in SendState /\ Reserves(Idle(s)) /\ SameSend(s, Idle(s))
        /\ Idle(s).sent = s.sent /\ Idle(s).grant = 0
    BY <1>3, IdleFacts
  <2> QED
    BY <1>8, <2>1, <2>2, <2>3
<1>10. CASE s.left # s.grant
  <2> DEFINE t == [s EXCEPT !.pc = "credit", !.grant = 0, !.left = @ - s.grant]
  <2>1. snd' = [snd EXCEPT ![id] = t] /\ chan' = c
    BY <1>4, <1>6, <1>10 DEF PushChunk
  <2>2. s.left - s.grant \in Nat /\ s.left - s.grant > 0 /\ 0 \in Nat
    BY <1>3, <1>10
  <2>3. t \in SendState
    BY <2>2, Zenon DEF SendState
  <2>4. Reserves(t) /\ SameSend(s, t) /\ t.sent = s.sent /\ t.grant = 0
    BY <1>3, <2>2 DEF Reserves, SameSend, SendState
  <2> HIDE DEF t
  <2> QED
    BY <1>6, <1>8, <2>1, <2>3, <2>4
<1> QED
  BY <1>9, <1>10

LEMMA PollWriteBufStep ==
    ASSUME TypeOK, IInv, NEW id \in Ids, PollWriteBuf(id)
    PROVE  TypeOK' /\ IInv'
<1>1. id \in Streams /\ snd[id].pc # "idle"
  BY DEF PollWriteBuf
<1>2. /\ Born(id) /\ snd[id] \in SendState /\ Reserves(snd[id])
      /\ hist \in Histories /\ chan \in Channel
  BY <1>1, HeldSend DEF IInv
<1>3. PICK s \in SendState :
        /\ s = Reserved(snd[id]) /\ Reserves(s) /\ SameSend(snd[id], s)
        /\ s.sent - s.grant = snd[id].sent - snd[id].grant
  BY <1>1, <1>2, ReservedFacts
<1>4. UNCHANGED StreamKeeps /\ UNCHANGED <<session, hist>> /\ Aside
  BY <1>2, AsideNone DEF PollWriteBuf
<1>5. /\ s.sent <= s.max /\ s.grant \in Nat /\ s.sent \in Nat /\ s.max \in Nat
  BY <1>3 DEF Reserves, SendState
<1>6. CASE s.pc = "credit" /\ EndCall(id, s)
  <2>1. snd[id].sent - snd[id].grant <= s.sent
    BY <1>3, <1>5
  <2> QED
    BY <1>1, <1>3, <1>4, <1>5, <1>6, <2>1, EndCallStep
<1>7. CASE s.pc = "slot" /\ EndCall(id, Release(s))
  <2>1. s.grant <= s.sent
    BY <1>3, <1>7 DEF Reserves
  <2>2. PICK t \in SendState : /\ t = Release(s) /\ SameSend(s, t)
                               /\ t.sent = s.sent - s.grant /\ t.sent <= t.max
    BY <1>5, <2>1, ReleaseFacts
  <2>3. SameSend(snd[id], t)
    BY <1>3, <2>2 DEF SameSend
  <2>4. snd[id].sent - snd[id].grant <= t.sent
    BY <1>3, <1>5, <2>2
  <2> QED
    BY <1>1, <1>4, <1>7, <2>2, <2>3, <2>4, EndCallStep
<1>8. CASE s.pc = "slot" /\ s.flow = "open" /\ PushChunk(id, s)
  BY <1>1, <1>3, <1>4, <1>8, PushChunkStep
<1>9. CASE snd' = [snd EXCEPT ![id] = s] /\ UNCHANGED chan
  <2>1. SendChange(id, s) /\ chan'.q = chan.q
    BY <1>2, <1>3, <1>4, <1>9 DEF SendChange, SameSend
  <2>2. snd[id].sent - snd[id].grant <= s.sent - s.grant
    BY <1>3, <1>5
  <2> QED
    BY <1>1, <1>3, <2>1, <2>2, SendKept DEF SameSend
<1> QED
  BY <1>3, <1>6, <1>7, <1>8, <1>9 DEF PollWriteBuf

LEMMA CancelWriteStep ==
    ASSUME TypeOK, IInv, NEW id \in Ids, CancelWrite(id)
    PROVE  TypeOK' /\ IInv'
<1>1. id \in Streams /\ snd[id].pc # "idle" /\ EndCall(id, snd[id]) /\ UNCHANGED StreamKeeps
  BY DEF CancelWrite
<1>2. snd[id] \in SendState /\ Reserves(snd[id]) /\ hist \in Histories
  BY <1>1, HeldSend DEF IInv
<1>3. Aside
  BY <1>2 DEF CancelWrite, RequestShutdown, Aside
<1>4. SameSend(snd[id], snd[id]) /\ snd[id].sent <= snd[id].max
  BY <1>2 DEF SameSend, Reserves
<1>5. snd[id].sent - snd[id].grant <= snd[id].sent
  BY <1>2 DEF SendState
<1> QED
  BY <1>1, <1>2, <1>3, <1>4, <1>5, EndCallStep

(* t is s after what ends a stream: neither its credit nor its call changes. *)
EndedSend(s, t) ==
    /\ t \in SendState /\ Reserves(t) /\ t.max = s.max
    /\ t.sent = s.sent /\ t.grant = s.grant /\ (t.flow = "open" => s.flow = "open")

LEMMA EndingSends ==
    ASSUME NEW s \in SendState, Reserves(s), NEW m \in 1..2
    PROVE  /\ EndedSend(s, RemoveFlow(s)) /\ RemoveFlow(s).flow # "open"
           /\ RemoveFlow(s).handle = s.handle /\ RemoveFlow(s).finished = s.finished
           /\ EndedSend(s, DroppedSend(s)) /\ DroppedSend(s).flow # "open"
           /\ DroppedSend(s).finished = s.finished
           /\ EndedSend(s, [s EXCEPT !.mode = m, !.finished = TRUE])
           /\ EndedSend(s, [RemoveFlow(s) EXCEPT !.finished = TRUE])
           /\ [RemoveFlow(s) EXCEPT !.finished = TRUE].flow # "open"
           /\ EndedSend(s, [RemoveFlow(s) EXCEPT !.mode = m, !.finished = TRUE])
           /\ [RemoveFlow(s) EXCEPT !.mode = m, !.finished = TRUE].flow # "open"
           /\ EndedSend(s, RemoveFlow([s EXCEPT !.mode = m, !.finished = TRUE]))
           /\ RemoveFlow([s EXCEPT !.mode = m, !.finished = TRUE]).flow # "open"
<1>1. m \in 0..2 /\ TRUE \in BOOLEAN
  OBVIOUS
<1>2. ASSUME NEW t \in SendState, Reserves(t)
      PROVE  EndedSend(t, RemoveFlow(t)) /\ RemoveFlow(t).flow # "open"
             /\ RemoveFlow(t).handle = t.handle /\ RemoveFlow(t).finished = t.finished
  <2>1. RemoveFlow(t) \in SendState
    BY SendHelpers
  <2> QED
    BY <1>2, <2>1 DEF EndedSend, RemoveFlow, Reserves, SendState
<1>3. ASSUME NEW t \in SendState, Reserves(t)
      PROVE  LET u == [t EXCEPT !.mode = m, !.finished = TRUE] IN
             EndedSend(t, u) /\ u.flow = t.flow
  <2> DEFINE u == [t EXCEPT !.mode = m, !.finished = TRUE]
  <2>1. u \in SendState
    BY <1>1, <1>3, Zenon DEF SendState
  <2>2. /\ u.flow = t.flow /\ u.max = t.max /\ u.sent = t.sent /\ u.grant = t.grant
        /\ u.pc = t.pc /\ u.left = t.left
    BY <1>3 DEF SendState
  <2> HIDE DEF u
  <2>3. EndedSend(t, u) /\ u.flow = t.flow
    BY <1>3, <2>1, <2>2 DEF EndedSend, Reserves
  <2> QED
    BY <2>3 DEF u
<1>4. ASSUME NEW t \in SendState, Reserves(t)
      PROVE  LET u == [t EXCEPT !.finished = TRUE] IN
             EndedSend(t, u) /\ u.flow = t.flow
  <2> DEFINE u == [t EXCEPT !.finished = TRUE]
  <2>1. u \in SendState
    BY <1>1, <1>4, Zenon DEF SendState
  <2>2. /\ u.flow = t.flow /\ u.max = t.max /\ u.sent = t.sent /\ u.grant = t.grant
        /\ u.pc = t.pc /\ u.left = t.left
    BY <1>4 DEF SendState
  <2> HIDE DEF u
  <2>3. EndedSend(t, u) /\ u.flow = t.flow
    BY <1>4, <2>1, <2>2 DEF EndedSend, Reserves
  <2> QED
    BY <2>3 DEF u
<1>5. EndedSend(s, DroppedSend(s)) /\ DroppedSend(s).flow # "open" /\ DroppedSend(s).finished = s.finished
  <2>1. DroppedSend(s) \in SendState
    BY SendHelpers
  <2> QED
    BY <2>1 DEF EndedSend, DroppedSend, RemoveFlow, Reserves, SendState
<1>6. PICK t \in SendState : t = RemoveFlow(s) /\ EndedSend(s, t) /\ t.flow # "open"
  BY <1>2 DEF EndedSend
<1>7. /\ EndedSend(s, [t EXCEPT !.finished = TRUE]) /\ [t EXCEPT !.finished = TRUE].flow # "open"
      /\ EndedSend(s, [t EXCEPT !.mode = m, !.finished = TRUE])
      /\ [t EXCEPT !.mode = m, !.finished = TRUE].flow # "open"
  BY <1>3, <1>4, <1>6 DEF EndedSend
<1>8. PICK u \in SendState : u = [s EXCEPT !.mode = m, !.finished = TRUE] /\ EndedSend(s, u)
  BY <1>3 DEF EndedSend
<1>9. EndedSend(s, RemoveFlow(u)) /\ RemoveFlow(u).flow # "open"
  BY <1>2, <1>8 DEF EndedSend
<1> QED
  BY <1>2, <1>5, <1>6, <1>7, <1>8, <1>9

(* A step that ends a stream and queues at most the frame that says so. *)
LEMMA EndStep ==
    ASSUME TypeOK, IInv, NEW id \in Streams, snd[id].handle = "held" \/ snd[id].pc # "idle",
           NEW s, EndedSend(snd[id], s), snd' = [snd EXCEPT ![id] = s], Aside,
           NEW c \in Channel, c.q = chan.q, NEW f \in Wire, f.id = id, f.t \in {"fin", "reset"},
           f.t = "fin" => snd[id].flow = "open",
           UNCHANGED StreamKeeps,
           \/ chan' \in Channel /\ chan'.q = Append(c.q, f) /\ s.flow # "open"
           \/ /\ chan' = c
              /\ s.handle = "dropped" \/ s.finished =>
                    \/ snd[id].handle = "dropped" \/ snd[id].finished
                    \/ id \in hist'.failed \/ session'.started
    PROVE  TypeOK' /\ IInv'
<1>1. Born(id) /\ snd[id] \in SendState
  BY HeldSend DEF IInv
<1>2. s \in SendState /\ chan' \in Channel
  BY DEF EndedSend
<1>3. SendChange(id, s)
  BY <1>1, <1>2 DEF SendChange, EndedSend
<1>4. snd[id].sent - snd[id].grant <= s.sent - s.grant /\ f.t # "data"
  BY <1>1 DEF EndedSend, SendState
<1>5. CASE chan'.q = Append(c.q, f) /\ s.flow # "open"
  <2>1. snd[id].sent - snd[id].grant + (IF f.t = "data" THEN f.n ELSE 0) <= s.sent - s.grant
    BY <1>1, <1>4 DEF SendState
  <2> QED
    BY <1>2, <1>3, <1>5, <2>1, SendPush
<1>6. CASE /\ chan' = c
           /\ s.handle = "dropped" \/ s.finished =>
                 \/ snd[id].handle = "dropped" \/ snd[id].finished
                 \/ id \in hist'.failed \/ session'.started
  BY <1>2, <1>3, <1>4, <1>6, SendKept
<1> QED
  BY <1>5, <1>6

LEMMA FinishStep ==
    ASSUME TypeOK, IInv, NEW id \in Ids, Finish(id)
    PROVE  TypeOK' /\ IInv'
<1>1. id \in Streams /\ snd[id].handle = "held" /\ snd[id].flow = "open" /\ UNCHANGED StreamKeeps
  BY DEF Finish, Admits, IsClosed
<1>2. /\ snd[id] \in SendState /\ Reserves(snd[id]) /\ setup \in Setups
      /\ hist \in Histories /\ chan \in Channel
  BY <1>1, HeldSend DEF IInv
<1>3. PICK f \in Wire : f = Frame("fin", id, 0) /\ f.id = id /\ f.t = "fin"
  <2>1. Frame("fin", id, 0) \in Wire
    BY <1>1, <1>2, FrameWire
  <2> QED
    BY <2>1 DEF Frame
<1> DEFINE s == [snd[id] EXCEPT !.mode = 1, !.finished = TRUE]
<1>4. EndedSend(snd[id], s) /\ EndedSend(snd[id], RemoveFlow(s)) /\ RemoveFlow(s).flow # "open"
  BY <1>2, 1 \in 1..2, EndingSends
<1>5. snd' = [snd EXCEPT ![id] = IF CanSend(chan, Ctl) THEN RemoveFlow(s) ELSE s]
  BY DEF Finish
<1>6. chan' = TrySend(chan, f)
  BY <1>3 DEF Finish
<1> HIDE DEF s
<1>7. CASE CanSend(chan, Ctl)
  <2>1. Aside
    <3>1. hist' = [hist EXCEPT !.fins = @ \cup {id}] /\ session' = session
      BY <1>7 DEF Finish
    <3> QED
      BY <1>1, <1>2, <3>1 DEF Aside, Histories
  <2>2. chan' \in Channel /\ chan'.q = Append(chan.q, f)
    BY <1>2, <1>6, <1>7, TrySendChannel
  <2> QED
    BY <1>1, <1>2, <1>3, <1>4, <1>5, <1>7, <2>1, <2>2, EndStep
<1>8. CASE ~CanSend(chan, Ctl)
  <2>1. Aside /\ id \in hist'.failed
    <3>1. hist' = [hist EXCEPT !.failed = @ \cup {id}] /\ session' = session
      BY <1>8 DEF Finish
    <3> QED
      BY <1>1, <1>2, <3>1 DEF Aside, Histories
  <2>2. chan' = chan
    BY <1>2, <1>6, <1>8, TrySendChannel
  <2> QED
    BY <1>1, <1>2, <1>3, <1>4, <1>5, <1>8, <2>1, <2>2, EndStep
<1> QED
  BY <1>7, <1>8

LEMMA ResetStep ==
    ASSUME TypeOK, IInv, NEW id \in Ids, Reset(id)
    PROVE  TypeOK' /\ IInv'
<1>1. id \in Streams /\ snd[id].handle = "held" /\ UNCHANGED StreamKeeps
  BY DEF Reset, Admits
<1>2. /\ snd[id] \in SendState /\ Reserves(snd[id]) /\ setup \in Setups
      /\ hist \in Histories /\ chan \in Channel
  BY <1>1, HeldSend DEF IInv
<1>3. PICK f \in Wire : f = Frame("reset", id, 0) /\ f.id = id /\ f.t = "reset"
  <2>1. Frame("reset", id, 0) \in Wire
    BY <1>1, <1>2, FrameWire
  <2> QED
    BY <2>1 DEF Frame
<1> DEFINE s == [RemoveFlow(snd[id]) EXCEPT !.finished = TRUE]
<1>4. EndedSend(snd[id], s) /\ s.flow # "open"
  BY <1>2, 2 \in 1..2, EndingSends
<1>5. snd' = [snd EXCEPT ![id] = s] /\ chan' = TrySend(chan, f)
  BY <1>1, <1>3, Zenon DEF Reset
<1> HIDE DEF s
<1>6. Aside /\ (~CanSend(chan, Ctl) => id \in hist'.failed)
  <2>1. session' = session /\
        hist' = [hist EXCEPT !.reset = @ \cup {id},
                             !.failed = IF CanSend(chan, Ctl) THEN @ ELSE @ \cup {id}]
    BY DEF Reset
  <2> QED
    BY <1>1, <1>2, <2>1 DEF Aside, Histories
<1>7. CASE CanSend(chan, Ctl)
  <2>1. chan' \in Channel /\ chan'.q = Append(chan.q, f)
    BY <1>2, <1>5, <1>7, TrySendChannel
  <2> QED
    BY <1>1, <1>2, <1>3, <1>4, <1>5, <1>6, <2>1, EndStep
<1>8. CASE ~CanSend(chan, Ctl)
  <2>1. chan' = chan
    BY <1>2, <1>5, <1>8, TrySendChannel
  <2> QED
    BY <1>1, <1>2, <1>3, <1>4, <1>5, <1>6, <1>8, <2>1, EndStep
<1> QED
  BY <1>7, <1>8

LEMMA PollCloseStep ==
    ASSUME TypeOK, IInv, NEW id \in Ids, PollClose(id)
    PROVE  TypeOK' /\ IInv'
<1>1. id \in Streams /\ snd[id].handle = "held" /\ snd[id].flow = "open" /\ UNCHANGED StreamKeeps
  BY DEF PollClose, Admits, IsClosed
<1>2. /\ snd[id] \in SendState /\ Reserves(snd[id]) /\ setup \in Setups
      /\ hist \in Histories /\ chan \in Channel
  BY <1>1, HeldSend DEF IInv
<1>3. PICK f \in Wire : f = Frame("fin", id, 0) /\ f.id = id /\ f.t = "fin"
  <2>1. Frame("fin", id, 0) \in Wire
    BY <1>1, <1>2, FrameWire
  <2> QED
    BY <2>1 DEF Frame
<1> DEFINE s == [RemoveFlow(snd[id]) EXCEPT !.mode = 2, !.finished = TRUE]
<1>4. EndedSend(snd[id], s) /\ s.flow # "open"
  BY <1>2, 2 \in 1..2, EndingSends
<1>5. snd' = [snd EXCEPT ![id] = s] /\ chan' = Push(chan, Own(id), f)
  BY <1>1, <1>3, Zenon DEF PollClose
<1> HIDE DEF s
<1>6. Aside
  <2>1. session' = session /\ hist' = [hist EXCEPT !.fins = @ \cup {id}]
    BY DEF PollClose
  <2> QED
    BY <1>1, <1>2, <2>1 DEF Aside, Histories
<1>7. chan' \in Channel /\ chan'.q = Append(chan.q, f)
  BY <1>1, <1>2, <1>5, PushChannel, StreamSenders
<1> QED
  BY <1>1, <1>2, <1>3, <1>4, <1>5, <1>6, <1>7, EndStep

LEMMA DropSendStep ==
    ASSUME TypeOK, IInv, NEW id \in Ids, DropSend(id)
    PROVE  TypeOK' /\ IInv'
<1>1. id \in Streams /\ snd[id].handle = "held" /\ UNCHANGED StreamKeeps
  BY DEF DropSend
<1>2. /\ snd[id] \in SendState /\ Reserves(snd[id]) /\ setup \in Setups
      /\ hist \in Histories /\ chan \in Channel
  BY <1>1, HeldSend DEF IInv
<1>3. PICK f \in Wire : f = Frame("reset", id, 0) /\ f.id = id /\ f.t = "reset"
  <2>1. Frame("reset", id, 0) \in Wire
    BY <1>1, <1>2, FrameWire
  <2> QED
    BY <2>1 DEF Frame
<1>4. PICK s \in SendState : /\ s = DroppedSend(snd[id]) /\ EndedSend(snd[id], s) /\ s.flow # "open"
                             /\ s.finished = snd[id].finished
  <2>1. /\ EndedSend(snd[id], DroppedSend(snd[id])) /\ DroppedSend(snd[id]).flow # "open"
        /\ DroppedSend(snd[id]).finished = snd[id].finished
    BY <1>2, 1 \in 1..2, EndingSends
  <2> QED
    BY <2>1 DEF EndedSend
<1>5. PICK c \in Channel : c = DropSender(chan, Own(id)) /\ c.q = chan.q
  BY <1>2, DropSenderChannel
<1>6. snd' = [snd EXCEPT ![id] = s]
  BY <1>1, <1>4, Zenon DEF DropSend
<1>7. CASE snd[id].finished
  <2>1. chan' = c /\ UNCHANGED <<session, hist>>
    BY <1>5, <1>7 DEF DropSend
  <2> QED
    BY <1>1, <1>2, <1>3, <1>4, <1>5, <1>6, <1>7, <2>1, AsideNone, EndStep
<1>8. CASE ~snd[id].finished
  <2>1. /\ chan' = TrySend(c, f)
        /\ IF CanSend(c, Ctl) THEN UNCHANGED <<session, hist>> ELSE Abort
    BY <1>3, <1>5, <1>8 DEF DropSend, SendOr
  <2>2. CASE CanSend(c, Ctl)
    <3>1. chan' \in Channel /\ chan'.q = Append(c.q, f)
      BY <1>5, <2>1, <2>2, TrySendChannel
    <3>2. Aside
      BY <1>2, <2>1, <2>2, AsideNone
    <3>3. f.t \in {"fin", "reset"} /\ (f.t = "fin" => snd[id].flow = "open")
      BY <1>3
    <3>4. chan' \in Channel /\ chan'.q = Append(c.q, f) /\ s.flow # "open"
      BY <1>4, <3>1
    <3> QED
      BY <1>1, <1>3, <1>4, <1>5, <1>6, <3>2, <3>3, <3>4, EndStep
  <2>3. CASE ~CanSend(c, Ctl)
    <3>1. chan' = c
      BY <1>5, <2>1, <2>3, TrySendChannel
    <3>2. Aside /\ session'.started
      BY <1>2, <2>1, <2>3 DEF Abort, RequestShutdown, Aside, TypeOK, Sessions
    <3> QED
      BY <1>1, <1>2, <1>3, <1>4, <1>5, <1>6, <3>1, <3>2, EndStep
  <2> QED
    BY <2>2, <2>3
<1> QED
  BY <1>7, <1>8

LEMMA PollWriteStep ==
    ASSUME TypeOK, IInv, NEW id \in Ids, PollWrite(id)
    PROVE  TypeOK' /\ IInv'
<1>1. id \in Streams /\ snd[id].handle = "held" /\ snd[id].pc = "idle" /\ UNCHANGED StreamKeeps
      /\ UNCHANGED <<session, hist>>
  BY DEF PollWrite, Admits
<1>2. /\ Born(id) /\ snd[id] \in SendState /\ Reserves(snd[id]) /\ setup \in Setups
      /\ hist \in Histories /\ chan \in Channel
  BY <1>1, HeldSend DEF IInv
<1>3. PICK wanted \in 1..setup.units :
         LET g == TryReserve(snd[id], wanted) IN
          /\ g > 0
          /\ snd' = [snd EXCEPT ![id].mode = 2, ![id].sent = @ + g]
          /\ chan' = Push(chan, Own(id), Frame("data", id, g))
  BY DEF PollWrite
<1>4. wanted \in Nat /\ wanted > 0
  BY <1>2, BrowserAssumption
<1>5. PICK g \in Nat : /\ g = TryReserve(snd[id], wanted) /\ g > 0 /\ snd[id].flow = "open"
                       /\ g <= snd[id].max - snd[id].sent
  BY <1>2, <1>3, <1>4, ReservationBounds
<1>6. PICK f \in Wire : f = Frame("data", id, g) /\ f.id = id /\ f.t = "data" /\ f.n = g
  BY <1>1, <1>2, FrameWire DEF Frame
<1> DEFINE s == [snd[id] EXCEPT !.mode = 2, !.sent = @ + g]
<1>7. snd' = [snd EXCEPT ![id] = s] /\ chan' = Push(chan, Own(id), f)
  BY <1>1, <1>3, <1>5, <1>6, Zenon
<1>8. 2 \in 0..2 /\ snd[id].sent + g \in Nat
  BY <1>2 DEF SendState
<1>9. s \in SendState
  BY <1>2, <1>8, Zenon DEF SendState
<1>10. /\ s.flow = snd[id].flow /\ s.max = snd[id].max /\ s.sent = snd[id].sent + g
       /\ s.grant = snd[id].grant /\ s.pc = "idle" /\ s.handle = snd[id].handle
       /\ s.finished = snd[id].finished
  BY <1>1, <1>2 DEF SendState
<1> HIDE DEF s
<1>11. snd[id].grant = 0 /\ snd[id].sent \in Nat /\ snd[id].max \in Nat
  BY <1>1, <1>2 DEF Reserves, SendState
<1>12. Reserves(s)
  BY <1>5, <1>10, <1>11 DEF Reserves
<1>13. chan' \in Channel /\ chan'.q = Append(chan.q, f)
  BY <1>1, <1>2, <1>7, PushChannel, StreamSenders
<1>14. SendChange(id, s)
  BY <1>1, <1>2, <1>7, <1>10, <1>12, <1>13, AsideNone DEF SendChange
<1>15. snd[id].sent - snd[id].grant + (IF f.t = "data" THEN f.n ELSE 0) <= s.sent - s.grant
  BY <1>6, <1>10, <1>11
<1> QED
  BY <1>1, <1>5, <1>6, <1>9, <1>10, <1>13, <1>14, <1>15, SendPush

-----------------------------------------------------------------------------
(* Steps of a RecvStream                                                   *)

RecvChange(id, r) ==
    /\ Born(id) /\ ReadsToEnd(r) /\ Aside /\ chan' \in Channel
    /\ rcv' = [rcv EXCEPT ![id] = r] /\ UNCHANGED RecvKeeps
    /\ (r.entry = "none" <=> rcv[id].entry = "none") /\ r.received = rcv[id].received
    /\ rcv[id].granted <= r.granted
    /\ credit' \in [Streams -> Nat]
    /\ task = "run" =>
          \A j \in Streams : credit'[j] <= credit[j] \/ (j = id /\ credit'[j] <= r.granted)

LEMMA RecvChangeBooks ==
    ASSUME TypeOK, Books, NEW id \in Streams, NEW r \in RecvState, RecvChange(id, r)
    PROVE  TypeOK' /\ Books' /\ Streams' = Streams
<1>1. UNCHANGED <<setup, next, snd, slot, accept, task, peer>> /\ Streams' = Streams
  BY DEF RecvChange, RecvKeeps, Streams
<1>2. session' \in Sessions /\ session'.closed = session.closed /\ session'.waiter = session.waiter
  BY AsideFacts DEF RecvChange, TypeOK
<1>3. rcv' \in [Streams -> RecvState] /\ \A j \in Streams : rcv'[j] = IF j = id THEN r ELSE rcv[j]
  BY DEF RecvChange, TypeOK
<1>4. TypeOK'
  <2>1. Wire' = Wire /\ PeerState' = PeerState /\ Histories' = Histories /\ Channel' = Channel
    BY <1>1 DEF Wire, PeerState, Histories, Channel
  <2>2. hist' \in Histories /\ chan' \in Channel /\ credit' \in [Streams -> Nat]
    BY DEF RecvChange, Aside
  <2> QED
    BY <1>1, <1>2, <1>3, <2>1, <2>2 DEF TypeOK
<1>5. Unborn'
  <2>1. \A j : Born(j)' <=> Born(j)
    BY <1>1 DEF Born
  <2> QED
    BY <1>1, <1>3, <2>1 DEF Books, Unborn, RecvChange
<1>6. EndRead'
  BY <1>1, <1>3 DEF Books, EndRead, RecvChange
<1>7. Reserving' /\ Len(slot') <= 1 /\ HonestPeerTrusted'
  BY <1>1 DEF Books, Reserving, RecvChange, Aside, HonestPeerTrusted
<1>8. Ending'
  <2>1. Entries' = Entries /\ Flows' = Flows
    BY <1>1, <1>3 DEF Entries, Flows, RecvChange
  <2> QED
    BY <1>1, <1>2, <2>1 DEF Books, Ending, RecvChange, Aside
<1> QED
  BY <1>1, <1>4, <1>5, <1>6, <1>7, <1>8 DEF Books

LEMMA RecvChangeLink ==
    ASSUME TypeOK, IInv, task = "run", NEW id \in Streams, NEW r \in RecvState, RecvChange(id, r)
    PROVE  /\ Quiet(peer) /\ Less(peer, peer) /\ NetFrames(peer) /\ Openings(peer)
           /\ \A j \in Streams : Counted(peer, j)'
           /\ \A j \in Streams : rcv'[j] = IF j = id THEN r ELSE rcv[j]
           /\ Link(peer, Outgoing) /\ Outgoing \in Seq(Wire) /\ peer \in PeerState /\ peer' = peer
           /\ \A j \in Streams : snd[j].sent - snd[j].grant <= snd'[j].sent - snd'[j].grant
<1>1. UNCHANGED <<setup, next, snd, slot, accept, task, peer>>
  BY DEF RecvChange, RecvKeeps
<1>2. Link(peer, Outgoing) /\ Outgoing \in Seq(Wire) /\ peer \in PeerState
  BY DEF IInv, TypeOK, Outgoing, Channel
<1>3. \A j \in Streams : rcv'[j] = IF j = id THEN r ELSE rcv[j]
  BY DEF RecvChange, TypeOK
<1>4. Quiet(peer)
  <2>1. \A j \in Streams : /\ rcv[j].granted \in Nat /\ credit[j] \in Nat /\ credit'[j] \in Nat
                           /\ rcv'[j].granted \in Nat
    BY <1>3 DEF TypeOK, RecvState, RecvChange
  <2>2. \A j \in Streams : credit[j] <= rcv[j].granted
    BY <1>2 DEF Link, PeerCredit
  <2>3. \A j \in Streams : /\ rcv'[j].entry # "none" <=> rcv[j].entry # "none"
                           /\ rcv[j].granted <= rcv'[j].granted
    BY <1>3, <2>1 DEF RecvChange
  <2>4. ASSUME NEW j \in Streams PROVE credit'[j] <= rcv'[j].granted
    <3>1. credit'[j] <= credit[j] \/ (j = id /\ credit'[j] <= rcv'[j].granted)
      BY <1>3 DEF RecvChange
    <3>2. rcv[j].granted <= rcv'[j].granted /\ credit[j] <= rcv[j].granted
      BY <2>2, <2>3
    <3> QED
      BY <2>1, <3>1, <3>2
  <2> QED
    BY <1>1, <2>3, <2>4 DEF Quiet, RecvChange, Aside
<1>5. \A j \in Streams : Counted(peer, j)'
  <2>1. \A j \in Streams : rcv'[j].received = rcv[j].received
    BY <1>3 DEF RecvChange
  <2> QED
    BY <1>1, <1>2, <2>1, CountedKept DEF Link, PeerCredit
<1>6. \A j \in Streams : snd[j].sent - snd[j].grant <= snd'[j].sent - snd'[j].grant
  <2>1. \A j \in Streams : snd[j].sent \in Nat /\ snd[j].grant \in Nat
    BY DEF TypeOK, SendState
  <2> QED
    BY <1>1, <2>1
<1> QED
  BY <1>1, <1>2, <1>3, <1>4, <1>5, <1>6 DEF Link, Less

(* A step of a RecvStream that queues nothing. *)
LEMMA RecvKept ==
    ASSUME TypeOK, IInv, NEW id \in Streams, NEW r \in RecvState, RecvChange(id, r),
           chan' = chan,
           r.entry # "none" /\ (r.handle = "dropped" \/ r.stopSent) =>
              \/ rcv[id].handle = "dropped" \/ rcv[id].stopSent
              \/ id \in hist'.stopFailed \/ session'.started
    PROVE  TypeOK' /\ IInv'
<1>1. TypeOK' /\ Books' /\ Streams' = Streams
  BY RecvChangeBooks DEF IInv
<1>2. task' = task /\ Outgoing' = Outgoing
  BY DEF RecvChange, RecvKeeps, Outgoing
<1>3. SUFFICES ASSUME task = "run" PROVE Link(peer, Outgoing)'
  BY <1>1, <1>2 DEF IInv
<1>4. /\ Quiet(peer) /\ Less(peer, peer) /\ NetFrames(peer) /\ Openings(peer)
      /\ \A j \in Streams : Counted(peer, j)'
      /\ \A j \in Streams : rcv'[j] = IF j = id THEN r ELSE rcv[j]
      /\ Link(peer, Outgoing) /\ Outgoing \in Seq(Wire) /\ peer \in PeerState /\ peer' = peer
      /\ \A j \in Streams : snd[j].sent - snd[j].grant <= snd'[j].sent - snd'[j].grant
  BY <1>3, RecvChangeLink
<1>5. PICK p \in PeerState, out \in Seq(Wire) : p = peer /\ out = Outgoing
  BY <1>4
<1>6. ~session'.started => Told(p, out)'
  <2>1. HAVE ~session'.started
  <2>2. Told(p, out)
    BY <1>4, <1>5, <2>1, AsideFacts DEF Link, RecvChange, TypeOK
  <2>3. snd' = snd /\ setup' = setup
    BY DEF RecvChange, RecvKeeps
  <2>4. \A j \in Streams :
          rcv'[j].entry # "none" /\ (rcv'[j].handle = "dropped" \/ rcv'[j].stopSent) =>
             \/ rcv[j].entry # "none" /\ (rcv[j].handle = "dropped" \/ rcv[j].stopSent)
             \/ j \in hist'.stopFailed
    BY <1>4, <2>1 DEF RecvChange
  <2> QED
    BY <2>2, <2>3, <2>4, ToldStep DEF RecvChange, Aside
<1>7. Link(p, out) /\ Less(p, p) /\ NetFrames(p) /\ Openings(p) /\ Quiet(p)
  BY <1>4, <1>5
<1>8. \A j \in Streams : Counted(p, j)'
  BY <1>4, <1>5
<1>9. Link(p, out)'
  BY <1>1, <1>4, <1>6, <1>7, <1>8, LinkKept
<1> QED
  BY <1>2, <1>4, <1>5, <1>9, LinkNow

(* A step of a RecvStream that queues STOP_SENDING. *)
LEMMA RecvPush ==
    ASSUME TypeOK, IInv, NEW id \in Streams, NEW r \in RecvState, RecvChange(id, r),
           rcv[id].entry # "none", NEW f \in Wire, f.id = id, f.t = "stop",
           chan'.q = Append(chan.q, f)
    PROVE  TypeOK' /\ IInv'
<1>1. TypeOK' /\ Books' /\ Streams' = Streams
  BY RecvChangeBooks DEF IInv
<1>2. task' = task /\ Outgoing' = Append(Outgoing, f)
  <2>1. slot \in Seq(Wire) /\ chan.q \in Seq(Wire) /\ slot' = slot /\ task' = task
    BY DEF RecvChange, RecvKeeps, TypeOK, Channel
  <2>2. slot \o Append(chan.q, f) = Append(slot \o chan.q, f)
    BY <2>1, OutgoingPushed
  <2> QED
    BY <2>1, <2>2 DEF Outgoing
<1>3. SUFFICES ASSUME task = "run" PROVE Link(peer, Outgoing)'
  BY <1>1, <1>2 DEF IInv
<1>4. /\ Quiet(peer) /\ Less(peer, peer) /\ NetFrames(peer) /\ Openings(peer)
      /\ \A j \in Streams : Counted(peer, j)'
      /\ \A j \in Streams : rcv'[j] = IF j = id THEN r ELSE rcv[j]
      /\ Link(peer, Outgoing) /\ Outgoing \in Seq(Wire) /\ peer \in PeerState /\ peer' = peer
      /\ \A j \in Streams : snd[j].sent - snd[j].grant <= snd'[j].sent - snd'[j].grant
  BY <1>3, RecvChangeLink
<1>5. PICK p \in PeerState, out \in Seq(Wire) : p = peer /\ out = Outgoing
  BY <1>4
<1>6. ~session'.started => Told(p, Append(out, f))'
  <2>1. HAVE ~session'.started
  <2>2. Told(p, out)
    BY <1>4, <1>5, <2>1, AsideFacts DEF Link, RecvChange, TypeOK
  <2>3. snd' = snd /\ setup' = setup
    BY DEF RecvChange, RecvKeeps
  <2>4. \A j, ts : On(Append(out, f), j, ts) <=> On(out, j, ts) \/ (f.id = j /\ f.t \in ts)
    BY OnAppend
  <2>5. \A j \in Streams :
          rcv'[j].entry # "none" /\ (rcv'[j].handle = "dropped" \/ rcv'[j].stopSent) =>
             \/ rcv[j].entry # "none" /\ (rcv[j].handle = "dropped" \/ rcv[j].stopSent)
             \/ On(Append(out, f), j, {"stop"})
    BY <1>4, <2>4 DEF RecvChange
  <2> QED
    BY <2>2, <2>3, <2>4, <2>5, ToldStep DEF RecvChange, Aside
<1>7. Link(p, out) /\ Less(p, p) /\ NetFrames(p) /\ Openings(p) /\ Quiet(p)
  BY <1>4, <1>5
<1>8. \A j \in Streams : Counted(p, j)'
  BY <1>4, <1>5
<1>9. NewOut(p, out, f)'
  <2>1. Born(f.id)'
    BY DEF RecvChange, RecvKeeps, Born
  <2>2. RecvSide(id) /\ (id \in p.known \/ On(out, id, {"open"}))
    BY <1>7 DEF Link, Announced
  <2> QED
    BY <2>1, <2>2 DEF NewOut
<1>10. \A j \in Streams :
         snd[j].sent - snd[j].grant + (IF f.t = "data" /\ f.id = j THEN f.n ELSE 0)
            <= snd'[j].sent - snd'[j].grant
  <2>1. snd' = snd /\ \A j \in Streams : snd[j].sent \in Nat /\ snd[j].grant \in Nat
    BY DEF TypeOK, SendState, RecvChange, RecvKeeps
  <2> QED
    BY <2>1
<1>11. Link(p, Append(out, f))'
  BY <1>1, <1>6, <1>7, <1>8, <1>9, <1>10, LinkPush
<1> QED
  BY <1>2, <1>4, <1>5, <1>11, LinkNow

LEMMA HeldRecv ==
    ASSUME TypeOK, Books, NEW id \in Streams, rcv[id].handle = "held"
    PROVE  /\ Born(id) /\ rcv[id] \in RecvState /\ ReadsToEnd(rcv[id])
           /\ session \in Sessions /\ hist \in Histories /\ chan \in Channel
           /\ credit \in [Streams -> Nat] /\ setup \in Setups
<1>1. rcv[id] # NoRecv
  BY DEF NoRecv
<1> QED
  BY <1>1, UsedBorn DEF TypeOK, Books, EndRead

(* The stop of an entry, and the drop of its handle. *)
LEMMA StoppingRecvs ==
    ASSUME NEW r \in RecvState, ReadsToEnd(r), NEW b \in BOOLEAN
    PROVE  LET s == [StopEntry(r) EXCEPT !.stopSent = b]
               d == [DroppedRecv(r) EXCEPT !.stopSent = b] IN
           /\ s \in RecvState /\ ReadsToEnd(s) /\ (s.entry = "none" <=> r.entry = "none")
           /\ s.received = r.received /\ s.granted = r.granted /\ s.handle = r.handle
           /\ s.stopSent = b
           /\ d \in RecvState /\ ReadsToEnd(d) /\ (d.entry = "none" <=> r.entry = "none")
           /\ d.received = r.received /\ d.granted = r.granted /\ d.stopSent = b
           /\ DroppedRecv(r) \in RecvState /\ ReadsToEnd(DroppedRecv(r))
           /\ (DroppedRecv(r).entry = "none" <=> r.entry = "none")
           /\ DroppedRecv(r).received = r.received /\ DroppedRecv(r).granted = r.granted
<1>1. PICK s0 \in RecvState : s0 = StopEntry(r)
  BY RecvHelpers
<1>2. PICK d0 \in RecvState : d0 = DroppedRecv(r)
  BY RecvHelpers
<1>3. /\ s0.received = r.received /\ s0.granted = r.granted /\ s0.handle = r.handle
      /\ (s0.entry = "none" <=> r.entry = "none") /\ s0.ev = r.ev /\ s0.finished = r.finished
  BY <1>1 DEF StopEntry, RecvState
<1>4. /\ d0.received = r.received /\ d0.granted = r.granted
      /\ (d0.entry = "none" <=> r.entry = "none") /\ d0.ev = <<>> /\ d0.finished = r.finished
  BY <1>1, <1>2, <1>3 DEF DroppedRecv, RecvState
<1> DEFINE s == [s0 EXCEPT !.stopSent = b]
           d == [d0 EXCEPT !.stopSent = b]
<1>5. s \in RecvState /\ d \in RecvState
  BY Zenon DEF RecvState
<1>6. /\ s.received = s0.received /\ s.granted = s0.granted /\ s.handle = s0.handle
      /\ s.entry = s0.entry /\ s.ev = s0.ev /\ s.finished = s0.finished /\ s.stopSent = b
  BY DEF RecvState
<1>7. /\ d.received = d0.received /\ d.granted = d0.granted
      /\ d.entry = d0.entry /\ d.ev = d0.ev /\ d.finished = d0.finished /\ d.stopSent = b
  BY DEF RecvState
<1> HIDE DEF s, d
<1>8. ReadsToEnd(s)
  BY <1>3, <1>6 DEF ReadsToEnd
<1>9. ReadsToEnd(d) /\ ReadsToEnd(d0)
  BY <1>4, <1>7 DEF ReadsToEnd
<1>10. /\ s = [StopEntry(r) EXCEPT !.stopSent = b]
       /\ d = [DroppedRecv(r) EXCEPT !.stopSent = b]
  BY <1>1, <1>2 DEF s, d
<1> QED
  BY <1>1, <1>2, <1>3, <1>4, <1>5, <1>6, <1>7, <1>8, <1>9, <1>10

LEMMA StopStep ==
    ASSUME TypeOK, IInv, NEW id \in Ids, Stop(id)
    PROVE  TypeOK' /\ IInv'
<1>1. id \in Streams /\ rcv[id].handle = "held" /\ UNCHANGED RecvKeeps
  BY DEF Stop
<1>2. /\ Born(id) /\ rcv[id] \in RecvState /\ ReadsToEnd(rcv[id]) /\ hist \in Histories
      /\ chan \in Channel /\ credit \in [Streams -> Nat] /\ setup \in Setups
  BY <1>1, HeldRecv DEF IInv
<1>3. PICK r \in RecvState :
        /\ r = [StopEntry(rcv[id]) EXCEPT !.stopSent = TRUE]
        /\ ReadsToEnd(r) /\ (r.entry = "none" <=> rcv[id].entry = "none")
        /\ r.received = rcv[id].received /\ r.granted = rcv[id].granted
  BY <1>2, StoppingRecvs
<1>4. rcv' = [rcv EXCEPT ![id] = r]
  BY <1>1, <1>3, Zenon DEF Stop
<1>5. rcv[id].granted <= r.granted
  BY <1>2, <1>3 DEF RecvState
<1>6. CASE id \in Entries
  <2>1. rcv[id].entry # "none"
    BY <1>6 DEF Entries
  <2>2. credit' = [credit EXCEPT ![id] = 0] /\ SendOr(chan, Frame("stop", id, 0), Report("stopFailed", id))
    BY <1>6 DEF Stop
  <2>3. credit' \in [Streams -> Nat] /\ \A j \in Streams : credit'[j] <= credit[j]
    <3>1. \A j \in Streams : credit'[j] = (IF j = id THEN 0 ELSE credit[j]) /\ credit[j] \in Nat
      BY <1>2, <2>2
    <3>2. credit' \in [Streams -> Nat]
      BY <1>2, <2>2
    <3> QED
      BY <3>1, <3>2
  <2>4. PICK f \in Wire : f = Frame("stop", id, 0) /\ f.id = id /\ f.t = "stop"
    <3>1. Frame("stop", id, 0) \in Wire
      BY <1>1, <1>2, FrameWire
    <3> QED
      BY <3>1 DEF Frame
  <2>5. CASE CanSend(chan, Ctl)
    <3>1. UNCHANGED <<session, hist>> /\ chan' \in Channel /\ chan'.q = Append(chan.q, f)
      BY <1>2, <2>2, <2>4, <2>5, TrySendChannel DEF SendOr
    <3>2. Aside
      BY <1>2, <3>1, AsideNone
    <3>3. RecvChange(id, r)
      BY <1>1, <1>2, <1>3, <1>4, <1>5, <2>3, <3>1, <3>2 DEF RecvChange
    <3> QED
      BY <1>1, <2>1, <2>4, <3>1, <3>3, RecvPush
  <2>6. CASE ~CanSend(chan, Ctl)
    <3>1. Report("stopFailed", id) /\ chan' = chan
      BY <1>2, <2>2, <2>4, <2>6, TrySendChannel DEF SendOr
    <3>2. Aside /\ id \in hist'.stopFailed
      BY <1>1, <1>2, <3>1 DEF Report, Aside, Histories
    <3>3. RecvChange(id, r)
      BY <1>1, <1>2, <1>3, <1>4, <1>5, <2>3, <3>1, <3>2 DEF RecvChange
    <3> QED
      BY <1>1, <3>1, <3>2, <3>3, RecvKept
  <2> QED
    BY <2>5, <2>6
<1>7. CASE id \notin Entries
  <2>1. rcv[id].entry = "none"
    BY <1>1, <1>7 DEF Entries
  <2>2. UNCHANGED <<credit, chan, session, hist>>
    BY <1>7 DEF Stop
  <2>3. credit' \in [Streams -> Nat] /\ \A j \in Streams : credit'[j] <= credit[j]
    BY <1>2, <2>2
  <2>4. RecvChange(id, r)
    BY <1>1, <1>2, <1>3, <1>4, <1>5, <2>2, <2>3, AsideNone DEF RecvChange
  <2> QED
    BY <1>1, <1>3, <2>1, <2>2, <2>4, RecvKept
<1> QED
  BY <1>6, <1>7

LEMMA DropRecvStep ==
    ASSUME TypeOK, IInv, NEW id \in Ids, DropRecv(id)
    PROVE  TypeOK' /\ IInv'
<1>1. id \in Streams /\ rcv[id].handle = "held" /\ UNCHANGED RecvKeeps
  BY DEF DropRecv
<1>2. /\ Born(id) /\ rcv[id] \in RecvState /\ ReadsToEnd(rcv[id]) /\ hist \in Histories
      /\ chan \in Channel /\ credit \in [Streams -> Nat] /\ setup \in Setups
      /\ session \in Sessions
  BY <1>1, HeldRecv DEF IInv
<1> DEFINE tell == id \in Entries /\ ~rcv[id].finished /\ ~rcv[id].stopSent
           b == rcv[id].stopSent \/ tell
<1>3. b \in BOOLEAN /\ DroppedRecv(rcv[id]).stopSent = rcv[id].stopSent
  <2>1. rcv[id].stopSent \in BOOLEAN
    BY <1>2 DEF RecvState
  <2> QED
    BY <1>2, <2>1 DEF DroppedRecv, StopEntry, RecvState
<1>4. PICK r \in RecvState :
        /\ r = [DroppedRecv(rcv[id]) EXCEPT !.stopSent = b]
        /\ ReadsToEnd(r) /\ (r.entry = "none" <=> rcv[id].entry = "none")
        /\ r.received = rcv[id].received /\ r.granted = rcv[id].granted
  BY <1>2, <1>3, StoppingRecvs
<1>5. rcv' = [rcv EXCEPT ![id] = r]
  <2>1. [DroppedRecv(rcv[id]) EXCEPT !.stopSent = @ \/ tell]
           = [DroppedRecv(rcv[id]) EXCEPT !.stopSent = rcv[id].stopSent \/ tell]
    <3> HIDE DEF tell
    <3> QED
      BY <1>3
  <2>2. [DroppedRecv(rcv[id]) EXCEPT !.stopSent = @ \/ tell] = r
    BY <1>4, <2>1
  <2>3. rcv' = [rcv EXCEPT ![id] = [DroppedRecv(rcv[id]) EXCEPT !.stopSent = @ \/ tell]]
    BY DEF DropRecv
  <2> QED
    BY <2>2, <2>3
<1>6. rcv[id].granted <= r.granted
  BY <1>2, <1>4 DEF RecvState
<1>7. credit' \in [Streams -> Nat] /\ \A j \in Streams : credit'[j] <= credit[j]
  BY <1>1, <1>2 DEF DropRecv
<1>8. IF tell THEN SendOr(chan, Frame("stop", id, 0), Abort) ELSE UNCHANGED <<chan, session, hist>>
  BY DEF DropRecv
<1>9. CASE tell
  <2>1. rcv[id].entry # "none"
    BY <1>9 DEF Entries
  <2>2. SendOr(chan, Frame("stop", id, 0), Abort)
    BY <1>8, <1>9
  <2>3. PICK f \in Wire : f = Frame("stop", id, 0) /\ f.id = id /\ f.t = "stop"
    <3>1. Frame("stop", id, 0) \in Wire
      BY <1>1, <1>2, FrameWire
    <3> QED
      BY <3>1 DEF Frame
  <2> HIDE DEF tell, b
  <2>4. CASE CanSend(chan, Ctl)
    <3>1. UNCHANGED <<session, hist>> /\ chan' \in Channel /\ chan'.q = Append(chan.q, f)
      BY <1>2, <2>2, <2>3, <2>4, TrySendChannel DEF SendOr
    <3>2. Aside
      BY <1>2, <3>1, AsideNone
    <3>3. RecvChange(id, r)
      BY <1>1, <1>2, <1>4, <1>5, <1>6, <1>7, <3>1, <3>2 DEF RecvChange
    <3> QED
      BY <1>1, <2>1, <2>3, <3>1, <3>3, RecvPush
  <2>5. CASE ~CanSend(chan, Ctl)
    <3>1. Abort /\ chan' = chan
      BY <1>2, <2>2, <2>3, <2>5, TrySendChannel DEF SendOr
    <3>2. Aside /\ session'.started
      BY <1>2, <3>1 DEF Abort, RequestShutdown, Aside, Sessions
    <3>3. RecvChange(id, r)
      BY <1>1, <1>2, <1>4, <1>5, <1>6, <1>7, <3>1, <3>2 DEF RecvChange
    <3> QED
      BY <1>1, <3>1, <3>2, <3>3, RecvKept
  <2> QED
    BY <2>4, <2>5
<1>10. CASE ~tell
  <2>1. rcv[id].entry = "none" \/ rcv[id].stopSent
    BY <1>1, <1>2, <1>10 DEF Entries, ReadsToEnd
  <2>2. UNCHANGED <<chan, session, hist>>
    BY <1>8, <1>10
  <2> HIDE DEF tell, b
  <2>3. RecvChange(id, r)
    BY <1>1, <1>2, <1>4, <1>5, <1>6, <1>7, <2>2, AsideNone DEF RecvChange
  <2> QED
    BY <1>1, <1>4, <2>1, <2>2, <2>3, RecvKept
<1> QED
  BY <1>9, <1>10

(* queue_credit: no stream is promised more than it has been granted. *)
LEMMA QueueCreditStep ==
    ASSUME TypeOK, NEW id \in Streams, NEW max \in Nat, QueueCredit(id, max)
    PROVE  /\ credit' \in [Streams -> Nat]
           /\ credit[id] <= max =>
                 \A j \in Streams : credit'[j] <= credit[j] \/ (j = id /\ credit'[j] <= max)
           /\ session' \in {session, [session EXCEPT !.started = TRUE]}
<1> DEFINE full == Cardinality(Credits(credit)) >= setup.maxOpen
           kept == IF full THEN [i \in Streams |-> IF i \in Entries THEN credit[i] ELSE 0]
                   ELSE credit
           shut == Cardinality(Credits(kept)) >= setup.maxOpen /\ kept[id] = 0
<1>1. credit \in [Streams -> Nat]
  BY DEF TypeOK
<1>2. PICK k \in [Streams -> Nat] : k = kept /\ \A j \in Streams : k[j] <= credit[j]
  <2> HIDE DEF full
  <2>1. kept \in [Streams -> Nat]
    BY <1>1
  <2>2. ASSUME NEW j \in Streams PROVE kept[j] <= credit[j]
    <3>1. credit[j] \in Nat
      BY <1>1
    <3>2. kept[j] = credit[j] \/ kept[j] = 0
      OBVIOUS
    <3> QED
      BY <3>1, <3>2
  <2> HIDE DEF kept
  <2> QED
    BY <2>1, <2>2
<1>3. IF shut THEN RequestShutdown /\ credit' = kept
      ELSE credit' = [kept EXCEPT ![id] = Max({@, max})] /\ UNCHANGED session
  BY DEF QueueCredit
<1> HIDE DEF kept, shut
<1>4. CASE shut
  BY <1>2, <1>3, <1>4 DEF RequestShutdown
<1>5. CASE ~shut
  <2>1. k[id] \in Nat /\ credit[id] \in Nat /\ (credit[id] <= max => k[id] <= max)
    BY <1>1, <1>2
  <2>2. PICK m \in Nat : m = Max({k[id], max}) /\ (credit[id] <= max => m <= max)
    <3>1. Max({k[id], max}) \in Nat /\ Max({k[id], max}) \in {k[id], max}
      BY <2>1, MaxOfTwo
    <3> QED
      BY <2>1, <3>1
  <2>3. credit' = [k EXCEPT ![id] = m] /\ session' = session
    BY <1>2, <1>3, <1>5, <2>2
  <2> QED
    BY <1>2, <2>2, <2>3
<1> QED
  BY <1>4, <1>5

(* s reads the events of r that are left, or has read its end. *)
LEMMA ConsumeStep ==
    ASSUME TypeOK, IInv, NEW id \in Streams, rcv[id].handle = "held",
           NEW r \in RecvState, ReadsToEnd(r), r.entry = rcv[id].entry,
           r.received = rcv[id].received, r.granted = rcv[id].granted, r.handle = rcv[id].handle,
           r.stopSent = rcv[id].stopSent, r.consumed = rcv[id].consumed,
           NEW n \in Nat, Consume(id, r, n), UNCHANGED <<RecvKeeps, chan, hist>>
    PROVE  TypeOK' /\ IInv'
<1>1. /\ Born(id) /\ rcv[id] \in RecvState /\ hist \in Histories
      /\ chan \in Channel /\ credit \in [Streams -> Nat]
  BY HeldRecv DEF IInv
<1> DEFINE target == r.consumed + n + Window
           update == target - r.granted >= Threshold /\ ~r.finished /\ ~r.stopSent
           g == IF update THEN target ELSE r.granted
           s == [r EXCEPT !.consumed = @ + n, !.granted = IF update THEN target ELSE @]
<1>2. /\ r.consumed \in Nat /\ r.granted \in Nat /\ Window \in Nat /\ Threshold \in Nat
      /\ target \in Nat /\ r.consumed + n \in Nat
  BY BrowserAssumption DEF RecvState
<1>3. g \in Nat /\ r.granted <= g /\ (update => g = target)
  BY <1>2
<1>4. rcv' = [rcv EXCEPT ![id] = s] /\ (IF update /\ r.entry = "live" THEN QueueCredit(id, target)
                                        ELSE UNCHANGED <<credit, session>>)
  BY DEF Consume
<1> HIDE DEF target, update
<1>5. s \in RecvState
  <2>1. s = [r EXCEPT !.consumed = r.consumed + n, !.granted = g]
    OBVIOUS
  <2> HIDE DEF g, s
  <2> QED
    BY <1>2, <1>3, <2>1, Zenon DEF RecvState
<1>6. /\ s.entry = r.entry /\ s.received = r.received /\ s.granted = g /\ s.ev = r.ev
      /\ s.finished = r.finished /\ s.handle = r.handle /\ s.stopSent = r.stopSent
  BY DEF RecvState
<1> HIDE DEF s, g
<1>7. ReadsToEnd(s)
  BY <1>6 DEF ReadsToEnd
<1>8. /\ credit' \in [Streams -> Nat]
      /\ session' \in {session, [session EXCEPT !.started = TRUE]}
      /\ task = "run" =>
            \A j \in Streams : credit'[j] <= credit[j] \/ (j = id /\ credit'[j] <= g)
  <2>1. CASE update /\ r.entry = "live"
    <3>0. QueueCredit(id, target) /\ g = target
      BY <1>3, <1>4, <2>1
    <3>1. task = "run" => credit[id] <= rcv[id].granted
      BY DEF IInv, Link, PeerCredit
    <3>2. task = "run" => credit[id] <= target
      <4>1. credit[id] \in Nat
        BY <1>1
      <4> QED
        BY <1>2, <1>3, <3>0, <3>1, <4>1
    <3>3. /\ credit' \in [Streams -> Nat]
          /\ session' \in {session, [session EXCEPT !.started = TRUE]}
          /\ credit[id] <= target =>
                \A j \in Streams : credit'[j] <= credit[j] \/ (j = id /\ credit'[j] <= target)
      BY <1>2, <3>0, QueueCreditStep
    <3> QED
      BY <3>0, <3>2, <3>3
  <2>2. CASE ~(update /\ r.entry = "live")
    <3>1. UNCHANGED <<credit, session>>
      BY <1>4, <2>2
    <3>2. \A j \in Streams : credit[j] \in Nat
      BY <1>1
    <3> QED
      BY <1>1, <3>1, <3>2
  <2> QED
    BY <2>1, <2>2
<1>9. Aside
  BY <1>1, <1>8 DEF Aside
<1>10. RecvChange(id, s)
  BY <1>1, <1>3, <1>4, <1>6, <1>7, <1>8, <1>9 DEF RecvChange, RecvKeeps
<1> QED
  BY <1>5, <1>6, <1>10, RecvKept

LEMMA FinishedStep ==
    ASSUME TypeOK, IInv, NEW id \in Streams, rcv[id].handle = "held", rcv[id].entry = "none",
           Finished(id), UNCHANGED <<RecvKeeps, chan, hist>>
    PROVE  TypeOK' /\ IInv'
<1>1. /\ Born(id) /\ rcv[id] \in RecvState /\ hist \in Histories
      /\ chan \in Channel /\ credit \in [Streams -> Nat]
  BY HeldRecv DEF IInv
<1> DEFINE r == [rcv[id] EXCEPT !.finished = TRUE, !.ev = <<>>]
<1>2. rcv' = [rcv EXCEPT ![id] = r] /\ UNCHANGED <<credit, session>>
  BY Zenon DEF Finished
<1>3. <<>> \in Events
  BY DEF Events
<1>4. r \in RecvState
  BY <1>1, <1>3, Zenon DEF RecvState
<1>5. /\ r.entry = rcv[id].entry /\ r.received = rcv[id].received /\ r.granted = rcv[id].granted
      /\ r.ev = <<>> /\ r.handle = "held" /\ r.stopSent = rcv[id].stopSent
  BY <1>1 DEF RecvState
<1> HIDE DEF r
<1>6. ReadsToEnd(r)
  BY <1>5 DEF ReadsToEnd
<1>7. rcv[id].granted <= r.granted /\ \A j \in Streams : credit'[j] <= credit[j]
  BY <1>1, <1>2, <1>5 DEF RecvState
<1>8. RecvChange(id, r)
  BY <1>1, <1>2, <1>5, <1>6, <1>7, AsideNone DEF RecvChange, RecvKeeps
<1> QED
  BY <1>4, <1>5, <1>8, RecvKept

LEMMA ReadStep ==
    ASSUME TypeOK, IInv, NEW id \in Ids, Read(id)
    PROVE  TypeOK' /\ IInv'
<1>1. id \in Streams /\ rcv[id].handle = "held" /\ UNCHANGED <<RecvKeeps, chan, hist>>
  BY DEF Read
<1>2. PICK r \in RecvState : r = rcv[id] /\ ReadsToEnd(r)
  BY <1>1, HeldRecv DEF IInv
<1>3. r.pending \in Nat /\ r.ev \in Events
  BY DEF RecvState
<1>4. CASE \E n \in 1..r.pending : Consume(id, [r EXCEPT !.pending = @ - n], n)
  <2>1. PICK n \in 1..r.pending : Consume(id, [r EXCEPT !.pending = @ - n], n)
    BY <1>4
  <2> DEFINE s == [r EXCEPT !.pending = @ - n]
  <2>2. r.pending - n \in Nat /\ n \in Nat
    BY <1>3, <2>1
  <2>3. s \in RecvState
    BY <2>2, Zenon DEF RecvState
  <2>4. /\ s.entry = r.entry /\ s.received = r.received /\ s.granted = r.granted /\ s.ev = r.ev
        /\ s.handle = r.handle /\ s.stopSent = r.stopSent /\ s.finished = r.finished
        /\ s.consumed = r.consumed
    BY DEF RecvState
  <2>5. Consume(id, s, n)
    BY <2>1
  <2> HIDE DEF s
  <2>6. ReadsToEnd(s)
    BY <1>2, <2>4 DEF ReadsToEnd
  <2> QED
    BY <1>1, <1>2, <2>2, <2>3, <2>4, <2>5, <2>6, ConsumeStep
<1>5. CASE /\ r.pending = 0 /\ ~r.finished /\ r.ev # <<>>
           /\ LET e == Head(r.ev)
                  s == [r EXCEPT !.ev = Tail(@), !.finished = (e.t = "fin")]
              IN  \/ e.n = 0 /\ Finished(id)
                  \/ \E n \in 1..e.n : Consume(id, [s EXCEPT !.pending = e.n - n], n)
  <2>1. PICK ev \in Seq(Frames) : ev = r.ev /\ ev # <<>>
    BY <1>3, <1>5 DEF Events
  <2>2. PICK e \in Frames : e = Head(r.ev) /\ 1 \in DOMAIN r.ev /\ e = r.ev[1]
    BY <2>1
  <2>3. e.n \in Nat /\ (e.t = "fin" => r.entry = "none") /\ (e.n = 0 => r.entry = "none")
    BY <1>2, <2>2 DEF Frames, ReadsToEnd
  <2>4. CASE e.n = 0 /\ Finished(id)
    BY <1>1, <1>2, <2>3, <2>4, FinishedStep
  <2>5. CASE \E n \in 1..e.n :
               Consume(id, [[r EXCEPT !.ev = Tail(@), !.finished = (e.t = "fin")]
                               EXCEPT !.pending = e.n - n], n)
    <3>1. PICK n \in 1..e.n :
               Consume(id, [[r EXCEPT !.ev = Tail(@), !.finished = (e.t = "fin")]
                               EXCEPT !.pending = e.n - n], n)
      BY <2>5
    <3>2. e.n - n \in Nat /\ n \in Nat
      BY <2>3
    <3>3. /\ Tail(r.ev) \in Events
          /\ \A i \in DOMAIN Tail(r.ev) : i + 1 \in DOMAIN r.ev /\ Tail(r.ev)[i] = r.ev[i + 1]
      <4>1. /\ Tail(ev) \in Seq(Frames)
            /\ \A i \in DOMAIN Tail(ev) : i + 1 \in DOMAIN ev /\ Tail(ev)[i] = ev[i + 1]
        BY <2>1
      <4> QED
        BY <2>1, <4>1 DEF Events
    <3> DEFINE t == [r EXCEPT !.ev = Tail(@), !.finished = (e.t = "fin")]
               s == [t EXCEPT !.pending = e.n - n]
    <3>4. t \in RecvState
      BY <3>3, Zenon DEF RecvState
    <3>5. /\ t.entry = r.entry /\ t.received = r.received /\ t.granted = r.granted
          /\ t.ev = Tail(r.ev) /\ t.handle = r.handle /\ t.stopSent = r.stopSent
          /\ t.finished = (e.t = "fin") /\ t.consumed = r.consumed
      BY DEF RecvState
    <3>6. Consume(id, s, n)
      BY <3>1
    <3> HIDE DEF t
    <3>7. s \in RecvState
      BY <3>2, <3>4, Zenon DEF RecvState
    <3>8. /\ s.entry = t.entry /\ s.received = t.received /\ s.granted = t.granted /\ s.ev = t.ev
          /\ s.handle = t.handle /\ s.stopSent = t.stopSent /\ s.finished = t.finished
          /\ s.consumed = t.consumed
      BY <3>4 DEF RecvState
    <3> HIDE DEF s
    <3>9. ReadsToEnd(s)
      <4>1. s.finished => s.entry = "none"
        BY <2>3, <3>5, <3>8
      <4>2. ASSUME NEW i \in DOMAIN s.ev
            PROVE  IF s.ev[i].t = "fin" THEN s.entry = "none" ELSE s.ev[i].n > 0
        <5>1. i + 1 \in DOMAIN r.ev /\ s.ev[i] = r.ev[i + 1]
          BY <3>3, <3>5, <3>8
        <5> QED
          BY <1>2, <3>5, <3>8, <5>1 DEF ReadsToEnd
      <4> QED
        BY <4>1, <4>2 DEF ReadsToEnd
    <3> QED
      BY <1>1, <1>2, <3>2, <3>5, <3>6, <3>7, <3>8, <3>9, ConsumeStep
  <2> QED
    BY <1>5, <2>2, <2>4, <2>5
<1>6. CASE r.entry = "none" /\ Finished(id)
  BY <1>1, <1>2, <1>6, FinishedStep
<1> QED
  BY <1>2, <1>4, <1>5, <1>6 DEF Read

-----------------------------------------------------------------------------
(* Steps of a Session                                                      *)

(* Streams that are handed over or dropped, with nothing queued. *)
LEMMA HandedOver ==
    ASSUME TypeOK, TypeOK', IInv,
           UNCHANGED <<setup, next, chan, slot, task, peer, hist>>,
           session'.closed = session.closed,
           session'.waiter = "waiting" => session.waiter = "waiting" \/ task # "ended",
           \A b \in BOOLEAN : \A i \in DOMAIN accept'[b] : Born(accept'[b][i]),
           \A j \in Streams :
              /\ snd'[j] = snd[j] \/ (Born(j) /\ EndedSend(snd[j], snd'[j]))
              /\ rcv'[j] = rcv[j] \/ (Born(j) /\ ReadsToEnd(rcv'[j]))
              /\ rcv'[j].entry = "none" <=> rcv[j].entry = "none"
              /\ rcv'[j].received = rcv[j].received /\ rcv'[j].granted = rcv[j].granted
              /\ credit'[j] = credit[j] \/ credit'[j] = 0,
           ~session'.started =>
              /\ ~session.started
              /\ \A j \in Streams :
                    /\ snd'[j].finished = snd[j].finished /\ rcv'[j].stopSent = rcv[j].stopSent
                    /\ snd'[j].handle = "dropped" => snd[j].handle = "dropped"
                    /\ rcv'[j].handle = "dropped" => rcv[j].handle = "dropped"
    PROVE  IInv'
<1>1. Streams' = Streams /\ Outgoing' = Outgoing /\ \A j : Born(j)' <=> Born(j)
  BY DEF Streams, Outgoing, Born
<1>2. \A j \in Streams : snd[j] \in SendState /\ snd'[j] \in SendState /\ EndedSend(snd[j], snd'[j])
  <2>1. \A j \in Streams : snd[j] \in SendState /\ snd'[j] \in SendState /\ Reserves(snd[j])
    BY <1>1 DEF TypeOK, IInv, Books, Reserving
  <2> QED
    BY <2>1 DEF EndedSend
<1>3. Books'
  <2>1. Unborn'
    BY <1>1 DEF IInv, Books, Unborn
  <2>2. Reserving'
    BY <1>1, <1>2 DEF Reserving, EndedSend
  <2>3. EndRead'
    BY <1>1 DEF IInv, Books, EndRead
  <2>4. Entries' = Entries /\ Flows' \subseteq Flows
    BY <1>1, <1>2 DEF Entries, Flows, EndedSend
  <2>5. Ending'
    BY <2>4 DEF IInv, Books, Ending
  <2> QED
    BY <2>1, <2>2, <2>3, <2>5 DEF IInv, Books, HonestPeerTrusted
<1>4. SUFFICES ASSUME task = "run" PROVE Link(peer, Outgoing)'
  BY <1>3 DEF IInv
<1>5. PICK p \in PeerState, out \in Seq(Wire) : p = peer /\ out = Outgoing /\ Link(p, out)
  <2>1. peer \in PeerState /\ Outgoing \in Seq(Wire)
    BY DEF TypeOK, Outgoing, Channel
  <2> QED
    BY <1>4, <2>1 DEF IInv
<1>6. Quiet(p) /\ Less(p, p)
  <2>1. \A j \in Streams : rcv[j].granted \in Nat
    BY DEF TypeOK, RecvState
  <2>2. \A j \in Streams : credit[j] <= rcv[j].granted
    BY <1>5 DEF Link, PeerCredit
  <2>3. \A j \in Streams : rcv[j].granted <= rcv'[j].granted /\ credit'[j] <= rcv'[j].granted
    BY <2>1, <2>2
  <2>4. \A j \in Streams : (snd'[j].flow = "open" => snd[j].flow = "open") /\ snd'[j].max = snd[j].max
    BY <1>2 DEF EndedSend
  <2> QED
    BY <2>3, <2>4 DEF Quiet, Less
<1>7. \A j \in Streams : Counted(p, j)'
  BY <1>5, CountedKept DEF Link, PeerCredit
<1>8. \A j \in Streams : snd[j].sent - snd[j].grant <= snd'[j].sent - snd'[j].grant
  BY <1>2 DEF EndedSend, SendState
<1>9. ~session'.started => Told(p, out)'
  <2>1. HAVE ~session'.started
  <2>2. Told(p, out)
    BY <1>5, <2>1 DEF Link
  <2> QED
    BY <2>1, <2>2, ToldStep
<1>10. NetFrames(p) /\ Openings(p)
  BY <1>5 DEF Link
<1>11. Link(p, out)'
  BY <1>5, <1>6, <1>7, <1>8, <1>9, <1>10, LinkKept
<1> QED
  BY <1>1, <1>5, <1>11, LinkNow

LEMMA SameTypes ==
    ASSUME setup' = setup
    PROVE  /\ Streams' = Streams /\ Wire' = Wire /\ PeerState' = PeerState
           /\ Histories' = Histories /\ Channel' = Channel
BY DEF Streams, Wire, PeerState, Histories, Channel

LEMMA ShutdownStep ==
    ASSUME TypeOK, IInv, Shutdown
    PROVE  TypeOK' /\ IInv'
<1>1. /\ UNCHANGED <<setup, next, snd, rcv, chan, slot, credit, accept, task, peer, hist>>
      /\ session' = [session EXCEPT !.started = TRUE, !.waiter = WaitClosed]
  BY DEF Shutdown
<1>2. session' \in Sessions /\ session'.closed = session.closed /\ session'.started
      /\ (session'.waiter = "waiting" => task # "ended")
  BY <1>1 DEF TypeOK, Sessions, WaitClosed
<1>3. TypeOK'
  BY <1>1, <1>2, SameTypes DEF TypeOK
<1>4. \A b \in BOOLEAN : \A i \in DOMAIN accept'[b] : Born(accept'[b][i])
  BY <1>1 DEF IInv, Books, Unborn
<1> QED
  BY <1>1, <1>2, <1>3, <1>4, HandedOver

LEMMA AcceptStep ==
    ASSUME TypeOK, IInv, NEW b \in BOOLEAN, Accept(b)
    PROVE  TypeOK' /\ IInv'
<1>1. /\ UNCHANGED <<setup, next, chan, slot, credit, session, task, peer, hist>>
      /\ accept[b] # <<>> /\ accept' = [accept EXCEPT ![b] = Tail(@)]
  BY DEF Accept
<1>2. PICK a \in Seq(Streams) : a = accept[b] /\ a # <<>>
  BY <1>1 DEF TypeOK
<1>3. PICK id \in Streams : id = Head(accept[b]) /\ 1 \in DOMAIN accept[b] /\ id = accept[b][1]
  BY <1>2
<1>4. Born(id)
  BY <1>3 DEF IInv, Books, Unborn
<1>5. accept' \in [BOOLEAN -> Seq(Streams)]
  <2>1. Tail(a) \in Seq(Streams) /\ accept \in [BOOLEAN -> Seq(Streams)]
    BY <1>2 DEF TypeOK
  <2> QED
    BY <1>1, <1>2, <2>1
<1>6. \A c \in BOOLEAN : \A i \in DOMAIN accept'[c] : Born(accept'[c][i])
  <2>1. \A i \in DOMAIN Tail(a) : i + 1 \in DOMAIN a /\ Tail(a)[i] = a[i + 1]
    BY <1>2
  <2>2. ASSUME NEW c \in BOOLEAN, NEW i \in DOMAIN accept'[c] PROVE Born(accept'[c][i])
    <3>1. accept'[c] = IF c = b THEN Tail(a) ELSE accept[c]
      BY <1>1, <1>2 DEF TypeOK
    <3>2. \A k \in DOMAIN accept[c] : Born(accept[c][k])
      BY DEF IInv, Books, Unborn
    <3>3. CASE c = b
      BY <1>2, <2>1, <3>1, <3>2, <3>3
    <3>4. CASE c # b
      BY <3>1, <3>2, <3>4
    <3> QED
      BY <3>3, <3>4
  <2> QED
    BY <2>2
<1>7. PICK r \in RecvState :
        /\ r = [rcv[id] EXCEPT !.handle = "held"] /\ ReadsToEnd(r) /\ r.entry = rcv[id].entry
        /\ r.received = rcv[id].received /\ r.granted = rcv[id].granted
        /\ r.handle # "dropped" /\ r.stopSent = rcv[id].stopSent
  <2> DEFINE r == [rcv[id] EXCEPT !.handle = "held"]
  <2>1. rcv[id] \in RecvState /\ ReadsToEnd(rcv[id])
    BY DEF TypeOK, IInv, Books, EndRead
  <2>2. r \in RecvState
    BY <2>1, Zenon DEF RecvState
  <2>3. /\ r.entry = rcv[id].entry /\ r.ev = rcv[id].ev /\ r.finished = rcv[id].finished
        /\ r.received = rcv[id].received /\ r.granted = rcv[id].granted
        /\ r.handle = "held" /\ r.stopSent = rcv[id].stopSent
    BY <2>1 DEF RecvState
  <2> HIDE DEF r
  <2>4. ReadsToEnd(r)
    BY <2>1, <2>3 DEF ReadsToEnd
  <2> QED
    BY <2>2, <2>3, <2>4 DEF r
<1>8. PICK s \in SendState :
        /\ s = [snd[id] EXCEPT !.handle = "held"] /\ EndedSend(snd[id], s)
        /\ s.handle # "dropped" /\ s.finished = snd[id].finished
  <2>1. snd[id] \in SendState /\ Reserves(snd[id])
    BY DEF TypeOK, IInv, Books, Reserving
  <2>2. [snd[id] EXCEPT !.handle = "held"] \in SendState
    BY <2>1, Zenon DEF SendState
  <2> QED
    BY <2>1, <2>2 DEF EndedSend, Reserves, SendState
<1>9. rcv' = [rcv EXCEPT ![id] = r] /\ snd' \in {snd, [snd EXCEPT ![id] = s]}
  BY <1>3, <1>7, <1>8, Zenon DEF Accept
<1>10. rcv' \in [Streams -> RecvState] /\ \A j \in Streams : rcv'[j] = IF j = id THEN r ELSE rcv[j]
  BY <1>9 DEF TypeOK
<1>11. /\ snd' \in [Streams -> SendState]
       /\ \A j \in Streams : snd'[j] = snd[j] \/ (j = id /\ snd'[j] = s)
  BY <1>9 DEF TypeOK
<1>12. TypeOK'
  BY <1>1, <1>5, <1>10, <1>11, SameTypes DEF TypeOK
<1>13. \A j \in Streams :
              /\ snd'[j] = snd[j] \/ (Born(j) /\ EndedSend(snd[j], snd'[j]))
              /\ snd'[j].finished = snd[j].finished
              /\ snd'[j].handle = "dropped" => snd[j].handle = "dropped"
  BY <1>4, <1>8, <1>11
<1>14. \A j \in Streams :
              /\ rcv'[j] = rcv[j] \/ (Born(j) /\ ReadsToEnd(rcv'[j]))
              /\ rcv'[j].entry = "none" <=> rcv[j].entry = "none"
              /\ rcv'[j].received = rcv[j].received /\ rcv'[j].granted = rcv[j].granted
              /\ rcv'[j].stopSent = rcv[j].stopSent
              /\ rcv'[j].handle = "dropped" => rcv[j].handle = "dropped"
  BY <1>4, <1>7, <1>10
<1>15. \A j \in Streams : credit'[j] = credit[j]
  BY <1>1
<1>16. session' = session
  BY <1>1
<1> QED
  BY <1>1, <1>6, <1>12, <1>13, <1>14, <1>15, <1>16, HandedOver

LEMMA DropSessionStep ==
    ASSUME TypeOK, IInv, DropSession
    PROVE  TypeOK' /\ IInv'
<1> DEFINE lost == ToSet(accept[TRUE]) \cup ToSet(accept[FALSE])
<1>1. /\ UNCHANGED <<setup, next, chan, slot, task, peer, hist>>
      /\ session' = [session EXCEPT !.held = FALSE, !.started = TRUE]
      /\ snd' = [i \in Streams |-> IF i \in lost /\ i.bi THEN DroppedSend(snd[i]) ELSE snd[i]]
      /\ rcv' = [i \in Streams |-> IF i \in lost THEN DroppedRecv(rcv[i]) ELSE rcv[i]]
      /\ credit' = [i \in Streams |-> IF i \in lost THEN 0 ELSE credit[i]]
      /\ accept' = [b \in BOOLEAN |-> <<>>]
  BY DEF DropSession
<1>2. session' \in Sessions /\ session'.closed = session.closed /\ session'.started
      /\ session'.waiter = session.waiter
  BY <1>1 DEF TypeOK, Sessions
<1>3. \A j \in lost : Born(j)
  BY DEF ToSet, IInv, Books, Unborn
<1> HIDE DEF lost
<1>4. \A j \in Streams : /\ snd[j] \in SendState /\ Reserves(snd[j])
                         /\ rcv[j] \in RecvState /\ ReadsToEnd(rcv[j]) /\ credit[j] \in Nat
  BY DEF TypeOK, IInv, Books, Reserving, EndRead
<1>5. \A j \in Streams :
        /\ snd'[j] \in SendState /\ rcv'[j] \in RecvState /\ credit'[j] \in Nat
        /\ snd'[j] = snd[j] \/ (Born(j) /\ EndedSend(snd[j], snd'[j]))
        /\ rcv'[j] = rcv[j] \/ (Born(j) /\ ReadsToEnd(rcv'[j]))
        /\ rcv'[j].entry = "none" <=> rcv[j].entry = "none"
        /\ rcv'[j].received = rcv[j].received /\ rcv'[j].granted = rcv[j].granted
        /\ credit'[j] = credit[j] \/ credit'[j] = 0
  <2> SUFFICES ASSUME NEW j \in Streams
               PROVE  /\ snd'[j] \in SendState /\ rcv'[j] \in RecvState /\ credit'[j] \in Nat
                      /\ snd'[j] = snd[j] \/ (Born(j) /\ EndedSend(snd[j], snd'[j]))
                      /\ rcv'[j] = rcv[j] \/ (Born(j) /\ ReadsToEnd(rcv'[j]))
                      /\ rcv'[j].entry = "none" <=> rcv[j].entry = "none"
                      /\ rcv'[j].received = rcv[j].received /\ rcv'[j].granted = rcv[j].granted
                      /\ credit'[j] = credit[j] \/ credit'[j] = 0
    OBVIOUS
  <2>1. DroppedSend(snd[j]) \in SendState /\ EndedSend(snd[j], DroppedSend(snd[j]))
    BY <1>4, 1 \in 1..2, EndingSends, SendHelpers
  <2>2. /\ DroppedRecv(rcv[j]) \in RecvState /\ ReadsToEnd(DroppedRecv(rcv[j]))
        /\ (DroppedRecv(rcv[j]).entry = "none" <=> rcv[j].entry = "none")
        /\ DroppedRecv(rcv[j]).received = rcv[j].received
        /\ DroppedRecv(rcv[j]).granted = rcv[j].granted
    BY <1>4, TRUE \in BOOLEAN, StoppingRecvs
  <2>3. snd'[j] = snd[j] \/ (j \in lost /\ snd'[j] = DroppedSend(snd[j]))
    BY <1>1
  <2>4. rcv'[j] = rcv[j] \/ (j \in lost /\ rcv'[j] = DroppedRecv(rcv[j]))
    BY <1>1
  <2>5. credit'[j] = credit[j] \/ credit'[j] = 0
    BY <1>1
  <2> QED
    BY <1>3, <1>4, <2>1, <2>2, <2>3, <2>4, <2>5
<1>6. TypeOK'
  <2>1. /\ snd' \in [Streams -> SendState] /\ rcv' \in [Streams -> RecvState]
        /\ credit' \in [Streams -> Nat] /\ accept' \in [BOOLEAN -> Seq(Streams)]
    BY <1>1, <1>5
  <2> QED
    BY <1>1, <1>2, <2>1, SameTypes DEF TypeOK
<1>7. \A b \in BOOLEAN : \A i \in DOMAIN accept'[b] : Born(accept'[b][i])
  BY <1>1
<1> QED
  BY <1>1, <1>2, <1>5, <1>6, <1>7, HandedOver

(* A frame that carries no data leaves what the peer has got alone. *)
LEMMA GotKept ==
    ASSUME setup \in Setups, NEW p \in PeerState, NEW out \in Deliverable,
           NEW f \in Wire, f.t \notin {"close", "data"}
    PROVE  /\ Append(out, f) \in Deliverable
           /\ Delivered(p, Append(out, f)).got = Delivered(p, out).got
<1>1. out \in Seq(Wire) /\ Append(out, f) \in Seq(Wire)
  BY DEF Deliverable
<1>2. Append(out, f) \in Deliverable
  <2>1. \A i \in DOMAIN Append(out, f) : Append(out, f)[i] = f \/ (i \in DOMAIN out /\ Append(out, f)[i] = out[i])
    BY <1>1
  <2> QED
    BY <1>1, <2>1 DEF Deliverable
<1>3. PICK d \in PeerState : d = Delivered(p, out)
  BY DeliveredType
<1>4. Delivered(p, Append(out, f)) = Deliver(d, f)
  BY <1>1, <1>3, DeliveredAppend
<1>5. f.t # "close" /\ f.t # "data"
  OBVIOUS
<1>6. Deliver(d, f).got = d.got
  BY <1>5, DeliverGot
<1> QED
  BY <1>2, <1>3, <1>4, <1>6

(* An open call: id is used from now on, and known to this end if done. *)
Opened(id, done) ==
    /\ id.local /\ ~Born(id) /\ \A j \in Streams : Born(j)' <=> Born(j) \/ j = id
    /\ snd' = IF done THEN [snd EXCEPT ![id].flow = "open", ![id].handle = "held"] ELSE snd
    /\ rcv' = IF done /\ id.bi
              THEN [rcv EXCEPT ![id].entry = "live", ![id].handle = "held"] ELSE rcv
    /\ UNCHANGED <<setup, slot, credit, accept, session, task, peer>>
    /\ hist' \in Histories /\ hist.half \subseteq hist'.half
    /\ hist'.accused = hist.accused /\ hist'.failed = hist.failed /\ hist'.stopFailed = hist.stopFailed
    /\ hist.late \subseteq hist'.late /\ (done /\ session.closed => id \in hist'.late)

LEMMA OpenedTables ==
    ASSUME TypeOK, Books, NEW id \in Streams, NEW done \in BOOLEAN, Opened(id, done)
    PROVE  /\ snd[id] = NoSend /\ rcv[id] = NoRecv
           /\ snd' \in [Streams -> SendState] /\ rcv' \in [Streams -> RecvState]
           /\ \A j \in Streams :
                 /\ j # id \/ ~done => snd'[j] = snd[j] /\ rcv'[j] = rcv[j]
                 /\ snd'[j].max = snd[j].max /\ snd'[j].sent = snd[j].sent
                 /\ snd'[j].grant = snd[j].grant /\ snd'[j].finished = snd[j].finished
                 /\ snd'[j].pc = snd[j].pc /\ snd'[j].left = snd[j].left
                 /\ snd'[j].handle = "dropped" => snd[j].handle = "dropped"
                 /\ rcv'[j].received = rcv[j].received /\ rcv'[j].granted = rcv[j].granted
                 /\ rcv'[j].ev = rcv[j].ev /\ rcv'[j].finished = rcv[j].finished
                 /\ rcv'[j].stopSent = rcv[j].stopSent
                 /\ rcv'[j].handle = "dropped" => rcv[j].handle = "dropped"
                 /\ rcv'[j].entry = IF j = id /\ done /\ id.bi THEN "live" ELSE rcv[j].entry
<1>1. snd[id] = NoSend /\ rcv[id] = NoRecv
  BY DEF Books, Unborn, Opened
<1>2. snd \in [Streams -> SendState] /\ rcv \in [Streams -> RecvState]
  BY DEF TypeOK
<1> DEFINE s == [NoSend EXCEPT !.flow = "open", !.handle = "held"]
           r == [NoRecv EXCEPT !.entry = "live", !.handle = "held"]
<1>3. s \in SendState /\ r \in RecvState
  <2>1. NoSend \in SendState /\ NoRecv \in RecvState
    BY BlankStreams
  <2> QED
    BY <2>1, Zenon DEF SendState, RecvState
<1>4. /\ s.max = NoSend.max /\ s.sent = NoSend.sent /\ s.grant = NoSend.grant
      /\ s.finished = NoSend.finished /\ s.handle = "held"
      /\ s.pc = NoSend.pc /\ s.left = NoSend.left
  BY DEF NoSend
<1>5. /\ r.received = NoRecv.received /\ r.granted = NoRecv.granted /\ r.ev = NoRecv.ev
      /\ r.finished = NoRecv.finished /\ r.stopSent = NoRecv.stopSent /\ r.handle = "held"
      /\ r.entry = "live"
  BY DEF NoRecv
<1>6. snd' = IF done THEN [snd EXCEPT ![id] = s] ELSE snd
  BY <1>1, Zenon DEF Opened
<1>7. rcv' = IF done /\ id.bi THEN [rcv EXCEPT ![id] = r] ELSE rcv
  BY <1>1, Zenon DEF Opened
<1> HIDE DEF s, r
<1>8. snd' \in [Streams -> SendState] /\ \A j \in Streams : snd'[j] = IF done /\ j = id THEN s ELSE snd[j]
  BY <1>2, <1>3, <1>6
<1>9. /\ rcv' \in [Streams -> RecvState]
      /\ \A j \in Streams : rcv'[j] = IF (done /\ id.bi) /\ j = id THEN r ELSE rcv[j]
  BY <1>2, <1>3, <1>7
<1> QED
  BY <1>1, <1>4, <1>5, <1>8, <1>9

LEMMA OpenedBooks ==
    ASSUME TypeOK, Books, NEW id \in Streams, NEW done \in BOOLEAN, Opened(id, done),
           chan' \in Channel, next' \in [[local : BOOLEAN, bi : BOOLEAN] -> Nat]
    PROVE  TypeOK' /\ Books' /\ Streams' = Streams
<1>1. UNCHANGED <<setup, slot, credit, accept, session, task, peer>> /\ hist' \in Histories
  BY DEF Opened
<1>2. /\ Streams' = Streams /\ Wire' = Wire /\ PeerState' = PeerState
      /\ Histories' = Histories /\ Channel' = Channel
  BY <1>1, SameTypes
<1>3. /\ snd[id] = NoSend /\ rcv[id] = NoRecv
      /\ snd' \in [Streams -> SendState] /\ rcv' \in [Streams -> RecvState]
  BY OpenedTables
<1>4. \A j \in Streams :
        /\ j # id \/ ~done => snd'[j] = snd[j] /\ rcv'[j] = rcv[j]
        /\ snd'[j].max = snd[j].max /\ snd'[j].sent = snd[j].sent
        /\ snd'[j].grant = snd[j].grant
        /\ snd'[j].pc = snd[j].pc /\ snd'[j].left = snd[j].left
        /\ rcv'[j].ev = rcv[j].ev /\ rcv'[j].finished = rcv[j].finished
        /\ rcv'[j].entry = IF j = id /\ done /\ id.bi THEN "live" ELSE rcv[j].entry
  BY OpenedTables
<1>5. TypeOK'
  BY <1>1, <1>2, <1>3 DEF TypeOK
<1>6. Unborn'
  <2>1. \A j \in Streams : Born(j) => Born(j)'
    BY DEF Opened
  <2>2. \A j \in Streams : ~Born(j)' => ~Born(j) /\ j # id
    BY DEF Opened
  <2>3. \A b \in BOOLEAN : \A i \in DOMAIN accept[b] : accept[b][i] \in Streams
    BY DEF TypeOK
  <2> QED
    BY <1>1, <1>2, <1>4, <2>1, <2>2, <2>3 DEF Books, Unborn
<1>7. Reserving'
  BY <1>2, <1>4 DEF Books, Reserving, Reserves
<1>8. EndRead'
  <2>1. ~NoRecv.finished /\ NoRecv.ev = <<>>
    BY DEF NoRecv
  <2>2. ASSUME NEW j \in Streams PROVE ReadsToEnd(rcv'[j])
    <3>1. CASE j = id
      BY <1>3, <1>4, <2>1, <3>1 DEF ReadsToEnd
    <3>2. CASE j # id
      BY <1>4, <3>2 DEF Books, EndRead
    <3> QED
      BY <3>1, <3>2
  <2> QED
    BY <1>2, <2>2 DEF EndRead
<1>9. Ending'
  <2>1. Entries' \cup Flows' \subseteq Entries \cup Flows \cup (IF done THEN {id} ELSE {})
    BY <1>2, <1>4 DEF Entries, Flows
  <2> QED
    BY <1>1, <2>1 DEF Books, Ending, Opened
<1>10. HonestPeerTrusted' /\ Len(slot') <= 1
  BY <1>1 DEF Books, HonestPeerTrusted, Opened
<1> QED
  BY <1>2, <1>5, <1>6, <1>7, <1>8, <1>9, <1>10 DEF Books

(* The link while the OPEN frame f of id, and perhaps a first credit, is queued. *)
LEMMA OpenedLink ==
    ASSUME TypeOK, TypeOK', IInv, task = "run", NEW id \in Streams, NEW done \in BOOLEAN,
           Opened(id, done), NEW p \in PeerState, p = peer,
           NEW out \in Seq(Wire), out = Outgoing, NEW out2 \in Seq(Wire),
           NEW f \in Wire, f = Frame("open", id, 0), NEW g \in Wire, g = Frame("max", id, Window),
           \/ out2 = out /\ ~done
           \/ out2 = Append(out, f) /\ (done \/ id \in hist'.half)
           \/ out2 = Append(Append(out, f), g) /\ done
    PROVE  Link(p, out2)'
<1>1. Link(p, out)
  BY DEF IInv
<1>2. setup \in Setups /\ setup' = setup /\ Streams' = Streams /\ (hist.half \subseteq hist'.half)
      /\ credit' = credit /\ session' = session
  BY DEF TypeOK, Opened, Streams
<1>3. \A j \in Streams : (Born(j) => Born(j)') /\ (Born(j)' => Born(j) \/ j = id)
  BY DEF Opened
<1>4. id.local /\ ~Born(id) /\ Born(id)'
  BY DEF Opened
<1>5. \A j \in Streams :
        /\ j # id \/ ~done => snd'[j] = snd[j] /\ rcv'[j] = rcv[j]
        /\ snd'[j].max = snd[j].max /\ snd'[j].sent = snd[j].sent
        /\ snd'[j].grant = snd[j].grant /\ snd'[j].finished = snd[j].finished
        /\ snd'[j].handle = "dropped" => snd[j].handle = "dropped"
        /\ rcv'[j].received = rcv[j].received /\ rcv'[j].granted = rcv[j].granted
        /\ rcv'[j].stopSent = rcv[j].stopSent
        /\ rcv'[j].handle = "dropped" => rcv[j].handle = "dropped"
        /\ rcv'[j].entry = IF j = id /\ done /\ id.bi THEN "live" ELSE rcv[j].entry
  BY OpenedTables DEF IInv
<1>6. snd[id] = NoSend /\ rcv[id] = NoRecv
  BY OpenedTables DEF IInv
<1>7. /\ f.t = "open" /\ f.id = id /\ f.n = 0 /\ g.t = "max" /\ g.id = id /\ g.n = Window
  BY DEF Frame
<1>8. id \notin p.known /\ id \notin p.inEnd /\ \A ts : ~On(out, id, ts)
  <2>1. id \notin p.known
    BY <1>1, <1>4 DEF Link, Openings
  <2>2. id \notin p.inEnd
    BY <1>1, <1>4 DEF Link, Announced
  <2>3. \A ts : ~On(out, id, ts)
    BY <1>1, <1>4 DEF Link, OutFrames, OutFrame, On
  <2> QED
    BY <2>1, <2>2, <2>3
<1>9. \A j, ts : On(Append(out, f), j, ts) <=> On(out, j, ts) \/ (id = j /\ "open" \in ts)
  BY <1>7, OnAppend
<1>10. OutFrames(p, out)'
  <2>1. \A j \in Streams :
           /\ rcv[j].entry # "none" => rcv'[j].entry # "none"
           /\ \A n \in Nat : n <= rcv[j].granted => n <= rcv'[j].granted
    BY <1>5
  <2> QED
    BY <1>1, <1>2, <1>3, <2>1, OutFramesKept DEF Link
<1>11. NetFrames(p)'
  <2>1. \A j \in Streams :
          /\ j \in p.known => (Born(j)' <=> Born(j))
          /\ rcv[j].entry # "none" => rcv'[j].entry # "none"
    BY <1>3, <1>5, <1>8
  <2> QED
    BY <1>1, <1>2, <2>1, NetFramesKept DEF Link
<1>12. Openings(p)'
  <2>1. \A j \in Streams :
          /\ j.local => (Born(j) => Born(j)')
          /\ ~j.local => (Born(j)' <=> Born(j))
          /\ Born(j)' /\ rcv'[j].entry = "none" =>
                (Born(j) /\ rcv[j].entry = "none") \/ j \notin p.known \/ j \in p.outEnd
    BY <1>3, <1>4, <1>5, <1>8
  <2> QED
    BY <1>1, <1>2, <2>1, OpeningsKept DEF Link
<1>13. PeerCredit(p)'
  <2>1. \A j \in Streams : Counted(p, j)'
    BY <1>1, <1>5, CountedKept DEF Link, PeerCredit
  <2>2. \A j \in Streams :
          /\ Counted(p, j)' /\ p.sent[j] <= p.credit[j]
          /\ p.credit[j] <= rcv'[j].granted /\ credit'[j] <= rcv'[j].granted
    BY <1>1, <1>2, <1>5, <2>1 DEF Link, PeerCredit
  <2> QED
    BY ONLY <1>2, <2>2 DEF PeerCredit, Streams
<1>14. Deliverable' = Deliverable /\ out \in Deliverable /\ Append(out, f) \in Seq(Wire)
  <2>1. Wire' = Wire
    BY <1>2, SameTypes
  <2> QED
    BY <1>1, <2>1, LinkDeliverable DEF Deliverable
<1>15. Delivered(p, out2).got = Delivered(p, out).got
  <2>1. /\ Append(out, f) \in Deliverable
        /\ Delivered(p, Append(out, f)).got = Delivered(p, out).got
    BY <1>2, <1>7, <1>14, GotKept
  <2>2. Delivered(p, Append(Append(out, f), g)).got = Delivered(p, Append(out, f)).got
    BY <1>2, <1>7, <2>1, GotKept
  <2> QED
    BY <2>1, <2>2
<1>16. OwnCredit(p, out2)'
  <2>1. \A j \in Streams : /\ snd'[j].max <= p.granted[j]
                           /\ Delivered(p, out2).got[j] + snd'[j].grant <= snd'[j].sent
    BY <1>1, <1>5, <1>15 DEF Link, OwnCredit
  <2> QED
    BY ONLY <1>2, <2>1 DEF OwnCredit, Streams
<1>17. ~session'.started => Told(p, out2)'
  <2>1. HAVE ~session'.started
  <2>2. Told(p, out)
    BY <1>1, <1>2, <2>1 DEF Link
  <2>3. \A j, ts : On(Append(Append(out, f), g), j, ts) <=> On(Append(out, f), j, ts) \/ (id = j /\ "max" \in ts)
    <3>1. PICK o \in Seq(Wire) : o = Append(out, f)
      BY <1>14
    <3>2. \A j, ts : On(Append(o, g), j, ts) <=> On(o, j, ts) \/ (g.id = j /\ g.t \in ts)
      BY OnAppend
    <3> QED
      BY <1>7, <3>1, <3>2
  <2>4. \A j \in Streams :
           /\ On(out, j, {"fin", "reset"}) => On(out2, j, {"fin", "reset"})
           /\ On(out, j, {"stop"}) => On(out2, j, {"stop"})
    BY <1>9, <2>3
  <2>5. NoRecv.handle # "dropped" /\ ~NoRecv.stopSent
    BY DEF NoRecv
  <2>6. \A j \in Streams :
          /\ snd'[j].handle = "dropped" \/ snd'[j].finished =>
                snd[j].handle = "dropped" \/ snd[j].finished
          /\ rcv'[j].entry # "none" /\ (rcv'[j].handle = "dropped" \/ rcv'[j].stopSent) =>
                rcv[j].entry # "none" /\ (rcv[j].handle = "dropped" \/ rcv[j].stopSent)
    BY <1>5, <1>6, <2>5
  <2>7. hist'.failed = hist.failed /\ hist'.stopFailed = hist.stopFailed
    BY DEF Opened
  <2> QED
    BY <1>2, <2>2, <2>4, <2>6, <2>7, ToldStep
<1>18. p.inEnd \subseteq Streams
  BY DEF PeerState
<1>19. CASE out2 = out /\ ~done
  <2>1. Announced(p, out)'
    BY <1>1, <1>2, <1>3, <1>5, <1>18, <1>19, AnnouncedKept DEF Link
  <2> QED
    BY <1>10, <1>11, <1>12, <1>13, <1>16, <1>17, <1>19, <2>1 DEF Link
<1>20. ASSUME done \/ id \in hist'.half
       PROVE  OutFrames(p, Append(out, f))' /\ Announced(p, Append(out, f))'
  <2>1. NewOut(p, out, f)'
    <3>1. id.bi /\ id \notin hist'.half => rcv'[id].entry # "none"
      BY <1>5, <1>20
    <3> QED
      BY <1>4, <1>7, <1>8, <3>1 DEF NewOut
  <2>2. OutFrames(p, Append(out, f))'
    BY <1>10, <2>1, OutFramesAppend
  <2>3. Announced(p, Append(out, f))
    <3>1. \A j, ts : "open" \notin ts => (On(Append(out, f), j, ts) <=> On(out, j, ts))
      BY <1>9
    <3>2. \A j : /\ On(out, j, {"open"}) => On(Append(out, f), j, {"open"})
                 /\ On(Append(out, f), j, {"fin", "reset"}) <=> On(out, j, {"fin", "reset"})
      BY <1>9, <3>1
    <3> QED
      BY <1>1, <3>2 DEF Link, Announced
  <2>4. On(Append(out, f), id, {"open"}) /\ ~On(Append(out, f), id, {"fin", "reset"})
    BY <1>8, <1>9
  <2>5. \A j \in Streams :
              /\ Born(j) => Born(j)'
              /\ snd'[j].flow = "open" =>
                    \/ snd[j].flow = "open"
                    \/ /\ j \notin p.inEnd /\ ~On(Append(out, f), j, {"fin", "reset"})
                       /\ j \in p.known \/ On(Append(out, f), j, {"open"})
              /\ rcv'[j].entry # "none" =>
                    \/ rcv[j].entry # "none"
                    \/ RecvSide(j) /\ (j \in p.known \/ On(Append(out, f), j, {"open"}))
    <3>1. SUFFICES ASSUME NEW j \in Streams
                   PROVE  /\ Born(j) => Born(j)'
                          /\ snd'[j].flow = "open" =>
                                \/ snd[j].flow = "open"
                                \/ /\ j \notin p.inEnd /\ ~On(Append(out, f), j, {"fin", "reset"})
                                   /\ j \in p.known \/ On(Append(out, f), j, {"open"})
                          /\ rcv'[j].entry # "none" =>
                                \/ rcv[j].entry # "none"
                                \/ RecvSide(j) /\ (j \in p.known \/ On(Append(out, f), j, {"open"}))
      OBVIOUS
    <3>2. CASE j = id
      BY <1>3, <1>5, <1>8, <2>4, <3>2 DEF RecvSide
    <3>3. CASE j # id
      BY <1>3, <1>5, <3>3
    <3> QED
      BY <3>2, <3>3
  <2>6. Announced(p, Append(out, f))'
    BY <1>2, <1>18, <2>3, <2>5, AnnouncedKept
  <2> QED
    BY <2>2, <2>6
<1>21. CASE out2 = Append(out, f) /\ (done \/ id \in hist'.half)
  BY <1>11, <1>12, <1>13, <1>16, <1>17, <1>20, <1>21 DEF Link
<1>22. CASE out2 = Append(Append(out, f), g) /\ done
  <2>1. OutFrames(p, Append(out, f))' /\ Announced(p, Append(out, f))'
    BY <1>20, <1>22
  <2>2. NewOut(p, Append(out, f), g)'
    <3>1. g.n <= rcv'[id].granted
      BY <1>5, <1>6, <1>7, BrowserAssumption DEF NoRecv
    <3> QED
      BY <1>4, <1>7, <3>1 DEF NewOut
  <2>3. OutFrames(p, out2)'
    BY <1>14, <1>22, <2>1, <2>2, OutFramesAppend
  <2>4. Announced(p, out2)'
    BY <1>7, <1>14, <1>22, <2>1, AnnouncedAppend
  <2> QED
    BY <1>11, <1>12, <1>13, <1>16, <1>17, <2>3, <2>4 DEF Link
<1> QED
  BY <1>19, <1>21, <1>22

LEMMA KeyType ==
    ASSUME setup \in Setups, next \in [[local : BOOLEAN, bi : BOOLEAN] -> Nat]
    PROVE  \A id \in Streams : /\ Key(id) \in [local : BOOLEAN, bi : BOOLEAN]
                               /\ next[Key(id)] \in Nat /\ id.n \in Nat
BY StreamIds DEF Key

(* The frontier of one kind of stream moves on to n. *)
LEMMA FrontierMoves ==
    ASSUME TypeOK, NEW id \in Streams, NEW n \in Nat, next' = [next EXCEPT ![Key(id)] = n]
    PROVE  /\ next' \in [[local : BOOLEAN, bi : BOOLEAN] -> Nat]
           /\ \A j \in Streams : Born(j)' <=> IF Key(j) = Key(id) THEN j.n < n ELSE Born(j)
<1>1. setup \in Setups /\ next \in [[local : BOOLEAN, bi : BOOLEAN] -> Nat]
  BY DEF TypeOK
<1>2. Key(id) \in [local : BOOLEAN, bi : BOOLEAN]
  BY <1>1, KeyType
<1>3. next' \in [[local : BOOLEAN, bi : BOOLEAN] -> Nat]
  BY <1>1
<1>4. ASSUME NEW j \in Streams
      PROVE  Born(j)' <=> IF Key(j) = Key(id) THEN j.n < n ELSE Born(j)
  <2>1. Key(j) \in [local : BOOLEAN, bi : BOOLEAN]
    BY <1>1, KeyType
  <2>2. next'[Key(j)] = IF Key(j) = Key(id) THEN n ELSE next[Key(j)]
    BY <1>1, <2>1
  <2>3. Born(j)' <=> j.n < next'[Key(j)]
    BY DEF Born, Key
  <2> QED
    BY <2>2, <2>3 DEF Born
<1> QED
  BY <1>3, <1>4

LEMMA SameId ==
    ASSUME setup \in Setups, NEW i \in Streams, NEW j \in Streams, Key(i) = Key(j), i.n = j.n
    PROVE  i = j
<1>1. i.local = j.local /\ i.bi = j.bi
  BY DEF Key
<1> QED
  BY <1>1, StreamIds

LEMMA OpenStep ==
    ASSUME TypeOK, IInv, NEW id \in Ids, Open(id)
    PROVE  TypeOK' /\ IInv'
<1> DEFINE room == Cardinality(Flows) < setup.maxOpen
           f == Frame("open", id, 0)
           g == Frame("max", id, Window)
           c == TrySend(chan, f)
           published == room /\ CanSend(chan, Ctl)
           done == published /\ (id.bi => CanSend(c, Ctl))
<1>1. /\ id \in Streams /\ id.local /\ id.n = next[Key(id)]
      /\ next' = [next EXCEPT ![Key(id)] = @ + 1]
      /\ chan' = IF ~room THEN chan ELSE IF id.bi THEN TrySend(c, g) ELSE c
      /\ snd' = IF done THEN [snd EXCEPT ![id].flow = "open", ![id].handle = "held"] ELSE snd
      /\ rcv' = IF done /\ id.bi
                THEN [rcv EXCEPT ![id].entry = "live", ![id].handle = "held"] ELSE rcv
      /\ hist' = [hist EXCEPT !.half = IF published /\ ~done THEN @ \cup {id} ELSE @,
                              !.late = IF done /\ session.closed THEN @ \cup {id} ELSE @]
      /\ UNCHANGED <<setup, slot, credit, accept, session, task, peer>>
  BY DEF Open
<1>2. /\ setup \in Setups /\ next \in [[local : BOOLEAN, bi : BOOLEAN] -> Nat]
      /\ chan \in Channel /\ hist \in Histories /\ done \in BOOLEAN
  BY DEF TypeOK
<1>3. f \in Wire /\ g \in Wire
  BY <1>1, <1>2, FrameWire, BrowserAssumption
<1> HIDE DEF f, g
<1>4. c \in Channel
  BY <1>2, <1>3, TrySendChannel
<1>5. chan' \in Channel
  BY <1>1, <1>2, <1>3, <1>4, TrySendChannel
<1>6. /\ next' \in [[local : BOOLEAN, bi : BOOLEAN] -> Nat] /\ ~Born(id)
      /\ \A j \in Streams : Born(j)' <=> Born(j) \/ j = id
  <2>1. PICK n \in Nat : n = id.n /\ n = next[Key(id)] /\ n + 1 \in Nat
    BY <1>1, <1>2, KeyType
  <2>2. next' = [next EXCEPT ![Key(id)] = n + 1]
    BY <1>1, <2>1
  <2>3. /\ next' \in [[local : BOOLEAN, bi : BOOLEAN] -> Nat]
        /\ \A j \in Streams : Born(j)' <=> IF Key(j) = Key(id) THEN j.n < n + 1 ELSE Born(j)
    BY <1>1, <2>1, <2>2, FrontierMoves
  <2>4. ASSUME NEW j \in Streams PROVE Born(j)' <=> Born(j) \/ j = id
    <3>1. CASE Key(j) = Key(id)
      <4>1. j.n \in Nat /\ (Born(j) <=> j.n < n) /\ (Born(j)' <=> j.n < n + 1)
        BY <1>2, <2>1, <2>3, <3>1, KeyType DEF Born
      <4>2. j.n = n <=> j = id
        BY <1>1, <1>2, <2>1, <3>1, SameId
      <4> QED
        BY <4>1, <4>2
    <3>2. CASE Key(j) # Key(id)
      <4>1. j # id
        BY <3>2
      <4> QED
        BY <2>3, <3>2, <4>1
    <3> QED
      BY <3>1, <3>2
  <2>5. ~Born(id)
    BY <2>1 DEF Born
  <2> QED
    BY <2>3, <2>4, <2>5
<1>7. Opened(id, done)
  <2>1. /\ hist' \in Histories /\ hist.half \subseteq hist'.half
        /\ hist'.accused = hist.accused /\ hist'.failed = hist.failed
        /\ hist'.stopFailed = hist.stopFailed
        /\ hist.late \subseteq hist'.late /\ (done /\ session.closed => id \in hist'.late)
    <3> HIDE DEF done, published
    <3> QED
      BY <1>1, <1>2 DEF Histories
  <2> HIDE DEF done
  <2> QED
    BY <1>1, <1>6, <2>1 DEF Opened
<1>8. TypeOK' /\ Books' /\ Streams' = Streams
  <2> HIDE DEF done
  <2> QED
    BY <1>1, <1>2, <1>5, <1>6, <1>7, OpenedBooks DEF IInv
<1>9. SUFFICES ASSUME task = "run" PROVE Link(peer, Outgoing)'
  BY <1>1, <1>8 DEF IInv
<1>10. PICK p \in PeerState, out \in Seq(Wire) : p = peer /\ out = Outgoing
  <2>1. peer \in PeerState /\ Outgoing \in Seq(Wire)
    BY DEF TypeOK, Outgoing, Channel
  <2> QED
    BY <2>1
<1>11. slot \in Seq(Wire) /\ chan.q \in Seq(Wire) /\ out = slot \o chan.q
  BY <1>10 DEF TypeOK, Channel, Outgoing
<1>12. PICK out2 \in Seq(Wire) : out2 = Outgoing'
  <2>1. chan'.q \in Seq(Wire) /\ slot' \in Seq(Wire)
    BY <1>1, <1>5, <1>11 DEF Channel
  <2>2. slot' \o chan'.q \in Seq(Wire)
    BY <2>1
  <2> QED
    BY <2>2 DEF Outgoing
<1>13. \/ out2 = out /\ ~done
       \/ out2 = Append(out, f) /\ (done \/ id \in hist'.half)
       \/ out2 = Append(Append(out, f), g) /\ done
  <2>1. CASE ~published
    <3>1. chan' = chan
      BY <1>1, <1>2, <1>3, <1>4, <2>1, TrySendChannel
    <3> QED
      BY <1>1, <1>11, <1>12, <2>1, <3>1 DEF Outgoing
  <2>2. CASE published
    <3>1. c.q = Append(chan.q, f) /\ slot \o Append(chan.q, f) = Append(out, f)
          /\ Append(chan.q, f) \in Seq(Wire)
      BY <1>2, <1>3, <1>11, <2>2, TrySendChannel, OutgoingPushed
    <3>2. CASE ~id.bi
      BY <1>1, <1>12, <2>2, <3>1, <3>2 DEF Outgoing
    <3>3. CASE id.bi /\ CanSend(c, Ctl)
      <4>1. chan'.q = Append(c.q, g)
        BY <1>1, <1>3, <1>4, <2>2, <3>3, TrySendChannel
      <4>2. slot \o Append(Append(chan.q, f), g) = Append(slot \o Append(chan.q, f), g)
        <5>1. PICK q \in Seq(Wire) : q = Append(chan.q, f)
          BY <3>1
        <5>2. slot \o Append(q, g) = Append(slot \o q, g)
          BY <1>3, <1>11, OutgoingPushed
        <5> QED
          BY <5>1, <5>2
      <4>3. out2 = Append(Append(out, f), g)
        <5>1. out2 = slot \o chan'.q
          BY <1>1, <1>12 DEF Outgoing
        <5> QED
          BY <3>1, <4>1, <4>2, <5>1
      <4> QED
        BY <2>2, <3>3, <4>3
    <3>4. CASE id.bi /\ ~CanSend(c, Ctl)
      <4>1. chan' = c
        BY <1>1, <1>3, <1>4, <2>2, <3>4, TrySendChannel
      <4>2. hist'.half = hist.half \cup {id}
        <5>1. published /\ ~done
          BY <2>2, <3>4
        <5> HIDE DEF published, done
        <5> QED
          BY <1>1, <1>2, <5>1 DEF Histories
      <4> QED
        BY <1>1, <1>12, <3>1, <4>1, <4>2 DEF Outgoing
    <3> QED
      BY <3>2, <3>3, <3>4
  <2> QED
    BY <2>1, <2>2
<1>14. Link(p, out2)'
  <2> HIDE DEF done
  <2> QED
    BY <1>1, <1>2, <1>3, <1>7, <1>8, <1>9, <1>10, <1>13, OpenedLink DEF f, g
<1> QED
  BY <1>1, <1>10, <1>12, <1>14, LinkNow

-----------------------------------------------------------------------------
(* Steps that leave the event loop                                         *)

(* Tables that are in order, whatever the loop is about to do with them. *)
InOrder(s, r) ==
    /\ s \in [Streams -> SendState] /\ r \in [Streams -> RecvState]
    /\ \A j \in Streams : Reserves(s[j]) /\ ReadsToEnd(r[j])

LEMMA TablesInOrder ==
    ASSUME TypeOK, Books PROVE InOrder(snd, rcv)
BY DEF TypeOK, Books, Reserving, EndRead, InOrder

(* close_all, once or again. *)
LEMMA ClosedTables ==
    ASSUME setup' = setup, NEW s, NEW r, InOrder(s, r), NEW ss \in Sessions, CloseAll(s, r, ss),
           credit \in [Streams -> Nat]
    PROVE  /\ InOrder(snd', rcv') /\ credit' \in [Streams -> Nat] /\ session' \in Sessions
           /\ session'.closed /\ session'.waiter = ss.waiter
           /\ \A j \in Streams : /\ s[j] = NoSend => snd'[j] = NoSend
                                 /\ r[j] = NoRecv => rcv'[j] = NoRecv
           /\ ~ss.closed => Entries' \cup Flows' = {}
           /\ ss.closed => snd' = s /\ rcv' = r
<1>1. session' \in Sessions /\ session'.closed /\ session'.waiter = ss.waiter
  BY DEF CloseAll, Sessions
<1>2. CASE ss.closed
  BY <1>1, <1>2 DEF CloseAll
<1>3. CASE ~ss.closed
  <2>1. /\ snd' = [i \in Streams |-> RemoveFlow(s[i])]
        /\ rcv' = [i \in Streams |-> [r[i] EXCEPT !.entry = "none"]]
        /\ credit' = [i \in Streams |-> 0]
    BY <1>3 DEF CloseAll
  <2>2. ASSUME NEW j \in Streams
        PROVE  /\ snd'[j] \in SendState /\ Reserves(snd'[j]) /\ snd'[j].flow # "open"
               /\ s[j] = NoSend => snd'[j] = NoSend
    <3>1. snd'[j] = RemoveFlow(s[j]) /\ s[j] \in SendState /\ Reserves(s[j])
      BY <2>1 DEF InOrder
    <3>2. EndedSend(s[j], RemoveFlow(s[j])) /\ RemoveFlow(s[j]).flow # "open"
      BY <3>1, 1 \in 1..2, EndingSends
    <3>3. RemoveFlow(NoSend) = NoSend
      BY DEF RemoveFlow, NoSend
    <3> QED
      BY <3>1, <3>2, <3>3 DEF EndedSend
  <2>3. ASSUME NEW j \in Streams
        PROVE  /\ rcv'[j] \in RecvState /\ ReadsToEnd(rcv'[j]) /\ rcv'[j].entry = "none"
               /\ r[j] = NoRecv => rcv'[j] = NoRecv
    <3>1. PICK e \in RecvState : e = r[j] /\ ReadsToEnd(e)
      BY DEF InOrder
    <3>2. PICK x : x = [e EXCEPT !.entry = "none"]
      OBVIOUS
    <3>3. rcv'[j] = x
      BY <2>1, <3>1, <3>2
    <3>4. x \in RecvState
      BY <3>2, Zenon DEF RecvState
    <3>5. x.entry = "none" /\ x.ev = e.ev
      BY <3>2 DEF RecvState
    <3>6. ReadsToEnd(x)
      BY <3>1, <3>5 DEF ReadsToEnd
    <3>7. ASSUME e = NoRecv PROVE x = NoRecv
      <4>1. x = [NoRecv EXCEPT !.entry = NoRecv.entry]
        BY <3>2, <3>7 DEF NoRecv
      <4>2. NoRecv = [i \in DOMAIN NoRecv |-> NoRecv[i]]
        BY Zenon DEF NoRecv
      <4> QED
        BY <4>1, <4>2, Zenon
    <3> QED
      BY <3>1, <3>3, <3>4, <3>5, <3>6, <3>7
  <2>4. snd' \in [Streams -> SendState] /\ rcv' \in [Streams -> RecvState] /\ credit' \in [Streams -> Nat]
    BY <2>1, <2>2, <2>3
  <2>5. Entries' \cup Flows' = {}
    <3>1. Streams' = Streams
      BY DEF Streams
    <3> QED
      BY <2>2, <2>3, <3>1 DEF Entries, Flows
  <2> QED
    BY <1>1, <1>3, <2>2, <2>3, <2>4, <2>5 DEF InOrder
<1> QED
  BY <1>2, <1>3

(* The loop is left with its tables in order. *)
LEMMA LeftStep ==
    ASSUME TypeOK, IInv, task = "run", task' = "closing", UNCHANGED <<setup, accept>>,
           next' \in [[local : BOOLEAN, bi : BOOLEAN] -> Nat],
           \A j \in Streams : Born(j) => Born(j)',
           InOrder(snd', rcv'), credit' \in [Streams -> Nat], chan' \in Channel,
           \A j \in Streams : ~Born(j)' => snd'[j] = NoSend /\ rcv'[j] = NoRecv,
           slot' \in Seq(Wire), Len(slot') <= 1, peer' \in PeerState,
           session' \in Sessions, session'.closed => Entries' \cup Flows' = {},
           hist' \in Histories, hist'.half = hist.half,
           hist'.accused \subseteq hist.half
    PROVE  TypeOK' /\ IInv'
<1>1. /\ Streams' = Streams /\ Wire' = Wire /\ PeerState' = PeerState
      /\ Histories' = Histories /\ Channel' = Channel
  BY SameTypes
<1>2. TypeOK'
  BY <1>1 DEF TypeOK, InOrder
<1>3. Unborn'
  <2>1. \A b \in BOOLEAN : \A i \in DOMAIN accept[b] : accept[b][i] \in Streams
    BY DEF TypeOK
  <2> QED
    BY <1>1, <2>1 DEF IInv, Books, Unborn
<1>4. Reserving' /\ EndRead'
  BY <1>1 DEF Reserving, EndRead, InOrder
<1>5. Ending' /\ HonestPeerTrusted'
  BY DEF Ending, IInv, Books, HonestPeerTrusted
<1> QED
  BY <1>2, <1>3, <1>4, <1>5 DEF IInv, Books

LEMMA LeaveFacts ==
    ASSUME hist \in Histories, NEW blamed \in SUBSET Streams, Leave(blamed)
    PROVE  /\ task' = "closing" /\ hist' \in Histories /\ hist'.half = hist.half
           /\ hist'.accused = blamed
BY DEF Leave, Histories

(* A frame of the peer that ends the session through close_all. *)
LEMMA CloseAllStep ==
    ASSUME TypeOK, IInv, task = "run", UNCHANGED <<setup, accept, slot>>,
           NEW s, NEW r, InOrder(s, r), NEW ss \in Sessions, ss.closed = session.closed,
           CloseAll(s, r, ss),
           NEW blamed \in SUBSET Streams, Leave(blamed), blamed \subseteq hist.half,
           next' \in [[local : BOOLEAN, bi : BOOLEAN] -> Nat],
           \A j \in Streams : Born(j) => Born(j)',
           \A j \in Streams : ~Born(j)' => s[j] = NoSend /\ r[j] = NoRecv,
           chan' \in Channel, peer' \in PeerState
    PROVE  TypeOK' /\ IInv'
<1>1. /\ task' = "closing" /\ hist' \in Histories /\ hist'.half = hist.half /\ hist'.accused = blamed
  BY LeaveFacts DEF TypeOK
<1>2. /\ InOrder(snd', rcv') /\ credit' \in [Streams -> Nat] /\ session' \in Sessions
      /\ \A j \in Streams : /\ s[j] = NoSend => snd'[j] = NoSend
                            /\ r[j] = NoRecv => rcv'[j] = NoRecv
      /\ ~ss.closed => Entries' \cup Flows' = {}
  BY ClosedTables DEF TypeOK
<1>3. ~ss.closed
  BY DEF IInv, Books, Ending
<1>4. slot' \in Seq(Wire) /\ Len(slot') <= 1
  BY DEF TypeOK, IInv, Books
<1> QED
  BY <1>1, <1>2, <1>3, <1>4, LeftStep

LEMMA CloseChannel ==
    ASSUME NEW c \in Channel PROVE ConnectionClose(c) \in Channel
<1>1. Frame("close", NoId, 0) \in Wire
  BY DEF Frame, Wire, Frames
<1> QED
  BY <1>1, TrySendChannel DEF ConnectionClose

LEMMA TakenFacts ==
    ASSUME TypeOK, NEW ts, Incoming(ts), Taken
    PROVE  /\ task = "run" /\ peer' \in PeerState /\ peer.net # <<>> /\ peer'.net = Tail(peer.net)
           /\ Less(peer, peer') /\ Head(peer.net) \in Wire /\ Head(peer.net).t \in ts
           /\ 1 \in DOMAIN peer.net /\ Head(peer.net) = peer.net[1]
<1>1. task = "run" /\ peer.net # <<>> /\ Head(peer.net).t \in ts
  BY DEF Incoming
<1>2. PICK net \in Seq(Wire) : net = peer.net /\ net # <<>>
  BY <1>1 DEF TypeOK, PeerState
<1>3. peer \in PeerState /\ Tail(net) \in Seq(Wire)
  BY <1>2 DEF TypeOK
<1>4. peer' = [peer EXCEPT !.net = Tail(net)]
  BY <1>2 DEF Taken
<1>5. peer' \in PeerState
  BY <1>3, <1>4, Zenon DEF PeerState
<1>6. peer'.net = Tail(net) /\ Less(peer, peer')
  BY <1>3, <1>4 DEF PeerState, Less
<1>7. Head(net) \in Wire /\ 1 \in DOMAIN net /\ Head(net) = net[1]
  BY <1>2
<1> QED
  BY <1>1, <1>2, <1>5, <1>6, <1>7

LEMMA HandleCloseStep ==
    ASSUME TypeOK, IInv, HandleClose
    PROVE  TypeOK' /\ IInv'
<1>1. task = "run" /\ peer' \in PeerState
  BY TakenFacts DEF HandleClose
<1>2. /\ UNCHANGED <<setup, next, slot, accept, chan>>
      /\ CloseAll(snd, rcv, session) /\ Leave({})
  BY DEF HandleClose, HandleKeeps
<1>3. InOrder(snd, rcv)
  BY TablesInOrder DEF IInv
<1>4. /\ next' \in [[local : BOOLEAN, bi : BOOLEAN] -> Nat] /\ chan' \in Channel
      /\ session \in Sessions /\ \A j \in Streams : Born(j)' <=> Born(j)
  BY <1>2 DEF TypeOK, Born
<1>5. \A j \in Streams : ~Born(j)' => snd[j] = NoSend /\ rcv[j] = NoRecv
  BY <1>4 DEF IInv, Books, Unborn
<1> QED
  BY <1>1, <1>2, <1>3, <1>4, <1>5, CloseAllStep

(* The step of a handler that calls protocol_error. *)
LEMMA ProtocolErrorStep ==
    ASSUME TypeOK, IInv, task = "run", UNCHANGED HandleKeeps, peer' \in PeerState,
           NEW blamed \in SUBSET Streams, blamed \subseteq hist.half,
           ProtocolError(blamed, chan, snd, rcv)
    PROVE  TypeOK' /\ IInv'
<1>1. UNCHANGED <<setup, next, slot, accept>>
  BY DEF HandleKeeps
<1>2. /\ chan' = ConnectionClose(chan) /\ CloseAll(snd, rcv, session) /\ Leave(blamed)
  BY DEF ProtocolError
<1>3. InOrder(snd, rcv)
  BY TablesInOrder DEF IInv
<1>4. chan' \in Channel
  BY <1>2, CloseChannel DEF TypeOK
<1>5. /\ next' \in [[local : BOOLEAN, bi : BOOLEAN] -> Nat]
      /\ session \in Sessions /\ \A j \in Streams : Born(j)' <=> Born(j)
  BY <1>1 DEF TypeOK, Born
<1>6. \A j \in Streams : ~Born(j)' => snd[j] = NoSend /\ rcv[j] = NoRecv
  BY <1>5 DEF IInv, Books, Unborn
<1> QED
  BY <1>1, <1>2, <1>3, <1>4, <1>5, <1>6, CloseAllStep

-----------------------------------------------------------------------------
(* Frames of the peer that keep the loop running                           *)

(* The frame the loop takes, and what is left behind it. *)
LEMMA HeadFacts ==
    ASSUME setup \in Setups, NEW p \in PeerState, NEW q \in PeerState, NetFrames(p), p.net # <<>>,
           q.net = Tail(p.net), NEW f \in Wire, f = Head(p.net), f.t \notin {"open", "close"}
    PROVE  /\ f.id \in p.known /\ f.id \in Streams /\ Born(f.id)
           /\ f.t \in {"data", "fin"} => /\ RecvSide(f.id) /\ (f.t = "data" => f.n > 0)
                                         /\ f.id \notin hist.half => rcv[f.id].entry # "none"
           /\ f.t \in {"fin", "reset"} => /\ RecvSide(f.id) /\ f.id \in p.outEnd
                                          /\ ~On(q.net, f.id, {"data", "fin"})
           /\ f.t \in {"stop", "max"} => SendSide(f.id)
           /\ f.t = "max" => f.n <= p.granted[f.id]
<1>1. PICK net \in Seq(Wire) : net = p.net /\ net # <<>>
  BY DEF PeerState
<1>2. 1 \in DOMAIN p.net /\ f = p.net[1]
  BY <1>1
<1>3. NetFrame(p, 1) /\ f.id \in Streams
  BY <1>2 DEF NetFrames, Wire
<1>4. ~Before(p.net, 1, f.id, {"open"})
  BY NothingBefore
<1>5. ASSUME f.t \in {"fin", "reset"} PROVE ~On(q.net, f.id, {"data", "fin"})
  <2>1. SUFFICES ASSUME NEW i \in DOMAIN q.net, q.net[i].id = f.id, q.net[i].t \in {"data", "fin"}
                 PROVE  FALSE
    BY DEF On
  <2>2. i + 1 \in DOMAIN p.net /\ q.net[i] = p.net[i + 1]
    BY NetTail
  <2>3. ~Before(p.net, i + 1, f.id, {"fin", "reset"})
    BY <2>1, <2>2 DEF NetFrames, NetFrame
  <2>4. i \in Nat /\ i > 0
    <3>1. q.net \in Seq(Wire)
      BY DEF PeerState
    <3> QED
      BY <3>1
  <2>5. 1 \in 1..((i + 1) - 1)
    BY <2>4
  <2> QED
    BY <1>2, <1>5, <2>3, <2>5 DEF Before
<1> QED
  BY <1>2, <1>3, <1>4, <1>5 DEF NetFrame

(* What a handler keeps in order when it leaves the session alone. *)
LEMMA HandledBooks ==
    ASSUME TypeOK, Books, task = "run", UNCHANGED <<HandleKeeps, credit, session, task, hist>>,
           InOrder(snd', rcv'), chan' \in Channel, peer' \in PeerState,
           \A j \in Streams : ~Born(j) => snd'[j] = snd[j] /\ rcv'[j] = rcv[j]
    PROVE  TypeOK' /\ Books' /\ Streams' = Streams
<1>1. UNCHANGED <<setup, next, slot, accept>>
  BY DEF HandleKeeps
<1>2. /\ Streams' = Streams /\ Wire' = Wire /\ PeerState' = PeerState
      /\ Histories' = Histories /\ Channel' = Channel
  BY <1>1, SameTypes
<1>3. TypeOK'
  BY <1>1, <1>2 DEF TypeOK, InOrder
<1>4. Unborn'
  <2>1. \A j : Born(j)' <=> Born(j)
    BY <1>1 DEF Born
  <2> QED
    BY <1>1, <1>2, <2>1 DEF Books, Unborn
<1>5. Reserving' /\ EndRead'
  BY <1>2 DEF Reserving, EndRead, InOrder
<1>6. Ending' /\ HonestPeerTrusted' /\ Len(slot') <= 1
  BY <1>1 DEF Books, Ending, HonestPeerTrusted
<1> QED
  BY <1>2, <1>3, <1>4, <1>5, <1>6 DEF Books

(* The link without the frame that was taken. *)
LEMMA TakenLink ==
    ASSUME TypeOK, IInv, NEW ts, Incoming(ts), Taken, "open" \notin ts, "close" \notin ts
    PROVE  \E p \in PeerState, q \in PeerState, out \in Seq(Wire), f \in Wire :
              /\ p = peer /\ q = peer' /\ out = Outgoing /\ f = Head(p.net) /\ f.t \in ts
              /\ p.net # <<>> /\ q.net = Tail(p.net) /\ Less(p, q)
              /\ Link(p, out) /\ NetFrames(q) /\ Openings(q)
<1>1. /\ task = "run" /\ peer' \in PeerState /\ peer.net # <<>> /\ peer'.net = Tail(peer.net)
      /\ Less(peer, peer') /\ Head(peer.net) \in Wire /\ Head(peer.net).t \in ts
  BY TakenFacts
<1>2. peer \in PeerState /\ Outgoing \in Seq(Wire) /\ Link(peer, Outgoing)
  BY <1>1 DEF IInv, TypeOK, Outgoing, Channel
<1>3. PICK p \in PeerState, out \in Seq(Wire) : p = peer /\ out = Outgoing
  BY <1>2
<1>4. PICK q \in PeerState : q = peer'
  BY <1>1
<1>5. PICK f \in Wire : f = Head(p.net)
  BY <1>1, <1>3
<1>6. /\ p.net # <<>> /\ q.net = Tail(p.net) /\ Less(p, q) /\ f.t \in ts /\ Link(p, out)
  BY <1>1, <1>2, <1>3, <1>4, <1>5
<1>7. /\ f.t # "open" /\ q.known = p.known /\ q.outEnd = p.outEnd /\ q.granted = p.granted
      /\ NetFrames(p) /\ Openings(p)
  BY <1>6 DEF Less, Link
<1>8. NetFrames(q)
  BY <1>5, <1>6, <1>7, NetFramesTail
<1>9. Openings(q)
  BY <1>5, <1>6, <1>7, OpeningsTail
<1> QED
  BY <1>3, <1>4, <1>5, <1>6, <1>8, <1>9

(* What a handler may do to a stream when it keeps the loop running. *)
Handled(q, j) ==
    /\ snd'[j].sent = snd[j].sent /\ snd'[j].grant = snd[j].grant
    /\ snd'[j].handle = snd[j].handle /\ snd'[j].finished = snd[j].finished
    /\ snd'[j].flow = "open" => snd[j].flow = "open"
    /\ snd'[j].max = snd[j].max \/ snd'[j].max <= q.granted[j]
    /\ rcv'[j].granted = rcv[j].granted
    /\ rcv'[j].handle = rcv[j].handle /\ rcv'[j].stopSent = rcv[j].stopSent
    /\ rcv'[j].entry # "none" => rcv[j].entry # "none"
    /\ rcv[j].entry # "none" =>
          \/ rcv'[j].entry # "none"
          \/ j \in q.known /\ j \in q.outEnd /\ ~On(q.net, j, {"data", "fin"})

LEMMA HandledLink ==
    ASSUME TypeOK, NEW p \in PeerState, NEW q \in PeerState, NEW out \in Seq(Wire),
           Link(p, out), Less(p, q),
           UNCHANGED <<HandleKeeps, credit, session, hist>>, \A j \in Streams : Handled(q, j),
           NEW out2, \A j, ts : On(out, j, ts) => On(out2, j, ts)
    PROVE  /\ Quiet(q) /\ (~session'.started => Told(q, out2)')
           /\ \A j \in Streams : snd[j].sent - snd[j].grant <= snd'[j].sent - snd'[j].grant
<1>1. UNCHANGED <<setup, next, slot, accept>>
  BY DEF HandleKeeps
<1>2. \A j \in Streams : /\ rcv[j].granted \in Nat /\ credit[j] <= rcv[j].granted
                         /\ snd[j].sent \in Nat /\ snd[j].grant \in Nat
  BY DEF TypeOK, RecvState, SendState, Link, PeerCredit
<1>3. Quiet(q)
  BY <1>1, <1>2 DEF Quiet, Handled
<1>4. ASSUME ~session'.started PROVE Told(q, out2)'
  <2>1. Told(q, out)
    BY <1>4, ToldPeer DEF Link, Less
  <2>2. \A j \in Streams :
           /\ snd'[j].handle = "dropped" \/ snd'[j].finished =>
                 snd[j].handle = "dropped" \/ snd[j].finished
           /\ rcv'[j].entry # "none" /\ (rcv'[j].handle = "dropped" \/ rcv'[j].stopSent) =>
                 rcv[j].entry # "none" /\ (rcv[j].handle = "dropped" \/ rcv[j].stopSent)
    BY DEF Handled
  <2>3. hist.failed \subseteq hist'.failed /\ hist.stopFailed \subseteq hist'.stopFailed
    OBVIOUS
  <2> QED
    BY <1>1, <2>1, <2>2, <2>3, ToldStep
<1>5. \A j \in Streams : snd[j].sent - snd[j].grant <= snd'[j].sent - snd'[j].grant
  BY <1>2 DEF Handled
<1> QED
  BY <1>3, <1>4, <1>5

(* A handler that queues nothing. *)
LEMMA HandledKept ==
    ASSUME TypeOK, IInv, task = "run", NEW p \in PeerState, NEW q \in PeerState, NEW out \in Seq(Wire),
           q = peer', out = Outgoing, Link(p, out), Less(p, q), NetFrames(q), Openings(q),
           UNCHANGED <<HandleKeeps, credit, session, task, hist, chan>>, InOrder(snd', rcv'),
           \A j \in Streams : Handled(q, j) /\ Counted(q, j)',
           \A j \in Streams : ~Born(j) => snd'[j] = snd[j] /\ rcv'[j] = rcv[j]
    PROVE  TypeOK' /\ IInv'
<1>1. TypeOK' /\ Books' /\ Streams' = Streams
  BY HandledBooks DEF IInv, TypeOK
<1>2. /\ Quiet(q) /\ (~session'.started => Told(q, out)')
      /\ \A j \in Streams : snd[j].sent - snd[j].grant <= snd'[j].sent - snd'[j].grant
  BY HandledLink
<1>3. Link(q, out)'
  BY <1>1, <1>2, LinkKept
<1>4. Outgoing' = out /\ task' = "run"
  BY DEF Outgoing, HandleKeeps
<1> QED
  BY <1>1, <1>3, <1>4, LinkNow DEF IInv

(* A handler that queues the RESET of a stream. *)
LEMMA HandledReset ==
    ASSUME TypeOK, IInv, task = "run", NEW p \in PeerState, NEW q \in PeerState, NEW out \in Seq(Wire),
           q = peer', out = Outgoing, Link(p, out), Less(p, q), NetFrames(q), Openings(q),
           UNCHANGED <<HandleKeeps, credit, session, task, hist>>, InOrder(snd', rcv'),
           NEW f \in Wire, f.t = "reset", Born(f.id), snd'[f.id].flow # "open",
           chan' \in Channel, chan'.q = Append(chan.q, f),
           \A j \in Streams : Handled(q, j) /\ Counted(q, j)',
           \A j \in Streams : ~Born(j) => snd'[j] = snd[j] /\ rcv'[j] = rcv[j]
    PROVE  TypeOK' /\ IInv'
<1>1. TypeOK' /\ Books' /\ Streams' = Streams
  BY HandledBooks DEF IInv
<1>2. \A j, ts : On(Append(out, f), j, ts) <=> On(out, j, ts) \/ (f.id = j /\ f.t \in ts)
  BY OnAppend
<1>3. /\ Quiet(q) /\ (~session'.started => Told(q, Append(out, f))')
      /\ \A j \in Streams : snd[j].sent - snd[j].grant <= snd'[j].sent - snd'[j].grant
  BY <1>2, HandledLink
<1>4. NewOut(q, out, f)'
  <2>1. Born(f.id)'
    BY DEF HandleKeeps, Born
  <2> QED
    BY <2>1 DEF NewOut
<1>5. \A j \in Streams :
         snd[j].sent - snd[j].grant + (IF f.t = "data" /\ f.id = j THEN f.n ELSE 0)
            <= snd'[j].sent - snd'[j].grant
  <2>1. \A j \in Streams : snd[j].sent \in Nat /\ snd[j].grant \in Nat
    BY DEF TypeOK, SendState
  <2> QED
    BY <1>3, <2>1
<1>6. Link(q, Append(out, f))'
  BY <1>1, <1>3, <1>4, <1>5, LinkPush
<1>7. Outgoing' = Append(out, f) /\ task' = "run"
  <2>1. slot \in Seq(Wire) /\ chan.q \in Seq(Wire) /\ slot' = slot /\ task' = task
    BY DEF HandleKeeps, TypeOK, Channel
  <2>2. slot \o Append(chan.q, f) = Append(slot \o chan.q, f)
    BY <2>1, OutgoingPushed
  <2> QED
    BY <2>1, <2>2 DEF Outgoing
<1> QED
  BY <1>1, <1>6, <1>7, LinkNow DEF IInv

(* What is counted of the other frames: nothing. *)
LEMMA CountedControl ==
    ASSUME TypeOK, NEW p \in PeerState, NEW q \in PeerState, p.net # <<>>, q.net = Tail(p.net),
           Less(p, q), PeerCredit(p), Head(p.net).t \notin {"data", "fin"},
           \A j \in Streams : rcv'[j].received = rcv[j].received
    PROVE  \A j \in Streams : Counted(q, j)'
<1>1. SUFFICES ASSUME NEW j \in Streams PROVE Counted(q, j)'
  OBVIOUS
<1>2. Payload(Head(p.net), j) = 0 /\ rcv[j].received \in Nat
  BY DEF Payload, TypeOK, RecvState
<1>3. rcv'[j].received = rcv[j].received + Payload(Head(p.net), j)
  BY <1>2
<1> QED
  BY <1>3, CountedTail DEF Less, PeerCredit

LEMMA UpdateMaxFacts ==
    ASSUME NEW s \in SendState, Reserves(s), NEW n \in Nat, NEW t, t = UpdateMax(s, n)
    PROVE  /\ t \in SendState /\ Reserves(t) /\ t.flow = s.flow /\ t.sent = s.sent
           /\ t.grant = s.grant /\ t.handle = s.handle /\ t.finished = s.finished
           /\ t.max = s.max \/ t.max <= n
<1>1. PICK m \in Nat : m = Max({s.max, n}) /\ m >= s.max /\ m >= n /\ m \in {s.max, n}
  BY MaxOfTwo DEF SendState
<1>2. t = [s EXCEPT !.max = m]
  BY <1>1 DEF UpdateMax
<1>3. t \in SendState
  BY <1>2, Zenon DEF SendState
<1>4. /\ t.flow = s.flow /\ t.sent = s.sent /\ t.grant = s.grant /\ t.handle = s.handle
      /\ t.finished = s.finished /\ t.max = m /\ t.pc = s.pc /\ t.left = s.left
  BY <1>2 DEF SendState
<1>5. s.sent <= m
  BY <1>1 DEF Reserves, SendState
<1> QED
  BY <1>1, <1>3, <1>4, <1>5 DEF Reserves

LEMMA HandleMaxStep ==
    ASSUME TypeOK, IInv, HandleMax
    PROVE  TypeOK' /\ IInv'
<1>1. PICK p \in PeerState, q \in PeerState, out \in Seq(Wire), f \in Wire :
         /\ p = peer /\ q = peer' /\ out = Outgoing /\ f = Head(p.net) /\ f.t = "max"
         /\ p.net # <<>> /\ q.net = Tail(p.net) /\ Less(p, q)
         /\ Link(p, out) /\ NetFrames(q) /\ Openings(q)
  BY TakenLink DEF HandleMax
<1>2. /\ task = "run" /\ UNCHANGED <<HandleKeeps, rcv, chan, credit, session, task, hist>>
      /\ snd' = IF f.id \in Flows THEN [snd EXCEPT ![f.id] = UpdateMax(@, f.n)] ELSE snd
  BY <1>1 DEF HandleMax, Incoming
<1>3. f.id \in Streams /\ Born(f.id) /\ f.n <= p.granted[f.id] /\ f.n \in Nat
  BY <1>1, HeadFacts DEF Link, TypeOK, Wire, Frames
<1>4. InOrder(snd, rcv)
  BY TablesInOrder DEF IInv
<1>5. PICK t : t = UpdateMax(snd[f.id], f.n)
  OBVIOUS
<1>6. /\ t \in SendState /\ Reserves(t) /\ t.flow = snd[f.id].flow /\ t.sent = snd[f.id].sent
      /\ t.grant = snd[f.id].grant /\ t.handle = snd[f.id].handle
      /\ t.finished = snd[f.id].finished /\ (t.max = snd[f.id].max \/ t.max <= f.n)
  BY <1>3, <1>4, <1>5, UpdateMaxFacts DEF InOrder
<1>7. \A j \in Streams : snd'[j] = snd[j] \/ (j = f.id /\ snd'[j] = t)
  BY <1>2, <1>3, <1>5 DEF TypeOK
<1>8. snd' \in [Streams -> SendState]
  BY <1>2, <1>3, <1>5, <1>6 DEF TypeOK
<1>9. InOrder(snd', rcv')
  BY <1>2, <1>4, <1>6, <1>7, <1>8 DEF InOrder
<1>10. \A j \in Streams : Handled(q, j)
  <2>1. t.max = snd[f.id].max \/ t.max <= q.granted[f.id]
    <3>1. t.max \in Nat /\ p.granted[f.id] \in Nat /\ q.granted = p.granted
      BY <1>1, <1>3, <1>6 DEF SendState, PeerState, Less
    <3> QED
      BY <1>3, <1>6, <3>1
  <2> QED
    BY <1>2, <1>6, <1>7, <2>1 DEF Handled
<1>11. \A j \in Streams : Counted(q, j)'
  BY <1>1, <1>2, CountedControl DEF Link
<1>12. \A j \in Streams : ~Born(j) => snd'[j] = snd[j] /\ rcv'[j] = rcv[j]
  BY <1>2, <1>3, <1>7
<1> QED
  BY <1>1, <1>2, <1>9, <1>10, <1>11, <1>12, HandledKept

LEMMA HandleResetStep ==
    ASSUME TypeOK, IInv, HandleReset
    PROVE  TypeOK' /\ IInv'
<1>1. PICK p \in PeerState, q \in PeerState, out \in Seq(Wire), f \in Wire :
         /\ p = peer /\ q = peer' /\ out = Outgoing /\ f = Head(p.net) /\ f.t = "reset"
         /\ p.net # <<>> /\ q.net = Tail(p.net) /\ Less(p, q)
         /\ Link(p, out) /\ NetFrames(q) /\ Openings(q)
  BY TakenLink DEF HandleReset
<1>2. /\ f.id \in p.known /\ f.id \in Streams /\ Born(f.id) /\ RecvSide(f.id)
      /\ f.id \in p.outEnd /\ ~On(q.net, f.id, {"data", "fin"})
  BY <1>1, HeadFacts DEF Link, TypeOK
<1>3. IsRetired(f.id, TRUE)
  <2>1. f.id.local \in BOOLEAN
    BY <1>2, StreamIds DEF TypeOK
  <2> QED
    BY <1>2, <2>1 DEF IsRetired, RecvSide, Born
<1>4. /\ task = "run" /\ UNCHANGED <<HandleKeeps, snd, chan, credit, session, task, hist>>
      /\ rcv' = [rcv EXCEPT ![f.id].entry = "none"]
  BY <1>1, <1>3 DEF HandleReset, Incoming, Unharmed
<1>5. InOrder(snd, rcv)
  BY TablesInOrder DEF IInv
<1>6. PICK e \in RecvState : e = rcv[f.id] /\ ReadsToEnd(e)
  BY <1>2, <1>5 DEF InOrder
<1>7. PICK r : r = [e EXCEPT !.entry = "none"]
  OBVIOUS
<1>8. r \in RecvState
  BY <1>7, Zenon DEF RecvState
<1>9. /\ r.entry = "none" /\ r.ev = e.ev /\ r.granted = e.granted /\ r.received = e.received
      /\ r.handle = e.handle /\ r.stopSent = e.stopSent
  BY <1>7 DEF RecvState
<1>10. ReadsToEnd(r)
  BY <1>6, <1>9 DEF ReadsToEnd
<1>11. rcv' = [rcv EXCEPT ![f.id] = r]
  BY <1>2, <1>4, <1>6, <1>7, Zenon
<1>12. /\ rcv' \in [Streams -> RecvState]
       /\ \A j \in Streams : rcv'[j] = IF j = f.id THEN r ELSE rcv[j]
  BY <1>8, <1>11 DEF TypeOK
<1>13. InOrder(snd', rcv')
  BY <1>4, <1>5, <1>10, <1>12 DEF InOrder
<1>14. \A j \in Streams : Handled(q, j)
  BY <1>1, <1>2, <1>4, <1>6, <1>9, <1>12 DEF Handled, Less
<1>15. \A j \in Streams : Counted(q, j)'
  BY <1>1, <1>6, <1>9, <1>12, CountedControl DEF Link
<1>16. \A j \in Streams : ~Born(j) => snd'[j] = snd[j] /\ rcv'[j] = rcv[j]
  BY <1>2, <1>4, <1>12
<1> QED
  BY <1>1, <1>4, <1>13, <1>14, <1>15, <1>16, HandledKept

LEMMA HandleStopStep ==
    ASSUME TypeOK, IInv, HandleStop
    PROVE  TypeOK' /\ IInv'
<1>1. PICK p \in PeerState, q \in PeerState, out \in Seq(Wire), f \in Wire :
         /\ p = peer /\ q = peer' /\ out = Outgoing /\ f = Head(p.net) /\ f.t = "stop"
         /\ p.net # <<>> /\ q.net = Tail(p.net) /\ Less(p, q)
         /\ Link(p, out) /\ NetFrames(q) /\ Openings(q)
  BY TakenLink DEF HandleStop
<1>2. f.id \in p.known /\ f.id \in Streams /\ Born(f.id) /\ SendSide(f.id)
  BY <1>1, HeadFacts DEF Link, TypeOK
<1>3. IsRetired(f.id, FALSE)
  <2>1. f.id.local \in BOOLEAN
    BY <1>2, StreamIds DEF TypeOK
  <2> QED
    BY <1>2, <2>1 DEF IsRetired, SendSide, Born
<1>4. task = "run" /\ UNCHANGED HandleKeeps /\ q = peer' /\ setup \in Setups /\ chan \in Channel
  BY <1>1 DEF HandleStop, Incoming, TypeOK
<1>5. InOrder(snd, rcv)
  BY TablesInOrder DEF IInv
<1>6. CASE f.id \notin Flows
  <2>1. UNCHANGED <<snd, rcv, chan, credit, session, task, hist>>
    BY <1>1, <1>3, <1>6 DEF HandleStop, Unharmed
  <2>2. \A j \in Streams : Handled(q, j)
    BY <2>1 DEF Handled
  <2>3. \A j \in Streams : Counted(q, j)'
    BY <1>1, <2>1, CountedControl DEF Link
  <2> QED
    BY <1>1, <1>4, <1>5, <2>1, <2>2, <2>3, HandledKept
<1>7. CASE f.id \in Flows
  <2>1. /\ snd' = Dropped(snd, f.id, RemoveFlow) /\ chan' = TrySend(chan, Frame("reset", f.id, 0))
        /\ IF CanSend(chan, Ctl) THEN UNCHANGED <<task, hist>> ELSE Leave({})
        /\ UNCHANGED <<rcv, credit, session>>
    BY <1>1, <1>7 DEF HandleStop
  <2>2. PICK s \in SendState : s = snd[f.id] /\ Reserves(s)
    BY <1>2, <1>5 DEF InOrder
  <2>3. PICK t : t = RemoveFlow(s)
    OBVIOUS
  <2>4. EndedSend(s, t) /\ t.flow # "open" /\ t.handle = s.handle /\ t.finished = s.finished
    BY <2>2, <2>3, 1 \in 1..2, EndingSends
  <2>5. snd' = [snd EXCEPT ![f.id] = t]
    BY <2>1, <2>2, <2>3 DEF Dropped
  <2>6. /\ snd' \in [Streams -> SendState]
        /\ \A j \in Streams : snd'[j] = IF j = f.id THEN t ELSE snd[j]
    BY <2>4, <2>5 DEF TypeOK, EndedSend
  <2>7. InOrder(snd', rcv')
    BY <1>5, <2>1, <2>4, <2>6 DEF InOrder, EndedSend
  <2>8. PICK g \in Wire : g = Frame("reset", f.id, 0) /\ g.t = "reset" /\ g.id = f.id
    <3>1. Frame("reset", f.id, 0) \in Wire
      BY <1>2, <1>4, FrameWire
    <3> QED
      BY <3>1 DEF Frame
  <2>9. chan' \in Channel /\ (CanSend(chan, Ctl) => chan'.q = Append(chan.q, g))
    BY <1>4, <2>1, <2>8, TrySendChannel
  <2>10. \A j \in Streams : ~Born(j) => snd'[j] = snd[j] /\ rcv'[j] = rcv[j]
    BY <1>2, <2>1, <2>6
  <2>11. CASE CanSend(chan, Ctl)
    <3>1. \A j \in Streams : Handled(q, j)
      BY <2>1, <2>2, <2>4, <2>6 DEF Handled, EndedSend
    <3>2. \A j \in Streams : Counted(q, j)'
      BY <1>1, <2>1, CountedControl DEF Link
    <3>3. UNCHANGED <<HandleKeeps, credit, session, task, hist>> /\ chan'.q = Append(chan.q, g)
      BY <1>4, <2>1, <2>9, <2>11
    <3>4. snd'[g.id].flow # "open" /\ Born(g.id)
      BY <1>2, <2>4, <2>6, <2>8
    <3> QED
      BY <1>1, <1>4, <2>7, <2>8, <2>9, <2>10, <3>1, <3>2, <3>3, <3>4, HandledReset
  <2>12. CASE ~CanSend(chan, Ctl)
    <3>1. /\ task' = "closing" /\ hist' \in Histories /\ hist'.half = hist.half
          /\ hist'.accused = {}
      BY <2>1, <2>12, LeaveFacts DEF TypeOK
    <3>2. UNCHANGED <<setup, next, slot, accept>> /\ \A j \in Streams : Born(j)' <=> Born(j)
      BY <1>4 DEF HandleKeeps, Born
    <3>3. \A j \in Streams : ~Born(j)' => snd'[j] = NoSend /\ rcv'[j] = NoRecv
      BY <2>10, <3>2 DEF IInv, Books, Unborn
    <3>4. /\ next' \in [[local : BOOLEAN, bi : BOOLEAN] -> Nat] /\ slot' \in Seq(Wire)
          /\ Len(slot') <= 1 /\ session' \in Sessions /\ credit' \in [Streams -> Nat]
          /\ ~session'.closed
      BY <1>4, <2>1, <3>2 DEF TypeOK, IInv, Books, Ending
    <3> QED
      BY <1>1, <1>4, <2>7, <2>9, <3>1, <3>2, <3>3, <3>4, LeftStep
  <2> QED
    BY <2>11, <2>12
<1> QED
  BY <1>6, <1>7

(* A Stream frame of an honest peer finds its entry and stays within the     *)
(* window, unless the open_bi of that stream has failed behind its OPEN.     *)
LEMMA HandleStreamStep ==
    ASSUME TypeOK, IInv, HandleStream
    PROVE  TypeOK' /\ IInv'
<1>1. PICK p \in PeerState, q \in PeerState, out \in Seq(Wire), f \in Wire :
         /\ p = peer /\ q = peer' /\ out = Outgoing /\ f = Head(p.net) /\ f.t \in {"data", "fin"}
         /\ p.net # <<>> /\ q.net = Tail(p.net) /\ Less(p, q)
         /\ Link(p, out) /\ NetFrames(q) /\ Openings(q)
  BY TakenLink DEF HandleStream
<1>2. /\ f.id \in p.known /\ f.id \in Streams /\ Born(f.id) /\ (f.t = "data" => f.n > 0)
      /\ f.id \notin hist.half => rcv[f.id].entry # "none"
      /\ f.t = "fin" => f.id \in p.outEnd /\ ~On(q.net, f.id, {"data", "fin"})
      /\ f.n \in Nat
  BY <1>1, HeadFacts DEF Link, TypeOK, Wire, Frames
<1>3. task = "run" /\ UNCHANGED HandleKeeps /\ peer' \in PeerState
  BY <1>1 DEF HandleStream, Incoming
<1>4. InOrder(snd, rcv)
  BY TablesInOrder DEF IInv
<1>5. PICK e \in RecvState : e = rcv[f.id] /\ ReadsToEnd(e)
  BY <1>2, <1>4 DEF InOrder
<1>6. e.received + f.n <= e.granted
  <2>1. rcv[f.id].received + Payload(f, f.id) <= p.sent[f.id]
    BY <1>1, <1>2, CountedHead DEF Link, PeerCredit
  <2>2. p.sent[f.id] <= p.credit[f.id] /\ p.credit[f.id] <= rcv[f.id].granted
    BY <1>1, <1>2 DEF Link, PeerCredit
  <2>3. /\ Payload(f, f.id) = f.n /\ p.sent[f.id] \in Nat /\ p.credit[f.id] \in Nat
        /\ e.received \in Nat /\ e.granted \in Nat
    BY <1>1, <1>2 DEF Payload, PeerState, RecvState
  <2> QED
    BY <1>2, <1>5, <2>1, <2>2, <2>3
<1> DEFINE kept == IF f.t = "fin" THEN "none" ELSE e.entry
           counted == [e EXCEPT !.received = @ + f.n, !.entry = kept]
<1>7. \/ f.id \in hist.half /\ ProtocolError({f.id}, chan, snd, rcv)
      \/ ProtocolError({}, chan, snd, rcv)
      \/ /\ e.entry # "none" /\ UNCHANGED <<snd, chan, credit, session, task, hist>>
         /\ \/ rcv' = [rcv EXCEPT ![f.id] = counted] /\ e.entry = "stopped"
            \/ rcv' = [rcv EXCEPT ![f.id] = [counted EXCEPT !.ev = Append(@, f)]]
  <2>1. ~(e.received + f.n > e.granted)
    BY <1>2, <1>5, <1>6 DEF RecvState
  <2> QED
    BY <1>1, <1>2, <1>5, <2>1 DEF HandleStream, Unharmed
<1>8. CASE f.id \in hist.half /\ ProtocolError({f.id}, chan, snd, rcv)
  <2>1. {f.id} \in SUBSET Streams /\ {f.id} \subseteq hist.half
    BY <1>2, <1>8
  <2> QED
    BY <1>3, <1>8, <2>1, ProtocolErrorStep
<1>9. CASE ProtocolError({}, chan, snd, rcv)
  BY <1>3, <1>9, ProtocolErrorStep
<1>10. CASE /\ e.entry # "none" /\ UNCHANGED <<snd, chan, credit, session, task, hist>>
            /\ \/ rcv' = [rcv EXCEPT ![f.id] = counted] /\ e.entry = "stopped"
               \/ rcv' = [rcv EXCEPT ![f.id] = [counted EXCEPT !.ev = Append(@, f)]]
  <2>1. /\ counted \in RecvState /\ counted.entry = kept /\ counted.received = e.received + f.n
        /\ counted.ev = e.ev /\ counted.granted = e.granted /\ counted.handle = e.handle
        /\ counted.stopSent = e.stopSent /\ counted.finished = e.finished
    <3>1. e.received + f.n \in Nat /\ kept \in {"none", "live", "stopped"}
      BY <1>2 DEF RecvState
    <3>2. counted \in RecvState
      <4> HIDE DEF kept
      <4> QED
        BY <3>1, Zenon DEF RecvState
    <3>3. /\ counted.entry = kept /\ counted.received = e.received + f.n
          /\ counted.ev = e.ev /\ counted.granted = e.granted /\ counted.handle = e.handle
          /\ counted.stopSent = e.stopSent /\ counted.finished = e.finished
      <4> HIDE DEF kept
      <4> QED
        BY DEF RecvState
    <3> QED
      BY <3>2, <3>3
  <2> HIDE DEF counted
  <2>2. PICK r : /\ rcv' = [rcv EXCEPT ![f.id] = r]
                 /\ r = counted \/ r = [counted EXCEPT !.ev = Append(@, f)]
    BY <1>10
  <2>3. /\ r \in RecvState /\ r.entry = kept /\ r.received = e.received + f.n
        /\ r.granted = e.granted /\ r.handle = e.handle
        /\ r.stopSent = e.stopSent /\ r.finished = e.finished
        /\ r.ev = e.ev \/ r.ev = Append(e.ev, f)
    <3>1. CASE r = counted
      BY <2>1, <3>1
    <3>2. CASE r = [counted EXCEPT !.ev = Append(@, f)]
      <4>1. Append(counted.ev, f) \in Events
        BY <2>1 DEF RecvState, Events, Wire
      <4>2. r = [counted EXCEPT !.ev = Append(counted.ev, f)]
        BY <2>1, <3>2 DEF RecvState
      <4>3. r \in RecvState
        BY <2>1, <4>1, <4>2, Zenon DEF RecvState
      <4> QED
        BY <2>1, <4>2, <4>3 DEF RecvState
    <3> QED
      BY <2>2, <3>1, <3>2
  <2>4. ReadsToEnd(r)
    <3>1. ~e.finished
      BY <1>5, <1>10 DEF ReadsToEnd
    <3>2. \A i \in DOMAIN e.ev : e.ev[i].t # "fin" /\ e.ev[i].n > 0
      BY <1>5, <1>10 DEF ReadsToEnd
    <3>3. \A i \in DOMAIN r.ev : (r.ev[i].t # "fin" /\ r.ev[i].n > 0) \/ r.ev[i] = f
      <4>1. PICK ev \in Events : ev = e.ev
        BY DEF RecvState
      <4>2. \A i \in DOMAIN Append(ev, f) : \/ i \in DOMAIN ev /\ Append(ev, f)[i] = ev[i]
                                            \/ Append(ev, f)[i] = f
        BY DEF Events
      <4> QED
        BY <2>3, <3>2, <4>1, <4>2
    <3>4. f.t = "fin" => kept = "none"
      OBVIOUS
    <3>5. f.t # "fin" => f.n > 0
      BY <1>1, <1>2
    <3> HIDE DEF kept
    <3>6. ~r.finished
      BY <2>3, <3>1
    <3>7. ASSUME NEW i \in DOMAIN r.ev
          PROVE  IF r.ev[i].t = "fin" THEN r.entry = "none" ELSE r.ev[i].n > 0
      BY <2>3, <3>3, <3>4, <3>5
    <3> QED
      BY <3>6, <3>7 DEF ReadsToEnd
  <2>5. /\ rcv' \in [Streams -> RecvState]
        /\ \A j \in Streams : rcv'[j] = IF j = f.id THEN r ELSE rcv[j]
    BY <2>2, <2>3 DEF TypeOK
  <2>6. InOrder(snd', rcv')
    BY <1>4, <1>10, <2>4, <2>5 DEF InOrder
  <2>7. \A j \in Streams : Handled(q, j)
    <3>1. snd' = snd /\ e.entry # "none" /\ q.known = p.known /\ q.outEnd = p.outEnd
      BY <1>1, <1>10 DEF Less
    <3>2. r.entry # "none" \/ (f.id \in q.known /\ f.id \in q.outEnd /\ ~On(q.net, f.id, {"data", "fin"}))
      BY <1>2, <2>3, <3>1
    <3> QED
      BY <1>5, <2>3, <2>5, <3>1, <3>2 DEF Handled
  <2>8. \A j \in Streams : Counted(q, j)'
    <3>1. SUFFICES ASSUME NEW j \in Streams PROVE Counted(q, j)'
      OBVIOUS
    <3>2. rcv[j].received \in Nat
      BY DEF TypeOK, RecvState
    <3>3. rcv'[j].received = rcv[j].received + Payload(f, j)
      BY <1>1, <1>5, <2>3, <2>5, <3>2 DEF Payload
    <3>4. Counted(p, j) /\ q.sent = p.sent
      BY <1>1 DEF Link, PeerCredit, Less
    <3> QED
      BY <1>1, <3>3, <3>4, CountedTail
  <2>9. \A j \in Streams : ~Born(j) => snd'[j] = snd[j] /\ rcv'[j] = rcv[j]
    BY <1>2, <1>10, <2>5
  <2> QED
    BY <1>1, <1>3, <1>10, <2>6, <2>7, <2>8, <2>9, HandledKept
<1> QED
  BY <1>7, <1>8, <1>9, <1>10

-----------------------------------------------------------------------------
(* HandleOpen                                                              *)

(* The frontier moves past the stream f opens: of those the peer knows, it  *)
(* alone is new, for the peer opens its streams in order.                   *)
LEMMA Birth ==
    ASSUME TypeOK, setup' = setup, NEW p \in PeerState, NEW q \in PeerState,
           NetFrames(p), Openings(p), p.net # <<>>, q.net = Tail(p.net),
           NEW f \in Wire, f = Head(p.net), f.t = "open"
    PROVE  /\ f.id \in Streams /\ f.id \in p.known /\ ~f.id.local /\ ~Born(f.id)
           /\ ValidPeerId(f.id)
           /\ next' = [next EXCEPT ![Key(f.id)] = f.id.n + 1] =>
                 /\ next' \in [[local : BOOLEAN, bi : BOOLEAN] -> Nat] /\ Born(f.id)'
                 /\ \A j \in Streams : Born(j) => Born(j)'
                 /\ \A j \in Streams : ~j.local /\ Born(j)' /\ ~Born(j) => j \in p.known
                 /\ \A j \in Streams : j.local => (Born(j)' <=> Born(j))
                 /\ \A j \in p.known : Born(j)' /\ ~Born(j) => j = f.id
                 /\ \A i \in DOMAIN q.net : q.net[i].t = "open" => ~Born(q.net[i].id)'
<1>1. PICK net \in Seq(Wire) : net = p.net /\ net # <<>>
  BY DEF PeerState
<1>2. 1 \in DOMAIN p.net /\ f = p.net[1]
  BY <1>1
<1>3. f.id \in Streams /\ f.id \in p.known /\ ~f.id.local /\ ~Born(f.id)
  BY <1>2 DEF NetFrames, NetFrame, Wire
<1>4. \A j \in Streams : j.n \in Nat /\ next[Key(j)] \in Nat
  BY KeyType DEF TypeOK
<1>5. ValidPeerId(f.id)
  BY <1>3, <1>4 DEF ValidPeerId, Born
<1>6. SUFFICES ASSUME next' = [next EXCEPT ![Key(f.id)] = f.id.n + 1]
               PROVE  /\ next' \in [[local : BOOLEAN, bi : BOOLEAN] -> Nat] /\ Born(f.id)'
                      /\ \A j \in Streams : Born(j) => Born(j)'
                      /\ \A j \in Streams : ~j.local /\ Born(j)' /\ ~Born(j) => j \in p.known
                      /\ \A j \in Streams : j.local => (Born(j)' <=> Born(j))
                      /\ \A j \in p.known : Born(j)' /\ ~Born(j) => j = f.id
                      /\ \A i \in DOMAIN q.net : q.net[i].t = "open" => ~Born(q.net[i].id)'
  BY <1>3, <1>5
<1>7. PICK n \in Nat : n = f.id.n + 1
  BY <1>3, <1>4
<1>8. /\ next' \in [[local : BOOLEAN, bi : BOOLEAN] -> Nat]
      /\ \A j \in Streams : Born(j)' <=> IF Key(j) = Key(f.id) THEN j.n < n ELSE Born(j)
  BY <1>3, <1>6, <1>7, FrontierMoves
<1>9. Born(f.id)'
  BY <1>3, <1>4, <1>7, <1>8
<1>10. \A j \in Streams : Born(j) => Born(j)'
  <2>1. SUFFICES ASSUME NEW j \in Streams, Born(j), Key(j) = Key(f.id) PROVE j.n < n
    BY <1>8
  <2> QED
    BY <1>3, <1>4, <1>7, <2>1 DEF Born
<1>11. \A j \in Streams : Born(j)' /\ ~Born(j) => Key(j) = Key(f.id) /\ j.n <= f.id.n
  BY <1>3, <1>4, <1>7, <1>8
<1>12. \A j \in Streams : ~j.local /\ Born(j)' /\ ~Born(j) => j \in p.known
  <2>1. SUFFICES ASSUME NEW j \in Streams, Key(j) = Key(f.id), j.n <= f.id.n PROVE j \in p.known
    BY <1>11
  <2>2. CASE j.n < f.id.n
    BY <1>3, <2>1, <2>2 DEF Openings
  <2>3. CASE j.n = f.id.n
    BY <1>3, <2>1, <2>3, SameId DEF TypeOK
  <2> QED
    BY <1>3, <1>4, <2>1, <2>2, <2>3
<1>13. \A j \in Streams : j.local => (Born(j)' <=> Born(j))
  BY <1>3, <1>8 DEF Key
<1>14. ASSUME NEW i \in DOMAIN q.net, q.net[i].t = "open", Key(q.net[i].id) = Key(f.id)
       PROVE  f.id.n < q.net[i].id.n
  <2>1. i + 1 \in DOMAIN p.net /\ q.net[i] = p.net[i + 1]
    BY NetTail
  <2>2. 1 \in 1..((i + 1) - 1)
    <3>1. q.net \in Seq(Wire)
      BY DEF PeerState
    <3> QED
      BY <3>1
  <2> QED
    BY <1>2, <1>14, <2>1, <2>2 DEF NetFrames, NetFrame
<1>15. \A i \in DOMAIN q.net : q.net[i].t = "open" => ~Born(q.net[i].id)'
  <2>1. SUFFICES ASSUME NEW i \in DOMAIN q.net, q.net[i].t = "open" PROVE ~Born(q.net[i].id)'
    OBVIOUS
  <2>2. i + 1 \in DOMAIN p.net /\ q.net[i] = p.net[i + 1] /\ p.net[i + 1] \in Wire
    BY NetTail DEF PeerState
  <2>3. PICK j \in Streams : j = q.net[i].id
    BY <2>1, <2>2 DEF Wire
  <2>4. ~Born(j)
    BY <2>1, <2>2, <2>3 DEF NetFrames, NetFrame
  <2>5. Key(j) = Key(f.id) => f.id.n < j.n
    BY <1>14, <2>1, <2>3
  <2>6. f.id.n \in Nat /\ j.n \in Nat
    BY <1>3, <1>4
  <2>7. ~Born(j)'
    BY <1>7, <1>8, <2>4, <2>5, <2>6
  <2> QED
    BY <2>3, <2>7
<1>16. ASSUME NEW j \in p.known, Born(j)', ~Born(j) PROVE j = f.id
  <2>1. j \in Streams /\ On(p.net, j, {"open"})
    BY <1>16 DEF Openings, PeerState
  <2>2. On(q.net, j, {"open"}) \/ f.id = j
    <3>1. p.net \in Seq(Wire)
      BY DEF PeerState
    <3>2. On(p.net, j, {"open"}) <=> On(Tail(p.net), j, {"open"}) \/ (Head(p.net).id = j /\ Head(p.net).t \in {"open"})
      BY <3>1, OnTail
    <3> QED
      BY <2>1, <3>2
  <2>3. ~On(q.net, j, {"open"})
    BY <1>15, <1>16 DEF On
  <2> QED
    BY <2>2, <2>3
<1> QED
  BY <1>8, <1>9, <1>10, <1>12, <1>13, <1>15, <1>16

(* The tables with the stream f opens, and what the peer sees of it. *)
NetOpened(id) ==
    \A j \in Streams :
       /\ snd'[j].max = snd[j].max /\ snd'[j].sent = snd[j].sent /\ snd'[j].grant = snd[j].grant
       /\ snd'[j].finished = snd[j].finished
       /\ snd'[j].handle = "dropped" => snd[j].handle = "dropped"
       /\ snd'[j].flow = "open" => snd[j].flow = "open" \/ j = id
       /\ rcv'[j].received = rcv[j].received /\ rcv'[j].granted = rcv[j].granted
       /\ rcv'[j].stopSent = rcv[j].stopSent
       /\ rcv'[j].handle = "dropped" => rcv[j].handle = "dropped"
       /\ rcv'[j].entry = IF j = id THEN "live" ELSE rcv[j].entry

(* A stream of the peer is opened: the frames of the peer that are left. *)
LEMMA NetOpenedFrames ==
    ASSUME TypeOK, setup' = setup, hist' = hist, NEW p \in PeerState, NEW q \in PeerState,
           NetFrames(p), Openings(p), p.net # <<>>, q.net = Tail(p.net), Less(p, q),
           NEW f \in Wire, f = Head(p.net), f.t = "open",
           next' = [next EXCEPT ![Key(f.id)] = f.id.n + 1], NetOpened(f.id)
    PROVE  NetFrames(q)' /\ Openings(q)'
<1>1. /\ f.id \in Streams /\ f.id \in p.known /\ ~f.id.local /\ ~Born(f.id) /\ Born(f.id)'
      /\ \A j \in Streams : Born(j) => Born(j)'
      /\ \A j \in Streams : ~j.local /\ Born(j)' /\ ~Born(j) => j \in p.known
      /\ \A j \in p.known : Born(j)' /\ ~Born(j) => j = f.id
      /\ \A i \in DOMAIN q.net : q.net[i].t = "open" => ~Born(q.net[i].id)'
  BY Birth
<1>2. q.known = p.known /\ q.outEnd = p.outEnd /\ q.granted = p.granted /\ Streams' = Streams
  BY DEF Less, Streams
<1>3. \A j \in p.known : j \notin hist.half /\ RecvSide(j) /\ Born(j)' /\ ~Born(j) => rcv'[j].entry # "none"
  BY <1>1 DEF NetOpened
<1>4. \A j \in Streams : rcv[j].entry # "none" => rcv'[j].entry # "none"
  BY DEF NetOpened
<1>5. ASSUME NEW i \in DOMAIN q.net PROVE NetFrame(q, i)'
  <2>1. /\ i + 1 \in DOMAIN p.net /\ q.net[i] = p.net[i + 1]
        /\ \A j \in 1..(i - 1) : j + 1 \in 1..((i + 1) - 1) /\ q.net[j] = p.net[j + 1]
        /\ \A id : /\ Before(p.net, i + 1, id, {"open"}) <=>
                        \/ Before(q.net, i, id, {"open"})
                        \/ Head(p.net).id = id /\ Head(p.net).t = "open"
                   /\ Before(q.net, i, id, {"fin", "reset"}) =>
                        Before(p.net, i + 1, id, {"fin", "reset"})
    BY NetTail
  <2>2. PICK g \in Wire : g = q.net[i]
    BY DEF PeerState
  <2>3. NetFrame(p, i + 1)
    BY <2>1 DEF NetFrames
  <2>4. g.t # "close" => g.id \in p.known /\ g.id \in Streams
    BY <2>1, <2>2, <2>3 DEF NetFrame, Wire
  <2>5. g.t = "open" => /\ ~g.id.local /\ ~Born(g.id)'
                        /\ \A j \in 1..(i - 1) : q.net[j].t = "open" /\ Key(q.net[j].id) = Key(g.id)
                              => q.net[j].id.n < g.id.n
    BY <1>1, <2>1, <2>2, <2>3 DEF NetFrame
  <2>6. g.t \notin {"open", "close"} /\ ~Born(g.id)' => Before(q.net, i, g.id, {"open"})
    BY <1>1, <2>1, <2>2, <2>3, <2>4 DEF NetFrame
  <2>7. g.t \in {"data", "fin"} => /\ RecvSide(g.id) /\ ~Before(q.net, i, g.id, {"fin", "reset"})
                                   /\ g.t = "data" => g.n > 0
                                   /\ g.id \notin hist.half /\ Born(g.id)' => rcv'[g.id].entry # "none"
    BY <1>3, <1>4, <2>1, <2>2, <2>3, <2>4 DEF NetFrame
  <2>8. /\ g.t \in {"fin", "reset"} => RecvSide(g.id) /\ g.id \in q.outEnd
        /\ g.t \in {"stop", "max"} => SendSide(g.id)
        /\ g.t = "max" => g.n <= q.granted[g.id]
    BY <1>2, <2>1, <2>2, <2>3 DEF NetFrame
  <2> QED
    BY <1>2, <2>2, <2>4, <2>5, <2>6, <2>7, <2>8 DEF NetFrame
<1>6. NetFrames(q)'
  BY <1>5 DEF NetFrames
<1>7. Openings(q)'
  <2>1. \A id \in q.known : \A j \in Streams :
           ~id.local /\ Key(j) = Key(id) /\ j.n < id.n => j \in q.known
    BY <1>2 DEF Openings
  <2>2. \A id \in Streams : ~id.local /\ Born(id)' => id \in q.known
    BY <1>1, <1>2 DEF Openings
  <2>3. ASSUME NEW id \in q.known, ~Born(id)' PROVE ~id.local /\ On(q.net, id, {"open"})
    <3>1. id \in Streams /\ ~Born(id) /\ id # f.id
      BY <1>1, <2>3 DEF PeerState
    <3>2. ~id.local /\ On(p.net, id, {"open"})
      BY <1>2, <3>1 DEF Openings
    <3>3. p.net \in Seq(Wire)
      BY DEF PeerState
    <3>4. On(p.net, id, {"open"}) <=> On(Tail(p.net), id, {"open"}) \/ (Head(p.net).id = id /\ Head(p.net).t \in {"open"})
      BY <3>3, OnTail
    <3> QED
      BY <3>1, <3>2, <3>4
  <2>4. ASSUME NEW id \in q.known \ q.outEnd, id \notin hist.half, RecvSide(id), Born(id)'
        PROVE  rcv'[id].entry # "none"
    <3>1. id \in Streams
      BY DEF PeerState
    <3>2. Born(id) => rcv[id].entry # "none"
      BY <1>2, <2>4 DEF Openings
    <3> QED
      BY <1>2, <1>3, <1>4, <2>4, <3>1, <3>2
  <2> QED
    BY <1>2, <2>1, <2>2, <2>3, <2>4 DEF Openings
<1> QED
  BY <1>6, <1>7

(* A stream of the peer is opened: the whole link. *)
LEMMA NetOpenedLink ==
    ASSUME TypeOK, TypeOK', UNCHANGED <<setup, credit, session, hist>>,
           NEW p \in PeerState, NEW q \in PeerState, NEW out \in Seq(Wire), Link(p, out),
           p.net # <<>>, q.net = Tail(p.net), Less(p, q), NEW f \in Wire, f = Head(p.net),
           f.t = "open", next' = [next EXCEPT ![Key(f.id)] = f.id.n + 1], NetOpened(f.id),
           rcv[f.id] = NoRecv, rcv'[f.id].granted = Window, NEW g \in Wire, g = Frame("max", f.id, Window),
           NEW out2, out2 = out \/ out2 = Append(out, g)
    PROVE  Link(q, out2)'
<1>1. /\ setup \in Setups /\ Streams' = Streams /\ snd \in [Streams -> SendState]
      /\ snd' \in [Streams -> SendState]
  BY DEF TypeOK, Streams
<1>2. /\ f.id \in Streams /\ f.id \in p.known /\ ~f.id.local /\ ~Born(f.id) /\ Born(f.id)'
      /\ \A j \in Streams : Born(j) => Born(j)'
  BY Birth DEF Link
<1>3. /\ q.known = p.known /\ q.inEnd = p.inEnd /\ q.outEnd = p.outEnd /\ q.got = p.got
      /\ q.granted = p.granted /\ q.credit = p.credit /\ q.sent = p.sent
  BY DEF Less
<1>4. NetFrames(q)' /\ Openings(q)'
  BY NetOpenedFrames DEF Link
<1>5. out \in Deliverable /\ g.t = "max" /\ g.id = f.id /\ g.n = Window
  BY LinkDeliverable DEF Frame
<1>6. OutFrames(q, out)'
  <2>1. OutFrames(q, out)
    BY <1>3, OutFramesPeer DEF Link
  <2>2. \A j \in Streams :
           /\ rcv[j].entry # "none" => rcv'[j].entry # "none"
           /\ \A n \in Nat : n <= rcv[j].granted => n <= rcv'[j].granted
    BY DEF NetOpened
  <2> QED
    BY <1>2, <2>1, <2>2, OutFramesKept
<1>7. Announced(q, out)'
  <2>1. Announced(q, out) /\ q.inEnd \subseteq Streams
    BY <1>3, AnnouncedPeer DEF Link, PeerState
  <2>2. f.id \notin q.inEnd /\ ~On(out, f.id, {"fin", "reset"}) /\ f.id \in q.known /\ RecvSide(f.id)
    <3>1. f.id \notin p.inEnd
      BY <1>2 DEF Link, Announced
    <3>2. ~On(out, f.id, {"fin", "reset"})
      BY <1>2 DEF Link, OutFrames, OutFrame, On
    <3> QED
      BY <1>2, <1>3, <3>1, <3>2 DEF RecvSide
  <2>3. \A j \in Streams :
           /\ snd'[j].flow = "open" => snd[j].flow = "open" \/ j = f.id
           /\ rcv'[j].entry # "none" => rcv[j].entry # "none" \/ j = f.id
    BY DEF NetOpened
  <2> QED
    BY <1>2, <2>1, <2>2, <2>3, AnnouncedKept
<1>8. PeerCredit(q)'
  <2>1. \A j \in Streams : Counted(q, j)'
    <3>1. f.t \notin {"data", "fin"} /\ PeerCredit(p)
      BY DEF Link
    <3>2. \A j \in Streams : rcv'[j].received = rcv[j].received
      BY DEF NetOpened
    <3> QED
      BY <3>1, <3>2, CountedControl
  <2>2. \A j \in Streams :
          /\ Counted(q, j)' /\ q.sent[j] <= q.credit[j]
          /\ q.credit[j] <= rcv'[j].granted /\ credit'[j] <= rcv'[j].granted
    BY <1>3, <2>1 DEF Link, PeerCredit, NetOpened
  <2> QED
    BY ONLY <1>1, <2>2 DEF PeerCredit, Streams
<1>9. OwnCredit(q, out)
  <2>1. \A j \in Streams : p.granted[j] \in Nat
    BY DEF PeerState
  <2>2. \A j \in Streams : p.granted[j] <= q.granted[j]
    BY <1>3, <2>1
  <2> QED
    BY <1>1, <1>3, <1>5, <2>2, OwnCreditPeer DEF Link
<1>10. \A j \in Streams : /\ snd'[j].max <= q.granted[j] /\ snd[j].sent \in Nat /\ snd[j].grant \in Nat
                          /\ snd'[j].sent = snd[j].sent /\ snd'[j].grant = snd[j].grant
  <2>1. \A j \in Streams : snd[j].max <= q.granted[j]
    BY <1>9 DEF OwnCredit
  <2> QED
    BY <1>1, <2>1 DEF NetOpened, SendState
<1>11. \A j \in Streams :
         /\ snd'[j].handle = "dropped" \/ snd'[j].finished =>
               snd[j].handle = "dropped" \/ snd[j].finished
         /\ rcv'[j].entry # "none" /\ (rcv'[j].handle = "dropped" \/ rcv'[j].stopSent) =>
               rcv[j].entry # "none" /\ (rcv[j].handle = "dropped" \/ rcv[j].stopSent)
  BY DEF NetOpened, NoRecv
<1>12. CASE out2 = out
  <2>1. OwnCredit(q, out)'
    <3>1. \A j \in Streams :
             /\ snd'[j].max <= q.granted[j]
             /\ snd[j].sent - snd[j].grant <= snd'[j].sent - snd'[j].grant
      BY <1>10
    <3> QED
      BY <1>1, <1>5, <1>9, <3>1, OwnCreditKept
  <2>2. ASSUME ~session'.started PROVE Told(q, out)'
    <3>1. Told(q, out)
      BY <1>3, <2>2, ToldPeer DEF Link
    <3> QED
      BY <1>11, <3>1, ToldStep
  <2> QED
    BY <1>4, <1>6, <1>7, <1>8, <1>12, <2>1, <2>2 DEF Link
<1>13. CASE out2 = Append(out, g)
  <2>1. OwnCredit(q, Append(out, g))'
    <3>1. \A j \in Streams :
             /\ snd'[j].max <= q.granted[j]
             /\ snd[j].sent - snd[j].grant + (IF g.t = "data" /\ g.id = j THEN g.n ELSE 0)
                   <= snd'[j].sent - snd'[j].grant
      BY <1>5, <1>10
    <3>2. g.t # "close"
      BY <1>5
    <3> QED
      BY <1>1, <1>5, <1>9, <3>1, <3>2, OwnCreditAppend
  <2>2. NewOut(q, out, g)'
    <3>1. Window \in Nat
      BY BrowserAssumption
    <3> QED
      BY <1>2, <1>5, <3>1 DEF NewOut
  <2>3. OutFrames(q, Append(out, g))'
    BY <1>6, <2>2, OutFramesAppend
  <2>4. Announced(q, Append(out, g))'
    BY <1>5, <1>7, AnnouncedAppend
  <2>5. ASSUME ~session'.started PROVE Told(q, Append(out, g))'
    <3>1. Told(q, out)
      BY <1>3, <2>5, ToldPeer DEF Link
    <3>2. \A j, ts : On(Append(out, g), j, ts) <=> On(out, j, ts) \/ (g.id = j /\ g.t \in ts)
      BY OnAppend
    <3> QED
      BY <1>11, <3>1, <3>2, ToldStep
  <2> QED
    BY <1>4, <1>8, <1>13, <2>1, <2>3, <2>4, <2>5 DEF Link
<1> QED
  BY <1>12, <1>13

FreshSend == [NoSend EXCEPT !.flow = "open", !.handle = "queued"]
FreshRecv == [NoRecv EXCEPT !.entry = "live", !.handle = "queued"]

LEMMA FreshStreams ==
    /\ FreshSend \in SendState /\ Reserves(FreshSend)
    /\ FreshSend.max = NoSend.max /\ FreshSend.sent = NoSend.sent /\ FreshSend.grant = NoSend.grant
    /\ FreshSend.finished = NoSend.finished /\ FreshSend.handle = "queued"
    /\ FreshRecv \in RecvState /\ ReadsToEnd(FreshRecv)
    /\ FreshRecv.received = NoRecv.received /\ FreshRecv.granted = NoRecv.granted
    /\ FreshRecv.granted = Window /\ FreshRecv.stopSent = NoRecv.stopSent
    /\ FreshRecv.handle = "queued" /\ FreshRecv.entry = "live"
<1>1. FreshSend \in SendState /\ FreshRecv \in RecvState
  <2>1. NoSend \in SendState /\ NoRecv \in RecvState
    BY BlankStreams
  <2> QED
    BY <2>1, Zenon DEF SendState, RecvState, FreshSend, FreshRecv
<1>2. /\ FreshSend.max = NoSend.max /\ FreshSend.sent = NoSend.sent
      /\ FreshSend.grant = NoSend.grant /\ FreshSend.finished = NoSend.finished
      /\ FreshSend.handle = "queued" /\ FreshSend.pc = "idle" /\ FreshSend.sent = 0
      /\ FreshSend.max = 0 /\ FreshSend.grant = 0
  BY DEF FreshSend, NoSend
<1>3. /\ FreshRecv.received = NoRecv.received /\ FreshRecv.granted = NoRecv.granted
      /\ FreshRecv.granted = Window /\ FreshRecv.stopSent = NoRecv.stopSent
      /\ FreshRecv.handle = "queued" /\ FreshRecv.entry = "live" /\ ~FreshRecv.finished
      /\ FreshRecv.ev = <<>>
  BY DEF FreshRecv, NoRecv
<1>4. Reserves(FreshSend)
  BY <1>2 DEF Reserves
<1>5. ReadsToEnd(FreshRecv)
  BY <1>3 DEF ReadsToEnd
<1> QED
  BY <1>1, <1>2, <1>3, <1>4, <1>5

(* The accept queue with one more stream. *)
LEMMA AcceptAppend ==
    ASSUME NEW S, accept \in [BOOLEAN -> Seq(S)], NEW b \in BOOLEAN, NEW id \in S,
           accept' = [accept EXCEPT ![b] = Append(@, id)]
    PROVE  /\ accept' \in [BOOLEAN -> Seq(S)]
           /\ \A c \in BOOLEAN : \A i \in DOMAIN accept'[c] :
                 accept'[c][i] = id \/ (i \in DOMAIN accept[c] /\ accept'[c][i] = accept[c][i])
<1>1. PICK s \in Seq(S) : s = accept[b]
  OBVIOUS
<1>2. Append(s, id) \in Seq(S) /\ accept' = [accept EXCEPT ![b] = Append(s, id)]
  BY <1>1
<1>3. \A i \in DOMAIN Append(s, id) :
         Append(s, id)[i] = id \/ (i \in DOMAIN s /\ Append(s, id)[i] = s[i])
  OBVIOUS
<1>4. accept' \in [BOOLEAN -> Seq(S)]
  BY <1>2
<1>5. ASSUME NEW c \in BOOLEAN, NEW i \in DOMAIN accept'[c]
      PROVE  accept'[c][i] = id \/ (i \in DOMAIN accept[c] /\ accept'[c][i] = accept[c][i])
  <2>1. CASE c = b
    <3>1. accept'[c] = Append(s, id) /\ accept[c] = s
      BY <1>1, <1>2, <2>1
    <3> QED
      BY <1>3, <1>5, <3>1
  <2>2. CASE c # b
    <3>1. accept'[c] = accept[c]
      BY <1>2, <2>2
    <3> QED
      BY <1>5, <3>1
  <2> QED
    BY <2>1, <2>2
<1> QED
  BY <1>4, <1>5

(* The tables HandleOpen goes on with, and the ones it drops the stream from. *)
OpenRecvs(id) == [rcv EXCEPT ![id].entry = "live", ![id].handle = "queued"]
OpenSends(id) ==
    IF id.bi THEN [snd EXCEPT ![id].flow = "open", ![id].handle = "queued"] ELSE snd
LostRecvs(id) == Dropped(OpenRecvs(id), id, DroppedRecv)
LostSends(id) == IF id.bi THEN Dropped(OpenSends(id), id, DroppedSend) ELSE OpenSends(id)

LEMMA OpenTables ==
    ASSUME TypeOK, Books, NEW id \in Streams, ~Born(id), NEW s, NEW r, NEW s0, NEW r0,
           s = OpenSends(id), r = OpenRecvs(id), s0 = LostSends(id), r0 = LostRecvs(id)
    PROVE  /\ snd[id] = NoSend /\ rcv[id] = NoRecv
           /\ InOrder(s, r) /\ InOrder(s0, r0) /\ InOrder(snd, r0)
           /\ \A j \in Streams : j # id => /\ s[j] = snd[j] /\ r[j] = rcv[j]
                                           /\ s0[j] = snd[j] /\ r0[j] = rcv[j]
           /\ r[id] = FreshRecv /\ s[id] \in {NoSend, FreshSend}
<1>1. snd[id] = NoSend /\ rcv[id] = NoRecv /\ InOrder(snd, rcv)
  BY TablesInOrder DEF Books, Unborn
<1>2. snd \in [Streams -> SendState] /\ rcv \in [Streams -> RecvState]
  BY DEF TypeOK
<1>3. /\ FreshSend \in SendState /\ Reserves(FreshSend)
      /\ FreshRecv \in RecvState /\ ReadsToEnd(FreshRecv)
  BY FreshStreams
<1>4. /\ r = [rcv EXCEPT ![id] = FreshRecv]
      /\ s = IF id.bi THEN [snd EXCEPT ![id] = FreshSend] ELSE snd
  BY <1>1, Zenon DEF FreshSend, FreshRecv, OpenSends, OpenRecvs
<1>5. /\ r \in [Streams -> RecvState] /\ r[id] = FreshRecv /\ \A j \in Streams : j # id => r[j] = rcv[j]
      /\ s \in [Streams -> SendState] /\ s[id] \in {NoSend, FreshSend}
      /\ id.bi => s[id] = FreshSend
      /\ \A j \in Streams : j # id => s[j] = snd[j]
  BY <1>1, <1>2, <1>3, <1>4
<1>6. PICK d \in RecvState : d = DroppedRecv(FreshRecv) /\ ReadsToEnd(d)
  BY <1>3, TRUE \in BOOLEAN, StoppingRecvs
<1>7. PICK e \in SendState : e = DroppedSend(FreshSend) /\ Reserves(e)
  BY <1>3, 1 \in 1..2, EndingSends DEF EndedSend
<1>8. r0 = [r EXCEPT ![id] = d] /\ s0 = IF id.bi THEN [s EXCEPT ![id] = e] ELSE s
  <2>1. r0 = Dropped(r, id, DroppedRecv) /\ s0 = IF id.bi THEN Dropped(s, id, DroppedSend) ELSE s
    BY DEF LostRecvs, LostSends
  <2>2. /\ r0 = [r EXCEPT ![id] = DroppedRecv(r[id])]
        /\ s0 = IF id.bi THEN [s EXCEPT ![id] = DroppedSend(s[id])] ELSE s
    BY <1>5, <2>1 DEF Dropped
  <2> QED
    BY <1>5, <1>6, <1>7, <2>2
<1>9. /\ r0 \in [Streams -> RecvState] /\ r0[id] = d /\ \A j \in Streams : j # id => r0[j] = rcv[j]
      /\ s0 \in [Streams -> SendState] /\ s0[id] \in {s[id], e}
      /\ \A j \in Streams : j # id => s0[j] = snd[j]
  <2>1. /\ r0 \in [Streams -> RecvState] /\ r0[id] = d
        /\ \A j \in Streams : j # id => r0[j] = rcv[j]
    BY <1>5, <1>8
  <2>2. /\ s0 \in [Streams -> SendState] /\ s0[id] \in {s[id], e}
        /\ \A j \in Streams : j # id => s0[j] = snd[j]
    <3>1. CASE id.bi
      BY <1>5, <1>8, <3>1
    <3>2. CASE ~id.bi
      BY <1>5, <1>8, <3>2
    <3> QED
      BY <3>1, <3>2
  <2> QED
    BY <2>1, <2>2
<1>10. Reserves(s[id]) /\ Reserves(s0[id]) /\ ReadsToEnd(r[id]) /\ ReadsToEnd(r0[id])
  BY <1>1, <1>3, <1>5, <1>6, <1>7, <1>9 DEF InOrder
<1> QED
  BY <1>1, <1>5, <1>9, <1>10 DEF InOrder

LEMMA HandleOpenStep ==
    ASSUME TypeOK, IInv, HandleOpen
    PROVE  TypeOK' /\ IInv'
<1>1. /\ task = "run" /\ peer' \in PeerState /\ peer.net # <<>> /\ peer'.net = Tail(peer.net)
      /\ Less(peer, peer') /\ Head(peer.net) \in Wire /\ Head(peer.net).t = "open"
  <2>1. Incoming({"open"}) /\ Taken
    BY DEF HandleOpen
  <2> QED
    BY <2>1, TakenFacts
<1>2. peer \in PeerState /\ Outgoing \in Seq(Wire) /\ Link(peer, Outgoing) /\ setup \in Setups
  BY <1>1 DEF IInv, TypeOK, Outgoing, Channel
<1>3. PICK p \in PeerState, out \in Seq(Wire) : p = peer /\ out = Outgoing
  BY <1>2
<1>4. PICK q \in PeerState : q = peer'
  BY <1>1
<1>5. PICK f \in Wire : f = Head(p.net)
  BY <1>1, <1>3
<1>6. /\ p.net # <<>> /\ q.net = Tail(p.net) /\ Less(p, q) /\ f.t = "open" /\ Link(p, out)
      /\ UNCHANGED <<setup, slot>>
  BY <1>1, <1>2, <1>3, <1>4, <1>5 DEF HandleOpen
<1>7. PICK id \in Streams : /\ id = f.id /\ id \in p.known /\ ~id.local /\ ~Born(id)
                            /\ ValidPeerId(id)
  BY <1>5, <1>6, Birth DEF Link
<1>8. PICK c, s, r, s0, r0 :
        /\ c = TrySend(chan, Frame("max", id, Window))
        /\ s = OpenSends(id) /\ r = OpenRecvs(id) /\ s0 = LostSends(id) /\ r0 = LostRecvs(id)
  OBVIOUS
<1>9. /\ next' = [next EXCEPT ![Key(id)] = id.n + 1]
      /\ accept' = IF task' = "run" THEN [accept EXCEPT ![id.bi] = Append(@, id)] ELSE accept
      /\ \/ ProtocolError({}, chan, snd, rcv)
         \/ ProtocolError({}, c, snd, r0)
         \/ /\ Leave({}) /\ chan' = c /\ snd' = s0 /\ rcv' = r0 /\ UNCHANGED <<credit, session>>
         \/ AcceptFull(id, c, s0, r0)
         \/ chan' = c /\ snd' = s /\ rcv' = r /\ UNCHANGED <<credit, session, task, hist>>
  BY <1>3, <1>5, <1>7, <1>8 DEF HandleOpen, OpenSends, OpenRecvs, LostSends, LostRecvs
<1>10. /\ snd[id] = NoSend /\ rcv[id] = NoRecv
       /\ InOrder(s, r) /\ InOrder(s0, r0) /\ InOrder(snd, r0)
       /\ \A j \in Streams : j # id => /\ s[j] = snd[j] /\ r[j] = rcv[j]
                                       /\ s0[j] = snd[j] /\ r0[j] = rcv[j]
       /\ r[id] = FreshRecv /\ s[id] \in {NoSend, FreshSend}
  <2>1. Books /\ ~Born(id)
    BY <1>7 DEF IInv
  <2> QED
    BY <1>8, <2>1, OpenTables
<1>11. /\ next' \in [[local : BOOLEAN, bi : BOOLEAN] -> Nat] /\ Born(id)'
       /\ \A j \in Streams : Born(j) => Born(j)'
  BY <1>5, <1>6, <1>7, <1>9, Birth DEF Link
<1>12. \A j \in Streams : ~Born(j)' => /\ j # id /\ snd[j] = NoSend /\ rcv[j] = NoRecv
                                       /\ s[j] = NoSend /\ r[j] = NoRecv
                                       /\ s0[j] = NoSend /\ r0[j] = NoRecv
  BY <1>10, <1>11 DEF IInv, Books, Unborn
<1>13. PICK g \in Wire : g = Frame("max", id, Window)
  <2>1. Window \in Nat
    BY BrowserAssumption
  <2> QED
    BY <1>2, <2>1, FrameWire
<1>14. /\ c \in Channel /\ chan \in Channel /\ session \in Sessions /\ hist \in Histories
       /\ c.q = chan.q \/ c.q = Append(chan.q, g)
  BY <1>8, <1>13, TrySendChannel DEF TypeOK
<1>15. InOrder(snd, rcv)
  BY TablesInOrder DEF IInv
<1>16. CASE ProtocolError({}, chan, snd, rcv)
  <2>1. chan' = ConnectionClose(chan) /\ CloseAll(snd, rcv, session) /\ Leave({})
    BY <1>16 DEF ProtocolError
  <2>2. chan' \in Channel /\ accept' = accept
    BY <1>9, <1>14, <2>1, CloseChannel DEF Leave
  <2> QED
    BY <1>1, <1>6, <1>11, <1>12, <1>14, <1>15, <2>1, <2>2, CloseAllStep
<1>17. CASE ProtocolError({}, c, snd, r0)
  <2>1. chan' = ConnectionClose(c) /\ CloseAll(snd, r0, session) /\ Leave({})
    BY <1>17 DEF ProtocolError
  <2>2. chan' \in Channel /\ accept' = accept
    BY <1>9, <1>14, <2>1, CloseChannel DEF Leave
  <2> QED
    BY <1>1, <1>6, <1>10, <1>11, <1>12, <1>14, <2>1, <2>2, CloseAllStep
<1>18. CASE /\ Leave({}) /\ chan' = c /\ snd' = s0 /\ rcv' = r0
            /\ UNCHANGED <<credit, session>>
  <2>1. /\ task' = "closing" /\ hist' \in Histories /\ hist'.half = hist.half
        /\ hist'.accused = {}
    BY <1>14, <1>18, LeaveFacts
  <2>2. /\ slot' \in Seq(Wire) /\ Len(slot') <= 1 /\ session' \in Sessions
        /\ credit' \in [Streams -> Nat] /\ ~session'.closed
    BY <1>1, <1>6, <1>18 DEF TypeOK, IInv, Books, Ending
  <2>3. accept' = accept
    BY <1>9, <2>1
  <2> QED
    BY <1>1, <1>6, <1>10, <1>11, <1>12, <1>14, <1>18, <2>1, <2>2, <2>3, LeftStep
<1>19. CASE AcceptFull(id, c, s0, r0)
  <2>1. PICK e : e = ConnectionClose(c)
    OBVIOUS
  <2>2. PICK b \in BOOLEAN : b = (session.started \/ (id.bi /\ ~CanSend(e, Ctl)))
    OBVIOUS
  <2>3. /\ chan' = IF id.bi THEN TrySend(e, Frame("reset", id, 0)) ELSE e
        /\ CloseAll(s0, r0, [session EXCEPT !.started = b]) /\ Leave({})
    BY <1>19, <2>1, <2>2 DEF AcceptFull
  <2>4. PICK ss : ss = [session EXCEPT !.started = b]
    OBVIOUS
  <2>5. ss \in Sessions /\ ss.closed = session.closed
    BY <1>14, <2>4 DEF Sessions
  <2>6. chan' \in Channel
    <3>1. e \in Channel
      BY <1>14, <2>1, CloseChannel
    <3>2. Frame("reset", id, 0) \in Wire
      BY <1>2, FrameWire
    <3> QED
      BY <2>3, <3>1, <3>2, TrySendChannel
  <2>7. CloseAll(s0, r0, ss) /\ Leave({}) /\ accept' = accept
    BY <1>9, <2>3, <2>4 DEF Leave
  <2> QED
    BY <1>1, <1>6, <1>10, <1>11, <1>12, <2>5, <2>6, <2>7, CloseAllStep
<1>20. CASE chan' = c /\ snd' = s /\ rcv' = r /\ UNCHANGED <<credit, session, task, hist>>
  <2>1. /\ Streams' = Streams /\ Wire' = Wire /\ PeerState' = PeerState
        /\ Histories' = Histories /\ Channel' = Channel
    BY <1>6, SameTypes
  <2>2. /\ accept' \in [BOOLEAN -> Seq(Streams)]
        /\ \A b \in BOOLEAN : \A i \in DOMAIN accept'[b] :
              accept'[b][i] = id \/ (i \in DOMAIN accept[b] /\ accept'[b][i] = accept[b][i])
    <3>1. accept' = [accept EXCEPT ![id.bi] = Append(@, id)] /\ id.bi \in BOOLEAN
      BY <1>1, <1>2, <1>9, <1>20, StreamIds
    <3>2. accept \in [BOOLEAN -> Seq(Streams)]
      BY DEF TypeOK
    <3> QED
      BY <3>1, <3>2, AcceptAppend
  <2>3. TypeOK'
    BY <1>1, <1>6, <1>10, <1>11, <1>14, <1>20, <2>1, <2>2 DEF TypeOK, InOrder
  <2>4. Books'
    <3>1. Unborn'
      <4>1. \A b \in BOOLEAN : \A i \in DOMAIN accept[b] : accept[b][i] \in Streams /\ Born(accept[b][i])
        BY DEF TypeOK, IInv, Books, Unborn
      <4>2. ASSUME NEW b \in BOOLEAN, NEW i \in DOMAIN accept'[b]
            PROVE  Born(accept[b][i])'
        <5>1. PICK x \in Streams : x = accept'[b][i] /\ Born(x)'
          BY <1>11, <2>2, <4>1
        <5> QED
          BY <5>1 DEF Born
      <4> QED
        BY <1>12, <1>20, <2>1, <4>2 DEF Unborn
    <3>2. Reserving' /\ EndRead'
      BY <1>10, <1>20, <2>1 DEF Reserving, EndRead, InOrder
    <3>3. Ending' /\ HonestPeerTrusted' /\ Len(slot') <= 1
      BY <1>1, <1>6, <1>20 DEF IInv, Books, Ending, HonestPeerTrusted
    <3> QED
      BY <3>1, <3>2, <3>3 DEF Books
  <2>5. NetOpened(id)
    <3>1. SUFFICES ASSUME NEW j \in Streams
                   PROVE  /\ snd'[j].max = snd[j].max /\ snd'[j].sent = snd[j].sent
                          /\ snd'[j].grant = snd[j].grant
                          /\ snd'[j].finished = snd[j].finished
                          /\ snd'[j].handle = "dropped" => snd[j].handle = "dropped"
                          /\ snd'[j].flow = "open" => snd[j].flow = "open" \/ j = id
                          /\ rcv'[j].received = rcv[j].received /\ rcv'[j].granted = rcv[j].granted
                          /\ rcv'[j].stopSent = rcv[j].stopSent
                          /\ rcv'[j].handle = "dropped" => rcv[j].handle = "dropped"
                          /\ rcv'[j].entry = IF j = id THEN "live" ELSE rcv[j].entry
      BY Zenon DEF NetOpened
    <3>2. CASE j # id
      BY <1>10, <1>20, <3>2
    <3>3. CASE j = id
      BY <1>10, <1>20, <3>3, FreshStreams
    <3> QED
      BY <3>2, <3>3
  <2>6. rcv'[id].granted = Window
    BY <1>10, <1>20, FreshStreams
  <2>7. PICK out2 : out2 = Outgoing' /\ (out2 = out \/ out2 = Append(out, g))
    <3>1. slot \in Seq(Wire) /\ chan.q \in Seq(Wire)
      BY DEF TypeOK, Channel
    <3>2. slot \o Append(chan.q, g) = Append(slot \o chan.q, g)
      BY <3>1, OutgoingPushed
    <3>3. Outgoing' = slot \o c.q /\ out = slot \o chan.q
      BY <1>3, <1>6, <1>20 DEF Outgoing
    <3> QED
      BY <1>14, <3>2, <3>3
  <2>8. Link(q, out2)'
    <3>1. /\ UNCHANGED <<setup, credit, session, hist>> /\ NetOpened(f.id)
          /\ next' = [next EXCEPT ![Key(f.id)] = f.id.n + 1]
          /\ rcv[f.id] = NoRecv /\ rcv'[f.id].granted = Window /\ g = Frame("max", f.id, Window)
      BY <1>6, <1>7, <1>9, <1>10, <1>13, <1>20, <2>5, <2>6
    <3> QED
      BY <1>5, <1>6, <2>3, <2>7, <3>1, NetOpenedLink
  <2> QED
    BY <1>4, <2>3, <2>4, <2>7, <2>8, LinkNow DEF IInv
<1> QED
  BY <1>9, <1>16, <1>17, <1>18, <1>19, <1>20

-----------------------------------------------------------------------------
(* What the loop writes, and its end                                       *)

(* The first frame of a batch arrives: the rest is the queue left behind. *)
LEMMA FirstFrame ==
    ASSUME TypeOK, IInv, task = "run", NEW a \in FirstFrames
    PROVE  /\ a.c \in Channel /\ a.cr \in [Streams -> Nat] /\ a.f \in Wire
           /\ \A j \in Streams : a.cr[j] <= credit[j]
           /\ Deliver(peer, a.f) \in PeerState /\ Link(Deliver(peer, a.f), a.c.q)
<1>1. /\ chan \in Channel /\ chan.q \in Seq(Wire) /\ slot \in Seq(Wire) /\ Len(slot) <= 1
      /\ credit \in [Streams -> Nat] /\ setup \in Setups /\ peer \in PeerState
      /\ Link(peer, Outgoing)
  BY DEF TypeOK, Channel, IInv, Books
<1>2. PICK p \in PeerState : p = peer
  BY <1>1
<1>3. PICK q \in Seq(Wire), sl \in Seq(Wire) : q = chan.q /\ sl = slot
  BY <1>1
<1>4. Link(p, sl \o q) /\ Len(sl) <= 1
  BY <1>1, <1>2, <1>3 DEF Outgoing
<1>5. CASE slot # <<>>
  <2>1. a.f = slot[1] /\ a.c = chan /\ a.cr = credit
    BY <1>5 DEF FirstFrames
  <2>2. sl \o q \in Seq(Wire) /\ sl \o q # <<>> /\ Head(sl \o q) = sl[1] /\ Tail(sl \o q) = q /\ sl[1] \in Wire
    <3>1. Len(sl) = 1 /\ sl[1] \in Wire
      <4>1. Len(sl) \in Nat /\ Len(sl) # 0
        BY <1>3, <1>5
      <4>2. Len(sl) <= 1
        BY <1>4
      <4>3. Len(sl) = 1
        <5>1. PICK n \in Nat : n = Len(sl)
          BY <4>1
        <5>2. n # 0 /\ n <= 1
          BY <4>1, <4>2, <5>1
        <5>3. n = 1
          BY ONLY n \in Nat, <5>2
        <5> QED
          BY <5>1, <5>3
      <4>4. 1 \in 1..Len(sl)
        BY ONLY <4>3
      <4> QED
        BY ONLY sl \in Seq(Wire), <4>3, <4>4, ElementOfSeq
    <3>2. sl = <<sl[1]>>
      BY <3>1
    <3>3. PICK x \in Wire : x = sl[1]
      BY <3>1
    <3>4. <<x>> \o q \in Seq(Wire) /\ <<x>> \o q # <<>> /\ Head(<<x>> \o q) = x /\ Tail(<<x>> \o q) = q
      OBVIOUS
    <3> QED
      BY <3>2, <3>3, <3>4
  <2>3. Link(Deliver(p, Head(sl \o q)), Tail(sl \o q)) /\ Deliver(p, Head(sl \o q)) \in PeerState
    BY <1>4, <2>2, LinkDeliver
  <2>4. /\ Deliver(peer, a.f) \in PeerState /\ Link(Deliver(peer, a.f), a.c.q) /\ a.f \in Wire
    BY <1>2, <1>3, <2>1, <2>2, <2>3, Zenon
  <2>5. \A j \in Streams : credit[j] <= credit[j]
    BY <1>1
  <2> QED
    BY <1>1, <2>1, <2>4, <2>5
<1>6. CASE slot = <<>> /\ a \in NextCredit
  <2>1. PICK i \in Credits(credit) : /\ a.f = Frame("max", i, credit[i]) /\ a.c = chan
                                     /\ a.cr = [credit EXCEPT ![i] = 0]
    <3>1. PICK i \in Credits(credit) :
             a = [f |-> Frame("max", i, credit[i]), c |-> chan, cr |-> [credit EXCEPT ![i] = 0]]
      BY <1>6, Zenon DEF NextCredit
    <3> QED
      BY <3>1, Zenon
  <2>2. i \in Streams /\ credit[i] \in Nat
    BY <1>1 DEF Credits
  <2>3. PICK f \in Wire : f = Frame("max", i, credit[i])
    BY <1>1, <2>2, FrameWire
  <2>4. Link(p, q)
    BY <1>3, <1>4, <1>6
  <2>5. Link(Deliver(p, f), q) /\ Deliver(p, f) \in PeerState
    BY <2>2, <2>3, <2>4, LinkCredit
  <2>6. a.cr \in [Streams -> Nat] /\ \A j \in Streams : a.cr[j] <= credit[j]
    BY <1>1, <2>1, <2>2
  <2> QED
    BY <1>1, <1>2, <1>3, <2>1, <2>3, <2>5, <2>6
<1>7. CASE slot = <<>> /\ a \notin NextCredit
  <2>1. chan.q # <<>> /\ a.f = Head(chan.q) /\ a.c = PopN(chan, 1) /\ a.cr = credit
    BY <1>7 DEF FirstFrames
  <2>2. q # <<>> /\ Head(q) \in Wire /\ 1 \in 0..Len(q)
    BY <1>3, <2>1
  <2>3. a.c \in Channel /\ a.c.q = Tail(q)
    <3>1. PopN(chan, 1) \in Channel /\ PopN(chan, 1).q = SubSeq(chan.q, 1 + 1, Len(chan.q))
      BY <1>1, <1>3, <2>2, PopNChannel
    <3>2. Tail(q) = SubSeq(q, 2, Len(q))
      BY <2>2, TailIsSubSeq
    <3>3. 1 + 1 = 2
      OBVIOUS
    <3> QED
      BY <1>3, <2>1, <3>1, <3>2, <3>3, Zenon
  <2>4. Link(p, q)
    BY <1>3, <1>4, <1>7
  <2>5. Link(Deliver(p, Head(q)), Tail(q)) /\ Deliver(p, Head(q)) \in PeerState
    BY <2>2, <2>4, LinkDeliver
  <2> QED
    BY <1>1, <1>2, <1>3, <2>1, <2>2, <2>3, <2>5
<1> QED
  BY <1>5, <1>6, <1>7

(* The queue after k frames were written and kept ones set aside. *)
LEMMA BatchLeft ==
    ASSUME NEW c \in Channel, NEW m, m = Min({MaxBatch - 1, Len(c.q)}), NEW k \in 0..m,
           NEW kept \in 0..(IF k < m THEN 1 ELSE 0)
    PROVE  /\ k \in 0..Len(c.q) /\ PopN(c, k + kept) \in Channel
           /\ SubSeq(c.q, k + 1, k + kept) \in Seq(Wire) /\ Len(SubSeq(c.q, k + 1, k + kept)) <= 1
           /\ SubSeq(c.q, k + 1, k + kept) \o PopN(c, k + kept).q = SubSeq(c.q, k + 1, Len(c.q))
<1>1. PICK q \in Seq(Wire) : q = c.q
  BY DEF Channel
<1>2. m \in Int /\ m <= Len(q)
  <2>1. MaxBatch - 1 \in Int /\ Len(q) \in Int
    BY BrowserAssumption
  <2>2. Min({MaxBatch - 1, Len(q)}) \in {MaxBatch - 1, Len(q)} /\ Min({MaxBatch - 1, Len(q)}) <= Len(q)
    BY ONLY <2>1, MinOfTwo, Zenon
  <2> QED
    BY <1>1, <2>1, <2>2
<1>3. k \in Nat /\ kept \in {0, 1} /\ k + kept <= Len(q) /\ k <= Len(q)
  BY <1>2
<1>4. k + kept \in 0..Len(q) /\ Len(q) \in Nat
  BY <1>3
<1>5. PopN(c, k + kept) \in Channel /\ PopN(c, k + kept).q = SubSeq(q, (k + kept) + 1, Len(q))
  BY <1>1, <1>4, PopNChannel
<1>6. SubSeq(q, k + 1, k + kept) \in Seq(Wire) /\ Len(SubSeq(q, k + 1, k + kept)) <= 1
  <2>1. \A i \in 1..Len(q) : q[i] \in Wire
    OBVIOUS
  <2>2. /\ k + 1 \in Int /\ k + kept \in Int
        /\ \A i \in (k + 1)..(k + kept) : q[i] \in Wire
    BY ONLY <1>3, <1>4, <2>1
  <2>3. /\ SubSeq(q, k + 1, k + kept) \in Seq(Wire)
        /\ Len(SubSeq(q, k + 1, k + kept)) = IF k + 1 <= k + kept THEN (k + kept) - (k + 1) + 1 ELSE 0
    BY ONLY <2>2, SubSeqProperties
  <2> QED
    BY ONLY <1>3, <2>3
<1>7. SubSeq(q, k + 1, k + kept) \o SubSeq(q, (k + kept) + 1, Len(q)) = SubSeq(q, k + 1, Len(q))
  <2>1. /\ k + 1 \in 1..(Len(q) + 1) /\ k + kept \in ((k + 1) - 1)..Len(q)
        /\ Len(q) \in (k + kept)..Len(q)
    BY ONLY <1>3, <1>4
  <2> QED
    BY ONLY q \in Seq(Wire), <2>1, ConcatAdjacentSubSeq
<1>8. k \in 0..Len(q)
  BY ONLY <1>3, <1>4
<1> QED
  BY <1>1, <1>5, <1>6, <1>7, <1>8, Zenon

LEMMA OutboundStep ==
    ASSUME TypeOK, IInv, Outbound
    PROVE  TypeOK' /\ IInv'
<1>1. task = "run" /\ UNCHANGED <<setup, next, snd, rcv, accept, session>>
  BY DEF Outbound
<1>2. PICK a \in FirstFrames : \E k \in 0..Min({MaxBatch - 1, Len(a.c.q)}) :
         \E kept \in 0..(IF k < Min({MaxBatch - 1, Len(a.c.q)}) THEN 1 ELSE 0) :
            /\ slot' = SubSeq(a.c.q, k + 1, k + kept)
            /\ chan' = PopN(a.c, k + kept) /\ credit' = a.cr
            /\ \/ peer' = Delivered(peer, <<a.f>> \o SubSeq(a.c.q, 1, k)) /\ UNCHANGED <<task, hist>>
               \/ Leave({}) /\ UNCHANGED peer
  BY DEF Outbound
<1>3. PICK c, f, cr : c = a.c /\ f = a.f /\ cr = a.cr
  OBVIOUS
<1>4. PICK m : m = Min({MaxBatch - 1, Len(c.q)})
  OBVIOUS
<1>5. PICK k \in 0..m : \E kept \in 0..(IF k < m THEN 1 ELSE 0) :
         /\ slot' = SubSeq(c.q, k + 1, k + kept)
         /\ chan' = PopN(c, k + kept) /\ credit' = cr
         /\ \/ peer' = Delivered(peer, <<f>> \o SubSeq(c.q, 1, k)) /\ UNCHANGED <<task, hist>>
            \/ Leave({}) /\ UNCHANGED peer
  BY <1>2, <1>3, <1>4
<1>6. PICK kept \in 0..(IF k < m THEN 1 ELSE 0) :
         /\ slot' = SubSeq(c.q, k + 1, k + kept)
         /\ chan' = PopN(c, k + kept) /\ credit' = cr
         /\ \/ peer' = Delivered(peer, <<f>> \o SubSeq(c.q, 1, k)) /\ UNCHANGED <<task, hist>>
            \/ Leave({}) /\ UNCHANGED peer
  BY <1>5
<1>7. PICK p \in PeerState : p = peer
  BY DEF TypeOK
<1>8. /\ c \in Channel /\ cr \in [Streams -> Nat] /\ f \in Wire
      /\ \A j \in Streams : cr[j] <= credit[j]
      /\ Deliver(p, f) \in PeerState /\ Link(Deliver(p, f), c.q)
  BY <1>1, <1>3, <1>7, FirstFrame
<1>9. /\ k \in 0..Len(c.q) /\ PopN(c, k + kept) \in Channel
      /\ SubSeq(c.q, k + 1, k + kept) \in Seq(Wire) /\ Len(SubSeq(c.q, k + 1, k + kept)) <= 1
      /\ SubSeq(c.q, k + 1, k + kept) \o PopN(c, k + kept).q = SubSeq(c.q, k + 1, Len(c.q))
  BY <1>4, <1>8, BatchLeft
<1>10. /\ slot' \in Seq(Wire) /\ Len(slot') <= 1 /\ chan' \in Channel /\ credit' \in [Streams -> Nat]
      /\ Outgoing' = SubSeq(c.q, k + 1, Len(c.q))
  BY <1>6, <1>8, <1>9 DEF Outgoing
<1>11. \A j : Born(j)' <=> Born(j)
  BY <1>1 DEF Born
<1>12. InOrder(snd', rcv')
  <2>1. InOrder(snd, rcv)
    BY TablesInOrder DEF IInv
  <2> QED
    BY <1>1, <2>1
<1>13. \A j \in Streams : ~Born(j)' => snd'[j] = NoSend /\ rcv'[j] = NoRecv
  BY <1>1, <1>11 DEF IInv, Books, Unborn
<1>14. /\ next' \in [[local : BOOLEAN, bi : BOOLEAN] -> Nat] /\ session' \in Sessions
       /\ ~session'.closed
  BY <1>1 DEF TypeOK, IInv, Books, Ending
<1>15. CASE Leave({}) /\ UNCHANGED peer
  <2>1. /\ task' = "closing" /\ hist' \in Histories /\ hist'.half = hist.half
        /\ hist'.accused = {}
    BY <1>15, LeaveFacts DEF TypeOK
  <2>2. peer' \in PeerState
    BY <1>15 DEF TypeOK
  <2> QED
    BY <1>1, <1>10, <1>11, <1>12, <1>13, <1>14, <2>1, <2>2, LeftStep
<1>16. CASE peer' = Delivered(peer, <<f>> \o SubSeq(c.q, 1, k)) /\ UNCHANGED <<task, hist>>
  <2>1. PICK q \in Seq(Wire) : q = c.q
    BY <1>8 DEF Channel
  <2>2. PICK d \in PeerState : d = Deliver(p, f)
    BY <1>8
  <2>3. PICK s \in Seq(Wire) : s = SubSeq(q, 1, k)
    <3>1. \A i \in 1..Len(q) : q[i] \in Wire
      OBVIOUS
    <3>2. k \in Int /\ 1 \in Int /\ \A i \in 1..k : q[i] \in Wire
      BY <1>9, <2>1, <3>1
    <3>3. SubSeq(q, 1, k) \in Seq(Wire)
      BY ONLY <3>2, SubSeqProperties
    <3> QED
      BY <3>3, Zenon
  <2>4. Delivered(p, <<f>> \o s) = Delivered(d, s)
    <3>1. <<f>> \o s \in Seq(Wire) /\ <<f>> \o s # <<>> /\ Head(<<f>> \o s) = f /\ Tail(<<f>> \o s) = s
      BY <1>8
    <3>2. PICK b \in Seq(Wire) : b = <<f>> \o s
      BY <3>1
    <3>3. Delivered(p, b) = Delivered(Deliver(p, Head(b)), Tail(b))
      BY <3>1, <3>2, DeliveredTail
    <3> QED
      BY <2>2, <3>1, <3>2, <3>3
  <2>5. PICK e, out2 : e = Delivered(d, s) /\ out2 = SubSeq(q, k + 1, Len(q))
    OBVIOUS
  <2>6. peer' = e /\ Outgoing' = out2
    BY <1>7, <1>10, <1>16, <2>1, <2>3, <2>4, <2>5
  <2>7. e \in PeerState /\ Link(e, out2)
    <3>1. Link(d, q) /\ k \in 0..Len(q)
      BY <1>8, <1>9, <2>1, <2>2
    <3>2. \A i \in 0..Len(q) :
              /\ Delivered(d, SubSeq(q, 1, i)) \in PeerState
              /\ Link(Delivered(d, SubSeq(q, 1, i)), SubSeq(q, i + 1, Len(q)))
      BY <3>1, LinkBatch
    <3> QED
      BY <2>3, <2>5, <3>1, <3>2
  <2>8. Link(e, out2)'
    <3>1. ASSUME NEW j \in Streams PROVE credit'[j] <= rcv[j].granted
      <4>1. credit[j] <= rcv[j].granted
        BY <1>1 DEF IInv, Link, PeerCredit
      <4>2. credit[j] \in Nat /\ cr[j] \in Nat /\ rcv[j].granted \in Nat
        BY <1>8 DEF TypeOK, RecvState
      <4> QED
        BY <1>6, <1>8, <4>1, <4>2
    <3> QED
      BY <1>1, <1>16, <2>7, <3>1, LinkSame
  <2>9. TypeOK'
    <3>1. /\ Streams' = Streams /\ Wire' = Wire /\ PeerState' = PeerState
          /\ Histories' = Histories /\ Channel' = Channel
      BY <1>1, SameTypes
    <3> QED
      BY <1>1, <1>10, <1>16, <2>6, <2>7, <3>1 DEF TypeOK
  <2>10. Books'
    <3>1. Unborn' /\ Reserving' /\ EndRead'
      BY <1>1 DEF IInv, Books, Unborn, Reserving, EndRead, Born, Streams
    <3>2. Ending' /\ HonestPeerTrusted'
      BY <1>1, <1>16 DEF IInv, Books, Ending, HonestPeerTrusted
    <3> QED
      BY <1>10, <3>1, <3>2 DEF Books
  <2> QED
    BY <2>6, <2>8, <2>9, <2>10, LinkNow DEF IInv
<1> QED
  BY <1>6, <1>15, <1>16

(* The loop ends with its queue, or with the connection. *)
LEMMA LoopEndsStep ==
    ASSUME TypeOK, IInv, OutboundEnds \/ ConnEnds
    PROVE  TypeOK' /\ IInv'
<1>1. task = "run" /\ UNCHANGED <<setup, next, snd, rcv, chan, slot, credit, accept, session, peer>>
  BY DEF OutboundEnds, ConnEnds
<1>2. /\ task' = "closing" /\ hist' \in Histories /\ hist'.half = hist.half
      /\ hist'.accused \subseteq hist.half
  <2>1. CASE OutboundEnds
    BY <2>1 DEF OutboundEnds, TypeOK, IInv, Books, HonestPeerTrusted
  <2>2. CASE ConnEnds
    <3>1. Leave({}) /\ hist \in Histories
      BY <2>2 DEF ConnEnds, TypeOK
    <3>2. task' = "closing" /\ hist' \in Histories /\ hist'.half = hist.half /\ hist'.accused = {}
      BY <3>1, LeaveFacts
    <3> QED
      BY <3>2
  <2> QED
    BY <2>1, <2>2
<1>3. InOrder(snd', rcv')
  <2>1. InOrder(snd, rcv)
    BY TablesInOrder DEF IInv
  <2> QED
    BY <1>1, <2>1
<1>4. \A j \in Streams : /\ Born(j)' <=> Born(j)
                         /\ ~Born(j)' => snd'[j] = NoSend /\ rcv'[j] = NoRecv
  BY <1>1 DEF IInv, Books, Unborn, Born
<1>5. /\ next' \in [[local : BOOLEAN, bi : BOOLEAN] -> Nat] /\ session' \in Sessions
      /\ slot' \in Seq(Wire) /\ Len(slot') <= 1 /\ chan' \in Channel /\ peer' \in PeerState
      /\ credit' \in [Streams -> Nat] /\ ~session'.closed
  BY <1>1 DEF TypeOK, IInv, Books, Ending
<1> QED
  BY <1>1, <1>2, <1>3, <1>4, <1>5, LeftStep

LEMMA FinishTaskStep ==
    ASSUME TypeOK, IInv, FinishTask
    PROVE  TypeOK' /\ IInv'
<1>1. /\ task = "closing" /\ task' = "ended" /\ chan' = [q |-> <<>>, parked |-> <<>>] /\ slot' = <<>>
      /\ CloseAll(snd, rcv, ReleaseWaiters(session)) /\ UNCHANGED <<setup, next, accept, peer, hist>>
  BY DEF FinishTask
<1>2. PICK ss : ss = ReleaseWaiters(session)
  OBVIOUS
<1>3. ss \in Sessions /\ ss.closed = session.closed /\ ss.waiter # "waiting"
  BY <1>2 DEF TypeOK, ReleaseWaiters, Sessions
<1>4. InOrder(snd, rcv) /\ credit \in [Streams -> Nat]
  BY TablesInOrder DEF IInv, TypeOK
<1>5. /\ InOrder(snd', rcv') /\ credit' \in [Streams -> Nat] /\ session' \in Sessions
      /\ session'.closed /\ session'.waiter = ss.waiter
      /\ \A j \in Streams : /\ snd[j] = NoSend => snd'[j] = NoSend
                            /\ rcv[j] = NoRecv => rcv'[j] = NoRecv
      /\ ~ss.closed => Entries' \cup Flows' = {}
      /\ ss.closed => snd' = snd /\ rcv' = rcv
  <2>1. setup' = setup /\ CloseAll(snd, rcv, ss)
    BY <1>1, <1>2
  <2> QED
    BY <1>3, <1>4, <2>1, ClosedTables
<1>6. /\ Streams' = Streams /\ Wire' = Wire /\ PeerState' = PeerState
      /\ Histories' = Histories /\ Channel' = Channel
  BY <1>1, SameTypes
<1>7. chan' \in Channel /\ slot' \in Seq(Wire) /\ Len(slot') <= 1
  BY <1>1 DEF Channel
<1>8. TypeOK'
  BY <1>1, <1>5, <1>6, <1>7 DEF TypeOK, InOrder
<1>9. Unborn'
  BY <1>1, <1>5, <1>6 DEF IInv, Books, Unborn, Born
<1>10. Reserving' /\ EndRead' /\ HonestPeerTrusted'
  BY <1>1, <1>5, <1>6 DEF Reserving, EndRead, InOrder, IInv, Books, HonestPeerTrusted
<1>11. Ending'
  <2>1. Entries' \cup Flows' \subseteq hist.late
    <3>1. CASE ~session.closed
      BY <1>3, <1>5, <3>1
    <3>2. CASE session.closed
      <4>1. Entries' = Entries /\ Flows' = Flows
        BY <1>3, <1>5, <1>6, <3>2 DEF Entries, Flows
      <4> QED
        BY <3>2, <4>1 DEF IInv, Books, Ending
    <3> QED
      BY <3>1, <3>2
  <2> QED
    BY <1>1, <1>3, <1>5, <2>1 DEF Ending
<1> QED
  BY <1>1, <1>7, <1>8, <1>9, <1>10, <1>11 DEF IInv, Books

-----------------------------------------------------------------------------
(* Steps of the peer                                                       *)

(* The peer, which is x but for the frame g, sends g. *)
LEMMA PeerStep ==
    ASSUME TypeOK, IInv, NEW p \in PeerState, p = peer, NEW x \in PeerState, NEW g \in Wire,
           PeerSends(x, g), x.net = p.net, Learnt(p, x), x.inEnd = p.inEnd, x.got = p.got,
           x.credit = p.credit, NewNet(x, p.net, g),
           \A id \in x.known : id \in p.known \/ (g.t = "open" /\ g.id = id),
           g.t = "open" =>
              \A j \in Streams : Key(j) = Key(g.id) /\ j.n < g.id.n => j \in p.known,
           \A id \in Streams : /\ p.sent[id] + Payload(g, id) <= x.sent[id]
                               /\ x.sent[id] <= x.credit[id]
    PROVE  TypeOK' /\ IInv'
<1>1. /\ task = "run" /\ peer' = [x EXCEPT !.net = Append(@, g)]
      /\ UNCHANGED <<setup, next, snd, rcv, chan, slot, credit, accept, session, task, hist>>
  BY DEF PeerSends
<1>2. PICK q : q = [x EXCEPT !.net = Append(p.net, g)]
  OBVIOUS
<1>3. q = peer' /\ Append(p.net, g) \in Seq(Wire) /\ p.net \in Seq(Wire)
  BY <1>1, <1>2 DEF PeerState
<1>4. q \in PeerState
  BY <1>2, <1>3, Zenon DEF PeerState
<1>5. q.net = Append(p.net, g) /\ Less(x, q)
  BY <1>2 DEF PeerState, Less
<1>6. /\ q.known = x.known /\ q.inEnd = p.inEnd /\ q.outEnd = x.outEnd /\ q.got = p.got
      /\ q.granted = x.granted /\ q.credit = p.credit /\ q.sent = x.sent
  BY <1>5 DEF Less
<1>7. PICK out \in Seq(Wire) : out = Outgoing
  <2>1. slot \in Seq(Wire) /\ chan.q \in Seq(Wire)
    BY DEF TypeOK, Channel
  <2>2. slot \o chan.q \in Seq(Wire)
    BY <2>1, ConcatProperties
  <2> QED
    BY <2>2 DEF Outgoing
<1>8. Link(p, out) /\ setup \in Setups /\ snd \in [Streams -> SendState]
  BY <1>1, <1>7 DEF IInv, TypeOK
<1>9. Learnt(p, q) /\ NewNet(q, p.net, g)
  BY <1>6 DEF Learnt, NewNet
<1>10. \A id : On(q.net, id, {"open"}) <=> On(p.net, id, {"open"}) \/ (g.id = id /\ g.t \in {"open"})
  BY <1>3, <1>5, OnAppend
<1>11. \A id \in q.known : id \in p.known \/ (g.t = "open" /\ g.id = id /\ ~id.local /\ ~Born(id))
  BY <1>6 DEF NewNet
<1>12. NetFrames(q)
  BY <1>4, <1>5, <1>8, <1>9, NetFramesAppend DEF Link
<1>13. Openings(q)
  <2>1. \A id \in q.known : id \notin p.known =>
           /\ \A j \in Streams : ~id.local /\ Key(j) = Key(id) /\ j.n < id.n => j \in q.known
           /\ ~id.local /\ On(q.net, id, {"open"}) /\ ~Born(id)
    BY <1>9, <1>10, <1>11 DEF Learnt
  <2> QED
    BY <1>4, <1>8, <1>9, <1>10, <2>1, OpeningsGrow DEF Link
<1>14. PeerCredit(q)
  <2>1. SUFFICES ASSUME NEW id \in Streams
                 PROVE  /\ Counted(q, id) /\ q.sent[id] <= q.credit[id]
                        /\ q.credit[id] <= rcv[id].granted /\ credit[id] <= rcv[id].granted
    BY DEF PeerCredit
  <2>2. /\ Counted(p, id) /\ p.credit[id] <= rcv[id].granted /\ credit[id] <= rcv[id].granted
    BY <1>8 DEF Link, PeerCredit
  <2>3. Counted(q, id)
    BY <1>4, <1>5, <1>6, <2>2, CountedAppend
  <2> QED
    BY <1>6, <2>2, <2>3
<1>15. OutFrames(q, out)
  BY <1>6, <1>8, <1>9, <1>11, OutFramesPeer DEF Link, Learnt
<1>16. Announced(q, out)
  BY <1>6, <1>8, <1>9, AnnouncedPeer DEF Link, Learnt
<1>17. OwnCredit(q, out)
  <2>1. out \in Deliverable
    BY <1>8, LinkDeliverable
  <2> QED
    BY <1>4, <1>6, <1>8, <1>9, <2>1, OwnCreditPeer DEF Link, Learnt
<1>18. ~session.started => Told(q, out)
  BY <1>6, <1>8, <1>9, ToldPeer DEF Link, Learnt
<1>19. Link(q, out)
  BY <1>12, <1>13, <1>14, <1>15, <1>16, <1>17, <1>18 DEF Link
<1>20. Link(q, out)'
  <2>1. \A id \in Streams : credit'[id] <= rcv[id].granted
    BY <1>1, <1>8 DEF Link, PeerCredit
  <2> QED
    BY <1>1, <1>19, <2>1, LinkSame
<1>21. TypeOK'
  <2>1. /\ Streams' = Streams /\ Wire' = Wire /\ PeerState' = PeerState
        /\ Histories' = Histories /\ Channel' = Channel
    BY <1>1, SameTypes
  <2> QED
    BY <1>1, <1>3, <1>4, <2>1 DEF TypeOK
<1>22. Books'
  <2>1. Unborn' /\ Reserving' /\ EndRead'
    BY <1>1 DEF IInv, Books, Unborn, Reserving, EndRead, Born, Streams
  <2>2. Ending' /\ HonestPeerTrusted' /\ Len(slot') <= 1
    BY <1>1 DEF IInv, Books, Ending, HonestPeerTrusted, Entries, Flows, Streams
  <2> QED
    BY <2>1, <2>2 DEF Books
<1>23. Outgoing' = out
  BY <1>1, <1>7 DEF Outgoing
<1> QED
  BY <1>3, <1>20, <1>21, <1>22, <1>23, LinkNow DEF IInv

(* What the peer may count on when it sends. *)
LEMMA PeerFacts ==
    ASSUME TypeOK, IInv, task = "run"
    PROVE  /\ peer \in PeerState /\ NetFrames(peer) /\ Openings(peer) /\ setup \in Setups
           /\ \A id \in Streams : /\ peer.granted[id] \in Nat /\ peer.sent[id] \in Nat
                                  /\ peer.credit[id] \in Nat
                                  /\ peer.sent[id] <= peer.credit[id]
                                  /\ peer.sent[id] + 0 <= peer.sent[id]
                                  /\ peer.granted[id] <= peer.granted[id]
           /\ \A id \in peer.known : id \in Streams /\ (~Born(id) => On(peer.net, id, {"open"}))
           /\ \A id : On(peer.net, id, {"fin", "reset"}) => id \in peer.outEnd
<1>1. peer \in PeerState /\ Link(peer, Outgoing) /\ setup \in Setups
  BY DEF TypeOK, IInv
<1>2. PICK p \in PeerState : p = peer
  BY <1>1
<1>3. NetFrames(p) /\ Openings(p) /\ PeerCredit(p)
  BY <1>1, <1>2 DEF Link
<1>4. \A id \in Streams : p.granted[id] \in Nat /\ p.sent[id] \in Nat /\ p.credit[id] \in Nat
  BY DEF PeerState
<1>5. \A id \in Streams : p.sent[id] <= p.credit[id]
  BY <1>3 DEF PeerCredit
<1>6. \A id \in p.known : id \in Streams /\ (~Born(id) => On(p.net, id, {"open"}))
  BY <1>3 DEF Openings, PeerState
<1>7. \A id : On(p.net, id, {"fin", "reset"}) => id \in p.outEnd
  BY <1>3 DEF On, NetFrames, NetFrame
<1>8. \A id \in Streams : p.sent[id] + 0 <= p.sent[id] /\ p.granted[id] <= p.granted[id]
  BY <1>4
<1> QED
  BY <1>1, <1>2, <1>3, <1>4, <1>5, <1>6, <1>7, <1>8

LEMMA NoPayload ==
    ASSUME NEW g, g.t \notin {"data", "fin"}
    PROVE  \A id : Payload(g, id) = 0
BY DEF Payload

LEMMA PeerOpenStep ==
    ASSUME TypeOK, IInv, NEW id \in Ids, PeerOpen(id)
    PROVE  TypeOK' /\ IInv'
<1>1. /\ id \in Streams \ peer.known /\ ~id.local
      /\ \A j \in Streams : Key(j) = Key(id) /\ j.n < id.n => j \in peer.known
      /\ PeerSends([peer EXCEPT !.known = @ \cup {id}], Frame("open", id, 0))
  BY DEF PeerOpen
<1>2. task = "run"
  BY <1>1 DEF PeerSends
<1>3. PICK p \in PeerState : p = peer
  BY DEF TypeOK
<1>4. PICK x : x = [p EXCEPT !.known = p.known \cup {id}]
  OBVIOUS
<1>5. PeerSends(x, Frame("open", id, 0))
  BY <1>1, <1>3, <1>4
<1>6. x \in PeerState
  <2>1. p.known \cup {id} \in SUBSET Streams
    BY <1>1 DEF PeerState
  <2> QED
    BY <1>4, <2>1, Zenon DEF PeerState
<1>7. /\ x.net = p.net /\ x.known = p.known \cup {id} /\ x.inEnd = p.inEnd /\ x.outEnd = p.outEnd
      /\ x.got = p.got /\ x.granted = p.granted /\ x.credit = p.credit /\ x.sent = p.sent
  BY <1>4 DEF PeerState
<1>8. PICK g \in Wire : g = Frame("open", id, 0) /\ g.t = "open" /\ g.id = id /\ g.n = 0
  <2>1. Frame("open", id, 0) \in Wire
    BY <1>1, FrameWire DEF TypeOK
  <2> QED
    BY <2>1 DEF Frame
<1>9. /\ NetFrames(p) /\ Openings(p) /\ setup \in Setups
      /\ \A j \in Streams : /\ p.sent[j] <= p.credit[j] /\ p.sent[j] + 0 <= p.sent[j]
                            /\ p.granted[j] <= p.granted[j]
  BY <1>2, <1>3, PeerFacts
<1>10. ~Born(id)
  BY <1>1, <1>3, <1>9 DEF Openings
<1>11. ASSUME NEW j \in DOMAIN p.net, p.net[j].t = "open", Key(p.net[j].id) = Key(id)
       PROVE  p.net[j].id.n < id.n
  <2>1. PICK k \in Streams : k = p.net[j].id /\ k \in p.known /\ ~k.local
    BY <1>9, <1>11 DEF NetFrames, NetFrame, PeerState
  <2>2. ~(id.n < k.n)
    BY <1>1, <1>3, <1>9, <1>11, <2>1 DEF Openings
  <2>3. id.n # k.n
    BY <1>1, <1>3, <1>9, <1>11, <2>1, SameId
  <2>4. id.n \in Nat /\ k.n \in Nat
    BY <1>1, <1>9, <2>1, StreamIds
  <2>5. k.n < id.n
    BY ONLY <2>2, <2>3, <2>4
  <2> QED
    BY <2>1, <2>5
<1>12. NewNet(x, p.net, g)
  BY <1>1, <1>7, <1>8, <1>10, <1>11 DEF NewNet
<1>13. Learnt(p, x)
  BY <1>7, <1>9 DEF Learnt
<1>14. \A j \in Streams : p.sent[j] + Payload(g, j) <= x.sent[j] /\ x.sent[j] <= x.credit[j]
  BY <1>7, <1>8, <1>9, NoPayload
<1> QED
  BY <1>1, <1>3, <1>5, <1>6, <1>7, <1>8, <1>12, <1>13, <1>14, PeerStep

LEMMA PeerWritesStep ==
    ASSUME TypeOK, IInv, NEW id \in Ids, PeerWrites(id)
    PROVE  TypeOK' /\ IInv'
<1>1. id \in peer.known \ peer.outEnd /\ RecvSide(id)
  BY DEF PeerWrites
<1>2. PICK n \in 0..setup.units, t \in {"data", "fin"} :
          /\ t = "data" => n > 0
          /\ peer.sent[id] + n <= Min({peer.credit[id], setup.units})
          /\ PeerSends([peer EXCEPT !.sent[id] = @ + n,
                          !.outEnd = IF t = "fin" THEN @ \cup {id} ELSE @], Frame(t, id, n))
  BY DEF PeerWrites
<1>3. task = "run"
  BY <1>2 DEF PeerSends
<1>4. PICK p \in PeerState : p = peer
  BY DEF TypeOK
<1>5. /\ NetFrames(p) /\ Openings(p) /\ setup \in Setups /\ id \in Streams
      /\ \A j \in Streams : /\ p.sent[j] <= p.credit[j] /\ p.sent[j] + 0 <= p.sent[j]
                            /\ p.granted[j] <= p.granted[j]
                            /\ p.sent[j] \in Nat /\ p.credit[j] \in Nat
      /\ ~Born(id) => On(p.net, id, {"open"})
      /\ ~On(p.net, id, {"fin", "reset"})
  BY <1>1, <1>3, <1>4, PeerFacts
<1>6. n \in Nat /\ p.sent[id] + n <= p.credit[id]
  <2>1. setup.units \in Nat /\ n \in Nat
    BY <1>5, BrowserAssumption
  <2>2. /\ Min({p.credit[id], setup.units}) <= p.credit[id]
        /\ Min({p.credit[id], setup.units}) \in {p.credit[id], setup.units}
    <3>1. p.credit[id] \in Int /\ setup.units \in Int
      BY <1>5, <2>1
    <3> QED
      BY ONLY <3>1, MinOfTwo, Zenon
  <2>3. PICK m \in Nat : m = Min({p.credit[id], setup.units}) /\ m <= p.credit[id]
    BY <1>5, <2>1, <2>2
  <2>4. p.sent[id] + n <= m
    BY <1>2, <1>4, <2>3
  <2> QED
    BY <1>5, <2>1, <2>3, <2>4
<1>7. PICK o, st : o = (IF t = "fin" THEN p.outEnd \cup {id} ELSE p.outEnd)
                   /\ st = [p.sent EXCEPT ![id] = p.sent[id] + n]
  OBVIOUS
<1>8. o \in SUBSET Streams /\ st \in [Streams -> Nat]
  BY <1>5, <1>6, <1>7 DEF PeerState
<1>9. PICK x : x = [p EXCEPT !.sent = st, !.outEnd = o]
  OBVIOUS
<1>10. PeerSends(x, Frame(t, id, n))
  <2>1. [peer EXCEPT !.sent[id] = @ + n, !.outEnd = IF t = "fin" THEN @ \cup {id} ELSE @] = x
    BY <1>4, <1>7, <1>9 DEF PeerState
  <2> QED
    BY <1>2, <2>1
<1>11. x \in PeerState
  BY <1>8, <1>9, Zenon DEF PeerState
<1>12. /\ x.net = p.net /\ x.known = p.known /\ x.inEnd = p.inEnd /\ x.outEnd = o
       /\ x.got = p.got /\ x.granted = p.granted /\ x.credit = p.credit /\ x.sent = st
  BY <1>9 DEF PeerState
<1>13. PICK g \in Wire : g = Frame(t, id, n) /\ g.t = t /\ g.id = id /\ g.n = n
  <2>1. Frame(t, id, n) \in Wire
    BY <1>5, <1>6, FrameWire
  <2> QED
    BY <2>1 DEF Frame
<1>14. NewNet(x, p.net, g)
  <2>1. id \notin hist.half /\ Born(id) => rcv[id].entry # "none"
    BY <1>1, <1>4, <1>5 DEF Openings
  <2>2. t = "fin" => id \in o
    BY <1>7
  <2> QED
    BY <1>1, <1>2, <1>4, <1>5, <1>12, <1>13, <2>1, <2>2 DEF NewNet
<1>15. Learnt(p, x)
  <2>1. p.outEnd \subseteq o
    BY <1>7
  <2> QED
    BY <1>5, <1>12, <2>1 DEF Learnt
<1>16. ASSUME NEW j \in Streams
       PROVE  p.sent[j] + Payload(g, j) <= x.sent[j] /\ x.sent[j] <= x.credit[j]
  <2>1. CASE j = id
    <3>1. x.sent[j] = p.sent[id] + n /\ Payload(g, j) = n
      BY <1>5, <1>7, <1>12, <1>13, <2>1 DEF Payload, PeerState
    <3> QED
      BY <1>5, <1>6, <1>12, <2>1, <3>1
  <2>2. CASE j # id
    <3>1. x.sent[j] = p.sent[j] /\ Payload(g, j) = 0
      BY <1>5, <1>7, <1>12, <1>13, <2>2 DEF Payload, PeerState
    <3> QED
      BY <1>5, <1>12, <3>1
  <2> QED
    BY <2>1, <2>2
<1> QED
  BY <1>4, <1>10, <1>11, <1>12, <1>13, <1>14, <1>15, <1>16, PeerStep

LEMMA PeerResetsStep ==
    ASSUME TypeOK, IInv, NEW id \in Ids, PeerResets(id)
    PROVE  TypeOK' /\ IInv'
<1>1. /\ id \in peer.known \ peer.outEnd /\ RecvSide(id)
      /\ PeerSends([peer EXCEPT !.outEnd = @ \cup {id}], Frame("reset", id, 0))
  BY DEF PeerResets
<1>2. task = "run"
  BY <1>1 DEF PeerSends
<1>3. PICK p \in PeerState : p = peer
  BY DEF TypeOK
<1>4. /\ setup \in Setups /\ id \in Streams
      /\ \A j \in Streams : /\ p.sent[j] <= p.credit[j] /\ p.sent[j] + 0 <= p.sent[j]
                            /\ p.granted[j] <= p.granted[j]
      /\ ~Born(id) => On(p.net, id, {"open"})
  BY <1>1, <1>2, <1>3, PeerFacts
<1>5. PICK x : x = [p EXCEPT !.outEnd = p.outEnd \cup {id}]
  OBVIOUS
<1>6. PeerSends(x, Frame("reset", id, 0))
  BY <1>1, <1>3, <1>5
<1>7. x \in PeerState
  <2>1. p.outEnd \cup {id} \in SUBSET Streams
    BY <1>4 DEF PeerState
  <2> QED
    BY <1>5, <2>1, Zenon DEF PeerState
<1>8. /\ x.net = p.net /\ x.known = p.known /\ x.inEnd = p.inEnd /\ x.outEnd = p.outEnd \cup {id}
      /\ x.got = p.got /\ x.granted = p.granted /\ x.credit = p.credit /\ x.sent = p.sent
  BY <1>5 DEF PeerState
<1>9. PICK g \in Wire : g = Frame("reset", id, 0) /\ g.t = "reset" /\ g.id = id
  <2>1. Frame("reset", id, 0) \in Wire
    BY <1>4, FrameWire
  <2> QED
    BY <2>1 DEF Frame
<1>10. NewNet(x, p.net, g)
  BY <1>1, <1>3, <1>4, <1>8, <1>9 DEF NewNet
<1>11. Learnt(p, x)
  BY <1>4, <1>8 DEF Learnt
<1>12. \A j \in Streams : p.sent[j] + Payload(g, j) <= x.sent[j] /\ x.sent[j] <= x.credit[j]
  BY <1>4, <1>8, <1>9, NoPayload
<1> QED
  BY <1>3, <1>6, <1>7, <1>8, <1>9, <1>10, <1>11, <1>12, PeerStep

(* The peer grants one unit more. *)
LEMMA PeerGrantsStep ==
    ASSUME TypeOK, IInv, NEW id \in peer.known, SendSide(id),
           PeerSends([peer EXCEPT !.granted[id] = @ + 1], Frame("max", id, peer.granted[id] + 1))
    PROVE  TypeOK' /\ IInv'
<1>2. task = "run"
  BY DEF PeerSends
<1>3. PICK p \in PeerState : p = peer
  BY DEF TypeOK
<1>4. /\ setup \in Setups /\ id \in Streams
      /\ \A j \in Streams : /\ p.sent[j] <= p.credit[j] /\ p.sent[j] + 0 <= p.sent[j]
                            /\ p.granted[j] <= p.granted[j] /\ p.granted[j] \in Nat
      /\ ~Born(id) => On(p.net, id, {"open"})
  BY <1>2, <1>3, PeerFacts
<1>5. PICK m \in Nat : m = p.granted[id] + 1
  BY <1>4
<1>6. PICK gr : gr = [p.granted EXCEPT ![id] = m]
  OBVIOUS
<1>7. PICK x : x = [p EXCEPT !.granted = gr]
  OBVIOUS
<1>8. PeerSends(x, Frame("max", id, m))
  <2>1. [peer EXCEPT !.granted[id] = @ + 1] = x
    BY <1>3, <1>5, <1>6, <1>7 DEF PeerState
  <2> QED
    BY <1>3, <1>5, <2>1
<1>9. x \in PeerState
  <2>1. gr \in [Streams -> Nat]
    BY <1>6 DEF PeerState
  <2> QED
    BY <1>7, <2>1, Zenon DEF PeerState
<1>10. /\ x.net = p.net /\ x.known = p.known /\ x.inEnd = p.inEnd /\ x.outEnd = p.outEnd
       /\ x.got = p.got /\ x.granted = gr /\ x.credit = p.credit /\ x.sent = p.sent
  BY <1>7 DEF PeerState
<1>11. PICK g \in Wire : g = Frame("max", id, m) /\ g.t = "max" /\ g.id = id /\ g.n = m
  <2>1. Frame("max", id, m) \in Wire
    BY <1>4, FrameWire
  <2> QED
    BY <2>1 DEF Frame
<1>12. gr[id] = m /\ m <= m /\ \A j \in Streams : p.granted[j] <= gr[j]
  BY <1>4, <1>5, <1>6 DEF PeerState
<1>13. NewNet(x, p.net, g)
  BY <1>3, <1>4, <1>10, <1>11, <1>12 DEF NewNet
<1>14. Learnt(p, x)
  BY <1>10, <1>12 DEF Learnt
<1>15. \A j \in Streams : p.sent[j] + Payload(g, j) <= x.sent[j] /\ x.sent[j] <= x.credit[j]
  BY <1>4, <1>10, <1>11, NoPayload
<1> QED
  BY <1>3, <1>8, <1>9, <1>10, <1>11, <1>13, <1>14, <1>15, PeerStep

(* The peer asks for no more. *)
LEMMA PeerStopsStep ==
    ASSUME TypeOK, IInv, NEW id \in peer.known, SendSide(id),
           PeerSends([peer EXCEPT !.stopped = @ \cup {id}], Frame("stop", id, 0))
    PROVE  TypeOK' /\ IInv'
<1>2. task = "run"
  BY DEF PeerSends
<1>3. PICK p \in PeerState : p = peer
  BY DEF TypeOK
<1>4. /\ setup \in Setups /\ id \in Streams
      /\ \A j \in Streams : /\ p.sent[j] <= p.credit[j] /\ p.sent[j] + 0 <= p.sent[j]
                            /\ p.granted[j] <= p.granted[j]
      /\ ~Born(id) => On(p.net, id, {"open"})
  BY <1>2, <1>3, PeerFacts
<1>5. PICK x : x = [p EXCEPT !.stopped = p.stopped \cup {id}]
  OBVIOUS
<1>6. PeerSends(x, Frame("stop", id, 0))
  BY <1>3, <1>5
<1>7. x \in PeerState
  <2>1. p.stopped \cup {id} \in SUBSET Streams
    BY <1>4 DEF PeerState
  <2> QED
    BY <1>5, <2>1, Zenon DEF PeerState
<1>8. /\ x.net = p.net /\ x.known = p.known /\ x.inEnd = p.inEnd /\ x.outEnd = p.outEnd
      /\ x.got = p.got /\ x.granted = p.granted /\ x.credit = p.credit /\ x.sent = p.sent
  BY <1>5 DEF PeerState
<1>9. PICK g \in Wire : g = Frame("stop", id, 0) /\ g.t = "stop" /\ g.id = id
  <2>1. Frame("stop", id, 0) \in Wire
    BY <1>4, FrameWire
  <2> QED
    BY <2>1 DEF Frame
<1>10. NewNet(x, p.net, g)
  BY <1>3, <1>4, <1>8, <1>9 DEF NewNet
<1>11. Learnt(p, x)
  BY <1>4, <1>8 DEF Learnt
<1>12. \A j \in Streams : p.sent[j] + Payload(g, j) <= x.sent[j] /\ x.sent[j] <= x.credit[j]
  BY <1>4, <1>8, <1>9, NoPayload
<1> QED
  BY <1>3, <1>6, <1>7, <1>8, <1>9, <1>10, <1>11, <1>12, PeerStep

LEMMA PeerReadsStep ==
    ASSUME TypeOK, IInv, NEW id \in Ids, PeerReads(id)
    PROVE  TypeOK' /\ IInv'
BY PeerGrantsStep, PeerStopsStep DEF PeerReads

LEMMA PeerClosesStep ==
    ASSUME TypeOK, IInv, PeerCloses
    PROVE  TypeOK' /\ IInv'
<1>1. PeerSends(peer, Frame("close", NoId, 0))
  BY DEF PeerCloses
<1>2. task = "run"
  BY <1>1 DEF PeerSends
<1>3. PICK p \in PeerState : p = peer
  BY DEF TypeOK
<1>4. \A j \in Streams : /\ p.sent[j] <= p.credit[j] /\ p.sent[j] + 0 <= p.sent[j]
                         /\ p.granted[j] <= p.granted[j]
  BY <1>2, <1>3, PeerFacts
<1>5. PICK g \in Wire : g = Frame("close", NoId, 0) /\ g.t = "close"
  <2>1. Frame("close", NoId, 0) \in Frames
    BY DEF Frame, Frames
  <2>2. PICK g : g = Frame("close", NoId, 0)
    OBVIOUS
  <2>3. g.t = "close"
    BY <2>2 DEF Frame
  <2>4. g \in Wire
    BY <2>1, <2>2, <2>3 DEF Wire
  <2> QED
    BY <2>2, <2>3, <2>4
<1>6. NewNet(p, p.net, g)
  BY <1>5 DEF NewNet
<1>7. Learnt(p, p)
  BY <1>4 DEF Learnt
<1>8. \A j \in Streams : p.sent[j] + Payload(g, j) <= p.sent[j] /\ p.sent[j] <= p.credit[j]
  BY <1>4, <1>5, NoPayload
<1> QED
  BY <1>1, <1>3, <1>5, <1>6, <1>7, <1>8, PeerStep

-----------------------------------------------------------------------------
(* The invariant holds                                                     *)

LEMMA InitTypeOK == ASSUME Init PROVE TypeOK
<1>1. setup \in Setups /\ task \in {"run", "closing", "ended"} /\ session \in Sessions
  BY DEF Init, Sessions
<1>2. next \in [[local : BOOLEAN, bi : BOOLEAN] -> Nat]
  BY DEF Init
<1>3. NoSend \in SendState
  BY DEF NoSend, SendState
<1>4. NoRecv \in RecvState
  BY BrowserAssumption DEF NoRecv, RecvState, Events
<1>5. snd \in [Streams -> SendState] /\ rcv \in [Streams -> RecvState]
  BY <1>3, <1>4 DEF Init
<1>6. chan \in Channel /\ slot \in Seq(Wire)
  BY DEF Init, Channel
<1>7. credit \in [Streams -> Nat] /\ accept \in [BOOLEAN -> Seq(Streams)]
  BY DEF Init
<1>8. peer \in PeerState
  BY DEF Init, PeerState
<1>9. hist \in Histories
  BY DEF Init, Histories
<1> QED
  BY <1>1, <1>2, <1>5, <1>6, <1>7, <1>8, <1>9 DEF TypeOK

LEMMA InitIInv == ASSUME Init PROVE IInv
<1>1. /\ setup \in Setups /\ \A id \in Streams : snd[id] = NoSend /\ rcv[id] = NoRecv
      /\ \A b \in BOOLEAN : accept[b] = <<>>
      /\ slot = <<>> /\ Outgoing = <<>> /\ task = "run"
      /\ ~session.closed /\ hist.accused = {}
  BY DEF Init, Outgoing
<1>2. /\ peer.net = <<>> /\ peer.known = {} /\ peer.inEnd = {}
      /\ \A id \in Streams : /\ peer.got[id] = 0 /\ peer.granted[id] = 0
                             /\ peer.credit[id] = 0 /\ peer.sent[id] = 0 /\ credit[id] = 0
  BY DEF Init
<1>3. \A id \in Streams : ~Born(id)
  BY <1>1, StreamIds DEF Init, Born, Key
<1>4. /\ Window \in Nat /\ NoSend.flow # "open" /\ NoSend.handle # "dropped"
      /\ ~NoSend.finished /\ NoSend.max = 0 /\ NoSend.sent = 0 /\ NoSend.grant = 0
      /\ NoSend.pc = "idle" /\ NoRecv.entry = "none" /\ NoRecv.received = 0
      /\ NoRecv.granted = Window /\ ~NoRecv.finished /\ NoRecv.ev = <<>>
  BY BrowserAssumption DEF NoSend, NoRecv
<1>5. Unborn /\ Reserving /\ EndRead
  BY <1>1, <1>4 DEF Unborn, Reserving, Reserves, EndRead, ReadsToEnd
<1>6. Ending /\ HonestPeerTrusted /\ Len(slot) <= 1
  BY <1>1 DEF Ending, HonestPeerTrusted
<1>7. OutFrames(peer, <<>>) /\ NetFrames(peer) /\ Openings(peer)
  BY <1>2, <1>3 DEF OutFrames, NetFrames, Openings
<1>8. Announced(peer, <<>>) /\ Told(peer, <<>>)
  BY <1>1, <1>2, <1>4 DEF Announced, Told
<1>9. PeerCredit(peer)
  <2>1. ASSUME NEW id \in Streams PROVE Counted(peer, id)
    <3>1. Len(peer.net) = 0 /\ peer.sent[id] = 0 /\ rcv[id].received = 0
      BY <1>1, <1>2, <1>4
    <3>2. PICK c : c = [i \in 0..0 |-> 0]
      OBVIOUS
    <3>3. c \in [0..Len(peer.net) -> 0..peer.sent[id]] /\ c[0] = 0
      BY <3>1, <3>2
    <3>4. \A i \in 1..Len(peer.net) : c[i] = c[i - 1] + Payload(peer.net[i], id)
      BY <3>1
    <3> QED
      BY <3>1, <3>3, <3>4 DEF Counted
  <2> QED
    BY <1>1, <1>2, <1>4, <2>1 DEF PeerCredit
<1>10. OwnCredit(peer, <<>>)
  BY <1>1, <1>2, <1>4, DeliveredNone DEF OwnCredit
<1> QED
  BY <1>1, <1>5, <1>6, <1>7, <1>8, <1>9, <1>10 DEF IInv, Books, Link

LEMMA StutterStep == ASSUME TypeOK, IInv, UNCHANGED vars PROVE TypeOK' /\ IInv'
<1>1. UNCHANGED <<setup, next, snd, rcv, chan, slot, credit, accept, session, task, peer, hist>>
  BY DEF vars
<1>2. TypeOK'
  BY <1>1, SameTypes DEF TypeOK
<1>3. Books'
  BY <1>1 DEF IInv, Books, Unborn, Reserving, EndRead, Ending, HonestPeerTrusted, Born,
              Streams, Entries, Flows
<1>4. ASSUME task = "run" PROVE Link(peer, Outgoing)'
  <2>1. PICK out, p : out = Outgoing /\ p = peer
    OBVIOUS
  <2>2. Link(p, out) /\ out = Outgoing' /\ p = peer'
    BY <1>1, <1>4, <2>1 DEF IInv, Outgoing
  <2>3. \A id \in Streams : credit'[id] <= rcv[id].granted
    BY <1>1, <2>2 DEF Link, PeerCredit
  <2>4. Link(p, out)'
    BY <1>1, <2>2, <2>3, LinkSame
  <2> QED
    BY <2>2, <2>4, LinkNow
<1> QED
  BY <1>1, <1>2, <1>3, <1>4 DEF IInv

LEMMA ApplicationStep == ASSUME TypeOK, IInv, Application PROVE TypeOK' /\ IInv'
<1>1. CASE \E id \in Ids :
             \/ Open(id) \/ WriteBuf(id) \/ CancelWrite(id) \/ Finish(id) \/ Reset(id)
             \/ PollWrite(id) \/ PollClose(id) \/ DropSend(id)
             \/ Read(id) \/ Stop(id) \/ DropRecv(id)
  BY <1>1, OpenStep, WriteBufStep, CancelWriteStep, FinishStep, ResetStep, PollWriteStep,
     PollCloseStep, DropSendStep, ReadStep, StopStep, DropRecvStep
<1>2. CASE (\E b \in BOOLEAN : Accept(b)) \/ Shutdown \/ DropSession
  BY <1>2, AcceptStep, ShutdownStep, DropSessionStep
<1> QED
  BY <1>1, <1>2 DEF Application

LEMMA InvariantStep == ASSUME TypeOK, IInv, [Next]_vars PROVE TypeOK' /\ IInv'
<1>1. CASE Application
  BY <1>1, ApplicationStep
<1>2. CASE \E id \in Ids : PollWriteBuf(id)
  BY <1>2, PollWriteBufStep
<1>3. CASE Loop
  BY <1>3, HandleOpenStep, HandleStreamStep, HandleResetStep, HandleStopStep, HandleMaxStep,
     HandleCloseStep, OutboundStep, LoopEndsStep, FinishTaskStep DEF Loop
<1>4. CASE ConnEnds
  BY <1>4, LoopEndsStep
<1>5. CASE Peer
  BY <1>5, PeerOpenStep, PeerWritesStep, PeerResetsStep, PeerReadsStep, PeerClosesStep DEF Peer
<1>6. CASE UNCHANGED vars
  BY <1>6, StutterStep
<1> QED
  BY <1>1, <1>2, <1>3, <1>4, <1>5, <1>6 DEF Next

(* Whatever the application, the peer and the connection do, every table,   *)
(* queue and counter of the session keeps its type and the inductive        *)
(* invariant holds.                                                         *)
THEOREM SessionInvariant == Spec => [](TypeOK /\ IInv)
<1>1. Init => TypeOK /\ IInv
  BY InitTypeOK, InitIInv
<1>2. (TypeOK /\ IInv) /\ [Next]_vars => (TypeOK /\ IInv)'
  BY InvariantStep
<1> QED
  BY <1>1, <1>2, PTL DEF Spec

(* The event loop accuses an honest peer of a protocol violation only by a  *)
(* frame of a stream whose own open_bi failed behind its OPEN frame: for    *)
(* any number of streams, limits and window, whatever crosses a stop, a     *)
(* drop, a reset or a finish of another stream is tolerated by handle_frame. *)
THEOREM HonestPeerIsTrusted == Spec => []HonestPeerTrusted
<1>1. IInv => HonestPeerTrusted
  BY DEF IInv, Books
<1> QED
  BY <1>1, SessionInvariant, PTL

(* When the task has ended, close_all has released every table entry and    *)
(* flow but those opened after it, and nobody waits in Session::shutdown.   *)
THEOREM EndReleases == Spec => []EndReleasesStreams
<1>1. IInv => EndReleasesStreams
  BY DEF IInv, Books, Ending, EndReleasesStreams
<1> QED
  BY <1>1, SessionInvariant, PTL

(* A handle that was dropped has told the peer, by a frame that is queued   *)
(* or has arrived, or the failure to queue it was reported to the caller,   *)
(* or the session is being shut down: with any queue length and any order   *)
(* of drops, resets, finishes and stops.                                    *)
THEOREM DropTellsPeer == Spec => []PeerToldOrReported
<1>1. ASSUME TypeOK, IInv PROVE PeerToldOrReported
  <2>1. \A id, types : On(Outgoing, id, types) <=> Queued(id, types)
    BY DEF On, Queued
  <2>2. task = "run" /\ ~session.started => Told(peer, Outgoing)
    BY <1>1 DEF IInv, Link
  <2> QED
    BY <2>1, <2>2 DEF Told, PeerToldOrReported
<1> QED
  BY <1>1, SessionInvariant, PTL

(* Every frame under way will be accepted by the peer: no data or FIN       *)
(* follows a FIN or RESET of its stream or precedes its OPEN, and the data  *)
(* of a stream, delivered and under way, stays within what the peer has     *)
(* granted, for any number of streams, any chunk size and any queue length. *)
THEOREM PeerAcceptsFrames == Spec => []PeerAccepts
<1>1. ASSUME TypeOK, IInv, task = "run",
             NEW i \in DOMAIN Outgoing, Outgoing[i].t \in {"data", "fin"}
      PROVE  /\ Outgoing[i].id \notin peer.inEnd
             /\ \A j \in 1..(i - 1) : Outgoing[j].id = Outgoing[i].id =>
                                         Outgoing[j].t \notin {"fin", "reset"}
             /\ \/ Outgoing[i].id \in peer.known
                \/ \E j \in 1..(i - 1) : Outgoing[j] = Frame("open", Outgoing[i].id, 0)
  <2>1. PICK out \in Seq(Wire) : out = Outgoing
    <3>1. slot \in Seq(Wire) /\ chan.q \in Seq(Wire)
      BY <1>1 DEF TypeOK, Channel
    <3>2. slot \o chan.q \in Seq(Wire)
      BY <3>1, ConcatProperties
    <3> QED
      BY <3>2 DEF Outgoing
  <2>2. OutFrames(peer, out) /\ i \in DOMAIN out /\ out[i].t \in {"data", "fin"}
    BY <1>1, <2>1 DEF IInv, Link
  <2>3. /\ out[i].id \notin peer.inEnd /\ ~Before(out, i, out[i].id, {"fin", "reset"})
        /\ out[i].id \in peer.known \/ Before(out, i, out[i].id, {"open"})
    BY <2>2 DEF OutFrames, OutFrame
  <2>4. ASSUME NEW j \in 1..(i - 1), out[j].id = out[i].id, out[j].t = "open"
        PROVE  out[j] = Frame("open", out[i].id, 0)
    <3>1. j \in DOMAIN out
      BY <2>2
    <3>2. out[j] \in Wire /\ out[j].n = 0
      BY <2>2, <2>4, <3>1 DEF OutFrames, OutFrame
    <3> QED
      BY <2>4, <3>2 DEF Wire, Frames, Frame
  <2> QED
    BY <2>1, <2>3, <2>4 DEF Before
<1>2. ASSUME TypeOK, IInv, task = "run", NEW id \in Streams
      PROVE  Delivered(peer, Outgoing).got[id] <= peer.granted[id]
  <2>1. PICK out \in Seq(Wire) : out = Outgoing
    <3>1. slot \in Seq(Wire) /\ chan.q \in Seq(Wire)
      BY <1>2 DEF TypeOK, Channel
    <3>2. slot \o chan.q \in Seq(Wire)
      BY <3>1, ConcatProperties
    <3> QED
      BY <3>2 DEF Outgoing
  <2>2. PICK p \in PeerState : p = peer
    BY <1>2 DEF TypeOK
  <2>3. Link(p, out)
    BY <1>2, <2>1, <2>2 DEF IInv
  <2>4. out \in Deliverable
    BY <1>2, <2>3, LinkDeliverable DEF TypeOK
  <2>5. PICK d \in PeerState : d = Delivered(p, out)
    BY <1>2, <2>4, DeliveredType DEF TypeOK
  <2>6. PICK k \in Nat : k = d.got[id]
    BY DEF PeerState
  <2>7. PICK m \in Nat : m = p.granted[id]
    BY DEF PeerState
  <2>8. snd[id].max <= m /\ k + snd[id].grant <= snd[id].sent
    BY <2>3, <2>5, <2>6, <2>7 DEF Link, OwnCredit
  <2>9. snd[id].sent <= snd[id].max
    BY <1>2 DEF IInv, Books, Reserving, Reserves
  <2>10. snd[id].max \in Nat /\ snd[id].sent \in Nat /\ snd[id].grant \in Nat
    BY <1>2 DEF TypeOK, SendState
  <2>11. k <= m
    BY ONLY <2>8, <2>9, <2>10, k \in Nat, m \in Nat
  <2> QED
    BY <2>1, <2>2, <2>5, <2>6, <2>7, <2>11
<1>3. TypeOK /\ IInv => PeerAccepts
  BY <1>1, <1>2 DEF PeerAccepts
<1> QED
  BY <1>3, SessionInvariant, PTL

=============================================================================
