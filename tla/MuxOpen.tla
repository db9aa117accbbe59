------------------------------ MODULE MuxOpen ------------------------------
(***************************************************************************)
(* The stream tables of two sessions of websock-tungstenite-mux: which ids *)
(* are allocated, opened, accepted, in use and retired at each endpoint.   *)
(*                                                                         *)
(* Session::open_uni/open_bi run in opener tasks; each endpoint's inbound  *)
(* task handles OpenUni, OpenBi, Stream with FIN, ResetStream and          *)
(* StopSending.  Payloads and the credit they need are MuxFlow's subject:  *)
(* data and MaxStreamData frames change none of the tables here, except    *)
(* for pending_credit, which has one slot per stream.                      *)
(*                                                                         *)
(* net[e] is what e has put in its outbound queue and the peer's inbound   *)
(* task has not read.  A call that waits for a queue slot is a call whose  *)
(* publishing step has not happened yet; try_send may find the queue full. *)
(* The behaviour ends with the first session that ends, for a protocol     *)
(* error or an abort: what follows is modelled by MuxFlow and MuxSession.  *)
(***************************************************************************)
EXTENDS Integers, Sequences, FiniteSets

CONSTANTS
    Setups,     \* configurations: the opener tasks [at, dir, k] with the bound
                \* on the ids of their counter, and Limits.max_open_streams
    AcceptLen   \* Limits.accept_uni_queue_len and accept_bi_queue_len

Ends    == {"client", "server"}
Dirs    == {"uni", "bi"}
Peer(e) == IF e = "client" THEN "server" ELSE "client"

ASSUME OpenAssumption ==
    /\ \A s \in Setups :
          /\ DOMAIN s.ids \subseteq [at : Ends, dir : Dirs, k : Nat]
          /\ s.ids \in [DOMAIN s.ids -> Nat] /\ s.limit \in Nat \ {0}
    /\ AcceptLen \in Nat \ {0}

(* StreamId: the counter, the initiator bit and the direction bit. *)
StreamId == [n : Nat, by : Ends, dir : Dirs]
Frame    == [t : {"open", "fin", "reset", "stop"}, id : StreamId]

VARIABLES
    setup,      \* the configuration, chosen once
    nextId,     \* next_uni, next_bi
    nextPeer,   \* next_peer_uni, next_peer_bi
    flows,      \* the keys of send_flows
    streams,    \* the keys of streams
    stopped,    \* those of them with RecvState.stopped
    pending,    \* the keys of pending_credit
    accept,     \* the bounded accept channels
    opening,    \* opener tasks whose OPEN is not published, with the id
    sends,      \* SendStreams the application holds, not finished
    recvs,      \* RecvStreams the application holds, not stopped
    finning,    \* FIN published, the flow not removed yet
    resetting,  \* the flow removed, RESET not published yet
    inbound,    \* ids the inbound task waits for, to send their RESET
    net,
    err         \* why the session ended: none while it is up

tables == <<nextId, nextPeer, flows, streams, stopped, pending, accept>>
apps   == <<opening, sends, recvs, finning, resetting>>
vars   == <<setup, tables, apps, inbound, net, err>>

Openers == DOMAIN setup.ids
MaxOpen == setup.limit

Init ==
    /\ setup \in Setups
    /\ nextId = [e \in Ends |-> [d \in Dirs |-> 0]] /\ nextPeer = nextId
    /\ flows = [e \in Ends |-> {}]
    /\ accept = [e \in Ends |-> [d \in Dirs |-> <<>>]]
    /\ streams = flows /\ stopped = flows /\ pending = flows
    /\ sends = flows /\ recvs = flows /\ finning = flows
    /\ resetting = flows /\ inbound = flows
    /\ opening = <<>>
    /\ net = [e \in Ends |-> <<>>]
    /\ err = [e \in Ends |-> "none"]

-----------------------------------------------------------------------------
Add(f, e, x)  == [f EXCEPT ![e] = @ \cup {x}]
Drop(f, e, x) == [f EXCEPT ![e] = @ \ {x}]
Push(e, type, id) == net' = [net EXCEPT ![e] = Append(@, [t |-> type, id |-> id])]

(* Mutant: only the peer's frontier is consulted. *)
IsRetiredByPeer(e, id, receiving) ==
    /\ ~(id.dir = "uni" /\ (id.by = e) = receiving)
    /\ id.n < nextPeer[e][id.dir]

(* is_retired_direction *)
IsRetired(e, id, receiving) ==
    LET local == id.by = e IN
    /\ ~(id.dir = "uni" /\ local = receiving)
    /\ id.n < (IF local THEN nextId ELSE nextPeer)[e][id.dir]

-----------------------------------------------------------------------------
(* Session::open_uni and open_bi *)

(* next_stream_id, register_send_flow and, for open_bi, register_recv_stream. *)
(* An id whose registration is refused is not used again.                   *)
Register(o) ==
    LET e  == o.at
        id == [n |-> nextId[e][o.dir], by |-> e, dir |-> o.dir]
    IN  /\ o \notin DOMAIN opening /\ id.n < setup.ids[o]
        /\ nextId' = [nextId EXCEPT ![e][o.dir] = @ + 1]
        /\ \/ /\ Cardinality(flows[e]) >= MaxOpen
              /\ UNCHANGED <<flows, streams, opening>>
           \/ /\ Cardinality(flows[e]) < MaxOpen
              /\ flows' = Add(flows, e, id)
              /\ streams' = IF o.dir = "bi" THEN Add(streams, e, id) ELSE streams
              /\ opening' = [p \in DOMAIN opening \cup {o} |->
                               IF p = o THEN id ELSE opening[p]]
        /\ UNCHANGED <<nextPeer, stopped, pending, accept, sends, recvs>>
        /\ UNCHANGED <<finning, resetting, inbound, net, err>>

PublishOpen(o) ==
    LET e == o.at
        id == opening[o]
    IN  /\ o \in DOMAIN opening
        /\ Push(e, "open", id)
        /\ opening' = [p \in DOMAIN opening \ {o} |-> opening[p]]
        /\ sends' = Add(sends, e, id)
        /\ recvs' = IF o.dir = "bi" THEN Add(recvs, e, id) ELSE recvs
        /\ UNCHANGED <<tables, finning, resetting, inbound, err>>

(* Dropping the future of an open aborts the session. *)
CancelOpen(o) ==
    /\ o \in DOMAIN opening
    /\ err' = [err EXCEPT ![o.at] = "aborted"]
    /\ UNCHANGED <<tables, apps, inbound, net>>

Accept(e, d) ==
    /\ accept[e][d] # <<>>
    /\ LET id == Head(accept[e][d]) IN
       /\ accept' = [accept EXCEPT ![e][d] = Tail(@)]
       /\ recvs' = Add(recvs, e, id)
       /\ sends' = IF d = "bi" THEN Add(sends, e, id) ELSE sends
    /\ UNCHANGED <<nextId, nextPeer, flows, streams, stopped, pending>>
    /\ UNCHANGED <<opening, finning, resetting, inbound, net, err>>

-----------------------------------------------------------------------------
(* SendStream and RecvStream: how the application ends a direction *)

Finish(e, id) ==
    /\ id \in sends[e] /\ id \in flows[e]
    /\ Push(e, "fin", id)
    /\ sends' = Drop(sends, e, id) /\ finning' = Add(finning, e, id)
    /\ UNCHANGED <<tables, opening, recvs, resetting, inbound, err>>

FinRemove(e, id) ==
    /\ id \in finning[e]
    /\ finning' = Drop(finning, e, id) /\ flows' = Drop(flows, e, id)
    /\ UNCHANGED <<nextId, nextPeer, streams, stopped, pending, accept>>
    /\ UNCHANGED <<opening, sends, recvs, resetting, inbound, net, err>>

Reset(e, id) ==
    /\ id \in sends[e]
    /\ sends' = Drop(sends, e, id) /\ flows' = Drop(flows, e, id)
    /\ resetting' = Add(resetting, e, id)
    /\ UNCHANGED <<nextId, nextPeer, streams, stopped, pending, accept>>
    /\ UNCHANGED <<opening, recvs, finning, inbound, net, err>>

PublishReset(e, id) ==
    /\ id \in resetting[e]
    /\ Push(e, "reset", id) /\ resetting' = Drop(resetting, e, id)
    /\ UNCHANGED <<tables, opening, sends, recvs, finning, inbound, err>>

(* Drop for SendStream: a full queue aborts the session. *)
DropSend(e, id) ==
    /\ id \in sends[e]
    /\ sends' = Drop(sends, e, id) /\ flows' = Drop(flows, e, id)
    /\ \/ Push(e, "reset", id) /\ UNCHANGED err
       \/ err' = [err EXCEPT ![e] = "aborted"] /\ UNCHANGED net
    /\ UNCHANGED <<nextId, nextPeer, streams, stopped, pending, accept>>
    /\ UNCHANGED <<opening, recvs, finning, resetting, inbound>>

(* RecvStream::stop, and Drop for RecvStream when the queue has room. *)
Stop(e, id) ==
    /\ id \in recvs[e]
    /\ recvs' = Drop(recvs, e, id)
    /\ \/ /\ id \notin streams[e]
          /\ UNCHANGED <<stopped, pending, net>>
       \/ /\ id \in streams[e]
          /\ stopped' = Add(stopped, e, id) /\ pending' = Drop(pending, e, id)
          /\ Push(e, "stop", id)
    /\ UNCHANGED <<nextId, nextPeer, flows, streams, accept>>
    /\ UNCHANGED <<opening, sends, finning, resetting, inbound, err>>

(* Mutant: retired streams keep their slots. *)
QueueCreditKeepsRetired(e, id) ==
    /\ id \in recvs[e] /\ id \in streams[e] \ stopped[e]
    /\ IF Cardinality(pending[e]) >= MaxOpen /\ id \notin pending[e]
       THEN err' = [err EXCEPT ![e] = "slots"] /\ UNCHANGED pending
       ELSE pending' = [pending EXCEPT ![e] = @ \cup {id}] /\ UNCHANGED err
    /\ UNCHANGED <<nextId, nextPeer, flows, streams, stopped, accept>>
    /\ UNCHANGED <<apps, inbound, net>>

(* queue_credit, when the application has consumed enough. *)
QueueCredit(e, id) ==
    LET slots == IF Cardinality(pending[e]) >= MaxOpen
                 THEN pending[e] \cap streams[e] ELSE pending[e]
    IN  /\ id \in recvs[e] /\ id \in streams[e] \ stopped[e]
        /\ IF Cardinality(slots) >= MaxOpen /\ id \notin slots
           THEN /\ err' = [err EXCEPT ![e] = "slots"]
                /\ pending' = [pending EXCEPT ![e] = slots]
           ELSE /\ pending' = [pending EXCEPT ![e] = slots \cup {id}]
                /\ UNCHANGED err
        /\ UNCHANGED <<nextId, nextPeer, flows, streams, stopped, accept>>
        /\ UNCHANGED <<apps, inbound, net>>

(* next_credit: the writer takes any slot. *)
NextCredit(e, id) ==
    /\ id \in pending[e]
    /\ pending' = Drop(pending, e, id)
    /\ UNCHANGED <<nextId, nextPeer, flows, streams, stopped, accept>>
    /\ UNCHANGED <<apps, inbound, net, err>>

-----------------------------------------------------------------------------
(* handle_frame *)

Incoming(e) == Head(net[Peer(e)])
Reads(e, type) ==
    /\ inbound[e] = {}
    /\ net[Peer(e)] # <<>> /\ Incoming(e).t = type

Consume(e) == net' = [net EXCEPT ![Peer(e)] = Tail(@)]

(* protocol_error: the session of e ends here (close_all). *)
ProtocolError(e, reason) ==
    /\ err' = [err EXCEPT ![e] = reason] /\ Consume(e)
    /\ flows' = [flows EXCEPT ![e] = {}] /\ streams' = [streams EXCEPT ![e] = {}]
    /\ stopped' = [stopped EXCEPT ![e] = {}]
    /\ pending' = [pending EXCEPT ![e] = {}]
    /\ accept' = [accept EXCEPT ![e] = [d \in Dirs |-> <<>>]]
    /\ UNCHANGED <<apps, inbound>>

(* Why OpenUni or OpenBi is refused, in the order of the checks. *)
OpenRefused(e, id) ==
    IF id.n < nextPeer[e][id.dir] THEN "monotonic"
    ELSE IF \/ Cardinality(streams[e]) >= MaxOpen
            \/ id.dir = "bi" /\ Cardinality(flows[e]) >= MaxOpen THEN "limit"
    ELSE IF Len(accept[e][id.dir]) >= AcceptLen THEN "accept" ELSE "none"

HandleOpen(e) ==
    /\ Reads(e, "open")
    /\ LET id == Incoming(e).id
           reason == OpenRefused(e, id)
       IN  /\ UNCHANGED nextId
           /\ nextPeer' = IF reason = "monotonic" THEN nextPeer
                          ELSE [nextPeer EXCEPT ![e][id.dir] = id.n + 1]
           /\ \/ reason # "none" /\ ProtocolError(e, reason)
              \/ /\ reason = "none" /\ Consume(e)
                 /\ streams' = Add(streams, e, id)
                 /\ flows' = IF id.dir = "bi" THEN Add(flows, e, id) ELSE flows
                 /\ accept' = [accept EXCEPT ![e][id.dir] = Append(@, id)]
                 /\ UNCHANGED <<stopped, pending, apps, inbound, err>>

(* A Stream frame with FIN: the entry goes, pending_credit is not touched. *)
HandleFin(e) ==
    /\ Reads(e, "fin")
    /\ UNCHANGED <<nextId, nextPeer>>
    /\ \/ /\ Incoming(e).id \notin streams[e] /\ ProtocolError(e, "unknown")
       \/ /\ Incoming(e).id \in streams[e] /\ Consume(e)
          /\ streams' = Drop(streams, e, Incoming(e).id)
          /\ stopped' = Drop(stopped, e, Incoming(e).id)
          /\ UNCHANGED <<flows, pending, accept, apps, inbound, err>>

HandleReset(e) ==
    /\ Reads(e, "reset")
    /\ UNCHANGED <<nextId, nextPeer>>
    /\ LET id == Incoming(e).id IN
       \/ /\ id \notin streams[e] /\ ~IsRetired(e, id, TRUE)
          /\ ProtocolError(e, "unknown")
       \/ /\ id \in streams[e] \/ IsRetired(e, id, TRUE)
          /\ Consume(e)
          /\ streams' = Drop(streams, e, id) /\ stopped' = Drop(stopped, e, id)
          /\ UNCHANGED <<flows, pending, accept, apps, inbound, err>>

(* Mutant: no RESET answers the stop. *)
HandleStopQuietly(e) ==
    /\ Reads(e, "stop") /\ Consume(e)
    /\ flows' = Drop(flows, e, Incoming(e).id)
    /\ UNCHANGED <<nextId, nextPeer, streams, stopped, pending, accept>>
    /\ UNCHANGED <<apps, inbound, err>>

HandleStop(e) ==
    /\ Reads(e, "stop")
    /\ UNCHANGED <<nextId, nextPeer>>
    /\ LET id == Incoming(e).id IN
       \/ /\ id \notin flows[e] /\ ~IsRetired(e, id, FALSE)
          /\ ProtocolError(e, "unknown")
       \/ /\ id \in flows[e] \/ IsRetired(e, id, FALSE)
          /\ Consume(e)
          /\ flows' = Drop(flows, e, id)
          /\ inbound' = [inbound EXCEPT ![e] = {id} \cap flows[e]]
          /\ UNCHANGED <<streams, stopped, pending, accept, apps, err>>

AckStop(e) ==
    /\ \E id \in inbound[e] :
          Push(e, "reset", id) /\ inbound' = Drop(inbound, e, id)
    /\ UNCHANGED <<tables, apps, err>>

-----------------------------------------------------------------------------
Application(e) ==
    \/ \E d \in Dirs : Accept(e, d)
    \/ \E id \in sends[e] : Finish(e, id) \/ Reset(e, id) \/ DropSend(e, id)
    \/ \E id \in finning[e] : FinRemove(e, id)
    \/ \E id \in resetting[e] : PublishReset(e, id)
    \/ \E id \in recvs[e] : Stop(e, id) \/ QueueCredit(e, id)

Inbound(e) == \/ HandleOpen(e) \/ HandleFin(e) \/ HandleReset(e)
              \/ HandleStop(e) \/ AckStop(e)

BothUp == \A e \in Ends : err[e] = "none"

Next ==
    /\ BothUp /\ UNCHANGED setup
    /\ \/ \E o \in Openers : Register(o) \/ PublishOpen(o) \/ CancelOpen(o)
       \/ \E e \in Ends : \/ Application(e) \/ Inbound(e)
                          \/ \E id \in pending[e] : NextCredit(e, id)

Spec == Init /\ [][Next]_vars

-----------------------------------------------------------------------------
(* Properties *)

InNet(e, types, id) ==
    \E i \in 1..Len(net[e]) : net[e][i].t \in types /\ net[e][i].id = id
Unopened(e, id) == \/ \E o \in DOMAIN opening : opening[o] = id
                   \/ InNet(e, {"open"}, id)

(* mux-protocol.md: "A peer MUST open its streams with monotonically        *)
(* increasing identifiers."                                                 *)
MonotonicOpens ==
    \A e \in Ends :
      LET opens(d) == SelectSeq(net[e], LAMBDA f : f.t = "open" /\ f.id.dir = d)
      IN  \A d \in Dirs :
            /\ \A i \in 1..Len(opens(d)) - 1 :
                  opens(d)[i].id.n < opens(d)[i + 1].id.n
            /\ opens(d) # <<>> =>
                  nextPeer[Peer(e)][d] <= opens(d)[1].id.n

(* mux-protocol.md: a terminal frame of a retired direction is harmless,    *)
(* "this permits FIN, reset, and stop requests to cross": no order of       *)
(* finish, reset, stop, drop and their frames is an unknown-stream error,   *)
(* with ids skipped by refused opens and both kinds of streams in use.      *)
TerminalsMayCross == \A e \in Ends : err[e] # "unknown"

(* Neither side's accounting outlives the other's: a receive entry belongs  *)
(* to a flow its sender still has, or the frame that retires it is on its   *)
(* way; a flow that can still carry data has its receive entry at the peer, *)
(* or the OPEN that creates it is ahead of the data.                        *)
NoOrphans ==
    BothUp => \A e \in Ends :
      LET p == Peer(e) IN
      /\ \A id \in streams[e] :
            \/ id \in flows[p] \/ id \in resetting[p] \cup inbound[p]
            \/ InNet(p, {"fin", "reset"}, id) \/ Unopened(e, id)
      /\ \A id \in flows[e] \ finning[e] :
            id \in streams[p] \/ Unopened(e, id)

(* queue_credit: "Retired streams must not consume the bounded update       *)
(* slots": the session is aborted for want of a slot only when more receive *)
(* streams are open than max_open_streams.                                  *)
SlotsSuffice ==
    \A e \in Ends : err[e] = "slots" => Cardinality(streams[e]) > MaxOpen

=============================================================================
