--------------------------- MODULE BrowserSession ---------------------------
(***************************************************************************)
(* The mux session of websock-wasm-mux: one event loop per session, in a   *)
(* browser, on one thread.  Nothing waits on behalf of a control frame:    *)
(* open, finish, reset, stop, drops and the answers of the event loop all  *)
(* try the outbound channel once, through one shared sender, and live with *)
(* the result.  Only data waits, through a sender of its own.              *)
(*                                                                         *)
(* A step is what happens between two awaits.  The peer is honest and the  *)
(* environment: it sees a frame when it is written, and what it sends      *)
(* waits in peer.net until the loop handles it.                            *)
(***************************************************************************)
EXTENDS Integers, Sequences, SequencesExt, FiniteSetsExt

CONSTANTS
    Setups,       \* [ids, calls, units, maxOpen]: who opens what, what else the
                  \* application calls, bound: units of one write and units
                  \* the peer grants and sends, Limits.max_open_streams
    OutboundLen,  \* Limits.outbound_queue_len
    RecvLen,      \* Limits.recv_event_queue_len
    AcceptLen,    \* Limits.accept_uni_queue_len, accept_bi_queue_len
    MaxBatch,     \* Limits.max_batch_frames
    Window,       \* Limits.initial_stream_window
    MaxChunk,     \* MAX_WRITE_CHUNK, Limits.max_stream_data_per_frame
    Threshold,    \* Limits.stream_window_update_threshold
    NetLen        \* bound: frames of the peer in flight

(* An identifier: counter, opened by this end, bidirectional. *)
Ids == UNION {s.ids : s \in Setups}

ASSUME BrowserAssumption ==
    /\ Ids \subseteq [n : Nat, local : BOOLEAN, bi : BOOLEAN]
    /\ \A s \in Setups : s.maxOpen \in Nat \ {0} /\ s.units \in Nat
    /\ {OutboundLen, RecvLen, AcceptLen, MaxBatch, Window, Threshold,
        MaxChunk} \subseteq Nat \ {0}
    /\ NetLen \in Nat
    /\ Threshold <= Window

VARIABLES
    setup,
    next,     \* next_uni, next_bi, next_peer_uni, next_peer_bi
    snd,      \* SendStream and SendFlowState of each identifier
    rcv,      \* RecvStream and RecvState of each identifier
    chan,     \* the outbound channel: frames, and the parked senders
    slot,     \* pending_frame of the event loop
    credit,   \* pending_credit; 0 is absent
    accept,   \* the accept queues, by direction
    session,  \* shutdown_started, closed, a Session is held, a shutdown waits
    task,     \* run, closing = close or its deadline is awaited, ended
    peer,
    hist      \* history: see Init

vars == <<setup, next, snd, rcv, chan, slot, credit, accept, session, task, peer, hist>>

Streams   == setup.ids
Key(id)   == [local |-> id.local, bi |-> id.bi]
NoId      == [n |-> 0, local |-> FALSE, bi |-> FALSE]
SendSide(id) == id.local \/ id.bi
RecvSide(id) == ~id.local \/ id.bi

(* A frame; "fin" is a Stream frame with the FIN flag, n its payload. *)
Frame(t, id, n) == [t |-> t, id |-> id, n |-> n]
Outgoing == slot \o chan.q
Queued(id, types) ==
    \E i \in DOMAIN Outgoing : Outgoing[i].id = id /\ Outgoing[i].t \in types

(* Keys of streams, send_flows and pending_credit. *)
Entries == {i \in Streams : rcv[i].entry # "none"}
Flows   == {i \in Streams : snd[i].flow = "open"}
Credits(cr) == {i \in Streams : cr[i] > 0}

(* handle: none, queued for accept, held, dropped; pc: where a write_buf is *)
NoSend == [flow |-> "none", max |-> 0, sent |-> 0, handle |-> "none",
           finished |-> FALSE, mode |-> 0, pc |-> "idle", left |-> 0, grant |-> 0]

(* entry: none, live, stopped; granted is the shared max_data *)
NoRecv == [entry |-> "none", received |-> 0, granted |-> Window, ev |-> <<>>,
           handle |-> "none", finished |-> FALSE, pending |-> 0, consumed |-> 0,
           stopSent |-> FALSE]

Init ==
    /\ setup \in Setups
    /\ next = [k \in [local : BOOLEAN, bi : BOOLEAN] |-> 0]
    /\ snd = [i \in Streams |-> NoSend] /\ rcv = [i \in Streams |-> NoRecv]
    /\ chan = [q |-> <<>>, parked |-> <<>>] /\ slot = <<>>
    /\ credit = [i \in Streams |-> 0] /\ accept = [b \in BOOLEAN |-> <<>>]
    /\ session = [started |-> FALSE, closed |-> FALSE, held |-> TRUE, waiter |-> "none"]
    /\ task = "run"
    /\ peer = [net |-> <<>>, known |-> {}, inEnd |-> {}, stopped |-> {}, outEnd |-> {},
               got |-> [i \in Streams |-> 0], granted |-> [i \in Streams |-> 0],
               credit |-> [i \in Streams |-> 0], sent |-> [i \in Streams |-> 0]]
    /\ hist = [fins |-> {},        \* finish, poll_close: the FIN was queued
               failed |-> {},      \* finish, reset: the error was reported
               stopFailed |-> {},  \* stop: the error was reported
               reset |-> {},       \* reset was called
               half |-> {},        \* open_bi failed behind its OPEN
               late |-> {},        \* opened after close_all
               accused |-> {},     \* protocol_error blamed the peer on it
               broken |-> FALSE]   \* the loop ended before the queue did

-----------------------------------------------------------------------------
(* The futures mpsc channel: every sender may exceed the buffer by one frame *)
(* and is parked then; each receive releases the sender parked longest.      *)

Ctl    == <<"ctl", NoId>>      \* SessionInner.outbound_tx
Own(i) == <<"own", i>>         \* SendStream.outbound
Call(i) == <<"call", i>>       \* its clone in one write_buf

ChanOpen == ~session.started /\ task # "ended"
Parked(c, s)  == s \in ToSet(c.parked)
CanSend(c, s) == ChanOpen /\ ~Parked(c, s)

Push(c, s, f) ==
    [q |-> Append(c.q, f),
     parked |-> IF Len(c.q) >= OutboundLen THEN Append(c.parked, s) ELSE c.parked]

PopN(c, k) == [q |-> SubSeq(c.q, k + 1, Len(c.q)),
               parked |-> SubSeq(c.parked, k + 1, Len(c.parked))]

(* A dropped sender stays in the list of parked ones. *)
DropSender(c, s) ==
    [c EXCEPT !.parked = [i \in DOMAIN @ |-> IF @[i] = s THEN <<"gone", NoId>> ELSE @[i]]]

TrySend(c, f) == IF CanSend(c, Ctl) THEN Push(c, Ctl, f) ELSE c

RequestShutdown == session' = [session EXCEPT !.started = TRUE]

(* A control frame, or what the caller does without it. *)
SendOr(c, f, Failed) ==
    /\ chan' = TrySend(c, f)
    /\ IF CanSend(c, Ctl) THEN UNCHANGED <<session, hist>> ELSE Failed

Report(kind, id) == /\ hist' = [hist EXCEPT ![kind] = @ \cup {id}]
                    /\ UNCHANGED session
Abort == RequestShutdown /\ UNCHANGED hist

-----------------------------------------------------------------------------
(* Session: open, accept, shutdown, drop *)

Uses(call) == call \in setup.calls

Open(id) ==
    LET room == Cardinality(Flows) < setup.maxOpen
        c    == TrySend(chan, Frame("open", id, 0))
        published == room /\ CanSend(chan, Ctl)
        done == published /\ (id.bi => CanSend(c, Ctl))
    IN  /\ id \in Streams /\ id.local /\ session.held /\ id.n = next[Key(id)]
        /\ next' = [next EXCEPT ![Key(id)] = @ + 1]
        /\ chan' = IF ~room THEN chan
                   ELSE IF id.bi THEN TrySend(c, Frame("max", id, Window)) ELSE c
        /\ snd' = IF done THEN [snd EXCEPT ![id].flow = "open", ![id].handle = "held"]
                  ELSE snd
        /\ rcv' = IF done /\ id.bi
                  THEN [rcv EXCEPT ![id].entry = "live", ![id].handle = "held"] ELSE rcv
        /\ hist' = [hist EXCEPT !.half = IF published /\ ~done THEN @ \cup {id} ELSE @,
                                !.late = IF done /\ session.closed THEN @ \cup {id} ELSE @]
        /\ UNCHANGED <<setup, slot, credit, accept, session, task, peer>>

Accept(b) ==
    /\ Uses("accept") /\ session.held /\ accept[b] # <<>>
    /\ accept' = [accept EXCEPT ![b] = Tail(@)]
    /\ LET id == Head(accept[b]) IN
       /\ rcv' = [rcv EXCEPT ![id].handle = "held"]
       /\ snd' = IF b THEN [snd EXCEPT ![id].handle = "held"] ELSE snd
    /\ UNCHANGED <<setup, next, chan, slot, credit, session, task, peer, hist>>

WaitClosed == IF task = "ended" THEN "done" ELSE "waiting"

Shutdown ==
    /\ Uses("shutdown") /\ session.held /\ session.waiter = "none"
    /\ session' = [session EXCEPT !.started = TRUE, !.waiter = WaitClosed]
    /\ UNCHANGED <<setup, next, snd, rcv, chan, slot, credit, accept, task, peer, hist>>

(* remove_send_flow, stop_recv_stream *)
RemoveFlow(s) == [s EXCEPT !.flow = IF @ = "open" THEN "closed" ELSE @]

(* Mutant: a stopped stream is forgotten at once. *)
ForgetEntry(r) == [r EXCEPT !.entry = "none"]

StopEntry(r) == [r EXCEPT !.entry = IF @ = "live" THEN "stopped" ELSE @]

DroppedSend(s) == [RemoveFlow(s) EXCEPT !.handle = "dropped"]
DroppedRecv(r) == [StopEntry(r) EXCEPT !.handle = "dropped", !.ev = <<>>, !.pending = 0]

(* The last Session: streams nobody accepted are dropped with the queues. *)
DropSession ==
    LET lost == ToSet(accept[TRUE]) \cup ToSet(accept[FALSE]) IN
    /\ Uses("shutdown") /\ session.held /\ session.waiter # "waiting"
    /\ session' = [session EXCEPT !.held = FALSE, !.started = TRUE]
    /\ snd' = [i \in Streams |-> IF i \in lost /\ i.bi THEN DroppedSend(snd[i]) ELSE snd[i]]
    /\ rcv' = [i \in Streams |-> IF i \in lost THEN DroppedRecv(rcv[i]) ELSE rcv[i]]
    /\ credit' = [i \in Streams |-> IF i \in lost THEN 0 ELSE credit[i]]
    /\ accept' = [b \in BOOLEAN |-> <<>>]
    /\ UNCHANGED <<setup, next, chan, slot, task, peer, hist>>

-----------------------------------------------------------------------------
(* SendStream *)

IsClosed(id) == \/ snd[id].finished \/ snd[id].flow # "open"
                \/ session.closed \/ session.started

(* select_api and begin_operation let the call in. *)
Admits(id, mode) == /\ id \in Streams
                    /\ snd[id].handle = "held" /\ snd[id].pc = "idle"
                    /\ mode = 0 \/ snd[id].mode \in {0, mode}

TryReserve(s, wanted) ==
    IF s.flow # "open" \/ s.max <= s.sent THEN 0 ELSE Min({wanted, MaxChunk, s.max - s.sent})

StreamKeeps == <<setup, next, rcv, slot, credit, accept, task, peer>>

WriteBuf(id) ==
    /\ Uses("direct") /\ Admits(id, 1) /\ ~IsClosed(id)
    /\ \E n \in 1..setup.units :
          snd' = [snd EXCEPT ![id].mode = 1, ![id].pc = "credit", ![id].left = n]
    /\ UNCHANGED <<StreamKeeps, chan, session, hist>>

Idle(s) == [s EXCEPT !.pc = "idle", !.left = 0, !.grant = 0]
Release(s) == [s EXCEPT !.sent = @ - s.grant]

(* The future after its attempt to reserve. *)
Reserved(s) ==
    LET g == TryReserve(s, s.left) IN
    IF s.pc = "credit" /\ g > 0 THEN [s EXCEPT !.pc = "slot", !.grant = g, !.sent = @ + g]
    ELSE s

EndCall(id, s) == /\ snd' = [snd EXCEPT ![id] = Idle(s)]
                  /\ chan' = DropSender(chan, Call(id))

PushChunk(id, s) ==
    LET c == Push(chan, Call(id), Frame("data", id, s.grant)) IN
    IF s.left = s.grant
    THEN snd' = [snd EXCEPT ![id] = Idle(s)] /\ chan' = DropSender(c, Call(id))
    ELSE /\ snd' = [snd EXCEPT ![id] = [s EXCEPT !.pc = "credit", !.grant = 0,
                                                 !.left = @ - s.grant]]
         /\ chan' = c

(* Mutant: the flow is not looked at again once the credit is there. *)
PollUnchecked(id) ==
    LET s == Reserved(snd[id]) IN
    /\ id \in Streams /\ snd[id].pc # "idle"
    /\ \/ s.pc = "credit" /\ IsClosed(id) /\ EndCall(id, s)
       \/ s.pc = "slot" /\ ~ChanOpen /\ EndCall(id, Release(s))
       \/ s.pc = "slot" /\ CanSend(chan, Call(id)) /\ PushChunk(id, s)
       \/ /\ s.pc = "slot" /\ s # snd[id]
          /\ ChanOpen /\ Parked(chan, Call(id))
          /\ snd' = [snd EXCEPT ![id] = s] /\ UNCHANGED chan
    /\ UNCHANGED <<StreamKeeps, session, hist>>

(* One poll of write_buf, up to its next chunk: the call ends with an error, *)
(* queues a chunk, or keeps its reservation and waits for a slot.            *)
PollWriteBuf(id) ==
    LET s == Reserved(snd[id]) IN
    /\ id \in Streams /\ snd[id].pc # "idle"
    /\ \/ s.pc = "credit" /\ IsClosed(id) /\ EndCall(id, s)
       \/ s.pc = "slot" /\ (s.flow # "open" \/ ~ChanOpen) /\ EndCall(id, Release(s))
       \/ s.pc = "slot" /\ s.flow = "open" /\ CanSend(chan, Call(id)) /\ PushChunk(id, s)
       \/ /\ s.pc = "slot" /\ s # snd[id] /\ s.flow = "open"
          /\ ChanOpen /\ Parked(chan, Call(id))
          /\ snd' = [snd EXCEPT ![id] = s] /\ UNCHANGED chan
    /\ UNCHANGED <<StreamKeeps, session, hist>>

(* complete_or_abort: the future is dropped. *)
CancelWrite(id) ==
    /\ id \in Streams /\ snd[id].pc # "idle" /\ EndCall(id, snd[id])
    /\ RequestShutdown
    /\ UNCHANGED <<StreamKeeps, hist>>

Finish(id) ==
    /\ Uses("direct") /\ Admits(id, 1) /\ ~IsClosed(id)
    /\ LET s == [snd[id] EXCEPT !.mode = 1, !.finished = TRUE] IN
       snd' = [snd EXCEPT ![id] = IF CanSend(chan, Ctl) THEN RemoveFlow(s) ELSE s]
    /\ chan' = TrySend(chan, Frame("fin", id, 0))
    /\ hist' = [hist EXCEPT ![IF CanSend(chan, Ctl) THEN "fins" ELSE "failed"] = @ \cup {id}]
    /\ UNCHANGED <<StreamKeeps, session>>

(* Bound: one reset per stream. *)
Reset(id) ==
    /\ Uses("reset") /\ Admits(id, 0) /\ id \notin hist.reset
    /\ snd' = [snd EXCEPT ![id] = [RemoveFlow(@) EXCEPT !.finished = TRUE]]
    /\ chan' = TrySend(chan, Frame("reset", id, 0))
    /\ hist' = [hist EXCEPT !.reset = @ \cup {id},
                            !.failed = IF CanSend(chan, Ctl) THEN @ ELSE @ \cup {id}]
    /\ UNCHANGED <<StreamKeeps, session>>

PollWrite(id) ==
    /\ Uses("polled") /\ Admits(id, 2) /\ ~IsClosed(id) /\ CanSend(chan, Own(id))
    /\ \E wanted \in 1..setup.units :
          LET g == TryReserve(snd[id], wanted) IN
          /\ g > 0
          /\ snd' = [snd EXCEPT ![id].mode = 2, ![id].sent = @ + g]
          /\ chan' = Push(chan, Own(id), Frame("data", id, g))
    /\ UNCHANGED <<StreamKeeps, session, hist>>

PollClose(id) ==
    /\ Uses("polled") /\ Admits(id, 2) /\ ~IsClosed(id) /\ CanSend(chan, Own(id))
    /\ chan' = Push(chan, Own(id), Frame("fin", id, 0))
    /\ snd' = [snd EXCEPT ![id] = [RemoveFlow(@) EXCEPT !.mode = 2, !.finished = TRUE]]
    /\ hist' = [hist EXCEPT !.fins = @ \cup {id}]
    /\ UNCHANGED <<StreamKeeps, session>>

(* Mutant: a drop that finds the queue full lets it be. *)
DropSendSilent(id) ==
    /\ id \in Streams /\ snd[id].handle = "held" /\ snd[id].pc = "idle"
    /\ snd' = [snd EXCEPT ![id] = DroppedSend(@)]
    /\ LET c == DropSender(chan, Own(id)) IN
       chan' = IF snd[id].finished THEN c ELSE TrySend(c, Frame("reset", id, 0))
    /\ UNCHANGED <<StreamKeeps, session, hist>>

DropSend(id) ==
    /\ id \in Streams /\ snd[id].handle = "held" /\ snd[id].pc = "idle"
    /\ snd' = [snd EXCEPT ![id] = DroppedSend(@)]
    /\ LET c == DropSender(chan, Own(id)) IN
       IF snd[id].finished THEN chan' = c /\ UNCHANGED <<session, hist>>
       ELSE SendOr(c, Frame("reset", id, 0), Abort)
    /\ UNCHANGED StreamKeeps

-----------------------------------------------------------------------------
(* RecvStream *)

RecvKeeps == <<setup, next, snd, slot, accept, task, peer>>

(* queue_credit: retired streams give their slots up first. *)
QueueCredit(id, max) ==
    LET full == Cardinality(Credits(credit)) >= setup.maxOpen
        kept == IF full THEN [i \in Streams |-> IF i \in Entries THEN credit[i] ELSE 0]
                ELSE credit
    IN  IF Cardinality(Credits(kept)) >= setup.maxOpen /\ kept[id] = 0
        THEN RequestShutdown /\ credit' = kept
        ELSE credit' = [kept EXCEPT ![id] = Max({@, max})] /\ UNCHANGED session

(* on_bytes_consumed, for a RecvStream that is r otherwise *)
Consume(id, r, n) ==
    LET target == r.consumed + n + Window
        update == target - r.granted >= Threshold /\ ~r.finished /\ ~r.stopSent
    IN  /\ rcv' = [rcv EXCEPT ![id] = [r EXCEPT !.consumed = @ + n,
                                         !.granted = IF update THEN target ELSE @]]
        /\ IF update /\ r.entry = "live" THEN QueueCredit(id, target)
           ELSE UNCHANGED <<credit, session>>

Finished(id) == /\ rcv' = [rcv EXCEPT ![id].finished = TRUE, ![id].ev = <<>>]
                /\ UNCHANGED <<credit, session>>

Read(id) ==
    LET r == rcv[id] IN
    /\ id \in Streams /\ r.handle = "held"
    /\ \/ \E n \in 1..r.pending : Consume(id, [r EXCEPT !.pending = @ - n], n)
       \/ /\ r.pending = 0 /\ ~r.finished /\ r.ev # <<>>
          /\ LET e == Head(r.ev)
                 s == [r EXCEPT !.ev = Tail(@), !.finished = (e.t = "fin")]
             IN  \/ e.n = 0 /\ Finished(id)
                 \/ \E n \in 1..e.n : Consume(id, [s EXCEPT !.pending = e.n - n], n)
       \/ r.pending = 0 /\ ~r.finished /\ r.ev = <<>> /\ r.entry = "none" /\ Finished(id)
    /\ UNCHANGED <<RecvKeeps, chan, hist>>

Stop(id) ==
    /\ Uses("stop") /\ id \in Streams /\ rcv[id].handle = "held" /\ ~rcv[id].stopSent
    /\ rcv' = [rcv EXCEPT ![id] = [StopEntry(@) EXCEPT !.stopSent = TRUE]]
    /\ IF id \in Entries
       THEN /\ credit' = [credit EXCEPT ![id] = 0]
            /\ SendOr(chan, Frame("stop", id, 0), Report("stopFailed", id))
       ELSE UNCHANGED <<credit, chan, session, hist>>
    /\ UNCHANGED RecvKeeps

DropRecv(id) ==
    /\ id \in Streams /\ rcv[id].handle = "held"
    /\ LET tell == id \in Entries /\ ~rcv[id].finished /\ ~rcv[id].stopSent IN
       /\ rcv' = [rcv EXCEPT ![id] = [DroppedRecv(rcv[id]) EXCEPT !.stopSent = @ \/ tell]]
       /\ credit' = [credit EXCEPT ![id] = IF id \in Entries THEN 0 ELSE @]
       /\ IF tell THEN SendOr(chan, Frame("stop", id, 0), Abort)
          ELSE UNCHANGED <<chan, session, hist>>
    /\ UNCHANGED RecvKeeps

-----------------------------------------------------------------------------
(* The event loop: frames of the peer *)

Incoming(types) == task = "run" /\ peer.net # <<>> /\ Head(peer.net).t \in types
Taken == peer' = [peer EXCEPT !.net = Tail(@)]

(* Mutant: a session that was shut down is taken for cleared. *)
CloseAllUnlessStarted(s, r, ss) ==
    /\ session' = [ss EXCEPT !.closed = TRUE]
    /\ IF ss.closed \/ ss.started THEN snd' = s /\ rcv' = r /\ UNCHANGED credit
       ELSE /\ snd' = [i \in Streams |-> RemoveFlow(s[i])]
            /\ rcv' = [i \in Streams |-> [r[i] EXCEPT !.entry = "none"]]
            /\ credit' = [i \in Streams |-> 0]

(* close_all, once, on the tables s and r of a session that is ss *)
CloseAll(s, r, ss) ==
    /\ session' = [ss EXCEPT !.closed = TRUE]
    /\ IF ss.closed THEN snd' = s /\ rcv' = r /\ UNCHANGED credit
       ELSE /\ snd' = [i \in Streams |-> RemoveFlow(s[i])]
            /\ rcv' = [i \in Streams |-> [r[i] EXCEPT !.entry = "none"]]
            /\ credit' = [i \in Streams |-> 0]

Leave(blamed) == /\ task' = "closing"
                 /\ hist' = [hist EXCEPT !.broken = TRUE, !.accused = blamed]

(* protocol_error: ConnectionClose is queued, but the loop is left *)
ConnectionClose(c) == TrySend(c, Frame("close", NoId, 0))

ProtocolError(blamed, c, s, r) ==
    /\ chan' = ConnectionClose(c) /\ CloseAll(s, r, session) /\ Leave(blamed)

Dropped(f, id, D(_)) == [f EXCEPT ![id] = D(@)]

(* The accept queue is full: the pair is dropped after protocol_error, and *)
(* dropping its SendStream tries a RESET.                                  *)
AcceptFull(id, c, s, r) ==
    LET e == ConnectionClose(c)
        lost == id.bi /\ ~CanSend(e, Ctl)
    IN  /\ chan' = IF id.bi THEN TrySend(e, Frame("reset", id, 0)) ELSE e
        /\ CloseAll(s, r, [session EXCEPT !.started = @ \/ lost])
        /\ Leave({})

ValidPeerId(id) == id.n >= next[Key(id)]

HandleOpen ==
    LET id == Head(peer.net).id
        fresh == ~id.local /\ ValidPeerId(id)
        full  == Cardinality(Entries) >= setup.maxOpen
        c  == TrySend(chan, Frame("max", id, Window))
        r  == [rcv EXCEPT ![id].entry = "live", ![id].handle = "queued"]
        s  == IF id.bi THEN [snd EXCEPT ![id].flow = "open", ![id].handle = "queued"] ELSE snd
        r0 == Dropped(r, id, DroppedRecv)
        s0 == IF id.bi THEN Dropped(s, id, DroppedSend) ELSE s
    IN  /\ Incoming({"open"}) /\ Taken
        /\ next' = IF fresh THEN [next EXCEPT ![Key(id)] = id.n + 1] ELSE next
        /\ IF ~fresh \/ full
           THEN ProtocolError(IF fresh THEN {} ELSE {id}, chan, snd, rcv)
           ELSE IF id.bi /\ Cardinality(Flows) >= setup.maxOpen
           THEN ProtocolError({}, c, snd, r0)
           ELSE IF ~session.held                      \* the receiver is gone
           THEN /\ Leave({}) /\ chan' = c /\ snd' = s0 /\ rcv' = r0
                /\ UNCHANGED <<credit, session>>
           ELSE IF Len(accept[id.bi]) > AcceptLen THEN AcceptFull(id, c, s0, r0)
           ELSE chan' = c /\ snd' = s /\ rcv' = r /\ UNCHANGED <<credit, session, task, hist>>
        /\ accept' = IF task' = "run" THEN [accept EXCEPT ![id.bi] = Append(@, id)] ELSE accept
        /\ UNCHANGED <<setup, slot>>

HandleKeeps == <<setup, next, slot, accept>>
Unharmed    == UNCHANGED <<snd, chan, credit, session, task, hist>>

HandleStream ==
    LET f == Head(peer.net)
        e == rcv[f.id]
        kept == IF f.t = "fin" THEN "none" ELSE e.entry
        counted == [e EXCEPT !.received = @ + f.n, !.entry = kept]
    IN  /\ Incoming({"data", "fin"}) /\ Taken
        /\ IF e.entry = "none" \/ e.received + f.n > e.granted
           THEN ProtocolError({f.id}, chan, snd, rcv)
           ELSE IF e.entry = "stopped"
           THEN rcv' = [rcv EXCEPT ![f.id] = counted] /\ Unharmed
           ELSE IF Len(e.ev) > RecvLen THEN ProtocolError({}, chan, snd, rcv)
           ELSE rcv' = [rcv EXCEPT ![f.id] = [counted EXCEPT !.ev = Append(@, f)]] /\ Unharmed
        /\ UNCHANGED HandleKeeps

(* A direction that existed and is gone: its counter is below the frontier. *)
IsRetired(id, receiving) ==
    (id.bi \/ id.local # receiving) /\ id.n < next[Key(id)]

HandleReset ==
    LET id == Head(peer.net).id IN
    /\ Incoming({"reset"}) /\ Taken
    /\ IF id \in Entries \/ IsRetired(id, TRUE)
       THEN rcv' = [rcv EXCEPT ![id].entry = "none"] /\ Unharmed
       ELSE ProtocolError({id}, chan, snd, rcv)
    /\ UNCHANGED HandleKeeps

(* The answer to StopSending that cannot be queued ends the loop. *)
HandleStop ==
    LET id == Head(peer.net).id IN
    /\ Incoming({"stop"}) /\ Taken
    /\ IF id \in Flows
       THEN /\ snd' = Dropped(snd, id, RemoveFlow)
            /\ chan' = TrySend(chan, Frame("reset", id, 0))
            /\ IF CanSend(chan, Ctl) THEN UNCHANGED <<task, hist>> ELSE Leave({})
            /\ UNCHANGED <<rcv, credit, session>>
       ELSE IF IsRetired(id, FALSE) THEN UNCHANGED rcv /\ Unharmed
       ELSE ProtocolError({id}, chan, snd, rcv)
    /\ UNCHANGED HandleKeeps

UpdateMax(s, max) == [s EXCEPT !.max = Max({@, max})]

HandleMax ==
    LET f == Head(peer.net) IN
    /\ Incoming({"max"}) /\ Taken
    /\ snd' = IF f.id \in Flows THEN [snd EXCEPT ![f.id] = UpdateMax(@, f.n)] ELSE snd
    /\ UNCHANGED <<HandleKeeps, rcv, chan, credit, session, task, hist>>

HandleClose ==
    /\ Incoming({"close"}) /\ Taken
    /\ CloseAll(snd, rcv, session) /\ Leave({})
    /\ UNCHANGED <<HandleKeeps, chan>>

-----------------------------------------------------------------------------
(* The event loop: what it writes *)

(* The peer handles a frame as it arrives; a StopSending it answers.  A      *)
(* ConnectionClose never arrives: the loop is left when it is queued.        *)
Deliver(p, f) ==
    CASE f.t = "open"  -> [p EXCEPT !.known = @ \cup {f.id}]
      [] f.t = "data"  -> [p EXCEPT !.got[f.id] = @ + f.n]
      [] f.t \in {"fin", "reset"} -> [p EXCEPT !.inEnd = @ \cup {f.id}]
      [] f.t = "max"   -> [p EXCEPT !.credit[f.id] = Max({@, f.n})]
      [] f.t = "stop"  -> IF f.id \in p.outEnd THEN p
                          ELSE [p EXCEPT !.outEnd = @ \cup {f.id},
                                         !.net = Append(@, Frame("reset", f.id, 0))]

(* The frames of one message, or of several, in order. *)
Delivered(p, frames) == FoldLeft(Deliver, p, frames)

NextCredit == {[f |-> Frame("max", i, credit[i]), c |-> chan,
                cr |-> [credit EXCEPT ![i] = 0]] : i \in Credits(credit)}

(* The first frame of a batch, with the channel and the credit left behind. *)
FirstFrames ==
    IF slot # <<>> THEN {[f |-> slot[1], c |-> chan, cr |-> credit]}
    ELSE {[f |-> Head(q), c |-> PopN(chan, 1), cr |-> credit] : q \in {chan.q} \ {<<>>}}
         \cup NextCredit

(* A batch ends at its limits or with the queue; a frame too large for the *)
(* rest of the message has been received already and becomes pending_frame.*)
Outbound ==
    /\ task = "run"
    /\ \E a \in FirstFrames : \E k \in 0..Min({MaxBatch - 1, Len(a.c.q)}) :
       \E kept \in 0..(IF k < Min({MaxBatch - 1, Len(a.c.q)}) THEN 1 ELSE 0) :
          LET batch == <<a.f>> \o SubSeq(a.c.q, 1, k) IN
          /\ slot' = SubSeq(a.c.q, k + 1, k + kept)
          /\ chan' = PopN(a.c, k + kept) /\ credit' = a.cr
          /\ \/ peer' = Delivered(peer, batch) /\ UNCHANGED <<task, hist>>
             \/ Leave({}) /\ UNCHANGED peer            \* conn.send fails
    /\ UNCHANGED <<setup, next, snd, rcv, accept, session>>

(* Mutant: the loop ends as soon as the session is shut down. *)
OutboundEndsAtOnce ==
    /\ task = "run" /\ session.started /\ task' = "closing"
    /\ UNCHANGED <<setup, next, snd, rcv, chan, slot, credit, accept, session, peer, hist>>

(* The channel is closed and drained. *)
OutboundEnds ==
    /\ task = "run" /\ slot = <<>> /\ chan.q = <<>> /\ session.started
    /\ task' = "closing"
    /\ UNCHANGED <<setup, next, snd, rcv, chan, slot, credit, accept, session, peer, hist>>

(* conn.recv fails: the connection is gone. *)
ConnEnds ==
    /\ task = "run" /\ Leave({})
    /\ UNCHANGED <<setup, next, snd, rcv, chan, slot, credit, accept, session, peer>>

(* Mutant: whoever waits for the end is forgotten. *)
FinishTaskSilent ==
    /\ task = "closing" /\ task' = "ended"
    /\ chan' = [q |-> <<>>, parked |-> <<>>] /\ slot' = <<>>
    /\ CloseAll(snd, rcv, session)
    /\ UNCHANGED <<setup, next, accept, peer, hist>>

(* finish_task *)
ReleaseWaiters(ss) == [ss EXCEPT !.waiter = IF @ = "waiting" THEN "done" ELSE @]

(* conn.close returned or its deadline passed. *)
FinishTask ==
    /\ task = "closing" /\ task' = "ended"
    /\ chan' = [q |-> <<>>, parked |-> <<>>] /\ slot' = <<>>
    /\ CloseAll(snd, rcv, ReleaseWaiters(session))
    /\ UNCHANGED <<setup, next, accept, peer, hist>>

-----------------------------------------------------------------------------
(* An honest peer, a session of the same protocol *)

PeerSends(p, f) ==
    /\ task = "run" /\ Len(peer.net) < NetLen
    /\ peer' = [p EXCEPT !.net = Append(@, f)]
    /\ UNCHANGED <<setup, next, snd, rcv, chan, slot, credit, accept, session, task, hist>>

PeerOpen(id) ==
    /\ id \in Streams \ peer.known /\ ~id.local
    /\ \A j \in Streams : Key(j) = Key(id) /\ j.n < id.n => j \in peer.known
    /\ PeerSends([peer EXCEPT !.known = @ \cup {id}], Frame("open", id, 0))

PeerWrites(id) ==
    /\ id \in peer.known \ peer.outEnd /\ RecvSide(id)
    /\ \E n \in 0..setup.units, t \in {"data", "fin"} :
          /\ (t = "data" => n > 0) /\ peer.sent[id] + n <= Min({peer.credit[id], setup.units})
          /\ PeerSends([peer EXCEPT !.sent[id] = @ + n,
                          !.outEnd = IF t = "fin" THEN @ \cup {id} ELSE @], Frame(t, id, n))

PeerResets(id) ==
    /\ id \in peer.known \ peer.outEnd /\ RecvSide(id)
    /\ PeerSends([peer EXCEPT !.outEnd = @ \cup {id}], Frame("reset", id, 0))

PeerReads(id) ==
    /\ id \in peer.known \ (peer.inEnd \cup peer.stopped) /\ SendSide(id)
    /\ \/ /\ peer.granted[id] < setup.units
          /\ PeerSends([peer EXCEPT !.granted[id] = @ + 1],
                       Frame("max", id, peer.granted[id] + 1))
       \/ PeerSends([peer EXCEPT !.stopped = @ \cup {id}], Frame("stop", id, 0))

PeerCloses ==
    /\ \A i \in DOMAIN peer.net : peer.net[i].t # "close"
    /\ PeerSends(peer, Frame("close", NoId, 0))

-----------------------------------------------------------------------------
Application ==
    \/ \E id \in Ids :
          \/ Open(id) \/ WriteBuf(id) \/ CancelWrite(id) \/ Finish(id) \/ Reset(id)
          \/ PollWrite(id) \/ PollClose(id) \/ DropSend(id)
          \/ Read(id) \/ Stop(id) \/ DropRecv(id)
    \/ \E b \in BOOLEAN : Accept(b)
    \/ Shutdown \/ DropSession

Loop == \/ HandleOpen \/ HandleStream \/ HandleReset \/ HandleStop \/ HandleMax \/ HandleClose
        \/ Outbound \/ OutboundEnds \/ FinishTask

Peer == \/ \E id \in Ids : PeerOpen(id) \/ PeerWrites(id) \/ PeerResets(id) \/ PeerReads(id)
        \/ PeerCloses

Next == \/ Application \/ (\E id \in Ids : PollWriteBuf(id)) \/ Loop \/ ConnEnds \/ Peer

(* Mutant: SendFlowState::close does not wake the writer. *)
WokenBySupply(id) ==
    /\ id \in Streams
    /\ \/ snd[id].pc = "credit" /\ TryReserve(snd[id], snd[id].left) > 0
       \/ snd[id].pc = "slot" /\ ~Parked(chan, Call(id))

(* The executor owes a pending write a poll when it has been woken: the flow *)
(* was closed, credit came, or the channel unparked its sender.  Closing the *)
(* channel, as request_shutdown does, wakes nobody but the loop.             *)
Woken(id) ==
    /\ id \in Streams
    /\ \/ snd[id].flow # "open"
       \/ snd[id].pc = "credit" /\ TryReserve(snd[id], snd[id].left) > 0
       \/ snd[id].pc = "slot" /\ ~Parked(chan, Call(id))

Spec == /\ Init /\ [][Next]_vars /\ WF_vars(Loop)
        /\ WF_vars(\E id \in Ids : Woken(id) /\ PollWriteBuf(id))

-----------------------------------------------------------------------------
(* Properties *)

(* What is on its way will be accepted when it arrives: no Stream frame is  *)
(* behind a FIN or RESET of its stream or in front of its OPEN, and all     *)
(* data stays within what the peer has granted.  StopSending is answered by *)
(* the event loop while a write of that stream is parked.                   *)
PeerAccepts ==
    task = "run" =>
    /\ \A i \in DOMAIN Outgoing :
          LET f == Outgoing[i] IN
          f.t \in {"data", "fin"} =>
             /\ f.id \notin peer.inEnd
             /\ \A j \in 1..(i - 1) :
                   Outgoing[j].id = f.id => Outgoing[j].t \notin {"fin", "reset"}
             /\ \/ f.id \in peer.known
                \/ \E j \in 1..(i - 1) : Outgoing[j] = Frame("open", f.id, 0)
    /\ \A id \in Streams : Delivered(peer, Outgoing).got[id] <= peer.granted[id]

(* handle_frame accuses an honest peer of a protocol violation only by a    *)
(* frame of a stream whose own open_bi failed behind its OPEN: whatever     *)
(* crosses a stop, a drop or a terminal frame of this end is tolerated, on  *)
(* every other stream also next to one that was half opened.                *)
HonestPeerTrusted == hist.accused \subseteq hist.half

(* mux-protocol.md: "A terminal frame for a valid direction below the       *)
(* monotonic stream-ID allocation frontier is harmless if that direction    *)
(* has already retired", be it a FIN: the peer of a half-opened stream has  *)
(* no credit and can send nothing else.                                     *)
TerminalsHarmless == hist.accused = {}

(* A handle that is gone leaves no peer waiting while the session lives: a  *)
(* FIN, RESET or STOP_SENDING is queued or has arrived, or else finish,     *)
(* reset or stop has reported that it could not be queued.                  *)
PeerToldOrReported ==
    task = "run" /\ ~session.started =>
       \A id \in Streams :
          /\ snd[id].handle = "dropped" =>
                id \in peer.inEnd \cup hist.failed \/ Queued(id, {"fin", "reset"})
          /\ rcv[id].handle = "dropped" /\ rcv[id].entry # "none" =>
                id \in peer.outEnd \cup hist.stopFailed \/ Queued(id, {"stop"})

(* session.rs: a destructor must "Fail closed rather than silently leaving  *)
(* the peer waiting for a terminal frame": while the session lives, a send  *)
(* handle that is gone has its FIN or RESET queued or delivered.            *)
DroppedIsTerminated ==
    task = "run" /\ ~session.started =>
       \A id \in Streams :
          snd[id].handle = "dropped" => id \in peer.inEnd \/ Queued(id, {"fin", "reset"})

(* When the task has ended, close_all has released every table: no reader   *)
(* waits for an entry and no flow is left open, except for streams opened   *)
(* between close_all and the end of the task.                               *)
EndReleasesStreams ==
    task = "ended" => Entries \cup Flows \subseteq hist.late /\ session.waiter # "waiting"

(* Writes that are suspended, for credit or for a slot, when the session is *)
(* shut down or lost return.                                                *)
WritesResolve ==
    LET suspended == \E id \in Streams : snd[id].pc # "idle" IN
    (suspended /\ (session.started \/ task # "run")) ~> ~suspended

(* Session::shutdown returns. *)
ShutdownResolves == (session.waiter = "waiting") ~> (session.waiter = "done")

(* A FIN that was queued is written before the event loop ends, shutdown or *)
(* not, unless the connection or a frame of the peer broke the loop off.    *)
FinSurvivesShutdown ==
    (hist.fins # {}) ~> (hist.fins \subseteq peer.inEnd \/ hist.broken)

=============================================================================
