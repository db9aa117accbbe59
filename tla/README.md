# TLA+ models of websock

`websock` is a set of Rust crates that give native programs (tokio and
tungstenite) and browsers (wasm) the same WebSocket API, and on top of it a
multiplexing protocol: many independent, flow-controlled byte streams over one
WebSocket. This directory holds TLA+ models of that code, TLC configurations
that check them on small instances, and TLAPS proofs for every value of the
parameters. `PROJECT.json` lists the components, the runs, the source lines each
definition models, the hazards and the theorems.

    tlc -workers 2 -config MuxFlow.cfg MuxFlow     # a run: cfg, module
    tlapm MuxFlowProofs.tla                        # the proofs of a module

## 1. The system

| part | code | state | operations |
|---|---|---|---|
| wire format | `websock-mux-proto/src/{varint,stream}.rs` | none | `VarInt::encode/decode`, `Frame::encode/encoded_len/decode` |
| stream, send side | `websock-tungstenite-mux/src/session.rs`, `SendStream`, `SendFlowState` | `max_data`, `sent_data`, `closed`, one `AtomicWaker`; shared by clones: `finished`, `operation`, `api_mode` | `write_buf`, `finish`, `reset`, `poll_write/flush/shutdown`, clone, drop |
| stream, receive side | same file, `RecvStream`, `RecvState` | `received`, shared `max_data`, the bounded event channel; `pending`, `consumed`, `granted`, `stop_sent` | `read`, `poll_read`, `stop`, drop |
| stream tables | same file, `SessionInner` | `send_flows`, `streams`, `pending_credit`, `next_uni/bi`, `next_peer_uni/bi`, accept channels | `open_uni/bi`, `accept_uni/bi`, `handle_frame` |
| session tasks | same file, `spawn_tasks`, `shutdown` | `shutdown_started`, `closed`, the token, `active_tasks`, the outbound channel and the writer's batch | inbound loop, outbound loop, `Flush`/`Shutdown` barriers, `wait_for_tasks` |
| native connection | `websock-tungstenite/src/{connection,stream,server,builder}.rs` | one `WebSocketStream`; after `split()` a reader and a writer task with two channels of 64 | `send`, `recv`, `close`, `split` |
| browser connection | `websock-wasm/src/*.rs` | a JS `WebSocket`, callbacks, a bounded event queue, the count of halves | connect, `send`, `recv`, `close`, `split` |
| browser mux | `websock-wasm-mux/src/session.rs` | as the native session, with `RefCell` tables and `try_send` queues | as the native session |
| configuration, TLS, traits, demos | the rest | none that changes | builders, certificate loading, re-exports |

**How they interact.** An application task calls a handle; the handle takes
locks of `SessionInner`, reserves credit, and awaits a slot of the bounded
outbound channel (`send_frame`) or tries for one (`try_send_frame`, used by
destructors). The outbound task takes commands and pending credit, packs frames
into a batch and writes one WebSocket message per batch. The peer's inbound task
decodes the message and applies each frame to its tables (`handle_frame`); it
sends answers through its own outbound channel. `Flush` and `Shutdown` are
commands with a oneshot for the answer. Cancellation is one token; `close_all`
empties the tables and wakes whoever waits.

**What is hard here.** Six tasks touch one stream direction (an application,
an inbound and an outbound task at each end), on a multi-threaded runtime. Every
future can be dropped at an await. Destructors cannot wait. Terminal frames of
the two ends cross. Credit is written past the outbound queue. The transport can
stop accepting bytes or fail at any point, and shutdown must return all the same.
`PROJECT.json` lists these hazards with their lines.

**What makes each part correct.**

- *Codec*: what was encoded is decoded, and a message that ends inside a frame
  is rejected, at every size class.
- *Flow control*: the window bounds what is buffered; two correct endpoints never
  accuse each other; bytes arrive once and in order; a FIN means that everything
  was sent; nothing follows a terminal frame; waiting writers are released.
- *Handles*: the same over clones, and the last drop ends the stream.
- *Tables*: identifiers are opened in order, crossing terminal frames are
  harmless, no entry outlives both sides' interest in it.
- *Session*: barriers mean what they report, shutdown returns and leaves no task.
- *Backpressure*: no cycle of full queues.
- *Connections*: messages reach the application without a gap, a close is a barrier
  and resolves, tasks, callbacks and sockets do not outlive their owners.
- *Handshake*: whoever holds a mux session has negotiated the mux subprotocol.
- *Browser session*: although no control frame ever waits for the queue, the peer
  is told of every end or the session goes down, and nothing it sends honestly is
  taken for a violation.

## 2. The modules

| module | models | about the source |
|---|---|---|
| `MuxFlow` | one direction of one stream between two sessions | `SendStream` direct calls, `SendFlowState`, `RecvStream`, `RecvState`, credit, and the frame handlers of both inbound tasks |
| `ByteStream` | what one direction promises its applications: a pipe | none: the abstract specification `MuxFlow` implements |
| `MuxFlowProofs` | theorems about `MuxFlow`, among them that it implements `ByteStream` | |
| `SendHandles` | clones of one `SendStream` on several threads | `select_api`, `begin_operation`, `AsyncWrite`, the `PollSender`'s slots, the `AtomicWaker`, `Drop` |
| `SendHandlesProofs` | theorems about `SendHandles` | |
| `MuxOpen`, `MCMuxOpen` | the stream tables of two sessions | `open_*`, `accept_*`, frontiers, retirement, credit slots, limits |
| `MuxOpenProofs` | theorems about `MuxOpen` | |
| `MuxSession` | the two tasks of one session and the callers of `shutdown` | `spawn_tasks`, `flush_batch`, `poll_flush`, `shutdown`, `task_finished`, `wait_for_tasks` |
| `MuxSessionProofs` | theorems about `MuxSession` | |
| `MuxBackpressure` | two sessions over a transport of bounded capacity | `send_frame` awaited inside `handle_frame` |
| `BrowserSession`, `MCBrowserSession` | the mux session of a browser and an honest peer | `websock-wasm-mux/src/session.rs`: all of `Session`, `SendStream`, `RecvStream`, `SessionInner` |
| `BrowserSessionProofs` | theorems about `BrowserSession` | |
| `MuxCodec`, `MCMuxCodec` | the bytes of frames and the loop over one message | `VarInt`, `Frame`, the loop of the inbound task |
| `MuxCodecProofs` | theorems about `MuxCodec` | |
| `NativeConnection` | a native connection, whole and split | `websock-tungstenite/src/{connection,stream}.rs`: `send`, `recv`, `close`, `split`, both halves, both tasks |
| `NativeConnectionProofs` | theorems about `NativeConnection` | |
| `BrowserConnection` | a browser connection, whole and split | `websock-wasm/src/{connection,stream}.rs`: connect and its cancellation, the callbacks, `close`, both halves |
| `BrowserConnectionProofs` | theorems about `BrowserConnection` | |
| `Handshake` | the subprotocol negotiation of every client and server | builders, `bind`, `connect`, `accept`, `select_protocol` of four crates |

Conventions shared by the modules:

- A step is what happens between two awaits, or between two accesses to shared
  state where another thread can interfere. Consecutive `is_closed` reads of one
  poll with nothing in between are one step.
- A call that waits for a slot of a bounded channel is a call whose publishing
  step is not enabled yet; its early returns are disjuncts of that step.
- Code outside the repository (tokio channels, `Notify`, `PollSender`,
  `AtomicWaker`, the transport) is modelled by the behaviour the code relies on
  and is marked external in the map.
- Definitions headed "Mutant" are altered copies of a definition that follows
  them. No specification uses them; replacing the original by one must break the
  property it is listed for.

**MuxFlow.** `S` is the endpoint of the `SendStream`, `R` the one of the
`RecvStream`. A payload is an interval of positions of the byte stream, so order
and completeness are about positions and not contents. `wpc` and `rpc` say where
the application tasks are inside a call; `sIn` and `rIn` where an inbound task is
inside `handle_frame`. `sQueue`, `rQueue` are the outbound channels, `sWire`,
`rWire` everything after them. `Publish` checks the flow table while it holds the
slot, as `send_frame` does under `lock_send_flows`; `NextCredit` takes the
coalesced value past the queue; `CancelSend` is `complete_or_abort`. When a
session's writer ends, its queue is dropped and the wire keeps an arbitrary
prefix. `OpenFails` also allows the local error in states where the code could
not reach it: it only ends the session.

**SendHandles.** Each handle has a program counter. A poll is cut where another
thread can interfere: registering the waker, trying to reserve, publishing, and
for `poll_shutdown` publishing the FIN and setting `finished`. `DropCheck` reads the
reference count, `DropRest` and `DropLast` give the reference up. The tail of
`poll_shutdown`, which flushes, is `PollFlush` of `MuxSession`. `asking` and `held` are
the `PollSender`s that wait for a slot of the queue or have been given one; a slot is
kept across polls until it is used, aborted or its handle dropped, and counts against
the channel all the while.

**MuxOpen.** Keys of the tables are identifiers (counter, initiator, direction).
`setup` picks who opens what and `max_open_streams`. `opening` holds identifiers
whose OPEN is not published yet: `next_stream_id` and `send_frame` are two steps.
The behaviour ends when a session ends; what follows is for `MuxFlow` and
`MuxSession`.

**MuxSession.** Frames are counted. `batch` is what the writer holds, `held` the
part that came through the queue, `out` the write it awaits. A write completes,
fails or never returns. `call` is where each caller of `shutdown` is; `timed` are
the callers inside the five-second timeout, and `Timeout` may fire at any time.
`gen` and `seen` model `Notify::notify_waiters`: only a `Notified` created before
the call is woken.

**MuxBackpressure.** `line[e]` is the outbound channel followed by the senders
that wait for it, in the order in which tokio serves them. The inbound task is
suspended while its answer, to a StopSending or to an OPEN, is behind the capacity.

**BrowserSession.** One thread: a step is what happens between two awaits, and one
turn of the event loop (a frame handled, or a batch written) is one step, because
`conn.send` of a browser never suspends. `chan` is the futures channel: every sender
may exceed the buffer by one frame and is parked then. Control frames share the
sender `Ctl`, a `write_buf` brings `Call(id)`, the polled API uses `Own(id)`. `slot` is
`pending_frame`. `snd[id].pc` is where a `write_buf` is suspended: for credit, or for
a slot with credit reserved. `closing` is the time in which the loop awaits
`conn.close` or its deadline. The peer is the environment and keeps the protocol:
it sees a frame when it is written, answers a StopSending, and its own frames wait
in `peer.net`. `setup` says which streams exist and which calls the application
makes; `hist` is history the properties need and no action reads (`Reset` reads it for its
bound). Streams have one send handle: what clones do to each other is `SendHandles`.

**NativeConnection.** Messages are numbered, so order and gaps are visible. `ws`
and `reply` are tungstenite's closing handshake as the code relies on it: data is
delivered until the peer's Close, nothing is accepted once a Close was sent or read,
and the reply to the peer's Close is queued until the next flush, close or read.
`wpc`/`wcmd` and `rpc`/`ritem` are the writer and the reader task of `split`; each
suspends where the code awaits a channel. `permit` is the slot a `poll_ready` has
reserved. `CancelRecv` drops `recv` inside its `ws.close`.

**BrowserConnection.** One thread; a callback or a poll is a step. `attached` says
whose callbacks the socket holds and `alive` whose closures exist. The channel is
the futures one: onmessage, onerror and onclose own a sender each and each may exceed
the buffer by one item. `cut` and `closedOk` are history.

**Handshake.** A client and a server, each with its kind and the list of its builder,
configured in any order, then `bind`, the request, the server's choice and the verdict
of the client. Names are model values.

**MuxCodec.** A `u64` is the tuple of its eight bytes, so size classes are the
real ones. `UsizeBytes` is the width of `usize`. Lengths are plain numbers below
`Large` = 2^30 (the default message limit is 2^24), and `Usize` reads a length
field that is not below it as `Large`: no message is that long. `FrameShapes` is what
the fields of a `Frame` can hold. `Decode` reads the tag, then its integers, then its
data; which error it returns is not kept.

## 3. The runs

| run | shows |
|---|---|
| `MuxFlow` | one stream direction implements `ByteStream` (order, no gap, FIN means complete); no spurious error, the window, monotonic credit, nothing after a terminal frame; calls of the sender resolve, stopped accounting is released, the end reaches the reader |
| `SendHandles` | two clones: direct calls are serialised, credit is conserved, a writer that waits for credit or for a slot is released |
| `MuxOpen` | crossing terminal frames are harmless, no orphaned entry or flow, credit slots suffice |
| `MuxOpenRace` | **violation**: two opens through clones of a `Session` publish OPEN out of order |
| `MuxSession` | `shutdown` returns, and only with both tasks gone; `Shutdown` and `Flush` are barriers over batches; no batch is stranded; both tasks end, with a dead transport and a silent peer too |
| `MuxBackpressureBoth` | **violation**: two sessions that write, open and stop can block each other |
| `BrowserSession` | the peer can accept what is written, an honest peer is trusted, a handle that is gone was announced; the loop's end releases tables, writes and `shutdown`, and queued FINs are written first |
| `MuxCodec` | round trip and rejection of messages cut anywhere but where `encoded_len` says a frame ends, with a 32-bit `usize` |
| `MuxCodec32` | **violation**: with that `usize`, a frame is accepted whose data is not present |
| `NativeConnection` | the application sees every message of the peer in order, a Close goes behind what was accepted, the peer's Close is answered, both tasks end |
| `BrowserConnection` | no dangling callback, no gap in the messages, the socket is closed exactly when nobody owns it or somebody asked, `close()` means closed and resolves |
| `Handshake` | **violation**: a browser mux session over a connection that negotiated another protocol |

Each property of a passing run has a mutant that breaks it. These are the runs listed in
`PROJECT.json`. Five more configurations are kept for a reader to run; each has one
property, in the words of a comment or of mux-protocol.md, and TLC finds it violated:

| configuration | module | property | shows |
|---|---|---|---|
| `SendHandlesDrop.cfg` | `SendHandles` | `LastDropTerminates` | two clones dropped at once leave the stream open |
| `SendHandlesPolled.cfg` | `SendHandles` | `DataEndsAtTerminal` | `poll_write` of one clone queues data behind the FIN of another's `poll_shutdown` |
| `BrowserHalfOpen.cfg` | `MCBrowserSession` | `TerminalsHarmless` | the FIN of a peer on a stream whose `open_bi` failed behind its OPEN ends the session |
| `BrowserFinish.cfg` | `MCBrowserSession` | `DroppedIsTerminated` | a `finish` without room in the queue, and then the destructor, leave the peer without a terminal frame |
| `BrowserConnectionCut.cfg` | `BrowserConnection` | `CloseAwaitsEvent` | `close()` returns Ok before the close event when the channel was cut |

### The disagreements

- `SendHandlesDrop`. `Drop` reads `Arc::strong_count` while its own reference
  counts. Two clones dropped on two threads both read 2 and both return: no RESET,
  no abort, and the flow stays in `send_flows`.
- `SendHandlesPolled`. `poll_shutdown` selects the API but takes no operation guard; it
  queues its FIN, gives up the lock of `send_flows` and only then sets `finished` and
  removes the flow. A clone in `poll_write` on another thread passes its checks in between
  and queues data behind the FIN, which mux-protocol.md forbids and for which the receiver
  ends the session. `DirectCallsSerialized` shows that the direct API has no such gap.
- `MuxOpenRace`. The identifier is taken before the slot of the queue is awaited.
  Two tasks that open through clones of one `Session` can publish in the other
  order; the peer treats it as a protocol error.
- `MuxBackpressureBoth`. The inbound task awaits a slot for the `ResetStream` that
  answers a `StopSending`, or the first credit that answers an OPEN, and reads nothing
  meanwhile. With both queues and both directions of the transport full, each end
  waits for the other.
- `Handshake`. `websock-wasm-mux` does not look at the subprotocol the server chose, and
  its builder appends the mux name behind the caller's: with options that list another
  protocol the server allows, that one is chosen and the caller gets a `Session`. The
  native client refuses such a response. With the same check added to the browser
  client, `MuxNegotiated` holds in all 1068 states of this instance.
- `MuxCodec32`. `Frame::decode` converts a length with `as usize` before it compares it
  with what remains. On wasm32, a target of `websock-wasm-mux`, a length field of
  2^32 + n is read as n: the frame is accepted with n bytes of its data, although "data
  MUST be fully present". No encoder of this repository writes such a length, so
  `DecodedAsSent` and `RejectedIffCut` hold with 32 bits too.
- `BrowserHalfOpen`. `open_bi` queues OPEN and then the first credit; when the second does
  not fit it forgets the stream and returns an error. The peer was not told: the FIN with
  which it ends its side meets no entry, and `handle_frame` ends the session, where
  mux-protocol.md calls a terminal frame of a retired direction harmless.
  `HonestPeerTrusted` shows that this is confined to frames of such a stream.
- `BrowserFinish`. `finish` marks the stream as ended before it tries the queue. When that
  fails it returns an error, but a second `finish` returns Ok, and the destructor, whose
  comment says that it fails closed "rather than silently leaving the peer waiting for a
  terminal frame", does nothing. `PeerToldOrReported` is what remains true: the caller has
  seen an error.
- `BrowserConnectionCut`. When `onmessage` has ended the channel, for a message it refuses,
  `close()` takes that end for the close event and returns Ok while the socket is CLOSING;
  its comment says that it waits for the event. `CloseMeansClosed` is the same property
  for connections that were not cut.

More observations have no configuration of their own, because no document, comment, assertion or
test of the repository says otherwise; the property named exempts them. Of the native
session:

- Of several clones pending in `poll_write` only the last one registered is woken
  (`PolledWriterReleased` is stated for that one).
- A local `open_bi` does not look at `max_open_streams` for its receive side
  (`SlotsSuffice` names the excess).
- `poll_write` and `poll_shutdown` that find the flow closed return an error without
  `abort_send`: the slot their `PollSender` holds is free only when the handle is
  dropped. In a queue of one the inbound task's RESET waits as long.

Of the browser session:

- `reset` and `stop` that cannot queue their frame behave as the `finish` above
  (`PeerToldOrReported`, `hist.failed` and `hist.stopFailed`).
- A stream opened between `close_all` and the end of the task is never released
  (`EndReleasesStreams`, `hist.late`).
- `outbound_queue_len` bounds control frames only: a `write_buf` always finds the free
  slot of its fresh sender.
- The first credit of a stream that the peer opened is lost without a trace when the
  queue is full; then nobody can move.

Of the connections and the handshake:

- Native: a message accepted by the sink behind which the peer's Close arrives makes the
  writer end on tungstenite's refusal, before it gets to the reader's Close command; the
  reply to the peer is then not flushed (`PeerCloseAnswered` exempts it).
- Native: a sink dropped on a full queue loses its Close, and with the stream half
  dropped too, both tasks and the socket stay until the peer closes or the transport
  fails (`TasksEnd`, `closeLost`).
- Native mux: behind the closing handshake the writer discards frames, and a `Flush` behind
  them is answered with Ok (`BarriersHold` is about the time before).
- Browser: `send` on a CLOSING or CLOSED socket returns Ok; `split()` after `close()`
  panics; `websock-proto/src/options.rs:14` says browsers ignore
  `max_write_buffer_size`, which `check_send_capacity` enforces.
- The mux server refuses a client that lists another allowed protocol before the mux one,
  though both ends support it.

### Bounds, and why they are enough

- `MuxFlow`: three bytes through a window, a threshold and frames of two, an
  outbound queue of one and an event queue of two. A third byte needs an update of
  the window, so a lost one stops the stream; the queue of one makes every call wait;
  two events fill the channel. One reset allows it at every point. `VarIntMax` is out
  of reach. For the proved properties the bounds do not matter.
- `SendHandles*`: two clones, which is what each race needs; a queue of one; credit
  for two chunks; no new reset once three frames were queued.
- `MuxOpen`: one bidirectional stream of one end against a unidirectional one of
  the other with room for one entry, so that limits bite; and three generations of
  streams through two entries, so that identifiers and slots are reused after
  retirement. `MuxOpenRace` needs two identifiers.
- `MuxSession`: two callers, a queue of one, batches of two: the frame, pongs, credit and
  flushes in front of and behind a barrier, a full batch and one cut by an empty queue.
- `MuxBackpressureBoth`: a queue of one, a transport of one frame per direction, two
  data frames, a stop and an open per end: enough to fill queue and transport in front
  of an answer.
- `BrowserSession`: seven setups that share the run, one stream of each kind, a local
  and a peer's unidirectional stream with room for one, three streams that nobody
  accepts, and two of this end, of which the bidirectional one can be half opened.
  `BrowserHalfOpen` has this last setup alone, `BrowserFinish` two unidirectional streams
  whose OPENs fill the queue. The queue of one makes the second control frame fail and a fresh sender
  park; a write of three chunks is parked for a slot behind its own frame. One frame of
  the peer is in flight, so it can cross everything this end does. The accept and
  receive queues overflow at two elements above one.
- `MuxCodec`: every boundary of the four varint sizes, messages of two frames, cut
  at every byte. `MuxCodec32`: messages of another encoder, with padded and large lengths.
- `NativeConnection`: a command queue of two, so that Close meets a full, a half full and
  an empty one; a message queue of one, three messages out, two and a ping in, which
  fill both.
- `BrowserConnection`: a buffer of two and six messages: three fill the buffer and the
  slot of onmessage's sender, the rest overflow it before and after the application
  has read; error and close find their own slots in every state of it.
- `Handshake`: one other protocol and lists of two give every order and omission.

Deadlock is not checked: a session ends, and a bounded environment stops.

### Fairness

Weak fairness only, of what the runtime owes: a task that can take a step is polled
again, and a timer that is armed fires. Liveness is mostly stated as `[]<>~Waiting`,
no wait lasts for ever: where the wait is entered once that is "leads to", and TLC
checks it far faster.

- `MuxFlow`: the session tasks (`TaskStep`), the future of a call in progress
  (`SendStep`), and the reader (`Read \/ RecvStep`): `WriterResolves` and
  `EndReachesReader` are promises to an application that reads. New calls,
  cancellations, drops, shutdowns and failures are never forced.
- `SendHandles`: polls the runtime owes to a woken handle or one whose slot is there
  (`Step`), and the session tasks. A first poll is never forced.
- `MuxSession`: both tasks, each caller, the timeout of each caller. No fairness on
  writes, on the peer or on credit.
- `MuxBackpressure`: `Write` and `HandleFrame` at each end.
- `BrowserSession`: the event loop (`Loop`, which a frame, a queued frame, the closed
  channel or the close deadline wakes) and a suspended `write_buf` that was woken
  (`Woken`: its flow was closed, credit came, its sender was unparked). `request_shutdown`
  wakes no writer; `close_all`, which closes the flows, does. The application
  and the peer are never forced to act.
- `NativeConnection`: both tasks, an application that polls the stream it holds, and a
  peer that answers a Close. The code has no timeout: these are conditions on its
  environment, and writes complete or fail.
- `BrowserConnection`: the browser ends a closing handshake (by itself after a while),
  and the application polls the `close()` it has called.

### The refinement

`Pipe` in `MuxFlow` is `ByteStream` with the writer's bytes for what was passed to
`write_buf`, the reader's for `consumed`, and `NextByte`, the position of the first byte
the reader holds or will take from its channel, for the position it is handed next.
`IsByteStream` therefore fails when a byte is lost, repeated or reordered anywhere
between the two applications, and when a FIN is delivered while a write was cancelled,
failed or refused half way. `RecvStream::read` returns `Ok(None)` for FIN and for RESET:
that a stream is complete or cut (`ToldEnd`) is a distinction inside the session, which
the API does not pass on. The refinement says that a FIN means completeness, not that a
reader of this API can tell.

## 4. What is proved

Every theorem is about all values of the constants that satisfy the assumptions of
the component's module, and all of these are what the code's own validation or types
guarantee. The one assumption beyond that is in `LimitsAssumption` of `MuxFlow`: the
sender cuts no frame larger than the receiver accepts. `Limits::validate` looks at one
endpoint and the protocol negotiates nothing, so two differently configured peers may
break it: the frame-size part of `NoSpuriousError` is proved for compatible peers
only. `FramesAssumption` of `MuxCodec` bounds a length by 2^30. Each module proves one
inductive invariant, `IInv`, as `Spec => []IInv`: it holds initially, and every step keeps
it; the properties the runs check are conjuncts or consequences of it.
TLC checked each `IInv` on the instance of the component's run before it was proved,
with the two quantifiers over naturals (the stream ids of `MuxOpen`, the positions of
`MuxSession`) cut to a finite range.

**MuxFlowProofs** proves `Invariance` and from it

- `TypeCorrect`: `Spec => []TypeOK`; `sentData \in Nat` is the part with content,
  because failed sends subtract;
- `NoErrorBetweenPeers`: `Spec => []NoSpuriousError`;
- `NoDataOnceTerminated`: `Spec => []NoDataAfterTerminal`;
- `BufferedWithinWindow`: `Spec => []WindowBound`.

`NoSpuriousError` is about the step in which R handles a Stream frame, and so about
everything that led to that frame. Its strengthening `IInv` says, part by part:

- `FramesOK`: frames in flight are intervals of published bytes, at most a chunk;
- `CreditInv`: `written + grant <= sentData <= maxData <= rMax <= granted`, and every
  credit in flight is at most `rMax`: the new limit is stored before it can be
  announced;
- `OpenInv`: until R has read OPEN, it is the first frame on its way, and later
  there is none;
- `ChainInv`: the frames in flight are contiguous and start at `received`, so the
  bytes of a frame end at most at `written`, below the limit;
- `TermInv`: behind a FIN or RESET there is no Stream frame, nor will there be: the
  flow is gone or about to be; and if R's entry is gone, none is in flight;
- `WindowInv`: `received <= rMax` and `granted <= consumed + InitialWindow`.

The second part of the module strengthens that invariant to `PInv` and proves

- `CreditIsMonotonic`: `Spec => []CreditMonotonic`;
- `ImplementsByteStream`: `Spec => IsByteStream`, the refinement of `ByteStream`.

`AskInv` says that a call which published less than it was given has left the flow or
the session closed, so a FIN is queued only behind every byte that was asked for;
`FinInv` that every FIN on its way is an empty frame at that very position. `PosInv`
makes the reader's pending bytes, its channel and the frame being delivered one
stretch from `consumed` to `received`; with it the byte the reader is handed next is
always the one after those it had. The steps then map one to one: `WriteBuf` is `Put`,
`Finish` and `Reset` are `Close`, a read is `Get`, the FIN event is `Complete`, a closed
channel and a dropped handle are `Cut`, everything else is a stutter. `CreditOrder` is the argument
for monotonic credit: while the first credit is in the queue (`Fresh`) nothing can have
been read, so `next_credit` has nothing that could overtake it; afterwards a grant is
above everything announced, and the coalesced slot only ever holds the last grant.

**SendHandlesProofs** proves `ClonesAreSerialized` (`DirectCallsSerialized`) and
`CreditIsConserved` (`CreditConserved`) for any number of clones. Serialization rests on
`GuardInv` (at most one handle is inside `begin_operation` and its guard) and `EndInv` (a
terminal frame in the queue means that the flow is retired, or about to be by the handle that
queued the FIN). Conservation counts two sets, the handles that hold a
unit and the positions of data frames in the queue; each step moves one element.

**MuxOpenProofs** proves `TerminalsAreHarmless` (`TerminalsMayCross`), `NothingIsOrphaned`
(`NoOrphans`) and `CreditSlotsSuffice` (`SlotsSuffice`) for any number of opener tasks,
any `max_open_streams` and any accept queue. `Core` holds while both sessions are up:

- `IdInv`, `FrameInv`: an id in a table, a handle or a frame of an end is one of that
  end's directions and below its counter or frontier, so a new id is new to both ends
  (`FreshId`); a frame that is not an OPEN comes behind the OPEN of its id, or the peer has
  read that one. At the head of a queue this makes the id of a RESET or StopSending one
  `is_retired_direction` recognises (`RetiredIsKnown`);
- `OpeningInv`, `AnnounceInv`: an id whose OPEN is not published is known to its opener
  only, and any other id an end uses was announced;
- `FinalInv`: a flow that is still there was neither reset nor finished; a FIN has no
  RESET and no other FIN ahead of it, and its reader has the entry it ends or will make it
  from an OPEN ahead of it;
- `PairInv`: the two halves of `NoOrphans`, and what an unread OPEN will find: its
  opener still keeps the direction, or the frame that ends it is behind the OPEN.

A step is proved for the end that takes it; `PeerSide` (a step that reads nothing) and
`ReadSide` (a step that reads a frame) prove once that it leaves the other end's part alone.
TLC checked this `IInv` with the ids of the queue for `StreamId` in `PairInv`.

**MuxSessionProofs** proves `ShutdownWaitsForTasks` (`ReturnMeansDone`),
`BarriersAreExact` (`BarriersHold`) and `WriterStrandsNothing` (`NothingStranded`) for any
number of callers, queue length and batch size. For the barriers a command in the
queue must know how many frames are ahead of it, which no variable says: `OrderInv`
asserts that the queue has a numbering (`Numbering`) that begins at what the writer has
taken, grows by one with each frame and meets the recorded position at each barrier.

**NativeConnectionProofs** proves `MessagesInOrder` (`StreamComplete`), `CloseIsAnswered`
(`PeerCloseAnswered`) and the action property `CloseBehindMessages` (`CloseIsBarrier`),
across the split and for every capacity of the two channels. `WriteInv` and `ReadInv`
number the commands and the inbox in the same way; `AnswerInv` follows the peer's Close from
the reader to the writer.

**BrowserConnectionProofs** proves `CallbacksOutliveSocket` (`NoDanglingCallback`),
`MessagesInOrder` (`NoGap`), `SocketHasOwner` (`SocketFollowsOwner`) and `CloseIsConfirmed`
(`CloseMeansClosed`). The four properties are themselves conjuncts of `IInv`; `PhaseInv`
ties the phase of the connection to the socket and its callbacks, `ChanInv` says that an open
channel holds every message so far, `EndInv` what may end it.

**BrowserSessionProofs** proves `PeerAcceptsFrames` (`PeerAccepts`), `HonestPeerIsTrusted`
(`HonestPeerTrusted`), `DropTellsPeer` (`PeerToldOrReported`) and `EndReleases`
(`EndReleasesStreams`) from `SessionInvariant`, for any streams, limits, window and lengths
of the queues. `IInv` has two parts. `Books` is about this end alone: streams that do not
exist yet have left no trace (`Unborn`), a write holds a reservation of credit exactly while
it waits for a slot (`Reserving`), a reader meets the end of a stream only when its entry is
gone (`EndRead`), what `close_all` leaves (`Ending`). `Link` is about both ends while the
loop runs, and is stated of the peer and the frames on their way out, so that a step of the
loop that delivers them is a step of its arguments:

- `OutFrames`, `Announced`: frames under way are behind their OPEN and none follows a FIN or
  RESET; a stream in the tables was announced or its OPEN is on its way;
- `NetFrames`, `Openings`: the same for the peer's frames, and which entry `handle_frame`
  will find when it reads them, unless the `open_bi` of that very stream failed half way;
- `PeerCredit`: the data in flight from the peer adds up (`Counted`, a numbering of the
  network from what was received to what it sent) to no more than was granted;
- `OwnCredit`: what this end has reserved, and what the peer will have received once
  everything queued is delivered, is within the peer's grant. The properties alone do not
  say this of frames in two queues, the slot of a parked sender and the network;
- `Told`, until shutdown starts: the end of a handle is on its way, has arrived or was
  reported as failed.

What the peer will have when the queue is delivered is `Delivered`, a fold. Its value is
reached by unrolling: `UnrolledExists` shows that the recursion inside the fold has a
solution, by induction over a set of natural numbers (`SetInduction`, from
`NatLessThanWellFounded` and `WFMin`, whose parameters are sets and not operators), and
`DeliveredTrace` that the fold is the end of a trace of single deliveries.

**MuxCodecProofs** proves `DecodesWhatWasSent` (`DecodedAsSent`) and `RejectsExactlyCuts`
(`RejectedIffCut`) for every batch of frames, of any fields, data and number, cut at any
byte, and for both widths of `usize`. The argument goes up in four steps:

- integers: `FirstByte` and `PaddedBack` say that the two bits of the length tag and the
  bytes behind them give back the integer, whatever its size class, and `ReadVarInt` that
  `VarInt::decode` reads it from a message that holds all of it and fails on less;
- frames: `ReadInts` chains the integers, `DecodeFrame` adds the data: a message cut after
  `c` bytes yields the frame and the rest behind it if `c >= encoded_len`, else an error;
- batches: `EncodeAll` and `EndOf` are folds, unrolled as above; `Split` takes the encoding
  of a batch apart before and behind any of its frames;
- the loop: `IInv` says that what is left of the message begins where, by `encoded_len`,
  the frames decoded so far end, and ends at the cut.

The proofs have one step per action and, under it, one per part of the invariant the
action touches; lemmas on `Append`, `Tail`, prefixes and cardinalities carry the
sequences and sets.

**Only model-checked**: liveness, since TLAPS 1.4.5 has no reasoning about fairness and
ENABLED. That is every temporal property of the runs except `CloseIsBarrier` and
`IsByteStream`, and all of `MuxBackpressure`. `Handshake` has one property, which the
code violates. Every invariant of a passing run is proved.

## 5. What is not modelled

- Contents of payloads, error texts, close reasons, logging.
- Byte limits of a batch (`max_batch_bytes`) are a nondeterministic flush.
- `max_ws_message_size`, Text messages and tungstenite's own ping/pong handling.
- The event queue of a stream filling up ends the session by design (code 3);
  `MuxFlow` has the path and `NoSpuriousError` exempts it.
- Of builders and the HTTP upgrade, everything but subprotocols; TLS, certificates,
  traits, demos and tests.
- Of the browser session: Text, oversized and undecodable messages (they end the loop
  as `ProtocolError` does), empty Stream frames, `poll_flush`, clones, builders.
- Of the connections: contents, close codes and reasons, the limits passed to tungstenite.
- Not negotiated, so nothing to check against: `max_stream_data_per_frame` (assumed
  compatible in `LimitsAssumption`). Best effort by its comment: the ConnectionClose
  of `protocol_error`.

## 6. Plan

What is left is in the models: a bound that relates window, frame size and length of the
event queue;
`BrowserSession` with a local bidirectional stream next to one of the peer, which
fills the credit slots; clones of its `SendStream`.

## 7. Known simplifications

- `MuxFlow` has one stream; streams share only the queues, whose waiting is free
  there. `CloseAll` releases all tables in one step, where `close_all` takes them one after
  the other: no property relates two of them in between.
- `SendHandles`: the queue is dropped after the session is closed; in the code
  `outbound_rx` goes just before `close_all`.
- `MuxOpen`: a reset after `finish` and a second reset, which change no table, and a
  cancellation between OPEN and the first credit, which ends the session, are left out.
- `NativeConnection`: a read error of a live transport is `ReaderFails`, as one of a broken
  transport.
- `BrowserSession`: `HandleStream` has no check of `max_stream_data_per_frame`; its peer
  keeps within it.
