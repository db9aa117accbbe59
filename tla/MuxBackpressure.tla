-------------------------- MODULE MuxBackpressure --------------------------
(***************************************************************************)
(* Two sessions of websock-tungstenite-mux over a transport that buffers a *)
(* bounded amount.  The inbound task of each endpoint awaits a slot in its *)
(* own outbound queue when a frame obliges it to answer: StopSending is    *)
(* answered by ResetStream, an OPEN by the first MaxStreamData.            *)
(* It reads nothing meanwhile.  Data frames within the granted windows     *)
(* fill the queues and the transport.                                      *)
(*                                                                         *)
(* The bounded channel serves waiting senders first come, first served, so *)
(* line[e] holds the frames in the channel (its first OutboundLen) and,    *)
(* behind them, those whose senders wait for a slot.                       *)
(***************************************************************************)
EXTENDS Integers, Sequences

CONSTANTS
    OutboundLen,  \* Limits.outbound_queue_len
    WireLen,      \* frames the transport buffers in one direction
    MaxData,      \* bound: data frames each application sends
    MaxStops,     \* bound: streams each application stops
    MaxOpens      \* bound: streams each application opens

Ends    == {"client", "server"}
Peer(e) == IF e = "client" THEN "server" ELSE "client"

VARIABLES
    line,      \* the outbound channel and the senders waiting for it
    wire,      \* what the transport holds from each endpoint
    sent,      \* data frames sent
    stops,     \* streams stopped
    opens,     \* streams opened
    answered   \* ResetStream frames received

vars == <<line, wire, sent, stops, opens, answered>>

Init ==
    /\ line = [e \in Ends |-> <<>>] /\ wire = line
    /\ sent = [e \in Ends |-> 0] /\ stops = sent /\ opens = sent
    /\ answered = sent

SendFrame(e, f) == line' = [line EXCEPT ![e] = Append(@, f)]

(* SendStream::write_buf on streams that have credit. *)
SendData(e) ==
    /\ sent[e] < MaxData /\ SendFrame(e, "data")
    /\ sent' = [sent EXCEPT ![e] = @ + 1]
    /\ UNCHANGED <<wire, stops, opens, answered>>

(* RecvStream::stop of streams whose senders are still open. *)
Stop(e) ==
    /\ stops[e] < MaxStops /\ SendFrame(e, "stop")
    /\ stops' = [stops EXCEPT ![e] = @ + 1]
    /\ UNCHANGED <<wire, sent, opens, answered>>

(* Session::open_uni. *)
Open(e) ==
    /\ opens[e] < MaxOpens /\ SendFrame(e, "open")
    /\ opens' = [opens EXCEPT ![e] = @ + 1]
    /\ UNCHANGED <<wire, sent, stops, answered>>

(* The outbound task: ws_sink.send waits while the transport is full. *)
Write(e) ==
    /\ line[e] # <<>> /\ Len(wire[e]) < WireLen
    /\ wire' = [wire EXCEPT ![e] = Append(@, Head(line[e]))]
    /\ line' = [line EXCEPT ![e] = Tail(@)]
    /\ UNCHANGED <<sent, stops, opens, answered>>

(* What handle_frame sends: a StopSending is answered by ResetStream, and   *)
(* an OPEN, when its stream is registered, by the initial credit.           *)
Answer == [stop |-> "reset", open |-> "max"]

(* The inbound task is suspended in send_frame. *)
Suspended(e) ==
    \E i \in OutboundLen + 1..Len(line[e]) : line[e][i] \in {"reset", "max"}

(* handle_frame: OpenUni, Stream, StopSending, MaxStreamData, ResetStream. *)
HandleFrame(e) ==
    /\ ~Suspended(e) /\ wire[Peer(e)] # <<>>
    /\ wire' = [wire EXCEPT ![Peer(e)] = Tail(@)]
    /\ LET f == Head(wire[Peer(e)]) IN
       /\ IF f \in DOMAIN Answer THEN SendFrame(e, Answer[f]) ELSE UNCHANGED line
       /\ answered' = [answered EXCEPT ![e] = IF f = "reset" THEN @ + 1 ELSE @]
    /\ UNCHANGED <<sent, stops, opens>>

Next == \E e \in Ends :
    SendData(e) \/ Stop(e) \/ Open(e) \/ Write(e) \/ HandleFrame(e)

(* The runtime polls both tasks of both endpoints. *)
Fairness == \A e \in Ends : WF_vars(Write(e)) /\ WF_vars(HandleFrame(e))

Spec == Init /\ [][Next]_vars /\ Fairness

-----------------------------------------------------------------------------
(* mux-protocol.md: the peer of a StopSending "closes it and replies with   *)
(* ResetStream": every stop is eventually answered.                         *)
StopsAnswered ==
    \A e \in Ends : \A n \in 1..MaxStops :
       (stops[e] >= n) ~> (answered[e] >= n)

=============================================================================
