---------------------------- MODULE SendHandles ----------------------------
(***************************************************************************)
(* The clones of one SendStream (websock-tungstenite-mux/src/session.rs):  *)
(* handles used from different tasks share `finished`, `operation`,        *)
(* `api_mode` and the SendFlowState with its single AtomicWaker.           *)
(*                                                                         *)
(* The runtime is multi-threaded: what one poll does between two accesses  *)
(* to shared state can interleave with a poll of another handle.  A chunk  *)
(* is one unit of credit.  The inbound and outbound tasks appear as the    *)
(* credit, stop, close and drain steps they cause here.                    *)
(***************************************************************************)
EXTENDS Integers, Sequences, FiniteSets

CONSTANTS
    Handles,      \* the handles that ever exist
    OutboundLen,  \* Limits.outbound_queue_len
    MaxCredit,    \* bound: credit the peer ever grants
    MaxOut,       \* bound: frames after which no new reset is called
    None          \* no waker registered

ASSUME HandlesAssumption ==
    /\ IsFiniteSet(Handles) /\ None \notin Handles
    /\ OutboundLen \in Nat \ {0} /\ MaxCredit \in Nat /\ MaxOut \in Nat

VARIABLES
    made,       \* handles created so far
    alive,      \* handles that hold a reference to `finished`
    pc,         \* where each handle is in an operation
    finished, operation, apiMode,
    flowLive,   \* the flow is in send_flows and not closed
    maxData, sentData,
    waker,      \* the task registered in the flow's AtomicWaker
    woken,      \* handles whose task will be polled again
    out,        \* history: frames of this stream admitted to the queue
    queued,     \* how many of them are still in the queue
    asking,     \* handles whose PollSender waits for a slot of the queue
    held,       \* handles whose PollSender has been given one
    acking,     \* the inbound task waits for a slot for its RESET
    down,       \* shutdown_started
    closed,     \* close_all has run
    gone        \* the outbound task dropped the queue's receiver

shared == <<finished, operation, apiMode>>
flow   == <<flowLive, maxData, sentData>>
wake   == <<waker, woken>>
q      == <<out, queued>>
slots  == <<asking, held>>
ses    == <<acking, down, closed, gone>>
life   == <<made, alive>>
vars   == <<life, pc, shared, flow, wake, q, slots, ses>>

-----------------------------------------------------------------------------
(* A reserved permit counts against the capacity until it is used. *)
Room       == queued + Cardinality(held) < OutboundLen /\ ~gone
IsClosed   == down \/ closed
At(h, l)   == h \in alive /\ pc[h] = l
Goto(h, l) == pc' = [pc EXCEPT ![h] = l]
Push(f)    == out' = Append(out, f) /\ queued' = queued + 1

Init ==
    /\ \E h \in Handles : made = {h} /\ alive = {h}
    /\ pc = [h \in Handles |-> "idle"]
    /\ finished = FALSE /\ operation = FALSE /\ apiMode = 0
    /\ flowLive = TRUE /\ maxData = 0 /\ sentData = 0
    /\ waker = None /\ woken = {}
    /\ out = <<>> /\ queued = 0 /\ asking = {} /\ held = {}
    /\ acking = FALSE /\ down = FALSE /\ closed = FALSE /\ gone = FALSE

(* AtomicWaker::register and wake: the last registration is the one woken. *)
Register(h) == waker' = h /\ woken' = woken \ {h}
Wake        == /\ waker' = None
               /\ woken' = IF waker = None THEN woken ELSE woken \cup {waker}

CanReserve == flowLive /\ sentData < maxData

(* select_api and begin_operation; direct calls are mode 1, AsyncWrite is 2 *)
ApiOk(mode)  == apiMode \in {0, mode}
Select(mode) == apiMode' = mode
BeginWithoutGuard(mode) == ApiOk(mode) /\ Select(mode) /\ operation' = TRUE
BeginOperation(mode) ==
    /\ ApiOk(mode) /\ Select(mode)
    /\ ~operation /\ operation' = TRUE

CloneHandle(h, c) ==
    /\ At(h, "idle") /\ c \in Handles \ made
    /\ made' = made \cup {c} /\ alive' = alive \cup {c}
    /\ UNCHANGED <<pc, slots, shared, flow, wake, q, ses>>

-----------------------------------------------------------------------------
(* Direct API: the operation guard is held for the whole call *)

WriteBuf(h) ==
    /\ At(h, "idle") /\ ~finished /\ ~IsClosed
    /\ BeginOperation(1)
    /\ Goto(h, "reserve") /\ woken' = woken \cup {h}
    /\ UNCHANGED <<life, slots, finished, flow, waker, q, ses>>

(* One poll of the wait for credit: the waker is registered first. *)
Reserve(h) ==
    /\ At(h, "reserve") /\ h \in woken
    /\ Register(h) /\ Goto(h, "tryReserve")
    /\ UNCHANGED <<life, slots, shared, flow, q, ses>>

(* Mutant: after a failed try only the session is looked at again. *)
TryReserveNoRecheck(h) ==
    /\ At(h, "tryReserve")
    /\ \/ /\ ~CanReserve /\ ~IsClosed
          /\ Goto(h, "reserve") /\ UNCHANGED <<sentData, operation>>
       \/ /\ CanReserve /\ ~IsClosed
          /\ sentData' = sentData + 1 /\ Goto(h, "send") /\ UNCHANGED operation
       \/ IsClosed /\ Goto(h, "idle") /\ operation' = FALSE /\ UNCHANGED sentData
    /\ UNCHANGED <<life, slots, finished, apiMode, flowLive, maxData, wake, q, ses>>

(* Then try_reserve runs; a wake in between makes the task be polled again. *)
TryReserve(h) ==
    /\ At(h, "tryReserve")
    /\ \/ /\ flowLive /\ ~IsClosed /\ ~CanReserve
          /\ Goto(h, "reserve") /\ UNCHANGED <<sentData, operation>>
       \/ /\ flowLive /\ ~IsClosed /\ CanReserve
          /\ sentData' = sentData + 1 /\ Goto(h, "send") /\ UNCHANGED operation
       \/ /\ ~flowLive \/ IsClosed
          /\ Goto(h, "idle") /\ operation' = FALSE /\ UNCHANGED sentData
    /\ UNCHANGED <<life, slots, finished, apiMode, flowLive, maxData, wake, q, ses>>

Send(h) ==
    /\ At(h, "send")
    /\ \/ /\ Room /\ flowLive
          /\ Push("data") /\ UNCHANGED sentData
       \/ /\ gone \/ (Room /\ ~flowLive)
          /\ sentData' = sentData - 1 /\ UNCHANGED q
    /\ Goto(h, "idle") /\ operation' = FALSE
    /\ UNCHANGED <<life, slots, finished, apiMode, flowLive, maxData, wake, ses>>

Finish(h) ==
    /\ At(h, "idle") /\ ~finished /\ flowLive /\ ~IsClosed
    /\ BeginOperation(1)
    /\ finished' = TRUE /\ Goto(h, "finSend")
    /\ UNCHANGED <<life, slots, flow, wake, q, ses>>

FinSend(h) ==
    /\ At(h, "finSend")
    /\ \/ /\ Room /\ flowLive
          /\ Push("fin") /\ Goto(h, "finRemove") /\ UNCHANGED operation
       \/ /\ gone \/ (Room /\ ~flowLive)
          /\ Goto(h, "idle") /\ operation' = FALSE /\ UNCHANGED q
    /\ UNCHANGED <<life, slots, finished, apiMode, flow, wake, ses>>

RemoveWithoutWake == flowLive' = FALSE /\ UNCHANGED wake
RemoveSendFlow ==
    /\ flowLive' = FALSE
    /\ IF flowLive THEN Wake ELSE UNCHANGED wake

FinRemove(h) ==
    /\ At(h, "finRemove") /\ RemoveSendFlow
    /\ Goto(h, "idle") /\ operation' = FALSE
    /\ UNCHANGED <<life, slots, finished, apiMode, maxData, sentData, q, ses>>

Reset(h) ==
    /\ At(h, "idle") /\ Len(out) < MaxOut
    /\ ~operation /\ operation' = ~IsClosed
    /\ finished' = TRUE /\ RemoveSendFlow
    /\ Goto(h, IF IsClosed THEN "idle" ELSE "rstSend")
    /\ UNCHANGED <<life, slots, apiMode, maxData, sentData, q, ses>>

RstSend(h) ==
    /\ At(h, "rstSend")
    /\ \/ Room /\ Push("reset")
       \/ gone /\ UNCHANGED q
    /\ Goto(h, "idle") /\ operation' = FALSE
    /\ UNCHANGED <<life, slots, finished, apiMode, flow, wake, ses>>

(* Dropping the future of a suspended direct call. *)
Cancel(h) ==
    /\ h \in alive /\ pc[h] \in {"reserve", "send", "finSend", "rstSend"}
    /\ Goto(h, "idle") /\ operation' = FALSE /\ down' = TRUE
    /\ UNCHANGED <<life, slots, finished, apiMode, flow, wake, q, acking, closed, gone>>

(* A call refused because another one is in progress, or because the        *)
(* stream is over, has already selected its API.                            *)
Refused(h, mode) ==
    /\ At(h, "idle") /\ apiMode = 0
    /\ operation \/ finished \/ ~flowLive \/ IsClosed
    /\ Select(mode)
    /\ UNCHANGED <<life, slots, pc, finished, operation, flow, wake, q, ses>>

-----------------------------------------------------------------------------
(* AsyncWrite: the operation guard is held only during a poll of poll_write *)

(* PollSender::poll_reserve: a slot that was given to this handle is there  *)
(* for its next poll, and kept until then; so is its place in the line when *)
(* the poll ends Pending.  Slots are given out in any order here.           *)
HasSlot(h)  == h \in held \/ (Room /\ h \notin asking)
TakeSlot(h) == held' = held \cup {h} /\ UNCHANGED asking
AskSlot(h)  == asking' = asking \cup {h} /\ UNCHANGED held
UseSlot(h)  == held' = held \ {h} /\ UNCHANGED asking

GiveSlot(h) ==
    /\ h \in asking /\ Room
    /\ asking' = asking \ {h} /\ held' = held \cup {h}
    /\ woken' = woken \cup {h}
    /\ UNCHANGED <<life, pc, shared, flow, waker, q, ses>>

Pollable(h, waiting) == At(h, "idle") \/ (h \in alive \cap woken /\ pc[h] \in waiting)

(* poll_write takes the guard for one poll and registers the waker. *)
PollWrite(h) ==
    /\ Pollable(h, {"wRoom", "wCredit"})
    /\ ApiOk(2) /\ Select(2)
    /\ \/ /\ operation \/ finished \/ ~flowLive \/ IsClosed
          /\ Goto(h, "idle") /\ UNCHANGED <<wake, operation>>
       \/ /\ ~operation /\ ~finished /\ flowLive /\ ~IsClosed
          /\ Register(h) /\ operation' = TRUE /\ Goto(h, "wTry")
    /\ UNCHANGED <<life, finished, flow, q, slots, ses>>

(* Then it reserves credit and a slot of the queue.  A poll that ends       *)
(* Pending or with an error gives the credit back and drops the guard.      *)
PollWriteTry(h) ==
    /\ At(h, "wTry")
    /\ \/ /\ CanReserve /\ HasSlot(h) /\ TakeSlot(h)
          /\ sentData' = sentData + 1 /\ Goto(h, "wPub") /\ UNCHANGED operation
       \/ /\ CanReserve /\ ~HasSlot(h)
          /\ IF gone THEN Goto(h, "idle") /\ UNCHANGED slots
                     ELSE Goto(h, "wRoom") /\ AskSlot(h)
          /\ operation' = FALSE /\ UNCHANGED sentData
       \/ /\ ~CanReserve
          /\ Goto(h, IF flowLive /\ ~IsClosed THEN "wCredit" ELSE "idle")
          /\ operation' = FALSE /\ UNCHANGED <<sentData, slots>>
    /\ UNCHANGED <<life, finished, apiMode, flowLive, maxData, wake, q, ses>>

PollWriteKeepsCredit(h) ==
    /\ At(h, "wPub") /\ UseSlot(h)
    /\ \/ flowLive /\ Push("data")
       \/ ~flowLive /\ UNCHANGED q
    /\ Goto(h, "idle") /\ operation' = FALSE
    /\ UNCHANGED <<life, finished, apiMode, flow, wake, ses>>
PollWritePublish(h) ==
    /\ At(h, "wPub") /\ UseSlot(h)
    /\ \/ flowLive /\ Push("data") /\ UNCHANGED sentData
       \/ ~flowLive /\ sentData' = sentData - 1 /\ UNCHANGED q
    /\ Goto(h, "idle") /\ operation' = FALSE
    /\ UNCHANGED <<life, finished, apiMode, flowLive, maxData, wake, ses>>

PollShutdown(h) ==
    /\ Pollable(h, {"sRoom"})
    /\ ApiOk(2) /\ Select(2) /\ woken' = woken \ {h}
    /\ \/ /\ finished \/ ~flowLive \/ IsClosed
          /\ Goto(h, "idle") /\ UNCHANGED slots
       \/ /\ ~finished /\ flowLive /\ ~IsClosed
          /\ \/ HasSlot(h) /\ TakeSlot(h) /\ Goto(h, "sPub")
             \/ ~HasSlot(h) /\ ~gone /\ AskSlot(h) /\ Goto(h, "sRoom")
    /\ UNCHANGED <<life, finished, operation, flow, waker, q, ses>>

PollShutdownPublish(h) ==
    /\ At(h, "sPub") /\ UseSlot(h)
    /\ \/ flowLive /\ Push("fin") /\ Goto(h, "sFin")
       \/ ~flowLive /\ Goto(h, "idle") /\ UNCHANGED q
    /\ UNCHANGED <<life, shared, flow, wake, ses>>

PollShutdownRemove(h) ==
    /\ At(h, "sFin")
    /\ finished' = TRUE /\ RemoveSendFlow /\ Goto(h, "idle")
    /\ UNCHANGED <<life, operation, apiMode, maxData, sentData, q, slots, ses>>

(* The task stops polling a pending write or shutdown.  The place in the    *)
(* line, or the slot, stays with the handle.                                *)
AbandonPoll(h) ==
    /\ h \in alive /\ pc[h] \in {"wCredit", "wRoom", "sRoom"}
    /\ Goto(h, "idle")
    /\ UNCHANGED <<life, slots, shared, flow, wake, q, ses>>

-----------------------------------------------------------------------------
(* Drop for SendStream: the reference count is read first, the handle's     *)
(* own reference and its PollSender go away after the destructor's body     *)

DropCheck(h) ==
    /\ At(h, "idle")
    /\ Goto(h, IF Cardinality(alive) = 1 THEN "dropLast" ELSE "dropRest")
    /\ UNCHANGED <<life, slots, shared, flow, wake, q, ses>>

DropRest(h) ==
    /\ At(h, "dropRest")
    /\ alive' = alive \ {h} /\ asking' = asking \ {h} /\ held' = held \ {h}
    /\ UNCHANGED <<made, pc, shared, flow, wake, q, ses>>

DropLast(h) ==
    /\ At(h, "dropLast")
    /\ alive' = alive \ {h} /\ asking' = asking \ {h} /\ held' = held \ {h}
    /\ RemoveSendFlow
    /\ \/ finished /\ UNCHANGED <<q, down>>
       \/ ~finished /\ Room /\ ~IsClosed /\ Push("reset") /\ UNCHANGED down
       \/ ~finished /\ (~Room \/ IsClosed) /\ down' = TRUE /\ UNCHANGED q
    /\ UNCHANGED <<made, pc, shared, maxData, sentData, acking, closed, gone>>

-----------------------------------------------------------------------------
(* What the session tasks do to the stream *)

HandleMaxStreamData ==
    /\ flowLive /\ maxData < MaxCredit
    /\ maxData' = maxData + 1 /\ Wake
    /\ UNCHANGED <<life, slots, pc, shared, flowLive, sentData, q, ses>>

HandleStopSending ==
    /\ flowLive /\ RemoveSendFlow /\ acking' = ~IsClosed
    /\ UNCHANGED <<life, slots, pc, shared, maxData, sentData, q, down, closed, gone>>

AckStop ==
    /\ acking /\ Room /\ Push("reset") /\ acking' = FALSE
    /\ UNCHANGED <<life, slots, pc, shared, flow, wake, down, closed, gone>>

Drain ==
    /\ queued > 0 /\ ~gone
    /\ queued' = queued - 1
    /\ UNCHANGED <<life, slots, pc, shared, flow, wake, out, ses>>

RequestShutdown ==
    /\ ~down /\ down' = TRUE
    /\ UNCHANGED <<life, slots, pc, shared, flow, wake, q, acking, closed, gone>>

(* A task ends, after a local request or because the peer left. *)
CloseAll ==
    /\ ~closed /\ closed' = TRUE /\ RemoveSendFlow
    /\ UNCHANGED <<life, slots, pc, shared, maxData, sentData, q, acking, down, gone>>

OutboundEnds ==
    /\ closed /\ ~gone /\ gone' = TRUE /\ acking' = FALSE
    /\ asking' = {} /\ woken' = woken \cup asking
    /\ UNCHANGED <<life, pc, shared, flow, waker, q, held, down, closed>>

-----------------------------------------------------------------------------
Call(h)  == \/ WriteBuf(h) \/ Finish(h) \/ Reset(h)
            \/ \E mode \in {1, 2} : Refused(h, mode)
            \/ \E c \in Handles : CloneHandle(h, c)
(* A poll the runtime owes to the handle's task. *)
Step(h)  == \/ Reserve(h) \/ TryReserve(h) \/ Send(h) \/ FinSend(h) \/ FinRemove(h) \/ RstSend(h)
            \/ pc[h] # "idle" /\ (PollWrite(h) \/ PollShutdown(h))
            \/ PollWriteTry(h) \/ PollWritePublish(h) \/ PollShutdownPublish(h)
            \/ PollShutdownRemove(h) \/ DropRest(h) \/ DropLast(h)
First(h) == pc[h] = "idle" /\ (PollWrite(h) \/ PollShutdown(h))
Leave(h) == Cancel(h) \/ AbandonPoll(h) \/ DropCheck(h)
Tasks    == \/ AckStop \/ Drain \/ OutboundEnds \/ (down /\ CloseAll)
            \/ \E h \in Handles : GiveSlot(h)

Next ==
    \/ \E h \in Handles : Call(h) \/ Step(h) \/ First(h) \/ Leave(h) \/ GiveSlot(h)
    \/ HandleMaxStreamData \/ HandleStopSending \/ RequestShutdown
    \/ AckStop \/ Drain \/ CloseAll \/ OutboundEnds

Spec == Init /\ [][Next]_vars

(* The runtime polls woken tasks and the session's tasks. *)
LiveSpec == Spec /\ WF_vars(Tasks) /\ \A h \in Handles : WF_vars(Step(h))

-----------------------------------------------------------------------------
(* Properties *)

(* "MUST NOT be sent after FIN or reset" (mux-protocol.md): no Stream frame *)
(* of any handle, FIN included, follows one that ended the direction.       *)
NothingAfterTerminal ==
    \A i, j \in 1..Len(out) :
       i < j /\ out[i] \in {"fin", "reset"} => out[j] = "reset"

(* The same for streams whose clones only use the direct API: the operation *)
(* guard serialises writes, finish and reset over every clone.              *)
DirectCallsSerialized == apiMode # 2 => NothingAfterTerminal

(* mux-protocol.md: "Stream data [...] MUST NOT be sent after FIN or reset", *)
(* for either API.  poll_shutdown takes no guard: between its FIN and the   *)
(* removal of the flow the poll_write of a clone finds the flow open.       *)
DataEndsAtTerminal ==
    \A i, j \in 1..Len(out) : i < j /\ out[i] \in {"fin", "reset"} => out[j] # "data"

(* No credit is lost or spent twice by calls that failed, were refused, or  *)
(* raced with stop and close: what is counted as sent was published or is   *)
(* about to be.  (A cancelled call keeps its reservation, and aborts.)      *)
CreditConserved ==
    ~down => sentData = Cardinality({i \in 1..Len(out) : out[i] = "data"})
                        + Cardinality({h \in alive : pc[h] \in {"send", "wPub"}})

(* A direct write that waits for credit does not miss its wake-up: it does  *)
(* not wait for ever next to credit it could use, nor for a flow that was   *)
(* retired by a stop of the peer or the end of the session.                 *)
DirectWriterReleased ==
    \A h \in Handles :
       []<>(At(h, "reserve") => flowLive /\ ~CanReserve)

(* Of the clones pending in poll_write, for credit or for a slot of the     *)
(* queue, the one registered last does not wait for ever for a flow that    *)
(* was retired before, during or after the poll that registered it, however *)
(* full the queue is.  (The others may: the AtomicWaker has one slot.)      *)
PolledWriterReleased ==
    \A h \in Handles :
       []<>(At(h, "wCredit") \/ At(h, "wRoom") =>
              flowLive \/ (waker # h /\ h \notin woken))

(* "Dropping an unfinished handle resets it, or aborts the session": after  *)
(* the last handle is gone, the direction is finished, retired or aborted.  *)
LastDropTerminates == alive = {} => finished \/ ~flowLive \/ down

=============================================================================
