------------------------- MODULE SendHandlesProofs -------------------------
(* Proofs about SendHandles, for every set of handles and every bound. *)
EXTENDS SendHandles, FiniteSetTheorems, TLAPS

(* Where a handle can be: in a direct call, in a poll, or in its Drop.      *)
Direct  == {"reserve", "tryReserve", "send", "finSend", "finRemove", "rstSend"}
Polls   == {"wTry", "wPub", "wRoom", "wCredit", "sRoom", "sPub", "sFin"}
Guarded == Direct \cup {"wTry", "wPub"}
Places  == {"idle", "dropRest", "dropLast"} \cup Direct \cup Polls

PlaceType == made \in SUBSET Handles /\ alive \in SUBSET Handles /\ pc \in [Handles -> Places]
CallType  == finished \in BOOLEAN /\ operation \in BOOLEAN /\ apiMode \in {0, 1, 2}
FlowType  == flowLive \in BOOLEAN /\ maxData \in Nat /\ sentData \in Int
WakeType  == waker \in Handles \cup {None} /\ woken \in SUBSET Handles
QueueType == out \in Seq({"data", "fin", "reset"}) /\ queued \in Nat
SlotType  == asking \in SUBSET Handles /\ held \in SUBSET Handles
TaskType  == acking \in BOOLEAN /\ down \in BOOLEAN /\ closed \in BOOLEAN /\ gone \in BOOLEAN

TypeOK == /\ PlaceType /\ CallType /\ FlowType /\ WakeType /\ QueueType /\ SlotType
          /\ TaskType

(* A handle that does not exist yet is nowhere.                             *)
LifeInv == alive \subseteq made /\ \A h \in Handles \ made : pc[h] = "idle"

(* One handle at a time is inside begin_operation ... drop(guard), and the  *)
(* flag is set while it is.                                                 *)
GuardInv ==
    \A h \in alive : pc[h] \in Guarded =>
        operation /\ \A g \in alive : pc[g] \in Guarded => g = h

(* Polls belong to a stream that selected AsyncWrite.                       *)
ApiInv == \A h \in alive : pc[h] \in Polls => apiMode = 2

(* A frame that ends the direction is in the queue only when the flow is    *)
(* retired, or about to be by the handle that queued its FIN.               *)
Over == \E h \in alive : pc[h] = "finRemove"
EndInv ==
    /\ acking => ~flowLive
    /\ \A h \in alive : pc[h] = "rstSend" => ~flowLive
    /\ apiMode # 2 =>
          \A i \in 1..Len(out) : out[i] \in {"fin", "reset"} => ~flowLive \/ Over

IInv == /\ TypeOK /\ LifeInv /\ GuardInv /\ ApiInv /\ EndInv
        /\ DirectCallsSerialized /\ CreditConserved

(* A handle moves to its next place; the others stay where they are.        *)
LEMMA Moved ==
    ASSUME PlaceType, NEW h \in Handles
    PROVE  \A l \in Places : Goto(h, l) =>
              /\ pc' \in [Handles -> Places] /\ pc'[h] = l
              /\ \A g \in Handles \ {h} : pc'[g] = pc[g]
  BY DEF Goto, PlaceType

(* A frame that is admitted to the queue comes behind the others.           *)
LEMMA Pushed ==
    ASSUME QueueType, NEW f \in {"data", "fin", "reset"}, Push(f)
    PROVE  /\ QueueType' /\ Len(out) \in Nat /\ Len(out') = Len(out) + 1
           /\ out'[Len(out) + 1] = f /\ \A i \in 1..Len(out) : out'[i] = out[i]
  <1>1. out' = Append(out, f) /\ queued' = queued + 1 /\ out \in Seq({"data", "fin", "reset"})
        /\ queued \in Nat
    BY DEF Push, QueueType
  <1>2. out' \in Seq({"data", "fin", "reset"}) /\ queued' \in Nat
    BY <1>1
  <1> QED BY <1>1, <1>2 DEF QueueType

(* A group of variables that a step leaves alone keeps its type.            *)
LEMMA GroupsKept ==
    ASSUME TypeOK
    PROVE  /\ UNCHANGED <<life, pc>> => PlaceType'
           /\ UNCHANGED shared => CallType'
           /\ UNCHANGED flow => FlowType'
           /\ UNCHANGED wake => WakeType'
           /\ UNCHANGED q => QueueType'
           /\ UNCHANGED slots => SlotType'
           /\ UNCHANGED ses => TaskType'
  BY DEF TypeOK, PlaceType, CallType, FlowType, WakeType, QueueType, SlotType, TaskType,
         life, shared, flow, wake, q, slots, ses

(* What the calls and polls of a handle, and the session's tasks, do to the *)
(* variables keeps their types.                                             *)
LEMMA TypeStep ==
    ASSUME TypeOK, [Next]_vars
    PROVE  TypeOK'
  <1> USE DEF TypeOK
  <1>0. "idle" \in Places
    BY DEF Places
  <1>1. ASSUME NEW h \in Handles, Call(h) \/ Step(h) \/ First(h) \/ Leave(h) \/ GiveSlot(h)
        PROVE  TypeOK'
    <2>1. CASE WriteBuf(h)
      <3>1. PlaceType'
        BY <2>1, Moved DEF WriteBuf, PlaceType, life, At, Goto, Pollable, Places, Direct,
             Polls
      <3>2. CallType'
        BY <2>1 DEF WriteBuf, CallType, shared, BeginOperation, ApiOk, Select
      <3>3. WakeType'
        BY <2>1 DEF WriteBuf, WakeType, PlaceType, wake, Register, Wake, RemoveSendFlow
      <3> QED BY <2>1, <3>1, <3>2, <3>3, GroupsKept DEF WriteBuf
    <2>2. CASE Reserve(h)
      <3>1. PlaceType'
        BY <2>2, Moved DEF Reserve, PlaceType, life, At, Goto, Pollable, Places, Direct,
             Polls
      <3>2. WakeType'
        BY <2>2 DEF Reserve, WakeType, PlaceType, wake, Register, Wake, RemoveSendFlow
      <3> QED BY <2>2, <3>1, <3>2, GroupsKept DEF Reserve
    <2>3. CASE TryReserve(h)
      <3>1. PlaceType'
        BY <2>3, Moved DEF TryReserve, PlaceType, life, At, Goto, Pollable, Places,
             Direct, Polls
      <3>2. CallType'
        BY <2>3 DEF TryReserve, CallType, shared, BeginOperation, ApiOk, Select
      <3>3. FlowType'
        BY <2>3 DEF TryReserve, FlowType, flow, RemoveSendFlow
      <3> QED BY <2>3, <3>1, <3>2, <3>3, GroupsKept DEF TryReserve
    <2>4. CASE Send(h)
      <3>1. PlaceType'
        BY <2>4, Moved DEF Send, PlaceType, life, At, Goto, Pollable, Places, Direct, Polls
      <3>2. CallType'
        BY <2>4 DEF Send, CallType, shared, BeginOperation, ApiOk, Select
      <3>3. FlowType'
        BY <2>4 DEF Send, FlowType, flow, RemoveSendFlow
      <3>4. QueueType'
        BY <2>4 DEF Send, QueueType, q, Push
      <3> QED BY <2>4, <3>1, <3>2, <3>3, <3>4, GroupsKept DEF Send
    <2>5. CASE Finish(h)
      <3>1. PlaceType'
        BY <2>5, Moved DEF Finish, PlaceType, life, At, Goto, Pollable, Places, Direct,
             Polls
      <3>2. CallType'
        BY <2>5 DEF Finish, CallType, shared, BeginOperation, ApiOk, Select
      <3> QED BY <2>5, <3>1, <3>2, GroupsKept DEF Finish
    <2>6. CASE FinSend(h)
      <3>1. PlaceType'
        BY <2>6, Moved DEF FinSend, PlaceType, life, At, Goto, Pollable, Places, Direct,
             Polls
      <3>2. CallType'
        BY <2>6 DEF FinSend, CallType, shared, BeginOperation, ApiOk, Select
      <3>3. QueueType'
        <4>1. Push("fin") \/ UNCHANGED q
          BY <2>6, Zenon DEF FinSend
        <4> QED BY <4>1, Pushed, GroupsKept
      <3> QED BY <2>6, <3>1, <3>2, <3>3, GroupsKept DEF FinSend
    <2>7. CASE FinRemove(h)
      <3>1. PlaceType'
        BY <2>7, Moved DEF FinRemove, PlaceType, life, At, Goto, Pollable, Places, Direct,
             Polls
      <3>2. CallType'
        BY <2>7 DEF FinRemove, CallType, shared, BeginOperation, ApiOk, Select
      <3>3. FlowType'
        BY <2>7 DEF FinRemove, FlowType, flow, RemoveSendFlow
      <3>4. WakeType'
        BY <2>7 DEF FinRemove, WakeType, PlaceType, wake, Register, Wake, RemoveSendFlow
      <3> QED BY <2>7, <3>1, <3>2, <3>3, <3>4, GroupsKept DEF FinRemove
    <2>8. CASE Reset(h)
      <3>1. PlaceType'
        BY <2>8, Moved DEF Reset, PlaceType, life, At, Goto, Pollable, Places, Direct, Polls
      <3>2. CallType'
        BY <2>8 DEF Reset, CallType, shared, BeginOperation, ApiOk, Select
      <3>3. FlowType'
        BY <2>8 DEF Reset, FlowType, flow, RemoveSendFlow
      <3>4. WakeType'
        BY <2>8 DEF Reset, WakeType, PlaceType, wake, Register, Wake, RemoveSendFlow
      <3> QED BY <2>8, <3>1, <3>2, <3>3, <3>4, GroupsKept DEF Reset
    <2>9. CASE RstSend(h)
      <3>1. PlaceType'
        BY <2>9, Moved DEF RstSend, PlaceType, life, At, Goto, Pollable, Places, Direct,
             Polls
      <3>2. CallType'
        BY <2>9 DEF RstSend, CallType, shared, BeginOperation, ApiOk, Select
      <3>3. QueueType'
        <4>1. Push("reset") \/ UNCHANGED q
          BY <2>9, Zenon DEF RstSend
        <4> QED BY <4>1, Pushed, GroupsKept
      <3> QED BY <2>9, <3>1, <3>2, <3>3, GroupsKept DEF RstSend
    <2>10. CASE Cancel(h)
      <3>1. PlaceType'
        BY <2>10, Moved DEF Cancel, PlaceType, life, At, Goto, Pollable, Places, Direct,
             Polls
      <3>2. CallType'
        BY <2>10 DEF Cancel, CallType, shared, BeginOperation, ApiOk, Select
      <3>3. TaskType'
        BY <2>10 DEF Cancel, TaskType, ses
      <3> QED BY <2>10, <3>1, <3>2, <3>3, GroupsKept DEF Cancel
    <2>11. CASE GiveSlot(h)
      <3>1. WakeType'
        BY <2>11 DEF GiveSlot, WakeType, PlaceType, wake, Register, Wake, RemoveSendFlow
      <3>2. SlotType'
        BY <2>11 DEF GiveSlot, SlotType, PlaceType, slots, TakeSlot, AskSlot, UseSlot,
             HasSlot
      <3> QED BY <2>11, <3>1, <3>2, GroupsKept DEF GiveSlot
    <2>12. CASE PollWrite(h)
      <3>1. PlaceType'
        BY <2>12, Moved DEF PollWrite, PlaceType, life, At, Goto, Pollable, Places,
             Direct, Polls
      <3>2. CallType'
        BY <2>12 DEF PollWrite, CallType, shared, BeginOperation, ApiOk, Select
      <3>3. WakeType'
        BY <2>12 DEF PollWrite, WakeType, PlaceType, wake, Register, Wake, RemoveSendFlow
      <3> QED BY <2>12, <3>1, <3>2, <3>3, GroupsKept DEF PollWrite
    <2>13. CASE PollWriteTry(h)
      <3>1. PlaceType'
        BY <2>13, Moved DEF PollWriteTry, PlaceType, life, At, Goto, Pollable, Places,
             Direct, Polls
      <3>2. CallType'
        BY <2>13 DEF PollWriteTry, CallType, shared, BeginOperation, ApiOk, Select
      <3>3. FlowType'
        BY <2>13 DEF PollWriteTry, FlowType, flow, RemoveSendFlow
      <3>4. SlotType'
        BY <2>13 DEF PollWriteTry, SlotType, PlaceType, slots, TakeSlot, AskSlot, UseSlot,
             HasSlot
      <3> QED BY <2>13, <3>1, <3>2, <3>3, <3>4, GroupsKept DEF PollWriteTry
    <2>14. CASE PollWritePublish(h)
      <3>1. PlaceType'
        BY <2>14, Moved DEF PollWritePublish, PlaceType, life, At, Goto, Pollable, Places,
             Direct, Polls
      <3>2. CallType'
        BY <2>14 DEF PollWritePublish, CallType, shared, BeginOperation, ApiOk, Select
      <3>3. FlowType'
        BY <2>14 DEF PollWritePublish, FlowType, flow, RemoveSendFlow
      <3>4. QueueType'
        <4>1. Push("data") \/ UNCHANGED q
          BY <2>14, Zenon DEF PollWritePublish
        <4> QED BY <4>1, Pushed, GroupsKept
      <3>5. SlotType'
        BY <2>14 DEF PollWritePublish, SlotType, PlaceType, slots, TakeSlot, AskSlot,
             UseSlot, HasSlot
      <3> QED BY <2>14, <3>1, <3>2, <3>3, <3>4, <3>5, GroupsKept DEF PollWritePublish
    <2>15. CASE PollShutdown(h)
      <3>1. PlaceType'
        BY <2>15, Moved DEF PollShutdown, PlaceType, life, At, Goto, Pollable, Places,
             Direct, Polls
      <3>2. CallType'
        BY <2>15 DEF PollShutdown, CallType, shared, BeginOperation, ApiOk, Select
      <3>3. WakeType'
        BY <2>15 DEF PollShutdown, WakeType, PlaceType, wake, Register, Wake, RemoveSendFlow
      <3>4. SlotType'
        BY <2>15 DEF PollShutdown, SlotType, PlaceType, slots, TakeSlot, AskSlot, UseSlot,
             HasSlot
      <3> QED BY <2>15, <3>1, <3>2, <3>3, <3>4, GroupsKept DEF PollShutdown
    <2>16. CASE PollShutdownPublish(h)
      <3>1. PlaceType'
        BY <2>16, Moved DEF PollShutdownPublish, PlaceType, life, At, Goto, Pollable,
             Places, Direct, Polls
      <3>2. QueueType'
        <4>1. Push("fin") \/ UNCHANGED q
          BY <2>16, Zenon DEF PollShutdownPublish
        <4> QED BY <4>1, Pushed, GroupsKept
      <3>3. SlotType'
        BY <2>16 DEF PollShutdownPublish, SlotType, PlaceType, slots, TakeSlot, AskSlot,
             UseSlot, HasSlot
      <3> QED BY <2>16, <3>1, <3>2, <3>3, GroupsKept DEF PollShutdownPublish
    <2>17. CASE PollShutdownRemove(h)
      <3>1. PlaceType'
        BY <2>17, Moved DEF PollShutdownRemove, PlaceType, life, At, Goto, Pollable,
             Places, Direct, Polls
      <3>2. CallType'
        BY <2>17 DEF PollShutdownRemove, CallType, shared, BeginOperation, ApiOk, Select
      <3>3. FlowType'
        BY <2>17 DEF PollShutdownRemove, FlowType, flow, RemoveSendFlow
      <3>4. WakeType'
        BY <2>17 DEF PollShutdownRemove, WakeType, PlaceType, wake, Register, Wake,
             RemoveSendFlow
      <3> QED BY <2>17, <3>1, <3>2, <3>3, <3>4, GroupsKept DEF PollShutdownRemove
    <2>18. CASE AbandonPoll(h)
      <3>1. PlaceType'
        BY <2>18, Moved DEF AbandonPoll, PlaceType, life, At, Goto, Pollable, Places,
             Direct, Polls
      <3> QED BY <2>18, <3>1, GroupsKept DEF AbandonPoll
    <2>19. CASE DropCheck(h)
      <3>1. PlaceType'
        BY <2>19, Moved DEF DropCheck, PlaceType, life, At, Goto, Pollable, Places,
             Direct, Polls
      <3> QED BY <2>19, <3>1, GroupsKept DEF DropCheck
    <2>20. CASE DropRest(h)
      <3>1. PlaceType'
        BY <2>20, Moved DEF DropRest, PlaceType, life, At, Goto, Pollable, Places, Direct,
             Polls
      <3>2. SlotType'
        BY <2>20 DEF DropRest, SlotType, PlaceType, slots, TakeSlot, AskSlot, UseSlot,
             HasSlot
      <3> QED BY <2>20, <3>1, <3>2, GroupsKept DEF DropRest
    <2>21. CASE DropLast(h)
      <3>1. PlaceType'
        BY <2>21, Moved DEF DropLast, PlaceType, life, At, Goto, Pollable, Places, Direct,
             Polls
      <3>2. FlowType'
        BY <2>21 DEF DropLast, FlowType, flow, RemoveSendFlow
      <3>3. WakeType'
        BY <2>21 DEF DropLast, WakeType, PlaceType, wake, Register, Wake, RemoveSendFlow
      <3>4. QueueType'
        BY <2>21 DEF DropLast, QueueType, q, Push
      <3>5. SlotType'
        BY <2>21 DEF DropLast, SlotType, PlaceType, slots, TakeSlot, AskSlot, UseSlot,
             HasSlot
      <3>6. TaskType'
        BY <2>21 DEF DropLast, TaskType, ses
      <3> QED BY <2>21, <3>1, <3>2, <3>3, <3>4, <3>5, <3>6, GroupsKept DEF DropLast
    <2>22. CASE \E mode \in {1, 2} : Refused(h, mode)
      <3>1. CallType'
        BY <2>22 DEF Refused, CallType, Select
      <3> QED BY <2>22, <3>1, GroupsKept DEF Refused
    <2>23. CASE \E c \in Handles : CloneHandle(h, c)
      <3>1. PlaceType'
        BY <2>23 DEF CloneHandle, PlaceType
      <3> QED BY <2>23, <3>1, GroupsKept DEF CloneHandle
    <2> QED BY <1>1, <2>1, <2>2, <2>3, <2>4, <2>5, <2>6, <2>7, <2>8, <2>9, <2>10, <2>11,
         <2>12, <2>13, <2>14, <2>15, <2>16, <2>17, <2>18, <2>19, <2>20, <2>21, <2>22,
         <2>23 DEF Call, Step, First, Leave
  <1>2. CASE HandleMaxStreamData
    <2>1. FlowType'
      BY <1>2 DEF HandleMaxStreamData, FlowType, flow, RemoveSendFlow
    <2>2. WakeType'
      BY <1>2 DEF HandleMaxStreamData, WakeType, PlaceType, wake, Register, Wake,
           RemoveSendFlow
    <2> QED BY <1>2, <2>1, <2>2, GroupsKept DEF HandleMaxStreamData
  <1>3. CASE HandleStopSending
    <2>1. FlowType'
      BY <1>3 DEF HandleStopSending, FlowType, flow, RemoveSendFlow
    <2>2. WakeType'
      BY <1>3 DEF HandleStopSending, WakeType, PlaceType, wake, Register, Wake,
           RemoveSendFlow
    <2>3. TaskType'
      BY <1>3 DEF HandleStopSending, TaskType, ses
    <2> QED BY <1>3, <2>1, <2>2, <2>3, GroupsKept DEF HandleStopSending
  <1>4. CASE AckStop
    <2>1. QueueType'
      BY <1>4 DEF AckStop, QueueType, q, Push
    <2>2. TaskType'
      BY <1>4 DEF AckStop, TaskType, ses
    <2> QED BY <1>4, <2>1, <2>2, GroupsKept DEF AckStop
  <1>5. CASE Drain
    <2>1. QueueType'
      BY <1>5 DEF Drain, QueueType, q, Push
    <2> QED BY <1>5, <2>1, GroupsKept DEF Drain
  <1>6. CASE RequestShutdown
    <2>1. TaskType'
      BY <1>6 DEF RequestShutdown, TaskType, ses
    <2> QED BY <1>6, <2>1, GroupsKept DEF RequestShutdown
  <1>7. CASE CloseAll
    <2>1. FlowType'
      BY <1>7 DEF CloseAll, FlowType, flow, RemoveSendFlow
    <2>2. WakeType'
      BY <1>7 DEF CloseAll, WakeType, PlaceType, wake, Register, Wake, RemoveSendFlow
    <2>3. TaskType'
      BY <1>7 DEF CloseAll, TaskType, ses
    <2> QED BY <1>7, <2>1, <2>2, <2>3, GroupsKept DEF CloseAll
  <1>8. CASE OutboundEnds
    <2>1. WakeType'
      BY <1>8 DEF OutboundEnds, WakeType, PlaceType, SlotType, wake, Register, Wake,
           RemoveSendFlow
    <2>2. SlotType'
      BY <1>8 DEF OutboundEnds, SlotType, PlaceType, slots, TakeSlot, AskSlot, UseSlot,
           HasSlot
    <2>3. TaskType'
      BY <1>8 DEF OutboundEnds, TaskType, ses
    <2> QED BY <1>8, <2>1, <2>2, <2>3, GroupsKept DEF OutboundEnds
  <1>9. CASE UNCHANGED vars
    BY <1>9, GroupsKept DEF vars
  <1> QED BY <1>1, <1>2, <1>3, <1>4, <1>5, <1>6, <1>7, <1>8, <1>9 DEF Next

-----------------------------------------------------------------------------
(* The parts of the invariant that a step can touch: where the handles are, *)
(* and what is in the queue.                                                *)
PlaceInv == LifeInv /\ GuardInv /\ ApiInv
OutInv   == EndInv /\ DirectCallsSerialized

Holders   == {h \in alive : pc[h] \in {"send", "wPub"}}
Published == {i \in 1..Len(out) : out[i] = "data"}

(* A handle moves inside the guard, out of it, or into it when it is free.  *)
LEMMA PlaceMove ==
    ASSUME TypeOK, PlaceInv, NEW h \in alive, NEW m \in Places, Goto(h, m),
           UNCHANGED <<made, alive>>,
           \/ (operation' <=> operation) /\ (m \in Guarded => pc[h] \in Guarded)
           \/ pc[h] \in Guarded /\ m \notin Guarded
           \/ ~operation /\ (m \in Guarded => operation'),
           m \in Polls => apiMode' = 2, apiMode = 2 => apiMode' = 2
    PROVE  PlaceInv'
  <1>1. h \in Handles /\ alive \subseteq Handles
    BY DEF TypeOK, PlaceType
  <1>2. pc'[h] = m /\ \A g \in Handles \ {h} : pc'[g] = pc[g]
    BY <1>1, Moved DEF TypeOK
  <1>3. LifeInv'
    BY <1>1, <1>2 DEF PlaceInv, LifeInv
  <1>4. GuardInv'
    BY <1>1, <1>2 DEF PlaceInv, GuardInv
  <1>5. ApiInv'
    BY <1>1, <1>2 DEF PlaceInv, ApiInv
  <1> QED BY <1>3, <1>4, <1>5 DEF PlaceInv

(* Handles come idle and leave from their Drop; nobody else moves.          *)
LEMMA PlaceStill ==
    ASSUME TypeOK, PlaceInv, UNCHANGED <<pc, operation>>, made \subseteq made',
           alive' \subseteq made', \A g \in alive' : g \in alive \/ pc[g] = "idle",
           apiMode = 2 => apiMode' = 2
    PROVE  PlaceInv'
  <1>1. "idle" \notin Guarded /\ "idle" \notin Polls
    BY DEF Guarded, Direct, Polls
  <1>2. LifeInv'
    BY DEF PlaceInv, LifeInv
  <1>3. GuardInv'
    BY <1>1 DEF PlaceInv, GuardInv
  <1>4. ApiInv'
    BY <1>1 DEF PlaceInv, ApiInv
  <1> QED BY <1>2, <1>3, <1>4 DEF PlaceInv

(* A step that admits no frame.                                             *)
LEMMA OutStill ==
    ASSUME TypeOK, OutInv, UNCHANGED out, flowLive' => flowLive, acking' => acking \/ ~flowLive',
           \A h \in alive' : pc'[h] = "rstSend" =>
                                ~flowLive' \/ (h \in alive /\ pc[h] = "rstSend"),
           \A h \in alive : pc[h] = "finRemove" => ~flowLive' \/ (h \in alive' /\ pc'[h] = "finRemove"),
           apiMode = 2 => apiMode' = 2
    PROVE  OutInv'
  <1>1. ~flowLive => ~flowLive'
    OBVIOUS
  <1>2. flowLive' /\ Over => Over'
    BY DEF Over
  <1>3. EndInv'
    BY <1>1, <1>2 DEF OutInv, EndInv
  <1>4. DirectCallsSerialized'
    BY DEF OutInv, DirectCallsSerialized, NothingAfterTerminal
  <1> QED BY <1>3, <1>4 DEF OutInv

(* A RESET is admitted: the flow has been retired.                          *)
LEMMA OutReset ==
    ASSUME TypeOK, OutInv, Push("reset"), ~flowLive', apiMode = 2 => apiMode' = 2
    PROVE  OutInv'
  <1>1. /\ Len(out) \in Nat /\ Len(out') = Len(out) + 1
        /\ out'[Len(out) + 1] = "reset" /\ \A i \in 1..Len(out) : out'[i] = out[i]
    BY Pushed DEF TypeOK
  <1>2. EndInv'
    BY DEF EndInv
  <1>3. NothingAfterTerminal => NothingAfterTerminal'
    BY <1>1 DEF NothingAfterTerminal
  <1>4. DirectCallsSerialized'
    BY <1>3 DEF OutInv, DirectCallsSerialized
  <1> QED BY <1>2, <1>4 DEF OutInv

(* A Stream frame is admitted, with or without FIN, by a stream that is     *)
(* used through AsyncWrite or whose direction nobody has ended.             *)
LEMMA OutData ==
    ASSUME TypeOK, OutInv, NEW f \in {"data", "fin"}, Push(f), UNCHANGED <<flowLive, acking>>,
           apiMode' # 2 => apiMode # 2 /\ flowLive /\ ~Over,
           \A h \in alive' : pc'[h] = "rstSend" => h \in alive /\ pc[h] = "rstSend",
           apiMode' # 2 /\ f = "fin" => Over'
    PROVE  OutInv'
  <1>1. /\ Len(out) \in Nat /\ Len(out') = Len(out) + 1
        /\ out'[Len(out) + 1] = f /\ \A i \in 1..Len(out) : out'[i] = out[i]
    BY Pushed DEF TypeOK
  <1>2. apiMode' # 2 => \A i \in 1..Len(out) : out[i] \notin {"fin", "reset"}
    BY DEF OutInv, EndInv
  <1>3. apiMode' # 2 =>
          \A i \in 1..Len(out') : out'[i] \in {"fin", "reset"} => i = Len(out') /\ f = "fin"
    BY <1>1, <1>2
  <1>4. EndInv'
    BY <1>3 DEF OutInv, EndInv
  <1>5. DirectCallsSerialized'
    BY <1>1, <1>3 DEF DirectCallsSerialized, NothingAfterTerminal
  <1> QED BY <1>4, <1>5 DEF OutInv

-----------------------------------------------------------------------------
(* Counting what was reserved and what was published.                       *)
LEMMA Counts ==
    ASSUME TypeOK
    PROVE  /\ IsFiniteSet(Holders) /\ Cardinality(Holders) \in Nat
           /\ IsFiniteSet(Published) /\ Cardinality(Published) \in Nat
  <1>1. Holders \in SUBSET Handles
    BY DEF Holders, TypeOK, PlaceType
  <1>2. Published \in SUBSET (1..Len(out)) /\ Len(out) \in Int
    BY DEF Published, TypeOK, QueueType
  <1>3. IsFiniteSet(Holders)
    BY <1>1, HandlesAssumption, FS_Subset
  <1>4. IsFiniteSet(Published)
    <2>1. IsFiniteSet(1..Len(out))
      BY <1>2, FS_Interval
    <2> QED BY <1>2, <2>1, FS_Subset
  <1> QED BY <1>3, <1>4, FS_CardinalityType

(* The property in these terms.                                             *)
LEMMA CreditCount ==
    CreditConserved <=> (~down => sentData = Cardinality(Published) + Cardinality(Holders))
  BY DEF CreditConserved, Published, Holders

(* What a move does to the handles that hold a reservation.                 *)
LEMMA HoldersMove ==
    ASSUME TypeOK, NEW h \in alive, NEW m \in Places, Goto(h, m), UNCHANGED alive
    PROVE  Holders' = IF m \in {"send", "wPub"} THEN Holders \cup {h} ELSE Holders \ {h}
  <1>1. h \in Handles /\ alive \subseteq Handles
    BY DEF TypeOK, PlaceType
  <1>2. pc'[h] = m /\ \A g \in Handles \ {h} : pc'[g] = pc[g]
    BY <1>1, Moved DEF TypeOK
  <1> QED BY <1>1, <1>2 DEF Holders

(* A data frame adds one to what is published, the others nothing.          *)
LEMMA PublishedPush ==
    ASSUME TypeOK, NEW f \in {"data", "fin", "reset"}, Push(f)
    PROVE  /\ f = "data" => Cardinality(Published') = Cardinality(Published) + 1
           /\ f # "data" => Published' = Published
  <1>1. /\ Len(out) \in Nat /\ Len(out') = Len(out) + 1
        /\ out'[Len(out) + 1] = f /\ \A i \in 1..Len(out) : out'[i] = out[i]
    BY Pushed DEF TypeOK
  <1>2. f # "data" => Published' = Published
    BY <1>1 DEF Published
  <1>3. f = "data" => Published' = Published \cup {Len(out) + 1}
    BY <1>1 DEF Published
  <1>4. Len(out) + 1 \notin Published
    BY <1>1 DEF Published
  <1> QED BY <1>2, <1>3, <1>4, Counts, FS_AddElement

(* A step that neither reserves nor publishes.                              *)
LEMMA CreditStill ==
    ASSUME TypeOK, CreditConserved, Holders' = Holders, Published' = Published, UNCHANGED sentData,
           down => down'
    PROVE  CreditConserved'
  <1>1. CreditConserved' <=>
           (~down' => sentData' = Cardinality(Published') + Cardinality(Holders'))
    BY DEF CreditConserved, Published, Holders
  <1> QED BY <1>1, CreditCount

(* A reservation, and its end by publication or by giving it back.          *)
LEMMA CreditMove ==
    ASSUME TypeOK, CreditConserved, UNCHANGED <<alive, down>>,
           NEW h \in alive, NEW m \in Places, Goto(h, m),
           \/ /\ pc[h] \notin {"send", "wPub"} /\ m \in {"send", "wPub"}
              /\ sentData' = sentData + 1 /\ UNCHANGED out
           \/ /\ pc[h] \in {"send", "wPub"} /\ m \notin {"send", "wPub"}
              /\ \/ Push("data") /\ UNCHANGED sentData
                 \/ UNCHANGED out /\ sentData' = sentData - 1
    PROVE  CreditConserved'
  <1>1. CreditConserved' <=>
           (~down' => sentData' = Cardinality(Published') + Cardinality(Holders'))
    BY DEF CreditConserved, Published, Holders
  <1>2. h \in Holders <=> pc[h] \in {"send", "wPub"}
    BY DEF Holders
  <1>3. sentData \in Int
    BY DEF TypeOK, FlowType
  <1>4. CASE /\ pc[h] \notin {"send", "wPub"} /\ m \in {"send", "wPub"}
             /\ sentData' = sentData + 1 /\ UNCHANGED out
    <2>1. Cardinality(Holders') = Cardinality(Holders) + 1
      BY <1>2, <1>4, HoldersMove, Counts, FS_AddElement
    <2>2. Published' = Published
      BY <1>4 DEF Published
    <2> QED BY <1>1, <1>3, <1>4, <2>1, <2>2, Counts, CreditCount
  <1>5. CASE pc[h] \in {"send", "wPub"} /\ m \notin {"send", "wPub"}
    <2>1. Cardinality(Holders') = Cardinality(Holders) - 1
      BY <1>2, <1>5, HoldersMove, Counts, FS_RemoveElement
    <2>2. CASE Push("data") /\ UNCHANGED sentData
      BY <1>1, <1>3, <2>1, <2>2, Counts, CreditCount, PublishedPush
    <2>3. CASE UNCHANGED out /\ sentData' = sentData - 1
      <3>1. Published' = Published
        BY <2>3 DEF Published
      <3> QED BY <1>1, <1>3, <2>1, <2>3, <3>1, Counts, CreditCount
    <2> QED BY <1>5, <2>2, <2>3
  <1> QED BY <1>4, <1>5

-----------------------------------------------------------------------------
(* A handle moves and neither credit nor the queue is concerned.            *)
LEMMA QuietMove ==
    ASSUME IInv, NEW h \in alive, NEW m \in Places, Goto(h, m),
           UNCHANGED <<made, alive, out, sentData>>,
           down => down', flowLive' => flowLive, acking' => acking,
           \/ (operation' <=> operation) /\ (m \in Guarded => pc[h] \in Guarded)
           \/ pc[h] \in Guarded /\ m \notin Guarded
           \/ ~operation /\ (m \in Guarded => operation'),
           m \in Polls => apiMode' = 2, apiMode = 2 => apiMode' = 2,
           m = "rstSend" => ~flowLive', pc[h] = "finRemove" => ~flowLive',
           m \notin {"send", "wPub"}, pc[h] \in {"send", "wPub"} => down'
    PROVE  PlaceInv' /\ OutInv' /\ CreditConserved'
  <1>0. TypeOK /\ PlaceInv /\ OutInv /\ CreditConserved
    BY DEF IInv, PlaceInv, OutInv
  <1>1. PlaceInv'
    BY <1>0, PlaceMove
  <1>2. h \in Handles /\ alive \subseteq Handles
    BY <1>0 DEF TypeOK, PlaceType
  <1>3. pc'[h] = m /\ \A g \in Handles \ {h} : pc'[g] = pc[g]
    BY <1>0, <1>2, Moved DEF TypeOK
  <1>4. OutInv'
    BY <1>0, <1>2, <1>3, OutStill
  <1>5. CASE down'
    BY <1>1, <1>4, <1>5 DEF CreditConserved
  <1>6. CASE ~down'
    <2>1. h \notin Holders
      BY <1>6 DEF Holders
    <2>2. Holders' = Holders /\ Published' = Published
      BY <1>0, <2>1, HoldersMove DEF Published
    <2> QED BY <1>0, <1>1, <1>4, <2>2, CreditStill
  <1> QED BY <1>5, <1>6

(* A step of the session, or a handle that comes or goes.                   *)
LEMMA QuietStill ==
    ASSUME IInv, UNCHANGED <<pc, operation, out, sentData>>, made \subseteq made', alive' \subseteq made',
           \A g \in alive' : g \in alive \/ pc[g] = "idle",
           \A g \in alive : g \in alive' \/ pc[g] \in {"dropRest", "dropLast"},
           apiMode = 2 => apiMode' = 2, down => down', flowLive' => flowLive,
           acking' => acking \/ ~flowLive'
    PROVE  PlaceInv' /\ OutInv' /\ CreditConserved'
  <1>0. TypeOK /\ PlaceInv /\ OutInv /\ CreditConserved
    BY DEF IInv, PlaceInv, OutInv
  <1>1. PlaceInv'
    BY <1>0, PlaceStill
  <1>2. OutInv'
    BY <1>0, OutStill
  <1>3. Holders' = Holders /\ Published' = Published
    BY DEF Holders, Published
  <1> QED BY <1>0, <1>1, <1>2, <1>3, CreditStill

(* The calls and polls of a handle.                                         *)
LEMMA HandleStep ==
    ASSUME IInv, NEW h \in Handles, Call(h) \/ Step(h) \/ First(h) \/ Leave(h) \/ GiveSlot(h)
    PROVE  PlaceInv' /\ OutInv' /\ CreditConserved'
  <1>0. TypeOK /\ PlaceInv /\ OutInv /\ CreditConserved
    BY DEF IInv, PlaceInv, OutInv
  <1> USE DEF At, life, shared, flow, ses, q, slots, wake
  <1>p. /\ {"idle", "reserve", "tryReserve", "send", "finSend", "finRemove", "rstSend", "dropRest",
            "dropLast", "wTry", "wPub", "wRoom", "wCredit", "sRoom", "sPub", "sFin"} \subseteq Places
        /\ {"reserve", "tryReserve", "send", "finSend", "finRemove", "rstSend", "wTry", "wPub"}
             \subseteq Guarded
        /\ \A l \in {"idle", "dropRest", "dropLast", "wRoom", "wCredit", "sRoom", "sPub", "sFin"} :
              l \notin Guarded
        /\ \A l \in {"idle", "reserve", "tryReserve", "send", "finSend", "finRemove", "rstSend",
                     "dropRest", "dropLast"} : l \notin Polls
        /\ {"wTry", "wPub", "wRoom", "wCredit", "sRoom", "sPub", "sFin"} \subseteq Polls
    BY DEF Places, Guarded, Direct, Polls
  <1>a. ASSUME h \in alive, pc[h] \in Guarded, apiMode # 2
        PROVE  Over => pc[h] = "finRemove"
    BY <1>0, <1>p, <1>a DEF Over, PlaceInv, GuardInv
  <1>1. CASE WriteBuf(h)
    BY <1>1, <1>p, QuietMove DEF WriteBuf, BeginOperation, ApiOk, Select
  <1>2. CASE Reserve(h)
    BY <1>2, <1>p, QuietMove DEF Reserve
  <1>3. CASE TryReserve(h)
    <2>1. /\ h \in alive /\ pc[h] = "tryReserve" /\ UNCHANGED <<made, alive, out, down, acking>>
          /\ UNCHANGED <<flowLive, apiMode>>
      BY <1>3 DEF TryReserve
    <2>2. CASE Goto(h, "send") /\ sentData' = sentData + 1 /\ UNCHANGED operation
      <3>1. PlaceInv'
        BY <1>0, <1>p, <2>1, <2>2, PlaceMove
      <3>2. OutInv'
        <4>1. pc'[h] = "send" /\ \A g \in Handles \ {h} : pc'[g] = pc[g]
          BY <1>0, <1>p, <2>2, Moved DEF TypeOK
        <4>2. alive \subseteq Handles
          BY <1>0 DEF TypeOK, PlaceType
        <4> QED BY <1>0, <2>1, <4>1, <4>2, OutStill
      <3>3. CreditConserved'
        BY <1>0, <1>p, <2>1, <2>2, CreditMove
      <3> QED BY <3>1, <3>2, <3>3
    <2>3. CASE Goto(h, "reserve") /\ UNCHANGED <<sentData, operation>>
      BY <1>p, <2>1, <2>3, QuietMove
    <2>4. CASE Goto(h, "idle") /\ UNCHANGED sentData
      BY <1>p, <2>1, <2>4, QuietMove
    <2> QED BY <1>3, <2>2, <2>3, <2>4 DEF TryReserve
  <1>4. CASE Send(h)
    <2>1. /\ h \in alive /\ pc[h] = "send" /\ UNCHANGED <<made, alive, down, acking>>
          /\ UNCHANGED <<flowLive, apiMode>> /\ Goto(h, "idle")
          /\ \/ flowLive /\ Push("data") /\ UNCHANGED sentData
             \/ sentData' = sentData - 1 /\ UNCHANGED out
      BY <1>4 DEF Send
    <2>2. PlaceInv'
      BY <1>0, <1>p, <2>1, PlaceMove
    <2>3. CreditConserved'
      BY <1>0, <1>p, <2>1, CreditMove
    <2>4. pc'[h] = "idle" /\ (\A g \in Handles \ {h} : pc'[g] = pc[g]) /\ alive \subseteq Handles
      BY <1>0, <1>p, <2>1, Moved DEF TypeOK, PlaceType
    <2>5. CASE flowLive /\ Push("data")
      BY <1>0, <1>a, <1>p, <2>1, <2>2, <2>3, <2>4, <2>5, OutData
    <2>6. CASE UNCHANGED out
      BY <1>0, <2>1, <2>2, <2>3, <2>4, <2>6, OutStill
    <2> QED BY <2>1, <2>5, <2>6
  <1>5. CASE Finish(h)
    BY <1>5, <1>p, QuietMove DEF Finish, BeginOperation, ApiOk, Select
  <1>6. CASE FinSend(h)
    <2>1. /\ h \in alive /\ pc[h] = "finSend" /\ UNCHANGED <<made, alive, down, acking, sentData>>
          /\ UNCHANGED <<flowLive, apiMode>>
      BY <1>6 DEF FinSend
    <2>2. CASE flowLive /\ Push("fin") /\ Goto(h, "finRemove") /\ UNCHANGED operation
      <3>1. PlaceInv'
        BY <1>0, <1>p, <2>1, <2>2, PlaceMove
      <3>2. /\ pc'[h] = "finRemove" /\ (\A g \in Handles \ {h} : pc'[g] = pc[g])
            /\ alive \subseteq Handles
        BY <1>0, <1>p, <2>2, Moved DEF TypeOK, PlaceType
      <3>3. Over'
        BY <2>1, <3>2 DEF Over
      <3>4. OutInv'
        BY <1>0, <1>a, <1>p, <2>1, <2>2, <3>2, <3>3, OutData
      <3>5. Holders' = Holders /\ Published' = Published
        <4>1. h \notin Holders
          BY <2>1 DEF Holders
        <4> QED BY <1>0, <1>p, <2>1, <2>2, <4>1, HoldersMove, PublishedPush
      <3> QED BY <1>0, <2>1, <3>1, <3>4, <3>5, CreditStill
    <2>3. CASE Goto(h, "idle") /\ UNCHANGED q
      BY <1>p, <2>1, <2>3, QuietMove
    <2> QED BY <1>6, <2>2, <2>3 DEF FinSend
  <1>7. CASE FinRemove(h)
    BY <1>7, <1>p, QuietMove DEF FinRemove, RemoveSendFlow
  <1>8. CASE Reset(h)
    <2>1. PICK m \in {"idle", "rstSend"} : Goto(h, m) /\ (m = "rstSend" => operation')
      BY <1>8 DEF Reset
    <2>2. /\ h \in alive /\ pc[h] = "idle" /\ ~operation /\ ~flowLive'
          /\ UNCHANGED <<made, alive, out, sentData, down, acking, apiMode>>
      BY <1>8 DEF Reset, RemoveSendFlow
    <2> QED BY <1>p, <2>1, <2>2, QuietMove
  <1>9. CASE RstSend(h)
    <2>1. /\ h \in alive /\ pc[h] = "rstSend" /\ UNCHANGED <<made, alive, down, acking, sentData>>
          /\ UNCHANGED <<flowLive, apiMode>> /\ Goto(h, "idle")
          /\ (Push("reset") \/ UNCHANGED out)
      BY <1>9 DEF RstSend
    <2>2. CASE Push("reset")
      <3>1. PlaceInv'
        BY <1>0, <1>p, <2>1, PlaceMove
      <3>2. OutInv'
        BY <1>0, <2>1, <2>2, OutReset DEF OutInv, EndInv
      <3>3. Holders' = Holders /\ Published' = Published
        <4>1. h \notin Holders
          BY <2>1 DEF Holders
        <4> QED BY <1>0, <1>p, <2>1, <2>2, <4>1, HoldersMove, PublishedPush
      <3> QED BY <1>0, <2>1, <3>1, <3>2, <3>3, CreditStill
    <2>3. CASE UNCHANGED out
      BY <1>p, <2>1, <2>3, QuietMove
    <2> QED BY <2>1, <2>2, <2>3
  <1>10. CASE Cancel(h)
    BY <1>10, <1>p, QuietMove DEF Cancel
  <1>11. CASE \E mode \in {1, 2} : Refused(h, mode)
    <2>1. /\ UNCHANGED <<made, alive, pc, operation, out, sentData, down, acking, flowLive>>
          /\ apiMode = 0
      BY <1>11 DEF Refused
    <2> QED BY <1>0, <2>1, QuietStill DEF PlaceInv, LifeInv
  <1>12. CASE GiveSlot(h)
    <2>1. UNCHANGED <<made, alive, pc, operation, out, sentData, down, acking, flowLive, apiMode>>
      BY <1>12 DEF GiveSlot
    <2> QED BY <1>0, <2>1, QuietStill DEF PlaceInv, LifeInv
  <1>13. CASE \E c \in Handles : CloneHandle(h, c)
    <2>1. PICK c \in Handles \ made : made' = made \cup {c} /\ alive' = alive \cup {c}
      BY <1>13 DEF CloneHandle
    <2>2. UNCHANGED <<pc, operation, out, sentData, down, acking, flowLive, apiMode>>
      BY <1>13 DEF CloneHandle
    <2>3. pc[c] = "idle" /\ alive \subseteq made
      BY <1>0, <2>1 DEF PlaceInv, LifeInv
    <2> QED BY <2>1, <2>2, <2>3, QuietStill
  <1>14. CASE PollWrite(h)
    <2>1. /\ h \in alive /\ pc[h] \in {"idle", "wRoom", "wCredit"} /\ apiMode' = 2
          /\ UNCHANGED <<made, alive, out, sentData, down, acking, flowLive>>
      BY <1>14 DEF PollWrite, Pollable, ApiOk, Select
    <2>2. CASE Goto(h, "idle") /\ UNCHANGED operation
      BY <1>p, <2>1, <2>2, QuietMove
    <2>3. CASE Goto(h, "wTry") /\ ~operation /\ operation'
      BY <1>p, <2>1, <2>3, QuietMove
    <2> QED BY <1>14, <2>2, <2>3 DEF PollWrite
  <1>15. CASE PollWriteTry(h)
    <2>1. /\ h \in alive /\ pc[h] = "wTry" /\ UNCHANGED <<made, alive, out, down, acking>>
          /\ UNCHANGED <<flowLive, apiMode>> /\ apiMode = 2
      BY <1>0, <1>p, <1>15 DEF PollWriteTry, PlaceInv, ApiInv
    <2>2. CASE Goto(h, "wPub") /\ sentData' = sentData + 1 /\ UNCHANGED operation
      <3>1. PlaceInv'
        BY <1>0, <1>p, <2>1, <2>2, PlaceMove
      <3>2. OutInv'
        <4>1. pc'[h] = "wPub" /\ \A g \in Handles \ {h} : pc'[g] = pc[g]
          BY <1>0, <1>p, <2>2, Moved DEF TypeOK
        <4>2. alive \subseteq Handles
          BY <1>0 DEF TypeOK, PlaceType
        <4> QED BY <1>0, <2>1, <4>1, <4>2, OutStill
      <3>3. CreditConserved'
        BY <1>0, <1>p, <2>1, <2>2, CreditMove
      <3> QED BY <3>1, <3>2, <3>3
    <2>3. CASE \E m \in {"idle", "wRoom", "wCredit"} : Goto(h, m) /\ UNCHANGED sentData
      BY <1>p, <2>1, <2>3, QuietMove
    <2>4. \/ Goto(h, "wPub") /\ sentData' = sentData + 1 /\ UNCHANGED operation
          \/ \E m \in {"idle", "wRoom", "wCredit"} : Goto(h, m) /\ UNCHANGED sentData
      BY <1>15 DEF PollWriteTry
    <2> QED BY <2>2, <2>3, <2>4
  <1>16. CASE PollWritePublish(h)
    <2>1. /\ h \in alive /\ pc[h] = "wPub" /\ UNCHANGED <<made, alive, down, acking>>
          /\ UNCHANGED <<flowLive, apiMode>> /\ Goto(h, "idle") /\ apiMode = 2
          /\ \/ flowLive /\ Push("data") /\ UNCHANGED sentData
             \/ sentData' = sentData - 1 /\ UNCHANGED out
      BY <1>0, <1>p, <1>16 DEF PollWritePublish, PlaceInv, ApiInv
    <2>2. PlaceInv'
      BY <1>0, <1>p, <2>1, PlaceMove
    <2>3. CreditConserved'
      BY <1>0, <1>p, <2>1, CreditMove
    <2>4. pc'[h] = "idle" /\ (\A g \in Handles \ {h} : pc'[g] = pc[g]) /\ alive \subseteq Handles
      BY <1>0, <1>p, <2>1, Moved DEF TypeOK, PlaceType
    <2>5. CASE flowLive /\ Push("data")
      BY <1>0, <2>1, <2>2, <2>3, <2>4, <2>5, OutData
    <2>6. CASE UNCHANGED out
      BY <1>0, <2>1, <2>2, <2>3, <2>4, <2>6, OutStill
    <2> QED BY <2>1, <2>5, <2>6
  <1>17. CASE PollShutdown(h)
    <2>1. /\ h \in alive /\ pc[h] \in {"idle", "sRoom"} /\ apiMode' = 2
          /\ UNCHANGED <<made, alive, out, sentData, down, acking, flowLive, operation>>
      BY <1>17 DEF PollShutdown, Pollable, ApiOk, Select
    <2>2. PICK m \in {"idle", "sPub", "sRoom"} : Goto(h, m)
      BY <1>17 DEF PollShutdown
    <2> QED BY <1>p, <2>1, <2>2, QuietMove
  <1>18. CASE PollShutdownPublish(h)
    <2>1. /\ h \in alive /\ pc[h] = "sPub" /\ UNCHANGED <<made, alive, down, acking, sentData>>
          /\ UNCHANGED <<flowLive, apiMode, operation>> /\ apiMode = 2
      BY <1>0, <1>p, <1>18 DEF PollShutdownPublish, PlaceInv, ApiInv
    <2>2. CASE Push("fin") /\ Goto(h, "sFin")
      <3>1. PlaceInv'
        BY <1>0, <1>p, <2>1, <2>2, PlaceMove
      <3>2. /\ pc'[h] = "sFin" /\ (\A g \in Handles \ {h} : pc'[g] = pc[g])
            /\ alive \subseteq Handles
        BY <1>0, <1>p, <2>2, Moved DEF TypeOK, PlaceType
      <3>3. OutInv'
        BY <1>0, <2>1, <2>2, <3>2, OutData
      <3>4. Holders' = Holders /\ Published' = Published
        <4>1. h \notin Holders
          BY <2>1 DEF Holders
        <4> QED BY <1>0, <1>p, <2>1, <2>2, <4>1, HoldersMove, PublishedPush
      <3> QED BY <1>0, <2>1, <3>1, <3>3, <3>4, CreditStill
    <2>3. CASE Goto(h, "idle") /\ UNCHANGED q
      BY <1>p, <2>1, <2>3, QuietMove
    <2> QED BY <1>18, <2>2, <2>3 DEF PollShutdownPublish
  <1>19. CASE PollShutdownRemove(h)
    BY <1>19, <1>p, QuietMove DEF PollShutdownRemove, RemoveSendFlow
  <1>20. CASE AbandonPoll(h)
    BY <1>20, <1>p, QuietMove DEF AbandonPoll
  <1>21. CASE DropCheck(h)
    <2>1. PICK m \in {"dropLast", "dropRest"} : Goto(h, m)
      BY <1>21 DEF DropCheck
    <2> QED BY <1>21, <1>p, <2>1, QuietMove DEF DropCheck
  <1>22. CASE DropRest(h)
    <2>1. alive \subseteq made
      BY <1>0 DEF PlaceInv, LifeInv
    <2> QED BY <1>22, <2>1, QuietStill DEF DropRest
  <1>23. CASE DropLast(h)
    <2>1. /\ alive' = alive \ {h} /\ pc[h] = "dropLast" /\ ~flowLive'
          /\ UNCHANGED <<made, pc, operation, apiMode, sentData, acking>>
      BY <1>23 DEF DropLast, RemoveSendFlow
    <2>2. alive \subseteq made
      BY <1>0 DEF PlaceInv, LifeInv
    <2>3. CASE UNCHANGED out /\ (down => down')
      BY <2>1, <2>2, <2>3, QuietStill
    <2>4. CASE Push("reset") /\ UNCHANGED down
      <3>1. PlaceInv'
        BY <1>0, <2>1, <2>2, PlaceStill
      <3>2. OutInv'
        BY <1>0, <2>1, <2>4, OutReset
      <3>3. Holders' = Holders /\ Published' = Published
        BY <1>0, <2>1, <2>4, PublishedPush DEF Holders
      <3> QED BY <1>0, <2>1, <2>4, <3>1, <3>2, <3>3, CreditStill
    <2> QED BY <1>23, <2>3, <2>4 DEF DropLast
  <1> QED BY <1>1, <1>2, <1>3, <1>4, <1>5, <1>6, <1>7, <1>8, <1>9, <1>10, <1>11, <1>12, <1>13,
             <1>14, <1>15, <1>16, <1>17, <1>18, <1>19, <1>20, <1>21, <1>22, <1>23
          DEF Call, Step, First, Leave

(* What the session's tasks do to the stream.                               *)
LEMMA SessionStep ==
    ASSUME IInv, \/ HandleMaxStreamData \/ HandleStopSending \/ RequestShutdown
                 \/ AckStop \/ Drain \/ CloseAll \/ OutboundEnds \/ UNCHANGED vars
    PROVE  PlaceInv' /\ OutInv' /\ CreditConserved'
  <1>0. /\ TypeOK /\ PlaceInv /\ OutInv /\ CreditConserved
        /\ alive \subseteq made
    BY DEF IInv, PlaceInv, OutInv, LifeInv
  <1> USE DEF life, shared, flow, ses, q, slots, wake
  <1>1. CASE HandleMaxStreamData \/ RequestShutdown \/ Drain \/ OutboundEnds \/ UNCHANGED vars
    BY <1>0, <1>1, QuietStill DEF HandleMaxStreamData, RequestShutdown, Drain, OutboundEnds, vars
  <1>2. CASE HandleStopSending \/ CloseAll
    BY <1>0, <1>2, QuietStill DEF HandleStopSending, CloseAll, RemoveSendFlow
  <1>3. CASE AckStop
    <2>1. /\ acking /\ Push("reset") /\ UNCHANGED <<made, alive, pc, operation, apiMode>>
          /\ UNCHANGED <<sentData, flowLive, down>>
      BY <1>3 DEF AckStop
    <2>2. PlaceInv'
      BY <1>0, <2>1, PlaceStill
    <2>3. OutInv'
      BY <1>0, <2>1, OutReset DEF OutInv, EndInv
    <2>4. Holders' = Holders /\ Published' = Published
      BY <1>0, <2>1, PublishedPush DEF Holders
    <2> QED BY <1>0, <2>1, <2>2, <2>3, <2>4, CreditStill
  <1> QED BY <1>1, <1>2, <1>3

(* A stream that was just opened, with its first handle.                    *)
LEMMA InitIInv == Init => IInv
  <1> SUFFICES ASSUME Init PROVE IInv
    OBVIOUS
  <1>1. PICK h \in Handles : made = {h} /\ alive = {h}
    BY DEF Init
  <1>2. pc = [g \in Handles |-> "idle"] /\ "idle" \in Places /\ "idle" \notin Guarded
        /\ "idle" \notin Polls
    BY DEF Init, Places, Guarded, Direct, Polls
  <1>3. out = <<>> /\ out \in Seq({"data", "fin", "reset"}) /\ Len(out) = 0
    BY DEF Init
  <1>4. /\ ~finished /\ ~operation /\ ~acking /\ ~down /\ ~closed /\ ~gone /\ flowLive
        /\ finished \in BOOLEAN /\ operation \in BOOLEAN /\ flowLive \in BOOLEAN
        /\ acking \in BOOLEAN /\ down \in BOOLEAN /\ closed \in BOOLEAN /\ gone \in BOOLEAN
    BY DEF Init
  <1>5. TypeOK
    <2>1. PlaceType
      BY <1>1, <1>2 DEF PlaceType
    <2>2. CallType /\ TaskType
      BY <1>4 DEF CallType, TaskType, Init
    <2>3. FlowType /\ WakeType /\ SlotType
      BY <1>4 DEF FlowType, WakeType, SlotType, Init
    <2>4. QueueType
      BY <1>3 DEF QueueType, Init
    <2> QED BY <2>1, <2>2, <2>3, <2>4 DEF TypeOK
  <1>6. LifeInv /\ GuardInv /\ ApiInv
    BY <1>1, <1>2 DEF LifeInv, GuardInv, ApiInv
  <1>7. EndInv /\ DirectCallsSerialized
    BY <1>1, <1>2, <1>3, <1>4 DEF EndInv, DirectCallsSerialized, NothingAfterTerminal
  <1>8. CreditConserved
    <2>1. Holders = {} /\ Published = {} /\ sentData = 0
      BY <1>1, <1>2, <1>3 DEF Holders, Published, Init
    <2> QED BY <2>1, CreditCount, FS_EmptySet
  <1> QED BY <1>5, <1>6, <1>7, <1>8 DEF IInv

(* The inductive invariant of the handles of a stream.                      *)
THEOREM HandlesInvariant == Spec => []IInv
  <1>1. IInv /\ [Next]_vars => IInv'
    <2> SUFFICES ASSUME IInv, [Next]_vars PROVE IInv'
      OBVIOUS
    <2>1. TypeOK'
      BY TypeStep DEF IInv
    <2>2. PlaceInv' /\ OutInv' /\ CreditConserved'
      BY HandleStep, SessionStep DEF Next
    <2> QED BY <2>1, <2>2 DEF IInv, PlaceInv, OutInv
  <1> QED BY InitIInv, <1>1, PTL DEF Spec

(* However many clones write, finish and reset a stream through the direct  *)
(* calls, and whatever the session does meanwhile, no Stream frame is       *)
(* admitted behind the FIN or RESET that ended the direction.               *)
THEOREM ClonesAreSerialized == Spec => []DirectCallsSerialized
  <1>1. IInv => DirectCallsSerialized
    BY DEF IInv
  <1> QED BY HandlesInvariant, <1>1, PTL

(* Until the session goes down every unit counted in sent_data was          *)
(* published or is held by a call that is about to publish it, for any      *)
(* number of clones and both APIs.                                          *)
THEOREM CreditIsConserved == Spec => []CreditConserved
  <1>1. IInv => CreditConserved
    BY DEF IInv
  <1> QED BY HandlesInvariant, <1>1, PTL

=============================================================================
