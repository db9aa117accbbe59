------------------------------ MODULE MuxCodec ------------------------------
(***************************************************************************)
(* The wire format of websock-mux-proto (varint.rs, stream.rs) and the loop*)
(* of the inbound tasks that decodes the frames of one WebSocket message.  *)
(*                                                                         *)
(* A u64 is the tuple of its eight bytes, most significant first, so that  *)
(* every size class of a varint is the real one.  A frame is its tag, its  *)
(* integer fields in wire order and its trailing bytes (data or reason).   *)
(***************************************************************************)
EXTENDS Integers, Sequences, SequencesExt

CONSTANTS
    Frames,      \* frames the peer may send
    MaxFrames,   \* bound: frames in one message
    Foreign,     \* byte strings another implementation may send
    UsizeBytes   \* width of usize: 8, or 4 on wasm32

ASSUME UsizeAssumption == UsizeBytes \in {4, 8} /\ MaxFrames \in Nat

VARIABLES
    sent,    \* history: the frames encoded in the message, if they were
    cut,     \* history: how much of their encoding arrived, -1 for Foreign
    msg,     \* what is left of the message
    got,     \* the frames decoded so far
    lens,    \* history: their length fields
    status   \* reading, done, error

vars == <<sent, cut, msg, got, lens, status>>

-----------------------------------------------------------------------------
(* VarInt *)

Byte    == 0..255
VarInts == {v \in [1..8 -> Byte] : v[1] < 64}    \* below 2^62
Large   == 1073741824                            \* 2^30; lengths are below

Zeros(v, k) == \A i \in 1..k : v[i] = 0
Pad(bytes)  == [i \in 1..8 |-> IF i <= 8 - Len(bytes) THEN 0
                               ELSE bytes[i - 8 + Len(bytes)]]
Num(n)      == Pad(<<n \div 16777216, (n \div 65536) % 256, (n \div 256) % 256, n % 256>>)

(* Mutant: the boundary 2^14 itself is encoded in two bytes. *)
SizeOffByOne(v) ==
    IF Zeros(v, 7) /\ v[8] < 64 THEN 1
    ELSE IF Zeros(v, 6) /\ v[7] <= 64 THEN 2
    ELSE IF Zeros(v, 4) /\ v[5] < 64 THEN 4 ELSE 8

Size(v) ==
    IF Zeros(v, 7) /\ v[8] < 64 THEN 1
    ELSE IF Zeros(v, 6) /\ v[7] < 64 THEN 2
    ELSE IF Zeros(v, 4) /\ v[5] < 64 THEN 4 ELSE 8

LengthTag(size) == CASE size = 1 -> 0 [] size = 2 -> 64
                     [] size = 4 -> 128 [] size = 8 -> 192

EncodeVarInt(v) ==
    [SubSeq(v, 9 - Size(v), 8) EXCEPT ![1] = @ + LengthTag(Size(v))]

(* A decoder's state: the integers read and the bytes left, or failure. *)
Start(bytes) == [ok |-> TRUE, ints |-> <<>>, rest |-> bytes]
Failed       == [ok |-> FALSE, ints |-> <<>>, rest |-> <<>>]

(* Mutant: the bytes announced by the tag are not counted first. *)
DecodeVarIntShort(d) ==
    IF ~d.ok \/ d.rest = <<>> THEN Failed
    ELSE LET size == Min({2 ^ (d.rest[1] \div 64), Len(d.rest)})
             raw  == SubSeq(d.rest, 1, size)
         IN  [ok   |-> TRUE,
              ints |-> Append(d.ints, Pad([raw EXCEPT ![1] = @ % 64])),
              rest |-> SubSeq(d.rest, size + 1, Len(d.rest))]

DecodeVarInt(d) ==
    IF ~d.ok \/ d.rest = <<>> THEN Failed
    ELSE LET size == 2 ^ (d.rest[1] \div 64)
             raw  == SubSeq(d.rest, 1, size)
         IN  IF Len(d.rest) < size THEN Failed
             ELSE [ok   |-> TRUE,
                   ints |-> Append(d.ints, Pad([raw EXCEPT ![1] = @ % 64])),
                   rest |-> SubSeq(d.rest, size + 1, Len(d.rest))]

-----------------------------------------------------------------------------
(* Frame *)

(* Integer fields after the tag: 0 OpenUni, 1 OpenBi, 2 Stream,             *)
(* 3 ResetStream, 4 StopSending, 5 ConnectionClose, 6 MaxStreamData.        *)
Fields(tag)  == IF tag \in {0, 1, 5} THEN 1 ELSE 2
HasData(tag) == tag \in {2, 5}

EncodedLen(f) ==
    1 + Size(f.ints[1]) + (IF Fields(f.tag) = 2 THEN Size(f.ints[2]) ELSE 0)
      + (IF HasData(f.tag) THEN Size(Num(Len(f.data))) + Len(f.data) ELSE 0)

Encode(f) ==
    EncodeVarInt(Num(f.tag)) \o EncodeVarInt(f.ints[1])
      \o (IF Fields(f.tag) = 2 THEN EncodeVarInt(f.ints[2]) ELSE <<>>)
      \o (IF HasData(f.tag) THEN EncodeVarInt(Num(Len(f.data))) \o f.data ELSE <<>>)

LowBytes(v) == v[5] * 16777216 + v[6] * 65536 + v[7] * 256 + v[8]

(* `as usize`, for comparison with a message shorter than Large: where usize *)
(* has 32 bits the high bytes are lost.                                      *)
Usize(v) ==
    IF (\A i \in (9 - UsizeBytes)..4 : v[i] = 0) /\ v[5] < 64 THEN LowBytes(v) ELSE Large

(* Bytes of a reason are UTF-8 unless they hold the byte 255. *)
Utf8(bytes) == \A i \in 1..Len(bytes) : bytes[i] # 255

(* What the fields of a Frame can hold: stream ids, codes and limits are    *)
(* below 2^62, a fin is a bool, a reason is a String.                       *)
FrameShapes ==
    {f \in [tag : 0..6, ints : Seq(VarInts), data : Seq(Byte)] :
        /\ Len(f.ints) = Fields(f.tag) /\ Len(f.data) < Large
        /\ ~HasData(f.tag) => f.data = <<>>
        /\ f.tag = 2 => f.ints[2] \in {Num(0), Num(1)}
        /\ f.tag = 5 => Utf8(f.data)}

ASSUME FramesAssumption ==
    /\ Frames \subseteq FrameShapes
    /\ Foreign \subseteq {m \in Seq(Byte) : Len(m) < Large}

(* The tag read first; 7 stands for an unknown one, or none. *)
TagOf(head) == IF head.ok /\ Zeros(head.ints[1], 7) THEN head.ints[1][8] ELSE 7

(* The integers that follow it, the length of the data the last of them. *)
DecodeFields(tag, head) ==
    LET one == DecodeVarInt(head)
        all == IF Fields(tag) = 2 THEN DecodeVarInt(one) ELSE one
    IN  IF HasData(tag) THEN DecodeVarInt(all) ELSE all

DecodeBody(tag, d) ==
    LET n    == Fields(tag)
        len  == IF HasData(tag) THEN d.ints[n + 2] ELSE Num(0)
        data == SubSeq(d.rest, 1, Usize(len))
    IN  IF \/ tag > 6 \/ ~d.ok
           \/ tag = 2 /\ d.ints[3] \notin {Num(0), Num(1)}
           \/ Usize(len) > Len(d.rest)
           \/ tag = 5 /\ ~Utf8(data)
        THEN [ok |-> FALSE]
        ELSE [ok    |-> TRUE,
              frame |-> [tag |-> tag, ints |-> SubSeq(d.ints, 2, n + 1), data |-> data],
              len   |-> len,
              rest  |-> SubSeq(d.rest, Usize(len) + 1, Len(d.rest))]

Decode(bytes) ==
    LET head == DecodeVarInt(Start(bytes))
    IN  DecodeBody(TagOf(head), DecodeFields(TagOf(head), head))

PutFrame(bytes, f) == bytes \o Encode(f)
EncodeAll(fs)      == FoldLeft(PutFrame, <<>>, fs)

-----------------------------------------------------------------------------
(* The messages: what a peer batched, possibly cut short, or anything else. *)
Init ==
    /\ got = <<>> /\ lens = <<>> /\ status = "reading"
    /\ \/ /\ sent \in SeqOf(Frames, MaxFrames)
          /\ cut \in 0..Len(EncodeAll(sent))
          /\ msg = SubSeq(EncodeAll(sent), 1, cut)
       \/ /\ sent = <<>> /\ cut = -1 /\ msg \in Foreign

(* One turn of the loop over a Binary message.  A frame that is decoded is  *)
(* handled at once, before the rest of the message is looked at.            *)
DecodeNext ==
    /\ status = "reading" /\ msg # <<>>
    /\ LET d == Decode(msg) IN
       \/ /\ d.ok /\ msg' = d.rest
          /\ got' = Append(got, d.frame) /\ lens' = Append(lens, d.len)
          /\ UNCHANGED status
       \/ ~d.ok /\ status' = "error" /\ UNCHANGED <<msg, got, lens>>
    /\ UNCHANGED <<sent, cut>>

MessageDone ==
    /\ status = "reading" /\ msg = <<>> /\ status' = "done"
    /\ UNCHANGED <<sent, cut, msg, got, lens>>

Next == DecodeNext \/ MessageDone

Spec == Init /\ [][Next]_vars

-----------------------------------------------------------------------------
(* Properties *)

(* Whatever part of a batch arrives, the frames decoded are the ones sent,  *)
(* in order: a varint at the edge of a size class, or a cut inside a field, *)
(* never shifts the fields that follow.                                     *)
DecodedAsSent == cut >= 0 => IsPrefix(got, sent)

(* Where frames end in a message, by encoded_len. *)
AddLen(n, f) == n + EncodedLen(f)
EndOf(fs)    == FoldLeft(AddLen, 0, fs)

(* The message is rejected exactly when it ends inside a frame, where the   *)
(* frames end being what encoded_len says, from which batches are sized.    *)
RejectedIffCut ==
    cut >= 0 =>
      /\ status = "done" => cut = EndOf(got)
      /\ status = "error" => /\ got # sent
                             /\ cut > EndOf(got)
                             /\ cut < EndOf(SubSeq(sent, 1, Len(got) + 1))

(* mux-protocol.md: "Length-prefixed data MUST be fully present in the      *)
(* containing WebSocket message": a frame is accepted only if the number in *)
(* its length field is the number of bytes taken as its data, whoever wrote *)
(* the message and whatever the width of usize.                             *)
LengthPresent ==
    \A i \in 1..Len(got) : lens[i] = Num(Len(got[i].data))

=============================================================================
