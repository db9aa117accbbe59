----------------------------- MODULE MCMuxCodec -----------------------------
(* Frames with integers at the edges of the varint size classes, and Stream *)
(* and ConnectionClose headers that no encoder of this repository produces. *)
EXTENDS MuxCodec

Edges == {Num(0), Num(63), Num(64), Num(16383), Num(16384),
          Pad(<<63, 255, 255, 255>>), Pad(<<64, 0, 0, 0>>),
          <<63, 255, 255, 255, 255, 255, 255, 255>>}

Bytes(n) == [i \in 1..n |-> 7]

F(t, is, d) == [tag |-> t, ints |-> is, data |-> d]

EdgeFrames ==
    {F(t, <<v>>, <<>>) : t \in {0, 1}, v \in Edges}
      \cup {F(t, <<Num(4), v>>, <<>>) : t \in {3, 4, 6}, v \in Edges}
      \cup {F(2, <<Num(16384), Num(b)>>, Bytes(n)) : b \in {0, 1}, n \in {0, 1, 64}}
      \cup {F(5, <<Num(1)>>, Bytes(n)) : n \in {0, 2}}

(* Lengths whose low 32 bits are small, fin values and reasons out of range. *)
OddLengths == Edges \cup {Num(2), <<0, 0, 0, 1, 0, 0, 0, 2>>}
ForeignMessages ==
    {<<2, 4, fin>> \o EncodeVarInt(v) \o Bytes(n) :
        fin \in {0, 1, 2}, v \in OddLengths, n \in {0, 2, 3}}
      \cup {<<5, 1>> \o EncodeVarInt(v) \o d :
              v \in OddLengths, d \in {<<>>, <<7, 7>>, <<7, 255>>}}
      \cup {<<tag, 1, 2>> : tag \in {7, 63, 64, 200}}

=============================================================================
