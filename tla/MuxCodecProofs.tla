--------------------------- MODULE MuxCodecProofs ---------------------------
(***************************************************************************)
(* Proofs about MuxCodec: what was encoded is decoded, for every frame, any *)
(* number of them in a message and any place at which the message is cut.   *)
(***************************************************************************)
EXTENDS MuxCodec, SequenceTheorems, WellFoundedInduction, TLAPS

Bytes == Seq(Byte)

-----------------------------------------------------------------------------
(* Sequences                                                               *)

LEMMA FunctionSeq ==
    ASSUME NEW S, NEW n \in Nat, NEW s \in [1..n -> S]
    PROVE  s \in Seq(S) /\ Len(s) = n
OBVIOUS

LEMMA Slice ==
    ASSUME NEW S, NEW s \in Seq(S), NEW k \in Nat, NEW n \in Nat, k <= n, n <= Len(s)
    PROVE  /\ SubSeq(s, k + 1, n) \in Seq(S) /\ Len(SubSeq(s, k + 1, n)) = n - k
           /\ \A i \in 1..(n - k) : SubSeq(s, k + 1, n)[i] = s[k + i]
<1>1. \A i \in (k + 1)..n : s[i] \in S
  OBVIOUS
<1>2. k + 1 \in Int /\ n \in Int
  OBVIOUS
<1>3. /\ SubSeq(s, k + 1, n) \in Seq(S)
      /\ Len(SubSeq(s, k + 1, n)) = IF k + 1 <= n THEN n - (k + 1) + 1 ELSE 0
      /\ \A i \in 1..(n - (k + 1) + 1) : SubSeq(s, k + 1, n)[i] = s[k + 1 + i - 1]
  BY <1>1, <1>2, SubSeqProperties
<1>4. /\ n - (k + 1) + 1 = n - k /\ (~(k + 1 <= n) => n - k = 0)
      /\ \A i \in 1..(n - k) : k + 1 + i - 1 = k + i
  OBVIOUS
<1> QED
  BY <1>3, <1>4

LEMMA Beginning ==
    ASSUME NEW S, NEW s \in Seq(S), NEW n \in Nat, n <= Len(s)
    PROVE  /\ SubSeq(s, 1, n) \in Seq(S) /\ Len(SubSeq(s, 1, n)) = n
           /\ \A i \in 1..n : SubSeq(s, 1, n)[i] = s[i]
<1>1. /\ SubSeq(s, 0 + 1, n) \in Seq(S) /\ Len(SubSeq(s, 0 + 1, n)) = n - 0
      /\ \A i \in 1..(n - 0) : SubSeq(s, 0 + 1, n)[i] = s[0 + i]
  BY Slice
<1>2. 0 + 1 = 1 /\ n - 0 = n /\ \A i \in 1..n : 0 + i = i
  OBVIOUS
<1> QED
  BY <1>1, <1>2

LEMMA Joined ==
    ASSUME NEW S, NEW s \in Seq(S), NEW t \in Seq(S), NEW k \in Nat, NEW n \in Nat,
           k = Len(s), n = Len(t)
    PROVE  /\ s \o t \in Seq(S) /\ Len(s \o t) = k + n
           /\ \A i \in 1..k : (s \o t)[i] = s[i]
           /\ \A i \in 1..n : (s \o t)[k + i] = t[i]
<1>1. PICK w : w = s \o t
  OBVIOUS
<1>2. /\ w \in Seq(S) /\ Len(w) = Len(s) + Len(t)
      /\ \A i \in 1..(Len(s) + Len(t)) : w[i] = IF i <= Len(s) THEN s[i] ELSE t[i - Len(s)]
  BY <1>1, ConcatProperties, Zenon
<1>3. /\ w \in Seq(S) /\ Len(w) = k + n
      /\ \A i \in 1..(k + n) : w[i] = IF i <= k THEN s[i] ELSE t[i - k]
  BY <1>2, Zenon
<1>4. \A i \in 1..k : w[i] = s[i]
  BY <1>3
<1>5. \A i \in 1..n : w[k + i] = t[i]
  BY <1>3
<1> QED
  BY <1>1, <1>3, <1>4, <1>5

LEMMA Appended ==
    ASSUME NEW S, NEW s \in Seq(S), NEW e \in S, NEW n \in Nat, Len(s) = n
    PROVE  /\ Append(s, e) \in Seq(S) /\ Len(Append(s, e)) = n + 1
           /\ \A i \in 1..n : Append(s, e)[i] = s[i]
           /\ Append(s, e)[n + 1] = e
BY AppendProperties

LEMMA SameSeq ==
    ASSUME NEW S, NEW s \in Seq(S), NEW t \in Seq(S), NEW n \in Nat, Len(s) = n, Len(t) = n,
           \A i \in 1..n : s[i] = t[i]
    PROVE  s = t
OBVIOUS

(* A message that is cut in its second part holds all of the first one. *)
LEMMA CutConcat ==
    ASSUME NEW S, NEW s \in Seq(S), NEW t \in Seq(S), NEW c \in Nat,
           Len(s) <= c, c <= Len(s) + Len(t)
    PROVE  /\ SubSeq(SubSeq(s \o t, 1, c), 1, Len(s)) = s
           /\ SubSeq(SubSeq(s \o t, 1, c), Len(s) + 1, c) = SubSeq(t, 1, c - Len(s))
<1>1. PICK k \in Nat, n \in Nat : k = Len(s) /\ n = Len(t) /\ k <= c /\ c <= k + n
  OBVIOUS
<1>2. PICK w : w = s \o t
  OBVIOUS
<1>3. /\ w \in Seq(S) /\ Len(w) = k + n /\ \A i \in 1..k : w[i] = s[i]
      /\ \A i \in 1..n : w[k + i] = t[i]
  BY <1>1, <1>2, Joined
<1>4. PICK r : r = SubSeq(w, 1, c)
  OBVIOUS
<1>5. r \in Seq(S) /\ Len(r) = c /\ \A i \in 1..c : r[i] = w[i]
  BY ONLY c \in Nat, <1>1, <1>3, <1>4, Beginning
<1>6. SubSeq(r, 1, k) = s
  <2>1. PICK x : x = SubSeq(r, 1, k)
    OBVIOUS
  <2>2. x \in Seq(S) /\ Len(x) = k /\ \A i \in 1..k : x[i] = r[i]
    BY ONLY c \in Nat, <1>1, <1>5, <2>1, Beginning
  <2>3. \A i \in 1..k : x[i] = s[i]
    BY <1>1, <1>3, <1>5, <2>2
  <2> QED
    BY <1>1, <2>1, <2>2, <2>3, SameSeq
<1>7. SubSeq(r, k + 1, c) = SubSeq(t, 1, c - k)
  <2>1. PICK x, y : x = SubSeq(r, k + 1, c) /\ y = SubSeq(t, 1, c - k)
    OBVIOUS
  <2>2. x \in Seq(S) /\ Len(x) = c - k /\ \A i \in 1..(c - k) : x[i] = r[k + i]
    BY ONLY c \in Nat, <1>1, <1>5, <2>1, Slice
  <2>3. c - k \in Nat /\ c - k <= Len(t)
    BY <1>1
  <2>4. y \in Seq(S) /\ Len(y) = c - k /\ \A i \in 1..(c - k) : y[i] = t[i]
    BY ONLY <2>1, <2>3, t \in Seq(S), Beginning
  <2>5. \A i \in 1..(c - k) : k + i \in 1..c /\ i \in 1..n
    BY <1>1
  <2>6. \A i \in 1..(c - k) : x[i] = y[i]
    BY <1>3, <1>5, <2>2, <2>4, <2>5
  <2> QED
    BY <2>1, <2>2, <2>3, <2>4, <2>6, SameSeq
<1> QED
  BY <1>1, <1>2, <1>4, <1>6, <1>7

-----------------------------------------------------------------------------
(* Variable-length integers                                                *)

LEMMA BytesOf ==
    ASSUME NEW v \in VarInts
    PROVE  /\ v \in [1..8 -> Byte] /\ v[1] < 64
           /\ \A i \in 1..8 : v[i] \in Byte
BY DEF VarInts

(* The size class of an integer, and what it says of its bytes. *)
LEMMA SizeClasses ==
    ASSUME NEW v \in VarInts
    PROVE  /\ Size(v) \in {1, 2, 4, 8} /\ v[9 - Size(v)] < 64
           /\ \A i \in 1..(8 - Size(v)) : v[i] = 0
<1>1. Size(v) \in {1, 2, 4, 8}
  BY DEF Size
<1>2. CASE Size(v) = 1
  <2>1. Zeros(v, 7) /\ v[8] < 64
    BY <1>2 DEF Size
  <2> QED
    BY <1>2, <2>1 DEF Zeros
<1>3. CASE Size(v) = 2
  <2>1. Zeros(v, 6) /\ v[7] < 64
    BY <1>3 DEF Size
  <2> QED
    BY <1>3, <2>1 DEF Zeros
<1>4. CASE Size(v) = 4
  <2>1. Zeros(v, 4) /\ v[5] < 64
    BY <1>4 DEF Size
  <2> QED
    BY <1>4, <2>1 DEF Zeros
<1>5. CASE Size(v) = 8
  BY <1>5, BytesOf
<1> QED
  BY <1>1, <1>2, <1>3, <1>4, <1>5

(* The first byte of an encoding holds the size in its two upper bits. *)
LEMMA FirstByte ==
    ASSUME NEW b \in 0..63, NEW k \in {1, 2, 4, 8}
    PROVE  /\ b + LengthTag(k) \in Byte
           /\ 2 ^ ((b + LengthTag(k)) \div 64) = k /\ (b + LengthTag(k)) % 64 = b
<1>1. CASE k = 1
  <2>1. LengthTag(k) = 0
    BY <1>1 DEF LengthTag
  <2>2. (b + 0) \div 64 = 0 /\ (b + 0) % 64 = b /\ b + 0 \in 0..255
    OBVIOUS
  <2>3. 2 ^ 0 = 1
    OBVIOUS
  <2> QED
    BY <1>1, <2>1, <2>2, <2>3 DEF Byte
<1>2. CASE k = 2
  <2>1. LengthTag(k) = 64
    BY <1>2 DEF LengthTag
  <2>2. (b + 64) \div 64 = 1 /\ (b + 64) % 64 = b /\ b + 64 \in 0..255
    OBVIOUS
  <2>3. 2 ^ 1 = 2
    OBVIOUS
  <2> QED
    BY <1>2, <2>1, <2>2, <2>3 DEF Byte
<1>3. CASE k = 4
  <2>1. LengthTag(k) = 128
    BY <1>3 DEF LengthTag
  <2>2. (b + 128) \div 64 = 2 /\ (b + 128) % 64 = b /\ b + 128 \in 0..255
    OBVIOUS
  <2>3. 2 ^ 2 = 4
    OBVIOUS
  <2> QED
    BY <1>3, <2>1, <2>2, <2>3 DEF Byte
<1>4. CASE k = 8
  <2>1. LengthTag(k) = 192
    BY <1>4 DEF LengthTag
  <2>2. (b + 192) \div 64 = 3 /\ (b + 192) % 64 = b /\ b + 192 \in 0..255
    OBVIOUS
  <2>3. 2 ^ 3 = 8
    OBVIOUS
  <2> QED
    BY <1>4, <2>1, <2>2, <2>3 DEF Byte
<1> QED
  BY <1>1, <1>2, <1>3, <1>4

(* The bytes of an encoding. *)
LEMMA EncodedVarInt ==
    ASSUME NEW v \in VarInts
    PROVE  /\ EncodeVarInt(v) \in Bytes /\ Len(EncodeVarInt(v)) = Size(v)
           /\ EncodeVarInt(v)[1] = v[9 - Size(v)] + LengthTag(Size(v))
           /\ \A i \in 2..Size(v) : EncodeVarInt(v)[i] = v[8 - Size(v) + i]
<1>1. PICK k \in {1, 2, 4, 8} : k = Size(v)
  BY SizeClasses
<1>2. v \in Seq(Byte) /\ Len(v) = 8
  <2>1. v \in [1..8 -> Byte] /\ 8 \in Nat
    BY BytesOf
  <2> QED
    BY ONLY <2>1, FunctionSeq
<1>3. PICK s : s = SubSeq(v, 9 - k, 8)
  OBVIOUS
<1>4. s \in [1..k -> Byte] /\ \A i \in 1..k : s[i] = v[8 - k + i]
  <2>1. 8 - k \in Nat /\ 8 - k <= 8 /\ (8 - k) + 1 = 9 - k /\ 8 - (8 - k) = k
    BY <1>1
  <2>2. /\ SubSeq(v, (8 - k) + 1, 8) \in Seq(Byte)
        /\ Len(SubSeq(v, (8 - k) + 1, 8)) = 8 - (8 - k)
        /\ \A i \in 1..(8 - (8 - k)) : SubSeq(v, (8 - k) + 1, 8)[i] = v[(8 - k) + i]
    BY ONLY <1>2, <2>1, 8 \in Nat, 8 <= 8, Slice
  <2>3. s \in Seq(Byte) /\ Len(s) = k /\ \A i \in 1..k : s[i] = v[8 - k + i]
    BY <1>3, <2>1, <2>2
  <2> QED
    BY <2>3
<1>5. PICK e : e = [s EXCEPT ![1] = @ + LengthTag(k)]
  OBVIOUS
<1>6. s[1] \in 0..63
  <2>1. s[1] = v[9 - k] /\ s[1] \in Byte /\ v[9 - k] < 64
    BY <1>1, <1>4, SizeClasses
  <2> QED
    BY <2>1 DEF Byte
<1>7. s[1] + LengthTag(k) \in Byte
  BY <1>6, FirstByte
<1>8. e \in [1..k -> Byte]
  BY <1>4, <1>5, <1>7
<1>9. e \in Bytes /\ Len(e) = k
  BY <1>1, <1>8 DEF Bytes
<1>10. e[1] = v[9 - k] + LengthTag(k) /\ \A i \in 2..k : e[i] = v[8 - k + i]
  BY <1>1, <1>4, <1>5
<1>11. e = EncodeVarInt(v)
  BY <1>1, <1>3, <1>5 DEF EncodeVarInt
<1> QED
  BY <1>1, <1>9, <1>10, <1>11

(* What is read of the bytes w of a message cut after c of them: the integers *)
(* is, if c is not negative.                                                  *)
At(d, is, w, c) ==
    d = IF c >= 0 THEN [ok |-> TRUE, ints |-> is, rest |-> SubSeq(w, 1, c)] ELSE Failed

LEMMA LeadByte ==
    ASSUME NEW v \in VarInts, NEW k \in {1, 2, 4, 8}, k = Size(v)
    PROVE  v[9 - k] \in 0..63
<1>1. 9 - k \in 1..8 /\ v[9 - k] < 64
  BY SizeClasses
<1>2. v[9 - k] \in 0..255
  BY <1>1, BytesOf DEF Byte
<1> QED
  BY <1>1, <1>2

(* The bytes after the first one of an encoding are those of the integer. *)
LEMMA PaddedBack ==
    ASSUME NEW v \in VarInts, NEW k \in {1, 2, 4, 8}, k = Size(v), NEW e, e = EncodeVarInt(v)
    PROVE  Pad([e EXCEPT ![1] = @ % 64]) = v
<1>1. PICK b : b = [e EXCEPT ![1] = @ % 64]
  OBVIOUS
<1>2. e \in [1..k -> Byte] /\ e[1] = v[9 - k] + LengthTag(k) /\ \A i \in 2..k : e[i] = v[8 - k + i]
  <2>1. e \in Seq(Byte) /\ Len(e) = k
    BY EncodedVarInt DEF Bytes
  <2>2. e \in [1..k -> Byte]
    BY ONLY <2>1, LenProperties
  <2> QED
    BY <2>2, EncodedVarInt
<1>3. v[9 - k] \in 0..63
  BY LeadByte
<1>4. e[1] % 64 = v[9 - k]
  BY <1>2, <1>3, FirstByte
<1>5. DOMAIN b = 1..k /\ \A i \in 1..k : b[i] = v[8 - k + i]
  <2>1. DOMAIN b = 1..k /\ b[1] = v[9 - k] /\ \A i \in 2..k : b[i] = v[8 - k + i]
    BY <1>1, <1>2, <1>4
  <2>2. 8 - k + 1 = 9 - k /\ \A i \in 1..k : i = 1 \/ i \in 2..k
    OBVIOUS
  <2> QED
    BY <2>1, <2>2
<1>6. Len(b) = k
  <2>1. b \in [1..k -> Int]
    <3>1. \A i \in 1..k : 8 - k + i \in 1..8
      OBVIOUS
    <3>2. \A i \in 1..8 : v[i] \in Int
      BY BytesOf DEF Byte
    <3>3. b = [i \in 1..k |-> b[i]]
      BY <1>1, <1>2
    <3> QED
      BY <1>5, <3>1, <3>2, <3>3
  <2>2. k \in Nat
    OBVIOUS
  <2> QED
    BY ONLY <2>1, <2>2, FunctionSeq
<1>7. \A i \in 1..8 : (IF i <= 8 - Len(b) THEN 0 ELSE b[i - 8 + Len(b)]) = v[i]
  <2>1. SUFFICES ASSUME NEW i \in 1..8
                 PROVE  (IF i <= 8 - k THEN 0 ELSE b[i - 8 + k]) = v[i]
    BY <1>6
  <2>2. CASE i <= 8 - k
    <3>1. i \in 1..(8 - k)
      BY <2>2
    <3> QED
      BY <2>2, <3>1, SizeClasses
  <2>3. CASE ~(i <= 8 - k)
    <3>1. i - 8 + k \in 1..k /\ 8 - k + (i - 8 + k) = i
      BY <2>3
    <3> QED
      BY <1>5, <2>3, <3>1
  <2> QED
    BY <2>2, <2>3
<1>8. v = [i \in 1..8 |-> v[i]]
  BY BytesOf
<1> QED
  BY <1>1, <1>7, <1>8 DEF Pad

(* Reading an integer, whole or cut. *)
LEMMA ReadVarInt ==
    ASSUME NEW v \in VarInts, NEW t \in Bytes, NEW c \in Int, NEW d, NEW is,
           At(d, is, EncodeVarInt(v) \o t, c), c <= Size(v) + Len(t)
    PROVE  At(DecodeVarInt(d), Append(is, v), t, c - Size(v))
<1>1. PICK k \in {1, 2, 4, 8} : k = Size(v)
  BY SizeClasses
<1>2. PICK e : e = EncodeVarInt(v)
  OBVIOUS
<1>3. e \in Seq(Byte) /\ Len(e) = k /\ t \in Seq(Byte) /\ Len(t) \in Nat /\ k \in Nat
  BY <1>1, <1>2, EncodedVarInt DEF Bytes
<1>4. CASE c < 0
  <2>1. d = Failed /\ ~d.ok /\ ~(c - k >= 0)
    BY <1>1, <1>4 DEF At, Failed
  <2> QED
    BY <1>1, <2>1 DEF At, DecodeVarInt
<1>5. CASE c >= 0
  <2>1. PICK w : w = e \o t
    OBVIOUS
  <2>2. /\ w \in Seq(Byte) /\ Len(w) = k + Len(t) /\ \A i \in 1..k : w[i] = e[i]
    BY ONLY <1>3, <2>1, Joined
  <2>3. PICK r : r = SubSeq(w, 1, c)
    OBVIOUS
  <2>4. c \in Nat /\ c <= k + Len(t)
    BY <1>1, <1>5
  <2>5. r \in Seq(Byte) /\ Len(r) = c /\ \A i \in 1..c : r[i] = w[i]
    BY ONLY <2>2, <2>3, <2>4, Beginning
  <2>6. d.ok /\ d.ints = is /\ d.rest = r
    BY <1>2, <1>5, <2>1, <2>3 DEF At
  <2>7. CASE c = 0
    <3>1. r = <<>> /\ ~(c - k >= 0)
      BY <1>1, <2>5, <2>7
    <3>2. DecodeVarInt(d) = Failed
      BY <2>6, <3>1 DEF DecodeVarInt
    <3> QED
      BY <1>1, <3>1, <3>2 DEF At
  <2>8. CASE c # 0
    <3>1. r # <<>> /\ r[1] = e[1]
      BY <1>1, <2>2, <2>4, <2>5, <2>8
    <3>2. 2 ^ (r[1] \div 64) = k
      <4>1. v[9 - k] \in 0..63
        BY <1>1, LeadByte
      <4>2. r[1] = v[9 - k] + LengthTag(k)
        BY <1>1, <1>2, <3>1, EncodedVarInt
      <4> QED
        BY <4>1, <4>2, FirstByte
    <3>3. CASE c < k
      <4>1. DecodeVarInt(d) = Failed
        BY <2>5, <2>6, <3>1, <3>2, <3>3 DEF DecodeVarInt
      <4> QED
        BY <1>1, <3>3, <4>1 DEF At
    <3>4. CASE c >= k
      <4>1. SubSeq(r, 1, k) = e /\ SubSeq(r, k + 1, c) = SubSeq(t, 1, c - k)
        BY ONLY <1>3, <2>1, <2>3, <2>4, <3>4, CutConcat
      <4>2. ~(Len(r) < k)
        BY <2>5, <3>4
      <4>3. DecodeVarInt(d) = [ok |-> TRUE, ints |-> Append(is, Pad([e EXCEPT ![1] = @ % 64])),
                               rest |-> SubSeq(t, 1, c - k)]
        BY <2>5, <2>6, <3>1, <3>2, <4>1, <4>2 DEF DecodeVarInt
      <4>4. Pad([e EXCEPT ![1] = @ % 64]) = v
        BY <1>1, <1>2, PaddedBack
      <4>5. c - k >= 0
        BY <3>4
      <4> QED
        BY <1>1, <4>3, <4>4, <4>5 DEF At
    <3> QED
      BY <2>4, <3>3, <3>4
  <2> QED
    BY <2>7, <2>8
<1> QED
  BY <1>4, <1>5

Top(n)  == n \div 16777216
High(n) == (n \div 65536) % 256

(* The integer of a number below 2^30, and the number read back from it. *)
LEMMA NumBytes ==
    ASSUME NEW n \in Nat, n < Large
    PROVE  /\ Num(n) \in VarInts /\ Num(n)[5] = Top(n) /\ Num(n)[6] = High(n)
           /\ Num(n)[7] = (n \div 256) % 256 /\ Num(n)[8] = n % 256
           /\ \A i \in 1..4 : Num(n)[i] = 0
<1>1. PICK a \in 0..63, b \in Byte, c \in Byte, d \in Byte :
        /\ a = Top(n) /\ b = High(n)
        /\ c = (n \div 256) % 256 /\ d = n % 256
  <2>1. Top(n) \in 0..63
    BY SMT DEF Large, Top
  <2>2. High(n) \in 0..255 /\ (n \div 256) % 256 \in 0..255 /\ n % 256 \in 0..255
    BY SMT DEF High
  <2> QED
    BY <2>1, <2>2 DEF Byte
<1>2. PICK q : q = <<a, b, c, d>>
  OBVIOUS
<1>3. Len(q) = 4 /\ q[1] = a /\ q[2] = b /\ q[3] = c /\ q[4] = d
  BY <1>2, SMT
<1>4. PICK v : v = [i \in 1..8 |-> IF i <= 8 - Len(q) THEN 0 ELSE q[i - 8 + Len(q)]]
  OBVIOUS
<1>5. v = Num(n)
  BY <1>1, <1>2, <1>4, SMT DEF Num, Pad, Top, High
<1>6. v = [i \in 1..8 |-> IF i <= 4 THEN 0 ELSE q[i - 4]]
  BY <1>3, <1>4, SMT
<1>7. /\ v[5] = a /\ v[6] = b /\ v[7] = c /\ v[8] = d
      /\ v[1] = 0 /\ v[2] = 0 /\ v[3] = 0 /\ v[4] = 0
  BY <1>3, <1>6, SMT
<1>8. v \in [1..8 -> Byte]
  <2>1. 0 \in Byte /\ a \in Byte
    BY SMT DEF Byte
  <2>2. q[1] \in Byte /\ q[2] \in Byte /\ q[3] \in Byte /\ q[4] \in Byte
    BY <1>3, <2>1, SMT
  <2>3. \A i \in 1..8 : i <= 4 \/ i - 4 = 1 \/ i - 4 = 2 \/ i - 4 = 3 \/ i - 4 = 4
    BY SMT
  <2>4. \A i \in 1..8 : (IF i <= 4 THEN 0 ELSE q[i - 4]) \in Byte
    BY <2>1, <2>2, <2>3, SMT
  <2> QED
    BY <1>6, <2>4, SMT
<1>9. v \in VarInts
  BY <1>7, <1>8, SMT DEF VarInts
<1>10. \A i \in 1..4 : v[i] = 0
  BY <1>7, SMT
<1> QED
  BY <1>1, <1>5, <1>7, <1>9, <1>10, SMT

LEMMA NumUsize ==
    ASSUME NEW n \in Nat, n < Large
    PROVE  Usize(Num(n)) = n
<1>1. PICK v : v = Num(n)
  OBVIOUS
<1>2. /\ v[5] = Top(n) /\ v[6] = High(n)
      /\ v[7] = (n \div 256) % 256 /\ v[8] = n % 256 /\ \A i \in 1..4 : v[i] = 0
  BY <1>1, NumBytes, SMT
<1>3. LowBytes(v) = n
  <2>1. /\ n = (n \div 256) * 256 + (n % 256)
        /\ n \div 256 = (n \div 65536) * 256 + ((n \div 256) % 256)
        /\ n \div 65536 = (n \div 16777216) * 256 + ((n \div 65536) % 256)
    BY SMT
  <2>2. PICK x \in Int, y \in Int, z \in Int, p \in Int, q \in Int, r \in Int :
           /\ x = n \div 256 /\ y = n \div 65536 /\ z = n \div 16777216
           /\ p = (n \div 65536) % 256 /\ q = (n \div 256) % 256 /\ r = n % 256
    BY SMT
  <2>3. n = x * 256 + r /\ x = y * 256 + q /\ y = z * 256 + p
    BY <2>1, <2>2, SMT
  <2>4. z * 16777216 + p * 65536 + q * 256 + r = n
    BY <2>3, SMT
  <2> QED
    BY <1>2, <2>2, <2>4, SMT DEF LowBytes, Top, High
<1>4. v[5] < 64
  BY <1>2, SMT DEF Large, Top
<1>5. \A i \in (9 - UsizeBytes)..4 : v[i] = 0
  BY <1>2, UsizeAssumption, SMT
<1> QED
  BY <1>1, <1>3, <1>4, <1>5, SMT DEF Usize

(* A tag is one byte on the wire. *)
LEMMA NumTag ==
    ASSUME NEW tag \in 0..6
    PROVE  /\ Num(tag) \in VarInts /\ Size(Num(tag)) = 1
           /\ Zeros(Num(tag), 7) /\ Num(tag)[8] = tag
<1>1. tag \in Nat /\ tag < Large
  BY SMT DEF Large
<1>2. PICK v : v = Num(tag)
  OBVIOUS
<1>3. /\ v \in VarInts /\ v[5] = Top(tag) /\ v[6] = High(tag)
      /\ v[7] = (tag \div 256) % 256 /\ v[8] = tag % 256 /\ \A i \in 1..4 : v[i] = 0
  BY <1>1, <1>2, NumBytes
<1>4. /\ Top(tag) = 0 /\ High(tag) = 0 /\ (tag \div 256) % 256 = 0
      /\ tag % 256 = tag
  BY SMT DEF Top, High
<1>5. v[5] = 0 /\ v[6] = 0 /\ v[7] = 0 /\ v[8] = tag
  BY <1>3, <1>4, SMT
<1>6. Zeros(v, 7)
  BY <1>3, <1>5, SMT DEF Zeros
<1> QED
  BY <1>2, <1>3, <1>5, <1>6, SMT DEF Size

-----------------------------------------------------------------------------
(* Frames                                                                  *)

LEMMA FrameParts ==
    ASSUME NEW f \in FrameShapes
    PROVE  /\ f = [tag |-> f.tag, ints |-> f.ints, data |-> f.data]
           /\ f.tag \in 0..6 /\ f.data \in Bytes /\ Len(f.data) \in Nat /\ Len(f.data) < Large
           /\ f.ints \in Seq(VarInts) /\ Len(f.ints) = Fields(f.tag) /\ f.ints[1] \in VarInts
           /\ Fields(f.tag) \in {1, 2}
           /\ Fields(f.tag) = 2 => f.ints[2] \in VarInts
           /\ ~HasData(f.tag) => f.data = <<>>
           /\ f.tag = 2 => f.ints[2] \in {Num(0), Num(1)}
           /\ f.tag = 5 => Utf8(f.data)
<1>1. /\ f \in [tag : 0..6, ints : Seq(VarInts), data : Seq(Byte)]
      /\ Len(f.ints) = Fields(f.tag) /\ Len(f.data) < Large
      /\ ~HasData(f.tag) => f.data = <<>>
      /\ f.tag = 2 => f.ints[2] \in {Num(0), Num(1)}
      /\ f.tag = 5 => Utf8(f.data)
  BY DEF FrameShapes
<1>2. Fields(f.tag) \in {1, 2}
  BY DEF Fields
<1>3. f.ints \in Seq(VarInts) /\ f.data \in Seq(Byte) /\ f.tag \in 0..6
  BY <1>1
<1>4. f.ints[1] \in VarInts /\ (Fields(f.tag) = 2 => f.ints[2] \in VarInts)
  <2>1. PICK s \in Seq(VarInts) : s = f.ints
    BY <1>3
  <2>2. Len(s) \in {1, 2} /\ (Fields(f.tag) = 2 => Len(s) = 2)
    BY <1>1, <1>2, <2>1
  <2>3. s[1] \in VarInts /\ (Len(s) = 2 => s[2] \in VarInts)
    BY ONLY <2>1, <2>2
  <2> QED
    BY <2>1, <2>2, <2>3
<1>5. f = [tag |-> f.tag, ints |-> f.ints, data |-> f.data]
  BY ONLY <1>1
<1>6. Len(f.data) \in Nat
  BY ONLY <1>3
<1> QED
  BY <1>1, <1>2, <1>3, <1>4, <1>5, <1>6 DEF Bytes

(* The parts of an encoding: the second integer and the data, if any. *)
Second(f) == IF Fields(f.tag) = 2 THEN EncodeVarInt(f.ints[2]) ELSE <<>>
Length(f) == IF HasData(f.tag) THEN EncodeVarInt(Num(Len(f.data))) ELSE <<>>

LEMMA EncodedParts ==
    ASSUME NEW f \in FrameShapes
    PROVE  /\ EncodeVarInt(Num(f.tag)) \in Bytes /\ Len(EncodeVarInt(Num(f.tag))) = 1
           /\ EncodeVarInt(f.ints[1]) \in Bytes
           /\ Len(EncodeVarInt(f.ints[1])) = Size(f.ints[1]) /\ Size(f.ints[1]) \in {1, 2, 4, 8}
           /\ Second(f) \in Bytes /\ Len(Second(f)) \in Nat
           /\ Length(f) \in Bytes /\ Len(Length(f)) \in Nat
           /\ EncodedLen(f) = 1 + Size(f.ints[1]) + Len(Second(f)) + Len(Length(f)) + Len(f.data)
<1>1. EncodeVarInt(Num(f.tag)) \in Bytes /\ Len(EncodeVarInt(Num(f.tag))) = 1
  BY FrameParts, NumTag, EncodedVarInt
<1>2. /\ EncodeVarInt(f.ints[1]) \in Bytes
      /\ Len(EncodeVarInt(f.ints[1])) = Size(f.ints[1]) /\ Size(f.ints[1]) \in {1, 2, 4, 8}
  BY FrameParts, SizeClasses, EncodedVarInt
<1>3. <<>> \in Bytes /\ Len(<<>>) = 0
  BY DEF Bytes
<1>4. /\ Second(f) \in Bytes /\ Len(Second(f)) \in Nat
      /\ Len(Second(f)) = IF Fields(f.tag) = 2 THEN Size(f.ints[2]) ELSE 0
  <2>1. CASE Fields(f.tag) = 2
    <3>1. /\ EncodeVarInt(f.ints[2]) \in Bytes
          /\ Len(EncodeVarInt(f.ints[2])) = Size(f.ints[2]) /\ Size(f.ints[2]) \in {1, 2, 4, 8}
      BY <2>1, FrameParts, SizeClasses, EncodedVarInt
    <3> QED
      BY <2>1, <3>1 DEF Second
  <2>2. CASE Fields(f.tag) # 2
    BY <1>3, <2>2 DEF Second
  <2> QED
    BY <2>1, <2>2
<1>5. /\ Length(f) \in Bytes /\ Len(Length(f)) \in Nat
      /\ Len(Length(f)) + Len(f.data)
           = IF HasData(f.tag) THEN Size(Num(Len(f.data))) + Len(f.data) ELSE 0
  <2>1. CASE HasData(f.tag)
    <3>1. Num(Len(f.data)) \in VarInts
      BY FrameParts, NumBytes
    <3>2. /\ EncodeVarInt(Num(Len(f.data))) \in Bytes
          /\ Len(EncodeVarInt(Num(Len(f.data)))) = Size(Num(Len(f.data)))
          /\ Size(Num(Len(f.data))) \in {1, 2, 4, 8}
      BY <3>1, SizeClasses, EncodedVarInt
    <3> QED
      <4>1. Length(f) = EncodeVarInt(Num(Len(f.data)))
        BY <2>1 DEF Length
      <4>2. Len(Length(f)) = Size(Num(Len(f.data))) /\ Size(Num(Len(f.data))) \in Nat
        BY <3>2, <4>1
      <4> QED
        BY ONLY <2>1, <3>2, <4>1, <4>2
  <2>2. CASE ~HasData(f.tag)
    <3>1. f.data = <<>> /\ Length(f) = <<>>
      BY <2>2, FrameParts DEF Length
    <3> QED
      BY <1>3, <2>2, <3>1
  <2> QED
    BY <2>1, <2>2
<1>6. PICK s \in Nat, l \in Nat, n \in Nat, k \in {1, 2, 4, 8} :
        /\ s = Len(Second(f)) /\ l = Len(Length(f)) /\ n = Len(f.data) /\ k = Size(f.ints[1])
  BY <1>2, <1>4, <1>5, FrameParts
<1>7. EncodedLen(f) = 1 + k + s + (l + n)
  BY <1>4, <1>5, <1>6 DEF EncodedLen
<1>8. 1 + k + s + (l + n) = 1 + k + s + l + n
  OBVIOUS
<1> QED
  BY <1>1, <1>2, <1>4, <1>5, <1>6, <1>7, <1>8

Cat(x, y) == x \o y

LEMMA CatBytes ==
    ASSUME NEW x \in Bytes, NEW y \in Bytes
    PROVE  Cat(x, y) \in Bytes /\ Len(Cat(x, y)) = Len(x) + Len(y)
<1>1. x \in Seq(Byte) /\ y \in Seq(Byte)
  BY DEF Bytes
<1>2. x \o y \in Seq(Byte) /\ Len(x \o y) = Len(x) + Len(y)
  BY ONLY <1>1, ConcatProperties, Zenon
<1> QED
  BY <1>2 DEF Bytes, Cat

LEMMA CatAssociative ==
    ASSUME NEW x \in Bytes, NEW y \in Bytes, NEW z \in Bytes
    PROVE  Cat(Cat(x, y), z) = Cat(x, Cat(y, z))
<1>1. x \in Seq(Byte) /\ y \in Seq(Byte) /\ z \in Seq(Byte)
  BY DEF Bytes
<1>2. (x \o y) \o z = x \o (y \o z)
  BY ONLY <1>1, ConcatAssociative
<1> QED
  BY ONLY <1>2, Zenon DEF Cat

(* The encoding, and what follows it, taken apart from the left. *)
LEMMA Nested ==
    ASSUME NEW a \in Bytes, NEW b \in Bytes, NEW c \in Bytes, NEW d \in Bytes, NEW e \in Bytes,
           NEW t \in Bytes
    PROVE  /\ Cat(Cat(Cat(Cat(a, b), c), Cat(d, e)), t) = Cat(a, Cat(b, Cat(c, Cat(d, Cat(e, t)))))
           /\ Cat(Cat(Cat(a, b), c), Cat(d, e)) \in Bytes
           /\ Len(Cat(Cat(Cat(a, b), c), Cat(d, e))) = Len(a) + Len(b) + Len(c) + Len(d) + Len(e)
<1>1. PICK ab, abc, de : ab = Cat(a, b) /\ abc = Cat(ab, c) /\ de = Cat(d, e)
  OBVIOUS
<1>2. PICK x : x = Cat(d, Cat(e, t))
  OBVIOUS
<1>3. ab \in Bytes /\ abc \in Bytes /\ de \in Bytes /\ Cat(abc, de) \in Bytes
  BY <1>1, CatBytes
<1>4. Cat(e, t) \in Bytes /\ x \in Bytes /\ Cat(c, x) \in Bytes
  BY <1>2, CatBytes
<1>5. Len(Cat(abc, de)) = Len(a) + Len(b) + Len(c) + Len(d) + Len(e)
  <2>1. /\ Len(ab) = Len(a) + Len(b) /\ Len(abc) = Len(ab) + Len(c)
        /\ Len(de) = Len(d) + Len(e) /\ Len(Cat(abc, de)) = Len(abc) + Len(de)
    BY <1>1, <1>3, CatBytes
  <2>2. \A y \in Bytes : Len(y) \in Nat
    BY DEF Bytes
  <2> QED
    BY <2>1, <2>2
<1>6. Cat(Cat(abc, de), t) = Cat(abc, Cat(de, t)) /\ Cat(de, t) = x
  BY <1>1, <1>2, <1>3, CatAssociative
<1>7. Cat(abc, x) = Cat(ab, Cat(c, x))
  BY <1>1, <1>3, <1>4, CatAssociative
<1>8. Cat(ab, Cat(c, x)) = Cat(a, Cat(b, Cat(c, x)))
  BY <1>1, <1>4, CatAssociative
<1>9. Cat(Cat(abc, de), t) = Cat(a, Cat(b, Cat(c, x)))
  BY <1>6, <1>7, <1>8
<1> QED
  BY <1>1, <1>2, <1>3, <1>5, <1>9

LEMMA EncodedFrame ==
    ASSUME NEW f \in FrameShapes, NEW t \in Bytes
    PROVE  /\ Encode(f) \in Bytes /\ Len(Encode(f)) = EncodedLen(f) /\ EncodedLen(f) \in Nat
           /\ Encode(f) \o t = EncodeVarInt(Num(f.tag)) \o (EncodeVarInt(f.ints[1])
                                 \o (Second(f) \o (Length(f) \o (f.data \o t))))
<1>1. PICK a, b, c, d, e : /\ a = EncodeVarInt(Num(f.tag)) /\ b = EncodeVarInt(f.ints[1])
                           /\ c = Second(f) /\ d = Length(f) /\ e = f.data
  OBVIOUS
<1>2. /\ a \in Bytes /\ b \in Bytes /\ c \in Bytes /\ d \in Bytes /\ e \in Bytes
      /\ Len(a) = 1 /\ Len(b) = Size(f.ints[1]) /\ Size(f.ints[1]) \in {1, 2, 4, 8}
      /\ Len(c) \in Nat /\ Len(d) \in Nat /\ Len(e) \in Nat
      /\ EncodedLen(f) = 1 + Size(f.ints[1]) + Len(c) + Len(d) + Len(e)
  BY <1>1, EncodedParts, FrameParts
<1>3. (IF HasData(f.tag) THEN EncodeVarInt(Num(Len(f.data))) \o f.data ELSE <<>>) = d \o e
  <2>1. CASE HasData(f.tag)
    BY ONLY <1>1, <2>1, Zenon DEF Length
  <2>2. CASE ~HasData(f.tag)
    <3>1. d = <<>> /\ e = <<>>
      BY <1>1, <2>2, FrameParts DEF Length
    <3>2. <<>> \o <<>> = <<>>
      OBVIOUS
    <3> QED
      BY ONLY <2>2, <3>1, <3>2, Zenon
  <2> QED
    BY <2>1, <2>2
<1>4. Encode(f) = a \o b \o c \o (d \o e)
  BY ONLY <1>1, <1>3, Zenon DEF Encode, Second
<1>5. Encode(f) = Cat(Cat(Cat(a, b), c), Cat(d, e))
  BY ONLY <1>4, Zenon DEF Cat
<1>6. /\ Cat(Cat(Cat(Cat(a, b), c), Cat(d, e)), t) = Cat(a, Cat(b, Cat(c, Cat(d, Cat(e, t)))))
      /\ Cat(Cat(Cat(a, b), c), Cat(d, e)) \in Bytes
      /\ Len(Cat(Cat(Cat(a, b), c), Cat(d, e))) = Len(a) + Len(b) + Len(c) + Len(d) + Len(e)
  <2>1. a \in Bytes /\ b \in Bytes /\ c \in Bytes /\ d \in Bytes /\ e \in Bytes
    BY <1>2
  <2> QED
    BY <2>1, Nested
<1>7. /\ Encode(f) \in Bytes /\ Len(Encode(f)) = Len(a) + Len(b) + Len(c) + Len(d) + Len(e)
      /\ Cat(Encode(f), t) = Cat(a, Cat(b, Cat(c, Cat(d, Cat(e, t)))))
  BY ONLY <1>5, <1>6, Zenon
<1>8. Len(Encode(f)) = EncodedLen(f) /\ EncodedLen(f) \in Nat
  BY ONLY <1>2, <1>7
<1>9. Encode(f) \o t = a \o (b \o (c \o (d \o (e \o t))))
  BY ONLY <1>7, Zenon DEF Cat
<1> QED
  BY ONLY <1>1, <1>7, <1>8, <1>9, Zenon

(* The integers of a frame as they are read: tag, fields, length. *)
IntsOf(f) ==
    LET two   == Append(Append(<<>>, Num(f.tag)), f.ints[1])
        three == IF Fields(f.tag) = 2 THEN Append(two, f.ints[2]) ELSE two
    IN  IF HasData(f.tag) THEN Append(three, Num(Len(f.data))) ELSE three

LEMMA IntsRead ==
    ASSUME NEW f \in FrameShapes
    PROVE  /\ SubSeq(IntsOf(f), 2, Fields(f.tag) + 1) = f.ints
           /\ HasData(f.tag) => IntsOf(f)[Fields(f.tag) + 2] = Num(Len(f.data))
           /\ f.tag = 2 => IntsOf(f)[3] = f.ints[2]
<1>1. PICK x, y, z, u : x = Num(f.tag) /\ y = f.ints[1] /\ z = f.ints[2] /\ u = Num(Len(f.data))
  OBVIOUS
<1>2. PICK n, s : n = Fields(f.tag) /\ s = f.ints
  OBVIOUS
<1>3. n \in {1, 2} /\ s \in Seq(VarInts) /\ Len(s) = n /\ s[1] = y /\ (n = 2 => s[2] = z)
  <2>1. /\ Fields(f.tag) \in {1, 2} /\ f.ints \in Seq(VarInts) /\ Len(f.ints) = Fields(f.tag)
    BY FrameParts, Zenon
  <2> QED
    BY ONLY <1>1, <1>2, <2>1, Zenon
<1>4. x \in VarInts /\ y \in VarInts /\ u \in VarInts /\ (n = 2 => z \in VarInts)
  BY <1>1, <1>2, FrameParts, NumTag, NumBytes
<1>5. PICK two : two = Append(Append(<<>>, x), y)
  OBVIOUS
<1>6. two \in Seq(VarInts) /\ Len(two) = 2 /\ two[2] = y
  BY ONLY <1>4, <1>5
<1>7. PICK three : three = IF n = 2 THEN Append(two, z) ELSE two
  OBVIOUS
<1>8. three \in Seq(VarInts) /\ Len(three) = n + 1 /\ three[2] = y /\ (n = 2 => three[3] = z)
  <2>1. CASE n = 1
    BY ONLY <1>6, <1>7, <2>1
  <2>2. CASE n = 2
    <3>1. three = Append(two, z) /\ z \in VarInts
      BY ONLY <1>4, <1>7, <2>2
    <3> QED
      <4>1. PICK k \in Nat : k = 2 /\ Len(two) = k
        BY <1>6
      <4>2. /\ Append(two, z) \in Seq(VarInts) /\ Len(Append(two, z)) = k + 1
            /\ \A i \in 1..k : Append(two, z)[i] = two[i]
            /\ Append(two, z)[k + 1] = z
        <5>1. k \in Nat /\ two \in Seq(VarInts) /\ z \in VarInts /\ Len(two) = k
          BY <1>6, <3>1, <4>1
        <5> QED
          BY ONLY <5>1, Appended
      <4> QED
        BY ONLY <1>6, <2>2, <3>1, <4>1, <4>2
  <2> QED
    BY ONLY <1>3, <2>1, <2>2
<1>9. PICK four : four = IF HasData(f.tag) THEN Append(three, u) ELSE three
  OBVIOUS
<1>10. /\ four \in Seq(VarInts) /\ n + 1 <= Len(four) /\ four[2] = y /\ (n = 2 => four[3] = z)
       /\ HasData(f.tag) => four[n + 2] = u
  <2>1. CASE HasData(f.tag)
    <3>1. four = Append(three, u)
      BY <1>9, <2>1
    <3> QED
      BY ONLY <1>3, <1>4, <1>8, <3>1
  <2>2. CASE ~HasData(f.tag)
    <3>1. four = three
      BY <1>9, <2>2
    <3> QED
      BY ONLY <1>3, <1>8, <2>2, <3>1
  <2> QED
    BY <2>1, <2>2
<1>11. four = IntsOf(f)
  BY ONLY <1>1, <1>2, <1>5, <1>7, <1>9, Zenon DEF IntsOf
<1>12. SubSeq(four, 2, n + 1) = s
  <2>1. 1 \in Nat /\ n + 1 \in Nat /\ 1 <= n + 1 /\ 1 + 1 = 2 /\ (n + 1) - 1 = n /\ n \in Nat
    BY <1>3
  <2>2. /\ SubSeq(four, 1 + 1, n + 1) \in Seq(VarInts)
        /\ Len(SubSeq(four, 1 + 1, n + 1)) = (n + 1) - 1
        /\ \A i \in 1..((n + 1) - 1) : SubSeq(four, 1 + 1, n + 1)[i] = four[1 + i]
    BY ONLY <1>10, <2>1, Slice
  <2>3. PICK p : p = SubSeq(four, 2, n + 1)
    OBVIOUS
  <2>4. p \in Seq(VarInts) /\ Len(p) = n /\ \A i \in 1..n : p[i] = four[1 + i]
    BY ONLY <2>1, <2>2, <2>3
  <2>5. \A i \in 1..n : p[i] = s[i]
    <3>1. SUFFICES ASSUME NEW i \in 1..n PROVE p[i] = s[i]
      OBVIOUS
    <3>2. i = 1 \/ (i = 2 /\ n = 2)
      BY <1>3
    <3> QED
      BY <1>3, <1>10, <2>4, <3>2
  <2> QED
    BY ONLY <1>3, <2>1, <2>3, <2>4, <2>5, SameSeq
<1>13. f.tag = 2 => n = 2
  BY <1>2 DEF Fields
<1> QED
  BY <1>1, <1>2, <1>10, <1>11, <1>12, <1>13

(* Reading the integers of a frame, from a message cut anywhere. *)
LEMMA ReadInts ==
    ASSUME NEW f \in FrameShapes, NEW t \in Bytes, NEW c \in Nat, c <= EncodedLen(f) + Len(t),
           NEW w, w = SubSeq(Encode(f) \o t, 1, c), NEW head, head = DecodeVarInt(Start(w)),
           NEW last, last = DecodeFields(f.tag, head)
    PROVE  /\ \E x : At(head, Append(<<>>, Num(f.tag)), x, c - 1)
           /\ At(last, IntsOf(f), f.data \o t, c - (EncodedLen(f) - Len(f.data)))
<1>1. PICK one : one = DecodeVarInt(head)
  OBVIOUS
<1>2. PICK all : all = IF Fields(f.tag) = 2 THEN DecodeVarInt(one) ELSE one
  OBVIOUS
<1>3. last = IF HasData(f.tag) THEN DecodeVarInt(all) ELSE all
  BY <1>1, <1>2 DEF DecodeFields
<1>4. PICK t1, t2, t3, t4 : /\ t4 = f.data \o t /\ t3 = Length(f) \o t4 /\ t2 = Second(f) \o t3
                            /\ t1 = EncodeVarInt(f.ints[1]) \o t2
  OBVIOUS
<1>5. PICK k, s, l, n : /\ k = Size(f.ints[1]) /\ s = Len(Second(f)) /\ l = Len(Length(f))
                        /\ n = Len(f.data)
  OBVIOUS
<1>6. /\ k \in {1, 2, 4, 8} /\ s \in Nat /\ l \in Nat /\ n \in Nat
      /\ EncodedLen(f) = 1 + k + s + l + n
  BY <1>5, EncodedParts, FrameParts
<1>7. /\ t4 \in Bytes /\ t3 \in Bytes /\ t2 \in Bytes /\ t1 \in Bytes
      /\ Len(t4) = n + Len(t) /\ Len(t3) = l + Len(t4) /\ Len(t2) = s + Len(t3)
      /\ Len(t1) = k + Len(t2) /\ Len(t) \in Nat
  <2>1. /\ t4 = Cat(f.data, t) /\ t3 = Cat(Length(f), t4) /\ t2 = Cat(Second(f), t3)
        /\ t1 = Cat(EncodeVarInt(f.ints[1]), t2)
    BY ONLY <1>4, Zenon DEF Cat
  <2>2. /\ f.data \in Bytes /\ Length(f) \in Bytes /\ Second(f) \in Bytes
        /\ EncodeVarInt(f.ints[1]) \in Bytes /\ Len(EncodeVarInt(f.ints[1])) = k
    BY <1>5, EncodedParts, FrameParts
  <2>3. Len(t) \in Nat
    BY DEF Bytes
  <2>4. t4 \in Bytes /\ Len(t4) = n + Len(t)
    BY <1>5, <2>1, <2>2, CatBytes
  <2>5. t3 \in Bytes /\ Len(t3) = l + Len(t4)
    BY <1>5, <2>1, <2>2, <2>4, CatBytes
  <2>6. t2 \in Bytes /\ Len(t2) = s + Len(t3)
    BY <1>5, <2>1, <2>2, <2>5, CatBytes
  <2>7. t1 \in Bytes /\ Len(t1) = k + Len(t2)
    <3>1. PICK e \in Bytes : e = EncodeVarInt(f.ints[1]) /\ Len(e) = k /\ t1 = Cat(e, t2)
      BY <2>1, <2>2
    <3> QED
      BY ONLY <2>6, <3>1, CatBytes
  <2> QED
    BY <2>3, <2>4, <2>5, <2>6, <2>7
<1>8. c \in Int /\ c <= 1 + k + s + l + n + Len(t)
  BY <1>6, <1>7
<1>9. At(head, Append(<<>>, Num(f.tag)), t1, c - 1)
  <2>1. Num(f.tag) \in VarInts /\ Size(Num(f.tag)) = 1
    BY FrameParts, NumTag
  <2>2. Encode(f) \o t = EncodeVarInt(Num(f.tag)) \o t1
    BY ONLY f \in FrameShapes, t \in Bytes, <1>4, EncodedFrame, Zenon
  <2>3. At(Start(w), <<>>, EncodeVarInt(Num(f.tag)) \o t1, c)
    BY ONLY c \in Nat, w = SubSeq(Encode(f) \o t, 1, c), <2>2 DEF At, Start
  <2>4. c <= 1 + Len(t1)
    BY <1>6, <1>7, <1>8
  <2> QED
    BY ONLY head = DecodeVarInt(Start(w)), <1>7, <1>8, <2>1, <2>3, <2>4, ReadVarInt
<1>10. PICK two : two = Append(Append(<<>>, Num(f.tag)), f.ints[1])
  OBVIOUS
<1>11. At(one, two, t2, c - 1 - k)
  <2>1. f.ints[1] \in VarInts
    BY FrameParts
  <2>2. c - 1 \in Int /\ c - 1 <= k + Len(t2)
    BY <1>6, <1>7, <1>8
  <2> QED
    BY ONLY <1>1, <1>4, <1>5, <1>7, <1>9, <1>10, <2>1, <2>2, ReadVarInt
<1>12. PICK three : three = IF Fields(f.tag) = 2 THEN Append(two, f.ints[2]) ELSE two
  OBVIOUS
<1>13. At(all, three, t3, c - 1 - k - s)
  <2>1. CASE Fields(f.tag) = 2
    <3>1. f.ints[2] \in VarInts /\ s = Size(f.ints[2]) /\ t2 = EncodeVarInt(f.ints[2]) \o t3
      BY <1>4, <1>5, <2>1, FrameParts, EncodedVarInt DEF Second
    <3>2. c - 1 - k \in Int /\ c - 1 - k <= s + Len(t3)
      BY <1>6, <1>7, <1>8
    <3>3. all = DecodeVarInt(one) /\ three = Append(two, f.ints[2])
      BY <1>2, <1>12, <2>1
    <3> QED
      BY ONLY <1>7, <1>11, <3>1, <3>2, <3>3, ReadVarInt
  <2>2. CASE Fields(f.tag) # 2
    <3>1. Second(f) = <<>> /\ s = 0 /\ all = one /\ three = two
      BY <1>2, <1>5, <1>12, <2>2 DEF Second
    <3>2. t2 = t3
      <4>1. t2 = <<>> \o t3 /\ t3 \in Seq(Byte)
        BY <1>4, <1>7, <3>1 DEF Bytes
      <4> QED
        BY ONLY <4>1, ConcatEmptySeq
    <3>3. c - 1 - k - s = c - 1 - k
      BY <1>6, <3>1
    <3> QED
      BY <1>11, <3>1, <3>2, <3>3
  <2> QED
    BY <2>1, <2>2
<1>14. At(last, IntsOf(f), t4, c - 1 - k - s - l)
  <2>1. IntsOf(f) = IF HasData(f.tag) THEN Append(three, Num(Len(f.data))) ELSE three
    BY ONLY <1>10, <1>12, Zenon DEF IntsOf
  <2>2. CASE HasData(f.tag)
    <3>1. Num(Len(f.data)) \in VarInts
      BY FrameParts, NumBytes
    <3>2. l = Size(Num(Len(f.data))) /\ t3 = EncodeVarInt(Num(Len(f.data))) \o t4
      BY <1>4, <1>5, <2>2, <3>1, EncodedVarInt DEF Length
    <3>3. c - 1 - k - s \in Int /\ c - 1 - k - s <= l + Len(t4)
      BY <1>6, <1>7, <1>8
    <3>4. last = DecodeVarInt(all) /\ IntsOf(f) = Append(three, Num(Len(f.data)))
      BY <1>3, <2>1, <2>2
    <3> QED
      BY ONLY <1>7, <1>13, <3>1, <3>2, <3>3, <3>4, ReadVarInt
  <2>3. CASE ~HasData(f.tag)
    <3>1. Length(f) = <<>> /\ l = 0 /\ last = all /\ IntsOf(f) = three
      BY <1>3, <1>5, <2>1, <2>3 DEF Length
    <3>2. t3 = t4
      <4>1. t3 = <<>> \o t4 /\ t4 \in Seq(Byte)
        BY <1>4, <1>7, <3>1 DEF Bytes
      <4> QED
        BY ONLY <4>1, ConcatEmptySeq
    <3>3. c - 1 - k - s - l = c - 1 - k - s
      BY <1>6, <3>1
    <3> QED
      BY <1>13, <3>1, <3>2, <3>3
  <2> QED
    BY <2>2, <2>3
<1>15. c - 1 - k - s - l = c - (EncodedLen(f) - Len(f.data))
  BY <1>5, <1>6
<1> QED
  BY <1>4, <1>9, <1>14, <1>15

(* A frame is decoded from any message that holds all of it, and from no     *)
(* message that holds less.                                                  *)
LEMMA DecodeFrame ==
    ASSUME NEW f \in FrameShapes, NEW t \in Bytes, NEW c \in Nat, c <= EncodedLen(f) + Len(t)
    PROVE  Decode(SubSeq(Encode(f) \o t, 1, c))
             = IF c >= EncodedLen(f)
               THEN [ok |-> TRUE, frame |-> f, len |-> Num(Len(f.data)),
                     rest |-> SubSeq(t, 1, c - EncodedLen(f))]
               ELSE [ok |-> FALSE]
<1>1. PICK w : w = SubSeq(Encode(f) \o t, 1, c)
  OBVIOUS
<1>2. PICK head : head = DecodeVarInt(Start(w))
  OBVIOUS
<1>3. PICK last : last = DecodeFields(f.tag, head)
  OBVIOUS
<1>4. PICK tag : tag = TagOf(head)
  OBVIOUS
<1>5. Decode(w) = DecodeBody(tag, DecodeFields(tag, head))
  BY ONLY <1>2, <1>4, Zenon DEF Decode
<1>6. PICK n, z : n = Len(f.data) /\ z = EncodedLen(f)
  OBVIOUS
<1>7. n \in Nat /\ n < Large /\ z \in Nat /\ z - n \in Nat /\ z - n >= 1 /\ c <= z + Len(t)
  BY <1>6, FrameParts, EncodedParts
<1>8. /\ \E x : At(head, Append(<<>>, Num(f.tag)), x, c - 1)
      /\ At(last, IntsOf(f), f.data \o t, c - (z - n))
  BY <1>1, <1>2, <1>3, <1>6, ReadInts
<1>10. CASE c < 1
  <2>1. ~(c - 1 >= 0)
    BY <1>10
  <2>2. head = Failed
    BY <1>8, <2>1 DEF At
  <2>3. tag = 7
    BY <1>4, <2>2 DEF Failed, TagOf
  <2>4. Decode(w) = [ok |-> FALSE]
    BY ONLY <1>5, <2>3 DEF DecodeBody
  <2>5. ~(c >= z)
    BY <1>7, <1>10
  <2> QED
    BY <1>1, <1>6, <2>4, <2>5
<1>11. CASE c >= 1
  <2>1. head.ok /\ head.ints = Append(<<>>, Num(f.tag))
    BY <1>8, <1>11 DEF At
  <2>2. head.ints[1] = Num(f.tag)
    BY <2>1
  <2>3. tag = f.tag /\ tag \in 0..6
    BY <1>4, <2>1, <2>2, FrameParts, NumTag DEF TagOf
  <2>4. PICK len : len = IF HasData(tag) THEN last.ints[Fields(tag) + 2] ELSE Num(0)
    OBVIOUS
  <2>5. PICK data : data = SubSeq(last.rest, 1, Usize(len))
    OBVIOUS
  <2>6. Decode(w) = IF \/ tag > 6 \/ ~last.ok
                       \/ (tag = 2 /\ last.ints[3] \notin {Num(0), Num(1)})
                       \/ Usize(len) > Len(last.rest)
                       \/ (tag = 5 /\ ~Utf8(data))
                    THEN [ok |-> FALSE]
                    ELSE [ok    |-> TRUE,
                          frame |-> [tag |-> tag, ints |-> SubSeq(last.ints, 2, Fields(tag) + 1),
                                     data |-> data],
                          len   |-> len,
                          rest  |-> SubSeq(last.rest, Usize(len) + 1, Len(last.rest))]
    <3>1. Decode(w) = DecodeBody(tag, last)
      BY ONLY <1>3, <1>5, <2>3
    <3> QED
      BY ONLY <2>4, <2>5, <3>1 DEF DecodeBody
  <2>7. CASE c < z - n
    <3>1. ~(c - (z - n) >= 0) /\ ~(c >= z)
      BY <1>7, <2>7
    <3>2. ~last.ok
      BY <1>8, <3>1 DEF At, Failed
    <3> QED
      BY <1>1, <1>6, <2>6, <3>1, <3>2
  <2>8. CASE c >= z - n
    <3>1. PICK m \in Nat : m = c - (z - n) /\ m <= n + Len(t) /\ (m >= n <=> c >= z)
                           /\ (c >= z => m - n = c - z)
      <4>1. Len(t) \in Nat
        BY DEF Bytes
      <4> QED
        BY <1>7, <2>8, <4>1
    <3>2. /\ last.ok /\ last.ints = IntsOf(f) /\ last.rest = SubSeq(f.data \o t, 1, m)
      <4>1. At(last, IntsOf(f), f.data \o t, m)
        BY <1>8, <3>1
      <4>2. m >= 0
        BY <3>1
      <4> QED
        BY ONLY <4>1, <4>2 DEF At
    <3>3. len = Num(n)
      <4>1. CASE HasData(f.tag)
        BY <1>6, <2>3, <2>4, <3>2, <4>1, IntsRead
      <4>2. CASE ~HasData(f.tag)
        <5>1. n = 0
          BY <1>6, <4>2, FrameParts
        <5> QED
          BY <2>3, <2>4, <4>2, <5>1
      <4> QED
        BY <4>1, <4>2
    <3>4. Usize(len) = n
      BY <1>7, <3>3, NumUsize
    <3>5. f.data \in Seq(Byte) /\ t \in Seq(Byte) /\ Len(f.data) = n /\ Len(t) \in Nat
      BY <1>6, FrameParts DEF Bytes
    <3>6. PICK y : y = f.data \o t
      OBVIOUS
    <3>7. y \in Seq(Byte) /\ Len(y) = n + Len(t)
      BY ONLY <1>7, <3>5, <3>6, Joined
    <3>8. PICK r : r = SubSeq(y, 1, m)
      OBVIOUS
    <3>9. Len(r) = m /\ last.rest = r
      <4>1. Len(SubSeq(y, 1, m)) = m
        BY ONLY <3>1, <3>7, Beginning
      <4> QED
        BY <3>2, <3>6, <3>8, <4>1
    <3>10. CASE m < n
      <4>1. n > Len(last.rest) /\ ~(c >= z)
        BY <1>7, <3>1, <3>9, <3>10
      <4> QED
        BY ONLY <1>1, <1>6, <2>6, <3>4, <4>1
    <3>11. CASE m >= n
      <4>1. SubSeq(r, 1, n) = f.data /\ SubSeq(r, n + 1, m) = SubSeq(t, 1, m - n)
        <5>1. PICK e : e = f.data
          OBVIOUS
        <5>2. e \in Seq(Byte) /\ Len(e) = n /\ n <= m /\ m <= n + Len(t)
          BY <1>7, <3>1, <3>5, <3>11, <5>1
        <5>3. /\ m \in Nat /\ e \in Seq(Byte) /\ t \in Seq(Byte)
              /\ Len(e) <= m /\ m <= Len(e) + Len(t)
          BY <3>5, <5>2
        <5>4. /\ SubSeq(SubSeq(e \o t, 1, m), 1, Len(e)) = e
              /\ SubSeq(SubSeq(e \o t, 1, m), Len(e) + 1, m) = SubSeq(t, 1, m - Len(e))
          BY ONLY <5>3, CutConcat, Zenon
        <5> QED
          BY ONLY <3>6, <3>8, <5>1, <5>2, <5>4
      <4>2. data = f.data /\ SubSeq(last.rest, n + 1, Len(last.rest)) = SubSeq(t, 1, c - z)
        BY <2>5, <3>1, <3>4, <3>9, <3>11, <4>1
      <4>3. /\ ~(tag > 6) /\ ~(tag = 2 /\ last.ints[3] \notin {Num(0), Num(1)})
            /\ ~(n > Len(last.rest)) /\ ~(tag = 5 /\ ~Utf8(data))
        <5>1. ~(tag > 6) /\ ~(n > Len(last.rest))
          BY <1>7, <2>3, <3>1, <3>9, <3>11
        <5>2. ~(tag = 2 /\ last.ints[3] \notin {Num(0), Num(1)})
          BY <2>3, <3>2, IntsRead, FrameParts
        <5>3. ~(tag = 5 /\ ~Utf8(data))
          BY <2>3, <4>2, FrameParts
        <5> QED
          BY <5>1, <5>2, <5>3
      <4>4. SubSeq(last.ints, 2, Fields(tag) + 1) = f.ints
        BY <2>3, <3>2, IntsRead
      <4>5. Decode(w) = [ok |-> TRUE, frame |-> [tag |-> f.tag, ints |-> f.ints, data |-> f.data],
                         len |-> Num(n), rest |-> SubSeq(t, 1, c - z)]
        BY ONLY <2>3, <2>6, <3>2, <3>3, <3>4, <4>2, <4>3, <4>4, Zenon
      <4>6. f = [tag |-> f.tag, ints |-> f.ints, data |-> f.data] /\ c >= z
        BY <3>1, <3>11, FrameParts
      <4> QED
        BY ONLY <1>1, <1>6, <4>5, <4>6, Zenon
    <3> QED
      BY <1>7, <3>1, <3>10, <3>11
  <2> QED
    BY <1>7, <2>7, <2>8
<1> QED
  BY <1>10, <1>11

-----------------------------------------------------------------------------
(* Induction over the natural numbers, for a set.                          *)

Below == {p \in Nat \X Nat : p[1] < p[2]}

(* The order of the natural numbers, as a relation, is well-founded. *)
LEMMA BelowWellFounded == IsWellFoundedOn(Below, Nat)
BY NatLessThanWellFounded DEF OpToRel, Below

(* A set that holds 0 and, with a number, the next one, holds them all. *)
LEMMA SetInduction ==
    ASSUME NEW S, 0 \in S, \A n \in Nat : n \in S => n + 1 \in S
    PROVE  \A n \in Nat : n \in S
<1> DEFINE T == Nat \ S
<1>1. SUFFICES ASSUME T # {} PROVE FALSE
  OBVIOUS
<1>2. PICK x \in T : \A y \in T : ~(<<y, x>> \in Below)
  <2>1. T \subseteq Nat
    OBVIOUS
  <2> QED
    BY ONLY BelowWellFounded, <2>1, <1>1, WFMin
<1>3. x \in Nat /\ x # 0 /\ x - 1 \in Nat
  BY <1>2
<1>4. <<x - 1, x>> \in Below
  BY <1>3 DEF Below
<1>5. x - 1 \in S
  BY <1>2, <1>3, <1>4
<1> QED
  BY <1>2, <1>3, <1>5

-----------------------------------------------------------------------------
(* EncodeAll and EndOf: folds, unrolled                                    *)

Folded == {"bytes", "length"}
Base(k)       == IF k = "bytes" THEN <<>> ELSE 0
Step(k, x, f) == IF k = "bytes" THEN PutFrame(x, f) ELSE AddLen(x, f)
Fold(k, s)    == IF k = "bytes" THEN EncodeAll(s) ELSE EndOf(s)

(* The function a fold over n frames is taken from. *)
Unrolled(k, s, n, g) ==
    g = [u \in SUBSET (1..n) |->
           IF u = {} THEN Base(k) ELSE Step(k, g[u \ {Max(u)}], s[Max(u)])]

LEMMA MaxOfLast ==
    ASSUME NEW n \in Nat, NEW u \in SUBSET (1..n), n \in u
    PROVE  Max(u) = n
<1>1. \A y \in u : n >= y
  OBVIOUS
<1>2. \A x \in u : (\A y \in u : x >= y) => x = n
  OBVIOUS
<1> QED
  BY <1>1, <1>2 DEF Max

(* The recursion of the fold has a solution. *)
LEMMA UnrolledExists ==
    ASSUME NEW k, NEW s
    PROVE  \A n \in Nat : \E g : Unrolled(k, s, n, g)
<1> DEFINE S == {n \in Nat : \E g : Unrolled(k, s, n, g)}
<1>1. 0 \in S
  <2> DEFINE g0 == [u \in SUBSET (1..0) |-> Base(k)]
  <2>1. \A u \in SUBSET (1..0) : u = {}
    OBVIOUS
  <2>2. Unrolled(k, s, 0, g0)
    BY <2>1 DEF Unrolled
  <2> QED
    BY <2>2
<1>2. ASSUME NEW n \in Nat, n \in S PROVE n + 1 \in S
  <2>1. PICK g : Unrolled(k, s, n, g)
    BY <1>2
  <2> DEFINE h == [u \in SUBSET (1..(n + 1)) |->
                     IF n + 1 \in u THEN Step(k, g[u \ {n + 1}], s[n + 1]) ELSE g[u]]
             R(u) == IF u = {} THEN Base(k) ELSE Step(k, h[u \ {Max(u)}], s[Max(u)])
  <2>2. ASSUME NEW u \in SUBSET (1..(n + 1)) PROVE h[u] = R(u)
    <3>1. CASE n + 1 \in u
      <4>1. Max(u) = n + 1
        BY <3>1, MaxOfLast
      <4>2. h[u \ {n + 1}] = g[u \ {n + 1}]
        OBVIOUS
      <4>3. h[u] = Step(k, g[u \ {n + 1}], s[n + 1])
        BY <3>1
      <4> QED
        BY <3>1, <4>1, <4>2, <4>3
    <3>2. CASE n + 1 \notin u
      <4>1. u \in SUBSET (1..n)
        BY <3>2
      <4>2. h[u] = g[u] /\ h[u \ {Max(u)}] = g[u \ {Max(u)}]
        BY <3>2
      <4>3. g[u] = IF u = {} THEN Base(k) ELSE Step(k, g[u \ {Max(u)}], s[Max(u)])
        BY <2>1, <4>1 DEF Unrolled
      <4> QED
        BY <4>2, <4>3
    <3> QED
      BY <3>1, <3>2
  <2>3. Unrolled(k, s, n + 1, h)
    <3> HIDE DEF R
    <3>1. h = [u \in SUBSET (1..(n + 1)) |-> R(u)]
      BY <2>2
    <3> QED
      BY <3>1 DEF Unrolled, R
  <2> QED
    BY <2>3
<1>3. \A n \in Nat : n \in S
  <2> HIDE DEF S
  <2> QED
    BY <1>1, <1>2, SetInduction
<1> QED
  BY <1>3

(* A trace of a fold: d[i] is what is folded of the first i frames of s. *)
Trace(k, s, n, d) ==
    d[0] = Base(k) /\ \A i \in 1..n : d[i] = Step(k, d[i - 1], s[i])

LEMMA FoldTrace ==
    ASSUME NEW k \in Folded, NEW s, NEW n \in Nat, DOMAIN s = 1..n
    PROVE  \E d : Trace(k, s, n, d) /\ d[n] = Fold(k, s)
<1> DEFINE iter == CHOOSE g : Unrolled(k, s, n, g)
           d == [i \in 0..n |-> iter[1..i]]
<1>1. Unrolled(k, s, n, iter)
  BY UnrolledExists
<1>2. Fold(k, s) = iter[1..n]
  <2>1. CASE k = "bytes"
    BY <2>1 DEF Fold, EncodeAll, FoldLeft, MapThenFoldSet, Unrolled, Base, Step
  <2>2. CASE k = "length"
    BY <2>2 DEF Fold, EndOf, FoldLeft, MapThenFoldSet, Unrolled, Base, Step
  <2> QED
    BY <2>1, <2>2 DEF Folded
<1> HIDE DEF iter
<1>3. d[0] = Base(k)
  BY <1>1 DEF Unrolled
<1>4. ASSUME NEW i \in 1..n PROVE d[i] = Step(k, d[i - 1], s[i])
  <2>1. Max(1..i) = i
    BY MaxOfLast
  <2>2. (1..i) \ {i} = 1..(i - 1) /\ 1..i \in SUBSET (1..n) /\ 1..i # {}
    OBVIOUS
  <2>3. iter[1..i] = Step(k, iter[1..(i - 1)], s[i])
    BY <1>1, <2>1, <2>2 DEF Unrolled
  <2> QED
    BY <2>3
<1>5. Trace(k, s, n, d)
  BY <1>3, <1>4 DEF Trace
<1>6. d[n] = Fold(k, s)
  BY <1>2
<1> HIDE DEF d
<1> QED
  BY <1>5, <1>6

(* Sequences that begin alike have the same trace so far. *)
LEMMA TracesAgree ==
    ASSUME NEW k, NEW n \in Nat, NEW s, NEW r, NEW d, NEW e, Trace(k, s, n, d), Trace(k, r, n, e),
           \A i \in 1..n : s[i] = r[i]
    PROVE  d[n] = e[n]
<1> DEFINE S == {i \in Nat : i <= n => d[i] = e[i]}
<1>1. 0 \in S
  BY DEF Trace
<1>2. ASSUME NEW i \in Nat, i \in S PROVE i + 1 \in S
  <2>1. SUFFICES ASSUME i + 1 <= n PROVE d[i + 1] = e[i + 1]
    OBVIOUS
  <2>2. i + 1 \in 1..n /\ (i + 1) - 1 = i /\ d[i] = e[i]
    BY <1>2, <2>1
  <2> QED
    BY <2>2 DEF Trace
<1>3. \A i \in Nat : i \in S
  <2> HIDE DEF S
  <2> QED
    BY <1>1, <1>2, SetInduction
<1> QED
  BY <1>3

LEMMA TracePrefix ==
    ASSUME NEW k, NEW s, NEW n \in Nat, NEW m \in 0..n, NEW d, Trace(k, s, n, d)
    PROVE  Trace(k, s, m, d)
<1>1. \A i \in 1..m : i \in 1..n
  OBVIOUS
<1> QED
  BY <1>1 DEF Trace

(* What is encoded of the first frames of s, and where it ends. *)
LEMMA FoldOfFirst ==
    ASSUME NEW k \in Folded, NEW S, NEW s \in Seq(S), NEW n \in Nat, n = Len(s), NEW d,
           Trace(k, s, n, d), NEW m \in 0..n
    PROVE  Fold(k, SubSeq(s, 1, m)) = d[m]
<1>1. PICK r : r = SubSeq(s, 1, m)
  OBVIOUS
<1>2. r \in Seq(S) /\ Len(r) = m /\ \A i \in 1..m : r[i] = s[i]
  <2>1. m \in Nat /\ m <= Len(s)
    OBVIOUS
  <2> QED
    BY ONLY <1>1, <2>1, s \in Seq(S), Beginning
<1>3. DOMAIN r = 1..m /\ m \in Nat
  BY <1>2
<1>4. PICK e : Trace(k, r, m, e) /\ e[m] = Fold(k, r)
  BY <1>3, FoldTrace
<1>5. Trace(k, s, m, d)
  BY TracePrefix
<1>6. d[m] = e[m]
  BY ONLY <1>2, <1>3, <1>4, <1>5, TracesAgree
<1> QED
  BY <1>1, <1>4, <1>6

-----------------------------------------------------------------------------
(* Batches of frames                                                       *)

(* A batch grows by one frame at a time: bytes d[m] and length e[m] of the   *)
(* first m frames of s.                                                      *)
Growing(s, n, d, e) ==
    /\ d[0] = <<>> /\ e[0] = 0
    /\ \A m \in 1..n : d[m] = d[m - 1] \o Encode(s[m]) /\ e[m] = e[m - 1] + EncodedLen(s[m])
    /\ \A m \in 0..n : d[m] = EncodeAll(SubSeq(s, 1, m)) /\ e[m] = EndOf(SubSeq(s, 1, m))

LEMMA Grows ==
    ASSUME NEW s \in Seq(FrameShapes), NEW n \in Nat, n = Len(s)
    PROVE  \E d, e : Growing(s, n, d, e)
<1>1. DOMAIN s = 1..n
  OBVIOUS
<1>2. "bytes" \in Folded /\ "length" \in Folded
  BY DEF Folded
<1>3. PICK d : Trace("bytes", s, n, d)
  BY <1>1, <1>2, FoldTrace
<1>4. PICK e : Trace("length", s, n, e)
  BY <1>1, <1>2, FoldTrace
<1>5. d[0] = <<>> /\ \A m \in 1..n : d[m] = d[m - 1] \o Encode(s[m])
  BY <1>3 DEF Trace, Base, Step, PutFrame
<1>6. e[0] = 0 /\ \A m \in 1..n : e[m] = e[m - 1] + EncodedLen(s[m])
  BY <1>4 DEF Trace, Base, Step, AddLen
<1>7. \A m \in 0..n : Fold("bytes", SubSeq(s, 1, m)) = d[m]
  BY ONLY <1>2, <1>3, s \in Seq(FrameShapes), n \in Nat, n = Len(s), FoldOfFirst
<1>8. \A m \in 0..n : Fold("length", SubSeq(s, 1, m)) = e[m]
  BY ONLY <1>2, <1>4, s \in Seq(FrameShapes), n \in Nat, n = Len(s), FoldOfFirst
<1>9. \A m \in 0..n : d[m] = EncodeAll(SubSeq(s, 1, m)) /\ e[m] = EndOf(SubSeq(s, 1, m))
  BY <1>7, <1>8 DEF Fold
<1>10. Growing(s, n, d, e)
  BY ONLY <1>5, <1>6, <1>9, Zenon DEF Growing
<1> QED
  BY <1>10

(* The encoding of a batch is as long as the lengths of its frames say. *)
LEMMA GrownLength ==
    ASSUME NEW s \in Seq(FrameShapes), NEW n \in Nat, n = Len(s), NEW d, NEW e,
           Growing(s, n, d, e)
    PROVE  \A m \in 0..n : d[m] \in Bytes /\ e[m] \in Nat /\ Len(d[m]) = e[m]
<1> DEFINE S == {m \in Nat : m <= n => d[m] \in Bytes /\ e[m] \in Nat /\ Len(d[m]) = e[m]}
<1>1. 0 \in S
  <2>1. <<>> \in Bytes /\ Len(<<>>) = 0
    BY DEF Bytes
  <2> QED
    BY <2>1 DEF Growing
<1>2. ASSUME NEW m \in Nat, m \in S PROVE m + 1 \in S
  <2>1. SUFFICES ASSUME m + 1 <= n
                 PROVE  d[m + 1] \in Bytes /\ e[m + 1] \in Nat /\ Len(d[m + 1]) = e[m + 1]
    OBVIOUS
  <2>2. m + 1 \in 1..n /\ (m + 1) - 1 = m /\ d[m] \in Bytes /\ e[m] \in Nat /\ Len(d[m]) = e[m]
    BY <1>2, <2>1
  <2>3. PICK f : f = s[m + 1]
    OBVIOUS
  <2>4. f \in FrameShapes
    BY <2>2, <2>3
  <2>5. d[m + 1] = d[m] \o Encode(f) /\ e[m + 1] = e[m] + EncodedLen(f)
    BY <2>2, <2>3 DEF Growing
  <2>6. Encode(f) \in Bytes /\ Len(Encode(f)) = EncodedLen(f) /\ EncodedLen(f) \in Nat
    <3>1. <<>> \in Bytes
      BY DEF Bytes
    <3> QED
      BY ONLY <2>4, <3>1, EncodedFrame
  <2>7. /\ Cat(d[m], Encode(f)) \in Bytes
        /\ Len(Cat(d[m], Encode(f))) = Len(d[m]) + Len(Encode(f))
    BY ONLY <2>2, <2>6, CatBytes
  <2> QED
    BY ONLY <2>2, <2>5, <2>6, <2>7 DEF Cat
<1>3. \A m \in Nat : m \in S
  <2> HIDE DEF S
  <2> QED
    BY <1>1, <1>2, SetInduction
<1> QED
  BY <1>3

(* What is encoded first stays in front. *)
LEMMA GrownPrefix ==
    ASSUME NEW s \in Seq(FrameShapes), NEW n \in Nat, n = Len(s), NEW d, NEW e,
           Growing(s, n, d, e), NEW k \in 0..n
    PROVE  \E t \in Bytes : d[n] = Cat(d[k], t)
<1> DEFINE S == {m \in Nat : k + m <= n => \E t \in Bytes : d[k + m] = Cat(d[k], t)}
<1>1. d[k] \in Bytes
  BY GrownLength
<1>2. 0 \in S
  <2>1. <<>> \in Bytes /\ d[k] \in Seq(Byte)
    BY <1>1 DEF Bytes
  <2>2. d[k] \o <<>> = d[k]
    BY ONLY <2>1, ConcatEmptySeq
  <2>3. k + 0 = k /\ d[k] = Cat(d[k], <<>>)
    BY <2>2 DEF Cat
  <2> QED
    BY <2>1, <2>3
<1>3. ASSUME NEW m \in Nat, m \in S PROVE m + 1 \in S
  <2>1. SUFFICES ASSUME k + (m + 1) <= n
                 PROVE  \E t \in Bytes : d[k + (m + 1)] = Cat(d[k], t)
    OBVIOUS
  <2>2. PICK t \in Bytes : d[k + m] = Cat(d[k], t)
    BY <1>3, <2>1
  <2>3. PICK f : f = s[k + (m + 1)]
    OBVIOUS
  <2>4. k + (m + 1) \in 1..n /\ (k + (m + 1)) - 1 = k + m
    BY <2>1
  <2>5. f \in FrameShapes
    BY <2>3, <2>4
  <2>6. d[k + (m + 1)] = Cat(d[k + m], Encode(f))
    BY <2>3, <2>4 DEF Growing, Cat
  <2>7. Encode(f) \in Bytes
    BY ONLY <2>2, <2>5, EncodedFrame
  <2>8. d[k + (m + 1)] = Cat(d[k], Cat(t, Encode(f)))
    BY ONLY <1>1, <2>2, <2>6, <2>7, CatAssociative
  <2>9. Cat(t, Encode(f)) \in Bytes
    BY ONLY <2>2, <2>7, CatBytes
  <2> QED
    BY ONLY <2>8, <2>9
<1>4. \A m \in Nat : m \in S
  <2> HIDE DEF S
  <2> QED
    BY <1>2, <1>3, SetInduction
<1>5. n - k \in Nat /\ k + (n - k) = n
  OBVIOUS
<1> QED
  BY <1>4, <1>5

LEMMA Whole ==
    ASSUME NEW S, NEW s \in Seq(S), NEW n \in Nat, n = Len(s)
    PROVE  SubSeq(s, 1, n) = s
<1>1. PICK r : r = SubSeq(s, 1, n)
  OBVIOUS
<1>2. r \in Seq(S) /\ Len(r) = n /\ \A i \in 1..n : r[i] = s[i]
  BY <1>1, Beginning
<1> QED
  BY <1>1, <1>2, SameSeq

LEMMA BatchBytes ==
    ASSUME NEW s \in Seq(FrameShapes)
    PROVE  EncodeAll(s) \in Bytes /\ EndOf(s) \in Nat /\ Len(EncodeAll(s)) = EndOf(s)
<1>1. PICK n \in Nat : n = Len(s)
  OBVIOUS
<1>2. PICK d, e : Growing(s, n, d, e)
  BY <1>1, Grows
<1>3. n \in 0..n /\ d[n] \in Bytes /\ e[n] \in Nat /\ Len(d[n]) = e[n]
  BY <1>1, <1>2, GrownLength
<1>4. d[n] = EncodeAll(SubSeq(s, 1, n)) /\ e[n] = EndOf(SubSeq(s, 1, n))
  BY <1>2, <1>3 DEF Growing
<1>5. SubSeq(s, 1, n) = s
  BY <1>1, Whole
<1> QED
  BY <1>3, <1>4, <1>5

LEMMA EmptyBatch == EncodeAll(<<>>) = <<>> /\ EndOf(<<>>) = 0
<1>1. <<>> \in Seq(FrameShapes) /\ 0 \in Nat /\ 0 = Len(<<>>) /\ 0 \in 0..0
  OBVIOUS
<1>2. PICK d, e : Growing(<<>>, 0, d, e)
  BY <1>1, Grows
<1>3. SubSeq(<<>>, 1, 0) = <<>>
  OBVIOUS
<1> QED
  BY <1>1, <1>2, <1>3 DEF Growing

(* A batch s is the encoding of its first frames, p, and what follows, and   *)
(* the next frame f comes first in what follows.                             *)
SplitAt(s, p, f, q) ==
    /\ EncodeAll(p) \in Bytes /\ Len(EncodeAll(p)) = EndOf(p) /\ EndOf(p) \in Nat
    /\ EncodeAll(q) = Cat(EncodeAll(p), Encode(f))
    /\ EndOf(q) = EndOf(p) + EncodedLen(f)
    /\ \E t \in Bytes : EncodeAll(s) = Cat(EncodeAll(q), t)

LEMMA Split ==
    ASSUME NEW s \in Seq(FrameShapes), NEW m \in Nat, m < Len(s)
    PROVE  SplitAt(s, SubSeq(s, 1, m), s[m + 1], SubSeq(s, 1, m + 1))
<1> DEFINE f == s[m + 1]
           p == SubSeq(s, 1, m)
           q == SubSeq(s, 1, m + 1)
<1>1. PICK n \in Nat : n = Len(s)
  OBVIOUS
<1>2. PICK d, e : Growing(s, n, d, e)
  BY <1>1, Grows
<1>3. m \in 0..n /\ m + 1 \in 0..n /\ m + 1 \in 1..n /\ (m + 1) - 1 = m /\ n \in 0..n
  BY <1>1
<1>4. d[m] \in Bytes /\ e[m] \in Nat /\ Len(d[m]) = e[m]
  BY <1>1, <1>2, <1>3, GrownLength
<1>5. /\ d[m] = EncodeAll(p) /\ e[m] = EndOf(p) /\ d[m + 1] = EncodeAll(q) /\ e[m + 1] = EndOf(q)
      /\ d[n] = EncodeAll(SubSeq(s, 1, n))
  BY <1>2, <1>3 DEF Growing
<1>6. d[m + 1] = Cat(d[m], Encode(f)) /\ e[m + 1] = e[m] + EncodedLen(f)
  BY <1>2, <1>3 DEF Growing, Cat
<1>7. PICK t \in Bytes : d[n] = Cat(d[m + 1], t)
  <2>1. PICK k \in 0..n : k = m + 1
    BY <1>3
  <2>2. \E t \in Bytes : d[n] = Cat(d[k], t)
    BY <1>1, <1>2, GrownPrefix
  <2> QED
    BY ONLY <2>1, <2>2, Zenon
<1>8. SubSeq(s, 1, n) = s
  BY <1>1, Whole
<1> QED
  <2> HIDE DEF f, p, q
  <2>1. SplitAt(s, p, f, q)
    BY ONLY <1>4, <1>5, <1>6, <1>7, <1>8, Zenon DEF SplitAt
  <2> QED
    BY ONLY <2>1 DEF f, p, q

-----------------------------------------------------------------------------
(* The inductive invariant: what is left of the message begins where, by    *)
(* encoded_len, the frames decoded so far end.                              *)

Decoded ==
    /\ sent \in Seq(FrameShapes) /\ cut \in Nat /\ cut <= EndOf(sent)
    /\ Len(got) \in Nat /\ Len(got) <= Len(sent) /\ got = SubSeq(sent, 1, Len(got))
    /\ EndOf(got) <= cut
    /\ msg = SubSeq(SubSeq(EncodeAll(sent), 1, cut), EndOf(got) + 1, cut)

IInv == cut >= 0 => Decoded /\ RejectedIffCut

(* What is left of the message, when frames remain and when none does. *)
LEMMA LeftToDecode ==
    ASSUME Decoded
    PROVE  /\ EndOf(got) \in Nat /\ msg \in Bytes /\ Len(msg) = cut - EndOf(got)
           /\ Len(got) = Len(sent) => cut = EndOf(got)
<1>1. EncodeAll(sent) \in Bytes /\ EndOf(sent) \in Nat /\ Len(EncodeAll(sent)) = EndOf(sent)
  BY BatchBytes DEF Decoded
<1>2. PICK r : r = SubSeq(EncodeAll(sent), 1, cut)
  OBVIOUS
<1>3. r \in Seq(Byte) /\ Len(r) = cut
  <2>1. EncodeAll(sent) \in Seq(Byte) /\ cut \in Nat /\ cut <= Len(EncodeAll(sent))
    BY <1>1 DEF Decoded, Bytes
  <2> QED
    BY ONLY <1>2, <2>1, Beginning
<1>4. got \in Seq(FrameShapes)
  <2>1. PICK k : k = Len(got)
    OBVIOUS
  <2>2. k \in Nat /\ k <= Len(sent) /\ sent \in Seq(FrameShapes) /\ got = SubSeq(sent, 1, k)
    BY <2>1 DEF Decoded
  <2> QED
    BY ONLY <2>2, Beginning
<1>5. EndOf(got) \in Nat
  BY <1>4, BatchBytes
<1>6. PICK k, m : k = EndOf(got) /\ m = msg
  OBVIOUS
<1>7. k \in Nat /\ k <= cut /\ cut \in Nat /\ m = SubSeq(r, k + 1, cut)
  BY <1>2, <1>5, <1>6 DEF Decoded
<1>8. m \in Seq(Byte) /\ Len(m) = cut - k
  <2>1. cut <= Len(r)
    BY <1>3, <1>7
  <2> QED
    BY ONLY <1>3, <1>7, <2>1, Slice
<1>9. Len(got) = Len(sent) => cut = EndOf(got)
  <2>1. SUFFICES ASSUME Len(got) = Len(sent) PROVE cut = EndOf(got)
    OBVIOUS
  <2>2. got = sent
    <3>1. sent \in Seq(FrameShapes) /\ Len(sent) \in Nat /\ got = SubSeq(sent, 1, Len(sent))
      BY <2>1 DEF Decoded
    <3> QED
      BY ONLY <3>1, Whole
  <2> QED
    BY <1>1, <2>2 DEF Decoded
<1> QED
  BY <1>5, <1>6, <1>8, <1>9 DEF Bytes

(* The next frame is at the front of what is left. *)
LEMMA NextFrame ==
    ASSUME Decoded, Len(got) < Len(sent), NEW f, f = sent[Len(got) + 1],
           NEW q, q = SubSeq(sent, 1, Len(got) + 1)
    PROVE  /\ f \in FrameShapes /\ q = Append(got, f)
           /\ EndOf(q) = EndOf(got) + EncodedLen(f) /\ EndOf(q) \in Nat /\ EncodedLen(f) \in Nat
           /\ \E t \in Bytes :
                /\ cut <= EndOf(q) + Len(t)
                /\ msg = SubSeq(Encode(f) \o t, 1, cut - EndOf(got))
                /\ EndOf(q) <= cut =>
                     SubSeq(SubSeq(EncodeAll(sent), 1, cut), EndOf(q) + 1, cut)
                       = SubSeq(t, 1, cut - EndOf(q))
<1>1. PICK n, p, a, z : n = Len(got) /\ p = got /\ a = EndOf(got) /\ z = EndOf(q)
  OBVIOUS
<1>2. /\ sent \in Seq(FrameShapes) /\ n \in Nat /\ n < Len(sent) /\ f = sent[n + 1]
      /\ p = SubSeq(sent, 1, n) /\ q = SubSeq(sent, 1, n + 1)
  BY <1>1 DEF Decoded
<1>3. f \in FrameShapes
  BY ONLY <1>2
<1>4. /\ EncodeAll(p) \in Bytes /\ Len(EncodeAll(p)) = EndOf(p) /\ EndOf(p) \in Nat
      /\ EncodeAll(q) = Cat(EncodeAll(p), Encode(f))
      /\ EndOf(q) = EndOf(p) + EncodedLen(f)
      /\ \E t \in Bytes : EncodeAll(sent) = Cat(EncodeAll(q), t)
  <2>1. SplitAt(sent, SubSeq(sent, 1, n), sent[n + 1], SubSeq(sent, 1, n + 1))
    BY <1>2, Split
  <2>2. SplitAt(sent, p, f, q)
    BY ONLY <1>2, <2>1, Zenon
  <2> QED
    BY ONLY <2>2, Zenon DEF SplitAt
<1>5. PICK t \in Bytes : EncodeAll(sent) = Cat(EncodeAll(q), t)
  BY <1>4
<1>6. PICK P, Q, F, E : P = EncodeAll(p) /\ Q = EncodeAll(q) /\ F = Encode(f) /\ E = EncodeAll(sent)
  OBVIOUS
<1>7. F \in Bytes /\ Len(F) = EncodedLen(f) /\ EncodedLen(f) \in Nat
  BY ONLY <1>3, <1>5, <1>6, EncodedFrame
<1>8. P \in Bytes /\ Len(P) = a /\ a \in Nat /\ z = a + EncodedLen(f) /\ z \in Nat
  BY <1>1, <1>4, <1>6, <1>7
<1>9. Q = Cat(P, F) /\ E = Cat(Q, t)
  BY ONLY <1>4, <1>5, <1>6, Zenon
<1>10. Q \in Bytes /\ Len(Q) = z /\ Cat(F, t) \in Bytes /\ Len(Cat(F, t)) = Len(F) + Len(t)
  BY <1>7, <1>8, <1>9, CatBytes
<1>11. E = Cat(P, Cat(F, t))
  BY <1>7, <1>8, <1>9, CatAssociative
<1>12. Len(E) = z + Len(t) /\ Len(t) \in Nat /\ cut <= Len(E) /\ cut \in Nat /\ a <= cut
  <2>1. Len(E) = Len(Q) + Len(t)
    BY ONLY <1>5, <1>9, <1>10, CatBytes
  <2>2. Len(t) \in Nat
    BY DEF Bytes
  <2>3. Len(E) = EndOf(sent)
    BY <1>2, <1>6, BatchBytes
  <2> QED
    BY <1>1, <1>10, <2>1, <2>2, <2>3 DEF Decoded
<1>13. msg = SubSeq(F \o t, 1, cut - a)
  <2>1. PICK y : y = Cat(F, t)
    OBVIOUS
  <2>2. /\ P \in Seq(Byte) /\ y \in Seq(Byte) /\ cut \in Nat /\ Len(P) <= cut
        /\ cut <= Len(P) + Len(y)
    BY <1>7, <1>8, <1>10, <1>12, <2>1 DEF Bytes
  <2>3. SubSeq(SubSeq(P \o y, 1, cut), Len(P) + 1, cut) = SubSeq(y, 1, cut - Len(P))
    BY ONLY <2>2, CutConcat
  <2>4. P \o y = E
    BY ONLY <1>11, <2>1, Zenon DEF Cat
  <2>5. msg = SubSeq(SubSeq(E, 1, cut), a + 1, cut)
    BY <1>1, <1>6 DEF Decoded
  <2>6. y = F \o t
    BY ONLY <2>1, Zenon DEF Cat
  <2> QED
    BY ONLY <1>8, <2>3, <2>4, <2>5, <2>6, Zenon
<1>14. z <= cut => SubSeq(SubSeq(E, 1, cut), z + 1, cut) = SubSeq(t, 1, cut - z)
  <2>1. SUFFICES ASSUME z <= cut PROVE SubSeq(SubSeq(E, 1, cut), z + 1, cut) = SubSeq(t, 1, cut - z)
    OBVIOUS
  <2>2. /\ Q \in Seq(Byte) /\ t \in Seq(Byte) /\ cut \in Nat /\ Len(Q) <= cut
        /\ cut <= Len(Q) + Len(t)
    BY <1>5, <1>10, <1>12, <2>1 DEF Bytes
  <2>3. SubSeq(SubSeq(Q \o t, 1, cut), Len(Q) + 1, cut) = SubSeq(t, 1, cut - Len(Q))
    BY ONLY <2>2, CutConcat
  <2>4. Q \o t = E
    BY ONLY <1>9, Zenon DEF Cat
  <2> QED
    BY ONLY <1>10, <2>3, <2>4, Zenon
<1>15. q = Append(got, f)
  <2>1. n + 1 \in Nat /\ n + 1 <= Len(sent) /\ n <= Len(sent)
    BY <1>2
  <2>2. q \in Seq(FrameShapes) /\ Len(q) = n + 1 /\ \A i \in 1..(n + 1) : q[i] = sent[i]
    BY ONLY <1>2, <2>1, Beginning
  <2>3. p \in Seq(FrameShapes) /\ Len(p) = n /\ \A i \in 1..n : p[i] = sent[i]
    BY ONLY <1>2, <2>1, Beginning
  <2>4. PICK r : r = Append(p, f)
    OBVIOUS
  <2>5. /\ r \in Seq(FrameShapes) /\ Len(r) = n + 1 /\ r[n + 1] = f
        /\ \A i \in 1..n : r[i] = p[i]
    BY ONLY <1>2, <1>3, <2>3, <2>4, Appended
  <2>6. \A i \in 1..(n + 1) : q[i] = r[i]
    <3>1. SUFFICES ASSUME NEW i \in 1..(n + 1) PROVE q[i] = r[i]
      OBVIOUS
    <3>2. i \in 1..n \/ i = n + 1
      BY <1>2
    <3> QED
      BY <1>2, <2>2, <2>3, <2>5, <3>2
  <2>7. q = r
    BY ONLY <2>1, <2>2, <2>5, <2>6, SameSeq
  <2> QED
    BY <1>1, <2>4, <2>7
<1>16. cut <= z + Len(t)
  BY <1>12
<1> QED
  BY ONLY <1>1, <1>3, <1>5, <1>6, <1>7, <1>8, <1>13, <1>14, <1>15, <1>16, Zenon

LEMMA InitDecoded == Init => IInv
<1>1. SUFFICES ASSUME Init, cut >= 0 PROVE Decoded /\ RejectedIffCut
  BY DEF IInv
<1>2. /\ got = <<>> /\ status = "reading" /\ sent \in SeqOf(Frames, MaxFrames)
      /\ cut \in 0..Len(EncodeAll(sent)) /\ msg = SubSeq(EncodeAll(sent), 1, cut)
  BY <1>1 DEF Init
<1>3. sent \in Seq(FrameShapes)
  <2>1. PICK m \in 0..MaxFrames : sent \in [1..m -> Frames]
    BY <1>2 DEF SeqOf
  <2>2. m \in Nat /\ sent \in [1..m -> FrameShapes]
    BY <2>1, UsizeAssumption, FramesAssumption
  <2> QED
    BY ONLY <2>2, FunctionSeq
<1>4. EncodeAll(sent) \in Seq(Byte) /\ EndOf(sent) \in Nat /\ Len(EncodeAll(sent)) = EndOf(sent)
  BY <1>3, BatchBytes DEF Bytes
<1>5. cut \in Nat /\ cut <= Len(EncodeAll(sent))
  BY <1>2, <1>4
<1>6. SubSeq(msg, 1, cut) = msg
  <2>1. PICK r : r = msg
    OBVIOUS
  <2>2. r \in Seq(Byte) /\ Len(r) = cut
    <3>1. r = SubSeq(EncodeAll(sent), 1, cut)
      BY <1>2, <2>1
    <3> QED
      BY ONLY <1>4, <1>5, <3>1, Beginning
  <2>3. SubSeq(r, 1, cut) = r
    BY ONLY <1>5, <2>2, Whole
  <2> QED
    BY <2>1, <2>3
<1>7. EndOf(got) = 0 /\ EndOf(got) + 1 = 1 /\ EndOf(got) <= cut
  BY <1>2, <1>5, EmptyBatch
<1>8. msg = SubSeq(SubSeq(EncodeAll(sent), 1, cut), EndOf(got) + 1, cut)
  BY <1>2, <1>6, <1>7
<1>9. /\ Len(got) \in Nat /\ Len(got) <= Len(sent) /\ got = SubSeq(sent, 1, Len(got))
  BY <1>2, <1>3
<1>10. cut <= EndOf(sent)
  BY <1>4, <1>5
<1>11. Decoded
  BY ONLY <1>3, <1>5, <1>7, <1>8, <1>9, <1>10 DEF Decoded
<1>12. RejectedIffCut
  BY <1>2 DEF RejectedIffCut
<1> QED
  BY <1>11, <1>12

(* What Decode returns: the next frame sent, if all of it has arrived. *)
LEMMA DecodeLeft ==
    ASSUME Decoded, msg # <<>>, NEW f, f = sent[Len(got) + 1],
           NEW q, q = SubSeq(sent, 1, Len(got) + 1), NEW d, d = Decode(msg)
    PROVE  /\ Len(got) < Len(sent) /\ EndOf(got) < cut /\ q = Append(got, f)
           /\ EndOf(got) \in Nat /\ EndOf(q) \in Nat
           /\ cut >= EndOf(q) =>
                /\ d.ok /\ d.frame = f /\ d.len = Num(Len(f.data))
                /\ d.rest = SubSeq(SubSeq(EncodeAll(sent), 1, cut), EndOf(q) + 1, cut)
           /\ cut < EndOf(q) => ~d.ok
<1>1. EndOf(got) \in Nat /\ msg \in Bytes /\ Len(msg) = cut - EndOf(got)
  BY LeftToDecode
<1>2. cut \in Nat /\ Len(got) \in Nat /\ Len(sent) \in Nat /\ Len(got) <= Len(sent)
      /\ EndOf(got) <= cut
  BY DEF Decoded
<1>3. EndOf(got) < cut
  <2>1. Len(msg) # 0 /\ Len(msg) \in Nat
    BY <1>1 DEF Bytes
  <2> QED
    BY ONLY <1>1, <1>2, <2>1
<1>4. Len(got) < Len(sent)
  <2>1. Len(got) # Len(sent)
    BY <1>1, <1>2, <1>3, LeftToDecode
  <2> QED
    BY <1>2, <2>1
<1>5. /\ f \in FrameShapes /\ q = Append(got, f)
      /\ EndOf(q) = EndOf(got) + EncodedLen(f) /\ EndOf(q) \in Nat /\ EncodedLen(f) \in Nat
  BY <1>4, NextFrame
<1>6. PICK t \in Bytes :
        /\ cut <= EndOf(q) + Len(t)
        /\ msg = SubSeq(Encode(f) \o t, 1, cut - EndOf(got))
        /\ EndOf(q) <= cut =>
             SubSeq(SubSeq(EncodeAll(sent), 1, cut), EndOf(q) + 1, cut)
               = SubSeq(t, 1, cut - EndOf(q))
  BY <1>4, NextFrame
<1>7. PICK c \in Nat : c = cut - EndOf(got)
  BY <1>1, <1>2, <1>3
<1>8. c <= EncodedLen(f) + Len(t) /\ (c >= EncodedLen(f) <=> cut >= EndOf(q))
       /\ (cut >= EndOf(q) => c - EncodedLen(f) = cut - EndOf(q))
  <2>1. Len(t) \in Nat
    BY DEF Bytes
  <2>2. cut <= EndOf(q) + Len(t)
    BY <1>6
  <2>3. EndOf(q) = EndOf(got) + EncodedLen(f) /\ EndOf(got) \in Nat /\ EncodedLen(f) \in Nat
    BY <1>1, <1>5
  <2>4. cut \in Nat
    BY <1>2
  <2> QED
    BY ONLY <1>7, <2>1, <2>2, <2>3, <2>4
<1>9. d = IF c >= EncodedLen(f)
           THEN [ok |-> TRUE, frame |-> f, len |-> Num(Len(f.data)),
                 rest |-> SubSeq(t, 1, c - EncodedLen(f))]
           ELSE [ok |-> FALSE]
  <2>1. Decode(SubSeq(Encode(f) \o t, 1, c))
          = IF c >= EncodedLen(f)
            THEN [ok |-> TRUE, frame |-> f, len |-> Num(Len(f.data)),
                  rest |-> SubSeq(t, 1, c - EncodedLen(f))]
            ELSE [ok |-> FALSE]
    BY <1>5, <1>8, DecodeFrame
  <2>2. msg = SubSeq(Encode(f) \o t, 1, c)
    BY <1>6, <1>7
  <2> QED
    BY ONLY d = Decode(msg), <2>1, <2>2, Zenon
<1>10. ASSUME cut >= EndOf(q)
       PROVE  /\ d.ok /\ d.frame = f /\ d.len = Num(Len(f.data))
              /\ d.rest = SubSeq(SubSeq(EncodeAll(sent), 1, cut), EndOf(q) + 1, cut)
  <2>1. d.ok /\ d.frame = f /\ d.len = Num(Len(f.data)) /\ d.rest = SubSeq(t, 1, cut - EndOf(q))
    <3>1. c >= EncodedLen(f) /\ c - EncodedLen(f) = cut - EndOf(q)
      BY <1>8, <1>10
    <3>2. d = [ok |-> TRUE, frame |-> f, len |-> Num(Len(f.data)),
               rest |-> SubSeq(t, 1, cut - EndOf(q))]
      BY ONLY <1>9, <3>1
    <3> QED
      BY ONLY <3>2
  <2> QED
    BY <1>2, <1>5, <1>6, <1>10, <2>1
<1>11. ASSUME cut < EndOf(q) PROVE ~d.ok
  BY <1>2, <1>5, <1>8, <1>9, <1>11
<1> QED
  BY <1>1, <1>3, <1>4, <1>5, <1>10, <1>11

LEMMA DecodeNextDecoded ==
    ASSUME Decoded, RejectedIffCut, DecodeNext
    PROVE  Decoded' /\ RejectedIffCut'
<1>1. status = "reading" /\ msg # <<>> /\ sent' = sent /\ cut' = cut
  BY DEF DecodeNext
<1>2. PICK f, q, d : f = sent[Len(got) + 1] /\ q = SubSeq(sent, 1, Len(got) + 1) /\ d = Decode(msg)
  OBVIOUS
<1>3. /\ Len(got) < Len(sent) /\ EndOf(got) < cut /\ q = Append(got, f)
      /\ EndOf(got) \in Nat /\ EndOf(q) \in Nat
  BY <1>1, <1>2, DecodeLeft
<1>4. /\ sent \in Seq(FrameShapes) /\ cut \in Nat /\ cut <= EndOf(sent) /\ Len(got) \in Nat
  BY DEF Decoded
<1>5. CASE cut >= EndOf(q)
  <2>1. /\ d.ok /\ d.frame = f
        /\ d.rest = SubSeq(SubSeq(EncodeAll(sent), 1, cut), EndOf(q) + 1, cut)
    BY <1>1, <1>2, <1>5, DecodeLeft
  <2>2. msg' = d.rest /\ got' = Append(got, d.frame) /\ status' = status
    BY ONLY DecodeNext, <1>2, <2>1 DEF DecodeNext
  <2>3. got' = q /\ status' = "reading"
    BY ONLY <1>1, <1>3, <2>1, <2>2
  <2>4. Len(q) = Len(got) + 1
    <3>1. PICK n \in Nat : n = Len(got) + 1 /\ n <= Len(sent) /\ q = SubSeq(sent, 1, n)
      BY <1>2, <1>3, <1>4
    <3>2. Len(q) = n
      BY ONLY <1>4, <3>1, Beginning
    <3> QED
      BY <3>1, <3>2
  <2>5. Len(q) \in Nat /\ Len(q) <= Len(sent) /\ q = SubSeq(sent, 1, Len(q)) /\ EndOf(q) <= cut
    BY <1>2, <1>3, <1>4, <1>5, <2>4
  <2>6. Decoded'
    BY ONLY <1>1, <1>4, <2>1, <2>2, <2>3, <2>5 DEF Decoded
  <2>7. RejectedIffCut'
    BY ONLY <2>3 DEF RejectedIffCut
  <2> QED
    BY <2>6, <2>7
<1>6. CASE cut < EndOf(q)
  <2>1. ~d.ok
    BY <1>1, <1>2, <1>6, DecodeLeft
  <2>2. status' = "error" /\ msg' = msg /\ got' = got
    BY ONLY DecodeNext, <1>2, <2>1 DEF DecodeNext
  <2>3. Decoded'
    BY ONLY <1>1, <2>2, Decoded DEF Decoded
  <2>4. got # sent
    BY <1>3, <1>4
  <2>5. RejectedIffCut'
    BY ONLY <1>1, <1>2, <1>3, <1>4, <1>6, <2>2, <2>4 DEF RejectedIffCut
  <2> QED
    BY <2>3, <2>5
<1> QED
  BY <1>3, <1>4, <1>5, <1>6

LEMMA MessageDoneDecoded ==
    ASSUME Decoded, RejectedIffCut, MessageDone
    PROVE  Decoded' /\ RejectedIffCut'
<1>1. msg = <<>> /\ status' = "done" /\ UNCHANGED <<sent, cut, msg, got, lens>>
  BY DEF MessageDone
<1>2. cut = EndOf(got)
  <2>1. EndOf(got) \in Nat /\ Len(msg) = cut - EndOf(got) /\ cut \in Nat
    BY LeftToDecode DEF Decoded
  <2>2. Len(msg) = 0
    BY <1>1
  <2> QED
    BY ONLY <2>1, <2>2
<1>3. Decoded'
  BY ONLY <1>1, Decoded DEF Decoded
<1>4. RejectedIffCut'
  BY ONLY <1>1, <1>2 DEF RejectedIffCut
<1> QED
  BY <1>3, <1>4

LEMMA NextDecoded == IInv /\ [Next]_vars => IInv'
<1>1. SUFFICES ASSUME IInv, [Next]_vars, (cut >= 0)' PROVE Decoded' /\ RejectedIffCut'
  BY DEF IInv
<1>2. cut' = cut
  BY <1>1 DEF Next, DecodeNext, MessageDone, vars
<1>3. Decoded /\ RejectedIffCut
  BY <1>1, <1>2 DEF IInv
<1>4. CASE DecodeNext
  BY <1>3, <1>4, DecodeNextDecoded
<1>5. CASE MessageDone
  BY <1>3, <1>5, MessageDoneDecoded
<1>6. CASE UNCHANGED vars
  BY <1>3, <1>6 DEF vars, Decoded, RejectedIffCut
<1> QED
  BY <1>1, <1>4, <1>5, <1>6 DEF Next

LEMMA Inductive == Spec => []IInv
<1>1. Init => IInv
  BY InitDecoded
<1>2. IInv /\ [Next]_vars => IInv'
  BY NextDecoded
<1> QED
  BY <1>1, <1>2, PTL DEF Spec

(* For every batch of frames, of whatever fields, data and number, cut at     *)
(* any byte, what Frame::decode_from_bytes returns turn by turn is the frames *)
(* that Frame::encode wrote, in order.                                        *)
THEOREM DecodesWhatWasSent == Spec => []DecodedAsSent
<1>1. IInv => DecodedAsSent
  <2>1. SUFFICES ASSUME Decoded PROVE IsPrefix(got, sent)
    BY DEF IInv, DecodedAsSent
  <2>2. /\ sent \in Seq(FrameShapes) /\ Len(got) \in Nat /\ Len(got) <= Len(sent)
        /\ got = SubSeq(sent, 1, Len(got))
    BY <2>1 DEF Decoded
  <2>3. PICK n, g : n = Len(got) /\ g = got
    OBVIOUS
  <2>4. g \in Seq(FrameShapes) /\ Len(g) = n /\ n \in Nat
    <3>1. n \in Nat /\ n <= Len(sent) /\ g = SubSeq(sent, 1, n)
      BY <2>2, <2>3
    <3> QED
      BY ONLY <2>2, <3>1, Beginning
  <2>5. SubSeq(g, 1, n) = g
    BY ONLY <2>4, Whole
  <2> QED
    BY <2>2, <2>3, <2>5 DEF IsPrefix
<1> QED
  BY <1>1, Inductive, PTL

(* And the message is rejected exactly when it ends inside a frame, where the *)
(* frames end being the sum of their Frame::encoded_len.                      *)
THEOREM RejectsExactlyCuts == Spec => []RejectedIffCut
<1>1. IInv => RejectedIffCut
  BY DEF IInv, RejectedIffCut
<1> QED
  BY <1>1, Inductive, PTL

=============================================================================
