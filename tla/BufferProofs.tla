---------------------------- MODULE BufferProofs ----------------------------
(***************************************************************************)
(* Buffer for data of any length, any initial size and any number of bytes *)
(* kept free in front.                                                     *)
(***************************************************************************)
EXTENDS Buffer, SequenceTheorems, TLAPS

\* The vectors of n elements.
Vec(n) == [0 .. n - 1 -> Byte]

\* A vector with its indexes in order.
Ok(b) ==
  /\ b.s \in Nat /\ b.r \in Nat /\ b.w \in Nat
  /\ b.r <= b.w /\ b.w <= b.s /\ kCheapPrepend <= b.s
  /\ b.c \in Vec(b.s)

\* The elements of a vector from r up to w.
Slice(c, r, w) == [i \in 1 .. w - r |-> c[r + i - 1]]

\* What a slice is as a sequence.
IsSlice(q, c, r, w) ==
  /\ q \in Seq(Byte)
  /\ Len(q) = w - r
  /\ \A i \in 1 .. w - r : q[i] = c[r + i - 1]

\* Concatenation and a suffix, by names the provers do not look into.
Cat(q, d) == q \o d
Drop(q, len, n) == SubSeq(q, len + 1, n)

ContentOf(b) == Slice(b.c, b.r, b.w)

IInv ==
  /\ Ok(This)
  /\ aborted \in BOOLEAN
  /\ FindFromStart = FALSE => aborted = FALSE

USE BufferAssumption

-----------------------------------------------------------------------------
\* A slice is a sequence.
LEMMA SliceIsSeq ==
  ASSUME NEW n \in Nat, NEW c \in Vec(n), NEW r \in Nat, NEW w \in Nat,
         r <= w, w <= n
  PROVE  IsSlice(Slice(c, r, w), c, r, w)
  <1>1. w - r \in Nat
    OBVIOUS
  <1>2. Slice(c, r, w) \in [1 .. w - r -> Byte]
    BY DEF Slice, Vec
  <1>3. Slice(c, r, w) \in Seq(Byte)
    BY <1>1, <1>2, SeqDef
  <1>4. DOMAIN Slice(c, r, w) = 1 .. w - r
    BY DEF Slice
  <1>5. Len(Slice(c, r, w)) = w - r
    BY <1>1, <1>3, <1>4, LenProperties
  <1> QED
    BY <1>3, <1>5 DEF Slice, IsSlice

\* The data of a call is a sequence.
LEMMA DataIsSeq ==
  ASSUME NEW d \in Data
  PROVE  d \in Seq(Byte) /\ Len(d) \in Nat
  <1>1. PICK n \in 0 .. MaxLen : d \in [1 .. n -> Byte]
    BY DEF Data
  <1>2. n \in Nat
    OBVIOUS
  <1>3. d \in Seq(Byte)
    BY <1>1, <1>2, SeqDef
  <1> QED
    BY <1>3, LenProperties

\* copying d to the vector, inside its bounds.
LEMMA CopyToEffect ==
  ASSUME NEW n \in Nat, NEW c \in Vec(n), NEW at \in Nat,
         NEW d \in Seq(Byte), at + Len(d) <= n
  PROVE  /\ CopyTo(c, at, d) \in Vec(n)
         /\ \A i \in 0 .. n - 1 :
              CopyTo(c, at, d)[i] =
                IF at <= i /\ i < at + Len(d) THEN d[i - at + 1] ELSE c[i]
  <1>1. Len(d) \in Nat /\ \A i \in 1 .. Len(d) : d[i] \in Byte
    BY LenProperties, ElementOfSeq
  <1>2. DOMAIN c = 0 .. n - 1
    BY DEF Vec
  <1>3. ASSUME NEW i \in 0 .. n - 1, at <= i, i < at + Len(d)
        PROVE  d[i - at + 1] \in Byte
    BY <1>1, <1>3
  <1>4. CopyTo(c, at, d) \in Vec(n)
    BY <1>2, <1>3 DEF CopyTo, Vec
  <1> QED
    BY <1>2, <1>4 DEF CopyTo

\* ensureWritableBytes and makeSpace: room is made, nothing asserted fails and
\* the readable bytes stay what they are.
LEMMA WithRoomEffect ==
  ASSUME NEW b, Ok(b), NEW len \in Nat
  PROVE  /\ Ok(WithRoom(b, len))
         /\ RoomAsserts(b, len)
         /\ ContentOf(WithRoom(b, len)) = ContentOf(b)
         /\ WithRoom(b, len).w - WithRoom(b, len).r = b.w - b.r
         /\ WithRoom(b, len).s - WithRoom(b, len).w >= len
         /\ WithRoom(b, len).s # b.s => (b.w - b.r) + len + kCheapPrepend > b.s
  <1> DEFINE x == WithRoom(b, len)
  <1> HIDE DEF x
  <1>1. CASE b.s - b.w >= len
    <2>1. x = b
      BY <1>1 DEF x, WithRoom
    <2> QED
      BY <1>1, <2>1 DEF x, Ok, RoomAsserts
  <1>2. CASE b.s - b.w < len /\ MustGrow(b, len)
    <2> DEFINE cs == [i \in 0 .. (b.w + len) - 1 |-> IF i < b.s THEN b.c[i] ELSE Zero]
    <2>0. Resized(b, b.w + len) = [c |-> cs, s |-> b.w + len, r |-> b.r, w |-> b.w]
      BY DEF Resized
    <2>1. x = Resized(b, b.w + len)
      BY <1>2 DEF x, WithRoom, Ok
    <2> HIDE DEF cs
    <2>2. x.s = b.w + len /\ x.r = b.r /\ x.w = b.w /\ x.c = cs
      BY <2>0, <2>1
    <2>4. ASSUME NEW i \in 0 .. (b.w + len) - 1
          PROVE  (IF i < b.s THEN b.c[i] ELSE Zero) \in Byte
      BY DEF Ok, Vec
    <2>5. x.c \in Vec(x.s)
      <3>1. cs \in Vec(b.w + len)
        BY <2>4 DEF cs, Vec
      <3> QED
        BY <2>2, <3>1
    <2>6. Ok(x)
      BY <1>2, <2>2, <2>5 DEF Ok
    <2>7. ASSUME NEW i \in 1 .. b.w - b.r
          PROVE  x.c[b.r + i - 1] = b.c[b.r + i - 1]
      <3>1. b.r + i - 1 \in 0 .. (b.w + len) - 1 /\ b.r + i - 1 < b.s
        BY DEF Ok
      <3> QED
        BY <2>2, <3>1 DEF cs
    <2>8. ContentOf(x) = ContentOf(b)
      BY <2>2, <2>7 DEF ContentOf, Slice
    <2>9. (b.w - b.r) + len + kCheapPrepend > b.s
      BY <1>2 DEF MustGrow, Ok
    <2>10. x.s - x.w >= len
      BY <2>2 DEF Ok
    <2>11. RoomAsserts(b, len)
      BY <1>2, <2>10 DEF x, RoomAsserts
    <2> QED
      BY <2>2, <2>6, <2>8, <2>9, <2>10, <2>11 DEF x
  <1>3. CASE b.s - b.w < len /\ ~MustGrow(b, len)
    <2> DEFINE cs == [i \in 0 .. b.s - 1 |->
                        IF kCheapPrepend <= i /\ i < kCheapPrepend + b.w - b.r
                        THEN b.c[b.r + i - kCheapPrepend] ELSE b.c[i]]
    <2>0. Compacted(b) =
            [c |-> cs, s |-> b.s, r |-> kCheapPrepend, w |-> kCheapPrepend + b.w - b.r]
      BY DEF Compacted
    <2>1. x = Compacted(b)
      BY <1>3 DEF x, WithRoom, Ok
    <2> HIDE DEF cs
    <2>2. /\ x.s = b.s /\ x.r = kCheapPrepend /\ x.w = kCheapPrepend + b.w - b.r
          /\ x.c = cs
      BY <2>0, <2>1
    <2>4. kCheapPrepend < b.r /\ x.s - x.w >= len
      BY <1>3, <2>2 DEF MustGrow, Ok
    <2>5. ASSUME NEW i \in 0 .. b.s - 1
          PROVE  (IF kCheapPrepend <= i /\ i < kCheapPrepend + b.w - b.r
                  THEN b.c[b.r + i - kCheapPrepend] ELSE b.c[i]) \in Byte
      <3>1. CASE kCheapPrepend <= i /\ i < kCheapPrepend + b.w - b.r
        <4>1. b.r + i - kCheapPrepend \in 0 .. b.s - 1
          BY <2>4, <3>1 DEF Ok
        <4> QED
          BY <3>1, <4>1 DEF Ok, Vec
      <3>2. CASE ~(kCheapPrepend <= i /\ i < kCheapPrepend + b.w - b.r)
        BY <3>2 DEF Ok, Vec
      <3> QED
        BY <3>1, <3>2
    <2>6. x.c \in Vec(x.s)
      <3>1. cs \in Vec(b.s)
        BY <2>5 DEF cs, Vec
      <3> QED
        BY <2>2, <3>1
    <2>7. Ok(x)
      BY <2>2, <2>4, <2>6 DEF Ok
    <2>8. x.w - x.r = b.w - b.r
      BY <2>2 DEF Ok
    <2>9. ASSUME NEW i \in 1 .. b.w - b.r
          PROVE  x.c[x.r + i - 1] = b.c[b.r + i - 1]
      <3>1. /\ x.r + i - 1 \in 0 .. b.s - 1
            /\ kCheapPrepend <= x.r + i - 1
            /\ x.r + i - 1 < kCheapPrepend + b.w - b.r
            /\ b.r + (x.r + i - 1) - kCheapPrepend = b.r + i - 1
        BY <2>2, <2>4 DEF Ok
      <3> QED
        BY <2>2, <3>1 DEF cs
    <2>10. ContentOf(x) = ContentOf(b)
      BY <2>8, <2>9 DEF ContentOf, Slice
    <2>11. RoomAsserts(b, len)
      BY <2>4 DEF x, RoomAsserts
    <2> QED
      BY <2>2, <2>4, <2>7, <2>8, <2>10, <2>11 DEF x
  <1> QED
    BY <1>1, <1>2, <1>3 DEF Ok

\* copying data behind a slice.
LEMMA WriteBehind ==
  ASSUME NEW n \in Nat, NEW c \in Vec(n), NEW r \in Nat, NEW w \in Nat,
         r <= w, NEW d \in Seq(Byte), w + Len(d) <= n
  PROVE  Slice(CopyTo(c, w, d), r, w + Len(d)) = Cat(Slice(c, r, w), d)
  <1> DEFINE e == CopyTo(c, w, d)
             q == Slice(c, r, w)
             v == w + Len(d)
             z == Slice(e, r, v)
             t == q \o d
             k == w - r
  <1>0. Len(d) \in Nat /\ v \in Nat /\ r <= v /\ v <= n /\ w <= n /\ k \in Nat
    BY LenProperties
  <1>1. /\ e \in Vec(n)
        /\ \A i \in 0 .. n - 1 :
             e[i] = IF w <= i /\ i < w + Len(d) THEN d[i - w + 1] ELSE c[i]
    BY CopyToEffect
  <1>v. v = w + Len(d) /\ k = w - r
    OBVIOUS
  <1> HIDE DEF e, v
  <1>2. IsSlice(q, c, r, w)
    BY <1>0, SliceIsSeq
  <1>3. IsSlice(z, e, r, v)
    BY <1>0, <1>1, SliceIsSeq
  <1> HIDE DEF q, z
  <1>4. q \in Seq(Byte) /\ Len(q) = k
    BY <1>2 DEF IsSlice
  <1>5. /\ t \in Seq(Byte) /\ Len(t) = k + Len(d)
        /\ \A i \in 1 .. k + Len(d) : t[i] = IF i <= k THEN q[i] ELSE d[i - k]
    <2> HIDE DEF k
    <2> QED
      BY <1>4, ConcatProperties
  <1> HIDE DEF t, k
  <1>6. z \in Seq(Byte) /\ Len(z) = k + Len(d)
    BY <1>0, <1>3, <1>v DEF IsSlice
  <1>7. ASSUME NEW i \in 1 .. k + Len(d) PROVE z[i] = t[i]
    <2>0. i \in Int /\ z[i] = e[r + i - 1]
      BY <1>0, <1>3, <1>v DEF IsSlice
    <2>1. CASE i <= k
      <3>1. r + i - 1 \in 0 .. n - 1 /\ r + i - 1 < w /\ i \in 1 .. w - r
        BY <1>0, <1>v, <2>1
      <3>2. e[r + i - 1] = c[r + i - 1]
        BY <1>1, <3>1
      <3>3. t[i] = q[i]
        BY <1>5, <2>1
      <3>4. q[i] = c[r + i - 1]
        BY <1>2, <3>1 DEF IsSlice
      <3> QED
        BY <2>0, <3>2, <3>3, <3>4
    <2>2. CASE i > k
      <3>1. /\ r + i - 1 \in 0 .. n - 1
            /\ w <= r + i - 1 /\ r + i - 1 < w + Len(d)
            /\ (r + i - 1) - w + 1 = i - k
        BY <1>0, <1>v, <2>2
      <3>2. e[r + i - 1] = d[i - k]
        BY <1>1, <3>1
      <3>3. t[i] = d[i - k]
        BY <1>0, <1>5, <2>0, <2>2
      <3> QED
        BY <2>0, <3>2, <3>3
    <2> QED
      BY <1>0, <2>0, <2>1, <2>2
  <1>8. z = t
    BY <1>5, <1>6, <1>7, SeqEqual
  <1> QED
    BY <1>8 DEF q, z, e, t, v, Cat

\* append(data, len) puts the data behind the readable bytes, whatever
\* makeSpace has to do for it.
LEMMA AppendedEffect ==
  ASSUME NEW b, Ok(b), NEW d \in Seq(Byte)
  PROVE  /\ Ok(Appended(b, d))
         /\ RoomAsserts(b, Len(d))
         /\ ContentOf(Appended(b, d)) = ContentOf(b) \o d
         /\ Appended(b, d).w - Appended(b, d).r = (b.w - b.r) + Len(d)
         /\ Appended(b, d).s # b.s => (b.w - b.r) + Len(d) + kCheapPrepend > b.s
  <1> DEFINE x == WithRoom(b, Len(d))
             y == Appended(b, d)
  <1>0. Len(d) \in Nat
    BY LenProperties
  <1>1. /\ Ok(x) /\ RoomAsserts(b, Len(d)) /\ ContentOf(x) = ContentOf(b)
        /\ x.s - x.w >= Len(d)
        /\ x.w - x.r = b.w - b.r
        /\ x.s # b.s => (b.w - b.r) + Len(d) + kCheapPrepend > b.s
    BY <1>0, WithRoomEffect
  <1>2. /\ y.c = CopyTo(x.c, x.w, d) /\ y.s = x.s /\ y.r = x.r
        /\ y.w = x.w + Len(d)
    <2>1. y = [c |-> CopyTo(x.c, x.w, d), s |-> x.s, r |-> x.r, w |-> x.w + Len(d)]
      BY DEF Appended
    <2> HIDE DEF x, y
    <2> QED
      BY <2>1
  <1> HIDE DEF x, y
  <1>3. x.w + Len(d) <= x.s
    BY <1>0, <1>1 DEF Ok
  <1>4. y.c \in Vec(y.s)
    <2>1. x.s \in Nat /\ x.w \in Nat /\ x.c \in Vec(x.s)
      BY <1>1 DEF Ok
    <2>2. CopyTo(x.c, x.w, d) \in Vec(x.s)
      BY <1>3, <2>1, CopyToEffect
    <2> QED
      BY <1>2, <2>2
  <1>5. Ok(y)
    <2>1. /\ x.s \in Nat /\ x.w \in Nat /\ x.r \in Nat /\ x.r <= x.w
          /\ kCheapPrepend <= x.s
      BY <1>1 DEF Ok
    <2>2. /\ y.s \in Nat /\ y.w \in Nat /\ y.r \in Nat /\ y.r <= y.w /\ y.w <= y.s
          /\ kCheapPrepend <= y.s
      BY <1>0, <1>2, <1>3, <2>1
    <2> QED
      BY <1>4, <2>2 DEF Ok
  <1>6. ContentOf(y) = ContentOf(x) \o d
    <2>1. /\ x.s \in Nat /\ x.w \in Nat /\ x.r \in Nat /\ x.r <= x.w
          /\ x.c \in Vec(x.s)
      BY <1>1 DEF Ok
    <2>2. Slice(CopyTo(x.c, x.w, d), x.r, x.w + Len(d)) = Cat(Slice(x.c, x.r, x.w), d)
      BY <1>3, <2>1, WriteBehind
    <2> QED
      BY <1>2, <2>2 DEF ContentOf, Cat
  <1>7. y.w - y.r = (b.w - b.r) + Len(d)
    BY <1>0, <1>1, <1>2 DEF Ok
  <1> QED
    BY <1>1, <1>2, <1>5, <1>6, <1>7 DEF y
\* copying data in front of a slice.
LEMMA WriteBefore ==
  ASSUME NEW n \in Nat, NEW c \in Vec(n), NEW r \in Nat, NEW w \in Nat,
         r <= w, w <= n, NEW d \in Seq(Byte), Len(d) <= r
  PROVE  Slice(CopyTo(c, r - Len(d), d), r - Len(d), w) = Cat(d, Slice(c, r, w))
  <1> DEFINE at == r - Len(d)
             e == CopyTo(c, at, d)
             q == Slice(c, r, w)
             z == Slice(e, at, w)
             t == d \o q
             k == w - r
  <1>0. Len(d) \in Nat /\ at \in Nat /\ at <= w /\ at + Len(d) <= n /\ k \in Nat
    BY LenProperties
  <1>v. at = r - Len(d) /\ k = w - r
    OBVIOUS
  <1> HIDE DEF at
  <1>1. /\ e \in Vec(n)
        /\ \A i \in 0 .. n - 1 :
             e[i] = IF at <= i /\ i < at + Len(d) THEN d[i - at + 1] ELSE c[i]
    BY <1>0, CopyToEffect
  <1> HIDE DEF e
  <1>2. IsSlice(q, c, r, w)
    BY <1>0, SliceIsSeq
  <1>3. IsSlice(z, e, at, w)
    BY <1>0, <1>1, SliceIsSeq
  <1> HIDE DEF q, z
  <1>4. q \in Seq(Byte) /\ Len(q) = k
    BY <1>2 DEF IsSlice
  <1>5. /\ t \in Seq(Byte) /\ Len(t) = Len(d) + k
        /\ \A i \in 1 .. Len(d) + k : t[i] = IF i <= Len(d) THEN d[i] ELSE q[i - Len(d)]
    <2> HIDE DEF k
    <2> QED
      BY <1>4, ConcatProperties
  <1> HIDE DEF t, k
  <1>6. z \in Seq(Byte) /\ Len(z) = Len(d) + k
    BY <1>0, <1>3, <1>v DEF IsSlice
  <1>7. ASSUME NEW i \in 1 .. Len(d) + k PROVE z[i] = t[i]
    <2>0. i \in Int /\ z[i] = e[at + i - 1]
      BY <1>0, <1>3, <1>v DEF IsSlice
    <2>1. CASE i <= Len(d)
      <3>1. /\ at + i - 1 \in 0 .. n - 1 /\ at <= at + i - 1 /\ at + i - 1 < at + Len(d)
            /\ (at + i - 1) - at + 1 = i
        BY <1>0, <1>v, <2>1
      <3>2. e[at + i - 1] = d[i]
        BY <1>1, <3>1
      <3>3. t[i] = d[i]
        BY <1>5, <2>1
      <3> QED
        BY <2>0, <3>2, <3>3
    <2>2. CASE i > Len(d)
      <3>1. /\ at + i - 1 \in 0 .. n - 1 /\ ~(at + i - 1 < at + Len(d))
            /\ i - Len(d) \in 1 .. w - r
            /\ r + (i - Len(d)) - 1 = at + i - 1
        BY <1>0, <1>v, <2>0, <2>2
      <3>2. e[at + i - 1] = c[at + i - 1]
        BY <1>1, <3>1
      <3>3. t[i] = q[i - Len(d)]
        BY <1>0, <1>5, <2>0, <2>2
      <3>4. q[i - Len(d)] = c[at + i - 1]
        BY <1>2, <3>1 DEF IsSlice
      <3> QED
        BY <2>0, <3>2, <3>3, <3>4
    <2> QED
      BY <1>0, <2>0, <2>1, <2>2
  <1>8. z = t
    BY <1>5, <1>6, <1>7, SeqEqual
  <1> QED
    BY <1>8 DEF q, z, e, t, at, Cat

\* dropping the first bytes of a slice.
LEMMA DropFront ==
  ASSUME NEW n \in Nat, NEW c \in Vec(n), NEW r \in Nat, NEW w \in Nat,
         r <= w, w <= n, NEW len \in Nat, r + len <= w
  PROVE  Slice(c, r + len, w) = Drop(Slice(c, r, w), len, w - r)
  <1> DEFINE q == Slice(c, r, w)
             v == r + len
             z == Slice(c, v, w)
             k == w - r
             t == SubSeq(q, len + 1, k)
  <1>0. v \in Nat /\ v <= w /\ k \in Nat /\ len + 1 \in Int
    OBVIOUS
  <1>v. v = r + len /\ k = w - r
    OBVIOUS
  <1> HIDE DEF v, k
  <1>1. IsSlice(q, c, r, w) /\ IsSlice(z, c, v, w)
    BY <1>0, SliceIsSeq
  <1> HIDE DEF q, z
  <1>2. \A i \in len + 1 .. k : q[i] \in Byte
    <2>1. q \in Seq(Byte) /\ Len(q) = k
      BY <1>1, <1>v DEF IsSlice
    <2> QED
      BY <1>0, <2>1, ElementOfSeq
  <1>3. /\ t \in Seq(Byte)
        /\ Len(t) = IF len + 1 <= k THEN k - (len + 1) + 1 ELSE 0
        /\ \A i \in 1 .. k - (len + 1) + 1 : t[i] = q[(len + 1) + i - 1]
    BY <1>0, <1>2, SubSeqProperties
  <1> HIDE DEF t
  <1>4. z \in Seq(Byte) /\ Len(z) = k - len
    BY <1>0, <1>1, <1>v DEF IsSlice
  <1>5. Len(t) = k - len
    BY <1>0, <1>3, <1>v
  <1>6. ASSUME NEW i \in 1 .. k - len PROVE z[i] = t[i]
    <2>1. /\ i \in 1 .. w - v /\ i \in 1 .. k - (len + 1) + 1
          /\ len + i \in 1 .. w - r /\ (len + 1) + i - 1 = len + i
          /\ v + i - 1 = r + (len + i) - 1
      BY <1>0, <1>v
    <2>2. z[i] = c[v + i - 1] /\ q[len + i] = c[r + (len + i) - 1]
      BY <1>1, <2>1 DEF IsSlice
    <2>3. t[i] = q[len + i]
      BY <1>3, <2>1
    <2> QED
      BY <2>1, <2>2, <2>3
  <1>7. z = t
    BY <1>3, <1>4, <1>5, <1>6, SeqEqual
  <1> QED
    BY <1>7 DEF q, z, t, v, k, Drop
-----------------------------------------------------------------------------
\* The state and the record that stands for it.
LEMMA ThisFields ==
  /\ This.c = cells /\ This.s = size /\ This.r = reader /\ This.w = writer
  /\ ContentOf(This) = Content
  BY DEF This, ContentOf, Slice, Content, ReadableBytes

LEMMA ThisType ==
  ASSUME Ok(This)
  PROVE  /\ size \in Nat /\ reader \in Nat /\ writer \in Nat
         /\ reader <= writer /\ writer <= size
         /\ cells \in Vec(size) /\ kCheapPrepend <= size
         /\ ReadableBytes \in Nat /\ WritableBytes \in Nat
  <1>1. /\ size \in Nat /\ reader \in Nat /\ writer \in Nat
        /\ reader <= writer /\ writer <= size
        /\ cells \in Vec(size) /\ kCheapPrepend <= size
    BY ThisFields DEF Ok
  <1> QED
    BY <1>1 DEF ReadableBytes, WritableBytes

\* What the new state is when it is given by a record.
LEMMA BecomeEffect ==
  ASSUME NEW y, Ok(y), Become(y)
  PROVE  /\ Ok(This)' /\ Content' = ContentOf(y)
         /\ size' = y.s /\ reader' = y.r /\ writer' = y.w
  <1>1. cells' = y.c /\ size' = y.s /\ reader' = y.r /\ writer' = y.w
    BY DEF Become
  <1>2. This'.c = y.c /\ This'.s = y.s /\ This'.r = y.r /\ This'.w = y.w
    BY <1>1 DEF This
  <1>3. Ok(This)'
    BY <1>2 DEF Ok
  <1>4. Content' = ContentOf(y)
    BY <1>1 DEF ContentOf, Slice, Content, ReadableBytes
  <1> QED
    BY <1>1, <1>3, <1>4

\* The same when it is given by the variables.
LEMMA ThisPrimed ==
  ASSUME size' \in Nat, reader' \in Nat, writer' \in Nat,
         reader' <= writer', writer' <= size', kCheapPrepend <= size',
         cells' \in Vec(size')
  PROVE  Ok(This)' /\ Content' = Slice(cells', reader', writer')
  <1>1. This'.c = cells' /\ This'.s = size' /\ This'.r = reader' /\ This'.w = writer'
    BY DEF This
  <1>2. Ok(This)'
    BY <1>1 DEF Ok
  <1> QED
    BY <1>2 DEF Slice, Content, ReadableBytes

\* A new Buffer is empty.
LEMMA FreshOk == Ok(Fresh) /\ ContentOf(Fresh) = <<>> /\ Fresh.w - Fresh.r = 0
  <1> DEFINE n == kCheapPrepend + kInitialSize
             cs == [i \in 0 .. n - 1 |-> Zero]
  <1>1. n \in Nat /\ cs \in Vec(n)
    BY DEF Vec
  <1>2. Fresh = [c |-> cs, s |-> n, r |-> kCheapPrepend, w |-> kCheapPrepend]
    BY DEF Fresh
  <1>4. kCheapPrepend <= n
    OBVIOUS
  <1> HIDE DEF n, cs
  <1>3. Fresh.c = cs /\ Fresh.s = n /\ Fresh.r = kCheapPrepend /\ Fresh.w = kCheapPrepend
    BY <1>2
  <1>5. Ok(Fresh)
    BY <1>1, <1>3, <1>4 DEF Ok
  <1>6. ContentOf(Fresh) = Slice(cs, kCheapPrepend, kCheapPrepend)
    BY <1>3 DEF ContentOf
  <1>7. IsSlice(ContentOf(Fresh), cs, kCheapPrepend, kCheapPrepend)
    BY <1>1, <1>4, <1>6, SliceIsSeq
  <1>8. ContentOf(Fresh) \in Seq(Byte) /\ Len(ContentOf(Fresh)) = 0
    BY <1>7 DEF IsSlice
  <1>9. ContentOf(Fresh) = <<>>
    BY <1>8, EmptySeq
  <1> QED
    BY <1>3, <1>5, <1>9

-----------------------------------------------------------------------------
\* What each operation does to the bytes and to the asserts.
LEMMA EnsureEffect ==
  ASSUME Ok(This), NEW len \in Nat, EnsureWritableBytes(len)
  PROVE  /\ Ok(This)' /\ aborted' = FALSE /\ Content' = Content
         /\ writer' - reader' = writer - reader
  <1> DEFINE x == WithRoom(This, len)
  <1>1. Ok(x) /\ RoomAsserts(This, len) /\ ContentOf(x) = Content /\ x.w - x.r = writer - reader
    BY WithRoomEffect, ThisFields
  <1>2. Become(x) /\ aborted' = ~RoomAsserts(This, len)
    BY DEF EnsureWritableBytes
  <1> HIDE DEF x
  <1>3. /\ Ok(This)' /\ Content' = ContentOf(x)
        /\ reader' = x.r /\ writer' = x.w
    BY <1>1, <1>2, BecomeEffect
  <1>4. aborted' = FALSE
    BY <1>1, <1>2, Zenon
  <1> QED
    BY <1>1, <1>3, <1>4

LEMMA AppendEffect ==
  ASSUME Ok(This), NEW d \in Seq(Byte), AppendBytes(d)
  PROVE  /\ Ok(This)' /\ aborted' = FALSE /\ Content' = Content \o d
         /\ writer' - reader' = (writer - reader) + Len(d)
         /\ size' # size => (writer - reader) + Len(d) + kCheapPrepend > size
  <1> DEFINE x == Appended(This, d)
  <1>1. /\ Ok(x) /\ RoomAsserts(This, Len(d)) /\ ContentOf(x) = ContentOf(This) \o d
        /\ x.w - x.r = (writer - reader) + Len(d)
        /\ x.s # size => (writer - reader) + Len(d) + kCheapPrepend > size
    BY AppendedEffect, ThisFields
  <1>2. Become(x) /\ aborted' = ~RoomAsserts(This, Len(d))
    BY DEF AppendBytes
  <1> HIDE DEF x
  <1>3. /\ Ok(This)' /\ Content' = ContentOf(x)
        /\ size' = x.s /\ reader' = x.r /\ writer' = x.w
    BY <1>1, <1>2, BecomeEffect
  <1>4. aborted' = FALSE
    BY <1>1, <1>2, Zenon
  <1>5. Content' = Content \o d
    BY <1>1, <1>3, ThisFields
  <1> QED
    BY <1>1, <1>3, <1>4, <1>5

LEMMA PrependEffect ==
  ASSUME Ok(This), NEW d \in Seq(Byte), Prepend(d)
  PROVE  /\ Ok(This)' /\ UNCHANGED <<size, aborted>> /\ Content' = d \o Content
  <1>0. Len(d) \in Nat
    BY LenProperties
  <1>1. /\ Len(d) <= reader /\ reader' = reader - Len(d)
        /\ cells' = CopyTo(cells, reader - Len(d), d)
        /\ size' = size /\ writer' = writer /\ aborted' = aborted
    BY DEF Prepend, PrependableBytes
  <1>2. /\ size \in Nat /\ reader \in Nat /\ writer \in Nat
        /\ reader <= writer /\ writer <= size /\ cells \in Vec(size)
        /\ kCheapPrepend <= size
    BY ThisType
  <1>3. /\ reader - Len(d) \in Nat /\ reader - Len(d) <= writer
        /\ (reader - Len(d)) + Len(d) <= size
    BY <1>0, <1>1, <1>2
  <1>4. cells' \in Vec(size)
    BY <1>1, <1>2, <1>3, CopyToEffect
  <1>5. Ok(This)' /\ Content' = Slice(cells', reader', writer')
    BY <1>1, <1>2, <1>3, <1>4, ThisPrimed
  <1>6. Slice(CopyTo(cells, reader - Len(d), d), reader - Len(d), writer)
          = Cat(d, Slice(cells, reader, writer))
    BY <1>1, <1>2, WriteBefore
  <1>7. Content = Slice(cells, reader, writer)
    BY DEF Content, Slice, ReadableBytes
  <1> QED
    BY <1>1, <1>5, <1>6, <1>7 DEF Cat

LEMMA ReadFdEffect ==
  ASSUME Ok(This), NEW d \in Seq(Byte), ReadFd(d)
  PROVE  /\ Ok(This)' /\ UNCHANGED <<size, aborted>> /\ Content' = Content \o d
  <1>0. Len(d) \in Nat
    BY LenProperties
  <1>1. /\ Len(d) <= size - writer /\ reader' = reader
        /\ cells' = CopyTo(cells, writer, d)
        /\ size' = size /\ writer' = writer + Len(d) /\ aborted' = aborted
    BY DEF ReadFd, WritableBytes
  <1>2. /\ size \in Nat /\ reader \in Nat /\ writer \in Nat
        /\ reader <= writer /\ writer <= size /\ cells \in Vec(size)
        /\ kCheapPrepend <= size
    BY ThisType
  <1>3. writer + Len(d) \in Nat /\ reader <= writer + Len(d) /\ writer + Len(d) <= size
    BY <1>0, <1>1, <1>2
  <1>4. cells' \in Vec(size)
    BY <1>1, <1>2, <1>3, CopyToEffect
  <1>5. Ok(This)' /\ Content' = Slice(cells', reader', writer')
    BY <1>1, <1>2, <1>3, <1>4, ThisPrimed
  <1>6. Slice(CopyTo(cells, writer, d), reader, writer + Len(d))
          = Cat(Slice(cells, reader, writer), d)
    BY <1>2, <1>3, WriteBehind
  <1>7. Content = Slice(cells, reader, writer)
    BY DEF Content, Slice, ReadableBytes
  <1> QED
    BY <1>1, <1>5, <1>6, <1>7 DEF Cat
\* A sequence is its first k elements and the others.
LEMMA CutInTwo ==
  ASSUME NEW d \in Seq(Byte), NEW k \in Nat, k <= Len(d)
  PROVE  /\ SubSeq(d, 1, k) \in Seq(Byte) /\ Len(SubSeq(d, 1, k)) = k
         /\ SubSeq(d, k + 1, Len(d)) \in Seq(Byte)
         /\ Len(SubSeq(d, k + 1, Len(d))) = Len(d) - k
         /\ SubSeq(d, 1, k) \o SubSeq(d, k + 1, Len(d)) = d
  <1> DEFINE n == Len(d)
             f == SubSeq(d, 1, k)
             g == SubSeq(d, k + 1, n)
  <1>0. n \in Nat /\ k <= n /\ \A i \in 1 .. n : d[i] \in Byte
    BY LenProperties, ElementOfSeq
  <1>n. Len(d) = n
    OBVIOUS
  <1> HIDE DEF n
  <1>1. f \in Seq(Byte) /\ Len(f) = k /\ \A i \in 1 .. k : f[i] = d[i]
    <2>1. \A i \in 1 .. k : d[i] \in Byte
      BY <1>0
    <2>2. /\ f \in Seq(Byte) /\ Len(f) = IF 1 <= k THEN k - 1 + 1 ELSE 0
          /\ \A i \in 1 .. k - 1 + 1 : f[i] = d[1 + i - 1]
      BY <2>1, SubSeqProperties
    <2> HIDE DEF f
    <2>3. ASSUME NEW i \in 1 .. k PROVE i \in 1 .. k - 1 + 1 /\ 1 + i - 1 = i
      OBVIOUS
    <2> QED
      BY <2>2, <2>3
  <1>2. g \in Seq(Byte) /\ Len(g) = n - k /\ \A i \in 1 .. n - k : g[i] = d[k + i]
    <2>1. \A i \in k + 1 .. n : d[i] \in Byte
      BY <1>0
    <2>2. /\ g \in Seq(Byte) /\ Len(g) = IF k + 1 <= n THEN n - (k + 1) + 1 ELSE 0
          /\ \A i \in 1 .. n - (k + 1) + 1 : g[i] = d[(k + 1) + i - 1]
      BY <1>0, <2>1, SubSeqProperties
    <2> HIDE DEF g
    <2>3. ASSUME NEW i \in 1 .. n - k
          PROVE  i \in 1 .. n - (k + 1) + 1 /\ (k + 1) + i - 1 = k + i
      BY <1>0
    <2>4. Len(g) = n - k
      BY <1>0, <2>2
    <2> QED
      BY <2>2, <2>3, <2>4
  <1> DEFINE t == f \o g
  <1> HIDE DEF f, g
  <1> DEFINE m == n - k
  <1>3. /\ t \in Seq(Byte) /\ Len(t) = k + m
        /\ \A i \in 1 .. k + m : t[i] = IF i <= k THEN f[i] ELSE g[i - k]
    <2>1. Len(g) = m /\ g \in Seq(Byte) /\ Len(f) = k /\ f \in Seq(Byte)
      BY <1>1, <1>2
    <2> HIDE DEF m
    <2> QED
      BY <2>1, ConcatProperties
  <1> HIDE DEF t
  <1>4. ASSUME NEW i \in 1 .. n PROVE t[i] = d[i]
    <2>0. i \in Int /\ i \in 1 .. k + m
      BY <1>0
    <2>1. CASE i <= k
      BY <1>1, <1>3, <2>0, <2>1
    <2>2. CASE i > k
      <3>1. i - k \in 1 .. n - k /\ k + (i - k) = i
        BY <1>0, <2>0, <2>2
      <3>2. t[i] = g[i - k]
        BY <1>3, <2>0, <2>2
      <3> QED
        BY <1>2, <3>1, <3>2
    <2> QED
      BY <2>0, <2>1, <2>2
  <1>5. Len(t) = Len(d)
    BY <1>0, <1>3, <1>n
  <1>6. t = d
    BY <1>3, <1>4, <1>5, <1>n, SeqEqual
  <1> QED
    BY <1>1, <1>2, <1>6 DEF f, g, t, n

LEMMA CatAssociative ==
  ASSUME NEW q \in Seq(Byte), NEW d \in Seq(Byte), NEW e \in Seq(Byte)
  PROVE  Cat(Cat(q, d), e) = Cat(q, Cat(d, e))
  BY ConcatAssociative DEF Cat

LEMMA ReadFdExtraEffect ==
  ASSUME Ok(This), NEW d \in Seq(Byte), ReadFdExtra(d)
  PROVE  /\ Ok(This)' /\ aborted' = FALSE /\ Content' = Content \o d
         /\ size' # size => (writer' - reader') + kCheapPrepend > size
  <1> DEFINE k == size - writer
             d1 == SubSeq(d, 1, k)
             d2 == SubSeq(d, k + 1, Len(d))
             full == [c |-> CopyTo(cells, writer, d1), s |-> size, r |-> reader, w |-> size]
             x == Appended(full, d2)
  <1>0. /\ size \in Nat /\ reader \in Nat /\ writer \in Nat
        /\ reader <= writer /\ writer <= size /\ cells \in Vec(size)
        /\ kCheapPrepend <= size
    BY ThisType
  <1>1. Len(d) > k /\ Become(x) /\ aborted' = ~RoomAsserts(full, Len(d2))
    BY DEF ReadFdExtra, WritableBytes
  <1>2. Len(d) \in Nat /\ k \in Nat /\ k <= Len(d) /\ writer + k = size
    BY <1>0, <1>1, LenProperties
  <1> HIDE DEF k
  <1>3. /\ d1 \in Seq(Byte) /\ Len(d1) = k /\ d2 \in Seq(Byte) /\ d1 \o d2 = d
    BY <1>2, CutInTwo
  <1> HIDE DEF d1, d2
  <1>4. writer + Len(d1) <= size /\ writer + Len(d1) = size
    BY <1>0, <1>2, <1>3
  <1>5. CopyTo(cells, writer, d1) \in Vec(size)
    BY <1>0, <1>3, <1>4, CopyToEffect
  <1>6. /\ full.c = CopyTo(cells, writer, d1) /\ full.s = size
        /\ full.r = reader /\ full.w = size
    OBVIOUS
  <1> HIDE DEF full
  <1>7. Ok(full)
    BY <1>0, <1>5, <1>6 DEF Ok
  <1>8. ContentOf(full) = Content \o d1
    <2>1. Slice(CopyTo(cells, writer, d1), reader, writer + Len(d1))
            = Cat(Slice(cells, reader, writer), d1)
      <3>1. d1 \in Seq(Byte) /\ writer + Len(d1) <= size
        BY <1>3, <1>4
      <3> QED
        BY <1>0, <3>1, WriteBehind
    <2>2. ContentOf(full) = Slice(CopyTo(cells, writer, d1), reader, size)
      BY <1>6 DEF ContentOf
    <2>3. Content = Slice(cells, reader, writer)
      BY DEF Content, Slice, ReadableBytes
    <2>4. ContentOf(full) = Slice(CopyTo(cells, writer, d1), reader, writer + Len(d1))
      BY <1>4, <2>2
    <2> QED
      BY <2>1, <2>3, <2>4, Zenon DEF Cat
  <1>9. /\ Ok(x) /\ RoomAsserts(full, Len(d2)) /\ ContentOf(x) = ContentOf(full) \o d2
        /\ x.w - x.r = (full.w - full.r) + Len(d2)
        /\ x.s # full.s => (full.w - full.r) + Len(d2) + kCheapPrepend > full.s
    BY <1>3, <1>7, AppendedEffect
  <1> HIDE DEF x
  <1>10. /\ Ok(This)' /\ Content' = ContentOf(x)
         /\ size' = x.s /\ reader' = x.r /\ writer' = x.w
    BY <1>1, <1>9, BecomeEffect
  <1>11. aborted' = FALSE
    BY <1>1, <1>9, Zenon
  <1>12. Content' = Content \o d
    <2>1. Content \in Seq(Byte)
      <3>1. Content = Slice(cells, reader, writer)
        BY DEF Content, Slice, ReadableBytes
      <3> QED
        BY <1>0, <3>1, SliceIsSeq DEF IsSlice
    <2>2. (Content \o d1) \o d2 = Content \o (d1 \o d2)
      <3>1. Cat(Cat(Content, d1), d2) = Cat(Content, Cat(d1, d2))
        BY <1>3, <2>1, CatAssociative
      <3> QED
        BY <3>1 DEF Cat
    <2>3. Content' = (Content \o d1) \o d2
      BY <1>8, <1>9, <1>10, Zenon
    <2> QED
      BY <1>3, <2>2, <2>3, Zenon
  <1>13. size' # size => (writer' - reader') + kCheapPrepend > size
    BY <1>6, <1>9, <1>10
  <1> QED
    BY <1>10, <1>11, <1>12, <1>13

LEMMA RetrieveEffect ==
  ASSUME Ok(This), NEW len \in Nat, Retrieve(len)
  PROVE  /\ Ok(This)' /\ UNCHANGED <<size, aborted>>
         /\ Content' = SubSeq(Content, len + 1, Len(Content))
  <1>0. /\ size \in Nat /\ reader \in Nat /\ writer \in Nat
        /\ reader <= writer /\ writer <= size /\ cells \in Vec(size)
        /\ kCheapPrepend <= size
    BY ThisType
  <1>1. Content = Slice(cells, reader, writer)
    BY DEF Content, Slice, ReadableBytes
  <1>2. IsSlice(Content, cells, reader, writer)
    BY <1>0, <1>1, SliceIsSeq
  <1>3. Len(Content) = writer - reader
    BY <1>2 DEF IsSlice
  <1>4. cells' = cells /\ size' = size /\ aborted' = aborted /\ len <= writer - reader
    BY DEF Retrieve, ReadableBytes
  <1>5. SubSeq(Content, len + 1, Len(Content)) = Slice(cells, reader + len, writer)
    <2>1. reader + len <= writer
      BY <1>0, <1>4
    <2>2. Slice(cells, reader + len, writer)
            = Drop(Slice(cells, reader, writer), len, writer - reader)
      BY <1>0, <2>1, DropFront
    <2> QED
      BY <1>1, <1>3, <2>2, Zenon DEF Drop
  <1>6. CASE len < writer - reader
    <2>1. reader' = reader + len /\ writer' = writer
      BY <1>6 DEF Retrieve, ReadableBytes
    <2>2. reader + len \in Nat /\ reader + len <= writer
      BY <1>0, <1>6
    <2>3. Ok(This)' /\ Content' = Slice(cells', reader', writer')
      BY <1>0, <1>4, <2>1, <2>2, ThisPrimed
    <2> QED
      BY <1>4, <1>5, <2>1, <2>3
  <1>7. CASE len = writer - reader
    <2>1. reader' = kCheapPrepend /\ writer' = kCheapPrepend
      BY <1>7 DEF Retrieve, ReadableBytes
    <2>2. Ok(This)' /\ Content' = Slice(cells, kCheapPrepend, kCheapPrepend)
      BY <1>0, <1>4, <2>1, ThisPrimed
    <2>3. reader + len = writer
      BY <1>0, <1>7
    <2>4. IsSlice(Slice(cells, kCheapPrepend, kCheapPrepend),
                  cells, kCheapPrepend, kCheapPrepend)
      BY <1>0, SliceIsSeq
    <2>5. IsSlice(Slice(cells, writer, writer), cells, writer, writer)
      BY <1>0, SliceIsSeq
    <2>6. Slice(cells, kCheapPrepend, kCheapPrepend) = <<>>
      <3>1. /\ Slice(cells, kCheapPrepend, kCheapPrepend) \in Seq(Byte)
            /\ Len(Slice(cells, kCheapPrepend, kCheapPrepend)) = 0
        BY <2>4 DEF IsSlice
      <3> QED
        BY <3>1, EmptySeq
    <2>7. Slice(cells, writer, writer) = <<>>
      <3>1. /\ Slice(cells, writer, writer) \in Seq(Byte)
            /\ Len(Slice(cells, writer, writer)) = 0
        BY <1>0, <2>5 DEF IsSlice
      <3> QED
        BY <3>1, EmptySeq
    <2> QED
      BY <1>4, <1>5, <2>2, <2>3, <2>6, <2>7
  <1> QED
    BY <1>0, <1>4, <1>6, <1>7
LEMMA ShrinkEffect ==
  ASSUME Ok(This), NEW reserve \in Nat, Shrink(reserve)
  PROVE  /\ Ok(This)' /\ aborted' = FALSE /\ Content' = Content
         /\ writer' - reader' = writer - reader
  <1> DEFINE need == ReadableBytes + reserve
             other == WithRoom(Fresh, need)
             x == Appended(other, Content)
  <1>0. /\ size \in Nat /\ reader \in Nat /\ writer \in Nat
        /\ reader <= writer /\ writer <= size /\ cells \in Vec(size)
        /\ ReadableBytes \in Nat /\ ReadableBytes = writer - reader
    BY ThisType DEF ReadableBytes
  <1>1. need \in Nat
    BY <1>0
  <1>2. /\ Become(x)
        /\ aborted' = ~(RoomAsserts(Fresh, need) /\ RoomAsserts(other, ReadableBytes))
    BY DEF Shrink
  <1> HIDE DEF need
  <1>3. Content \in Seq(Byte) /\ Len(Content) = ReadableBytes
    <2>1. Content = Slice(cells, reader, writer)
      BY DEF Content, Slice, ReadableBytes
    <2>2. IsSlice(Content, cells, reader, writer)
      BY <1>0, <2>1, SliceIsSeq
    <2> QED
      BY <1>0, <2>2 DEF IsSlice
  <1>4. /\ Ok(other) /\ RoomAsserts(Fresh, need) /\ ContentOf(other) = <<>>
        /\ other.w - other.r = 0
    BY <1>1, FreshOk, WithRoomEffect
  <1> HIDE DEF other
  <1>5. /\ Ok(x) /\ RoomAsserts(other, Len(Content)) /\ ContentOf(x) = ContentOf(other) \o Content
        /\ x.w - x.r = (other.w - other.r) + Len(Content)
    BY <1>3, <1>4, AppendedEffect
  <1> HIDE DEF x
  <1>6. /\ Ok(This)' /\ Content' = ContentOf(x)
        /\ size' = x.s /\ reader' = x.r /\ writer' = x.w
    BY <1>2, <1>5, BecomeEffect
  <1>7. aborted' = FALSE
    BY <1>2, <1>3, <1>4, <1>5, Zenon
  <1>8. Content' = Content
    <2>1. Content' = <<>> \o Content
      BY <1>4, <1>5, <1>6, Zenon
    <2>2. <<>> \o Content = Content
      BY <1>3, ConcatEmptySeq
    <2> QED
      BY <2>1, <2>2
  <1>9. writer' - reader' = writer - reader
    BY <1>0, <1>3, <1>4, <1>5, <1>6
  <1> QED
    BY <1>6, <1>7, <1>8, <1>9

\* A line ends inside the readable bytes if it is looked for from their start.
LEMMA RetrieveLineEffect ==
  ASSUME Ok(This), NEW start \in reader .. writer, RetrieveLine(start)
  PROVE  \/ \E len \in Nat : Retrieve(len)
         \/ FindFromStart # FALSE /\ aborted' = TRUE /\ UNCHANGED <<cells, size, reader, writer>>
  <1>0. size \in Nat /\ reader \in Nat /\ writer \in Nat /\ reader <= writer
    BY ThisType
  <1>1. PICK eol \in EolFrom(start) :
          IF eol + 1 <= writer THEN Retrieve(eol + 1 - reader)
          ELSE aborted' = TRUE /\ UNCHANGED <<cells, size, reader, writer>>
    BY DEF RetrieveLine
  <1>2. eol \in start .. start + (writer - reader) - 1
    BY DEF EolFrom, ReadableBytes
  <1>3. eol \in Int /\ eol >= reader
    BY <1>0, <1>2
  <1>4. CASE eol + 1 <= writer
    <2>1. eol + 1 - reader \in Nat
      BY <1>0, <1>3
    <2> QED
      BY <1>1, <1>4, <2>1
  <1>5. CASE ~(eol + 1 <= writer)
    <2>1. start # reader
      BY <1>0, <1>2, <1>3, <1>5
    <2>2. FindFromStart # FALSE
      BY <2>1 DEF RetrieveLine
    <2> QED
      BY <1>1, <1>5, <2>2
  <1> QED
    BY <1>4, <1>5

-----------------------------------------------------------------------------
LEMMA InitIInv == Init => IInv
  <1> SUFFICES ASSUME Init PROVE IInv
    OBVIOUS
  <1>1. /\ This.c = Fresh.c /\ This.s = Fresh.s /\ This.r = Fresh.r /\ This.w = Fresh.w
    BY DEF Init, This
  <1>2. Ok(This)
    BY <1>1, FreshOk DEF Ok
  <1> QED
    BY <1>2 DEF IInv, Init

LEMMA NextIInv == IInv /\ [Next]_vars => IInv'
  <1> SUFFICES ASSUME IInv, [Next]_vars PROVE IInv'
    OBVIOUS
  <1>0. Ok(This) /\ aborted \in BOOLEAN /\ (FindFromStart = FALSE => aborted = FALSE)
    BY DEF IInv
  <1>1. CASE UNCHANGED vars
    <2>1. This' = This /\ aborted' = aborted
      BY <1>1 DEF vars, This
    <2> QED
      BY <1>0, <2>1 DEF IInv, Ok
  <1>2. ASSUME NEW d \in Data, AppendBytes(d) PROVE IInv'
    BY <1>0, <1>2, DataIsSeq, AppendEffect DEF IInv
  <1>3. ASSUME NEW d \in Data, Prepend(d) PROVE IInv'
    BY <1>0, <1>3, DataIsSeq, PrependEffect DEF IInv
  <1>4. ASSUME NEW d \in Data, ReadFd(d) PROVE IInv'
    BY <1>0, <1>4, DataIsSeq, ReadFdEffect DEF IInv
  <1>5. ASSUME NEW d \in Data, ReadFdExtra(d) PROVE IInv'
    BY <1>0, <1>5, DataIsSeq, ReadFdExtraEffect DEF IInv
  <1>6. ASSUME NEW len \in Nat, EnsureWritableBytes(len) PROVE IInv'
    BY <1>0, <1>6, EnsureEffect DEF IInv
  <1>7. ASSUME NEW len \in Nat, Shrink(len) PROVE IInv'
    BY <1>0, <1>7, ShrinkEffect DEF IInv
  <1>8. ASSUME NEW len \in Nat, Retrieve(len) PROVE IInv'
    BY <1>0, <1>8, RetrieveEffect DEF IInv
  <1>9. ASSUME NEW start \in reader .. writer, RetrieveLine(start) PROVE IInv'
    <2>1. CASE \E len \in Nat : Retrieve(len)
      BY <1>8, <2>1
    <2>2. CASE FindFromStart # FALSE /\ aborted' = TRUE /\ UNCHANGED <<cells, size, reader, writer>>
      <3>1. This' = This
        BY <2>2 DEF This
      <3> QED
        BY <1>0, <2>2, <3>1 DEF IInv, Ok
    <2> QED
      BY <1>0, <1>9, <2>1, <2>2, RetrieveLineEffect
  <1>10. \A len \in 0 .. MaxLen : len \in Nat
    OBVIOUS
  <1>11. \A len \in 0 .. ReadableBytes : len \in Nat
    BY <1>0, ThisType
  <1> QED
    BY <1>1, <1>2, <1>3, <1>4, <1>5, <1>6, <1>7, <1>8, <1>9, <1>10, <1>11 DEF Next

\* The inductive invariant: the indexes are in order inside a vector of at
\* least kCheapPrepend bytes, to which retrieveAll() may always go back.
THEOREM Inductive == Spec => []IInv
  BY InitIInv, NextIInv, PTL DEF Spec

\* The order the comment on class Buffer draws.
THEOREM IndexesInOrder == Spec => []IndexOrder
  <1>1. IInv => IndexOrder
    <2> SUFFICES ASSUME IInv PROVE IndexOrder
      OBVIOUS
    <2>1. Ok(This)
      BY DEF IInv
    <2> QED
      BY <2>1, ThisType DEF IndexOrder
  <1> QED
    BY Inductive, <1>1, PTL

\* The asserts of makeSpace, ensureWritableBytes and retrieveUtil hold, for
\* callers that look for lines from the first readable byte.
THEOREM NoAssertFails ==
  ASSUME FindFromStart = FALSE
  PROVE  Spec => []AssertsHold
  <1>1. IInv => AssertsHold
    BY DEF IInv, AssertsHold
  <1> QED
    BY Inductive, <1>1, PTL

\* makeSpace, shrink and readFd's detour never change, lose or reorder a byte.
THEOREM IsAByteQueue == Spec => ImplementsByteQueue
  <1> DEFINE A == /\ \A d \in Data :
                       /\ (AppendBytes(d) \/ ReadFd(d) \/ ReadFdExtra(d)) => Q!PutBack(d)
                       /\ Prepend(d) => Q!PutFront(d)
                  /\ \A len \in 0 .. MaxLen :
                       EnsureWritableBytes(len) \/ Shrink(len) => Q!Nothing
                  /\ \A len \in 0 .. ReadableBytes : Retrieve(len) => Q!TakeFront(len)
  <1>1. ASSUME IInv PROVE A
    <2>0. Ok(This)
      BY <1>1 DEF IInv
    <2>1. ASSUME NEW d \in Data, AppendBytes(d) PROVE Q!PutBack(d)
      BY <2>0, <2>1, DataIsSeq, AppendEffect DEF Q!PutBack
    <2>2. ASSUME NEW d \in Data, ReadFd(d) PROVE Q!PutBack(d)
      BY <2>0, <2>2, DataIsSeq, ReadFdEffect DEF Q!PutBack
    <2>3. ASSUME NEW d \in Data, ReadFdExtra(d) PROVE Q!PutBack(d)
      BY <2>0, <2>3, DataIsSeq, ReadFdExtraEffect DEF Q!PutBack
    <2>4. ASSUME NEW d \in Data, Prepend(d) PROVE Q!PutFront(d)
      BY <2>0, <2>4, DataIsSeq, PrependEffect DEF Q!PutFront
    <2>5. ASSUME NEW len \in 0 .. MaxLen, EnsureWritableBytes(len) PROVE Q!Nothing
      <3>1. len \in Nat
        OBVIOUS
      <3> QED
        BY <2>0, <2>5, <3>1, EnsureEffect DEF Q!Nothing
    <2>6. ASSUME NEW len \in 0 .. MaxLen, Shrink(len) PROVE Q!Nothing
      <3>1. len \in Nat
        OBVIOUS
      <3> QED
        BY <2>0, <2>6, <3>1, ShrinkEffect DEF Q!Nothing
    <2>7. ASSUME NEW len \in 0 .. ReadableBytes, Retrieve(len) PROVE Q!TakeFront(len)
      <3>1. len \in Nat
        BY <2>0, ThisType
      <3> QED
        BY <2>0, <2>7, <3>1, RetrieveEffect DEF Q!TakeFront
    <2> QED
      BY <2>1, <2>2, <2>3, <2>4, <2>5, <2>6, <2>7
  <1>2. IInv /\ [Next]_vars => [A]_vars
    BY <1>1
  <1> QED
    BY Inductive, <1>2, PTL DEF Spec, ImplementsByteQueue

\* The vector is enlarged only for bytes that would not have fitted.
THEOREM GrowsWhenItMust == Spec => GrowsOnlyWhenFull
  <1> DEFINE A == (size' > size /\ writer' - reader' > writer - reader) =>
                    (writer' - reader') + kCheapPrepend > size
  <1>1. ASSUME IInv, Next PROVE A
    <2> DEFINE G == (writer' - reader') + kCheapPrepend > size
    <2> SUFFICES ASSUME size' > size, writer' - reader' > writer - reader
                 PROVE  G
      OBVIOUS
    <2>0. Ok(This)
      BY <1>1 DEF IInv
    <2>1. size \in Nat /\ reader \in Nat /\ writer \in Nat /\ ReadableBytes \in Nat
      BY <2>0, ThisType
    <2>2. size' \in Nat /\ reader' \in Nat /\ writer' \in Nat
      <3>1. IInv'
        BY <1>1, NextIInv
      <3>2. This'.s = size' /\ This'.r = reader' /\ This'.w = writer'
        BY DEF This
      <3> QED
        BY <3>1, <3>2 DEF IInv, Ok
    <2>3. size' # size /\ writer' - reader' # writer - reader
      <3>1. \A m, n \in Int : m > n => m # n
        OBVIOUS
      <3>2. writer' - reader' \in Int /\ writer - reader \in Int
        BY <2>1, <2>2
      <3>3. size' \in Int /\ size \in Int
        BY <2>1, <2>2
      <3> QED
        BY <3>1, <3>2, <3>3, Zenon
    <2>4. ASSUME NEW d \in Data, AppendBytes(d) PROVE G
      <3>1. d \in Seq(Byte) /\ Len(d) \in Nat
        BY DataIsSeq
      <3>2. /\ writer' - reader' = (writer - reader) + Len(d)
            /\ (writer - reader) + Len(d) + kCheapPrepend > size
        BY <2>0, <2>3, <2>4, <3>1, AppendEffect
      <3> QED
        BY <2>1, <2>2, <3>1, <3>2
    <2>5. ASSUME NEW d \in Data, ReadFdExtra(d) PROVE G
      <3>1. d \in Seq(Byte)
        BY DataIsSeq
      <3> QED
        BY <2>0, <2>3, <2>5, <3>1, ReadFdExtraEffect
    <2>6. ASSUME NEW d \in Data PROVE ~Prepend(d) /\ ~ReadFd(d)
      BY <2>3 DEF Prepend, ReadFd
    <2>7. ASSUME NEW len \in Nat PROVE ~EnsureWritableBytes(len) /\ ~Shrink(len)
      BY <2>0, <2>3, EnsureEffect, ShrinkEffect
    <2>8. ASSUME NEW len \in Nat PROVE ~Retrieve(len)
      BY <2>3 DEF Retrieve
    <2>9. ASSUME NEW start \in reader .. writer PROVE ~RetrieveLine(start)
      BY <2>0, <2>3, <2>8, RetrieveLineEffect
    <2>10. /\ \A len \in 0 .. MaxLen : len \in Nat
           /\ \A len \in 0 .. ReadableBytes : len \in Nat
      BY <2>1
    <2> HIDE DEF G
    <2> QED
      BY <1>1, <2>4, <2>5, <2>6, <2>7, <2>8, <2>9, <2>10 DEF Next
  <1>2. IInv /\ [Next]_vars => [A]_vars
    BY <1>1
  <1> QED
    BY Inductive, <1>2, PTL DEF Spec, GrowsOnlyWhenFull
=============================================================================
