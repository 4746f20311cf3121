------------------------------- MODULE Buffer -------------------------------
(***************************************************************************)
(* src/port/Buffer.h and Buffer.cpp: bytes between readerIndex_ and        *)
(* writerIndex_ of a vector that is compacted or enlarged when an append   *)
(* does not fit.  An Int32, Int16 or Int8 is data of that many bytes.      *)
(***************************************************************************)
EXTENDS Integers, Sequences

CONSTANTS
  Byte,           \* byte values
  Eol,            \* '\n'
  Zero,           \* what resize fills the vector with
  kCheapPrepend,
  kInitialSize,
  ExtraSize,      \* sizeof extrabuf in readFd
  MaxLen,         \* bound on the data of one call
  MaxSize,        \* bound on the vector
  FindFromStart   \* whether callers use findEOL(start)

ASSUME BufferAssumption ==
  /\ Eol \in Byte /\ Zero \in Byte
  /\ kCheapPrepend \in Nat /\ kInitialSize \in Nat
  /\ ExtraSize \in Nat
  /\ MaxLen \in Nat /\ MaxSize \in Nat
  /\ FindFromStart \in BOOLEAN

VARIABLES
  cells,    \* the elements of buffer_
  size,     \* buffer_.size()
  reader,   \* readerIndex_
  writer,   \* writerIndex_
  aborted   \* an assert failed

vars == <<cells, size, reader, writer, aborted>>

Data == UNION {[1 .. n -> Byte] : n \in 0 .. MaxLen}
ReadableBytes == writer - reader
WritableBytes == size - writer
PrependableBytes == reader
Content == [i \in 1 .. ReadableBytes |-> cells[reader + i - 1]]

\* A Buffer as a record: the vector, its size and the two indexes.
This == [c |-> cells, s |-> size, r |-> reader, w |-> writer]
Become(b) == cells' = b.c /\ size' = b.s /\ reader' = b.r /\ writer' = b.w

\* A new Buffer.
Fresh == [c |-> [i \in 0 .. kCheapPrepend + kInitialSize - 1 |-> Zero],
          s |-> kCheapPrepend + kInitialSize,
          r |-> kCheapPrepend,
          w |-> kCheapPrepend]

Init ==
  /\ cells = Fresh.c /\ size = Fresh.s /\ reader = Fresh.r /\ writer = Fresh.w
  /\ aborted = FALSE

\* std::copy of data to an offset of the vector.
CopyTo(c, at, d) ==
  [i \in DOMAIN c |-> IF at <= i /\ i < at + Len(d) THEN d[i - at + 1] ELSE c[i]]

\* makeSpace(len), which enlarges the vector if compacting would not do.
\* Mutant: it forgets the bytes kept free in front.
MustGrowForgets(b, len) == (b.s - b.w) + b.r < len

MustGrow(b, len) == (b.s - b.w) + b.r < len + kCheapPrepend

Resized(b, n) ==
  [c |-> [i \in 0 .. n - 1 |-> IF i < b.s THEN b.c[i] ELSE Zero],
   s |-> n, r |-> b.r, w |-> b.w]

\* Mutant: compacting starts a byte early.
CompactedShifted(b) ==
  [c |-> [i \in 0 .. b.s - 1 |->
            IF kCheapPrepend <= i /\ i < kCheapPrepend + b.w - b.r
            THEN b.c[b.r + i - kCheapPrepend - 1] ELSE b.c[i]],
   s |-> b.s, r |-> kCheapPrepend, w |-> kCheapPrepend + b.w - b.r]

Compacted(b) ==
  [c |-> [i \in 0 .. b.s - 1 |->
            IF kCheapPrepend <= i /\ i < kCheapPrepend + b.w - b.r
            THEN b.c[b.r + i - kCheapPrepend] ELSE b.c[i]],
   s |-> b.s, r |-> kCheapPrepend, w |-> kCheapPrepend + b.w - b.r]

\* ensureWritableBytes(len), and what it and makeSpace assert: compacting gains
\* something, and in the end len bytes are writable.
WithRoom(b, len) ==
  IF b.s - b.w >= len THEN b
  ELSE IF MustGrow(b, len) THEN Resized(b, b.w + len) ELSE Compacted(b)
RoomAsserts(b, len) ==
  /\ (b.s - b.w < len /\ ~MustGrow(b, len)) => kCheapPrepend < b.r
  /\ WithRoom(b, len).s - WithRoom(b, len).w >= len

\* append(data, len).
Appended(b, d) ==
  LET x == WithRoom(b, Len(d))
  IN  [c |-> CopyTo(x.c, x.w, d), s |-> x.s, r |-> x.r, w |-> x.w + Len(d)]

EnsureWritableBytes(len) ==
  /\ WithRoom(This, len).s <= MaxSize
  /\ Become(WithRoom(This, len))
  /\ aborted' = ~RoomAsserts(This, len)

\* append, and appendInt32, appendInt16 and appendInt8.
AppendBytes(d) ==
  /\ Appended(This, d).s <= MaxSize
  /\ Become(Appended(This, d))
  /\ aborted' = ~RoomAsserts(This, Len(d))

\* prepend(data, len), for a caller that checked prependableBytes().
Prepend(d) ==
  /\ Len(d) <= PrependableBytes
  /\ reader' = reader - Len(d)
  /\ cells' = CopyTo(cells, reader', d)
  /\ UNCHANGED <<size, writer, aborted>>

\* retrieve(len) for a caller that checked readableBytes(), retrieveAll(), and
\* the read and retrieve functions made of them.
Retrieve(len) ==
  /\ len <= ReadableBytes
  /\ IF len < ReadableBytes THEN reader' = reader + len /\ UNCHANGED writer
     ELSE reader' = kCheapPrepend /\ writer' = kCheapPrepend
  /\ UNCHANGED <<cells, size, aborted>>

\* shrink(reserve): the readable bytes go to a new Buffer.
Shrink(reserve) ==
  LET need == ReadableBytes + reserve
      other == WithRoom(Fresh, need)
  IN  /\ Appended(other, Content).s <= MaxSize
      /\ Become(Appended(other, Content))
      /\ aborted' = ~(RoomAsserts(Fresh, need) /\ RoomAsserts(other, ReadableBytes))

\* readFd when what readv read fits the vector.
ReadFd(d) ==
  /\ Len(d) <= WritableBytes
  /\ cells' = CopyTo(cells, writer, d)
  /\ writer' = writer + Len(d)
  /\ UNCHANGED <<size, reader, aborted>>

\* readFd when readv filled the vector and part of extrabuf, which is appended.
ReadFdExtra(d) ==
  LET full == [c |-> CopyTo(cells, writer, SubSeq(d, 1, WritableBytes)),
               s |-> size, r |-> reader, w |-> size]
      rest == SubSeq(d, WritableBytes + 1, Len(d))
  IN  /\ Len(d) > WritableBytes /\ Len(d) <= WritableBytes + ExtraSize
      /\ Appended(full, rest).s <= MaxSize
      /\ Become(Appended(full, rest))
      /\ aborted' = ~RoomAsserts(full, Len(rest))

\* memchr(start, '\n', readableBytes()): what lies behind the vector may hold
\* anything.
EolFrom(start) ==
  LET Scanned == start .. start + ReadableBytes - 1
  IN  {i \in Scanned : /\ i < size => cells[i] = Eol
                       /\ \A j \in Scanned : j < i => (j >= size \/ cells[j] # Eol)}

\* findEOL and retrieveUtil: a line with its '\n' is taken.
RetrieveLine(start) ==
  /\ start \in reader .. writer
  /\ FindFromStart \/ start = reader
  /\ \E eol \in EolFrom(start) :
       IF eol + 1 <= writer THEN Retrieve(eol + 1 - reader)
       ELSE aborted' = TRUE /\ UNCHANGED <<cells, size, reader, writer>>

Next ==
  /\ ~aborted
  /\ \/ \E d \in Data : AppendBytes(d) \/ Prepend(d) \/ ReadFd(d) \/ ReadFdExtra(d)
     \/ \E len \in 0 .. MaxLen : EnsureWritableBytes(len) \/ Shrink(len)
     \/ \E len \in 0 .. ReadableBytes : Retrieve(len)
     \/ \E start \in reader .. writer : RetrieveLine(start)

Spec == Init /\ [][Next]_vars

-----------------------------------------------------------------------------
\* The order the comment on the class draws, which every pointer computation
\* relies on.
IndexOrder == 0 <= reader /\ reader <= writer /\ writer <= size

\* The asserts of makeSpace, ensureWritableBytes and retrieveUtil hold.
AssertsHold == ~aborted

Q == INSTANCE ByteQueue WITH content <- Content

\* Wherever the indexes are, each operation does to the readable bytes what
\* it does to a queue of bytes: compacting, enlarging, resetting and the
\* detour through extrabuf are invisible.
ImplementsByteQueue ==
  [][ /\ \A d \in Data :
           /\ (AppendBytes(d) \/ ReadFd(d) \/ ReadFdExtra(d)) => Q!PutBack(d)
           /\ Prepend(d) => Q!PutFront(d)
      /\ \A len \in 0 .. MaxLen : EnsureWritableBytes(len) \/ Shrink(len) => Q!Nothing
      /\ \A len \in 0 .. ReadableBytes : Retrieve(len) => Q!TakeFront(len) ]_vars

\* The vector grows under an append or a readFd only if the bytes it then
\* holds, with the free bytes in front, would not have fitted before.
GrowsOnlyWhenFull ==
  [][ (size' > size /\ writer' - reader' > writer - reader) =>
        (writer' - reader') + kCheapPrepend > size ]_vars
=============================================================================
