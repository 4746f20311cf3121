----------------------------- MODULE UtilsProofs -----------------------------
(***************************************************************************)
(* Proofs about src/utils.  AsyncLogging: the asserts of its back end hold,*)
(* the log is what was appended, in order, and a stop on an idle logger    *)
(* loses nothing, for any buffer size, any number of messages and any drop *)
(* limit of at least two.  LogFile and Logging: rolling and flushing keep  *)
(* their times, fatal lines get out and every line shows its own second.   *)
(* LogStream: integers are written as their numerals, and no line overruns *)
(* its stream.  Date and TimeZone: the closed formulas are the Gregorian   *)
(* calendar for every year from 1900 on, without overflow up to 1000000.   *)
(***************************************************************************)
EXTENDS AsyncLogging, Logging, TimeZone, SequenceTheorems, WellFoundedInduction, TLAPS

Spare == Ptr(EmptyBuffer)

\* Only the shape of what both sides exchange matters.
Shape ==
  /\ buffers \in Seq(Seq(Int)) /\ toWrite \in Seq(Seq(Int)) /\ current \in Seq(Int)
  /\ appended \in Nat
  /\ next = Null \/ next = Spare

\* start() has not returned, and so nobody has called stop(), before the back
\* end has counted the latch down.
LatchGuardsStop ==
  /\ pc = "unborn" <=> owner = "new"
  /\ pc = "begin" => owner = "starting" /\ running
  /\ pc \in {"unborn", "begin"} <=> latch = 1
  /\ pc \notin {"unborn", "begin"} => latch = 0

\* append() takes nextBuffer_ only when it hands a full buffer over, and the
\* back end never leaves it empty: so what it swaps out holds as many buffers
\* as it has to make spare ones of.
SparesBalance ==
  /\ next = Null => buffers # <<>>
  /\ pc \in {"unborn", "begin"} => toWrite = <<>>
  /\ pc \in {"while", "lock", "waiting"} => new1 = Spare /\ new2 = Spare /\ toWrite = <<>>
  /\ pc = "write" => /\ new1 = Null
                     /\ new2 = Null \/ new2 = Spare
                     /\ toWrite # <<>>
                     /\ new2 = Null => Len(toWrite) >= 2

IInv == Shape /\ LatchGuardsStop /\ SparesBalance /\ AssertsHold

LEMMA NullIsNotSpare == Null # Spare /\ Head(Spare) = EmptyBuffer
  <1>1. Len(Null) = 0 /\ Len(Spare) = 1
    BY EmptySeq DEF Null, Spare, Ptr, EmptyBuffer
  <1>2. Head(Spare) = EmptyBuffer
    BY DEF Spare, Ptr, EmptyBuffer
  <1> QED
    BY <1>1, <1>2

LEMMA InitIInv == Init => IInv
  <1> SUFFICES ASSUME Init PROVE IInv
    OBVIOUS
  <1>0. <<>> \in Seq(Int) /\ <<>> \in Seq(Seq(Int))
    BY EmptySeq, Zenon
  <1>1. Shape
    BY <1>0 DEF Init, Shape, EmptyBuffer, Spare
  <1>2. LatchGuardsStop /\ AssertsHold
    BY DEF Init, LatchGuardsStop, AssertsHold
  <1>3. SparesBalance
    BY NullIsNotSpare DEF Init, SparesBalance, Spare
  <1> QED
    BY <1>1, <1>2, <1>3 DEF IInv

\* What the critical section of the back end leaves.
LEMMA SwapKeeps ==
  ASSUME IInv, pc \in {"lock", "waiting"}, Swap, UNCHANGED <<ownerVars, latch, appended, aborted>>
  PROVE  IInv'
  <1>1. new1 = Spare /\ new2 = Spare
    BY DEF IInv, SparesBalance
  <1>2. Shape'
    <2>1. current' = <<>> /\ <<>> \in Seq(Int) /\ <<>> \in Seq(Seq(Int))
      BY <1>1, NullIsNotSpare, EmptySeq DEF Swap, EmptyBuffer
    <2>2. toWrite' \in Seq(Seq(Int)) /\ buffers' \in Seq(Seq(Int))
      BY <2>1 DEF Swap, IInv, Shape
    <2>3. next' = Null \/ next' = Spare
      BY <1>1 DEF Swap, IInv, Shape
    <2> QED
      BY <2>1, <2>2, <2>3 DEF Shape, IInv
  <1>3. LatchGuardsStop' /\ AssertsHold'
    BY DEF IInv, LatchGuardsStop, AssertsHold, Swap, ownerVars
  <1>4. SparesBalance'
    <2>1. Len(toWrite') = Len(buffers) + 1 /\ Len(buffers) \in Nat /\ (buffers # <<>> => Len(buffers) >= 1)
      BY DEF Swap, IInv, Shape
    <2>2. pc' = "write" /\ new1' = Null /\ next' # Null
      BY <1>1, NullIsNotSpare DEF Swap, IInv, Shape
    <2>3. toWrite' # <<>>
      BY <2>1, EmptySeq
    <2>4. \/ next = Null /\ new2' = Null /\ Len(toWrite') >= 2
          \/ next # Null /\ new2' = Spare
      BY <1>1, <2>1 DEF Swap, IInv, SparesBalance
    <2> QED
      BY <2>2, <2>3, <2>4, NullIsNotSpare DEF SparesBalance
  <1> QED
    BY <1>2, <1>3, <1>4 DEF IInv

LEMMA Step == IInv /\ [Next]_vars => IInv'
  <1> SUFFICES ASSUME IInv, [Next]_vars PROVE IInv'
    OBVIOUS
  <1>1. ASSUME AppendMessage PROVE IInv'
    <2>0. appended' = appended + 1 /\ UNCHANGED <<backVars, ownerVars, latch>>
      BY <1>1 DEF AppendMessage
    <2>1. CASE Fits(current)
      <3>1. current' = Append(current, appended') /\ UNCHANGED <<next, buffers>>
        BY <1>1, <2>1 DEF AppendMessage, Put
      <3>2. Shape'
        BY <2>0, <3>1 DEF IInv, Shape, backVars
      <3> QED
        BY <2>0, <3>1, <3>2 DEF IInv, LatchGuardsStop, SparesBalance, AssertsHold, backVars, ownerVars
    <2>2. CASE ~Fits(current)
      <3>1. /\ buffers' = Append(buffers, current)
            /\ current' = Put(IF next # Null THEN Head(next) ELSE EmptyBuffer, appended')
            /\ next' = Null
        BY <1>1, <2>2 DEF AppendMessage
      <3>a. buffers' \in Seq(Seq(Int)) /\ Len(buffers') = Len(buffers) + 1 /\ Len(buffers) \in Nat
        BY <3>1 DEF IInv, Shape
      <3>2. buffers' \in Seq(Seq(Int)) /\ buffers' # <<>>
        BY <3>a, EmptySeq
      <3>3. current' \in Seq(Int)
        <4>1. current' = Put(EmptyBuffer, appended')
          BY <3>1, NullIsNotSpare DEF IInv, Shape
        <4>2. EmptyBuffer \in Seq(Int) /\ appended' \in Int
          BY <2>0 DEF IInv, Shape, EmptyBuffer
        <4> QED
          BY <4>1, <4>2 DEF Put
      <3>4. Shape'
        BY <2>0, <3>1, <3>2, <3>3 DEF IInv, Shape, backVars
      <3> QED
        BY <2>0, <3>1, <3>2, <3>4 DEF IInv, LatchGuardsStop, SparesBalance, AssertsHold, backVars, ownerVars
    <2> QED
      BY <2>1, <2>2
  <1>2. ASSUME Start PROVE IInv'
    <2>1. Shape'
      BY <1>2 DEF Start, IInv, Shape, frontVars
    <2> QED
      BY <1>2, <2>1 DEF Start, IInv, LatchGuardsStop, SparesBalance, AssertsHold, frontVars
  <1>3. ASSUME StartReturns \/ Join PROVE IInv'
    <2>1. Shape'
      BY <1>3 DEF StartReturns, Join, IInv, Shape, frontVars, backVars
    <2> QED
      BY <1>3, <2>1 DEF StartReturns, Join, IInv, LatchGuardsStop, SparesBalance, AssertsHold, frontVars, backVars
  <1>4. ASSUME Stop PROVE IInv'
    <2>1. Shape'
      BY <1>4 DEF Stop, IInv, Shape, frontVars, backVars
    <2> QED
      BY <1>4, <2>1 DEF Stop, IInv, LatchGuardsStop, SparesBalance, AssertsHold, frontVars, backVars
  <1>5. ASSUME Begin PROVE IInv'
    <2>1. Shape'
      BY <1>5 DEF Begin, IInv, Shape, frontVars
    <2>2. toWrite = <<>>
      BY <1>5 DEF Begin, IInv, SparesBalance
    <2>3. latch = 1 /\ running /\ owner = "starting"
      BY <1>5 DEF Begin, IInv, LatchGuardsStop
    <2>4. pc' = "while" /\ latch' = 0 /\ owner' = "starting" /\ ~aborted'
      <3>1. aborted' = ~running
        BY <1>5 DEF Begin
      <3>2. ~aborted'
        BY <2>3, <3>1
      <3> QED
        BY <1>5, <2>3, <3>2 DEF Begin, ownerVars
    <2>5. LatchGuardsStop' /\ AssertsHold'
      BY <2>4 DEF LatchGuardsStop, AssertsHold
    <2>6. SparesBalance'
      BY <1>5, <2>2, <2>4 DEF Begin, IInv, SparesBalance, frontVars, Spare
    <2> QED
      BY <2>1, <2>5, <2>6 DEF IInv
  <1>6. ASSUME While PROVE IInv'
    <2>1. Shape'
      BY <1>6 DEF While, IInv, Shape, frontVars
    <2> QED
      BY <1>6, <2>1 DEF While, IInv, LatchGuardsStop, SparesBalance, AssertsHold, frontVars, ownerVars, Spare
  <1>7. ASSUME Lock PROVE IInv'
    <2>1. CASE buffers = <<>>
      <3>1. Shape'
        BY <1>7, <2>1 DEF Lock, IInv, Shape
      <3> QED
        BY <1>7, <2>1, <3>1 DEF Lock, IInv, LatchGuardsStop, SparesBalance, AssertsHold, ownerVars
    <2>2. CASE buffers # <<>>
      BY <1>7, <2>2, SwapKeeps DEF Lock
    <2> QED
      BY <2>1, <2>2
  <1>8. ASSUME WaitReturns PROVE IInv'
    BY <1>8, SwapKeeps DEF WaitReturns
  <1>9. ASSUME Write PROVE IInv'
    <2> DEFINE kept == Kept(toWrite)
    <2>0. /\ pc = "write" /\ pc' = "while" /\ toWrite' = <<>>
          /\ Spares
          /\ aborted' = (toWrite = <<>> \/ TooFew(kept))
          /\ UNCHANGED <<frontVars, ownerVars, latch>>
      BY <1>9 DEF Write
    <2>1. /\ new1 = Null /\ (new2 = Null \/ new2 = Spare) /\ toWrite # <<>>
          /\ new2 = Null => Len(toWrite) >= 2
      BY <2>0 DEF IInv, SparesBalance
    <2>2. Len(toWrite) \in Nat \ {0}
      BY <2>1, EmptySeq DEF IInv, Shape
    <2>3. Len(kept) = IF Len(toWrite) > DropLimit THEN 2 ELSE Len(toWrite)
      <3>1. CASE Len(toWrite) > DropLimit
        <4>1. kept = SubSeq(toWrite, 1, 2) /\ 2 \in 1 .. Len(toWrite)
          BY <2>2, <3>1, LogAssumption DEF Kept
        <4>2. Len(SubSeq(toWrite, 1, 2)) = 2
          BY <4>1 DEF IInv, Shape
        <4> QED
          BY <3>1, <4>1, <4>2
      <3>2. CASE ~(Len(toWrite) > DropLimit)
        BY <3>2 DEF Kept
      <3> QED
        BY <3>1, <3>2
    <2>4. ~TooFew(kept)
      BY <2>1, <2>2, <2>3, LogAssumption DEF TooFew
    <2>5. new1' = Spare /\ new2' = Spare
      BY <2>0, <2>1, NullIsNotSpare DEF Spares, Spare
    <2>6. ~aborted'
      BY <2>0, <2>1, <2>4
    <2>7. Shape'
      BY <2>0, EmptySeq DEF IInv, Shape, frontVars
    <2>8. LatchGuardsStop'
      BY <2>0 DEF IInv, LatchGuardsStop, ownerVars
    <2>9. SparesBalance'
      BY <2>0, <2>5 DEF IInv, SparesBalance, frontVars
    <2> QED
      BY <2>6, <2>7, <2>8, <2>9 DEF IInv, AssertsHold
  <1>10. CASE UNCHANGED vars
    BY <1>10 DEF vars, IInv, Shape, LatchGuardsStop, SparesBalance, AssertsHold
  <1> QED
    BY <1>1, <1>2, <1>3, <1>4, <1>5, <1>6, <1>7, <1>8, <1>9, <1>10 DEF Next, BackEnd

\* Every assert of threadFunc holds, however appends, swaps and stop() meet.
THEOREM NoAssertFails == Spec => []AssertsHold
  <1>1. IInv => AssertsHold
    BY DEF IInv
  <1> QED
    BY InitIInv, Step, <1>1, PTL DEF Spec

-----------------------------------------------------------------------------
(***************************************************************************)
(* The order of the log.  It is one sequence of pieces, from the file to   *)
(* the current buffer; every step adds at its end or cuts pieces out.      *)
(***************************************************************************)
Pieces == Seq(Seq(Int))

LEMMA PieceMember ==
  ASSUME NEW s \in Pieces, NEW m
  PROVE  m \in MessagesIn(s) <=> \E i \in 1 .. Len(s) : \E j \in 1 .. Len(s[i]) : m = s[i][j]
  <1>1. DOMAIN s = 1 .. Len(s) /\ \A i \in 1 .. Len(s) : s[i] \in Seq(Int) /\ DOMAIN s[i] = 1 .. Len(s[i])
    BY LenProperties DEF Pieces
  <1>2. m \in MessagesIn(s) <=> \E i \in DOMAIN s : m \in ToSet(s[i])
    BY DEF MessagesIn
  <1>3. \A i \in DOMAIN s : m \in ToSet(s[i]) <=> \E j \in DOMAIN s[i] : m = s[i][j]
    BY DEF ToSet
  <1> QED
    BY <1>1, <1>2, <1>3

LEMMA PieceOrder ==
  ASSUME NEW s \in Pieces
  PROVE  Increasing(s) <=>
           \A p, q \in 1 .. Len(s) : \A i \in 1 .. Len(s[p]), j \in 1 .. Len(s[q]) :
             p < q \/ (p = q /\ i < j) => s[p][i] < s[q][j]
  <1>1. DOMAIN s = 1 .. Len(s) /\ \A i \in 1 .. Len(s) : s[i] \in Seq(Int) /\ DOMAIN s[i] = 1 .. Len(s[i])
    BY LenProperties DEF Pieces
  <1> QED
    BY <1>1, Zenon DEF Increasing

\* An empty piece at the end changes nothing.
LEMMA AddEmpty ==
  ASSUME NEW s \in Pieces
  PROVE  /\ Append(s, <<>>) \in Pieces
         /\ MessagesIn(Append(s, <<>>)) = MessagesIn(s)
         /\ Increasing(s) => Increasing(Append(s, <<>>))
  <1> DEFINE t == Append(s, <<>>)
  <1>0. <<>> \in Seq(Int) /\ Len(<<>>) = 0
    BY EmptySeq
  <1>1. /\ t \in Pieces /\ Len(t) = Len(s) + 1 /\ Len(s) \in Nat
        /\ \A i \in 1 .. Len(s) : t[i] = s[i]
        /\ t[Len(s) + 1] = <<>>
    BY <1>0, AppendProperties, LenProperties DEF Pieces
  <1> HIDE DEF t
  <1>2. ASSUME NEW m PROVE m \in MessagesIn(t) <=> m \in MessagesIn(s)
    BY <1>0, <1>1, PieceMember
  <1>3. ASSUME Increasing(s) PROVE Increasing(t)
    BY <1>0, <1>1, <1>3, PieceOrder
  <1> QED
    BY <1>1, <1>2, <1>3 DEF t

\* A larger message at the end of the last piece is one more message.
LEMMA AddLast ==
  ASSUME NEW s \in Pieces, NEW b \in Seq(Int), NEW m \in Int,
         Increasing(Append(s, b)), \A k \in MessagesIn(Append(s, b)) : k < m
  PROVE  /\ Append(s, Append(b, m)) \in Pieces
         /\ MessagesIn(Append(s, Append(b, m))) = MessagesIn(Append(s, b)) \cup {m}
         /\ Increasing(Append(s, Append(b, m)))
  <1> DEFINE c == Append(b, m)
             t == Append(s, b)
             u == Append(s, c)
  <1>0. /\ c \in Seq(Int) /\ Len(c) = Len(b) + 1 /\ Len(b) \in Nat
        /\ \A i \in 1 .. Len(b) : c[i] = b[i]
        /\ c[Len(b) + 1] = m
    BY AppendProperties, LenProperties
  <1> HIDE DEF c
  <1>1. /\ t \in Pieces /\ Len(t) = Len(s) + 1 /\ Len(s) \in Nat
        /\ \A i \in 1 .. Len(s) : t[i] = s[i]
        /\ t[Len(s) + 1] = b
    BY AppendProperties, LenProperties DEF Pieces
  <1>2. /\ u \in Pieces /\ Len(u) = Len(s) + 1
        /\ \A i \in 1 .. Len(s) : u[i] = s[i]
        /\ u[Len(s) + 1] = c
    BY <1>0, AppendProperties, LenProperties DEF Pieces
  <1>3. Increasing(t) /\ \A k \in MessagesIn(t) : k < m
    OBVIOUS
  <1> HIDE DEF t, u
  <1>a. /\ \A p \in 1 .. Len(u) : p \in 1 .. Len(t) /\ (u[p] = t[p] \/ (p = Len(s) + 1 /\ t[p] = b /\ u[p] = c))
        /\ Len(t) = Len(u) /\ Len(s) + 1 \in 1 .. Len(u)
    BY <1>1, <1>2
  <1>b. \A j \in 1 .. Len(c) : (j \in 1 .. Len(b) /\ c[j] = b[j]) \/ (j = Len(b) + 1 /\ c[j] = m)
    BY <1>0
  <1>c. Len(b) + 1 \in 1 .. Len(c) /\ \A j \in 1 .. Len(b) : j \in 1 .. Len(c) /\ c[j] = b[j]
    BY <1>0
  <1>4. ASSUME NEW k PROVE k \in MessagesIn(u) <=> k \in MessagesIn(t) \cup {m}
    <2>1. ASSUME k \in MessagesIn(u) PROVE k \in MessagesIn(t) \cup {m}
      <3>1. PICK p \in 1 .. Len(u) : \E j \in 1 .. Len(u[p]) : k = u[p][j]
        BY <1>2, <2>1, PieceMember
      <3>2. PICK j \in 1 .. Len(u[p]) : k = u[p][j]
        BY <3>1
      <3>3. CASE u[p] = t[p]
        BY <1>1, <1>a, <3>2, <3>3, PieceMember
      <3>4. CASE p = Len(s) + 1 /\ t[p] = b /\ u[p] = c
        BY <1>1, <1>a, <1>b, <3>2, <3>4, PieceMember
      <3> QED
        BY <1>a, <3>3, <3>4
    <2>2. ASSUME k \in MessagesIn(t) PROVE k \in MessagesIn(u)
      <3>1. PICK p \in 1 .. Len(t) : \E j \in 1 .. Len(t[p]) : k = t[p][j]
        BY <1>1, <2>2, PieceMember
      <3>2. PICK j \in 1 .. Len(t[p]) : k = t[p][j]
        BY <3>1
      <3> QED
        BY <1>2, <1>a, <1>c, <3>2, PieceMember
    <2>3. m \in MessagesIn(u)
      BY <1>0, <1>2, <1>a, <1>c, PieceMember
    <2> QED
      BY <2>1, <2>2, <2>3
  <1>5. Increasing(u)
    <2> SUFFICES ASSUME NEW p \in 1 .. Len(u), NEW q \in 1 .. Len(u),
                        NEW i \in 1 .. Len(u[p]), NEW j \in 1 .. Len(u[q]),
                        p < q \/ (p = q /\ i < j)
                 PROVE  u[p][i] < u[q][j]
      BY <1>2, PieceOrder
    <2>a. p \in 1 .. Len(t) /\ q \in 1 .. Len(t)
      BY <1>a
    <2>1. i \in 1 .. Len(t[p]) /\ u[p][i] = t[p][i]
      <3>1. CASE u[p] = t[p]
        BY <3>1
      <3>2. CASE p = Len(s) + 1 /\ t[p] = b /\ u[p] = c
        <4>1. q <= Len(s) + 1 /\ q \in Nat
          BY <1>2
        <4>2. p = q /\ i < j /\ u[q] = c
          BY <1>1, <3>2, <4>1
        <4>3. i \in 1 .. Len(c) /\ j \in 1 .. Len(c)
          BY <3>2, <4>2
        <4>a. i \in Nat /\ j \in Nat /\ 1 <= i /\ j <= Len(b) + 1
          BY <1>0, <4>3
        <4>4. i \in 1 .. Len(b) /\ c[i] = b[i]
          BY <1>0, <4>2, <4>a
        <4> QED
          BY <3>2, <4>4
      <3> QED
        BY <1>a, <3>1, <3>2
    <2>b. (j \in 1 .. Len(t[q]) /\ u[q][j] = t[q][j]) \/ u[q][j] = m
      BY <1>a, <1>b
    <2>2. CASE j \in 1 .. Len(t[q]) /\ u[q][j] = t[q][j]
      BY <1>1, <1>3, <2>a, <2>1, <2>2, PieceOrder
    <2>3. CASE u[q][j] = m
      BY <1>1, <1>3, <2>a, <2>1, <2>3, PieceMember
    <2> QED
      BY <2>b, <2>2, <2>3
  <1> QED
    BY <1>2, <1>4, <1>5 DEF t, u, c

\* Pieces cut out of an increasing log take their messages with them, and no
\* others.
LEMMA Cut ==
  ASSUME NEW a \in Pieces, NEW b \in Pieces, NEW c \in Pieces, Increasing(a \o b \o c)
  PROVE  /\ a \o c \in Pieces
         /\ MessagesIn(a \o c) = MessagesIn(a \o b \o c) \ MessagesIn(b)
         /\ Increasing(a \o c)
  <1> DEFINE ab == a \o b
             t == ab \o c
             u == a \o c
  <1>1. /\ ab \in Pieces /\ Len(ab) = Len(a) + Len(b)
        /\ \A i \in 1 .. Len(a) + Len(b) : ab[i] = IF i <= Len(a) THEN a[i] ELSE b[i - Len(a)]
    BY ConcatProperties DEF Pieces
  <1> HIDE DEF ab
  <1>2. /\ t \in Pieces /\ Len(t) = Len(ab) + Len(c)
        /\ \A i \in 1 .. Len(ab) + Len(c) : t[i] = IF i <= Len(ab) THEN ab[i] ELSE c[i - Len(ab)]
    <2>1. ab \in Seq(Seq(Int)) /\ c \in Seq(Seq(Int))
      BY <1>1 DEF Pieces
    <2>2. /\ ab \o c \in Seq(Seq(Int)) /\ Len(ab \o c) = Len(ab) + Len(c)
          /\ \A i \in 1 .. Len(ab) + Len(c) :
               (ab \o c)[i] = IF i <= Len(ab) THEN ab[i] ELSE c[i - Len(ab)]
      BY <2>1, ConcatProperties
    <2> QED
      BY <2>2 DEF Pieces
  <1>3. /\ u \in Pieces /\ Len(u) = Len(a) + Len(c)
        /\ \A i \in 1 .. Len(a) + Len(c) : u[i] = IF i <= Len(a) THEN a[i] ELSE c[i - Len(a)]
    BY ConcatProperties DEF Pieces
  <1>4. Len(a) \in Nat /\ Len(b) \in Nat /\ Len(c) \in Nat
    BY LenProperties DEF Pieces
  <1>5. Increasing(t)
    BY DEF ab
  <1> DEFINE Pos(i) == IF i <= Len(a) THEN i ELSE i + Len(b)
  <1> HIDE DEF t, u
  <1>6. \A i \in 1 .. Len(u) : Pos(i) \in 1 .. Len(t) /\ u[i] = t[Pos(i)]
    BY <1>1, <1>2, <1>3, <1>4
  <1>7. \A i \in 1 .. Len(b) : Len(a) + i \in 1 .. Len(t) /\ t[Len(a) + i] = b[i]
    BY <1>1, <1>2, <1>4
  <1>8. \A i, j \in 1 .. Len(u) : i < j => Pos(i) < Pos(j)
    BY <1>3, <1>4
  <1>9. \A i \in 1 .. Len(u), k \in 1 .. Len(b) : Pos(i) # Len(a) + k
    BY <1>3, <1>4
  <1>10. ASSUME NEW i \in 1 .. Len(t), \A k \in 1 .. Len(b) : i # Len(a) + k
         PROVE  \E j \in 1 .. Len(u) : Pos(j) = i
    <2>1. CASE i <= Len(a)
      BY <2>1, <1>3, <1>4
    <2>2. CASE i > Len(a)
      <3>1. i > Len(a) + Len(b)
        <4> SUFFICES ASSUME i <= Len(a) + Len(b) PROVE FALSE
          BY <1>4
        <4>1. i - Len(a) \in 1 .. Len(b) /\ i = Len(a) + (i - Len(a))
          BY <2>2, <1>4
        <4> QED
          BY <4>1, <1>10
      <3>2. i - Len(b) \in 1 .. Len(u) /\ Pos(i - Len(b)) = i
        BY <3>1, <1>1, <1>2, <1>3, <1>4
      <3> QED
        BY <3>2
    <2> QED
      BY <2>1, <2>2, <1>4
  <1> HIDE DEF Pos
  <1>11. Increasing(u)
    BY <1>2, <1>3, <1>5, <1>6, <1>8, PieceOrder
  <1>12. ASSUME NEW m \in MessagesIn(u) PROVE m \in MessagesIn(t) /\ m \notin MessagesIn(b)
    <2>1a. PICK i \in 1 .. Len(u) : \E j \in 1 .. Len(u[i]) : m = u[i][j]
      BY <1>3, PieceMember
    <2>1. PICK j \in 1 .. Len(u[i]) : m = u[i][j]
      BY <2>1a
    <2>2. m \in MessagesIn(t)
      BY <1>2, <1>6, <2>1, PieceMember
    <2>3. ASSUME m \in MessagesIn(b) PROVE FALSE
      <3>1a. PICK k \in 1 .. Len(b) : \E l \in 1 .. Len(b[k]) : m = b[k][l]
        BY <2>3, PieceMember
      <3>1. PICK l \in 1 .. Len(b[k]) : m = b[k][l]
        BY <3>1a
      <3>2. /\ Pos(i) \in 1 .. Len(t) /\ Len(a) + k \in 1 .. Len(t)
            /\ j \in 1 .. Len(t[Pos(i)]) /\ l \in 1 .. Len(t[Len(a) + k])
            /\ t[Pos(i)][j] = m /\ t[Len(a) + k][l] = m
            /\ Pos(i) # Len(a) + k
        BY <1>6, <1>7, <1>9, <2>1, <3>1
      <3>3. m \in Int
        <4>1. b[k] \in Seq(Int)
          BY LenProperties DEF Pieces
        <4> QED
          BY <3>1, <4>1, LenProperties
      <3>4. CASE Pos(i) < Len(a) + k
        <4>1. t[Pos(i)][j] < t[Len(a) + k][l]
          BY <1>2, <1>5, <3>2, <3>4, PieceOrder
        <4> QED
          BY <3>2, <3>3, <4>1
      <3>5. CASE Len(a) + k < Pos(i)
        <4>1. t[Len(a) + k][l] < t[Pos(i)][j]
          BY <1>2, <1>5, <3>2, <3>5, PieceOrder
        <4> QED
          BY <3>2, <3>3, <4>1
      <3> QED
        BY <1>4, <3>2, <3>4, <3>5
    <2> QED
      BY <2>2, <2>3
  <1>13. ASSUME NEW m \in MessagesIn(t), m \notin MessagesIn(b) PROVE m \in MessagesIn(u)
    <2>1a. PICK i \in 1 .. Len(t) : \E j \in 1 .. Len(t[i]) : m = t[i][j]
      BY <1>2, <1>13, PieceMember
    <2>1. PICK j \in 1 .. Len(t[i]) : m = t[i][j]
      BY <2>1a
    <2>2. \A k \in 1 .. Len(b) : i # Len(a) + k
      BY <1>7, <1>13, <2>1, PieceMember
    <2>3. PICK p \in 1 .. Len(u) : Pos(p) = i
      BY <1>10, <2>2
    <2> QED
      BY <1>3, <1>6, <2>1, <2>3, PieceMember
  <1> QED
    BY <1>3, <1>11, <1>12, <1>13 DEF t, u, ab

LEMMA JoinMembers ==
  ASSUME NEW a \in Pieces, NEW b \in Pieces
  PROVE  a \o b \in Pieces /\ MessagesIn(a \o b) = MessagesIn(a) \cup MessagesIn(b)
  <1> DEFINE t == a \o b
  <1>1. /\ t \in Pieces /\ Len(t) = Len(a) + Len(b) /\ Len(a) \in Nat /\ Len(b) \in Nat
        /\ \A i \in 1 .. Len(a) + Len(b) : t[i] = IF i <= Len(a) THEN a[i] ELSE b[i - Len(a)]
    BY ConcatProperties, LenProperties DEF Pieces
  <1> HIDE DEF t
  <1>2. \A i \in 1 .. Len(a) : i \in 1 .. Len(t) /\ t[i] = a[i]
    BY <1>1
  <1>3. \A i \in 1 .. Len(b) : Len(a) + i \in 1 .. Len(t) /\ t[Len(a) + i] = b[i]
    BY <1>1
  <1>4. \A i \in 1 .. Len(t) : \/ i \in 1 .. Len(a)
                               \/ i - Len(a) \in 1 .. Len(b) /\ t[i] = b[i - Len(a)]
    BY <1>1
  <1>5. ASSUME NEW m \in MessagesIn(a) \cup MessagesIn(b) PROVE m \in MessagesIn(t)
    <2>1. CASE m \in MessagesIn(a)
      BY <1>1, <1>2, <2>1, PieceMember
    <2>2. CASE m \in MessagesIn(b)
      BY <1>1, <1>3, <2>2, PieceMember
    <2> QED
      BY <2>1, <2>2
  <1>6. ASSUME NEW m \in MessagesIn(t) PROVE m \in MessagesIn(a) \cup MessagesIn(b)
    <2>1a. PICK i \in 1 .. Len(t) : \E j \in 1 .. Len(t[i]) : m = t[i][j]
      BY <1>1, PieceMember
    <2>1. PICK j \in 1 .. Len(t[i]) : m = t[i][j]
      BY <2>1a
    <2>2. CASE i \in 1 .. Len(a)
      BY <1>2, <2>1, <2>2, PieceMember
    <2>3. CASE i - Len(a) \in 1 .. Len(b) /\ t[i] = b[i - Len(a)]
      BY <2>1, <2>3, PieceMember
    <2> QED
      BY <1>4, <2>2, <2>3
  <1> QED
    BY <1>1, <1>5, <1>6 DEF t

\* The inductive part of InOrderOnce: what was dropped had been appended.
LogInv == blocks \in Pieces /\ dropped \subseteq 1 .. appended /\ InOrderOnce

LEMMA PiecesAssociate ==
  ASSUME NEW a \in Pieces, NEW b \in Pieces, NEW c \in Pieces
  PROVE  (a \o b) \o c = a \o (b \o c)
  <1>1. a \in Seq(Seq(Int)) /\ b \in Seq(Seq(Int)) /\ c \in Seq(Seq(Int))
    BY DEF Pieces
  <1> QED
    BY <1>1, ConcatAssociative

LEMMA LogIsAppend ==
  ASSUME NEW w \in Pieces, NEW x \in Pieces, NEW y \in Pieces, NEW c \in Seq(Int)
  PROVE  w \o x \o y \in Pieces /\ w \o x \o y \o <<c>> = Append(w \o x \o y, c)
  <1>1. w \o x \in Pieces
    BY JoinMembers
  <1>2. (w \o x) \o y \in Pieces
    BY <1>1, JoinMembers
  <1> DEFINE z == w \o x \o y
  <1>3. z \in Seq(Seq(Int))
    BY <1>2 DEF Pieces
  <1> HIDE DEF z
  <1>4. Append(z, c) = z \o <<c>>
    BY <1>3, AppendIsConcat
  <1> QED
    BY <1>3, <1>4 DEF z, Pieces

LEMMA InitLogInv == Init => LogInv
  <1> SUFFICES ASSUME Init PROVE LogInv
    OBVIOUS
  <1>1. <<>> \in Pieces /\ <<>> \in Seq(Int) /\ Len(<<>>) = 0
    BY EmptySeq DEF Pieces
  <1>2. Log = Append(<<>>, <<>>)
    <2>1. <<>> \o <<>> = <<>>
      BY <1>1, ConcatEmptySeq DEF Pieces
    <2>2. <<>> \o <<>> \o <<>> \o <<<<>>>> = Append(<<>> \o <<>> \o <<>>, <<>>)
      BY <1>1, LogIsAppend
    <2> QED
      BY <2>1, <2>2 DEF Init, Log, EmptyBuffer
  <1>3. Increasing(<<>>) /\ MessagesIn(<<>>) = {}
    BY <1>1, PieceOrder, PieceMember
  <1>4. Increasing(Log) /\ MessagesIn(Log) = {}
    BY <1>1, <1>2, <1>3, AddEmpty
  <1> QED
    BY <1>1, <1>4 DEF Init, LogInv, InOrderOnce

\* A message goes to the end of the log.
LEMMA AppendKeepsOrder ==
  ASSUME IInv, LogInv, AppendMessage
  PROVE  LogInv'
  <1> DEFINE s == blocks \o toWrite \o buffers
             m == appended + 1
  <1>0. /\ blocks \in Pieces /\ toWrite \in Pieces /\ buffers \in Pieces /\ current \in Seq(Int)
        /\ appended \in Nat
        /\ Increasing(Log) /\ MessagesIn(Log) = (1 .. appended) \ dropped
        /\ dropped \subseteq 1 .. appended
    BY DEF IInv, Shape, LogInv, InOrderOnce, Pieces
  <1>a. \A b \in Pieces, c \in Seq(Int) :
          /\ blocks \o toWrite \o b \in Pieces
          /\ blocks \o toWrite \o b \o <<c>> = Append(blocks \o toWrite \o b, c)
    <2> SUFFICES ASSUME NEW b \in Pieces, NEW c \in Seq(Int)
                 PROVE  /\ blocks \o toWrite \o b \in Pieces
                        /\ blocks \o toWrite \o b \o <<c>> = Append(blocks \o toWrite \o b, c)
      OBVIOUS
    <2>1. blocks \in Pieces /\ toWrite \in Pieces
      BY <1>0
    <2>2. blocks \o toWrite \in Pieces
      BY <2>1, JoinMembers
    <2> DEFINE bt == blocks \o toWrite
               z == bt \o b
    <2> HIDE DEF bt
    <2>3. z \in Seq(Seq(Int))
      BY <2>2, JoinMembers DEF bt, Pieces
    <2> HIDE DEF z
    <2>4. Append(z, c) = z \o <<c>>
      BY <2>3, AppendIsConcat
    <2> QED
      BY <2>3, <2>4 DEF bt, z, Pieces
  <1>1. s \in Pieces /\ Log = Append(s, current)
    BY <1>0, <1>a, Zenon DEF Log
  <1>2. appended' = m /\ m \in Int /\ UNCHANGED <<blocks, toWrite, dropped>>
    BY <1>0 DEF AppendMessage, backVars
  <1> HIDE DEF s
  <1>3. \A k \in MessagesIn(Log) : k < m
    BY <1>0
  <1>4. /\ Increasing(Log') /\ MessagesIn(Log') = MessagesIn(Log) \cup {m}
    <2>1. CASE Fits(current)
      <3>1. current' = Append(current, m) /\ buffers' = buffers
        BY <1>2, <2>1 DEF AppendMessage, Put
      <3>2. current' \in Seq(Int)
        BY <1>0, <1>2, <3>1
      <3>3. Log' = Append(s, current')
        <4>1. Log' = blocks \o toWrite \o buffers \o <<current'>>
          BY <1>2, <3>1 DEF Log
        <4> QED
          BY <1>0, <1>a, <3>2, <4>1, Zenon DEF s
      <3> QED
        BY <1>0, <1>1, <1>2, <1>3, <3>1, <3>3, AddLast
    <2>2. CASE ~Fits(current)
      <3>1. buffers' = Append(buffers, current) /\ current' = Append(<<>>, m)
        <4>1. /\ buffers' = Append(buffers, current)
              /\ current' = Put(IF next # Null THEN Head(next) ELSE EmptyBuffer, m)
          BY <1>2, <2>2 DEF AppendMessage
        <4>2. current' = Put(EmptyBuffer, m)
          BY <4>1, NullIsNotSpare DEF IInv, Shape
        <4>3. Fits(EmptyBuffer)
          BY LogAssumption DEF Fits, EmptyBuffer
        <4> QED
          BY <4>1, <4>2, <4>3 DEF Put, EmptyBuffer
      <3>2. <<>> \in Seq(Int) /\ current' \in Seq(Int) /\ buffers' \in Pieces
        BY <1>0, <1>2, <3>1 DEF Pieces
      <3>3. blocks \o toWrite \o buffers' = Log
        <4> DEFINE bt == blocks \o toWrite
        <4>1. bt \in Seq(Seq(Int)) /\ buffers \in Seq(Seq(Int)) /\ <<current>> \in Seq(Seq(Int))
          <5>1. blocks \o toWrite \in Pieces
            BY <1>0, JoinMembers
          <5> QED
            BY <1>0, <5>1 DEF Pieces
        <4>2. buffers' = buffers \o <<current>>
          BY <1>0, <3>1, AppendIsConcat DEF Pieces
        <4> HIDE DEF bt
        <4>3. (bt \o buffers) \o <<current>> = bt \o (buffers \o <<current>>)
          BY <4>1, ConcatAssociative
        <4> QED
          BY <4>2, <4>3 DEF Log, bt
      <3>4. Log \in Pieces
        BY <1>a, <3>2, <3>3, Zenon
      <3>5. Log' = Append(Log, Append(<<>>, m))
        <4>1. blocks \o toWrite \o buffers' \o <<current'>> = Append(blocks \o toWrite \o buffers', current')
          BY <1>a, <3>2, Zenon
        <4>2. Log' = blocks \o toWrite \o buffers' \o <<current'>>
          BY <1>2 DEF Log
        <4> QED
          BY <3>1, <3>3, <4>1, <4>2
      <3>6. /\ Increasing(Append(Log, <<>>)) /\ MessagesIn(Append(Log, <<>>)) = MessagesIn(Log)
        BY <1>0, <3>4, AddEmpty
      <3>7. /\ MessagesIn(Append(Log, Append(<<>>, m))) = MessagesIn(Append(Log, <<>>)) \cup {m}
            /\ Increasing(Append(Log, Append(<<>>, m)))
        BY <1>2, <1>3, <3>2, <3>4, <3>6, AddLast
      <3> QED
        BY <3>5, <3>6, <3>7
    <2> QED
      BY <2>1, <2>2
  <1>5. MessagesIn(Log') = (1 .. appended') \ dropped'
    BY <1>0, <1>2, <1>4
  <1>6. dropped' \subseteq 1 .. appended'
    BY <1>0, <1>2
  <1> QED
    BY <1>0, <1>2, <1>4, <1>5, <1>6 DEF LogInv, InOrderOnce

\* The critical section leaves an empty buffer behind the log, which is then
\* all in the file and in the back end's hands.
LEMMA SwapKeepsOrder ==
  ASSUME IInv, LogInv, pc \in {"lock", "waiting"}, Swap, UNCHANGED <<appended, blocks, dropped>>
  PROVE  LogInv' /\ MessagesIn(Log) = MessagesIn(blocks') \cup MessagesIn(toWrite')
  <1>0. /\ blocks \in Pieces /\ buffers \in Pieces /\ current \in Seq(Int) /\ toWrite = <<>>
        /\ Increasing(Log) /\ new1 = Spare
    BY DEF IInv, Shape, SparesBalance, LogInv, InOrderOnce, Pieces
  <1>a. <<current>> \in Pieces
    BY <1>0 DEF Pieces
  <1>1. /\ toWrite' = Append(buffers, current) /\ buffers' = <<>> /\ current' = <<>>
    BY <1>0, NullIsNotSpare DEF Swap, EmptyBuffer
  <1>2. <<>> \in Pieces /\ <<>> \in Seq(Int) /\ toWrite' \in Pieces
    BY <1>0, <1>1 DEF Pieces
  <1>3. Log = blocks \o toWrite'
    <2>1. blocks \o <<>> = blocks
      BY <1>0, ConcatEmptySeq DEF Pieces
    <2>2. Log = blocks \o buffers \o <<current>>
      BY <1>0, <2>1 DEF Log
    <2>3. toWrite' = buffers \o <<current>>
      BY <1>0, <1>1, AppendIsConcat DEF Pieces
    <2>4. (blocks \o buffers) \o <<current>> = blocks \o (buffers \o <<current>>)
      BY <1>0, <1>a, PiecesAssociate, Zenon
    <2> QED
      BY <2>2, <2>3, <2>4
  <1>4. Log \in Pieces /\ MessagesIn(Log) = MessagesIn(blocks) \cup MessagesIn(toWrite')
    BY <1>0, <1>2, <1>3, JoinMembers
  <1>5. Log' = Append(Log, <<>>)
    <2>1. (blocks \o toWrite') \o <<>> = blocks \o toWrite'
      BY <1>3, <1>4, ConcatEmptySeq DEF Pieces
    <2>2. blocks \o toWrite' \o <<>> \o <<<<>>>> = Append(blocks \o toWrite' \o <<>>, <<>>)
      BY <1>0, <1>2, LogIsAppend
    <2>3. Log' = blocks \o toWrite' \o <<>> \o <<<<>>>>
      BY <1>1 DEF Log
    <2> QED
      BY <1>3, <2>1, <2>2, <2>3
  <1>6. Increasing(Log') /\ MessagesIn(Log') = MessagesIn(Log)
    BY <1>0, <1>4, <1>5, AddEmpty
  <1> QED
    BY <1>4, <1>6 DEF LogInv, InOrderOnce

\* Writing moves pieces from the back end's hands to the file; the ones cut out
\* are dropped, or empty.
LEMMA WriteKeepsOrder ==
  ASSUME IInv, LogInv, Write
  PROVE  LogInv' /\ MessagesIn(blocks') \cup dropped' = MessagesIn(blocks) \cup dropped \cup MessagesIn(toWrite)
  <1> DEFINE kept == Kept(toWrite)
             cut == SubSeq(toWrite, Len(kept) + 1, Len(toWrite))
             rest == buffers \o <<current>>
             moved == IF kept = <<EmptyBuffer>> THEN <<>> ELSE kept
             gone == IF kept = <<EmptyBuffer>> THEN toWrite ELSE cut
  <1>0. /\ blocks \in Pieces /\ toWrite \in Pieces /\ buffers \in Pieces /\ current \in Seq(Int)
        /\ appended \in Nat
        /\ Increasing(Log) /\ MessagesIn(Log) = (1 .. appended) \ dropped
        /\ dropped \subseteq 1 .. appended
        /\ <<current>> \in Pieces /\ rest \in Pieces
    <2>1. <<current>> \in Pieces
      BY DEF IInv, Shape, Pieces
    <2>2. buffers \in Pieces
      BY DEF IInv, Shape, Pieces
    <2>3. rest \in Pieces
      BY <2>1, <2>2, JoinMembers
    <2> QED
      BY <2>1, <2>3 DEF IInv, Shape, LogInv, InOrderOnce, Pieces
  <1>1. /\ dropped' = dropped \cup MessagesIn(cut)
        /\ blocks' = IF kept = <<EmptyBuffer>> THEN blocks ELSE blocks \o kept
        /\ toWrite' = <<>> /\ UNCHANGED <<appended, buffers, current>>
    BY DEF Write, frontVars
  <1>2. kept \in Pieces /\ cut \in Pieces /\ toWrite = kept \o cut
    <2>1. CASE Len(toWrite) > DropLimit
      <3>1. Len(toWrite) \in Nat /\ Len(toWrite) >= 2
        BY <1>0, <2>1, LogAssumption DEF Pieces
      <3>2. kept = SubSeq(toWrite, 1, 2)
        BY <2>1 DEF Kept
      <3>3. /\ kept \in Pieces /\ Len(kept) = 2
            /\ cut = SubSeq(toWrite, 2 + 1, Len(toWrite)) /\ cut \in Pieces
        BY <1>0, <3>1, <3>2 DEF Pieces
      <3>4. SubSeq(toWrite, 1, 2) \o SubSeq(toWrite, 2 + 1, Len(toWrite)) = SubSeq(toWrite, 1, Len(toWrite))
        <4>1. 1 \in 1 .. Len(toWrite) + 1 /\ 2 \in 1 - 1 .. Len(toWrite) /\ Len(toWrite) \in 2 .. Len(toWrite)
          BY <3>1
        <4> QED
          BY <1>0, <4>1, ConcatAdjacentSubSeq, Zenon DEF Pieces
      <3>5. SubSeq(toWrite, 1, Len(toWrite)) = toWrite
        <4>1. toWrite \in Seq(Seq(Int)) /\ \A i \in 1 .. Len(toWrite) : toWrite[i] \in Seq(Int)
          BY <1>0, LenProperties DEF Pieces
        <4> DEFINE w == SubSeq(toWrite, 1, Len(toWrite))
        <4>2. w \in Seq(Seq(Int)) /\ Len(w) = Len(toWrite) /\ \A i \in 1 .. Len(toWrite) : w[i] = toWrite[i]
          BY <3>1, <4>1, SubSeqProperties
        <4> HIDE DEF w
        <4>3. w = toWrite
          BY <4>1, <4>2, SeqEqual
        <4> QED
          BY <4>3 DEF w
      <3> QED
        BY <3>2, <3>3, <3>4, <3>5
    <2>2. CASE ~(Len(toWrite) > DropLimit)
      <3>1. kept = toWrite /\ Len(toWrite) \in Nat
        BY <1>0, <2>2, LenProperties DEF Kept, Pieces
      <3>2. cut = <<>> /\ <<>> \in Pieces
        BY <3>1, SubSeqEmpty, EmptySeq DEF Pieces
      <3> QED
        BY <1>0, <3>1, <3>2, ConcatEmptySeq DEF Pieces
    <2> QED
      BY <2>1, <2>2
  <1>3. /\ moved \in Pieces /\ gone \in Pieces /\ toWrite = moved \o gone
        /\ blocks' = blocks \o moved /\ MessagesIn(gone) = MessagesIn(cut)
    <2>1. CASE kept = <<EmptyBuffer>>
      <3>1. moved = <<>> /\ gone = toWrite /\ <<>> \in Pieces
        BY <2>1 DEF Pieces
      <3>2. <<>> \o toWrite = toWrite /\ blocks \o <<>> = blocks
        BY <1>0, ConcatEmptySeq DEF Pieces
      <3>3. MessagesIn(toWrite) = MessagesIn(kept) \cup MessagesIn(cut)
        BY <1>2, JoinMembers
      <3>4. MessagesIn(kept) = {}
        <4>1. <<<<>>>> \in Pieces /\ Len(<<<<>>>>) = 1 /\ <<<<>>>>[1] = <<>> /\ Len(<<>>) = 0
          BY DEF Pieces
        <4> DEFINE e == <<<<>>>>
        <4> HIDE DEF e
        <4>2. ASSUME NEW k PROVE k \notin MessagesIn(e)
          <5>1. \A i \in 1 .. Len(e) : Len(e[i]) = 0
            BY <4>1 DEF e
          <5> QED
            BY <4>1, <5>1, PieceMember DEF e
        <4> QED
          BY <2>1, <4>2 DEF e, EmptyBuffer
      <3> QED
        BY <1>0, <1>1, <2>1, <3>1, <3>2, <3>3, <3>4
    <2>2. CASE kept # <<EmptyBuffer>>
      BY <1>1, <1>2, <2>2
    <2> QED
      BY <2>1, <2>2
  <1> HIDE DEF kept, cut, rest, moved, gone
  <1>4. blocks' \in Pieces /\ MessagesIn(blocks') = MessagesIn(blocks) \cup MessagesIn(moved)
    BY <1>0, <1>3, JoinMembers
  <1>5. MessagesIn(toWrite) = MessagesIn(moved) \cup MessagesIn(cut)
    BY <1>3, JoinMembers
  <1>6. Log = blocks' \o gone \o rest
    <2>1. blocks \o (moved \o gone) = (blocks \o moved) \o gone
      <3>1. blocks \in Pieces /\ moved \in Pieces /\ gone \in Pieces
        BY <1>0, <1>3
      <3> QED
        BY <3>1, PiecesAssociate
    <2>2. blocks \o toWrite \in Pieces
      BY <1>0, JoinMembers
    <2>3. ((blocks \o toWrite) \o buffers) \o <<current>> = (blocks \o toWrite) \o (buffers \o <<current>>)
      BY <1>0, <2>2, PiecesAssociate, Zenon
    <2> QED
      BY <1>3, <2>1, <2>3 DEF Log, rest
  <1>7. Log' = blocks' \o rest
    <2>1. blocks' \o <<>> = blocks'
      BY <1>4, ConcatEmptySeq DEF Pieces
    <2>2. (blocks' \o buffers) \o <<current>> = blocks' \o (buffers \o <<current>>)
      BY <1>0, <1>4, PiecesAssociate, Zenon
    <2>3. Log' = blocks' \o <<>> \o buffers \o <<current>>
      BY <1>1 DEF Log
    <2> QED
      BY <2>1, <2>2, <2>3 DEF rest
  <1>8. Increasing(Log') /\ MessagesIn(Log') = MessagesIn(Log) \ MessagesIn(cut)
    BY <1>0, <1>3, <1>4, <1>6, <1>7, Cut
  <1>9. MessagesIn(cut) \subseteq MessagesIn(Log)
    <2>1. blocks' \o gone \in Pieces /\ MessagesIn(blocks' \o gone) = MessagesIn(blocks') \cup MessagesIn(gone)
      BY <1>3, <1>4, JoinMembers
    <2>2. MessagesIn(Log) = MessagesIn(blocks' \o gone) \cup MessagesIn(rest)
      BY <1>0, <1>6, <2>1, JoinMembers
    <2> QED
      BY <1>3, <2>1, <2>2
  <1>10. MessagesIn(Log') = (1 .. appended') \ dropped' /\ dropped' \subseteq 1 .. appended'
    BY <1>0, <1>1, <1>8, <1>9
  <1>11. LogInv'
    BY <1>4, <1>8, <1>10 DEF LogInv, InOrderOnce
  <1>12. MessagesIn(blocks') \cup dropped' = MessagesIn(blocks) \cup dropped \cup MessagesIn(toWrite)
    BY <1>1, <1>4, <1>5
  <1> QED
    BY <1>11, <1>12

\* What becomes of the messages a stop() of an idle back end owes: they are in
\* memory while it is idle, in its hands when it writes, and out afterwards.
OwedInv ==
  /\ owed \subseteq 1 .. appended
  /\ owed # {} => ~running /\ owner \in {"joining", "stopped"}
  /\ owner = "stopped" => pc = "done"
  /\ pc \in {"unborn", "begin"} => owner \in {"new", "starting"}
  /\ pc = "write" => owed \subseteq MessagesIn(blocks) \cup dropped \cup MessagesIn(toWrite)
  /\ pc \in {"while", "done"} => owed \subseteq MessagesIn(blocks) \cup dropped

LEMMA SwapKeepsOwed ==
  ASSUME IInv, LogInv, OwedInv, pc \in {"lock", "waiting"}, Swap,
         UNCHANGED <<ownerVars, appended, blocks, dropped>>
  PROVE  LogInv' /\ OwedInv'
  <1>1. LogInv' /\ MessagesIn(Log) = MessagesIn(blocks') \cup MessagesIn(toWrite')
    BY SwapKeepsOrder
  <1>2. MessagesIn(Log) = (1 .. appended) \ dropped
    BY DEF LogInv, InOrderOnce
  <1>3. pc' = "write" /\ owed' = owed /\ running' = running /\ owner' = owner /\ owner # "stopped"
    BY DEF Swap, ownerVars, OwedInv
  <1>4. owed \subseteq MessagesIn(blocks') \cup dropped' \cup MessagesIn(toWrite')
    BY <1>1, <1>2 DEF OwedInv
  <1> QED
    BY <1>1, <1>3, <1>4 DEF OwedInv

LEMMA LogStep == IInv /\ LogInv /\ OwedInv /\ [Next]_vars => LogInv' /\ OwedInv'
  <1> SUFFICES ASSUME IInv, LogInv, OwedInv, [Next]_vars PROVE LogInv' /\ OwedInv'
    OBVIOUS
  <1>0. ASSUME UNCHANGED <<appended, current, buffers, toWrite, blocks, dropped>> PROVE LogInv'
    <2>1. Log' = Log
      BY <1>0 DEF Log
    <2> QED
      BY <1>0, <2>1 DEF LogInv, InOrderOnce
  <1>1. ASSUME AppendMessage PROVE LogInv' /\ OwedInv'
    <2>1. LogInv'
      BY <1>1, AppendKeepsOrder
    <2>2. 1 .. appended \subseteq 1 .. appended'
      BY <1>1 DEF AppendMessage, IInv, Shape
    <2>3. UNCHANGED <<pc, toWrite, blocks, dropped, owner, running, owed>>
      BY <1>1 DEF AppendMessage, backVars, ownerVars
    <2> QED
      BY <2>1, <2>2, <2>3 DEF OwedInv
  <1>2. ASSUME Start PROVE LogInv' /\ OwedInv'
    <2>1. UNCHANGED <<appended, current, buffers, toWrite, blocks, dropped, owed>>
      BY <1>2 DEF Start, frontVars
    <2>2. owed = {}
      BY <1>2 DEF Start, OwedInv
    <2> QED
      BY <1>0, <1>2, <2>1, <2>2 DEF Start, OwedInv
  <1>3. ASSUME StartReturns PROVE LogInv' /\ OwedInv'
    <2>1. UNCHANGED <<appended, current, buffers, toWrite, blocks, dropped, owed, pc, running>>
      BY <1>3 DEF StartReturns, frontVars, backVars
    <2>2. pc \notin {"unborn", "begin"}
      BY <1>3 DEF StartReturns, IInv, LatchGuardsStop
    <2> QED
      BY <1>0, <1>3, <2>1, <2>2 DEF StartReturns, OwedInv
  <1>4. ASSUME Stop PROVE LogInv' /\ OwedInv'
    <2>1. UNCHANGED <<appended, current, buffers, toWrite, blocks, dropped, pc>>
      BY <1>4 DEF Stop, frontVars, backVars
    <2>2. pc \notin {"unborn", "begin"} /\ owner' = "joining" /\ ~running'
      BY <1>4 DEF Stop, OwedInv
    <2>3. owed' = {} \/ (owed' = 1 .. appended /\ pc \in {"lock", "waiting"})
      BY <1>4 DEF Stop
    <2> QED
      BY <1>0, <2>1, <2>2, <2>3 DEF OwedInv
  <1>5. ASSUME Join PROVE LogInv' /\ OwedInv'
    <2>1. UNCHANGED <<appended, current, buffers, toWrite, blocks, dropped, owed, pc, running>>
      BY <1>5 DEF Join, frontVars, backVars
    <2> QED
      BY <1>0, <1>5, <2>1 DEF Join, OwedInv
  <1>6. ASSUME Begin PROVE LogInv' /\ OwedInv'
    <2>1. UNCHANGED <<appended, current, buffers, toWrite, blocks, dropped, owed, owner, running>>
      BY <1>6 DEF Begin, frontVars, ownerVars
    <2>2. owed = {} /\ owner # "stopped"
      BY <1>6 DEF Begin, OwedInv
    <2> QED
      BY <1>0, <1>6, <2>1, <2>2 DEF Begin, OwedInv
  <1>7. ASSUME While PROVE LogInv' /\ OwedInv'
    <2>1. UNCHANGED <<appended, current, buffers, toWrite, blocks, dropped, owed, owner, running>>
      BY <1>7 DEF While, frontVars, ownerVars
    <2> QED
      BY <1>0, <1>7, <2>1 DEF While, OwedInv
  <1>8. ASSUME Lock PROVE LogInv' /\ OwedInv'
    <2>1. CASE buffers = <<>>
      <3>1. /\ UNCHANGED <<appended, current, buffers, toWrite, blocks, dropped, owed, owner, running>>
            /\ pc = "lock" /\ pc' = "waiting"
        BY <1>8, <2>1 DEF Lock, ownerVars
      <3> QED
        BY <1>0, <3>1 DEF OwedInv
    <2>2. CASE buffers # <<>>
      BY <1>8, <2>2, SwapKeepsOwed DEF Lock
    <2> QED
      BY <2>1, <2>2
  <1>9. ASSUME WaitReturns PROVE LogInv' /\ OwedInv'
    BY <1>9, SwapKeepsOwed DEF WaitReturns
  <1>10. ASSUME Write PROVE LogInv' /\ OwedInv'
    <2>1. /\ LogInv'
          /\ MessagesIn(blocks') \cup dropped' = MessagesIn(blocks) \cup dropped \cup MessagesIn(toWrite)
      BY <1>10, WriteKeepsOrder
    <2>2. /\ UNCHANGED <<appended, owner, running, owed>>
          /\ pc = "write" /\ pc' = "while"
      BY <1>10 DEF Write, frontVars, ownerVars
    <2> QED
      BY <2>1, <2>2 DEF OwedInv
  <1>11. CASE UNCHANGED vars
    <2>1. UNCHANGED <<appended, current, buffers, toWrite, blocks, dropped, owed, owner, running, pc>>
      BY <1>11 DEF vars
    <2> QED
      BY <1>0, <2>1 DEF OwedInv
  <1> QED
    BY <1>1, <1>2, <1>3, <1>4, <1>5, <1>6, <1>7, <1>8, <1>9, <1>10, <1>11 DEF Next, BackEnd

LEMMA LogHolds == Spec => []LogInv /\ []OwedInv
  <1>1. Init => OwedInv
    BY DEF Init, OwedInv
  <1> QED
    BY InitIInv, Step, InitLogInv, <1>1, LogStep, PTL DEF Spec

\* However appends, swaps and writes interleave, and whatever the drop rule
\* cuts out, the log is what was appended without what was dropped, in order
\* and each message once.
THEOREM LogInOrderOnce == Spec => []InOrderOnce
  <1>1. LogInv => InOrderOnce
    BY DEF LogInv
  <1> QED
    BY LogHolds, <1>1, PTL

\* A stop() that finds the back end idle loses nothing appended before it: the
\* last round of threadFunc writes it.
THEOREM IdleStopLosesNothing == Spec => []IdleStopFlushes
  <1>1. OwedInv => IdleStopFlushes
    BY DEF OwedInv, IdleStopFlushes
  <1> QED
    BY LogHolds, <1>1, PTL

-----------------------------------------------------------------------------
(***************************************************************************)
(* The log statements and the LogFile below them, for any lines, threads,  *)
(* levels and clock.                                                       *)
(***************************************************************************)

\* Days follow one another.
LEMMA PeriodMonotone ==
  ASSUME NEW a \in Nat, NEW b \in Nat, a <= b
  PROVE  Period(a) \in Nat /\ Period(a) <= Period(b)
  <1> DEFINE k == kRollPerSeconds
             qa == a \div k
             qb == b \div k
  <1>1. k \in Nat /\ k > 0
    BY LogFileAssumption
  <1>2. qa \in Nat /\ qb \in Nat
    BY <1>1
  <1>3. qa * k <= a /\ b < (qb + 1) * k
    BY <1>1
  <1> HIDE DEF k, qa, qb
  <1>4. qa <= qb
    <2> SUFFICES ASSUME qb + 1 <= qa PROVE FALSE
      BY <1>2
    <2>1. (qb + 1) * k <= qa * k
      BY <1>1, <1>2
    <2> QED
      BY <1>1, <1>2, <1>3, <2>1
  <1>5. qa * k <= qb * k /\ qa * k \in Nat
    BY <1>1, <1>2, <1>4
  <1> QED
    BY <1>5 DEF Period, k, qa, qb

FileTypes ==
  /\ now \in Nat \ {0} /\ lastRoll \in Nat /\ lastFlush \in Nat /\ waiting \in Nat
  /\ count \in 0 .. kCheckTimeRoll + 1
  /\ stale \in Nat /\ overdue \in Nat
  /\ startOfPeriod = Period(lastRoll)

\* While the clock is not set back: files and flushes follow the clock, and a
\* late line is paid for by a count, all but the one that is being appended.
InTime ==
  /\ lastRoll <= lastFlush /\ lastFlush <= now
  /\ waiting # 0 => lastFlush <= waiting /\ waiting <= now
  /\ stale > 0 => Period(now) > Period(lastRoll)
  /\ overdue > 0 => waiting # 0 /\ now - waiting > FlushInterval
  /\ stage = "idle" => stale <= count /\ overdue <= count
  /\ stage # "idle" => stale <= count + 1 /\ overdue <= count + 1

FileInv == FileTypes /\ (~stepped => InTime)

LEMMA FileInitInv == FileInit => FileInv
  BY LogFileAssumption DEF FileInit, FileInv, FileTypes, InTime

LEMMA FileAppendInv ==
  ASSUME FileInv, NEW len, NEW n, FileAppend(len, n)
  PROVE  FileInv'
  <1>1. /\ stage = "idle" /\ stage' \in {"check", "retry"}
        /\ UNCHANGED <<now, count, startOfPeriod, lastRoll, lastFlush, stepped>>
    BY DEF FileAppend
  <1>2. waiting' = IF waiting # 0 THEN waiting ELSE IF stepped THEN 1 ELSE now
    BY DEF FileAppend
  <1>3. waiting' \in Nat \ {0}
    BY <1>2 DEF FileInv, FileTypes
  <1>4. /\ stale' \in Nat
        /\ stale' = stale \/ (stale' = stale + 1 /\ Period(now) > Period(lastRoll))
    BY DEF FileAppend, Counted, FileInv, FileTypes
  <1>5. /\ overdue' \in Nat
        /\ overdue' = overdue \/ (overdue' = overdue + 1 /\ now - waiting' > FlushInterval)
    BY DEF FileAppend, Counted, FileInv, FileTypes
  <1>6. FileTypes'
    BY <1>1, <1>3, <1>4, <1>5 DEF FileInv, FileTypes, Period
  <1>7. ASSUME ~stepped PROVE InTime'
    <2>1. InTime
      BY <1>7 DEF FileInv
    <2>2. lastFlush' <= waiting' /\ waiting' <= now' /\ (waiting # 0 => waiting' = waiting)
      BY <1>1, <1>2, <1>7, <2>1 DEF InTime, FileInv, FileTypes
    <2>3. stale' <= count' + 1 /\ overdue' <= count' + 1
      BY <1>1, <1>4, <1>5, <2>1 DEF InTime, FileInv, FileTypes
    <2>4. stale' > 0 => Period(now') > Period(lastRoll')
      BY <1>1, <1>4, <2>1 DEF InTime, FileInv, FileTypes, Period
    <2>5. overdue' > 0 => waiting' # 0 /\ now' - waiting' > FlushInterval
      BY <1>1, <1>3, <1>5, <2>1, <2>2 DEF InTime, FileInv, FileTypes
    <2> QED
      BY <1>1, <2>1, <2>2, <2>3, <2>4, <2>5 DEF InTime
  <1> QED
    BY <1>1, <1>6, <1>7 DEF FileInv

LEMMA RetryInv ==
  ASSUME FileInv, Retry \/ RetryFails \/ ReadFaults
  PROVE  FileInv'
  <1>1. /\ stage # "idle" /\ stage' # "idle"
        /\ UNCHANGED <<now, count, startOfPeriod, lastRoll, lastFlush, stepped, waiting, stale, overdue>>
    BY DEF Retry, RetryFails, ReadFaults
  <1> QED
    BY <1>1 DEF FileInv, FileTypes, InTime, Period

\* A roll empties the old file's accounts, and it is refused only within the
\* second of the last one, when nothing is late.
LEMMA RollFileInv ==
  ASSUME FileInv, stage # "idle", stage' = "idle", RollFile, UNCHANGED <<now, stepped>>,
         count' = count \/ (count' = 0 /\ now > lastRoll)
  PROVE  FileInv'
  <1>1. CASE now > lastRoll
    <2>1. /\ lastRoll' = now /\ lastFlush' = now /\ startOfPeriod' = Period(now)
          /\ stale' = 0 /\ waiting' = 0 /\ overdue' = 0
      BY <1>1 DEF RollFile, Flushed
    <2>2. count' \in 0 .. kCheckTimeRoll + 1
      BY LogFileAssumption DEF FileInv, FileTypes
    <2> QED
      BY <2>1, <2>2 DEF FileInv, FileTypes, InTime, Period
  <1>2. CASE ~(now > lastRoll)
    <2>1. UNCHANGED <<lastRoll, lastFlush, startOfPeriod, waiting, stale, overdue, now, stepped, count>>
      BY <1>2 DEF RollFile
    <2>2. FileTypes'
      BY <2>1 DEF FileInv, FileTypes, Period
    <2>3. ASSUME ~stepped PROVE InTime'
      <3>1. InTime
        BY <2>3 DEF FileInv
      <3>2. now = lastRoll
        BY <1>2, <3>1 DEF InTime, FileInv, FileTypes
      <3>3. Period(now) \in Nat /\ Period(now) = Period(lastRoll)
        BY <3>2, PeriodMonotone DEF FileInv, FileTypes
      <3>4. stale = 0
        BY <3>1, <3>3 DEF InTime, FileInv, FileTypes
      <3>5. overdue = 0
        BY <3>1, <3>2, LogFileAssumption DEF InTime, FileInv, FileTypes
      <3>6. stale' <= count' /\ overdue' <= count'
        BY <2>1, <3>4, <3>5 DEF FileInv, FileTypes
      <3> QED
        BY <2>1, <3>1, <3>6 DEF InTime, Period
    <2> QED
      BY <2>1, <2>2, <2>3 DEF FileInv
  <1> QED
    BY <1>1, <1>2

\* When the time is looked at, what is late is rolled or flushed.
LEMMA CheckTimeInv ==
  ASSUME FileInv, stage # "idle", stage' = "idle", CheckTime, UNCHANGED <<now, stepped>>
  PROVE  FileInv'
  <1>1. CASE count > kCheckTimeRoll /\ Period(now) # startOfPeriod
    <2>1. count' = 0 /\ RollFile
      BY <1>1 DEF CheckTime
    <2>2. CASE stepped \/ now > lastRoll
      <3>1. CASE now > lastRoll
        BY <2>1, <3>1, RollFileInv
      <3>2. CASE stepped /\ ~(now > lastRoll)
        <4>1. UNCHANGED <<lastRoll, lastFlush, startOfPeriod, waiting, stale, overdue>>
          BY <2>1, <3>2 DEF RollFile
        <4> QED
          BY <2>1, <3>2, <4>1, LogFileAssumption DEF FileInv, FileTypes, Period
      <3> QED
        BY <2>2, <3>1, <3>2
    <2>3. CASE ~stepped /\ ~(now > lastRoll)
      <3>1. now = lastRoll
        BY <2>3 DEF FileInv, FileTypes, InTime
      <3> QED
        BY <1>1, <3>1 DEF FileInv, FileTypes
    <2> QED
      BY <2>2, <2>3
  <1>2. CASE count > kCheckTimeRoll /\ Period(now) = startOfPeriod
    <2>1. /\ count' = 0 /\ FlushIfDue
          /\ UNCHANGED <<startOfPeriod, lastRoll, stale>>
      BY <1>2 DEF CheckTime
    <2>2. CASE now - lastFlush > FlushInterval
      <3>1. lastFlush' = now /\ waiting' = 0 /\ overdue' = 0
        BY <2>1, <2>2 DEF FlushIfDue, Flushed
      <3>2. FileTypes'
        BY <2>1, <3>1, LogFileAssumption DEF FileInv, FileTypes, Period
      <3>3. ASSUME ~stepped PROVE InTime'
        <4>1. stale = 0
          <5>1. Period(now) \in Nat /\ Period(now) = Period(lastRoll)
            BY <1>2, PeriodMonotone DEF FileInv, FileTypes
          <5> QED
            BY <3>3, <5>1 DEF FileInv, FileTypes, InTime
        <4>2. lastRoll' <= lastFlush'
          BY <2>1, <3>1, <3>3 DEF FileInv, FileTypes, InTime
        <4> QED
          BY <2>1, <3>1, <4>1, <4>2 DEF FileInv, FileTypes, InTime
      <3> QED
        BY <3>2, <3>3 DEF FileInv
    <2>3. CASE ~(now - lastFlush > FlushInterval)
      <3>1. UNCHANGED <<lastFlush, waiting, overdue>>
        BY <2>1, <2>3 DEF FlushIfDue
      <3>2. FileTypes'
        BY <2>1, <3>1, LogFileAssumption DEF FileInv, FileTypes, Period
      <3>3. ASSUME ~stepped PROVE InTime'
        <4>1. stale = 0
          <5>1. Period(now) \in Nat /\ Period(now) = Period(lastRoll)
            BY <1>2, PeriodMonotone DEF FileInv, FileTypes
          <5> QED
            BY <3>3, <5>1 DEF FileInv, FileTypes, InTime
        <4>2. overdue = 0
          BY <2>3, <3>3, LogFileAssumption DEF FileInv, FileTypes, InTime
        <4>3. InTime
          BY <3>3 DEF FileInv
        <4> QED
          BY <2>1, <3>1, <4>1, <4>2, <4>3 DEF InTime, Period
      <3> QED
        BY <3>2, <3>3 DEF FileInv
    <2> QED
      BY <2>2, <2>3
  <1>3. CASE ~(count > kCheckTimeRoll)
    <2>1. /\ count' = count + 1
          /\ UNCHANGED <<startOfPeriod, lastRoll, lastFlush, waiting, stale, overdue, now, stepped>>
      BY <1>3 DEF CheckTime
    <2>2. FileTypes'
      BY <1>3, <2>1, LogFileAssumption DEF FileInv, FileTypes, Period
    <2> QED
      BY <2>1, <2>2 DEF FileInv, FileTypes, InTime, Period
  <1> QED
    BY <1>1, <1>2, <1>3

LEMMA AppendUnlockedInv ==
  ASSUME FileInv, AppendUnlocked
  PROVE  FileInv'
  <1>1. stage = "check" /\ stage' = "idle" /\ UNCHANGED <<now, stepped>>
    BY DEF AppendUnlocked
  <1>2. (RollFile /\ count' = count) \/ CheckTime
    BY DEF AppendUnlocked
  <1> QED
    BY <1>1, <1>2, RollFileInv, CheckTimeInv

LEMMA FlushInv ==
  ASSUME FileInv, Flush
  PROVE  FileInv'
  <1>1. /\ waiting' = 0 /\ overdue' = 0
        /\ UNCHANGED <<now, stage, count, startOfPeriod, lastRoll, lastFlush, stepped, stale>>
    BY DEF Flush, Flushed
  <1> QED
    BY <1>1 DEF FileInv, FileTypes, InTime, Period

LEMMA Later ==
  ASSUME NEW a \in Nat, NEW b \in Nat, NEW w \in Nat, NEW f \in Nat, b > a, a - w > f
  PROVE  b - w > f
  OBVIOUS

LEMMA ClockInv ==
  ASSUME FileInv, ClockMoves \/ ClockSetBack
  PROVE  FileInv'
  <1>1. CASE ClockMoves
    <2>1. /\ now' \in Nat \ {0} /\ now' > now
          /\ UNCHANGED <<stage, count, startOfPeriod, lastRoll, lastFlush, stepped, waiting, stale, overdue>>
      BY <1>1, LogFileAssumption DEF ClockMoves, FileInv, FileTypes
    <2>2. Period(now) \in Nat /\ Period(now') \in Nat /\ Period(now) <= Period(now') /\ Period(lastRoll) \in Nat
      BY <2>1, PeriodMonotone DEF FileInv, FileTypes
    <2>3. Period(lastRoll') = Period(lastRoll)
      BY <2>1 DEF Period
    <2>4. FileTypes'
      BY <2>1, <2>3 DEF FileInv, FileTypes
    <2>5. ASSUME ~stepped PROVE InTime'
      <3>1. InTime
        BY <2>5 DEF FileInv
      <3>2. stale' > 0 => Period(now') > Period(lastRoll')
        <4>1. stale > 0 => Period(now) > Period(lastRoll)
          BY <3>1 DEF InTime
        <4> QED
          BY <2>1, <2>2, <2>3, <4>1
      <3>3. overdue' > 0 => waiting' # 0 /\ now' - waiting' > FlushInterval
        <4>1. overdue > 0 => waiting # 0 /\ now - waiting > FlushInterval
          BY <3>1 DEF InTime
        <4>2. now \in Nat /\ waiting \in Nat /\ overdue \in Nat /\ FlushInterval \in Nat
          BY LogFileAssumption DEF FileInv, FileTypes
        <4>3. waiting' = waiting /\ overdue' = overdue /\ now' \in Nat /\ now' > now
          BY <2>1
        <4>a. now' \in Nat /\ now' > now
          BY <2>1
        <4>4. now - waiting > FlushInterval => now' - waiting > FlushInterval
          BY <4>2, <4>a, Later
        <4> QED
          BY <4>1, <4>3, <4>4
      <3>4. lastFlush' <= now' /\ (waiting' # 0 => waiting' <= now')
        BY <2>1, <3>1 DEF InTime, FileInv, FileTypes
      <3> QED
        BY <2>1, <3>1, <3>2, <3>3, <3>4 DEF InTime
    <2> QED
      BY <2>1, <2>4, <2>5 DEF FileInv
  <1>2. CASE ClockSetBack
    <2>1. /\ now' \in Nat \ {0} /\ stepped' /\ waiting' \in Nat /\ stale' = 0 /\ overdue' = 0
          /\ UNCHANGED <<count, startOfPeriod, lastRoll, lastFlush>>
      BY <1>2 DEF ClockSetBack, FileInv, FileTypes
    <2> QED
      BY <2>1 DEF FileInv, FileTypes, Period
  <1> QED
    BY <1>1, <1>2

\* Every step of the statements is a step of the LogFile or leaves it alone.
LEMMA FileStep == FileInv /\ [LoggingNext]_loggingVars => FileInv'
  <1> SUFFICES ASSUME FileInv, [LoggingNext]_loggingVars PROVE FileInv'
    OBVIOUS
  <1>0. ASSUME UNCHANGED <<fileVars, clockVars>> PROVE FileInv'
    BY <1>0 DEF fileVars, clockVars, FileInv, FileTypes, InTime, Period
  <1>1. ASSUME SetLogLevel \/ SetOutput \/ SetFlush PROVE FileInv'
    BY <1>0, <1>1 DEF SetLogLevel, SetOutput, SetFlush
  <1>2. ASSUME NEW t \in Threads, NEW level \in Levels, LogToStdout(t, level) PROVE FileInv'
    BY <1>0, <1>2 DEF LogToStdout
  <1>3. ASSUME NEW t \in Threads, NEW level \in Levels, NEW len, LogToFile(t, level, len) PROVE FileInv'
    BY <1>3, FileAppendInv DEF LogToFile
  <1>4. ASSUME NEW t \in Threads, FatalFlush(t) \/ Abort(t) PROVE FileInv'
    BY <1>0, <1>4, FlushInv DEF FatalFlush, Abort
  <1>5. ASSUME OutputRetry PROVE FileInv'
    BY <1>5, RetryInv DEF OutputRetry
  <1>6. ASSUME OutputReturns \/ FlushFile \/ Time PROVE FileInv'
    BY <1>6, AppendUnlockedInv, FlushInv, ClockInv DEF OutputReturns, FlushFile, Time
  <1>7. CASE UNCHANGED loggingVars
    BY <1>0, <1>7 DEF loggingVars
  <1> QED
    BY <1>1, <1>2, <1>3, <1>4, <1>5, <1>6, <1>7 DEF LoggingNext

LEMMA FileHolds == LoggingSpec => []FileInv
  <1>1. LoggingInit => FileInv
    BY FileInitInv DEF LoggingInit
  <1> QED
    BY <1>1, FileStep, PTL DEF LoggingSpec

\* Whatever is logged, written short, retried, flushed or rolled by size, or
\* not rolled in the second of the last roll, a new day begins a new file
\* within kCheckTimeRoll_ + 2 lines of it.
THEOREM DayRolls == LoggingSpec => []DayRollInTime
  <1>1. FileInv => DayRollInTime
    BY LogFileAssumption DEF FileInv, FileTypes, InTime, DayRollInTime
  <1> QED
    BY <1>1, FileHolds, PTL

\* And a line that has waited too long reaches the file within as many appends.
THEOREM LateLinesFlushed == LoggingSpec => []FlushInTime
  <1>1. FileInv => FlushInTime
    BY LogFileAssumption DEF FileInv, FileTypes, InTime, FlushInTime
  <1> QED
    BY <1>1, FileHolds, PTL

\* A thread that has handed its line to the LogFile is the one that has its
\* mutex, and nobody is in it while it is idle.
WriterInv ==
  /\ at \in [Threads -> {"idle", "file", "output", "flushed", "aborted"}]
  /\ sent \in [Threads -> {"stdout", "file"}]
  /\ stage # "idle" => writer.thread \in Threads /\ at[writer.thread] = "file"

\* The text of the time is the text of the second it was made for.
TextInv ==
  /\ lastSecond \in [Threads -> Nat]
  /\ timeText = lastSecond

LoggingInv == WriterInv /\ TextInv /\ FatalLineIsOut

\* What formatTime leaves.
LEMMA FormatTimeShows ==
  ASSUME NEW t \in Threads, now \in Nat, TextInv, FormatTime(t)
  PROVE  /\ TextInv' /\ timeText'[t] = now
         /\ \A u \in Threads : u # t => lastSecond'[u] = lastSecond[u]
  BY DEF TextInv, FormatTime, timeVars

LEMMA LoggingStep ==
  ASSUME FileInv, LoggingInv, [LoggingNext]_loggingVars
  PROVE  /\ LoggingInv'
         /\ \A t \in Threads : at[t] = "idle" /\ (at'[t] # "idle" \/ lastSecond'[t] # lastSecond[t])
              => timeText'[t] = now
  <1> DEFINE Shown == \A t \in Threads : at[t] = "idle" /\ (at'[t] # "idle" \/ lastSecond'[t] # lastSecond[t])
                        => timeText'[t] = now
  <1> USE DEF LoggingInv
  <1>0. now \in Nat
    BY DEF FileInv, FileTypes
  <1>a. ASSUME UNCHANGED <<timeVars, at, sent, held, writer, stage>> PROVE LoggingInv' /\ Shown
    BY <1>a DEF timeVars, WriterInv, TextInv, FatalLineIsOut
  <1>1. ASSUME SetLogLevel \/ SetOutput \/ SetFlush PROVE LoggingInv' /\ Shown
    BY <1>a, <1>1 DEF SetLogLevel, SetOutput, SetFlush, fileVars
  <1>2. ASSUME NEW t \in Threads, NEW level \in Levels, LogToStdout(t, level)
        PROVE  LoggingInv' /\ Shown
    <2>1. /\ at[t] = "idle" /\ FormatTime(t) /\ AfterOutput(t, level = FATAL, "stdout")
          /\ stage' = stage /\ writer' = writer /\ held' = held
      BY <1>2 DEF LogToStdout, Build, fileVars
    <2>2. /\ TextInv' /\ timeText'[t] = now
          /\ \A u \in Threads : u # t => lastSecond'[u] = lastSecond[u]
      BY <1>0, <2>1, FormatTimeShows
    <2>3. PICK a \in {"output", "idle"}, x \in {"stdout", "file"} :
            at' = [at EXCEPT ![t] = a] /\ sent' = [sent EXCEPT ![t] = x]
      BY <2>1 DEF AfterOutput, WriterInv
    <2>4. WriterInv'
      BY <2>1, <2>3 DEF WriterInv
    <2>5. FatalLineIsOut'
      BY <2>1, <2>3 DEF WriterInv, FatalLineIsOut
    <2>6. Shown
      BY <2>2, <2>3 DEF WriterInv
    <2> QED
      BY <2>2, <2>4, <2>5, <2>6
  <1>3. ASSUME NEW t \in Threads, NEW level \in Levels, NEW len, LogToFile(t, level, len)
        PROVE  LoggingInv' /\ Shown
    <2>1. /\ at[t] = "idle" /\ FormatTime(t) /\ at' = [at EXCEPT ![t] = "file"] /\ sent' = sent
          /\ writer' = [thread |-> t, fatal |-> level = FATAL]
          /\ held' \subseteq held \cup {t}
      BY <1>3 DEF LogToFile, Build, Keep
    <2>2. /\ TextInv' /\ timeText'[t] = now
          /\ \A u \in Threads : u # t => lastSecond'[u] = lastSecond[u]
      BY <1>0, <2>1, FormatTimeShows
    <2>4. WriterInv'
      BY <2>1 DEF WriterInv
    <2>5. FatalLineIsOut'
      BY <2>1 DEF WriterInv, FatalLineIsOut
    <2>6. Shown
      BY <2>1, <2>2 DEF WriterInv
    <2> QED
      BY <2>2, <2>4, <2>5, <2>6
  <1>4. ASSUME NEW t \in Threads, FatalFlush(t) PROVE LoggingInv' /\ Shown
    <2>1. /\ at[t] = "output" /\ at' = [at EXCEPT ![t] = "flushed"]
          /\ UNCHANGED <<lastSecond, timeText, writer>>
      BY <1>4 DEF FatalFlush, timeVars
    <2>2. CASE flush = "file" /\ Flush /\ Keep({}) /\ UNCHANGED sent
      <3>1. stage' = stage /\ held' = {}
        BY <2>2 DEF Flush, Flushed, Keep
      <3> QED
        BY <2>1, <2>2, <3>1 DEF WriterInv, TextInv, FatalLineIsOut
    <2>3. CASE sent' = [sent EXCEPT ![t] = "stdout"] /\ UNCHANGED <<fileVars, clockVars, held>>
      <3>1. stage' = stage /\ held' = held
        BY <2>3 DEF fileVars
      <3> QED
        BY <2>1, <2>3, <3>1 DEF WriterInv, TextInv, FatalLineIsOut
    <2> QED
      BY <1>4, <2>2, <2>3 DEF FatalFlush
  <1>5. ASSUME NEW t \in Threads, Abort(t) PROVE LoggingInv' /\ Shown
    <2>1. /\ at[t] = "flushed" /\ at' = [at EXCEPT ![t] = "aborted"]
          /\ UNCHANGED <<lastSecond, timeText, writer, sent, held, stage>>
      BY <1>5 DEF Abort, timeVars, fileVars
    <2> QED
      BY <2>1 DEF WriterInv, TextInv, FatalLineIsOut
  <1>6. ASSUME OutputRetry PROVE LoggingInv' /\ Shown
    <2>1. stage # "idle" /\ UNCHANGED <<timeVars, at, sent, writer, held>>
      BY <1>6 DEF OutputRetry, Retry, RetryFails, ReadFaults
    <2> QED
      BY <2>1 DEF timeVars, WriterInv, TextInv, FatalLineIsOut
  <1>7. ASSUME OutputReturns PROVE LoggingInv' /\ Shown
    <2> DEFINE t == writer.thread
    <2>1. /\ stage = "check" /\ stage' = "idle" /\ AfterOutput(t, writer.fatal, "file")
          /\ UNCHANGED timeVars /\ held' \subseteq held
      BY <1>7 DEF OutputReturns, AppendUnlocked, Keep
    <2>2. t \in Threads /\ at[t] = "file"
      BY <2>1 DEF WriterInv
    <2> HIDE DEF t
    <2>3. PICK a \in {"output", "idle"}, x \in {"stdout", "file"} :
            at' = [at EXCEPT ![t] = a] /\ sent' = [sent EXCEPT ![t] = x]
      BY <2>1, <2>2 DEF AfterOutput, WriterInv
    <2> QED
      BY <2>1, <2>2, <2>3 DEF timeVars, WriterInv, TextInv, FatalLineIsOut
  <1>8. ASSUME FlushFile PROVE LoggingInv' /\ Shown
    <2>1. UNCHANGED <<timeVars, at, sent, writer, stage>> /\ held' \subseteq held
      BY <1>8 DEF FlushFile, Flush, Keep
    <2> QED
      BY <2>1 DEF timeVars, WriterInv, TextInv, FatalLineIsOut
  <1>9. ASSUME Time PROVE LoggingInv' /\ Shown
    BY <1>a, <1>9 DEF Time, ClockMoves, ClockSetBack
  <1>10. CASE UNCHANGED loggingVars
    BY <1>a, <1>10 DEF loggingVars, fileVars
  <1> QED
    BY <1>1, <1>2, <1>3, <1>4, <1>5, <1>6, <1>7, <1>8, <1>9, <1>10 DEF LoggingNext

LEMMA LoggingHolds == LoggingSpec => []LoggingInv
  <1>1. LoggingInit => LoggingInv
    BY DEF LoggingInit, FileInit, LoggingInv, WriterInv, TextInv, FatalLineIsOut
  <1>2. FileInv /\ LoggingInv /\ [LoggingNext]_loggingVars => LoggingInv'
    BY LoggingStep
  <1> QED
    BY <1>1, <1>2, FileHolds, PTL DEF LoggingSpec

\* When a FATAL statement ends the process its line is in the file, whatever
\* the other threads log, flush and roll between its three steps.
THEOREM FatalLinesOut == LoggingSpec => []FatalLineIsOut
  <1>1. LoggingInv => FatalLineIsOut
    BY DEF LoggingInv
  <1> QED
    BY <1>1, LoggingHolds, PTL

\* A line is headed by its own second, for any number of threads and any clock.
THEOREM LinesShowTheirSecond == LoggingSpec => LineShowsItsSecond
  <1> DEFINE Shown == \A t \in Threads : at[t] = "idle" /\ (at'[t] # "idle" \/ lastSecond'[t] # lastSecond[t])
                        => timeText'[t] = now
  <1>1. FileInv /\ LoggingInv /\ [LoggingNext]_loggingVars => [Shown]_loggingVars
    BY LoggingStep
  <1> QED
    BY <1>1, FileHolds, LoggingHolds, PTL DEF LoggingSpec, LineShowsItsSecond

-----------------------------------------------------------------------------
(***************************************************************************)
(* LogStream: what its loops compute.  A recursive function is a CHOOSE    *)
(* among the functions that satisfy its equation; that one exists is shown *)
(* by induction on the size of its domain, and induction itself from the   *)
(* least element of a set of naturals.                                     *)
(***************************************************************************)

\* Every set of naturals has a least element.
LEMMA LeastNatural ==
  ASSUME NEW T, T \subseteq Nat, T # {}
  PROVE  \E x \in T : \A y \in T : x <= y
  <1> DEFINE less == OpToRel(<, Nat)
  <1>1. PICK x \in T : \A y \in T : ~ (<<y, x>> \in less)
    <2> HIDE DEF less
    <2> QED
      BY WFMin, NatLessThanWellFounded DEF less
  <1>2. \A y \in T : ~ (y < x)
    BY <1>1 DEF OpToRel
  <1> QED
    BY <1>2

\* Induction, for the set of the naturals that have a property.
LEMMA AllNaturals ==
  ASSUME NEW T, 0 \in T, \A n \in Nat : n \in T => n + 1 \in T
  PROVE  Nat \subseteq T
  <1> SUFFICES ASSUME Nat \ T # {} PROVE FALSE
    OBVIOUS
  <1>1. PICK x \in Nat \ T : \A y \in Nat \ T : x <= y
    BY LeastNatural
  <1>2. x # 0 /\ x - 1 \in Nat /\ x - 1 \in T
    BY <1>1
  <1> QED
    BY <1>1, <1>2

\* The equation of Values, for its first k positions.
ValuesUpTo(s, base, k, g) ==
  g = [n \in 0 .. k |-> IF n = 0 THEN 0 ELSE base * g[n - 1] + s[n]]

\* There is a function that satisfies it ...
LEMMA ValuesExist ==
  ASSUME NEW s, NEW base, NEW k \in Nat
  PROVE  \E g : ValuesUpTo(s, base, k, g)
  <1> DEFINE T == {n \in Nat : \E g : ValuesUpTo(s, base, n, g)}
  <1>1. 0 \in T
    <2>1. ValuesUpTo(s, base, 0, [n \in 0 .. 0 |-> 0])
      BY DEF ValuesUpTo
    <2> QED
      BY <2>1
  <1>2. ASSUME NEW n \in Nat, n \in T PROVE n + 1 \in T
    <2>1. PICK g : ValuesUpTo(s, base, n, g)
      BY <1>2
    <2> DEFINE h == [i \in 0 .. n + 1 |-> IF i = n + 1 THEN base * g[n] + s[n + 1] ELSE g[i]]
    <2>2. \A i \in 0 .. n + 1 : h[i] = IF i = 0 THEN 0 ELSE base * h[i - 1] + s[i]
      BY <2>1 DEF ValuesUpTo
    <2>3. ValuesUpTo(s, base, n + 1, h)
      BY <2>2 DEF ValuesUpTo
    <2> QED
      BY <2>3
  <1> HIDE DEF T
  <1>3. Nat \subseteq T
    BY <1>1, <1>2, AllNaturals
  <1> QED
    BY <1>3 DEF T

\* ... and so Values, which is chosen among those functions, does.
LEMMA ValuesEquation ==
  ASSUME NEW s, Len(s) \in Nat, NEW base
  PROVE  /\ Values(s, base)[0] = 0
         /\ \A n \in 1 .. Len(s) : Values(s, base)[n] = base * Values(s, base)[n - 1] + s[n]
  <1>1. Values(s, base) = CHOOSE g : ValuesUpTo(s, base, Len(s), g)
    BY DEF Values, ValuesUpTo
  <1>2. ValuesUpTo(s, base, Len(s), Values(s, base))
    BY <1>1, ValuesExist
  <1> DEFINE v == Values(s, base)
  <1> HIDE DEF v
  <1>3. v = [n \in 0 .. Len(s) |-> IF n = 0 THEN 0 ELSE base * v[n - 1] + s[n]]
    BY <1>2, Zenon DEF ValuesUpTo, v
  <1>4. v[0] = 0 /\ \A n \in 1 .. Len(s) : v[n] = base * v[n - 1] + s[n]
    BY <1>3
  <1> QED
    BY <1>4 DEF v

\* A digit more: Horner's rule.
LEMMA ValueOfAppend ==
  ASSUME NEW s \in Seq(Nat), NEW x \in Nat, NEW base \in Nat
  PROVE  /\ ValueOf(<<>>, base) = 0
         /\ ValueOf(s, base) \in Nat
         /\ ValueOf(Append(s, x), base) = base * ValueOf(s, base) + x
  <1> DEFINE t == Append(s, x)
             v == Values(s, base)
             w == Values(t, base)
  <1>1. /\ Len(s) \in Nat /\ Len(t) = Len(s) + 1 /\ Len(<<>>) = 0
        /\ \A n \in 1 .. Len(s) : t[n] = s[n] /\ s[n] \in Nat
        /\ t[Len(t)] = x
    OBVIOUS
  <1>2. /\ v[0] = 0 /\ w[0] = 0
        /\ \A n \in 1 .. Len(s) : v[n] = base * v[n - 1] + s[n]
        /\ \A n \in 1 .. Len(t) : w[n] = base * w[n - 1] + t[n]
    <2> HIDE DEF t
    <2>1. Len(t) \in Nat
      BY <1>1
    <2> QED
      BY <1>1, <2>1, ValuesEquation, Zenon
  <1>3. ValueOf(<<>>, base) = 0
    BY <1>1, ValuesEquation DEF ValueOf
  <1> HIDE DEF v, w, t
  <1> DEFINE T == {n \in Nat : n <= Len(s) => v[n] \in Nat /\ w[n] = v[n]}
  <1>4. 0 \in T
    BY <1>2
  <1>5. ASSUME NEW n \in Nat, n \in T PROVE n + 1 \in T
    <2> SUFFICES ASSUME n + 1 <= Len(s) PROVE v[n + 1] \in Nat /\ w[n + 1] = v[n + 1]
      OBVIOUS
    <2>1. v[n] \in Nat /\ w[n] = v[n] /\ n + 1 \in 1 .. Len(s) /\ n + 1 \in 1 .. Len(t)
      BY <1>1, <1>5
    <2>2. v[n + 1] = base * v[n] + s[n + 1] /\ w[n + 1] = base * w[n] + t[n + 1]
      BY <1>2, <2>1
    <2>3. s[n + 1] \in Nat /\ t[n + 1] = s[n + 1]
      BY <1>1, <2>1
    <2>4. base * v[n] \in Nat
      BY <2>1
    <2>5. base * v[n] + s[n + 1] \in Nat
      BY <2>3, <2>4
    <2> QED
      BY <2>1, <2>2, <2>3, <2>5, Zenon
  <1> HIDE DEF T
  <1>6. Nat \subseteq T
    BY <1>4, <1>5, AllNaturals
  <1>7. v[Len(s)] \in Nat /\ w[Len(s)] = v[Len(s)]
    BY <1>1, <1>6 DEF T
  <1>8. w[Len(t)] = base * w[Len(s)] + x
    <2>1. Len(t) \in 1 .. Len(t) /\ Len(t) - 1 = Len(s)
      BY <1>1
    <2>2. w[Len(t)] = base * w[Len(t) - 1] + t[Len(t)]
      BY <1>2, <2>1
    <2>3. t[Len(t)] = x
      BY <1>1, Zenon
    <2> QED
      BY <2>1, <2>2, <2>3, Zenon
  <1> QED
    BY <1>3, <1>7, <1>8 DEF ValueOf, v, w, t

\* d is the numeral of v in a base, its last digit first.
Spells(d, v, base) ==
  /\ d \in Seq(0 .. base - 1) /\ d # <<>>
  /\ d[Len(d)] = 0 => v = 0 /\ Len(d) = 1
  /\ ValueOf(Reverse(d), base) = v

\* Reverse turns a digit put at one end into one put at the other.
LEMMA ReverseCons ==
  ASSUME NEW S, NEW d \in Seq(S), NEW x \in S
  PROVE  /\ Reverse(d) \in Seq(S) /\ Len(Reverse(d)) = Len(d)
         /\ Reverse(<<x>> \o d) = Append(Reverse(d), x)
         /\ Reverse(Append(d, x)) = <<x>> \o Reverse(d)
         /\ Reverse(<<x>>) = <<x>>
         /\ \A i \in 1 .. Len(d) : Reverse(d)[i] = d[Len(d) - i + 1]
  BY DEF Reverse

\* One digit spells itself ...
LEMMA SpellsOne ==
  ASSUME NEW base \in Nat, NEW x \in 0 .. base - 1
  PROVE  Spells(<<x>>, x, base)
  <1>1. <<x>> \in Seq(0 .. base - 1) /\ <<x>> # <<>> /\ Len(<<x>>) = 1 /\ <<x>>[1] = x
    OBVIOUS
  <1>2. Reverse(<<x>>) = Append(<<>>, x)
    BY DEF Reverse
  <1>3. x \in Nat /\ <<>> \in Seq(Nat)
    OBVIOUS
  <1>4. ValueOf(Append(<<>>, x), base) = base * 0 + x
    BY <1>3, ValueOfAppend, Zenon
  <1>5. base * 0 + x = x
    BY <1>3
  <1> QED
    BY <1>1, <1>2, <1>4, <1>5 DEF Spells

\* ... and one before the digits of q # 0 spells base * q and that digit.
LEMMA SpellsMore ==
  ASSUME NEW base \in Nat, NEW x \in 0 .. base - 1, NEW q \in Nat, q # 0, NEW d,
         Spells(d, q, base)
  PROVE  Spells(<<x>> \o d, base * q + x, base)
  <1> DEFINE D == 0 .. base - 1
             e == <<x>> \o d
  <1>1. d \in Seq(D) /\ d # <<>> /\ d[Len(d)] # 0 /\ ValueOf(Reverse(d), base) = q
    BY DEF Spells
  <1>2. x \in D /\ x \in Nat /\ D \subseteq Nat
    OBVIOUS
  <1> HIDE DEF D
  <1>3. Len(d) \in Nat /\ Len(d) >= 1
    BY <1>1
  <1>4. e \in Seq(D) /\ e # <<>> /\ Len(e) = Len(d) + 1 /\ e[Len(d) + 1] = d[Len(d)]
    BY <1>1, <1>2, <1>3
  <1>5. Reverse(e) = Append(Reverse(d), x) /\ Reverse(d) \in Seq(D)
    BY <1>1, <1>2, ReverseCons
  <1>6. Reverse(d) \in Seq(Nat)
    BY <1>2, <1>5, SeqMonotonic, Zenon
  <1>7. ValueOf(Reverse(e), base) = base * q + x
    <2>1. ValueOf(Append(Reverse(d), x), base) = base * ValueOf(Reverse(d), base) + x
      BY <1>2, <1>6, ValueOfAppend, Zenon
    <2> QED
      BY <1>1, <1>5, <2>1, Zenon
  <1>8. e[Len(e)] # 0
    BY <1>1, <1>4
  <1> QED
    BY <1>4, <1>7, <1>8 DEF Spells, D

\* The absolute value.
Abs(i) == IF i >= 0 THEN i ELSE -i

\* The bases of convert and of convertHex.
Bases == {10, 16}

\* Division, in either base.
LEMMA DivideByBase ==
  ASSUME NEW base \in Bases, NEW i \in Nat
  PROVE  i \div base \in Int /\ base * (i \div base) <= i /\ i < base * (i \div base) + base
  <1>1. CASE base = 10
    BY <1>1
  <1>2. CASE base = 16
    BY <1>2
  <1> QED
    BY <1>1, <1>2 DEF Bases

\* A turn of the loop: the digit that goes and what is left.
LEMMA Turn ==
  ASSUME NEW base \in Bases, NEW i \in Int
  PROVE  /\ Quotient(i, base) \in Int /\ Abs(i) \in Nat /\ Abs(Quotient(i, base)) \in Nat
         /\ zero(Lsd(i, base)) \in 0 .. base - 1
         /\ Abs(i) = base * Abs(Quotient(i, base)) + zero(Lsd(i, base))
         /\ Quotient(i, base) = 0 <=> Abs(Quotient(i, base)) = 0
         /\ Abs(i) = 0 => Quotient(i, base) = 0
         /\ Abs(i) # 0 => Abs(Quotient(i, base)) < Abs(i)
  <1> DEFINE q == Abs(i) \div base
             p == base * q
  <1>0. base \in Nat /\ base > 1 /\ Abs(i) \in Nat
    BY DEF Bases, Abs
  <1>1. q \in Int /\ p <= Abs(i) /\ Abs(i) < p + base
    BY <1>0, DivideByBase
  <1>2. Quotient(i, base) = IF i >= 0 THEN q ELSE -q
    BY DEF Quotient, Abs
  <1> HIDE DEF q
  <1>3. p \in Int /\ base * (-q) = -p
    <2>1. CASE base = 10
      BY <1>1, <2>1
    <2>2. CASE base = 16
      BY <1>1, <2>2
    <2> QED
      BY <2>1, <2>2 DEF Bases
  <1>4. q >= 0 /\ (q > 0 => q < p)
    <2>1. CASE base = 10
      BY <1>0, <1>1, <2>1
    <2>2. CASE base = 16
      BY <1>0, <1>1, <2>2
    <2> QED
      BY <2>1, <2>2 DEF Bases
  <1>5. Lsd(i, base) = IF i >= 0 THEN i - p ELSE i + p
    BY <1>1, <1>2, <1>3 DEF Lsd
  <1>6. Abs(Quotient(i, base)) = q
    BY <1>1, <1>2, <1>4 DEF Abs
  <1>7. p = base * Abs(Quotient(i, base))
    BY <1>6
  <1> HIDE DEF p
  <1>8. zero(Lsd(i, base)) = Abs(i) - p
    BY <1>0, <1>1, <1>3, <1>5 DEF zero, Abs
  <1>9. zero(Lsd(i, base)) \in 0 .. base - 1 /\ Abs(i) = p + zero(Lsd(i, base))
    BY <1>0, <1>1, <1>3, <1>8
  <1>10. /\ q \in Nat /\ Quotient(i, base) \in Int
         /\ Quotient(i, base) = 0 <=> q = 0
         /\ Abs(i) = 0 => q = 0
         /\ Abs(i) # 0 => q < Abs(i)
    BY <1>0, <1>1, <1>2, <1>3, <1>4
  <1> QED
    BY <1>0, <1>6, <1>7, <1>9, <1>10

\* The equation of Digits, for the integers of r up to n.
DigitsUpTo(r, base, n, g) ==
  g = [i \in {j \in r : Abs(j) <= n} |->
         IF Quotient(i, base) = 0 THEN <<zero(Lsd(i, base))>>
         ELSE <<zero(Lsd(i, base))>> \o g[Quotient(i, base)]]

\* It has a solution, since a turn makes the integer smaller ...
LEMMA DigitsExist ==
  ASSUME NEW base \in Bases, NEW r, r \subseteq Int, \A i \in r : Quotient(i, base) \in r, NEW k \in Nat
  PROVE  \E g : DigitsUpTo(r, base, k, g)
  <1> DEFINE T == {n \in Nat : \E g : DigitsUpTo(r, base, n, g)}
  <1>1. 0 \in T
    <2> DEFINE g == [i \in {j \in r : Abs(j) <= 0} |-> <<zero(Lsd(i, base))>>]
    <2>1. \A i \in {j \in r : Abs(j) <= 0} : Quotient(i, base) = 0
      BY Turn
    <2>2. DigitsUpTo(r, base, 0, g)
      BY <2>1 DEF DigitsUpTo
    <2> QED
      BY <2>2
  <1>2. ASSUME NEW n \in Nat, n \in T PROVE n + 1 \in T
    <2>1. PICK g : DigitsUpTo(r, base, n, g)
      BY <1>2
    <2> DEFINE R(m) == {j \in r : Abs(j) <= m}
               h == [i \in R(n + 1) |->
                       IF Abs(i) <= n THEN g[i]
                       ELSE IF Quotient(i, base) = 0 THEN <<zero(Lsd(i, base))>>
                       ELSE <<zero(Lsd(i, base))>> \o g[Quotient(i, base)]]
    <2>2. ASSUME NEW i \in R(n + 1)
          PROVE  h[i] = IF Quotient(i, base) = 0 THEN <<zero(Lsd(i, base))>>
                        ELSE <<zero(Lsd(i, base))>> \o h[Quotient(i, base)]
      <3>1. i \in Int /\ Quotient(i, base) \in r /\ Abs(i) \in Nat /\ Abs(i) <= n + 1
        BY Turn
      <3>2. Quotient(i, base) # 0 => Quotient(i, base) \in R(n) /\ Quotient(i, base) \in R(n + 1)
        BY <3>1, Turn
      <3>3. Quotient(i, base) # 0 => h[Quotient(i, base)] = g[Quotient(i, base)]
        BY <3>2
      <3>4. CASE Abs(i) <= n
        <4>1. i \in R(n) /\ h[i] = g[i]
          BY <3>1, <3>4
        <4>2. g[i] = IF Quotient(i, base) = 0 THEN <<zero(Lsd(i, base))>>
                     ELSE <<zero(Lsd(i, base))>> \o g[Quotient(i, base)]
          BY <2>1, <4>1 DEF DigitsUpTo
        <4> QED
          BY <3>3, <4>1, <4>2
      <3>5. CASE ~(Abs(i) <= n)
        <4>1. h[i] = IF Quotient(i, base) = 0 THEN <<zero(Lsd(i, base))>>
                     ELSE <<zero(Lsd(i, base))>> \o g[Quotient(i, base)]
          BY <3>5
        <4> QED
          BY <3>3, <4>1
      <3> QED
        BY <3>4, <3>5
    <2>3. DigitsUpTo(r, base, n + 1, h)
      BY <2>2 DEF DigitsUpTo
    <2> QED
      BY <2>3
  <1> HIDE DEF T
  <1>3. Nat \subseteq T
    BY <1>1, <1>2, AllNaturals
  <1> QED
    BY <1>3 DEF T

\* r is closed under the loop and is not larger than some machine type.
LoopRange(r, base, k) ==
  /\ k \in Nat /\ r \subseteq Int
  /\ \A i \in r : Abs(i) <= k /\ Quotient(i, base) \in r

\* ... so that Digits is one.
LEMMA DigitsEquation ==
  ASSUME NEW base \in Bases, NEW r, NEW k, LoopRange(r, base, k), NEW i \in r
  PROVE  Digits(r, base)[i] = IF Quotient(i, base) = 0 THEN <<zero(Lsd(i, base))>>
                        ELSE <<zero(Lsd(i, base))>> \o Digits(r, base)[Quotient(i, base)]
  <1>1. {j \in r : Abs(j) <= k} = r
    BY DEF LoopRange
  <1>2. Digits(r, base) = CHOOSE g : DigitsUpTo(r, base, k, g)
    BY <1>1 DEF Digits, DigitsUpTo
  <1>3. DigitsUpTo(r, base, k, Digits(r, base))
    BY <1>2, DigitsExist DEF LoopRange
  <1> DEFINE d == Digits(r, base)
  <1> HIDE DEF d
  <1>4. d = [x \in r |-> IF Quotient(x, base) = 0 THEN <<zero(Lsd(x, base))>>
                         ELSE <<zero(Lsd(x, base))>> \o d[Quotient(x, base)]]
    BY <1>1, <1>3 DEF DigitsUpTo, d
  <1> QED
    BY <1>4 DEF d

\* The loop leaves the digits of the absolute value, the last one first.
LEMMA DigitsSpell ==
  ASSUME NEW base \in Bases, NEW r, NEW k, LoopRange(r, base, k), NEW i \in r
  PROVE  Spells(Digits(r, base)[i], Abs(i), base)
  <1> DEFINE T == {n \in Nat : \A j \in r : Abs(j) <= n => Spells(Digits(r, base)[j], Abs(j), base)}
  <1>0. base \in Nat /\ r \subseteq Int /\ \A j \in r : Quotient(j, base) \in r
    BY DEF LoopRange, Bases
  <1>1. ASSUME NEW j \in r, Quotient(j, base) = 0 PROVE Spells(Digits(r, base)[j], Abs(j), base)
    <2>1. Digits(r, base)[j] = <<zero(Lsd(j, base))>>
      BY <1>1, DigitsEquation
    <2>2. Abs(j) = zero(Lsd(j, base)) /\ zero(Lsd(j, base)) \in 0 .. base - 1 /\ base \in Nat
      BY <1>0, <1>1, Turn
    <2> QED
      BY <2>1, <2>2, SpellsOne
  <1>2. 0 \in T
    <2>1. \A j \in r : Abs(j) <= 0 => Quotient(j, base) = 0
      BY <1>0, Turn
    <2> QED
      BY <1>1, <2>1
  <1>3. ASSUME NEW n \in Nat, n \in T PROVE n + 1 \in T
    <2> SUFFICES ASSUME NEW j \in r, Abs(j) <= n + 1, Quotient(j, base) # 0
                 PROVE  Spells(Digits(r, base)[j], Abs(j), base)
      BY <1>1
    <2> DEFINE q == Quotient(j, base)
               x == zero(Lsd(j, base))
    <2>1. /\ q \in r /\ Abs(q) \in Nat /\ Abs(q) # 0 /\ x \in 0 .. base - 1
          /\ Abs(j) = base * Abs(q) + x /\ Abs(q) <= n
      BY <1>0, Turn
    <2>2. Spells(Digits(r, base)[q], Abs(q), base)
      BY <1>3, <2>1
    <2>3. Digits(r, base)[j] = <<x>> \o Digits(r, base)[q]
      BY DigitsEquation
    <2> HIDE DEF q, x
    <2> QED
      BY <1>0, <2>1, <2>2, <2>3, SpellsMore, Zenon
  <1> HIDE DEF T
  <1>4. Nat \subseteq T
    BY <1>2, <1>3, AllNaturals
  <1>5. Abs(i) \in Nat /\ Abs(i) \in T
    BY <1>0, <1>4, Turn
  <1> QED
    BY <1>5 DEF T

\* A reversed spelling, alone or after a sign, is a numeral.
LEMMA ReversedIsNumeral ==
  ASSUME NEW base \in Nat, base > 1, NEW v \in Int, NEW d, Spells(d, Abs(v), base)
  PROVE  IsNumeral(Reverse(d \o (IF v < 0 THEN <<Minus>> ELSE <<>>)), v, base)
  <1> DEFINE D == 0 .. base - 1
             n == Reverse(d)
  <1>1. /\ d \in Seq(D) /\ d # <<>> /\ Len(d) \in Nat /\ Len(d) >= 1
        /\ d[Len(d)] = 0 => Len(d) = 1
        /\ ValueOf(n, base) = Abs(v)
    BY DEF Spells
  <1>2. /\ n \in Seq(D) /\ Len(n) = Len(d) /\ n[1] = d[Len(d)]
        /\ \A i \in 1 .. Len(n) : n[i] \in D
    BY <1>1 DEF Reverse
  <1>3. n # <<>>
    BY <1>1, <1>2
  <1> DEFINE Good(s) == /\ s # <<>>
                        /\ \A i \in 1 .. Len(s) : s[i] \in 0 .. base - 1
                        /\ s[1] = 0 => Len(s) = 1
                        /\ ValueOf(s, base) = IF v < 0 THEN -v ELSE v
  <1>4. Good(n)
    <2>1. Abs(v) = IF v < 0 THEN -v ELSE v
      BY DEF Abs
    <2> HIDE DEF n
    <2> QED
      BY <1>1, <1>2, <1>3, <2>1
  <1>5. CASE v < 0
    <2> DEFINE s == Reverse(d \o <<Minus>>)
    <2>1. s = <<Minus>> \o n
      <3>1. d \in Seq(D \cup {Minus}) /\ Minus \in D \cup {Minus}
        BY <1>1, SeqMonotonic
      <3>2. d \o <<Minus>> = Append(d, Minus)
        BY <3>1
      <3> QED
        BY <3>1, <3>2, ReverseCons
    <2>2. n \in Seq(D \cup {Minus}) /\ Minus \in D \cup {Minus}
      BY <1>2, SeqMonotonic
    <2> HIDE DEF n, D
    <2>3. (<<Minus>> \o n)[1] = Minus /\ Tail(<<Minus>> \o n) = n
      BY <2>2
    <2>4. s[1] = Minus /\ Tail(s) = n
      BY <2>1, <2>3
    <2> HIDE DEF s, Good
    <2>5. IsNumeral(s, v, base)
      BY <1>4, <1>5, <2>4 DEF IsNumeral, Good
    <2> QED
      BY <1>5, <2>5 DEF s
  <1>6. CASE ~(v < 0)
    <2>1. d \o <<>> = d
      BY <1>1
    <2> HIDE DEF n
    <2>2. IsNumeral(n, v, base)
      BY <1>4, <1>6 DEF IsNumeral
    <2> QED
      BY <1>6, <2>1, <2>2 DEF n
  <1> QED
    BY <1>5, <1>6

\* So convert is right on every range that its loop does not leave.
LEMMA ConvertInRange ==
  ASSUME NEW r, NEW k, LoopRange(r, 10, k), NEW v \in r
  PROVE  IsNumeral(convert(v, r), v, 10)
  <1>1. 10 \in Bases
    BY DEF Bases
  <1>2. Spells(Digits(r, 10)[v], Abs(v), 10)
    BY <1>1, DigitsSpell
  <1>3. v \in Int /\ 10 \in Nat /\ 10 > 1
    BY DEF LoopRange
  <1> QED
    BY <1>2, <1>3, ReversedIsNumeral DEF convert

\* The values of a machine type, signed or not, are such a range: division
\* rounds towards zero.
LEMMA TypesAreRanges ==
  ASSUME NEW base \in Bases, NEW m \in Nat
  PROVE  /\ LoopRange(-(m + 1) .. m, base, m + 1)
         /\ LoopRange(0 .. m, base, m)
  <1>1. ASSUME NEW i \in Int
        PROVE  /\ Quotient(i, base) \in Int
               /\ i >= 0 => 0 <= Quotient(i, base) /\ Quotient(i, base) <= i
               /\ i < 0 => i <= Quotient(i, base) /\ Quotient(i, base) <= 0
    <2>1. base > 0 /\ base \in Nat
      BY DEF Bases
    <2>2. i >= 0 => Quotient(i, base) >= 0
      BY <1>1, DivideByBase, <2>1 DEF Quotient, Bases
    <2>3. i < 0 => Quotient(i, base) <= 0
      BY <1>1, DivideByBase, <2>1 DEF Quotient, Bases
    <2>4. /\ Quotient(i, base) \in Int
          /\ Abs(Quotient(i, base)) <= Abs(i)
      BY Turn
    <2> QED
      BY <2>2, <2>3, <2>4 DEF Abs
  <1>2. \A i \in -(m + 1) .. m : Abs(i) <= m + 1 /\ Quotient(i, base) \in -(m + 1) .. m
    <2> TAKE i \in -(m + 1) .. m
    <2>1. i \in Int /\ -(m + 1) <= i /\ i <= m
      OBVIOUS
    <2> QED
      BY <1>1, <2>1 DEF Abs
  <1>3. \A i \in 0 .. m : Abs(i) <= m /\ Quotient(i, base) \in 0 .. m
    <2> TAKE i \in 0 .. m
    <2>1. i \in Int /\ 0 <= i /\ i <= m
      OBVIOUS
    <2> QED
      BY <1>1, <2>1 DEF Abs
  <1> QED
    BY <1>2, <1>3 DEF LoopRange

\* convert writes the decimal numeral of every value of a signed integer type of
\* any width, the smallest one included, whose negation the type does not have,
\* and of every value of an unsigned one.
THEOREM ConvertIsRight ==
  ASSUME NEW m \in Nat
  PROVE  /\ \A v \in -(m + 1) .. m : IsNumeral(convert(v, -(m + 1) .. m), v, 10)
         /\ \A v \in 0 .. m : IsNumeral(convert(v, 0 .. m), v, 10)
  <1>1. 10 \in Bases
    BY DEF Bases
  <1>2. LoopRange(-(m + 1) .. m, 10, m + 1) /\ LoopRange(0 .. m, 10, m)
    BY <1>1, TypesAreRanges
  <1> QED
    BY <1>2, ConvertInRange, Zenon

\* convertHex writes the hexadecimal numeral of every value of an unsigned type.
THEOREM ConvertHexIsRight ==
  ASSUME NEW m \in Nat, NEW v \in 0 .. m
  PROVE  IsNumeral(convertHex(v, 0 .. m), v, 16)
  <1>1. 16 \in Bases /\ LoopRange(0 .. m, 16, m)
    BY TypesAreRanges DEF Bases
  <1> DEFINE d == Digits(0 .. m, 16)[v]
  <1>2. Spells(d, Abs(v), 16)
    BY <1>1, DigitsSpell
  <1> HIDE DEF d
  <1>3. v \in Int /\ ~(v < 0) /\ 16 \in Nat /\ 16 > 1
    OBVIOUS
  <1>4. IsNumeral(Reverse(d \o <<>>), v, 16)
    BY <1>2, <1>3, ReversedIsNumeral
  <1>5. d \o <<>> = d
    BY <1>2 DEF Spells
  <1> QED
    BY <1>4, <1>5 DEF convertHex, d

\* The equation of TenToThe.
PowersUpTo(n, g) == g = [i \in 0 .. n |-> IF i = 0 THEN 1 ELSE 10 * g[i - 1]]

\* It has a solution for every n ...
LEMMA PowersExist ==
  ASSUME NEW k \in Nat
  PROVE  \E g : PowersUpTo(k, g)
  <1> DEFINE T == {n \in Nat : \E g : PowersUpTo(n, g)}
  <1>1. 0 \in T
    <2>1. PowersUpTo(0, [n \in 0 .. 0 |-> 1])
      BY DEF PowersUpTo
    <2> QED
      BY <2>1
  <1>2. ASSUME NEW n \in Nat, n \in T PROVE n + 1 \in T
    <2>1. PICK g : PowersUpTo(n, g)
      BY <1>2
    <2> DEFINE h == [i \in 0 .. n + 1 |-> IF i = n + 1 THEN 10 * g[n] ELSE g[i]]
    <2>2. \A i \in 0 .. n + 1 : h[i] = IF i = 0 THEN 1 ELSE 10 * h[i - 1]
      BY <2>1 DEF PowersUpTo
    <2>3. PowersUpTo(n + 1, h)
      BY <2>2 DEF PowersUpTo
    <2> QED
      BY <2>3
  <1> HIDE DEF T
  <1>3. Nat \subseteq T
    BY <1>1, <1>2, AllNaturals
  <1> QED
    BY <1>3 DEF T

\* Any two solutions of the equation agree.
LEMMA PowersAgree ==
  ASSUME NEW m \in Nat, NEW n \in Nat, NEW g, NEW h, PowersUpTo(m, g), PowersUpTo(n, h)
  PROVE  \A i \in Nat : i <= m /\ i <= n => g[i] = h[i] /\ g[i] \in Nat
  <1> DEFINE T == {i \in Nat : i <= m /\ i <= n => g[i] = h[i] /\ g[i] \in Nat}
  <1>1. 0 \in T
    BY DEF PowersUpTo
  <1>2. ASSUME NEW i \in Nat, i \in T PROVE i + 1 \in T
    <2> SUFFICES ASSUME i + 1 <= m, i + 1 <= n PROVE g[i + 1] = h[i + 1] /\ g[i + 1] \in Nat
      OBVIOUS
    <2>1. g[i] = h[i] /\ g[i] \in Nat
      BY <1>2
    <2>2. g[i + 1] = 10 * g[i] /\ h[i + 1] = 10 * h[i]
      BY DEF PowersUpTo
    <2> QED
      BY <2>1, <2>2
  <1> HIDE DEF T
  <1>3. Nat \subseteq T
    BY <1>1, <1>2, AllNaturals
  <1> QED
    BY <1>3 DEF T

\* ... so that TenToThe is what its name says.
LEMMA TenToTheEquation ==
  ASSUME NEW n \in Nat
  PROVE  /\ TenToThe(0) = 1
         /\ TenToThe(n) \in Nat
         /\ TenToThe(n + 1) = 10 * TenToThe(n)
  <1> DEFINE P(m) == CHOOSE g : PowersUpTo(m, g)
  <1>1. \A m \in Nat : PowersUpTo(m, P(m))
    BY PowersExist
  <1>2. \A m \in Nat : TenToThe(m) = P(m)[m]
    BY DEF TenToThe, PowersUpTo
  <1> HIDE DEF P
  <1>3. P(0)[0] = 1
    BY <1>1 DEF PowersUpTo
  <1>4. n + 1 \in Nat /\ PowersUpTo(n, P(n)) /\ PowersUpTo(n + 1, P(n + 1))
    BY <1>1
  <1>5. P(n + 1)[n + 1] = 10 * P(n + 1)[n]
    <2> DEFINE g == P(n + 1)
    <2> HIDE DEF g
    <2>1. g = [i \in 0 .. n + 1 |-> IF i = 0 THEN 1 ELSE 10 * g[i - 1]]
      BY <1>4 DEF PowersUpTo, g
    <2>2. g[n + 1] = 10 * g[n]
      BY <2>1
    <2> QED
      BY <2>2 DEF g
  <1>6. P(n)[n] = P(n + 1)[n] /\ P(n)[n] \in Nat
    BY <1>4, PowersAgree
  <1> QED
    BY <1>2, <1>3, <1>4, <1>5, <1>6

\* The numbers below a power of ten have no more digits than that.
FewDigits(r, m) ==
  \A j \in r : Abs(j) < TenToThe(m + 1) => Len(Digits(r, 10)[j]) <= m + 1

\* Each turn of the loop divides the bound by ten as well.
LEMMA DigitsFit ==
  ASSUME NEW r, NEW k, LoopRange(r, 10, k), NEW n \in Nat, NEW i \in r,
         Abs(i) < TenToThe(n + 1)
  PROVE  Len(Digits(r, 10)[i]) <= n + 1
  <1> DEFINE T == {m \in Nat : FewDigits(r, m)}
  <1>0. 10 \in Bases /\ r \subseteq Int /\ \A j \in r : Quotient(j, 10) \in r
    BY DEF LoopRange, Bases
  <1>1. ASSUME NEW j \in r, Quotient(j, 10) = 0 PROVE Len(Digits(r, 10)[j]) = 1
    <2>1. Digits(r, 10)[j] = <<zero(Lsd(j, 10))>>
      BY <1>0, <1>1, DigitsEquation
    <2> QED
      BY <2>1
  <1>2. 0 \in T
    <2>1. TenToThe(0 + 1) = 10
      BY TenToTheEquation
    <2>2. \A j \in r : Abs(j) < 10 => Quotient(j, 10) = 0
      BY <1>0, Turn
    <2>3. \A j \in r : Abs(j) < TenToThe(0 + 1) => Len(Digits(r, 10)[j]) <= 0 + 1
      <3> SUFFICES ASSUME NEW j \in r, Abs(j) < 10 PROVE Len(Digits(r, 10)[j]) <= 0 + 1
        BY <2>1
      <3>1. Len(Digits(r, 10)[j]) = 1
        BY <1>1, <2>2, Zenon
      <3>2. 1 <= 0 + 1
        OBVIOUS
      <3> QED
        BY <3>1, <3>2, Zenon
    <2> QED
      BY <2>3, Zenon DEF FewDigits
  <1>3. ASSUME NEW m \in Nat, m \in T PROVE m + 1 \in T
    <2>0. m + 1 \in Nat
      OBVIOUS
    <2> SUFFICES ASSUME NEW j \in r, Abs(j) < TenToThe(m + 1 + 1)
                 PROVE  Len(Digits(r, 10)[j]) <= m + 1 + 1
      BY <2>0, Zenon DEF FewDigits
    <2>1. CASE Quotient(j, 10) = 0
      <3>1. Len(Digits(r, 10)[j]) = 1
        BY <1>1, <2>1, Zenon
      <3>2. 1 <= m + 1 + 1
        OBVIOUS
      <3> QED
        BY <3>1, <3>2, Zenon
    <2>2. CASE Quotient(j, 10) # 0
      <3> DEFINE q == Quotient(j, 10)
                 d == Digits(r, 10)[q]
      <3>1. /\ q \in r /\ Abs(q) \in Nat /\ zero(Lsd(j, 10)) \in 0 .. 10 - 1
            /\ Abs(j) = 10 * Abs(q) + zero(Lsd(j, 10))
        BY <1>0, Turn
      <3>2. TenToThe(m + 1 + 1) = 10 * TenToThe(m + 1) /\ TenToThe(m + 1) \in Nat
        BY TenToTheEquation
      <3>3. Abs(q) < TenToThe(m + 1)
        BY <3>1, <3>2
      <3>4. Len(d) <= m + 1
        BY <1>3, <3>1, <3>3 DEF FewDigits
      <3>5. Digits(r, 10)[j] = <<zero(Lsd(j, 10))>> \o d
        BY <1>0, <2>2, DigitsEquation
      <3>6. d \in Seq(0 .. 10 - 1)
        BY <1>0, <3>1, DigitsSpell DEF Spells
      <3> HIDE DEF d, q
      <3>7. Len(<<zero(Lsd(j, 10))>> \o d) = 1 + Len(d) /\ Len(d) \in Nat
        BY <3>1, <3>6
      <3> QED
        BY <3>4, <3>5, <3>7
    <2> QED
      BY <2>1, <2>2
  <1> HIDE DEF T
  <1>4. Nat \subseteq T
    BY <1>2, <1>3, AllNaturals
  <1> QED
    BY <1>4 DEF T, FewDigits

-----------------------------------------------------------------------------
(***************************************************************************)
(* The streams of Logging.                                                 *)
(***************************************************************************)

\* What StreamInBounds says of a stream.
WithinBounds(s) == s.length < kSmallBuffer /\ s.top <= kSmallBuffer

\* FixedBuffer::append and formatInteger leave a stream that has a byte to
\* spare with one to spare, and write nothing past its end.
LEMMA AppendsStayInBounds ==
  ASSUME NEW s \in [length : Nat, top : Nat], WithinBounds(s), NEW len \in Nat
  PROVE  /\ AppendText(s, len) \in [length : Nat, top : Nat] /\ WithinBounds(AppendText(s, len))
         /\ len < kMaxNumericSize =>
              /\ AppendNumber(s, len) \in [length : Nat, top : Nat]
              /\ WithinBounds(AppendNumber(s, len))
  <1>1. kSmallBuffer \in Nat /\ kMaxNumericSize \in Nat
    BY StreamAssumption
  <1>2. s.length \in Nat /\ s.top \in Nat
    OBVIOUS
  <1>3. ASSUME NEW n \in Nat, NEW end \in Nat, n < kSmallBuffer, end <= kSmallBuffer
        PROVE  /\ [length |-> n, top |-> Larger(s.top, end)] \in [length : Nat, top : Nat]
               /\ WithinBounds([length |-> n, top |-> Larger(s.top, end)])
    <2>1. Larger(s.top, end) \in Nat /\ Larger(s.top, end) <= kSmallBuffer
      BY <1>1, <1>2, <1>3 DEF Larger, WithinBounds
    <2> QED
      BY <1>3, <2>1 DEF WithinBounds
  <1>4. AppendText(s, len) \in [length : Nat, top : Nat] /\ WithinBounds(AppendText(s, len))
    <2>1. CASE avail(s) > len
      <3>1. /\ s.length + len \in Nat /\ s.length + len < kSmallBuffer
            /\ s.length + len <= kSmallBuffer
        BY <1>1, <1>2, <2>1 DEF avail
      <3>2. AppendText(s, len)
              = [length |-> s.length + len, top |-> Larger(s.top, s.length + len)]
        BY <2>1 DEF AppendText
      <3> QED
        BY <1>3, <3>1, <3>2, Zenon
    <2>2. CASE ~(avail(s) > len)
      BY <2>2 DEF AppendText
    <2> QED
      BY <2>1, <2>2
  <1>5. ASSUME len < kMaxNumericSize
        PROVE  /\ AppendNumber(s, len) \in [length : Nat, top : Nat]
               /\ WithinBounds(AppendNumber(s, len))
    <2>1. CASE avail(s) >= kMaxNumericSize
      <3>1. /\ s.length + len \in Nat /\ s.length + len < kSmallBuffer
            /\ s.length + len + 1 \in Nat /\ s.length + len + 1 <= kSmallBuffer
        BY <1>1, <1>2, <1>5, <2>1 DEF avail
      <3>2. AppendNumber(s, len)
              = [length |-> s.length + len, top |-> Larger(s.top, s.length + len + 1)]
        BY <2>1 DEF AppendNumber
      <3> QED
        BY <1>3, <3>1, <3>2, Zenon
    <2>2. CASE ~(avail(s) >= kMaxNumericSize)
      BY <2>2 DEF AppendNumber
    <2> QED
      BY <2>1, <2>2
  <1> QED
    BY <1>4, <1>5

\* The text of a number and its '\0' fit in kMaxNumericSize bytes.
LEMMA NumberFits ==
  ASSUME NEW v \in Numbers
  PROVE  Len(convert(v, Numbers)) \in Nat /\ Len(convert(v, Numbers)) < kMaxNumericSize
  <1> DEFINE n == kMaxNumericSize - 3
             k == TenToThe(n + 1)
             d == Digits(Numbers, 10)[v]
             sign == IF v < 0 THEN <<Minus>> ELSE <<>>
  <1>1. kMaxNumericSize \in Nat /\ kMaxNumericSize >= 3 /\ n \in Nat /\ kMaxNumericSize - 2 = n + 1
    BY StreamAssumption, LoggingAssumption
  <1>2. k \in Nat
    BY <1>1, TenToTheEquation
  <1>3. \A i \in Numbers : i \in Int /\ Quotient(i, 10) \in Numbers /\ i < k /\ -i < k
    BY <1>1, LoggingAssumption
  <1> HIDE DEF k
  <1>4. LoopRange(Numbers, 10, k) /\ Abs(v) < k
    BY <1>2, <1>3 DEF LoopRange, Abs
  <1>5. Len(d) <= n + 1
    BY <1>1, <1>4, DigitsFit DEF k
  <1>6. 10 \in Bases
    BY DEF Bases
  <1>7. d \in Seq(0 .. 10 - 1)
    BY <1>4, <1>6, DigitsSpell DEF Spells
  <1> HIDE DEF d, n
  <1>8. d \in Seq(Int) /\ Len(d) \in Nat
    BY <1>7, SeqMonotonic
  <1>9. sign \in Seq(Int) /\ Len(sign) \in {0, 1}
    <2>1. Minus \in Int
      BY DEF Minus
    <2>2. <<Minus>> \in Seq(Int) /\ Len(<<Minus>>) = 1 /\ <<>> \in Seq(Int) /\ Len(<<>>) = 0
      BY <2>1
    <2> QED
      BY <2>2, Zenon
  <1> HIDE DEF sign
  <1>10. Len(d \o sign) = Len(d) + Len(sign) /\ Len(Reverse(d \o sign)) = Len(d \o sign)
    BY <1>8, <1>9 DEF Reverse
  <1>11. convert(v, Numbers) = Reverse(d \o sign)
    BY Zenon DEF convert, d, sign
  <1>12. Len(d) + Len(sign) \in Nat /\ Len(d) + Len(sign) < kMaxNumericSize
    <2>1. \A a \in Nat, b \in {0, 1} : a <= n + 1 => a + b \in Nat /\ a + b < kMaxNumericSize
      BY <1>1
    <2> QED
      BY <1>5, <1>8, <1>9, <2>1, Zenon
  <1> QED
    BY <1>10, <1>11, <1>12, Zenon

\* operator<<: a stream that is within bounds stays within them whatever is
\* inserted, and an empty stream is.
LEMMA InsertStaysInBounds ==
  /\ EmptyStream \in [length : Nat, top : Nat] /\ WithinBounds(EmptyStream)
  /\ \A s \in [length : Nat, top : Nat], piece \in Piece :
       WithinBounds(s) =>
         Insert(s, piece) \in [length : Nat, top : Nat] /\ WithinBounds(Insert(s, piece))
  <1>1. EmptyStream \in [length : Nat, top : Nat] /\ WithinBounds(EmptyStream)
    BY StreamAssumption DEF EmptyStream, WithinBounds
  <1>2. ASSUME NEW s \in [length : Nat, top : Nat], NEW piece \in Piece, WithinBounds(s)
        PROVE  Insert(s, piece) \in [length : Nat, top : Nat] /\ WithinBounds(Insert(s, piece))
    <2>1. \/ piece.kind = "text" /\ piece.len \in Nat
          \/ piece.kind = "number" /\ piece.value \in Numbers
      BY DEF Piece
    <2>2. CASE piece.kind = "text" /\ piece.len \in Nat
      BY <1>2, <2>2, AppendsStayInBounds, Zenon DEF Insert
    <2>3. CASE piece.kind = "number" /\ piece.value \in Numbers
      <3>1. Insert(s, piece) = AppendNumber(s, Len(convert(piece.value, Numbers)))
        BY <2>3 DEF Insert
      <3> QED
        BY <1>2, <2>3, <3>1, NumberFits, AppendsStayInBounds, Zenon
    <2> QED
      BY <2>1, <2>2, <2>3
  <1> QED
    BY <1>1, <1>2, Zenon

\* The equation of Inserted, for the first k pieces.
InsertedUpTo(pieces, k, g) ==
  g = [n \in 0 .. k |-> IF n = 0 THEN EmptyStream ELSE Insert(g[n - 1], pieces[n])]

\* It has a solution for lines of any number of pieces.
LEMMA InsertedExist ==
  ASSUME NEW pieces, NEW k \in Nat
  PROVE  \E g : InsertedUpTo(pieces, k, g)
  <1> DEFINE T == {n \in Nat : \E g : InsertedUpTo(pieces, n, g)}
  <1>1. 0 \in T
    <2>1. InsertedUpTo(pieces, 0, [n \in 0 .. 0 |-> EmptyStream])
      BY DEF InsertedUpTo
    <2> QED
      BY <2>1
  <1>2. ASSUME NEW n \in Nat, n \in T PROVE n + 1 \in T
    <2>1. PICK g : InsertedUpTo(pieces, n, g)
      BY <1>2
    <2> DEFINE h == [i \in 0 .. n + 1 |->
                       IF i = n + 1 THEN Insert(g[n], pieces[n + 1]) ELSE g[i]]
    <2>2. \A i \in 0 .. n + 1 :
            h[i] = IF i = 0 THEN EmptyStream ELSE Insert(h[i - 1], pieces[i])
      BY <2>1 DEF InsertedUpTo
    <2>3. InsertedUpTo(pieces, n + 1, h)
      BY <2>2 DEF InsertedUpTo
    <2> QED
      BY <2>3
  <1> HIDE DEF T
  <1>3. Nat \subseteq T
    BY <1>1, <1>2, AllNaturals
  <1> QED
    BY <1>3 DEF T

\* However many pieces a line is made of, its stream is within bounds.
LEMMA LineInBounds ==
  ASSUME NEW pieces \in Seq(Piece)
  PROVE  WithinBounds(Inserted(pieces)[Len(pieces)])
  <1> DEFINE s == Inserted(pieces)
             Good(x) == x \in [length : Nat, top : Nat] /\ WithinBounds(x)
             T == {n \in Nat : n <= Len(pieces) => Good(s[n])}
  <1>1. Len(pieces) \in Nat /\ \A n \in 1 .. Len(pieces) : pieces[n] \in Piece
    OBVIOUS
  <1>2. Inserted(pieces) = CHOOSE g : InsertedUpTo(pieces, Len(pieces), g)
    BY DEF Inserted, InsertedUpTo
  <1>3. InsertedUpTo(pieces, Len(pieces), Inserted(pieces))
    BY <1>1, <1>2, InsertedExist
  <1> HIDE DEF s
  <1>4. s = [n \in 0 .. Len(pieces) |->
               IF n = 0 THEN EmptyStream ELSE Insert(s[n - 1], pieces[n])]
    BY <1>3, Zenon DEF InsertedUpTo, s
  <1>5. s[0] = EmptyStream /\ \A n \in 1 .. Len(pieces) : s[n] = Insert(s[n - 1], pieces[n])
    BY <1>1, <1>4
  <1>6. 0 \in T
    BY <1>5, InsertStaysInBounds
  <1>7. ASSUME NEW n \in Nat, n \in T PROVE n + 1 \in T
    <2>0. n + 1 \in Nat
      OBVIOUS
    <2> SUFFICES ASSUME n + 1 <= Len(pieces) PROVE Good(s[n + 1])
      BY <2>0
    <2>1. Good(s[n]) /\ n + 1 \in 1 .. Len(pieces) /\ (n + 1) - 1 = n
      BY <1>1, <1>7
    <2>2. s[n + 1] = Insert(s[n], pieces[n + 1]) /\ pieces[n + 1] \in Piece
      BY <1>1, <1>5, <2>1
    <2> QED
      BY <2>1, <2>2, InsertStaysInBounds, Zenon
  <1> HIDE DEF T
  <1>8. Nat \subseteq T
    BY <1>6, <1>7, AllNaturals
  <1> QED
    BY <1>1, <1>8 DEF T, s

\* StreamInBounds, for any size of the stream and lines of any pieces: no
\* insertion, of however long a text or of whatever integer, at any fill, writes
\* past the end of the buffer.
THEOREM StreamsInBounds == LoggingSpec => []StreamInBounds
  <1>1. ASSUME NEW level, NEW m \in Messages
        PROVE  WithinBounds(Formatted(level, m))
    <2> DEFINE pieces == Header(level) \o m \o Footer
    <2>1. Text(1) \in Piece /\ [kind |-> "number", value |-> 1] \in Piece
      BY LoggingAssumption DEF Piece, Text
    <2>2. Header(level) \in Seq(Piece) /\ Footer \in Seq(Piece) /\ m \in Seq(Piece)
      <3>1. m \in Seq(Piece)
        BY LoggingAssumption
      <3> HIDE DEF pieces
      <3>2. Header(level) \in Seq(Piece)
        BY <2>1 DEF Header
      <3>3. Footer \in Seq(Piece)
        BY <2>1 DEF Footer
      <3> QED
        BY <3>1, <3>2, <3>3
    <2>3. pieces \in Seq(Piece)
      BY <2>2
    <2> HIDE DEF pieces
    <2>4. Formatted(level, m) = Inserted(pieces)[Len(pieces)]
      BY DEF Formatted, pieces
    <2> QED
      BY <2>3, <2>4, LineInBounds
  <1>2. StreamInBounds
    BY <1>1, Zenon DEF StreamInBounds, Streams, WithinBounds
  <1> QED
    BY <1>2, PTL

-----------------------------------------------------------------------------
\* Date and TimeZone.

\* A year that begins in March, counted from -4800: y, its month m, and the
\* day e of it; and the days of the years before it.
MarchYear(year, month) == year + 4800 - (IF month <= 2 THEN 1 ELSE 0)
MarchMonth(month) == IF month <= 2 THEN month + 9 ELSE month - 3
DayOfMarchYear(month, day) == day - 1 + (153 * MarchMonth(month) + 2) \div 5
DaysBefore(y) == 365 * y + y \div 4 - y \div 100 + y \div 400

\* GetJulianDayNumber in terms of March years.
LEMMA JulianDay ==
  ASSUME NEW year \in Int, NEW month \in 1 .. 12, NEW day \in Int
  PROVE  GetJulianDayNumber(year, month, day)
           = DayOfMarchYear(month, day) + DaysBefore(MarchYear(year, month)) - 32044
  <1>1. (14 - month) \div 12 = IF month <= 2 THEN 1 ELSE 0
    OBVIOUS
  <1>2. CASE month <= 2
    BY <1>1, <1>2 DEF GetJulianDayNumber, DayOfMarchYear, DaysBefore, MarchYear, MarchMonth
  <1>3. CASE month > 2
    BY <1>1, <1>3 DEF GetJulianDayNumber, DayOfMarchYear, DaysBefore, MarchYear, MarchMonth
  <1> QED
    BY <1>2, <1>3

\* Day e of a March year is in the month, and day 365 is a 29 February.
DayFits(e, year, month) ==
  /\ e \in 0 .. 365
  /\ e = 365 => month = 2 /\ Leap(year)
  /\ (5 * e + 2) \div 153 = MarchMonth(month)

\* Every day of a month fits its March year.
LEMMA MonthOfDay ==
  ASSUME NEW year \in Nat, NEW month \in 1 .. 12, NEW day \in 1 .. DaysIn(year, month)
  PROVE  DayFits(DayOfMarchYear(month, day), year, month)
  <1> USE DEF DayFits
  <1>1. DaysIn(year, month) \in 28 .. 31 /\ day \in Int
    BY DEF DaysIn
  <1>2. day <= DaysIn(year, month) /\ 1 <= day
    BY <1>1
  <1>3. CASE month = 1 
    BY <1>1, <1>2, <1>3 DEF DayOfMarchYear, MarchMonth, DaysIn
  <1>4. CASE month = 2 
    BY <1>1, <1>2, <1>4 DEF DayOfMarchYear, MarchMonth, DaysIn
  <1>5. CASE month = 3 
    BY <1>1, <1>2, <1>5 DEF DayOfMarchYear, MarchMonth, DaysIn
  <1>6. CASE month \in 4 .. 7
    BY <1>1, <1>2, <1>6 DEF DayOfMarchYear, MarchMonth, DaysIn
  <1>7. CASE month \in 8 .. 12
    BY <1>1, <1>2, <1>7 DEF DayOfMarchYear, MarchMonth, DaysIn
  <1> QED
    BY <1>3, <1>4, <1>5, <1>6, <1>7

\* The parts of a year.
LEMMA YearParts ==
  ASSUME NEW y \in Nat
  PROVE  \E B, D, P, Q \in Nat :
           /\ y = 100 * B + D /\ D < 100
           /\ B = y \div 100 /\ Q = y \div 400 /\ y \div 4 = 25 * B + P
           /\ Q = B \div 4 /\ P = D \div 4
           /\ 4 * P <= D /\ D < 4 * P + 4
           /\ 4 * Q <= B /\ B < 4 * Q + 4
  <1> DEFINE B == y \div 100
             D == y - 100 * B
             Q == B \div 4
             P == D \div 4
  <1>1. B \in Nat /\ D \in Nat /\ D < 100 /\ y = 100 * B + D
    OBVIOUS
  <1> HIDE DEF B, D
  <1>2. /\ Q \in Nat /\ P \in Nat
        /\ 4 * P <= D /\ D < 4 * P + 4
        /\ 4 * Q <= B /\ B < 4 * Q + 4
    BY <1>1
  <1> HIDE DEF P, Q
  <1>3. y \div 400 = Q
    BY <1>1, <1>2
  <1>4. y \div 4 = 25 * B + P
    BY <1>1, <1>2
  <1> QED
    BY <1>1, <1>2, <1>3, <1>4 DEF B, P, Q

\* getYearMonthDay takes back what getJulianDayNumber makes of a date.
LEMMA DateRoundTrip ==
  ASSUME NEW year \in Nat,
         NEW month \in 1 .. 12, NEW day \in 1 .. DaysIn(year, month)
  PROVE  GetYearMonthDay(GetJulianDayNumber(year, month, day))
           = [year |-> year, month |-> month, day |-> day]
  <1> DEFINE jd == GetJulianDayNumber(year, month, day)
             y == MarchYear(year, month)
             e == DayOfMarchYear(month, day)
             a == jd + 32044
             b == (4 * a + 3) \div 146097
             c == a - ((b * 146097) \div 4)
             d == (4 * c + 3) \div 1461
             f == c - ((1461 * d) \div 4)
             m == (5 * f + 2) \div 153
  <1>0. day \in Int /\ 1 <= day
    BY DEF DaysIn
  <1>y. y = MarchYear(year, month) /\ e = DayOfMarchYear(month, day)
    OBVIOUS
  <1> HIDE DEF y, e
  <1>1. /\ e \in 0 .. 365
        /\ e = 365 => month = 2 /\ Leap(year)
        /\ (5 * e + 2) \div 153 = MarchMonth(month)
    <2>1. DayFits(DayOfMarchYear(month, day), year, month)
      BY MonthOfDay, Zenon
    <2> QED
      BY <1>y, <2>1, SMT DEF DayFits
  <1>2. y \in Nat
    BY <1>y, SMT DEF MarchYear
  <1>3. e = 365 => (y + 1) % 4 = 0 /\ ((y + 1) % 100 # 0 \/ (y + 1) % 400 = 0)
    <2> SUFFICES ASSUME e = 365
                 PROVE  (y + 1) % 4 = 0 /\ ((y + 1) % 100 # 0 \/ (y + 1) % 400 = 0)
      BY SMT
    <2>1. y + 1 = year + 4800 /\ Leap(year)
      BY <1>1, <1>y, SMT DEF MarchYear
    <2>2. (year + 4800) % 4 = year % 4
      BY SMT
    <2>3. (year + 4800) % 100 = year % 100
      BY SMT
    <2>4. (year + 4800) % 400 = year % 400
      BY SMT
    <2> QED
      BY <2>1, <2>2, <2>3, <2>4, SMT DEF Leap
  <1>4. DaysBefore(y) \in Int
    BY <1>2, SMT DEF DaysBefore
  <1>5. a = e + DaysBefore(y)
    <2>1. jd = e + DaysBefore(y) - 32044
      BY <1>0, <1>y, JulianDay, SMT
    <2> HIDE DEF jd
    <2> QED
      BY <1>1, <1>4, <2>1, SMT
  <1>z. /\ b = (4 * a + 3) \div 146097 /\ c = a - ((b * 146097) \div 4)
        /\ d = (4 * c + 3) \div 1461 /\ f = c - ((1461 * d) \div 4)
    OBVIOUS
  <1> HIDE DEF a, b, c, d
  <1>6. /\ b \in Int /\ d \in Int
        /\ b * 100 + d = y /\ c - ((1461 * d) \div 4) = e
    <2>1. PICK B, D, P, Q \in Nat :
             /\ y = 100 * B + D /\ D < 100
             /\ B = y \div 100 /\ Q = y \div 400 /\ y \div 4 = 25 * B + P
             /\ Q = B \div 4 /\ P = D \div 4
             /\ 4 * P <= D /\ D < 4 * P + 4
             /\ 4 * Q <= B /\ B < 4 * Q + 4
      BY <1>2, YearParts, SMT
    <2>2. a = e + 36524 * B + 365 * D + P + Q
      BY <1>1, <1>5, <2>1, SMT DEF DaysBefore
    <2>3. e = 365 => D = 4 * P + 3 /\ (D = 99 => B = 4 * Q + 3)
      <3> SUFFICES ASSUME e = 365 PROVE D = 4 * P + 3 /\ (D = 99 => B = 4 * Q + 3)
        BY SMT
      <3>1. (y + 1) % 4 = 0
        BY <1>3, SMT
      <3>2. D = 4 * P + 3
        BY <2>1, <3>1, SMT
      <3>3. D = 99 => (y + 1) % 100 = 0
        BY <2>1, SMT
      <3>4. D = 99 => (y + 1) % 400 = 0
        BY <1>3, <3>3, SMT
      <3>5. D = 99 => B = 4 * Q + 3
        BY <2>1, <3>4, SMT
      <3> QED
        BY <3>2, <3>5, SMT
    <2>4. e \in Int /\ 0 <= e /\ e <= 365 /\ a \in Int
      BY <1>1, <2>1, <2>2, SMT
    <2>5. P <= 24 /\ 4 * e + 4 * P < D + 1458
      BY <2>1, <2>3, <2>4, SMT
    <2>6. 146097 * B <= 4 * a + 3
      BY <2>1, <2>2, <2>4, SMT
    <2>7. 4 * a + 3 < 146097 * B + 146097
      <3>1. CASE D < 99
        BY <2>1, <2>2, <2>4, <2>5, <3>1, SMT
      <3>2. CASE D = 99
        BY <2>1, <2>2, <2>3, <2>4, <2>5, <3>2, SMT
      <3> QED
        BY <2>1, <3>1, <3>2, SMT
    <2>8. b = B
      BY <1>z, <2>1, <2>4, <2>6, <2>7, SMT
    <2>9. (B * 146097) \div 4 = 36524 * B + Q
      BY <2>1, SMT
    <2>10. c = e + 365 * D + P
      BY <1>z, <2>1, <2>2, <2>4, <2>8, <2>9, SMT
    <2>11. 1461 * D <= 4 * c + 3 /\ 4 * c + 3 < 1461 * D + 1461 /\ c \in Int
      BY <2>1, <2>4, <2>5, <2>10, SMT
    <2>12. d = D
      BY <1>z, <2>1, <2>11, SMT
    <2>13. (1461 * D) \div 4 = 365 * D + P
      BY <2>1, SMT
    <2> QED
      BY <2>1, <2>4, <2>8, <2>10, <2>12, <2>13, SMT
  <1>f. f = e
    BY <1>6, <1>z, SMT
  <1>8. GetYearMonthDay(jd) = [day   |-> f - ((153 * m + 2) \div 5) + 1,
                               month |-> m + 3 - 12 * (m \div 10),
                               year  |-> b * 100 + d - 4800 + (m \div 10)]
    BY DEF GetYearMonthDay, a, b, c, d
  <1> HIDE DEF f
  <1>7. m = MarchMonth(month)
    BY <1>1, <1>f, SMT
  <1> HIDE DEF m
  <1>9. f - ((153 * m + 2) \div 5) + 1 = day
    BY <1>0, <1>f, <1>7, <1>y, SMT DEF DayOfMarchYear, MarchMonth
  <1>10. m + 3 - 12 * (m \div 10) = month
    BY <1>7, SMT DEF MarchMonth
  <1>11. b * 100 + d - 4800 + (m \div 10) = year
    BY <1>6, <1>7, <1>y, SMT DEF MarchMonth, MarchYear
  <1> QED
    BY <1>8, <1>9, <1>10, <1>11, SMT

\* The numbers of two days that follow each other differ by one.
LEMMA NextInYear ==
  ASSUME NEW year \in Int, NEW month \in 1 .. 11
  PROVE  GetJulianDayNumber(year, month + 1, 1)
           = GetJulianDayNumber(year, month, DaysIn(year, month)) + 1
  <1>0. DaysIn(year, month) \in Int /\ month + 1 \in 1 .. 12 /\ month \in 1 .. 12
    BY DEF DaysIn
  <1>1. CASE month = 2
    <2>1. MarchYear(year, 2) = year + 4799 /\ MarchYear(year, 3) = year + 4800
      BY DEF MarchYear
    <2>2. DaysBefore(year + 4800)
            = DaysBefore(year + 4799) + 365 + (IF Leap(year) THEN 1 ELSE 0)
      <3>1. (year + 4800) \div 4 = (year + 4799) \div 4 + (IF year % 4 = 0 THEN 1 ELSE 0)
        OBVIOUS
      <3>2. (year + 4800) \div 100 = (year + 4799) \div 100 + (IF year % 100 = 0 THEN 1 ELSE 0)
        OBVIOUS
      <3>3. (year + 4800) \div 400 = (year + 4799) \div 400 + (IF year % 400 = 0 THEN 1 ELSE 0)
        OBVIOUS
      <3>4. (year % 400 = 0 => year % 100 = 0) /\ (year % 100 = 0 => year % 4 = 0)
        OBVIOUS
      <3>5. /\ (year + 4799) \div 4 \in Int /\ (year + 4799) \div 100 \in Int
            /\ (year + 4799) \div 400 \in Int
        OBVIOUS
      <3> QED
        BY <3>1, <3>2, <3>3, <3>4, <3>5 DEF DaysBefore, Leap
    <2>3. DayOfMarchYear(3, 1) = 0 /\ DayOfMarchYear(2, DaysIn(year, 2)) = DaysIn(year, 2) + 336
      BY <1>0, <1>1 DEF DayOfMarchYear, MarchMonth
    <2>4. DaysIn(year, 2) = IF Leap(year) THEN 29 ELSE 28
      BY DEF DaysIn
    <2>5. DaysBefore(year + 4799) \in Int
      BY DEF DaysBefore
    <2>6. GetJulianDayNumber(year, 3, 1) = 0 + DaysBefore(year + 4800) - 32044
      BY <2>1, <2>3, JulianDay
    <2>7. GetJulianDayNumber(year, 2, DaysIn(year, 2))
            = DaysIn(year, 2) + 336 + DaysBefore(year + 4799) - 32044
      BY <1>0, <1>1, <2>1, <2>3, JulianDay
    <2> QED
      BY <1>1, <2>2, <2>4, <2>5, <2>6, <2>7
  <1>2. CASE month # 2
    <2>1. MarchYear(year, month) = MarchYear(year, month + 1)
      BY <1>2 DEF MarchYear
    <2>2. DayOfMarchYear(month + 1, 1) = DayOfMarchYear(month, DaysIn(year, month)) + 1
      <3>1. CASE month \in {1, 3, 5, 7, 8, 10}
        BY <3>1 DEF DayOfMarchYear, MarchMonth, DaysIn
      <3>2. CASE month \in {4, 6, 9, 11}
        BY <3>2 DEF DayOfMarchYear, MarchMonth, DaysIn
      <3> QED
        BY <1>2, <3>1, <3>2
    <2>3. /\ DaysBefore(MarchYear(year, month)) \in Int
          /\ DayOfMarchYear(month, DaysIn(year, month)) \in Int
      BY <1>0 DEF DaysBefore, MarchYear, DayOfMarchYear, MarchMonth
    <2>4. GetJulianDayNumber(year, month + 1, 1)
            = DayOfMarchYear(month + 1, 1) + DaysBefore(MarchYear(year, month + 1)) - 32044
      BY <1>0, JulianDay
    <2>5. GetJulianDayNumber(year, month, DaysIn(year, month))
            = DayOfMarchYear(month, DaysIn(year, month))
              + DaysBefore(MarchYear(year, month)) - 32044
      BY <1>0, JulianDay
    <2> QED
      BY <2>1, <2>2, <2>3, <2>4, <2>5
  <1> QED
    BY <1>1, <1>2

\* From the last day of a year to the next one.
LEMMA NextOfYear ==
  ASSUME NEW year \in Int
  PROVE  GetJulianDayNumber(year + 1, 1, 1) = GetJulianDayNumber(year, 12, 31) + 1
  BY DEF GetJulianDayNumber

\* From a day to the next of the same month.
LEMMA NextInMonth ==
  ASSUME NEW year \in Int, NEW month \in 1 .. 12, NEW day \in Int
  PROVE  /\ GetJulianDayNumber(year, month, day) \in Int
         /\ GetJulianDayNumber(year, month, day + 1)
              = GetJulianDayNumber(year, month, day) + 1
  BY DEF GetJulianDayNumber

\* The record of a day keeps its type when its fields advance.
LEMMA NextCal ==
  ASSUME NEW c \in [year : Nat, month : 1 .. 12, day : Nat, wday : 0 .. 6, yday : Int],
         NEW m \in 1 .. 12, NEW d \in Nat, NEW w \in 0 .. 6, NEW n \in Int
  PROVE  /\ [c EXCEPT !.day = d, !.wday = w, !.yday = n]
              \in [year : Nat, month : 1 .. 12, day : Nat, wday : 0 .. 6, yday : Int]
         /\ [c EXCEPT !.day = d, !.month = m, !.wday = w, !.yday = n]
              \in [year : Nat, month : 1 .. 12, day : Nat, wday : 0 .. 6, yday : Int]
  OBVIOUS

\* The formulas agree with the calendar on a day, and so on the next.
CalendarIInv ==
  /\ cal \in [year : Nat, month : 1 .. 12, day : Nat, wday : 0 .. 6, yday : Int]
  /\ cal.day \in 1 .. DaysIn(cal.year, cal.month)
  /\ jdn = GetJulianDayNumber(cal.year, cal.month, cal.day)
  /\ WeekDay(jdn) = cal.wday
  /\ cal.yday = jdn - GetJulianDayNumber(cal.year, 1, 1)

\* 1 January 1900 has the number and the weekday the formulas give.
LEMMA CalendarInitIInv == CalendarInit => CalendarIInv
  <1> SUFFICES ASSUME CalendarInit PROVE CalendarIInv
    OBVIOUS
  <1>1. /\ cal \in [year : Nat, month : 1 .. 12, day : Nat, wday : 0 .. 6, yday : Int]
        /\ cal.year = 1900 /\ cal.month = 1 /\ cal.day = 1 /\ cal.wday = 1 /\ cal.yday = 0
    BY SMT DEF CalendarInit
  <1>2. GetJulianDayNumber(1900, 1, 1) = 2415021
    BY SMT DEF GetJulianDayNumber
  <1>3. 1 \in 1 .. DaysIn(1900, 1)
    BY SMT DEF DaysIn
  <1>4. jdn = 2415021 /\ WeekDay(2415021) = 1
    BY <1>2, SMT DEF CalendarInit, WeekDay, kDaysPerWeek
  <1> QED
    BY <1>1, <1>2, <1>3, <1>4, SMT DEF CalendarIInv

\* The weekday of the next day.
LEMMA NextWeekDay ==
  ASSUME NEW j \in Int
  PROVE  WeekDay(j) \in 0 .. 6 /\ WeekDay(j + 1) = (WeekDay(j) + 1) % 7
  BY SMT DEF WeekDay, kDaysPerWeek

\* Every step of the calendar, within a month, a year or to the next year, agrees
\* with the formulas.
LEMMA CalendarStep == CalendarIInv /\ [NextDay]_calendarVars => CalendarIInv'
  <1> SUFFICES ASSUME CalendarIInv, [NextDay]_calendarVars PROVE CalendarIInv'
    OBVIOUS
  <1> DEFINE y == cal.year
             m == cal.month
             d == cal.day
             J(year, month, day) == GetJulianDayNumber(year, month, day)
  <1>0. /\ cal \in [year : Nat, month : 1 .. 12, day : Nat, wday : 0 .. 6, yday : Int]
        /\ d \in 1 .. DaysIn(y, m) /\ jdn = J(y, m, d)
        /\ WeekDay(jdn) = cal.wday /\ cal.yday = jdn - J(y, 1, 1)
    BY Zenon DEF CalendarIInv
  <1>1. /\ y \in Nat /\ y \in Int /\ m \in 1 .. 12 /\ d \in Nat /\ d \in Int /\ cal.yday \in Int
        /\ DaysIn(y, m) \in 28 .. 31 /\ 1 \in 1 .. 12
    BY <1>0, SMT DEF DaysIn
  <1>2. jdn \in Int /\ J(y, 1, 1) \in Int /\ J(y, m, d) \in Int
        /\ J(y, m, d + 1) = J(y, m, d) + 1
    <2>1. 1 \in Int
      OBVIOUS
    <2> QED
      BY <1>0, <1>1, <2>1, NextInMonth, Zenon
  <1> HIDE DEF J
  <1>3. WeekDay(jdn + 1) = (cal.wday + 1) % 7 /\ (cal.wday + 1) % 7 \in 0 .. 6
    <2>1. WeekDay(jdn + 1) \in 0 .. 6 /\ WeekDay(jdn + 1) = (WeekDay(jdn) + 1) % 7
      BY <1>2, NextWeekDay, SMT
    <2> QED
      BY <1>0, <2>1, SMT
  <1>4. CASE UNCHANGED calendarVars
    <2>1. jdn' = jdn /\ cal' = cal
      BY <1>4, Zenon DEF calendarVars
    <2> QED
      BY <2>1, Zenon DEF CalendarIInv
  <1>5. CASE NextDay /\ SameMonth
    <2>1. jdn' = jdn + 1 /\ d < DaysIn(y, m)
          /\ cal' = [cal EXCEPT !.day = d + 1, !.wday = (cal.wday + 1) % 7, !.yday = cal.yday + 1]
      BY <1>5, SMT DEF NextDay, SameMonth
    <2>2. /\ cal'.year = y /\ cal'.month = m /\ cal'.day = d + 1
          /\ cal'.wday = (cal.wday + 1) % 7 /\ cal'.yday = cal.yday + 1
      BY <1>0, <2>1, SMT
    <2>3. cal' \in [year : Nat, month : 1 .. 12, day : Nat, wday : 0 .. 6, yday : Int]
      <3>1. d + 1 \in Nat /\ cal.yday + 1 \in Int
        BY <1>1, SMT
      <3> QED
        BY <1>0, <1>1, <1>3, <2>1, <3>1, NextCal, Zenon
    <2>4. d + 1 \in 1 .. DaysIn(y, m)
      BY <1>1, <2>1, SMT
    <2>5. jdn' = J(y, m, d + 1) /\ cal'.yday = jdn' - J(y, 1, 1)
      BY <1>0, <1>1, <1>2, <2>1, <2>2, SMT
    <2> QED
      BY <1>3, <2>1, <2>2, <2>3, <2>4, <2>5, Zenon DEF CalendarIInv, J
  <1>6. CASE NextDay /\ NextMonth
    <2>1. jdn' = jdn + 1 /\ d = DaysIn(y, m) /\ m < 12
          /\ cal' = [cal EXCEPT !.day = 1, !.month = m + 1, !.wday = (cal.wday + 1) % 7,
                                !.yday = cal.yday + 1]
      BY <1>6, SMT DEF NextDay, NextMonth
    <2>2. /\ cal'.year = y /\ cal'.month = m + 1 /\ cal'.day = 1
          /\ cal'.wday = (cal.wday + 1) % 7 /\ cal'.yday = cal.yday + 1
      BY <1>0, <2>1, SMT
    <2>a. m + 1 \in 1 .. 12 /\ m \in 1 .. 11
      BY <1>1, <2>1, SMT
    <2>3. cal' \in [year : Nat, month : 1 .. 12, day : Nat, wday : 0 .. 6, yday : Int]
      <3>1. 1 \in Nat /\ cal.yday + 1 \in Int
        BY <1>1, SMT
      <3> QED
        BY <1>0, <1>3, <2>1, <2>a, <3>1, NextCal, Zenon
    <2>4. 1 \in 1 .. DaysIn(y, m + 1)
      BY <1>1, SMT DEF DaysIn
    <2>5. jdn' = J(y, m + 1, 1) /\ cal'.yday = jdn' - J(y, 1, 1)
      <3>1. J(y, m + 1, 1) = J(y, m, DaysIn(y, m)) + 1
        BY <1>1, <2>a, NextInYear DEF J
      <3> QED
        BY <1>0, <1>1, <1>2, <2>1, <2>2, <3>1, SMT
    <2> QED
      BY <1>3, <2>1, <2>2, <2>3, <2>4, <2>5, Zenon DEF CalendarIInv, J
  <1>7. CASE NextDay /\ NextYear
    <2>1. jdn' = jdn + 1 /\ d = 31 /\ m = 12
          /\ cal' = [year |-> y + 1, month |-> 1, day |-> 1,
                     wday |-> (cal.wday + 1) % 7, yday |-> 0]
      BY <1>7, SMT DEF NextDay, NextYear
    <2>2. /\ cal'.year = y + 1 /\ cal'.month = 1 /\ cal'.day = 1
          /\ cal'.wday = (cal.wday + 1) % 7 /\ cal'.yday = 0
      BY <2>1, SMT
    <2>3. cal' \in [year : Nat, month : 1 .. 12, day : Nat, wday : 0 .. 6, yday : Int]
      BY <1>1, <1>3, <2>1, SMT
    <2>4. 1 \in 1 .. DaysIn(y + 1, 1)
      BY <1>1, SMT DEF DaysIn
    <2>5. jdn' = J(y + 1, 1, 1) /\ cal'.yday = jdn' - J(y + 1, 1, 1)
      <3>1. J(y + 1, 1, 1) = J(y, 12, 31) + 1
        BY <1>1, NextOfYear DEF J
      <3> QED
        BY <1>0, <1>2, <2>1, <2>2, <3>1, SMT
    <2> QED
      BY <1>3, <2>1, <2>2, <2>3, <2>4, <2>5, Zenon DEF CalendarIInv, J
  <1> QED
    BY <1>4, <1>5, <1>6, <1>7 DEF NextDay

\* Date's closed formulas are the Gregorian calendar for every day from 1900 on,
\* as long as a year fits the int it is computed in.
THEOREM DatesAreGregorian == CalendarSpec => []DateIsGregorian
  <1>1. CalendarIInv => DateIsGregorian
    <2> SUFFICES ASSUME CalendarIInv PROVE DateIsGregorian
      OBVIOUS
    <2>1. /\ cal.year \in Nat /\ cal.month \in 1 .. 12
          /\ cal.day \in 1 .. DaysIn(cal.year, cal.month)
          /\ jdn = GetJulianDayNumber(cal.year, cal.month, cal.day)
          /\ WeekDay(jdn) = cal.wday
      BY SMT DEF CalendarIInv
    <2>2. GetYearMonthDay(jdn) = [year |-> cal.year, month |-> cal.month, day |-> cal.day]
      BY <2>1, DateRoundTrip, Zenon
    <2> QED
      BY <2>1, <2>2, Zenon DEF DateIsGregorian
  <1> QED
    BY <1>1, CalendarInitIInv, CalendarStep, PTL DEF CalendarSpec

\* What CDiv and CMod leave of a time n days and x seconds after the epoch.
LEMMA SplitTime ==
  ASSUME NEW n \in Int, NEW x \in Nat, x < kSecondsPerDay
  PROVE  DaysAndSeconds(n * kSecondsPerDay + x) = [days |-> n, seconds |-> x]
  <1> DEFINE t == n * 86400 + x
  <1>0. kSecondsPerDay = 86400
    BY SMT DEF kSecondsPerDay
  <1>1. x \in Int /\ 0 <= x /\ x < 86400
    BY <1>0, SMT
  <1>a. t \in Int /\ t = n * 86400 + x
    BY <1>1, SMT
  <1> HIDE DEF t
  <1>2. CASE t >= 0
    <2>1. CDiv(t, 86400) = n
      <3>1. t \div 86400 = n
        BY <1>1, <1>a, SMT
      <3> QED
        BY <1>2, <3>1, SMT DEF CDiv
    <2>2. CMod(t, 86400) = x
      BY <1>1, <1>a, <2>1, SMT DEF CMod
    <2>3. DaysAndSeconds(t) = [days |-> n, seconds |-> x]
      BY <1>0, <1>1, <2>1, <2>2, SMT DEF DaysAndSeconds
    <2> QED
      BY <1>0, <2>3, SMT DEF t
  <1>3. CASE t < 0 /\ x = 0
    <2>1. CDiv(t, 86400) = n
      <3>1. (-t) \div 86400 = -n
        BY <1>1, <1>a, <1>3, SMT
      <3> QED
        BY <1>a, <1>3, <3>1, SMT DEF CDiv
    <2>2. CMod(t, 86400) = x
      BY <1>1, <1>a, <2>1, SMT DEF CMod
    <2>3. DaysAndSeconds(t) = [days |-> n, seconds |-> x]
      BY <1>0, <1>1, <2>1, <2>2, SMT DEF DaysAndSeconds
    <2> QED
      BY <1>0, <2>3, SMT DEF t
  <1>4. CASE t < 0 /\ x # 0
    <2>1. CDiv(t, 86400) = n + 1
      <3>1. (-t) \div 86400 = -n - 1
        BY <1>1, <1>a, <1>4, SMT
      <3> QED
        BY <1>a, <1>4, <3>1, SMT DEF CDiv
    <2>2. CMod(t, 86400) = x - 86400
      BY <1>1, <1>a, <2>1, SMT DEF CMod
    <2>3. DaysAndSeconds(t) = [days |-> n, seconds |-> x]
      BY <1>0, <1>1, <2>1, <2>2, SMT DEF DaysAndSeconds
    <2> QED
      BY <1>0, <2>3, SMT DEF t
  <1> QED
    BY <1>1, <1>a, <1>2, <1>3, <1>4, SMT

\* Sixty units make one of the next size.
LEMMA BySixty ==
  ASSUME NEW x \in Nat
  PROVE  /\ x \div 60 \in Nat /\ x % 60 \in 0 .. 59
         /\ x % 60 = x - 60 * (x \div 60)
  <1>1. x \in Int /\ x >= 0
    BY SMT
  <1>2. 60 * (x \div 60) <= x /\ x < 60 * (x \div 60) + 60 /\ x \div 60 \in Int
    BY <1>1, SMT
  <1>3. x % 60 = x - 60 * (x \div 60)
    BY <1>1, SMT
  <1> DEFINE q == x \div 60
             r == x % 60
  <1>4. q \in Int /\ 60 * q <= x /\ x < 60 * q + 60 /\ r = x - 60 * q
    BY <1>2, <1>3, SMT
  <1> HIDE DEF q, r
  <1>5. q \in Nat /\ r \in 0 .. 59
    BY <1>1, <1>4, SMT
  <1> QED
    BY <1>3, <1>5, SMT DEF q, r

\* FillHMS gives h, m and z, which are x seconds.
TimeOfDay(x, h, m, z) ==
  /\ FillHMS(x) = [tm_sec |-> z, tm_min |-> m, tm_hour |-> h]
  /\ h * 3600 + m * 60 + z = x

\* The time of day is in range and is the seconds it is made of.
LEMMA HoursMinutesSeconds ==
  ASSUME NEW x \in Nat, x < kSecondsPerDay
  PROVE  \E h \in 0 .. 23, m \in 0 .. 59, z \in 0 .. 59 : TimeOfDay(x, h, m, z)
  <1>1. x < 86400
    BY SMT DEF kSecondsPerDay
  <1> DEFINE minutes == x \div 60
             z == x % 60
             h == minutes \div 60
             m == minutes % 60
  <1>2. minutes \in Nat /\ z \in 0 .. 59 /\ z = x - 60 * minutes
    BY BySixty, SMT
  <1>3. FillHMS(x) = [tm_sec |-> z, tm_min |-> m, tm_hour |-> h]
    BY SMT DEF FillHMS
  <1> HIDE DEF minutes, z
  <1>4. h \in Nat /\ m \in 0 .. 59 /\ m = minutes - 60 * h
    BY <1>2, BySixty, SMT
  <1> HIDE DEF h, m
  <1>5. h \in 0 .. 23 /\ h * 3600 + m * 60 + z = x
    BY <1>1, <1>2, <1>4, SMT
  <1>6. TimeOfDay(x, h, m, z) /\ h \in 0 .. 23 /\ m \in 0 .. 59 /\ z \in 0 .. 59
    BY <1>2, <1>3, <1>4, <1>5, SMT DEF TimeOfDay
  <1> QED
    BY <1>6, Zenon

\* The fields of what ToUtcTime returns.
LEMMA UtcFields ==
  ASSUME NEW a, NEW b, NEW c, NEW d, NEW e, NEW f, NEW g, NEW h, NEW utc,
         utc = [tm_sec |-> a, tm_min |-> b, tm_hour |-> c, tm_year |-> d,
                tm_mon |-> e, tm_mday |-> f, tm_wday |-> g, tm_yday |-> h]
  PROVE  /\ utc.tm_sec = a /\ utc.tm_min = b /\ utc.tm_hour = c /\ utc.tm_year = d
         /\ utc.tm_mon = e /\ utc.tm_mday = f /\ utc.tm_wday = g /\ utc.tm_yday = h
  BY SMT

\* toUtcTime and fromUtcTime agree with the calendar at every one of the
\* seconds of every day from 1900 on, before 1970 as after.
THEOREM UtcTimesAreRight == CalendarSpec => []UtcIsCalendar
  <1>1. CalendarIInv => UtcIsCalendar
    <2> SUFFICES ASSUME CalendarIInv, NEW x \in Seconds
                 PROVE  LET utc == ToUtcTime(SecondsAt(x))
                        IN  /\ utc.tm_year = cal.year - 1900 /\ utc.tm_mon = cal.month - 1
                            /\ utc.tm_mday = cal.day /\ utc.tm_wday = cal.wday
                            /\ utc.tm_yday = cal.yday
                            /\ utc.tm_hour \in 0 .. 23 /\ utc.tm_min \in 0 .. 59
                            /\ utc.tm_sec \in 0 .. 59
                            /\ FromUtcTime(utc) = SecondsAt(x)
      BY SMT DEF UtcIsCalendar
    <2> DEFINE t == SecondsAt(x)
               k == kJulianDayOf1970_01_01
               y == cal.year
               base == (jdn - k) * kSecondsPerDay
               first == GetJulianDayNumber(y, 1, 1)
               utc == ToUtcTime(t)
    <2>1. /\ y \in Nat /\ cal.month \in 1 .. 12
          /\ cal.day \in 1 .. DaysIn(y, cal.month) /\ cal.day \in Int
          /\ jdn = GetJulianDayNumber(y, cal.month, cal.day)
          /\ WeekDay(jdn) = cal.wday
          /\ cal.yday = jdn - first
      BY SMT DEF CalendarIInv
    <2>2. k \in Int /\ jdn \in Int
      <3>1. k \in Int
        BY SMT DEF kJulianDayOf1970_01_01, GetJulianDayNumber
      <3>2. jdn \in Int
        BY <2>1, SMT DEF GetJulianDayNumber
      <3> QED
        BY <3>1, <3>2, Zenon
    <2>3. x \in Nat /\ x < kSecondsPerDay
      BY CalendarAssumption, SMT
    <2>4. jdn - k \in Int /\ (jdn - k) + k = jdn
      <3> HIDE DEF k
      <3> QED
        BY <2>2, SMT
    <2>5. base \in Int /\ t = base + x
      <3>1. t = base + x
        BY SMT DEF SecondsAt
      <3> HIDE DEF k
      <3> QED
        BY <2>4, <3>1, SMT DEF kSecondsPerDay
    <2>6. DaysAndSeconds(t) = [days |-> jdn - k, seconds |-> x]
      <3> HIDE DEF k, t
      <3> QED
        BY <2>3, <2>4, <2>5, SplitTime, SMT
    <2>a. PICK h \in 0 .. 23, m \in 0 .. 59, z \in 0 .. 59 : TimeOfDay(x, h, m, z)
      BY <2>3, HoursMinutesSeconds, Zenon
    <2>7. /\ FillHMS(x) = [tm_sec |-> z, tm_min |-> m, tm_hour |-> h]
          /\ h * 3600 + m * 60 + z = x
      BY <2>a, SMT DEF TimeOfDay
    <2>8. GetYearMonthDay(jdn) = [year |-> y, month |-> cal.month, day |-> cal.day]
      BY <2>1, DateRoundTrip, SMT
    <2>9. utc = [tm_sec |-> z, tm_min |-> m, tm_hour |-> h, tm_year |-> y - 1900,
                 tm_mon |-> cal.month - 1, tm_mday |-> cal.day, tm_wday |-> WeekDay(jdn),
                 tm_yday |-> jdn - first]
      <3> HIDE DEF k, t, y, first
      <3> QED
        BY <2>4, <2>6, <2>7, <2>8, SMT DEF ToUtcTime, k, first
    <2> HIDE DEF utc, y, first
    <2>10. /\ utc.tm_sec = z /\ utc.tm_min = m /\ utc.tm_hour = h /\ utc.tm_year = y - 1900
           /\ utc.tm_mon = cal.month - 1 /\ utc.tm_mday = cal.day /\ utc.tm_wday = WeekDay(jdn)
           /\ utc.tm_yday = jdn - first
      BY <2>9, UtcFields, SMT
    <2>11. utc.tm_year + 1900 = y /\ utc.tm_mon + 1 = cal.month
      BY <2>1, <2>10, SMT
    <2>12. FromUtcTime(utc) = base + h * 3600 + m * 60 + z
      <3> HIDE DEF k
      <3> QED
        BY <2>1, <2>10, <2>11, SMT DEF FromUtcTime, k
    <2>13. FromUtcTime(utc) = t
      <3> HIDE DEF base, t
      <3> QED
        BY <2>5, <2>7, <2>12, SMT
    <2> HIDE DEF t
    <2>14. /\ utc.tm_year = cal.year - 1900 /\ utc.tm_mon = cal.month - 1
           /\ utc.tm_mday = cal.day /\ utc.tm_wday = cal.wday
           /\ utc.tm_yday = cal.yday
           /\ utc.tm_hour \in 0 .. 23 /\ utc.tm_min \in 0 .. 59
           /\ utc.tm_sec \in 0 .. 59
           /\ FromUtcTime(utc) = t
      BY <2>1, <2>7, <2>10, <2>13, SMT DEF y
    <2> QED
      BY <2>14, SMT DEF t, utc
  <1> QED
    BY <1>1, CalendarInitIInv, CalendarStep, PTL DEF CalendarSpec

-----------------------------------------------------------------------------
(***************************************************************************)
(* The ints of Date.cpp.  The formulas above are in exact integers; a      *)
(* signed overflow would be undefined.                                     *)
(***************************************************************************)

\* x is the value of a 32-bit int.
FitsInt(x) == x \in Int /\ -2147483648 <= x /\ x <= 2147483647

\* The years considered, and numbers of days that are enough for them.
ManyYears == {y \in Nat : y <= 1000000}
ManyDays == {j \in Nat : j <= 500000000}

\* Everything getJulianDayNumber computes, in the order of its evaluation.
JulianDayFits(year, month, day) ==
  LET a == (14 - month) \div 12
      y == year + 4800 - a
      m == month + 12 * a - 3
      s == day + (153 * m + 2) \div 5
  IN  /\ FitsInt(14 - month) /\ FitsInt(a)
      /\ FitsInt(year + 4800) /\ FitsInt(y)
      /\ FitsInt(12 * a) /\ FitsInt(month + 12 * a) /\ FitsInt(m)
      /\ FitsInt(153 * m) /\ FitsInt(153 * m + 2) /\ FitsInt(s)
      /\ FitsInt(y * 365) /\ FitsInt(s + y * 365)
      /\ FitsInt(s + y * 365 + y \div 4)
      /\ FitsInt(s + y * 365 + y \div 4 - y \div 100)
      /\ FitsInt(s + y * 365 + y \div 4 - y \div 100 + y \div 400)
      /\ FitsInt(s + y * 365 + y \div 4 - y \div 100 + y \div 400 - 32045)

\* Everything getYearMonthDay computes.
YearMonthDayFits(julianDayNumber) ==
  LET a == julianDayNumber + 32044
      b == (4 * a + 3) \div 146097
      c == a - ((b * 146097) \div 4)
      d == (4 * c + 3) \div 1461
      e == c - ((1461 * d) \div 4)
      m == (5 * e + 2) \div 153
  IN  /\ FitsInt(a) /\ FitsInt(4 * a) /\ FitsInt(4 * a + 3) /\ FitsInt(b)
      /\ FitsInt(b * 146097) /\ FitsInt(c) /\ FitsInt(4 * c) /\ FitsInt(4 * c + 3)
      /\ FitsInt(d) /\ FitsInt(1461 * d) /\ FitsInt(e)
      /\ FitsInt(5 * e) /\ FitsInt(5 * e + 2) /\ FitsInt(m)
      /\ FitsInt(153 * m) /\ FitsInt(153 * m + 2)
      /\ FitsInt(e - (153 * m + 2) \div 5) /\ FitsInt(e - (153 * m + 2) \div 5 + 1)
      /\ FitsInt(m + 3) /\ FitsInt(12 * (m \div 10)) /\ FitsInt(m + 3 - 12 * (m \div 10))
      /\ FitsInt(b * 100) /\ FitsInt(b * 100 + d) /\ FitsInt(b * 100 + d - 4800)
      /\ FitsInt(b * 100 + d - 4800 + m \div 10)

\* getJulianDayNumber overflows for no date of the first million years, and its
\* result is far from the largest int.
LEMMA JulianDayInRange ==
  ASSUME NEW year \in ManyYears, NEW month \in 1 .. 12, NEW day \in 1 .. 31
  PROVE  /\ JulianDayFits(year, month, day)
         /\ GetJulianDayNumber(year, month, day) \in ManyDays
  <1> DEFINE a == (14 - month) \div 12
             y == year + 4800 - a
             m == month + 12 * a - 3
             s == day + (153 * m + 2) \div 5
  <1>0. year \in Int /\ 0 <= year /\ year <= 1000000
    BY DEF ManyYears
  <1>1. a \in {0, 1} /\ m \in 0 .. 11
    OBVIOUS
  <1>2. y \in Int /\ 4799 <= y /\ y <= 1004800
    BY <1>0, <1>1
  <1> HIDE DEF a
  <1>3. s \in Int /\ 1 <= s /\ s <= 400
    BY <1>1
  <1> HIDE DEF m, s, y
  <1>4. y \div 4 \in 0 .. y /\ y \div 100 \in 0 .. y /\ y \div 400 \in 0 .. y
    BY <1>2
  <1> DEFINE p == y \div 4
             q == y \div 100
             r == y \div 400
  <1> HIDE DEF p, q, r
  <1>5. /\ y \in Int /\ 4799 <= y /\ y <= 1004800 /\ s \in Int /\ 1 <= s /\ s <= 400
        /\ p \in Int /\ 0 <= p /\ p <= y /\ q \in Int /\ 0 <= q /\ q <= y
        /\ r \in Int /\ 0 <= r /\ r <= y
    BY <1>2, <1>3, <1>4 DEF p, q, r
  <1>6. /\ FitsInt(14 - month) /\ FitsInt(a)
        /\ FitsInt(year + 4800) /\ FitsInt(12 * a) /\ FitsInt(month + 12 * a)
    BY <1>0, <1>1 DEF FitsInt
  <1>7. FitsInt(m) /\ FitsInt(153 * m) /\ FitsInt(153 * m + 2)
    BY <1>1 DEF FitsInt
  <1>8. /\ FitsInt(y) /\ FitsInt(s) /\ FitsInt(y * 365) /\ FitsInt(s + y * 365)
        /\ FitsInt(s + y * 365 + p) /\ FitsInt(s + y * 365 + p - q)
        /\ FitsInt(s + y * 365 + p - q + r) /\ FitsInt(s + y * 365 + p - q + r - 32045)
    BY <1>5 DEF FitsInt
  <1>9. s + y * 365 + p - q + r - 32045 \in ManyDays
    BY <1>5 DEF ManyDays
  <1>10. GetJulianDayNumber(year, month, day) = s + y * 365 + p - q + r - 32045
    BY DEF GetJulianDayNumber, a, y, m, s, p, q, r
  <1>11. JulianDayFits(year, month, day)
    BY <1>6, <1>7, <1>8 DEF JulianDayFits, a, y, m, s, p, q, r
  <1> QED
    BY <1>9, <1>10, <1>11

\* Nor does getYearMonthDay for any number of that size.
LEMMA YearMonthDayInRange ==
  ASSUME NEW j \in ManyDays
  PROVE  YearMonthDayFits(j)
  <1> DEFINE a == j + 32044
             b == (4 * a + 3) \div 146097
             u == (b * 146097) \div 4
             c == a - u
             d == (4 * c + 3) \div 1461
             w == (1461 * d) \div 4
             e == c - w
             m == (5 * e + 2) \div 153
             k == (153 * m + 2) \div 5
             t == m \div 10
  <1>1. a \in Int /\ 32044 <= a /\ a <= 500032044
    BY DEF ManyDays
  <1> HIDE DEF a
  <1>2. b \in Int /\ b >= 0 /\ b * 146097 <= 4 * a + 3 /\ 4 * a + 3 < b * 146097 + 146097
    BY <1>1
  <1> HIDE DEF b
  <1>3. u \in Int /\ 4 * u <= b * 146097 /\ b * 146097 < 4 * u + 4
    BY <1>2
  <1> HIDE DEF u
  <1>4. c \in Int /\ 0 <= c /\ c <= 36525
    BY <1>1, <1>2, <1>3
  <1> HIDE DEF c
  <1>5. d \in Int /\ d >= 0 /\ 1461 * d <= 4 * c + 3 /\ 4 * c + 3 < 1461 * d + 1461
    BY <1>4
  <1> HIDE DEF d
  <1>6. w \in Int /\ 4 * w <= 1461 * d /\ 1461 * d < 4 * w + 4
    BY <1>5
  <1> HIDE DEF w
  <1>7. e \in Int /\ 0 <= e /\ e <= 366
    BY <1>4, <1>5, <1>6
  <1> HIDE DEF e
  <1>8. m \in Int /\ 0 <= m /\ m <= 12
    BY <1>7
  <1> HIDE DEF m
  <1>9. k \in Int /\ 0 <= k /\ k <= 400 /\ t \in Int /\ 0 <= t /\ t <= 1
    BY <1>8
  <1> HIDE DEF k, t
  <1>10. /\ FitsInt(a) /\ FitsInt(4 * a) /\ FitsInt(4 * a + 3) /\ FitsInt(b)
         /\ FitsInt(b * 146097) /\ FitsInt(c) /\ FitsInt(4 * c) /\ FitsInt(4 * c + 3)
    BY <1>1, <1>2, <1>4 DEF FitsInt
  <1>11. FitsInt(d) /\ FitsInt(1461 * d)
    BY <1>4, <1>5 DEF FitsInt
  <1>12. /\ FitsInt(e) /\ FitsInt(5 * e) /\ FitsInt(5 * e + 2)
         /\ FitsInt(m) /\ FitsInt(153 * m) /\ FitsInt(153 * m + 2)
         /\ FitsInt(e - k) /\ FitsInt(e - k + 1)
         /\ FitsInt(m + 3) /\ FitsInt(12 * t) /\ FitsInt(m + 3 - 12 * t)
    BY <1>7, <1>8, <1>9 DEF FitsInt
  <1>13. /\ FitsInt(b * 100) /\ FitsInt(b * 100 + d) /\ FitsInt(b * 100 + d - 4800)
         /\ FitsInt(b * 100 + d - 4800 + t)
    BY <1>1, <1>2, <1>4, <1>5, <1>9 DEF FitsInt
  <1> QED
    BY <1>10, <1>11, <1>12, <1>13 DEF YearMonthDayFits, a, b, u, c, d, w, e, m, k, t

\* Date's ints never overflow for a date of the years 0 to 1000000, the 1900 to
\* 2500 of its comment among them: for those the theorems above are about what
\* the machine computes.
THEOREM DatesFitInts ==
  ASSUME NEW year \in ManyYears, NEW month \in 1 .. 12, NEW day \in 1 .. 31
  PROVE  /\ JulianDayFits(year, month, day)
         /\ YearMonthDayFits(GetJulianDayNumber(year, month, day))
  BY JulianDayInRange, YearMonthDayInRange
=============================================================================
