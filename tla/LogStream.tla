----------------------------- MODULE LogStream -----------------------------
(***************************************************************************)
(* The stream a log line is formatted into, src/utils/LogStream.h and      *)
(* LogStream.cpp: a FixedBuffer<kSmallBuffer> that takes a piece as a      *)
(* whole or not at all, and the conversion of integers.                    *)
(*                                                                         *)
(* A stream is its length and the end of the bytes ever written to it; a   *)
(* text is its length, an integer is its value.                            *)
(***************************************************************************)
EXTENDS Integers, Sequences, SequencesExt

CONSTANTS
  kSmallBuffer,     \* kSmallBuffer, 4000
  kMaxNumericSize   \* kMaxNumericSize, 32

ASSUME StreamAssumption ==
  kSmallBuffer \in Nat \ {0} /\ kMaxNumericSize \in Nat \ {0}

EmptyStream == [length |-> 0, top |-> 0]

avail(s) == kSmallBuffer - s.length

Larger(a, b) == IF a > b THEN a ELSE b

\* FixedBuffer::append.
AppendText(s, len) ==
  IF avail(s) > len
  THEN [length |-> s.length + len, top |-> Larger(s.top, s.length + len)]
  ELSE s

(***************************************************************************)
(* convert and convertHex.  C's / and % round towards zero, so the digits  *)
(* of a negative value are 0 or negative; zero[lsd] reads the table on     *)
(* either side.                                                            *)
(***************************************************************************)
Minus == -1

Quotient(i, base) == IF i >= 0 THEN i \div base ELSE -((-i) \div base)
Lsd(i, base) == i - base * Quotient(i, base)
zero(lsd) == IF lsd >= 0 THEN lsd ELSE -lsd

\* do { ... } while (i != 0): the digits of the values in r, last digit first.
Digits(r, base) ==
  LET d[i \in r] ==
        IF Quotient(i, base) = 0 THEN <<zero(Lsd(i, base))>>
        ELSE <<zero(Lsd(i, base))>> \o d[Quotient(i, base)]
  IN  d

convert(value, r) ==
  Reverse(Digits(r, 10)[value] \o (IF value < 0 THEN <<Minus>> ELSE <<>>))

\* For an unsigned value.
convertHex(value, r) == Reverse(Digits(r, 16)[value])

\* 10 to the n: the integers of at most n digits are below it.
TenToThe(n) == LET p[i \in 0 .. n] == IF i = 0 THEN 1 ELSE 10 * p[i - 1] IN p[n]

\* Mutant: any room will do.
AppendNumberUnchecked(s, len) ==
  IF avail(s) > 1
  THEN [length |-> s.length + len, top |-> Larger(s.top, s.length + len + 1)]
  ELSE s

\* formatInteger and the operators for pointers and doubles: a number of len
\* characters and its '\0' go to current() if kMaxNumericSize bytes are left.
AppendNumber(s, len) ==
  IF avail(s) >= kMaxNumericSize
  THEN [length |-> s.length + len, top |-> Larger(s.top, s.length + len + 1)]
  ELSE s

-----------------------------------------------------------------------------
(***************************************************************************)
(* What the conversions must compute.                                      *)
(***************************************************************************)

\* The number that digits in a base stand for: what the first n of them do.
Values(s, base) ==
  LET v[n \in 0 .. Len(s)] == IF n = 0 THEN 0 ELSE base * v[n - 1] + s[n] IN v
ValueOf(s, base) == Values(s, base)[Len(s)]

\* s is the usual way to write v in a base: its digits, most significant
\* first, without leading zeros, after a sign if v is negative.
IsNumeral(s, v, base) ==
  LET n == IF v < 0 THEN Tail(s) ELSE s
  IN  /\ v < 0 => s[1] = Minus
      /\ n # <<>>
      /\ \A i \in 1 .. Len(n) : n[i] \in 0 .. base - 1
      /\ n[1] = 0 => Len(n) = 1
      /\ ValueOf(n, base) = IF v < 0 THEN -v ELSE v
=============================================================================
