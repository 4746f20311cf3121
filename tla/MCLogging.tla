----------------------------- MODULE MCLogging -----------------------------
(* Small numbers, days and buffers for TLC.                                *)
EXTENDS Logging, TLC

McNumbers == -12 .. 12
McNumber(v) == [kind |-> "number", value |-> v]
\* A text of any length, with a number before it, after it, or neither.
McMessages ==
  LET texts == {Text(n) : n \in 0 .. kSmallBuffer} IN
    {<<>>} \cup {<<x>> : x \in texts} \cup {<<x, McNumber(-12)>> : x \in texts}
      \cup {<<McNumber(12), x>> : x \in texts}
McLevels == {DEBUG, FATAL}
McSymmetry == Permutations(Threads)

\* convert and convertHex against the numerals they must write, over a signed
\* and an unsigned type of eight bits, the smallest value included.
ASSUME ConvertWritesNumerals ==
  LET w == -128 .. 127 IN \A v \in w : IsNumeral(convert(v, w), v, 10)
ASSUME ConvertHexWritesNumerals ==
  LET w == 0 .. 255 IN \A v \in w : IsNumeral(convertHex(v, w), v, 16)
=============================================================================
