----------------------------- MODULE ByteQueue -----------------------------
(***************************************************************************)
(* What a Buffer (src/port/Buffer.h) is to its user: a sequence of bytes   *)
(* that grows at either end and is read from the front.                    *)
(***************************************************************************)
EXTENDS Integers, Sequences

VARIABLE content

PutBack(d) == content' = content \o d
PutFront(d) == content' = d \o content
TakeFront(n) == content' = SubSeq(content, n + 1, Len(content))
Nothing == content' = content
=============================================================================
