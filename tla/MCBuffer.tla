------------------------------ MODULE MCBuffer ------------------------------
(* The byte values are 0, which is also the filler, and 10, the '\n'.      *)
EXTENDS Buffer
=============================================================================
