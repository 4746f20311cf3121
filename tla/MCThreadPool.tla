---------------------------- MODULE MCThreadPool ----------------------------
(* Two callers and two threads, as model values.                           *)
EXTENDS ThreadPool, TLC

CONSTANTS c1, c2, w1, w2
=============================================================================
