--------------------------- MODULE MCEPollPoller ---------------------------
(* Two channels that use one descriptor in turn, and one with its own.     *)
EXTENDS EPollPoller, TLC

CONSTANTS a, b, c
McChan == {a, b, c}
McFd == {1, 2}
McFdOf == (a :> 1) @@ (b :> 1) @@ (c :> 2)
=============================================================================
