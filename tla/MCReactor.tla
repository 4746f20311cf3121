----------------------------- MODULE MCReactor -----------------------------
(* Three channels with a descriptor each.                                  *)
EXTENDS Reactor, TLC

CONSTANTS a, b, c
McChan == {a, b, c}
McFd == {0, 1, 2}
McFdOf == (a :> 0) @@ (b :> 1) @@ (c :> 2)
\* Everything but a hang-up on all descriptors, or a hang-up on one.
McReady == {[f \in McFd |-> Askable], [f \in McFd |-> IF f = 1 THEN Unasked ELSE {}]}
McTied == {c}
=============================================================================
