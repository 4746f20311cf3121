------------------------- MODULE MCEventLoopThread -------------------------
(* The event loop thread and its owner, for TLC.                           *)
EXTENDS EventLoopThread
=============================================================================
