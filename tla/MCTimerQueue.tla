--------------------------- MODULE MCTimerQueue ---------------------------
(* Values for the constants of TimerQueue that a .cfg cannot write.        *)
EXTENDS TimerQueue

\* Addresses on both sides of UINT32_MAX (here 2, as lower_bound excludes the sentry itself).
McAddr == {1, 2}
McLowAddr == {0, 1}
McDelays == {1}
McPastDelays == {-1, 1}
\* The wall clock is stepped back: the alarm goes off too early.
McJumps == {-1}
McNoJumps == {}
McIntervals == {2}
=============================================================================
