------------------------------- MODULE Poller -------------------------------
(***************************************************************************)
(* What a Poller (src/port/Poller.h) promises the event loop, whichever    *)
(* system call is behind it: it watches, for every channel, exactly the    *)
(* events the channel asked for last, and a poll reports only channels it  *)
(* knows, each with events that are watched for it now.                    *)
(***************************************************************************)
CONSTANTS
  Chan    \* Channel objects

\* The events a channel can ask for, and the one poll(2) and epoll report
\* unasked (POLLHUP, POLLERR).
Askable == {"in", "out"}
Unasked == {"hup"}
Events == Askable \cup Unasked

VARIABLES
  registered,  \* channels the poller knows
  interest,    \* what it watches for each channel
  reported     \* the last poll's channels, with Channel::revents_

absVars == <<registered, interest, reported>>

NothingReported == [c \in {} |-> {}]

AbsInit ==
  /\ registered = {}
  /\ interest = [c \in Chan |-> {}]
  /\ reported = NothingReported

\* updateChannel, for a channel that now wants E.
AbsUpdate(c, E) ==
  /\ registered' = registered \cup {c}
  /\ interest' = [interest EXCEPT ![c] = E]
  /\ UNCHANGED reported

AbsRemove(c) ==
  /\ c \in registered
  /\ registered' = registered \ {c}
  /\ interest' = [interest EXCEPT ![c] = {}]
  /\ UNCHANGED reported

\* poll reports only channels it knows, with events it watches for them; it
\* may report nothing, when it times out or fails.
AbsPoll(A) ==
  /\ reported' \in [A -> SUBSET Events]
  /\ \A c \in A : reported'[c] \subseteq interest[c] \cup Unasked
  /\ UNCHANGED <<registered, interest>>

AbsNext ==
  \/ \E c \in Chan : AbsRemove(c) \/ \E E \in SUBSET Askable : AbsUpdate(c, E)
  \/ \E A \in SUBSET registered : AbsPoll(A)

AbsSpec == AbsInit /\ [][AbsNext]_absVars
=============================================================================
