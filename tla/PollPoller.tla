----------------------------- MODULE PollPoller -----------------------------
(***************************************************************************)
(* The poller chosen by DBDKY_USE_POLL, src/port/PollPoller.cpp: a vector  *)
(* of pollfd in which each Channel remembers its place, and removal moves  *)
(* the last entry into the hole.  A disabled entry keeps its place with    *)
(* the descriptor stored as -fd-1.  The default build keeps the asserts.   *)
(***************************************************************************)
EXTENDS Integers, Sequences, FiniteSets

CONSTANTS
  Chan,    \* Channel objects
  NoChan,  \* no channel under a descriptor in channels_
  Fd,      \* file descriptors
  FdOf,    \* Channel::fd_; two channels may use a descriptor in turn
  Ready,   \* what may be ready on the descriptors when poll(2) is called
  Reuse    \* what callers do to a channel they have disabled: "none" (only
           \* remove it), "reenable" it, or "readd" it once it is removed

ASSUME PollAssumption ==
  /\ Fd \subseteq Nat
  /\ FdOf \in [Chan -> Fd]
  /\ NoChan \notin Chan
  /\ Reuse \in {"none", "reenable", "readd"}

Askable == {"in", "out"}
Unasked == {"hup"}
Events == Askable \cup Unasked
ASSUME ReadyAssumption == Ready \subseteq [Fd -> SUBSET Events]

VARIABLES
  events,    \* Channel::events_
  index,     \* Channel::index_
  pollfds,   \* pollfds_; entry i of the vector is pollfds[i + 1]
  channels,  \* channels_
  reported,  \* activeChannels of the last poll, with Channel::revents_
  aborted    \* an assert failed

vars == <<events, index, pollfds, channels, reported, aborted>>

Init ==
  /\ events = [c \in Chan |-> {}]
  /\ index = [c \in Chan |-> -1]
  /\ pollfds = <<>>
  /\ channels = [f \in Fd |-> NoChan]
  /\ reported = [c \in {} |-> {}]
  /\ aborted = FALSE

Negated(fd) == -fd - 1
Registered(c) == channels[FdOf[c]] = c

\* What the owner of a channel does with it: a descriptor has one channel at a
\* time, the first call enables something, and Reuse says what may follow.
MayUpdate(c, E) ==
  /\ channels[FdOf[c]] \in {c, NoChan}
  /\ ~Registered(c) => E # {} /\ (index[c] < 0 \/ Reuse = "readd")
  /\ (Registered(c) /\ events[c] = {}) => (E = {} \/ Reuse = "reenable")

Abort == aborted' = TRUE /\ UNCHANGED <<events, index, pollfds, channels, reported>>

\* updateChannel, for a channel with index_ < 0.
AddChannel(c, E) ==
  IF channels[FdOf[c]] # NoChan THEN Abort
  ELSE /\ pollfds' = Append(pollfds, [fd |-> FdOf[c], ev |-> E])
       /\ index' = [index EXCEPT ![c] = Len(pollfds)]
       /\ channels' = [channels EXCEPT ![FdOf[c]] = c]
       /\ events' = [events EXCEPT ![c] = E]
       /\ UNCHANGED <<reported, aborted>>

\* The asserts both updateChannel and removeChannel make on the channel's place.
HasPlace(c) == Registered(c) /\ index[c] \in 0 .. Len(pollfds) - 1
Place(c) == pollfds[index[c] + 1]

\* Mutant: a disabled entry keeps its descriptor.
ModifyChannelKeepsFd(c, E) ==
  /\ pollfds' = [pollfds EXCEPT ![index[c] + 1].ev = E]
  /\ events' = [events EXCEPT ![c] = E]
  /\ UNCHANGED <<index, channels, reported, aborted>>

\* Mutant: the entry's events are only ever widened.
ModifyChannelWidens(c, E) ==
  /\ pollfds' = [pollfds EXCEPT ![index[c] + 1] =
       [fd |-> IF E = {} THEN Negated(FdOf[c]) ELSE @.fd,
        ev |-> IF E = {} THEN {} ELSE @.ev \cup E]]
  /\ events' = [events EXCEPT ![c] = E]
  /\ UNCHANGED <<index, channels, reported, aborted>>

\* updateChannel, for a channel that has an index.
ModifyChannel(c, E) ==
  IF ~HasPlace(c) \/ Place(c).fd \notin {FdOf[c], Negated(FdOf[c])} THEN Abort
  ELSE /\ pollfds' = [pollfds EXCEPT ![index[c] + 1] =
            [fd |-> IF E = {} THEN Negated(FdOf[c]) ELSE @.fd, ev |-> E]]
       /\ events' = [events EXCEPT ![c] = E]
       /\ UNCHANGED <<index, channels, reported, aborted>>

UpdateChannel(c, E) ==
  /\ MayUpdate(c, E)
  /\ IF index[c] < 0 THEN AddChannel(c, E) ELSE ModifyChannel(c, E)

\* The descriptor an entry stands for.
Descriptor(pfd) == IF pfd.fd < 0 THEN Negated(pfd.fd) ELSE pfd.fd

DropLast(s) == SubSeq(s, 1, Len(s) - 1)

\* Mutant: the channel of the entry that moved is not told.
RemovePlaceSilently(c) ==
  LET i == index[c] + 1
      n == Len(pollfds)
  IN  /\ pollfds' = DropLast([pollfds EXCEPT ![i] = pollfds[n]])
      /\ UNCHANGED index

\* The end of removeChannel: the last entry takes the place of c's, and the
\* channel it belongs to gets c's index.
RemovePlace(c) ==
  LET i == index[c] + 1
      n == Len(pollfds)
  IN  IF i = n THEN pollfds' = DropLast(pollfds) /\ UNCHANGED index
      ELSE /\ pollfds' = DropLast([pollfds EXCEPT ![i] = pollfds[n], ![n] = pollfds[i]])
           /\ index' = [index EXCEPT ![channels[Descriptor(pollfds[n])]] = index[c]]

\* removeChannel; index_ keeps its value.
RemoveChannel(c) ==
  /\ Registered(c) /\ events[c] = {}
  /\ IF ~HasPlace(c) \/ Place(c).fd # Negated(FdOf[c]) \/ Place(c).ev # {} THEN Abort
     ELSE /\ channels' = [channels EXCEPT ![FdOf[c]] = NoChan]
          /\ RemovePlace(c)
          /\ UNCHANGED <<events, reported, aborted>>

\* What poll(2) stores in an entry's revents: nothing when fd is negative.
Revents(pfd, ready) ==
  IF pfd.fd < 0 THEN {} ELSE ready[pfd.fd] \cap (pfd.ev \cup Unasked)

\* poll, when poll(2) returns a positive number.  fillActiveChannels takes
\* every entry with something in events, whatever its revents.
Poll(ready) ==
  LET Filled == {i \in 1 .. Len(pollfds) : pollfds[i].ev # {}}
  IN
  /\ \E i \in 1 .. Len(pollfds) : Revents(pollfds[i], ready) # {}
  /\ IF \E i \in Filled : pollfds[i].fd \notin Fd \/ channels[pollfds[i].fd] = NoChan
     THEN Abort
     ELSE /\ reported' = [c \in {channels[pollfds[i].fd] : i \in Filled} |->
               Revents(pollfds[CHOOSE i \in Filled : channels[pollfds[i].fd] = c], ready)]
          /\ UNCHANGED <<events, index, pollfds, channels, aborted>>

\* poll(2) returns 0 or fails.
PollReturnsNothing ==
  /\ reported' = [c \in {} |-> {}]
  /\ UNCHANGED <<events, index, pollfds, channels, aborted>>

\* enableReading, enableWriting, disableWriting and disableAll.
ChannelCalls(E) == {E \cup {"in"}, E \cup {"out"}, E \ {"out"}, {}}

Next ==
  /\ ~aborted
  /\ \/ \E c \in Chan : \E E \in ChannelCalls(events[c]) : UpdateChannel(c, E)
     \/ \E c \in Chan : RemoveChannel(c)
     \/ \E ready \in Ready : Poll(ready)
     \/ PollReturnsNothing

Spec == Init /\ [][Next]_vars

-----------------------------------------------------------------------------
\* Every registered channel owns the entry its index_ names: the entry holds
\* its descriptor, negated exactly when it wants no events, and the events it
\* wants; and there are no other entries.  Removal, which moves entries of
\* other channels, keeps this.
SlotsMatchChannels ==
  /\ \A c \in Chan : Registered(c) =>
       /\ HasPlace(c)
       /\ Place(c).ev = events[c]
       /\ Place(c).fd = IF events[c] = {} THEN Negated(FdOf[c]) ELSE FdOf[c]
  /\ Len(pollfds) = Cardinality({c \in Chan : Registered(c)})

\* The asserts of updateChannel, removeChannel and fillActiveChannels hold.
NeverAborts == ~aborted

\* The poller's promise: what a channel asked for last is what polls report.
P == INSTANCE Poller WITH
       registered <- {c \in Chan : Registered(c)},
       interest <- events
ImplementsPoller == P!AbsSpec
=============================================================================
