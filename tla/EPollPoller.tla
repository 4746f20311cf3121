----------------------------- MODULE EPollPoller -----------------------------
(***************************************************************************)
(* The default poller, src/port/EPollPoller.cpp, with the enable and       *)
(* disable calls of Channel that reach it and the kernel's epoll set.      *)
(***************************************************************************)
EXTENDS Integers, FiniteSets

CONSTANTS
  Chan,     \* Channel objects
  NoChan,   \* no channel: a free place in the epoll set, or NULL
  Fd,       \* file descriptors
  FdOf,     \* Channel::fd_; two channels may use a descriptor in turn
  Debug,    \* TRUE in the default build, which keeps the asserts
  InitSize  \* kInitEventListSize

ASSUME EPollAssumption ==
  /\ FdOf \in [Chan -> Fd]
  /\ NoChan \notin Chan
  /\ Debug \in BOOLEAN
  /\ InitSize \in Nat \ {0}

VARIABLES
  events,    \* Channel::events_
  index,     \* Channel::index_: "new", "added" or "deleted"
  channels,  \* channels_: "absent", or the pointer the map holds
  kernel,    \* the epoll set: per descriptor the events and data.ptr
  size,      \* events_.size()
  reported,  \* activeChannels of the last poll, with Channel::revents_
  fatal,     \* epoll_ctl failed
  aborted    \* an assert failed

vars == <<events, index, channels, kernel, size, reported, fatal, aborted>>

Askable == {"in", "out"}
Unasked == {"hup"}
Events == Askable \cup Unasked
Free == [ev |-> {}, ptr |-> NoChan]

Init ==
  /\ events = [c \in Chan |-> {}]
  /\ index = [c \in Chan |-> "new"]
  /\ channels = [f \in Fd |-> "absent"]
  /\ kernel = [f \in Fd |-> Free]
  /\ size = InitSize
  /\ reported = [c \in {} |-> {}]
  /\ fatal = FALSE
  /\ aborted = FALSE

\* enableReading, enableWriting, disableWriting and disableAll.
ChannelCalls(E) == {E \cup {"in"}, E \cup {"out"}, E \ {"out"}, {}}

\* update(): epoll_ctl adds only what is absent and changes or deletes only
\* what is present.
Update(op, c, E) ==
  LET f == FdOf[c]
      ok == (op = "ADD") <=> (kernel[f] = Free)
  IN  /\ kernel' = IF ~ok THEN kernel
                   ELSE [kernel EXCEPT ![f] =
                           IF op = "DEL" THEN Free ELSE [ev |-> E, ptr |-> c]]
      /\ fatal' = (fatal \/ ~ok)

\* A descriptor is handed to another channel only when the first is removed.
FdIsFree(c) == \A d \in Chan \ {c} : FdOf[d] = FdOf[c] => index[d] = "new"

\* Mutant: a channel without events stays in the epoll set as "deleted".
UpdateChannelKeeps(c, E) ==
  /\ FdIsFree(c)
  /\ events' = [events EXCEPT ![c] = E]
  /\ IF index[c] \in {"new", "deleted"}
     THEN /\ index' = [index EXCEPT ![c] = "added"]
          /\ channels' = [channels EXCEPT ![FdOf[c]] = NoChan]
          /\ Update("ADD", c, E)
     ELSE /\ index' = [index EXCEPT ![c] = IF E = {} THEN "deleted" ELSE "added"]
          /\ Update("MOD", c, E)
          /\ UNCHANGED channels
  /\ UNCHANGED <<size, reported, aborted>>

\* Mutant: a new event is not passed on to a channel already added.
UpdateChannelForgets(c, E) ==
  /\ FdIsFree(c)
  /\ events' = [events EXCEPT ![c] = E]
  /\ IF index[c] \in {"new", "deleted"}
     THEN /\ index' = [index EXCEPT ![c] = "added"]
          /\ channels' = [channels EXCEPT ![FdOf[c]] = NoChan]
          /\ Update("ADD", c, E)
     ELSE /\ index' = [index EXCEPT ![c] = IF E = {} THEN "deleted" ELSE "added"]
          /\ IF E = {} THEN Update("DEL", c, E) ELSE UNCHANGED <<kernel, fatal>>
          /\ UNCHANGED channels
  /\ UNCHANGED <<size, reported, aborted>>

\* updateChannel.  The statement meant to store the channel in channels_
\* compares: operator[] leaves NULL under the new key.
UpdateChannel(c, E) ==
  LET f == FdOf[c]
  IN
  /\ FdIsFree(c)
  /\ events' = [events EXCEPT ![c] = E]
  /\ IF index[c] \in {"new", "deleted"}
     THEN /\ index' = [index EXCEPT ![c] = "added"]
          /\ channels' = IF index[c] = "new" /\ channels[f] = "absent"
                         THEN [channels EXCEPT ![f] = NoChan] ELSE channels
          /\ Update("ADD", c, E)
          /\ aborted' = (Debug /\ IF index[c] = "new" THEN channels[f] # "absent"
                                  ELSE channels[f] # c)
     ELSE /\ aborted' = (Debug /\ channels[f] # c)
          /\ index' = [index EXCEPT ![c] = IF E = {} THEN "deleted" ELSE "added"]
          /\ Update(IF E = {} THEN "DEL" ELSE "MOD", c, E)
          /\ UNCHANGED channels
  /\ UNCHANGED <<size, reported>>

\* removeChannel, which Channel::remove calls for a channel without events.
RemoveChannel(c) ==
  /\ index[c] # "new" /\ events[c] = {}
  /\ aborted' = (Debug /\ channels[FdOf[c]] # c)
  /\ channels' = [channels EXCEPT ![FdOf[c]] = "absent"]
  /\ IF index[c] = "added" THEN Update("DEL", c, {}) ELSE UNCHANGED <<kernel, fatal>>
  /\ index' = [index EXCEPT ![c] = "new"]
  /\ UNCHANGED <<events, size, reported>>

\* epoll_wait: the descriptors of the set that have something to report.
Reported(f, ready) ==
  IF kernel[f] = Free THEN {} ELSE ready[f] \cap (kernel[f].ev \cup Unasked)
ReadyFds(ready) == {f \in Fd : Reported(f, ready) # {}}

\* poll: at most size events are returned, and fillActiveChannels takes the
\* channel from data.ptr.
Poll(ready) ==
  \E A \in SUBSET ReadyFds(ready) :
    /\ Cardinality(A) = size \/ (Cardinality(A) < size /\ A = ReadyFds(ready))
    /\ reported' = [c \in {kernel[f].ptr : f \in A} |-> Reported(FdOf[c], ready)]
    /\ size' = IF Cardinality(A) = size THEN size * 2 ELSE size
    /\ aborted' = (Debug /\ \E f \in A : channels[f] = "absent")
    /\ UNCHANGED <<events, index, channels, kernel, fatal>>

\* epoll_wait returns 0 with nothing ready, or fails.
PollReturnsNothing ==
  /\ reported' = [c \in {} |-> {}]
  /\ UNCHANGED <<events, index, channels, kernel, size, fatal, aborted>>

Next ==
  /\ ~aborted
  /\ \/ \E c \in Chan : \E E \in ChannelCalls(events[c]) : UpdateChannel(c, E)
     \/ \E c \in Chan : RemoveChannel(c)
     \/ \E ready \in [Fd -> SUBSET Events] : ReadyFds(ready) # {} /\ Poll(ready)
     \/ PollReturnsNothing

Spec == Init /\ [][Next]_vars

-----------------------------------------------------------------------------
TypeOK ==
  /\ events \in [Chan -> SUBSET Askable]
  /\ index \in [Chan -> {"new", "added", "deleted"}]
  /\ channels \in [Fd -> {"absent", NoChan}]
  /\ kernel \in [Fd -> [ev : SUBSET Askable, ptr : Chan \cup {NoChan}]]
  /\ size \in Nat \ {0}
  /\ DOMAIN reported \subseteq Chan
  /\ reported \in [DOMAIN reported -> SUBSET Events]
  /\ fatal \in BOOLEAN
  /\ aborted \in BOOLEAN

\* index_ and events_ mirror the epoll set: a descriptor is in it exactly when
\* its registered channel is "added", with that channel as data.ptr and the
\* events the channel wants; so a ready event never carries a pointer to a
\* channel that was removed or never added.
KernelMirrorsChannels ==
  /\ \A c \in Chan :
       /\ index[c] = "added" => kernel[FdOf[c]] = [ev |-> events[c], ptr |-> c]
       /\ index[c] # "added" => kernel[FdOf[c]].ptr # c
       /\ index[c] = "deleted" => kernel[FdOf[c]] = Free /\ events[c] = {}
  /\ \A f \in Fd : kernel[f] # Free =>
       \E c \in Chan : FdOf[c] = f /\ index[c] = "added"

\* epoll_ctl never fails: ADD, MOD and DEL are issued in the right states, so
\* updateChannel does not end the process through LOG_SYSFATAL.
EpollCtlSucceeds == ~fatal

\* The asserts of updateChannel, removeChannel and fillActiveChannels hold.
NeverAborts == ~aborted

\* The poller's promise: what a channel asked for last is what polls report.
P == INSTANCE Poller WITH
       registered <- {c \in Chan : index[c] # "new"},
       interest <- events
ImplementsPoller == P!AbsSpec
=============================================================================
