-------------------------- MODULE EPollPollerProofs --------------------------
(***************************************************************************)
(* EPollPoller keeps index_, events_ and the epoll set in agreement, never *)
(* calls epoll_ctl in a wrong state, and implements Poller: for any        *)
(* channels and any sharing of descriptors between them.                   *)
(***************************************************************************)
EXTENDS EPollPoller, TLAPS

Added(c) == index[c] = "added"

\* A descriptor has at most one registered channel.
OneChannelPerFd ==
  \A c, d \in Chan : (FdOf[c] = FdOf[d] /\ index[c] # "new" /\ index[d] # "new") => c = d

IInv == TypeOK /\ KernelMirrorsChannels /\ EpollCtlSucceeds /\ OneChannelPerFd

LEMMA InitIInv == Init => IInv
  <1> SUFFICES ASSUME Init PROVE IInv
    OBVIOUS
  <1>1. TypeOK
    BY EPollAssumption DEF Init, TypeOK, Free, Askable, Events, Unasked
  <1>2. KernelMirrorsChannels
    BY EPollAssumption DEF Init, KernelMirrorsChannels, Free
  <1>3. EpollCtlSucceeds /\ OneChannelPerFd
    BY DEF Init, EpollCtlSucceeds, OneChannelPerFd
  <1> QED
    BY <1>1, <1>2, <1>3 DEF IInv

\* The place of a channel that may be updated is free unless it is added.
LEMMA PlaceIsFree ==
  ASSUME KernelMirrorsChannels, NEW c \in Chan, FdIsFree(c), ~Added(c)
  PROVE  kernel[FdOf[c]] = Free
  <1> SUFFICES ASSUME kernel[FdOf[c]] # Free PROVE FALSE
    OBVIOUS
  <1>1. FdOf[c] \in Fd
    BY EPollAssumption
  <1>2. PICK d \in Chan : FdOf[d] = FdOf[c] /\ index[d] = "added"
    BY <1>1 DEF KernelMirrorsChannels
  <1> QED
    BY <1>2 DEF FdIsFree, Added

LEMMA AddedNotFree ==
  ASSUME KernelMirrorsChannels, NEW c \in Chan, Added(c)
  PROVE  kernel[FdOf[c]] # Free
  <1>1. kernel[FdOf[c]] = [ev |-> events[c], ptr |-> c]
    BY DEF KernelMirrorsChannels, Added
  <1>2. kernel[FdOf[c]].ptr = c
    BY <1>1
  <1>3. Free.ptr = NoChan
    BY DEF Free
  <1> QED
    BY <1>2, <1>3, EPollAssumption

\* What the epoll set hands back is an added channel of that descriptor.
LEMMA PointerIsAdded ==
  ASSUME IInv, NEW f \in Fd, kernel[f] # Free
  PROVE  /\ kernel[f].ptr \in Chan
         /\ Added(kernel[f].ptr)
         /\ FdOf[kernel[f].ptr] = f
         /\ kernel[f].ev = events[kernel[f].ptr]
  <1>1. PICK c \in Chan : FdOf[c] = f /\ index[c] = "added"
    BY DEF IInv, KernelMirrorsChannels
  <1>2. kernel[f] = [ev |-> events[c], ptr |-> c]
    BY <1>1 DEF IInv, KernelMirrorsChannels
  <1>3. kernel[f].ptr = c /\ kernel[f].ev = events[c]
    BY <1>2
  <1> QED
    BY <1>1, <1>3 DEF Added

\* epoll_ctl succeeds and puts the channel's place in the state it asks for.
LEMMA UpdateChannelEffect ==
  ASSUME IInv, NEW c \in Chan, NEW E \in SUBSET Askable, UpdateChannel(c, E)
  PROVE  /\ ~fatal'
         /\ events' = [events EXCEPT ![c] = E]
         /\ UNCHANGED <<size, reported>>
         /\ \/ /\ index' = [index EXCEPT ![c] = "added"]
               /\ kernel' = [kernel EXCEPT ![FdOf[c]] = [ev |-> E, ptr |-> c]]
            \/ /\ E = {}
               /\ index' = [index EXCEPT ![c] = "deleted"]
               /\ kernel' = [kernel EXCEPT ![FdOf[c]] = Free]
  <1>0. FdOf[c] \in Fd /\ NoChan \notin Chan /\ FdIsFree(c) /\ ~fatal
    BY EPollAssumption DEF UpdateChannel, IInv, EpollCtlSucceeds
  <1>1. CASE index[c] \in {"new", "deleted"}
    <2>1. kernel[FdOf[c]] = Free
      BY <1>0, <1>1, PlaceIsFree DEF Added, IInv
    <2> QED
      BY <1>0, <1>1, <2>1 DEF UpdateChannel, Update
  <1>2. CASE index[c] \notin {"new", "deleted"}
    <2>1. index[c] = "added"
      BY <1>2 DEF IInv, TypeOK
    <2>2. kernel[FdOf[c]] # Free
      BY <2>1, AddedNotFree DEF Added, IInv
    <2>3. CASE E = {}
      BY <1>0, <1>2, <2>1, <2>2, <2>3 DEF UpdateChannel, Update
    <2>4. CASE E # {}
      BY <1>0, <1>2, <2>1, <2>2, <2>4 DEF UpdateChannel, Update
    <2> QED
      BY <2>3, <2>4
  <1> QED
    BY <1>1, <1>2

LEMMA RemoveChannelEffect ==
  ASSUME IInv, NEW c \in Chan, RemoveChannel(c)
  PROVE  /\ ~fatal' /\ index[c] # "new" /\ events[c] = {}
         /\ UNCHANGED <<events, size, reported>>
         /\ index' = [index EXCEPT ![c] = "new"]
         /\ kernel' = [kernel EXCEPT ![FdOf[c]] = Free]
  <1>0. FdOf[c] \in Fd /\ NoChan \notin Chan /\ ~fatal
    BY EPollAssumption DEF IInv, EpollCtlSucceeds
  <1>1. CASE index[c] = "added"
    <2>1. kernel[FdOf[c]] # Free
      BY <1>1, AddedNotFree DEF Added, IInv
    <2> QED
      BY <1>0, <1>1, <2>1 DEF RemoveChannel, Update
  <1>2. CASE index[c] # "added"
    <2>1. index[c] = "deleted"
      BY <1>2 DEF IInv, TypeOK, RemoveChannel
    <2>2. kernel[FdOf[c]] = Free
      BY <2>1 DEF IInv, KernelMirrorsChannels
    <2>3. kernel = [kernel EXCEPT ![FdOf[c]] = Free]
      BY <2>2 DEF IInv, TypeOK
    <2> QED
      BY <1>0, <1>2, <2>3 DEF RemoveChannel
  <1> QED
    BY <1>1, <1>2

LEMMA ChannelCallsType ==
  ASSUME TypeOK, NEW c \in Chan, NEW E \in ChannelCalls(events[c])
  PROVE  E \in SUBSET Askable
  BY DEF TypeOK, ChannelCalls, Askable

LEMMA TypeStep == IInv /\ [Next]_vars => TypeOK'
  <1> SUFFICES ASSUME IInv, TypeOK, [Next]_vars PROVE TypeOK'
    BY DEF IInv
  <1>0. Free \in [ev : SUBSET Askable, ptr : Chan \cup {NoChan}]
    BY DEF Free
  <1>1. ASSUME NEW c \in Chan, NEW E \in ChannelCalls(events[c]), UpdateChannel(c, E)
        PROVE  TypeOK'
    <2>1. E \in SUBSET Askable
      BY <1>1, ChannelCallsType
    <2>2. FdOf[c] \in Fd
      BY EPollAssumption
    <2>a. [ev |-> E, ptr |-> c] \in [ev : SUBSET Askable, ptr : Chan \cup {NoChan}]
      BY <2>1
    <2>b. kernel \in [Fd -> [ev : SUBSET Askable, ptr : Chan \cup {NoChan}]]
      BY DEF TypeOK
    <2>c. \/ kernel' = [kernel EXCEPT ![FdOf[c]] = [ev |-> E, ptr |-> c]]
          \/ kernel' = [kernel EXCEPT ![FdOf[c]] = Free]
      BY <1>1, <2>1, UpdateChannelEffect
    <2>3. kernel' \in [Fd -> [ev : SUBSET Askable, ptr : Chan \cup {NoChan}]]
      BY <1>0, <2>2, <2>a, <2>b, <2>c
    <2>6. fatal' \in BOOLEAN
      <3>1. fatal \in BOOLEAN /\ (fatal' = fatal \/ \E ok \in BOOLEAN : fatal' = (fatal \/ ~ok))
        BY <1>1 DEF UpdateChannel, Update, TypeOK
      <3> QED
        BY <3>1
    <2>4. channels' \in [Fd -> {"absent", NoChan}] /\ aborted' \in BOOLEAN
      BY <1>1, <2>2, EPollAssumption DEF UpdateChannel, TypeOK
    <2>5. events' \in [Chan -> SUBSET Askable] /\ index' \in [Chan -> {"new", "added", "deleted"}]
      BY <1>1, <2>1 DEF UpdateChannel, TypeOK
    <2> QED
      BY <1>1, <2>3, <2>4, <2>5, <2>6 DEF UpdateChannel, TypeOK
  <1>2. ASSUME NEW c \in Chan, RemoveChannel(c)
        PROVE  TypeOK'
    <2>2. FdOf[c] \in Fd
      BY EPollAssumption
    <2>b. kernel \in [Fd -> [ev : SUBSET Askable, ptr : Chan \cup {NoChan}]]
      BY DEF TypeOK
    <2>c. kernel' = [kernel EXCEPT ![FdOf[c]] = Free]
      BY <1>2, RemoveChannelEffect
    <2>3. kernel' \in [Fd -> [ev : SUBSET Askable, ptr : Chan \cup {NoChan}]]
      BY <1>0, <2>2, <2>b, <2>c
    <2>6. fatal' \in BOOLEAN
      <3>1. fatal \in BOOLEAN /\ (fatal' = fatal \/ \E ok \in BOOLEAN : fatal' = (fatal \/ ~ok))
        BY <1>2 DEF RemoveChannel, Update, TypeOK
      <3> QED
        BY <3>1
    <2>4. channels' \in [Fd -> {"absent", NoChan}] /\ aborted' \in BOOLEAN
      BY <1>2, <2>2, EPollAssumption DEF RemoveChannel, TypeOK
    <2> QED
      BY <1>2, <2>3, <2>4, <2>6 DEF RemoveChannel, TypeOK
  <1>3. ASSUME NEW ready \in [Fd -> SUBSET Events], Poll(ready)
        PROVE  TypeOK'
    <2>1. PICK A \in SUBSET ReadyFds(ready) :
            /\ reported' = [c \in {kernel[f].ptr : f \in A} |-> Reported(FdOf[c], ready)]
            /\ size' = IF Cardinality(A) = size THEN size * 2 ELSE size
            /\ aborted' = (Debug /\ \E f \in A : channels[f] = "absent")
            /\ UNCHANGED <<events, index, channels, kernel, fatal>>
      BY <1>3 DEF Poll
    <2>2. \A f \in A : f \in Fd /\ kernel[f].ptr \in Chan
      <3> SUFFICES ASSUME NEW f \in A PROVE f \in Fd /\ kernel[f].ptr \in Chan
        OBVIOUS
      <3>1. f \in Fd /\ kernel[f] # Free
        BY DEF ReadyFds, Reported
      <3> QED
        BY <3>1, PointerIsAdded
    <2>3. \A f \in Fd : Reported(f, ready) \in SUBSET Events
      BY DEF Reported, Events
    <2>4. DOMAIN reported' \subseteq Chan
      BY <2>1, <2>2
    <2>5. reported' \in [DOMAIN reported' -> SUBSET Events]
      BY <2>1, <2>2, <2>3, <2>4, EPollAssumption
    <2>6. size' \in Nat \ {0}
      BY <2>1 DEF TypeOK
    <2> QED
      BY <2>1, <2>4, <2>5, <2>6 DEF TypeOK
  <1>4. CASE PollReturnsNothing
    BY <1>4 DEF PollReturnsNothing, TypeOK
  <1>5. CASE UNCHANGED vars
    BY <1>5 DEF vars, TypeOK
  <1> QED
    BY <1>1, <1>2, <1>3, <1>4, <1>5 DEF Next

LEMMA MirrorStep == IInv /\ [Next]_vars =>
                      (KernelMirrorsChannels /\ EpollCtlSucceeds /\ OneChannelPerFd)'
  <1> SUFFICES ASSUME IInv, [Next]_vars
               PROVE  (KernelMirrorsChannels /\ EpollCtlSucceeds /\ OneChannelPerFd)'
    OBVIOUS
  <1>0. /\ TypeOK /\ KernelMirrorsChannels /\ EpollCtlSucceeds /\ OneChannelPerFd
        /\ FdOf \in [Chan -> Fd] /\ NoChan \notin Chan
    BY EPollAssumption DEF IInv
  <1>1. ASSUME NEW c \in Chan, NEW E \in ChannelCalls(events[c]), UpdateChannel(c, E)
        PROVE  (KernelMirrorsChannels /\ EpollCtlSucceeds /\ OneChannelPerFd)'
    <2>1. E \in SUBSET Askable
      BY <1>0, <1>1, ChannelCallsType
    <2>2. /\ ~fatal'
          /\ events' = [events EXCEPT ![c] = E]
          /\ \/ /\ index' = [index EXCEPT ![c] = "added"]
                /\ kernel' = [kernel EXCEPT ![FdOf[c]] = [ev |-> E, ptr |-> c]]
             \/ /\ E = {}
                /\ index' = [index EXCEPT ![c] = "deleted"]
                /\ kernel' = [kernel EXCEPT ![FdOf[c]] = Free]
      BY <1>1, <2>1, UpdateChannelEffect
    <2>3. \A d \in Chan \ {c} : FdOf[d] = FdOf[c] => index[d] = "new"
      BY <1>1 DEF UpdateChannel, FdIsFree
    <2>4. OneChannelPerFd'
      BY <1>0, <2>2, <2>3 DEF OneChannelPerFd, TypeOK
    <2>5. ASSUME NEW d \in Chan
          PROVE  /\ index'[d] = "added" => kernel'[FdOf[d]] = [ev |-> events'[d], ptr |-> d]
                 /\ index'[d] # "added" => kernel'[FdOf[d]].ptr # d
                 /\ index'[d] = "deleted" => kernel'[FdOf[d]] = Free /\ events'[d] = {}
      <3>1. CASE d = c
        <4>1. FdOf[c] \in Fd /\ Free.ptr # c /\ events'[c] = E
          BY <1>0, <2>2 DEF Free, TypeOK
        <4>2. \/ index'[c] = "added" /\ kernel'[FdOf[c]] = [ev |-> E, ptr |-> c]
              \/ index'[c] = "deleted" /\ kernel'[FdOf[c]] = Free /\ E = {}
          BY <1>0, <2>2, <4>1 DEF TypeOK
        <4> QED
          BY <3>1, <4>1, <4>2
      <3>2. CASE d # c /\ FdOf[d] = FdOf[c]
        BY <1>0, <2>2, <2>3, <3>2 DEF TypeOK, Free
      <3>3. CASE FdOf[d] # FdOf[c]
        <4>1. kernel'[FdOf[d]] = kernel[FdOf[d]] /\ index'[d] = index[d] /\ events'[d] = events[d]
          BY <1>0, <2>2, <3>3 DEF TypeOK
        <4> QED
          BY <1>0, <4>1 DEF KernelMirrorsChannels
      <3> QED
        BY <3>1, <3>2, <3>3
    <2>6. ASSUME NEW f \in Fd, kernel'[f] # Free
          PROVE  \E d \in Chan : FdOf[d] = f /\ index'[d] = "added"
      <3>1. CASE f = FdOf[c]
        BY <1>0, <2>2, <2>6, <3>1 DEF TypeOK
      <3>2. CASE f # FdOf[c]
        <4>1. kernel[f] # Free
          BY <1>0, <2>2, <2>6, <3>2 DEF TypeOK
        <4>2. PICK d \in Chan : FdOf[d] = f /\ index[d] = "added"
          BY <1>0, <4>1 DEF KernelMirrorsChannels
        <4> QED
          BY <1>0, <2>2, <3>2, <4>2 DEF TypeOK
      <3> QED
        BY <3>1, <3>2
    <2> QED
      BY <2>2, <2>4, <2>5, <2>6 DEF KernelMirrorsChannels, EpollCtlSucceeds, Free
  <1>2. ASSUME NEW c \in Chan, RemoveChannel(c)
        PROVE  (KernelMirrorsChannels /\ EpollCtlSucceeds /\ OneChannelPerFd)'
    <2>2. /\ ~fatal' /\ index[c] # "new"
          /\ events' = events
          /\ index' = [index EXCEPT ![c] = "new"]
          /\ kernel' = [kernel EXCEPT ![FdOf[c]] = Free]
      BY <1>2, RemoveChannelEffect
    <2>3. \A d \in Chan \ {c} : FdOf[d] = FdOf[c] => index[d] = "new"
      BY <1>0, <2>2 DEF OneChannelPerFd
    <2>4. OneChannelPerFd'
      BY <1>0, <2>2, <2>3 DEF OneChannelPerFd, TypeOK
    <2>5. ASSUME NEW d \in Chan
          PROVE  /\ index'[d] = "added" => kernel'[FdOf[d]] = [ev |-> events'[d], ptr |-> d]
                 /\ index'[d] # "added" => kernel'[FdOf[d]].ptr # d
                 /\ index'[d] = "deleted" => kernel'[FdOf[d]] = Free /\ events'[d] = {}
      <3>1. CASE FdOf[d] = FdOf[c]
        <4>1. index'[d] = "new"
          BY <1>0, <2>2, <2>3, <3>1 DEF TypeOK
        <4>2. kernel'[FdOf[d]] = Free
          BY <1>0, <2>2, <3>1 DEF TypeOK
        <4>3. Free.ptr # d
          BY <1>0 DEF Free
        <4> QED
          BY <4>1, <4>2, <4>3
      <3>2. CASE FdOf[d] # FdOf[c]
        <4>1. kernel'[FdOf[d]] = kernel[FdOf[d]] /\ index'[d] = index[d] /\ events'[d] = events[d]
          BY <1>0, <2>2, <3>2 DEF TypeOK
        <4> QED
          BY <1>0, <4>1 DEF KernelMirrorsChannels
      <3> QED
        BY <3>1, <3>2
    <2>6. ASSUME NEW f \in Fd, kernel'[f] # Free
          PROVE  \E d \in Chan : FdOf[d] = f /\ index'[d] = "added"
      <3>1. f # FdOf[c] /\ kernel[f] # Free
        BY <1>0, <2>2, <2>6 DEF TypeOK
      <3>2. PICK d \in Chan : FdOf[d] = f /\ index[d] = "added"
        BY <1>0, <3>1 DEF KernelMirrorsChannels
      <3> QED
        BY <1>0, <2>2, <3>1, <3>2 DEF TypeOK
    <2> QED
      BY <2>2, <2>4, <2>5, <2>6 DEF KernelMirrorsChannels, EpollCtlSucceeds, Free
  <1>3. CASE UNCHANGED <<events, index, kernel, fatal>>
    BY <1>0, <1>3 DEF KernelMirrorsChannels, EpollCtlSucceeds, OneChannelPerFd
  <1>4. ASSUME NEW ready \in [Fd -> SUBSET Events], Poll(ready)
        PROVE  UNCHANGED <<events, index, kernel, fatal>>
    BY <1>4 DEF Poll
  <1>5. PollReturnsNothing \/ UNCHANGED vars => UNCHANGED <<events, index, kernel, fatal>>
    BY DEF PollReturnsNothing, vars
  <1> QED
    BY <1>1, <1>2, <1>3, <1>4, <1>5 DEF Next

\* The inductive invariant.
THEOREM Inductive == Spec => []IInv
  <1>1. IInv /\ [Next]_vars => IInv'
    BY TypeStep, MirrorStep DEF IInv
  <1> QED
    BY InitIInv, <1>1, PTL DEF Spec

\* At all times the epoll set holds exactly the added channels, with the
\* events they want and their own address.
THEOREM KernelInSync == Spec => []KernelMirrorsChannels
  BY Inductive, PTL DEF IInv

\* No epoll_ctl that updateChannel or removeChannel issues can fail.
THEOREM CtlSucceeds == Spec => []EpollCtlSucceeds
  BY Inductive, PTL DEF IInv

\* EPollPoller implements Poller.
THEOREM Implements == Spec => ImplementsPoller
  <1>1. Init => P!AbsInit
    BY DEF Init, P!AbsInit, P!NothingReported
  <1>2. IInv /\ [Next]_vars => [P!AbsNext]_(P!absVars)
    <2> SUFFICES ASSUME IInv, Next
                 PROVE  P!AbsNext
      <3>1. UNCHANGED vars => UNCHANGED P!absVars
        BY DEF vars, P!absVars
      <3> QED
        BY <3>1
    <2>0. TypeOK
      BY DEF IInv
    <2> DEFINE reg == {c \in Chan : index[c] # "new"}
    <2>1. ASSUME NEW c \in Chan, NEW E \in ChannelCalls(events[c]), UpdateChannel(c, E)
          PROVE  P!AbsUpdate(c, E) /\ E \in SUBSET P!Askable
      <3>1. E \in SUBSET Askable
        BY <2>0, <2>1, ChannelCallsType
      <3>2. /\ events' = [events EXCEPT ![c] = E]
            /\ reported' = reported
            /\ \/ index' = [index EXCEPT ![c] = "added"]
               \/ index' = [index EXCEPT ![c] = "deleted"]
        BY <2>1, <3>1, UpdateChannelEffect
      <3>3. {d \in Chan : index'[d] # "new"} = reg \cup {c}
        BY <2>0, <3>2 DEF TypeOK
      <3> QED
        BY <3>1, <3>2, <3>3 DEF P!AbsUpdate, P!Askable, Askable
    <2>2. ASSUME NEW c \in Chan, RemoveChannel(c)
          PROVE  P!AbsRemove(c)
      <3>1. /\ index[c] # "new" /\ events[c] = {}
            /\ events' = events /\ reported' = reported
            /\ index' = [index EXCEPT ![c] = "new"]
        BY <2>2, RemoveChannelEffect
      <3>2. {d \in Chan : index'[d] # "new"} = reg \ {c}
        BY <2>0, <3>1 DEF TypeOK
      <3>3. events' = [events EXCEPT ![c] = {}]
        BY <2>0, <3>1 DEF TypeOK
      <3> QED
        BY <3>1, <3>2, <3>3 DEF P!AbsRemove
    <2>3. ASSUME NEW ready \in [Fd -> SUBSET Events], Poll(ready)
          PROVE  \E A \in SUBSET reg : P!AbsPoll(A)
      <3>1. PICK F \in SUBSET ReadyFds(ready) :
              /\ reported' = [c \in {kernel[f].ptr : f \in F} |-> Reported(FdOf[c], ready)]
              /\ UNCHANGED <<events, index>>
        BY <2>3 DEF Poll
      <3> DEFINE A == {kernel[f].ptr : f \in F}
      <3>2. ASSUME NEW c \in A
            PROVE  /\ c \in reg
                   /\ Reported(FdOf[c], ready) \subseteq events[c] \cup Unasked
                   /\ Reported(FdOf[c], ready) \in SUBSET Events
        <4>1. PICK f \in F : c = kernel[f].ptr
          BY <3>2
        <4>2. f \in Fd /\ kernel[f] # Free
          BY DEF ReadyFds, Reported
        <4>3. c \in Chan /\ index[c] = "added" /\ FdOf[c] = f /\ kernel[f].ev = events[c]
          BY <4>1, <4>2, PointerIsAdded DEF Added
        <4>4. Reported(f, ready) = ready[f] \cap (events[c] \cup Unasked)
          BY <4>2, <4>3 DEF Reported
        <4> QED
          BY <4>2, <4>3, <4>4
      <3>3. /\ reported' = [c \in A |-> Reported(FdOf[c], ready)]
            /\ \A c \in A : reported'[c] = Reported(FdOf[c], ready)
        BY <3>1
      <3>4. P!Unasked = Unasked /\ P!Events = Events
        BY DEF P!Unasked, P!Events, P!Askable, Unasked, Events, Askable
      <3>5. A \in SUBSET reg
        BY <3>2
      <3>6. reported' \in [A -> SUBSET Events]
        BY <3>2, <3>3
      <3>7. \A c \in A : reported'[c] \subseteq events[c] \cup Unasked
        BY <3>2, <3>3
      <3>8. P!AbsPoll(A)
        BY <3>1, <3>4, <3>6, <3>7 DEF P!AbsPoll
      <3> QED
        BY <3>5, <3>8
    <2>4. ASSUME PollReturnsNothing
          PROVE  \E A \in SUBSET reg : P!AbsPoll(A)
      <3>1. reported' = [c \in {} |-> {}] /\ UNCHANGED <<events, index>>
        BY <2>4 DEF PollReturnsNothing
      <3>2. reported' \in [{} -> SUBSET P!Events]
        BY <3>1
      <3>3. P!AbsPoll({})
        BY <3>1, <3>2 DEF P!AbsPoll
      <3> QED
        BY <3>3
    <2> QED
      BY <2>1, <2>2, <2>3, <2>4 DEF Next, P!AbsNext
  <1> QED
    BY <1>1, <1>2, Inductive, PTL DEF Spec, ImplementsPoller, P!AbsSpec
=============================================================================
