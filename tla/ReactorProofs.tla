--------------------------- MODULE ReactorProofs ---------------------------
(***************************************************************************)
(* PollPoller under the event loop, for any channels and descriptors, when *)
(* callers only remove a channel they have disabled (Reuse = "none"; the   *)
(* other values of Reuse are the two disagreements).  The vector of pollfd *)
(* stays a table of the registered channels, so no assert fails, polls     *)
(* report what is asked for, and the loop handles only channels that are   *)
(* registered.                                                             *)
(***************************************************************************)
EXTENDS Reactor, FiniteSetTheorems, SequenceTheorems, TLAPS

Entry == [fd : Int, ev : SUBSET Askable]
PollTypes ==
  /\ events \in [Chan -> SUBSET Askable]
  /\ index \in [Chan -> Int]
  /\ channels \in [Fd -> Chan \cup {NoChan}]
  /\ pollfds \in Seq(Entry)

\* channels_ has a channel under its own descriptor only.
MapByFd == \A f \in Fd : channels[f] # NoChan => FdOf[channels[f]] = f

EntryOf(c) == [fd |-> IF events[c] = {} THEN Negated(FdOf[c]) ELSE FdOf[c], ev |-> events[c]]
OwnsSlot(c) == index[c] \in 0 .. Len(pollfds) - 1 /\ pollfds[index[c] + 1] = EntryOf(c)
SlotsOwned == \A c \in Chan : Registered(c) => OwnsSlot(c)

\* There is no entry of a channel that is gone.
NoOrphans == \A i \in 1 .. Len(pollfds) : \E c \in Chan : Registered(c) /\ index[c] = i - 1

Reg == {c \in Chan : Registered(c)}
Counted == IsFiniteSet(Reg) /\ Len(pollfds) = Cardinality(Reg)

PollInv == PollTypes /\ MapByFd /\ SlotsOwned /\ NoOrphans /\ Counted /\ NeverAborts

-----------------------------------------------------------------------------
LEMMA FdFacts ==
  ASSUME NEW c \in Chan
  PROVE  FdOf[c] \in Fd /\ FdOf[c] \in Nat
  BY PollAssumption

\* -fd-1 is negative, and both forms give the descriptor back.
LEMMA DescriptorOf ==
  ASSUME PollTypes, NEW c \in Chan
  PROVE  /\ EntryOf(c) \in Entry
         /\ Descriptor(EntryOf(c)) = FdOf[c]
         /\ EntryOf(c).fd < 0 <=> events[c] = {}
  <1>1. FdOf[c] \in Nat /\ events[c] \in SUBSET Askable
    BY FdFacts DEF PollTypes
  <1> QED
    BY <1>1 DEF EntryOf, Entry, Descriptor, Negated

\* No two registered channels have a place in common.
LEMMA OneOwner ==
  ASSUME PollInv, NEW c \in Chan, NEW d \in Chan, Registered(c), Registered(d), index[c] = index[d]
  PROVE  c = d
  <1>1. EntryOf(c) = EntryOf(d)
    BY DEF PollInv, SlotsOwned, OwnsSlot
  <1>2. FdOf[c] = FdOf[d]
    BY <1>1, DescriptorOf DEF PollInv
  <1> QED
    BY <1>2 DEF Registered

LEMMA InitPollInv == Init => PollInv
  <1> SUFFICES ASSUME Init PROVE PollInv
    OBVIOUS
  <1>1. PollTypes /\ MapByFd /\ NeverAborts
    BY DEF Init, PollTypes, MapByFd, NeverAborts
  <1>2. Reg = {}
    BY FdFacts, PollAssumption DEF Init, Reg, Registered
  <1>3. Counted
    BY <1>2, FS_EmptySet DEF Init, Counted
  <1>4. SlotsOwned
    BY <1>2 DEF Reg, SlotsOwned
  <1>5. NoOrphans
    BY DEF Init, NoOrphans
  <1> QED
    BY <1>1, <1>3, <1>4, <1>5 DEF PollInv

-----------------------------------------------------------------------------
\* What updateChannel does, whichever branch it takes: the asserts hold, the
\* channel is registered and wants E, and nothing else changes.
UpdateEffect(c, E) ==
  /\ events' = [events EXCEPT ![c] = E]
  /\ channels' = [channels EXCEPT ![FdOf[c]] = c]
  /\ UNCHANGED <<reported, aborted>>

LEMMA AddStep ==
  ASSUME PollInv, NEW c \in Chan, NEW E \in SUBSET Askable, MayUpdate(c, E), index[c] < 0,
         AddChannel(c, E)
  PROVE  PollInv' /\ UpdateEffect(c, E)
  <1>0. FdOf[c] \in Fd /\ FdOf[c] \in Nat
    BY FdFacts
  <1>1. ~Registered(c)
    BY DEF PollInv, PollTypes, SlotsOwned, OwnsSlot
  <1>2. channels[FdOf[c]] = NoChan /\ E # {}
    BY <1>1 DEF MayUpdate, Registered
  <1>3. /\ pollfds' = Append(pollfds, [fd |-> FdOf[c], ev |-> E])
        /\ index' = [index EXCEPT ![c] = Len(pollfds)]
        /\ channels' = [channels EXCEPT ![FdOf[c]] = c]
        /\ events' = [events EXCEPT ![c] = E]
        /\ UNCHANGED <<reported, aborted>>
    BY <1>2 DEF AddChannel
  <1> DEFINE n == Len(pollfds)
             new == [fd |-> FdOf[c], ev |-> E]
  <1>4. new \in Entry
    BY <1>0 DEF Entry
  <1>5. /\ n \in Nat /\ pollfds' \in Seq(Entry) /\ Len(pollfds') = n + 1
        /\ \A i \in 1 .. n : pollfds'[i] = pollfds[i]
        /\ pollfds'[n + 1] = new
    BY <1>3, <1>4, AppendProperties, LenProperties DEF PollInv, PollTypes
  <1> HIDE DEF n
  <1>6. PollTypes'
    BY <1>0, <1>3, <1>5 DEF PollInv, PollTypes, n
  <1>7. \A d \in Chan : Registered(d)' <=> (d = c \/ Registered(d))
    <2> SUFFICES ASSUME NEW d \in Chan PROVE Registered(d)' <=> (d = c \/ Registered(d))
      OBVIOUS
    <2>1. FdOf[d] \in Fd
      BY FdFacts
    <2>2. CASE FdOf[d] = FdOf[c]
      <3>1. channels'[FdOf[d]] = c /\ channels[FdOf[d]] = NoChan /\ d # NoChan
        BY <1>0, <1>2, <1>3, <2>2, PollAssumption DEF PollInv, PollTypes
      <3> QED
        BY <3>1 DEF Registered
    <2>3. CASE FdOf[d] # FdOf[c]
      <3>1. channels'[FdOf[d]] = channels[FdOf[d]]
        BY <1>0, <1>3, <2>1, <2>3 DEF PollInv, PollTypes
      <3> QED
        BY <2>3, <3>1 DEF Registered
    <2> QED
      BY <2>2, <2>3
  <1>8. MapByFd'
    BY <1>0, <1>3 DEF PollInv, PollTypes, MapByFd
  <1>9. SlotsOwned'
    <2> SUFFICES ASSUME NEW d \in Chan, Registered(d)' PROVE OwnsSlot(d)'
      BY DEF SlotsOwned
    <2>1. CASE d = c
      <3>1. index'[c] = n /\ events'[c] = E
        BY <1>3 DEF PollInv, PollTypes, n
      <3> QED
        BY <1>2, <1>5, <2>1, <3>1 DEF OwnsSlot, EntryOf
    <2>2. CASE d # c
      <3>1. OwnsSlot(d) /\ index'[d] = index[d] /\ events'[d] = events[d]
        BY <1>3, <1>7, <2>2 DEF PollInv, PollTypes, SlotsOwned
      <3>2. index[d] \in 0 .. n - 1 /\ index[d] + 1 \in 1 .. n
        BY <1>5, <3>1 DEF OwnsSlot, n
      <3>3. pollfds'[index[d] + 1] = pollfds[index[d] + 1] /\ index[d] \in 0 .. Len(pollfds') - 1
        BY <1>5, <3>2
      <3> QED
        BY <3>1, <3>3 DEF OwnsSlot, EntryOf
    <2> QED
      BY <2>1, <2>2
  <1>10. NoOrphans'
    <2> SUFFICES ASSUME NEW i \in 1 .. Len(pollfds')
                 PROVE  \E d \in Chan : Registered(d)' /\ index'[d] = i - 1
      BY DEF NoOrphans
    <2>1. CASE i \in 1 .. n
      <3>1. PICK d \in Chan : Registered(d) /\ index[d] = i - 1
        BY <2>1 DEF PollInv, NoOrphans, n
      <3>2. d # c
        BY <1>1, <3>1
      <3>3. index'[d] = index[d]
        BY <1>3, <3>2 DEF PollInv, PollTypes
      <3> QED
        BY <1>7, <3>1, <3>3
    <2>2. CASE i = n + 1
      <3>1. index'[c] = i - 1
        BY <1>3, <1>5, <2>2 DEF PollInv, PollTypes, n
      <3> QED
        BY <1>7, <3>1
    <2> QED
      BY <1>5, <2>1, <2>2
  <1>11. Counted'
    <2>1. Reg' = Reg \cup {c} /\ c \notin Reg
      BY <1>1, <1>7 DEF Reg
    <2> QED
      BY <1>5, <2>1, FS_AddElement DEF PollInv, Counted, n
  <1>12. NeverAborts'
    BY <1>3 DEF PollInv, NeverAborts
  <1> QED
    BY <1>3, <1>6, <1>8, <1>9, <1>10, <1>11, <1>12 DEF PollInv, UpdateEffect

LEMMA ModifyStep ==
  ASSUME Reuse = "none", PollInv, NEW c \in Chan, NEW E \in SUBSET Askable, MayUpdate(c, E),
         ~(index[c] < 0), ModifyChannel(c, E)
  PROVE  PollInv' /\ UpdateEffect(c, E)
  <1>0. FdOf[c] \in Fd /\ FdOf[c] \in Nat
    BY FdFacts
  <1>1. Registered(c)
    BY DEF MayUpdate
  <1>2. OwnsSlot(c) /\ HasPlace(c) /\ Place(c) = EntryOf(c)
    BY <1>1 DEF PollInv, SlotsOwned, OwnsSlot, HasPlace, Place
  <1>3. Place(c).fd \in {FdOf[c], Negated(FdOf[c])}
    BY <1>2 DEF EntryOf
  <1> DEFINE p == index[c] + 1
             new == [fd |-> IF E = {} THEN Negated(FdOf[c]) ELSE FdOf[c], ev |-> E]
  <1>4. p \in 1 .. Len(pollfds) /\ index[c] = p - 1 /\ Len(pollfds) \in Nat
    BY <1>2 DEF OwnsSlot, PollInv, PollTypes
  <1>5. new \in Entry
    BY <1>0 DEF Entry, Negated
  <1>6. /\ pollfds' = [pollfds EXCEPT ![p] = new]
        /\ events' = [events EXCEPT ![c] = E]
        /\ UNCHANGED <<index, channels, reported, aborted>>
    <2>1. /\ pollfds' = [pollfds EXCEPT ![p] =
               [fd |-> IF E = {} THEN Negated(FdOf[c]) ELSE pollfds[p].fd, ev |-> E]]
          /\ events' = [events EXCEPT ![c] = E]
          /\ UNCHANGED <<index, channels, reported, aborted>>
      BY <1>2, <1>3 DEF ModifyChannel
    <2>2. E # {} => pollfds[p].fd = FdOf[c]
      BY <1>1, <1>2 DEF MayUpdate, Place, EntryOf
    <2> QED
      BY <2>1, <2>2
  <1> HIDE DEF new
  <1>7. /\ pollfds' \in Seq(Entry) /\ Len(pollfds') = Len(pollfds)
        /\ \A j \in 1 .. Len(pollfds) : pollfds'[j] = IF j = p THEN new ELSE pollfds[j]
    BY <1>4, <1>5, <1>6, ExceptSeq DEF PollInv, PollTypes
  <1>8. \A d \in Chan : Registered(d)' <=> Registered(d)
    BY <1>6 DEF Registered
  <1>9. PollTypes' /\ MapByFd' /\ NeverAborts'
    BY <1>6, <1>7 DEF PollInv, PollTypes, MapByFd, NeverAborts
  <1>10. SlotsOwned'
    <2> SUFFICES ASSUME NEW d \in Chan, Registered(d)' PROVE OwnsSlot(d)'
      BY DEF SlotsOwned
    <2>0. Registered(d) /\ OwnsSlot(d) /\ index'[d] = index[d] /\ index[d] \in Int
      BY <1>6, <1>8 DEF PollInv, PollTypes, SlotsOwned
    <2>1. CASE d = c
      <3>1. events'[c] = E
        BY <1>6 DEF PollInv, PollTypes
      <3> QED
        BY <1>4, <1>7, <2>0, <2>1, <3>1 DEF OwnsSlot, EntryOf, new
    <2>2. CASE d # c
      <3>1. index[d] # index[c]
        BY <1>1, <2>0, <2>2, OneOwner
      <3>2. index[d] + 1 # p /\ index[d] + 1 \in 1 .. Len(pollfds)
        BY <1>4, <2>0, <3>1 DEF OwnsSlot
      <3>3. events'[d] = events[d]
        BY <1>6, <2>2 DEF PollInv, PollTypes
      <3>4. pollfds'[index[d] + 1] = pollfds[index[d] + 1]
        BY <1>7, <3>2
      <3> QED
        BY <1>7, <2>0, <3>3, <3>4 DEF OwnsSlot, EntryOf
    <2> QED
      BY <2>1, <2>2
  <1>11. NoOrphans' /\ Counted'
    <2>1. Reg' = Reg
      BY <1>8 DEF Reg
    <2> QED
      BY <1>6, <1>7, <1>8, <2>1 DEF PollInv, NoOrphans, Counted
  <1>12. channels' = [channels EXCEPT ![FdOf[c]] = c]
    BY <1>0, <1>1, <1>6 DEF Registered, PollInv, PollTypes
  <1> QED
    BY <1>6, <1>9, <1>10, <1>11, <1>12 DEF PollInv, UpdateEffect

LEMMA UpdateStep ==
  ASSUME Reuse = "none", PollInv, NEW c \in Chan, NEW E \in SUBSET Askable, UpdateChannel(c, E)
  PROVE  PollInv' /\ UpdateEffect(c, E)
  BY AddStep, ModifyStep DEF UpdateChannel

-----------------------------------------------------------------------------
LEMMA Shortened ==
  ASSUME NEW s \in Seq(Entry), NEW m \in Nat, m <= Len(s)
  PROVE  /\ SubSeq(s, 1, m) \in Seq(Entry)
         /\ Len(SubSeq(s, 1, m)) = m
         /\ \A j \in 1 .. m : SubSeq(s, 1, m)[j] = s[j]
  <1>1. \A i \in 1 .. m : s[i] \in Entry
    BY LenProperties
  <1> DEFINE t == SubSeq(s, 1, m)
  <1>2. /\ t \in Seq(Entry)
        /\ Len(t) = IF 1 <= m THEN m - 1 + 1 ELSE 0
        /\ \A i \in 1 .. m - 1 + 1 : t[i] = s[1 + i - 1]
    BY <1>1, SubSeqProperties
  <1> HIDE DEF t
  <1>3. Len(t) = m /\ \A j \in 1 .. m : t[j] = s[j]
    BY <1>2
  <1> QED
    BY <1>2, <1>3 DEF t

\* removeChannel: the asserts hold, and the channel is forgotten.
RemoveEffect(c) ==
  /\ Registered(c) /\ events[c] = {}
  /\ channels' = [channels EXCEPT ![FdOf[c]] = NoChan]
  /\ UNCHANGED <<events, reported, aborted>>

LEMMA RemoveStep ==
  ASSUME PollInv, NEW c \in Chan, RemoveChannel(c)
  PROVE  PollInv' /\ RemoveEffect(c)
  <1>0. FdOf[c] \in Fd /\ FdOf[c] \in Nat /\ Registered(c) /\ events[c] = {}
    BY FdFacts DEF RemoveChannel
  <1>1. OwnsSlot(c) /\ HasPlace(c) /\ Place(c) = EntryOf(c)
    BY <1>0 DEF PollInv, SlotsOwned, OwnsSlot, HasPlace, Place
  <1>2. Place(c).fd = Negated(FdOf[c]) /\ Place(c).ev = {}
    BY <1>0, <1>1 DEF EntryOf
  <1>3. /\ channels' = [channels EXCEPT ![FdOf[c]] = NoChan]
        /\ RemovePlace(c)
        /\ UNCHANGED <<events, reported, aborted>>
    BY <1>1, <1>2 DEF RemoveChannel
  <1> DEFINE p == index[c] + 1
             n == Len(pollfds)
  <1>4. p \in 1 .. n /\ index[c] = p - 1 /\ n \in Nat
    BY <1>1 DEF OwnsSlot, PollInv, PollTypes
  \* The channel that owns the last entry.
  <1>5. PICK last \in Chan : Registered(last) /\ index[last] = n - 1
    BY <1>4 DEF PollInv, NoOrphans
  <1>6. channels[Descriptor(pollfds[n])] = last
    <2>1. pollfds[n] = EntryOf(last)
      BY <1>4, <1>5 DEF PollInv, SlotsOwned, OwnsSlot
    <2>2. Descriptor(pollfds[n]) = FdOf[last]
      BY <2>1, DescriptorOf DEF PollInv
    <2> QED
      BY <1>5, <2>2 DEF Registered
  <1>7. \A d \in Chan : Registered(d)' <=> (d # c /\ Registered(d))
    <2> SUFFICES ASSUME NEW d \in Chan PROVE Registered(d)' <=> (d # c /\ Registered(d))
      OBVIOUS
    <2>1. FdOf[d] \in Fd /\ d # NoChan
      BY FdFacts, PollAssumption
    <2>2. CASE FdOf[d] = FdOf[c]
      <3>1. channels'[FdOf[d]] = NoChan /\ channels[FdOf[d]] = c
        BY <1>0, <1>3, <2>2 DEF PollInv, PollTypes, Registered
      <3> QED
        BY <2>1, <3>1 DEF Registered
    <2>3. CASE FdOf[d] # FdOf[c]
      <3>1. channels'[FdOf[d]] = channels[FdOf[d]]
        BY <1>0, <1>3, <2>1, <2>3 DEF PollInv, PollTypes
      <3> QED
        BY <2>3, <3>1 DEF Registered
    <2> QED
      BY <2>2, <2>3
  \* In both branches: the last entry and its channel take the place of c's.
  <1>8. /\ pollfds' \in Seq(Entry) /\ Len(pollfds') = n - 1
        /\ \A j \in 1 .. n - 1 : pollfds'[j] = IF j = p THEN pollfds[n] ELSE pollfds[j]
        /\ index' \in [Chan -> Int]
        /\ \A d \in Chan : d # last => index'[d] = index[d]
        /\ last # c => index'[last] = p - 1
    <2>0. pollfds \in Seq(Entry) /\ index \in [Chan -> Int] /\ \A j \in 1 .. n : pollfds[j] \in Entry
      BY LenProperties DEF PollInv, PollTypes
    <2>1. CASE p = n
      <3>1. pollfds' = SubSeq(pollfds, 1, n - 1) /\ index' = index
        BY <1>3, <2>1 DEF RemovePlace, DropLast
      <3>2. last = c
        BY <1>0, <1>4, <1>5, <2>1, OneOwner
      <3>3. n - 1 \in Nat /\ n - 1 <= Len(pollfds)
        BY <1>4
      <3>4. /\ SubSeq(pollfds, 1, n - 1) \in Seq(Entry)
            /\ Len(SubSeq(pollfds, 1, n - 1)) = n - 1
            /\ \A j \in 1 .. n - 1 : SubSeq(pollfds, 1, n - 1)[j] = pollfds[j]
        BY <2>0, <3>3, Shortened
      <3> QED
        BY <1>4, <2>0, <2>1, <3>1, <3>2, <3>4
    <2>2. CASE p # n
      <3> DEFINE swapped == [pollfds EXCEPT ![p] = pollfds[n], ![n] = pollfds[p]]
      <3>1. /\ pollfds' = SubSeq(swapped, 1, Len(swapped) - 1)
            /\ index' = [index EXCEPT ![last] = index[c]]
        BY <1>3, <1>6, <2>2 DEF RemovePlace, DropLast
      <3>2. /\ swapped \in Seq(Entry) /\ Len(swapped) = n
            /\ \A j \in 1 .. n - 1 : swapped[j] = IF j = p THEN pollfds[n] ELSE pollfds[j]
        <4> DEFINE half == [pollfds EXCEPT ![p] = pollfds[n]]
        <4>1. pollfds[n] \in Entry /\ pollfds[p] \in Entry /\ n \in 1 .. n
          BY <1>4, <2>0
        <4>2. /\ half \in Seq(Entry) /\ Len(half) = n
              /\ \A j \in 1 .. n : half[j] = IF j = p THEN pollfds[n] ELSE pollfds[j]
          BY <1>4, <2>0, <4>1, ExceptSeq
        <4> HIDE DEF half
        <4>3. /\ [half EXCEPT ![n] = pollfds[p]] \in Seq(Entry)
              /\ Len([half EXCEPT ![n] = pollfds[p]]) = n
              /\ \A j \in 1 .. n : [half EXCEPT ![n] = pollfds[p]][j] = IF j = n THEN pollfds[p] ELSE half[j]
          BY <4>1, <4>2, ExceptSeq
        <4>4. swapped = [half EXCEPT ![n] = pollfds[p]]
          BY DEF half
        <4> HIDE DEF swapped
        <4> QED
          BY <1>4, <4>2, <4>3, <4>4
      <3> HIDE DEF swapped
      <3>3. n - 1 \in Nat /\ n - 1 <= Len(swapped)
        BY <1>4, <3>2
      <3>4. /\ SubSeq(swapped, 1, n - 1) \in Seq(Entry)
            /\ Len(SubSeq(swapped, 1, n - 1)) = n - 1
            /\ \A j \in 1 .. n - 1 : SubSeq(swapped, 1, n - 1)[j] = swapped[j]
        BY <3>2, <3>3, Shortened
      <3> QED
        BY <1>4, <2>0, <3>1, <3>2, <3>4
    <2> QED
      BY <2>1, <2>2
  <1> HIDE DEF n, p
  <1>9. PollTypes' /\ MapByFd' /\ NeverAborts'
    BY <1>0, <1>3, <1>8 DEF PollInv, PollTypes, MapByFd, NeverAborts
  <1>10. SlotsOwned'
    <2> SUFFICES ASSUME NEW d \in Chan, Registered(d)' PROVE OwnsSlot(d)'
      BY DEF SlotsOwned
    <2>0. d # c /\ Registered(d) /\ OwnsSlot(d) /\ events' = events /\ index[d] \in 0 .. n - 1
      BY <1>3, <1>7 DEF PollInv, SlotsOwned, OwnsSlot, n
    <2>1. index[d] # p - 1
      BY <1>0, <1>4, <2>0, OneOwner
    <2>2. CASE d = last
      <3>1. index'[d] = p - 1 /\ p # n /\ p \in 1 .. n - 1
        BY <1>4, <1>5, <1>8, <2>0, <2>1, <2>2
      <3>2. pollfds'[index'[d] + 1] = pollfds[n]
        BY <1>4, <1>8, <3>1
      <3>3. pollfds[n] = EntryOf(d)
        BY <1>4, <1>5, <2>0, <2>2 DEF OwnsSlot
      <3>4. index'[d] \in 0 .. Len(pollfds') - 1
        BY <1>4, <1>8, <3>1
      <3> QED
        BY <2>0, <3>2, <3>3, <3>4 DEF OwnsSlot, EntryOf
    <2>3. CASE d # last
      <3>1. index[d] # n - 1
        BY <1>5, <2>0, <2>3, OneOwner
      <3>a. index'[d] = index[d]
        BY <1>8, <2>3
      <3>2. index'[d] = index[d] /\ index[d] + 1 \in 1 .. n - 1 /\ index[d] + 1 # p
        BY <1>4, <2>0, <2>1, <3>1, <3>a
      <3>3. pollfds'[index'[d] + 1] = pollfds[index[d] + 1] /\ index'[d] \in 0 .. Len(pollfds') - 1
        BY <1>4, <1>8, <2>0, <3>1, <3>2
      <3> QED
        BY <2>0, <3>3 DEF OwnsSlot, EntryOf
    <2> QED
      BY <2>2, <2>3
  <1>11. NoOrphans'
    <2> SUFFICES ASSUME NEW i \in 1 .. Len(pollfds')
                 PROVE  \E d \in Chan : Registered(d)' /\ index'[d] = i - 1
      BY DEF NoOrphans
    <2>0. i \in 1 .. n - 1 /\ i \in 1 .. n
      BY <1>4, <1>8
    <2>1. CASE i = p
      <3>1. last # c
        BY <1>4, <1>5, <2>0, <2>1
      <3> QED
        BY <1>5, <1>7, <1>8, <2>1, <3>1
    <2>2. CASE i # p
      <3>1. PICK d \in Chan : Registered(d) /\ index[d] = i - 1
        BY <2>0 DEF PollInv, NoOrphans, n
      <3>2. d # c /\ d # last
        BY <1>4, <1>5, <2>0, <2>2, <3>1
      <3> QED
        BY <1>7, <1>8, <3>1, <3>2
    <2> QED
      BY <2>1, <2>2
  <1>12. Counted'
    <2>1. Reg' = Reg \ {c} /\ c \in Reg
      BY <1>0, <1>7 DEF Reg
    <2> QED
      BY <1>8, <2>1, FS_RemoveElement DEF PollInv, Counted, n
  <1> QED
    BY <1>0, <1>3, <1>9, <1>10, <1>11, <1>12 DEF PollInv, RemoveEffect

-----------------------------------------------------------------------------
\* An entry with events is the entry of a registered channel, under its own
\* descriptor; distinct entries have distinct channels.
Wanted == {i \in 1 .. Len(pollfds) : pollfds[i].ev # {}}

LEMMA WantedEntry ==
  ASSUME PollInv, NEW i \in Wanted
  PROVE  LET c == channels[pollfds[i].fd]
         IN  /\ pollfds[i].fd \in Fd /\ pollfds[i].fd >= 0
             /\ c \in Chan /\ c # NoChan /\ Registered(c) /\ index[c] = i - 1
             /\ pollfds[i].ev = events[c]
  <1>1. i \in 1 .. Len(pollfds) /\ pollfds[i].ev # {} /\ i \in Nat
    BY DEF Wanted
  <1>2. PICK c \in Chan : Registered(c) /\ index[c] = i - 1
    BY <1>1 DEF PollInv, NoOrphans
  <1>3. pollfds[i] = EntryOf(c)
    BY <1>1, <1>2 DEF PollInv, SlotsOwned, OwnsSlot
  <1>4. events[c] # {} /\ pollfds[i].ev = events[c] /\ pollfds[i].fd = FdOf[c]
    BY <1>1, <1>3 DEF EntryOf
  <1>5. channels[pollfds[i].fd] = c /\ c # NoChan
    BY <1>2, <1>4, PollAssumption DEF Registered
  <1> QED
    BY <1>2, <1>4, <1>5, FdFacts

LEMMA PollStep ==
  ASSUME PollInv, NEW ready \in Ready, Poll(ready)
  PROVE  /\ UNCHANGED <<events, index, pollfds, channels, aborted>>
         /\ reported' = [c \in {channels[pollfds[i].fd] : i \in Wanted} |->
              Revents(pollfds[CHOOSE i \in Wanted : channels[pollfds[i].fd] = c], ready)]
  <1>1. ~ \E i \in Wanted : pollfds[i].fd \notin Fd \/ channels[pollfds[i].fd] = NoChan
    BY WantedEntry
  <1> QED
    BY <1>1 DEF Poll, Wanted

LEMMA SameTable ==
  ASSUME PollInv, UNCHANGED <<events, index, pollfds, channels, aborted>>
  PROVE  PollInv'
  <1>1. \A c \in Chan : (Registered(c)' <=> Registered(c)) /\ (OwnsSlot(c)' <=> OwnsSlot(c))
    BY DEF Registered, OwnsSlot, EntryOf
  <1>2. Reg' = Reg
    BY <1>1 DEF Reg
  <1> QED
    BY <1>1, <1>2 DEF PollInv, PollTypes, MapByFd, SlotsOwned, NoOrphans, Counted, NeverAborts

-----------------------------------------------------------------------------
(***************************************************************************)
(* The loop over the channels of a poll.                                   *)
(***************************************************************************)
CallbackName == {"close", "read", "write"}

\* A round's channels are different ones, so that the channel that may remove
\* itself is not waiting further on in the list.
LoopInv ==
  /\ pos \in Nat /\ active \in Seq(Chan)
  /\ calls = NotBegun \/ calls \in Seq(CallbackName)
  /\ \A i, j \in 1 .. Len(active) : pos > 0 /\ i # j => active[i] # active[j]
  /\ ToHandleAreRegistered

ReactorInv == PollInv /\ LoopInv

LEMMA NotBegunApart == NotBegun \notin Seq(CallbackName)
  <1> SUFFICES ASSUME NotBegun \in Seq(CallbackName) PROVE FALSE
    OBVIOUS
  <1>1. Len(NotBegun) = 1 /\ NotBegun[1] = "not begun"
    BY DEF NotBegun
  <1>2. \A i \in 1 .. Len(NotBegun) : NotBegun[i] \in CallbackName
    OBVIOUS
  <1>a. Len(NotBegun) = 1
    BY <1>1
  <1>b. NotBegun[1] \in CallbackName
    BY <1>2, <1>a
  <1>3. "not begun" \in CallbackName
    BY <1>1, <1>b, Zenon
  <1>4. "not begun" \notin CallbackName
    BY DEF CallbackName
  <1> QED
    BY <1>3, <1>4

LEMMA CallbacksType == \A revents : Callbacks(revents) \in Seq(CallbackName)
  <1> SUFFICES ASSUME NEW revents PROVE Callbacks(revents) \in Seq(CallbackName)
    OBVIOUS
  <1>1. \A x \in CallbackName : <<x>> \in Seq(CallbackName) /\ <<>> \in Seq(CallbackName)
    OBVIOUS
  <1> DEFINE s1 == IF "hup" \in revents /\ "in" \notin revents THEN <<"close">> ELSE <<>>
             s2 == IF "in" \in revents THEN <<"read">> ELSE <<>>
             s3 == IF "out" \in revents THEN <<"write">> ELSE <<>>
  <1>2. s1 \in Seq(CallbackName) /\ s2 \in Seq(CallbackName) /\ s3 \in Seq(CallbackName)
    BY <1>1 DEF CallbackName
  <1> HIDE DEF s1, s2, s3
  <1>3. s1 \o s2 \in Seq(CallbackName)
    BY <1>2, ConcatProperties
  <1>4. (s1 \o s2) \o s3 \in Seq(CallbackName)
    BY <1>2, <1>3, ConcatProperties
  <1> QED
    BY <1>4 DEF Callbacks, s1, s2, s3

\* What fillActiveChannels collects.
LEMMA FilledList ==
  ASSUME PollInv, NEW list \in Filled
  PROVE  /\ list \in Seq(Chan)
         /\ \A i \in 1 .. Len(list) : Registered(list[i])
         /\ \A i, j \in 1 .. Len(list) : i # j => list[i] # list[j]
  <1> DEFINE n == Cardinality(Wanted)
  <1>1. n \in Nat
    <2>1. IsFiniteSet(1 .. Len(pollfds))
      BY FS_Interval DEF PollInv, PollTypes
    <2>2. IsFiniteSet(Wanted)
      BY <2>1, FS_Subset DEF Wanted
    <2> QED
      BY <2>2, FS_CardinalityType
  <1>2. PICK s \in [1 .. n -> Wanted] :
          /\ \A j, k \in 1 .. n : j < k => s[j] < s[k]
          /\ list = [k \in 1 .. n |-> channels[pollfds[s[k]].fd]]
    BY DEF Filled, Wanted
  <1> HIDE DEF n
  <1>3. \A k \in 1 .. n : /\ list[k] \in Chan /\ Registered(list[k])
                         /\ index[list[k]] = s[k] - 1 /\ s[k] \in Nat
    <2> SUFFICES ASSUME NEW k \in 1 .. n
                 PROVE  list[k] \in Chan /\ Registered(list[k]) /\ index[list[k]] = s[k] - 1 /\ s[k] \in Nat
      OBVIOUS
    <2>1. s[k] \in Wanted /\ list[k] = channels[pollfds[s[k]].fd]
      BY <1>2
    <2> QED
      BY <2>1, WantedEntry DEF Wanted
  <1>4. list \in Seq(Chan) /\ Len(list) = n
    BY <1>1, <1>2, <1>3
  <1>5. ASSUME NEW i \in 1 .. n, NEW j \in 1 .. n, i # j PROVE list[i] # list[j]
    <2>1. s[i] # s[j]
      BY <1>1, <1>2, <1>3, <1>5
    <2> QED
      BY <1>3, <2>1
  <1> QED
    BY <1>3, <1>4, <1>5

LEMMA ChannelCallsType ==
  ASSUME PollInv, NEW c \in Chan, NEW E \in ChannelCalls(events[c])
  PROVE  E \in SUBSET Askable
  BY DEF PollInv, PollTypes, ChannelCalls, Askable

LEMMA InitReactorInv == ReactorInit => ReactorInv
  <1> SUFFICES ASSUME ReactorInit PROVE ReactorInv
    OBVIOUS
  <1>1. PollInv
    BY InitPollInv DEF ReactorInit
  <1>2. LoopInv
    BY DEF ReactorInit, LoopInv, ToHandleAreRegistered
  <1> QED
    BY <1>1, <1>2 DEF ReactorInv

LEMMA ReactorStep ==
  ASSUME Reuse = "none", ReactorInv, [ReactorNext]_reactorVars
  PROVE  ReactorInv'
  <1>0. PollInv /\ LoopInv
    BY DEF ReactorInv
  <1>1. ASSUME NEW c \in Chan, NEW E \in ChannelCalls(events[c]), Update(c, E) PROVE ReactorInv'
    <2>1. PollInv' /\ UpdateEffect(c, E) /\ UNCHANGED loopVars
      BY <1>0, <1>1, ChannelCallsType, UpdateStep DEF Update
    <2>2. \A d \in Chan : Registered(d) => Registered(d)'
      <3> SUFFICES ASSUME NEW d \in Chan, Registered(d) PROVE Registered(d)'
        OBVIOUS
      <3>1. channels[FdOf[c]] \in {c, NoChan}
        BY <1>1 DEF Update, UpdateChannel, MayUpdate
      <3>2. FdOf[d] \in Fd /\ FdOf[c] \in Fd /\ d # NoChan
        BY FdFacts, PollAssumption
      <3>3. CASE FdOf[d] = FdOf[c]
        BY <1>0, <2>1, <3>1, <3>2, <3>3 DEF Registered, UpdateEffect, PollInv, PollTypes
      <3>4. CASE FdOf[d] # FdOf[c]
        BY <1>0, <2>1, <3>2, <3>4 DEF Registered, UpdateEffect, PollInv, PollTypes
      <3> QED
        BY <3>3, <3>4
    <2>3. \A i \in 1 .. Len(active) : active[i] \in Chan
      BY <1>0 DEF LoopInv
    <2> QED
      BY <1>0, <2>1, <2>2, <2>3 DEF ReactorInv, LoopInv, ToHandleAreRegistered, loopVars
  <1>2. ASSUME NEW c \in Chan, Remove(c) PROVE ReactorInv'
    <2>1. CASE RemoveAsserted(c)
      <3>1. PollInv' /\ RemoveEffect(c) /\ UNCHANGED <<active, pos, calls>> /\ InUserCode
        BY <1>0, <1>2, <2>1, RemoveStep DEF Remove, loopVars
      <3>2. ASSUME NEW d \in Chan, Registered(d), d # c PROVE Registered(d)'
        <4>1. FdOf[d] \in Fd /\ FdOf[c] \in Fd /\ FdOf[d] # FdOf[c]
          BY <3>1, <3>2, FdFacts DEF Registered, RemoveEffect
        <4> QED
          BY <1>0, <3>1, <3>2, <4>1 DEF Registered, RemoveEffect, PollInv, PollTypes
      <3>3. ASSUME NEW i \in 1 .. Len(active), pos > 0, i > pos \/ (i = pos /\ calls = NotBegun)
            PROVE  Registered(active[i])'
        <4>1. i > pos /\ pos \in 1 .. Len(active)
          BY <1>0, <3>1, <3>3 DEF InUserCode, InCallback, LoopInv
        <4>2. active[i] # active[pos]
          BY <1>0, <3>3, <4>1 DEF LoopInv
        <4>3. active[i] # c
          BY <2>1, <3>3, <4>2 DEF RemoveAsserted
        <4>4. active[i] \in Chan /\ Registered(active[i])
          BY <1>0, <3>3 DEF LoopInv, ToHandleAreRegistered
        <4> QED
          BY <3>1, <3>2, <4>3, <4>4 DEF Registered
      <3>4. ToHandleAreRegistered'
        BY <3>1, <3>3 DEF ToHandleAreRegistered, Registered
      <3> QED
        BY <1>0, <3>1, <3>4 DEF ReactorInv, LoopInv
    <2>2. CASE ~RemoveAsserted(c)
      <3>1. UNCHANGED <<vars, active, pos, calls>>
        BY <1>2, <2>2 DEF Remove
      <3>2. PollInv'
        BY <1>0, <3>1, SameTable DEF vars
      <3> QED
        BY <1>0, <3>1, <3>2 DEF ReactorInv, LoopInv, ToHandleAreRegistered, Registered, vars
    <2> QED
      BY <2>1, <2>2
  <1>3. ASSUME NEW ready \in Ready, Round(ready) PROVE ReactorInv'
    <2>1. UNCHANGED <<events, index, pollfds, channels, aborted>> /\ ~aborted
      BY <1>0, <1>3, PollStep DEF Round, PollInv, NeverAborts
    <2>2. PollInv'
      BY <1>0, <2>1, SameTable
    <2>3. ~aborted'
      BY <2>2 DEF PollInv, NeverAborts
    <2>4. active' \in Filled /\ pos' = 1 /\ calls' = NotBegun
      BY <1>3, <2>3 DEF Round
    <2>5. /\ active' \in Seq(Chan)
          /\ \A i \in 1 .. Len(active') : Registered(active'[i])
          /\ \A i, j \in 1 .. Len(active') : i # j => active'[i] # active'[j]
      BY <1>0, <2>4, FilledList
    <2>6. ToHandleAreRegistered'
      BY <2>1, <2>5 DEF ToHandleAreRegistered, Registered
    <2> QED
      BY <2>2, <2>4, <2>5, <2>6 DEF ReactorInv, LoopInv
  <1>4. ASSUME EmptyRound PROVE ReactorInv'
    <2>1. /\ pos = 0 /\ UNCHANGED <<events, index, pollfds, channels, aborted>>
          /\ active' = <<>> /\ UNCHANGED <<pos, calls>>
      BY <1>4 DEF EmptyRound, PollReturnsNothing
    <2>2. PollInv'
      BY <1>0, <2>1, SameTable
    <2> QED
      BY <1>0, <2>1, <2>2 DEF ReactorInv, LoopInv, ToHandleAreRegistered
  <1>5. ASSUME UNCHANGED vars PROVE PollInv' /\ \A c \in Chan : Registered(c)' <=> Registered(c)
    BY <1>0, <1>5, SameTable DEF vars, Registered
  <1>6. ASSUME HandleEvent PROVE ReactorInv'
    <2>1. /\ pos > 0 /\ calls = NotBegun /\ UNCHANGED <<vars, active, pos>>
          /\ calls' = Callbacks(reported[active[pos]]) \/ calls' = <<>>
      BY <1>6 DEF HandleEvent
    <2>2. calls' \in Seq(CallbackName)
      <3>1. CASE calls' = <<>>
        BY <3>1
      <3>2. CASE calls' = Callbacks(reported[active[pos]])
        BY <3>2, CallbacksType, Zenon
      <3> QED
        BY <2>1, <3>1, <3>2
    <2> QED
      BY <2>2, <1>0, <1>5, <2>1 DEF ReactorInv, LoopInv, ToHandleAreRegistered
  <1>7. ASSUME CallbackReturns PROVE ReactorInv'
    <2>1. /\ calls # <<>> /\ calls # NotBegun /\ calls' = Tail(calls) /\ UNCHANGED <<vars, active, pos>>
      BY <1>7 DEF CallbackReturns, InCallback
    <2>2. calls' \in Seq(CallbackName)
      BY <1>0, <2>1 DEF LoopInv
    <2>3. calls' # NotBegun
      BY <2>2, NotBegunApart
    <2> QED
      BY <1>0, <1>5, <2>1, <2>2, <2>3 DEF ReactorInv, LoopInv, ToHandleAreRegistered
  <1>8. ASSUME NextChannel PROVE ReactorInv'
    <2>1. CASE pos < Len(active)
      <3>1. pos > 0 /\ pos' = pos + 1 /\ calls' = NotBegun /\ UNCHANGED <<vars, active>>
        BY <1>8, <2>1 DEF NextChannel
      <3>2. ToHandleAreRegistered'
        BY <1>0, <1>5, <3>1 DEF LoopInv, ToHandleAreRegistered
      <3> QED
        BY <1>0, <1>5, <3>1, <3>2 DEF ReactorInv, LoopInv
    <2>2. CASE ~(pos < Len(active))
      <3>1. pos' = 0 /\ UNCHANGED <<calls, vars, active>>
        BY <1>8, <2>2 DEF NextChannel
      <3> QED
        BY <1>0, <1>5, <3>1 DEF ReactorInv, LoopInv, ToHandleAreRegistered
    <2> QED
      BY <2>1, <2>2
  <1>9. CASE UNCHANGED reactorVars
    BY <1>0, <1>5, <1>9 DEF reactorVars, loopVars, ReactorInv, LoopInv, ToHandleAreRegistered
  <1> QED
    BY <1>1, <1>2, <1>3, <1>4, <1>6, <1>7, <1>8, <1>9 DEF ReactorNext, LoopStep

LEMMA ReactorHolds == ASSUME Reuse = "none" PROVE ReactorSpec => []ReactorInv
  <1>1. ReactorInv /\ [ReactorNext]_reactorVars => ReactorInv'
    BY ReactorStep
  <1> QED
    BY InitReactorInv, <1>1, PTL DEF ReactorSpec

\* The asserts of PollPoller's updateChannel, removeChannel and
\* fillActiveChannels hold in every round and callback, for callers that use a
\* channel once and disable it before they remove it.  The assert of
\* EventLoop::removeChannel is not among them (it may fail: loopAborted), nor is
\* that of Channel::remove, which is such a caller's own obligation.
THEOREM PollerNeverAborts == ASSUME Reuse = "none" PROVE ReactorSpec => []NeverAborts
  <1>1. ReactorInv => NeverAborts
    BY DEF ReactorInv, PollInv
  <1> QED
    BY ReactorHolds, <1>1, PTL

\* The vector of pollfd, the indexes of the channels and the map agree after
\* any sequence of updates and removals.
THEOREM SlotsAgree == ASSUME Reuse = "none" PROVE ReactorSpec => []SlotsMatchChannels
  <1>1. ReactorInv => SlotsMatchChannels
    <2> SUFFICES ASSUME ReactorInv PROVE SlotsMatchChannels
      OBVIOUS
    <2>1. ASSUME NEW c \in Chan, Registered(c)
          PROVE  /\ HasPlace(c) /\ Place(c).ev = events[c]
                 /\ Place(c).fd = IF events[c] = {} THEN Negated(FdOf[c]) ELSE FdOf[c]
      <3>1. HasPlace(c) /\ Place(c) = EntryOf(c)
        BY <2>1 DEF ReactorInv, PollInv, SlotsOwned, OwnsSlot, HasPlace, Place
      <3> QED
        BY <3>1 DEF EntryOf
    <2>2. Len(pollfds) = Cardinality({c \in Chan : Registered(c)})
      BY DEF ReactorInv, PollInv, Counted, Reg
    <2> QED
      BY <2>1, <2>2 DEF SlotsMatchChannels
  <1> QED
    BY ReactorHolds, <1>1, PTL

\* No callback can have removed a channel the loop is still to handle.
THEOREM HandledAreRegistered == ASSUME Reuse = "none" PROVE ReactorSpec => []ToHandleAreRegistered
  <1>1. ReactorInv => ToHandleAreRegistered
    BY DEF ReactorInv, LoopInv
  <1> QED
    BY ReactorHolds, <1>1, PTL

-----------------------------------------------------------------------------
LEMMA PollMaps ==
  ASSUME PollInv, NEW ready \in Ready, Poll(ready)
  PROVE  \E A \in SUBSET Reg : P!AbsPoll(A)
  <1> DEFINE A == {channels[pollfds[i].fd] : i \in Wanted}
             Slot(c) == CHOOSE i \in Wanted : channels[pollfds[i].fd] = c
  <1>1. /\ UNCHANGED <<events, channels>>
        /\ reported' = [c \in A |-> Revents(pollfds[Slot(c)], ready)]
    BY PollStep
  <1>2. ready \in [Fd -> SUBSET Events]
    BY ReadyAssumption
  <1>3. ASSUME NEW c \in A
        PROVE  /\ c \in Reg
               /\ Revents(pollfds[Slot(c)], ready) \subseteq events[c] \cup Unasked
               /\ Revents(pollfds[Slot(c)], ready) \in SUBSET Events
    <2>1. Slot(c) \in Wanted /\ channels[pollfds[Slot(c)].fd] = c
      BY <1>3
    <2> HIDE DEF Slot
    <2>2. /\ pollfds[Slot(c)].fd \in Fd /\ pollfds[Slot(c)].fd >= 0
          /\ c \in Chan /\ Registered(c) /\ pollfds[Slot(c)].ev = events[c]
      BY <2>1, WantedEntry
    <2>a. pollfds[Slot(c)].fd \in Nat
      BY <2>2, PollAssumption
    <2>3. ~(pollfds[Slot(c)].fd < 0)
      BY <2>a
    <2>4. Revents(pollfds[Slot(c)], ready) = ready[pollfds[Slot(c)].fd] \cap (events[c] \cup Unasked)
      BY <2>2, <2>3 DEF Revents
    <2> QED
      BY <1>2, <2>2, <2>4 DEF Reg
  <1> HIDE DEF A, Slot
  <1>4. /\ reported' \in [A -> SUBSET Events]
        /\ \A c \in A : reported'[c] \subseteq events[c] \cup Unasked
    BY <1>1, <1>3
  <1>5. P!Unasked = Unasked /\ P!Events = Events
    BY DEF P!Unasked, P!Events, P!Askable, Unasked, Events, Askable
  <1>6. {c \in Chan : Registered(c)}' = {c \in Chan : Registered(c)}
    BY <1>1 DEF Registered
  <1>7. P!AbsPoll(A)
    BY <1>1, <1>4, <1>5, <1>6 DEF P!AbsPoll
  <1>8. A \in SUBSET Reg
    BY <1>3
  <1> QED
    BY <1>7, <1>8

\* PollPoller under the loop implements Poller: updates, removals and polls
\* are the abstract ones, and the steps of the loop are none.
THEOREM ReactorImplements == ASSUME Reuse = "none" PROVE ReactorSpec => ImplementsPoller
  <1>1. ReactorInit => P!AbsInit
    <2> SUFFICES ASSUME ReactorInit PROVE P!AbsInit
      OBVIOUS
    <2>1. {c \in Chan : Registered(c)} = {}
      BY FdFacts, PollAssumption DEF ReactorInit, Init, Registered
    <2> QED
      BY <2>1 DEF ReactorInit, Init, P!AbsInit, P!NothingReported
  <1>2. ReactorInv /\ [ReactorNext]_reactorVars => [P!AbsNext]_(P!absVars)
    <2> SUFFICES ASSUME ReactorInv, [ReactorNext]_reactorVars PROVE [P!AbsNext]_(P!absVars)
      OBVIOUS
    <2>0. PollInv
      BY DEF ReactorInv
    <2>1. ASSUME UNCHANGED vars PROVE UNCHANGED P!absVars
      BY <2>1 DEF vars, P!absVars, Registered
    <2>2. ASSUME NEW c \in Chan, NEW E \in ChannelCalls(events[c]), Update(c, E)
          PROVE  P!AbsUpdate(c, E) /\ E \in SUBSET P!Askable
      <3>1. E \in SUBSET Askable
        BY <2>0, ChannelCallsType
      <3>2. UpdateEffect(c, E) /\ channels[FdOf[c]] \in {c, NoChan}
        BY <2>0, <2>2, <3>1, UpdateStep DEF Update, UpdateChannel, MayUpdate
      <3>3. {d \in Chan : Registered(d)}' = {d \in Chan : Registered(d)} \cup {c}
        <4> SUFFICES ASSUME NEW d \in Chan PROVE Registered(d)' <=> (Registered(d) \/ d = c)
          BY DEF Registered
        <4>1. FdOf[d] \in Fd /\ FdOf[c] \in Fd /\ d # NoChan
          BY FdFacts, PollAssumption
        <4>2. CASE FdOf[d] = FdOf[c]
          BY <2>0, <3>2, <4>1, <4>2 DEF Registered, UpdateEffect, PollInv, PollTypes
        <4>3. CASE FdOf[d] # FdOf[c]
          BY <2>0, <3>2, <4>1, <4>3 DEF Registered, UpdateEffect, PollInv, PollTypes
        <4> QED
          BY <4>2, <4>3
      <3> QED
        BY <3>1, <3>2, <3>3 DEF P!AbsUpdate, P!Askable, Askable, UpdateEffect
    <2>3. ASSUME NEW c \in Chan, Remove(c), RemoveAsserted(c)
          PROVE  P!AbsRemove(c)
      <3>1. RemoveEffect(c)
        BY <2>0, <2>3, RemoveStep DEF Remove
      <3>2. {d \in Chan : Registered(d)}' = {d \in Chan : Registered(d)} \ {c}
        <4> SUFFICES ASSUME NEW d \in Chan PROVE Registered(d)' <=> (Registered(d) /\ d # c)
          BY DEF Registered
        <4>1. FdOf[d] \in Fd /\ FdOf[c] \in Fd /\ d # NoChan
          BY FdFacts, PollAssumption
        <4>2. CASE FdOf[d] = FdOf[c]
          BY <2>0, <3>1, <4>1, <4>2 DEF Registered, RemoveEffect, PollInv, PollTypes
        <4>3. CASE FdOf[d] # FdOf[c]
          BY <2>0, <3>1, <4>1, <4>3 DEF Registered, RemoveEffect, PollInv, PollTypes
        <4> QED
          BY <4>2, <4>3
      <3>3. events' = [events EXCEPT ![c] = {}]
        BY <2>0, <3>1 DEF RemoveEffect, PollInv, PollTypes
      <3>4. c \in {d \in Chan : Registered(d)}
        BY <3>1 DEF RemoveEffect
      <3> QED
        BY <3>1, <3>2, <3>3, <3>4 DEF P!AbsRemove, RemoveEffect
    <2>4. ASSUME NEW c \in Chan, Remove(c), ~RemoveAsserted(c) PROVE UNCHANGED P!absVars
      BY <2>1, <2>4 DEF Remove
    <2>5. ASSUME NEW ready \in Ready, Round(ready)
          PROVE  \E A \in SUBSET {d \in Chan : Registered(d)} : P!AbsPoll(A)
      BY <2>0, <2>5, PollMaps DEF Round, Reg
    <2>6. ASSUME EmptyRound
          PROVE  \E A \in SUBSET {d \in Chan : Registered(d)} : P!AbsPoll(A)
      <3>1. reported' = [c \in {} |-> {}] /\ UNCHANGED <<events, channels>>
        BY <2>6 DEF EmptyRound, PollReturnsNothing
      <3>2. reported' \in [{} -> SUBSET P!Events]
        BY <3>1
      <3>3. {c \in Chan : Registered(c)}' = {c \in Chan : Registered(c)}
        BY <3>1 DEF Registered
      <3>4. P!AbsPoll({})
        BY <3>1, <3>2, <3>3 DEF P!AbsPoll
      <3> QED
        BY <3>4
    <2>7. LoopStep => UNCHANGED vars
      BY DEF LoopStep, HandleEvent, CallbackReturns, NextChannel
    <2>8. UNCHANGED reactorVars => UNCHANGED vars
      BY DEF reactorVars
    <2>9. CASE UNCHANGED reactorVars
      BY <2>1, <2>8, <2>9
    <2>10. CASE ReactorNext
      <3>1. CASE \E c \in Chan : \E E \in ChannelCalls(events[c]) : Update(c, E)
        BY <2>2, <3>1 DEF P!AbsNext
      <3>2. CASE \E c \in Chan : Remove(c)
        BY <2>3, <2>4, <3>2 DEF P!AbsNext
      <3>3. CASE (\E ready \in Ready : Round(ready)) \/ EmptyRound
        BY <2>5, <2>6, <3>3 DEF P!AbsNext
      <3>4. CASE LoopStep
        BY <2>1, <2>7, <3>4
      <3> QED
        BY <2>10, <3>1, <3>2, <3>3, <3>4 DEF ReactorNext
    <2> QED
      BY <2>9, <2>10
  <1> QED
    BY <1>1, <1>2, ReactorHolds, PTL DEF ReactorSpec, ImplementsPoller, P!AbsSpec
=============================================================================
