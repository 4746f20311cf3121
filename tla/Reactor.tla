------------------------------ MODULE Reactor ------------------------------
(***************************************************************************)
(* A round of the event loop over the channels a poll reports:             *)
(* EventLoop::loop, updateChannel and removeChannel (src/port/EventLoop.cpp) *)
(* and Channel::handleEvent (src/port/Channel.cpp), composed with          *)
(* PollPoller.  The callbacks, and the functors between two rounds, may    *)
(* enable, disable and remove any channel, the one being handled and the   *)
(* ones that are still to be handled included.                             *)
(***************************************************************************)
EXTENDS PollPoller

CONSTANTS
  Tied   \* channels with tied_

ASSUME TiedAssumption == Tied \subseteq Chan

VARIABLES
  active,     \* activeChannels_
  pos,        \* the iterator of loop(): 0 while eventHandling_ is false
  calls,      \* callbacks of active[pos] still to return, or NotBegun
  loopAborted \* the assert of EventLoop::removeChannel failed

loopVars == <<active, pos, calls, loopAborted>>
reactorVars == <<vars, loopVars>>

NotBegun == <<"not begun">>

ReactorInit ==
  /\ Init
  /\ active = <<>> /\ pos = 0 /\ calls = <<>>
  /\ loopAborted = FALSE

\* User code runs: a callback, or the functors and the code around loop().
InCallback == pos > 0 /\ calls \notin {<<>>, NotBegun}
InUserCode == pos = 0 \/ InCallback

-----------------------------------------------------------------------------
\* Channel::update and EventLoop::updateChannel.
Update(c, E) ==
  /\ InUserCode
  /\ UpdateChannel(c, E)
  /\ UNCHANGED loopVars

\* The assert of removeChannel: nobody removes a channel of this round but
\* the callbacks of the channel itself.
RemoveAsserted(c) == pos > 0 => active[pos] = c \/ \A i \in 1 .. Len(active) : active[i] # c

\* Mutant: removeChannel without its assert, as in a build with NDEBUG.
RemoveUnchecked(c) ==
  /\ InUserCode
  /\ RemoveChannel(c)
  /\ UNCHANGED loopVars

\* Channel::remove and EventLoop::removeChannel.
Remove(c) ==
  /\ InUserCode
  /\ Registered(c) /\ events[c] = {}
  /\ IF RemoveAsserted(c)
     THEN RemoveChannel(c) /\ UNCHANGED loopVars
     ELSE loopAborted' = TRUE /\ UNCHANGED <<vars, active, pos, calls>>

\* activeChannels_ as fillActiveChannels leaves it: the channels of the entries
\* with events, in the order of the vector.
Filled ==
  LET entries == {i \in 1 .. Len(pollfds) : pollfds[i].ev # {}}
      places == 1 .. Cardinality(entries)
      inOrder == {s \in [places -> entries] : \A j, k \in places : j < k => s[j] < s[k]}
  IN  {[k \in places |-> channels[pollfds[s[k]].fd]] : s \in inOrder}

\* poll returns channels, and loop() goes to the first one.
Round(ready) ==
  /\ pos = 0
  /\ Poll(ready)
  /\ IF aborted' THEN UNCHANGED loopVars
     ELSE active' \in Filled /\ pos' = 1 /\ calls' = NotBegun /\ UNCHANGED loopAborted

\* poll returns none: loop() has nothing to handle.
EmptyRound ==
  /\ pos = 0
  /\ PollReturnsNothing
  /\ active' = <<>>
  /\ UNCHANGED <<pos, calls, loopAborted>>

\* The callbacks handleEventWithGuard calls, in its order.  Which ones is
\* decided by revents_, which no update changes.
Callbacks(revents) ==
  (IF "hup" \in revents /\ "in" \notin revents THEN <<"close">> ELSE <<>>)
    \o (IF "in" \in revents THEN <<"read">> ELSE <<>>)
    \o (IF "out" \in revents THEN <<"write">> ELSE <<>>)

\* handleEvent: nothing is called if the object a channel is tied to is gone.
HandleEvent ==
  /\ pos > 0 /\ calls = NotBegun
  /\ \/ calls' = Callbacks(reported[active[pos]])
     \/ active[pos] \in Tied /\ calls' = <<>>
  /\ UNCHANGED <<vars, active, pos, loopAborted>>

CallbackReturns ==
  /\ InCallback
  /\ calls' = Tail(calls)
  /\ UNCHANGED <<vars, active, pos, loopAborted>>

\* it++, and the end of the round.
NextChannel ==
  /\ pos > 0 /\ calls = <<>>
  /\ IF pos < Len(active) THEN pos' = pos + 1 /\ calls' = NotBegun
     ELSE pos' = 0 /\ UNCHANGED calls
  /\ UNCHANGED <<vars, active, loopAborted>>

LoopStep == HandleEvent \/ CallbackReturns \/ NextChannel

ReactorNext ==
  /\ ~aborted /\ ~loopAborted
  /\ \/ \E c \in Chan : \E E \in ChannelCalls(events[c]) : Update(c, E)
     \/ \E c \in Chan : Remove(c)
     \/ \E ready \in Ready : Round(ready)
     \/ EmptyRound
     \/ LoopStep

ReactorSpec == ReactorInit /\ [][ReactorNext]_reactorVars

-----------------------------------------------------------------------------
\* A channel whose handleEvent is still to come in this round is registered:
\* no callback that ran before can have removed, and so freed, a channel the
\* list of raw pointers still holds.
ToHandleAreRegistered ==
  \A i \in 1 .. Len(active) :
    (pos > 0 /\ (i > pos \/ (i = pos /\ calls = NotBegun))) => Registered(active[i])
=============================================================================
