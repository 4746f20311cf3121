----------------------------- MODULE ComServer -----------------------------
(***************************************************************************)
(* The server of serial ports, src/bussiness_logic/ComServer.cpp, with     *)
(* its entities (ComEntity.cpp), their channels (src/port/Channel.cpp) and *)
(* the loops they live in.  The server belongs to the thread of the base   *)
(* loop; an entity is created there, established and read in the loop      *)
(* getNextLoop() gave it, and may be used by another thread (the client)   *)
(* that a message callback handed the ComEntityPtr to.                     *)
(*                                                                         *)
(* An entity is its name in comEntities_.  Its lifetime is that of the     *)
(* ComEntityPtrs: in the map, bound to queued functors, held by the guard  *)
(* of Channel::handleEvent or by the client.  The functors of send and     *)
(* shutdown and the poller's Channel* are raw pointers that do not count.  *)
(***************************************************************************)
EXTENDS EventLoopThreadPool, Sequences

CONSTANTS
  Names,     \* names of entities
  NoCom,     \* no entity
  MaxCalls   \* bound: calls of send and shutdown by the client

ASSUME ComAssumption == NoCom \notin Names /\ MaxCalls \in Nat

VARIABLES
  phase,      \* the server: "up", "destructing", "joining" or "gone"
  started,    \* started_
  comEntities,\* names in comEntities_
  home,       \* loop_ of every entity
  state,      \* state_ of every entity, "none" before it is created
  reading,    \* entities whose channel is enabled, and so in its loop's poller
  place,      \* per loop: "poll", "events", "functors" or "exited"
  active,     \* per loop: activeChannels_ not yet handled
  guard,      \* per loop: the entity whose event is being handled, or NoCom
  pending,    \* per loop: pendingFunctors_
  batch,      \* per loop: the functors swapped out of it
  ran,        \* per loop: how many of them have run
  client,     \* entities the client thread holds a ComEntityPtr of
  calls,      \* calls the client made
  calling,    \* the client's call that found its port open, or NoCall
  lateCall,   \* history: a call posted when the server was going or gone
  fate        \* "ok"; the assert of comEstablished failed, for a port that could
              \* not be opened ("notOpened") or another ("assert"); or the first
              \* use of a dangling pointer: by a "functor" of the pool or of the
              \* base loop ("baseFunctor"), of a "channel" or of a "loop"

serverVars == <<phase, started, comEntities>>
entityVars == <<home, state, reading>>
queueVars == <<pending, batch, ran>>
loopVars == <<place, active, guard>>
clientVars == <<client, calls, calling, lateCall>>
vars == <<poolVars, serverVars, entityVars, queueVars, loopVars, clientVars, fate>>

Created == {n \in Names : state[n] # "none"}

Functor(kind, n) == [kind |-> kind, com |-> n]
NoCall == Functor("none", NoCom)

\* comEstablished, comDestroyed and the write complete callback are bound to a
\* ComEntityPtr, sendInLoop and shutdownInLoop to `this'.
Owning == {"established", "destroyed", "complete"}

Owns(q, n) == \E i \in DOMAIN q : q[i].com = n /\ q[i].kind \in Owning

\* A ComEntityPtr of n exists.  The functors of a batch keep theirs until
\* doPendingFunctors returns.
Alive(n) ==
  \/ n \in comEntities \/ n \in client
  \/ \E l \in Loops : guard[l] = n \/ Owns(pending[l], n) \/ Owns(batch[l], n)

Init ==
  /\ PoolInit
  /\ phase = "up" /\ started = FALSE /\ comEntities = {}
  /\ home = [n \in Names |-> 0]
  /\ state = [n \in Names |-> "none"]
  /\ reading = {}
  /\ place = [l \in Loops |-> "poll"]
  /\ active = [l \in Loops |-> {}]
  /\ guard = [l \in Loops |-> NoCom]
  /\ pending = [l \in Loops |-> <<>>]
  /\ batch = [l \in Loops |-> <<>>]
  /\ ran = [l \in Loops |-> 0]
  /\ client = {} /\ calls = 0 /\ calling = NoCall /\ lateCall = FALSE
  /\ fate = "ok"

\* ComUtil::serialInit: what open() and tcgetattr() make of the port.  The
\* settings that follow, always 8 bits, 9600 baud and no parity, do not change
\* its result: an error of cfsetispeed() or tcsetattr() is only logged.
SerialInit(opened, got) == opened /\ got

\* state_ after the constructor.
StateOf(fdValid) == IF fdValid THEN "opened" ELSE "error"

Push(l, f) == pending' = [pending EXCEPT ![l] = Append(@, f)]

(***************************************************************************)
(* ComEntity's functors.                                                   *)
(***************************************************************************)

\* comEstablished of an entity in state s: assert(state_ == kOpened), tie,
\* enableReading.
Establish(n, s) ==
  IF s = "opened"
  THEN reading' = reading \cup {n} /\ UNCHANGED fate
  ELSE /\ fate' = IF s = "error" THEN "notOpened" ELSE "assert"
       /\ UNCHANGED reading

\* sendInLoop: gives up if the port is open (sic); otherwise it writes, and
\* queues the write complete callback when all was written.
SendInLoop(n) ==
  \/ UNCHANGED pending
  \/ state[n] # "opened" /\ Push(home[n], Functor("complete", n))

(***************************************************************************)
(* The server, in the thread of the base loop.                             *)
(***************************************************************************)

\* Once start() has been called nothing reads numThreads_ again.
SetThreadNum(k) ==
  /\ phase = "up" /\ fate = "ok"
  /\ ~started
  /\ PoolSetThreadNum(k)
  /\ UNCHANGED <<serverVars, entityVars, queueVars, loopVars, clientVars, fate>>

Start ==
  /\ phase = "up" /\ fate = "ok"
  /\ ~started
  /\ started' = TRUE
  /\ PoolStart
  /\ UNCHANGED <<phase, comEntities, entityVars, queueVars, loopVars, clientVars, fate>>

\* Mutant: the channel is enabled when the entity is made.
CreateEager(n, opens) ==
  /\ phase = "up" /\ fate = "ok"
  /\ n \notin comEntities
  /\ Advance
  /\ comEntities' = comEntities \cup {n}
  /\ home' = [home EXCEPT ![n] = NextLoop]
  /\ state' = [state EXCEPT ![n] = StateOf(opens)]
  /\ reading' = reading \cup {n}
  /\ IF NextLoop = 0
     THEN UNCHANGED <<fate, pending>>
     ELSE Push(NextLoop, Functor("established", n)) /\ UNCHANGED fate
  /\ UNCHANGED <<phase, started, batch, ran, loopVars, clientVars>>

\* createComEntityAndInsert; for a name in the map it returns at once.  In the
\* loop's own thread runInLoop calls comEstablished itself.
Create(n, opens) ==
  /\ phase = "up" /\ fate = "ok"
  /\ n \notin comEntities
  /\ Advance
  /\ comEntities' = comEntities \cup {n}
  /\ home' = [home EXCEPT ![n] = NextLoop]
  /\ state' = [state EXCEPT ![n] = StateOf(opens)]
  /\ IF NextLoop = 0
     THEN Establish(n, state'[n]) /\ UNCHANGED pending
     ELSE Push(NextLoop, Functor("established", n)) /\ UNCHANGED <<reading, fate>>
  /\ UNCHANGED <<phase, started, batch, ran, loopVars, clientVars>>

\* Mutant: comDestroyed runs at once in whichever thread, and owns nothing.
DestroyOneDirectly(n) ==
  /\ phase \in {"up", "destructing"} /\ fate = "ok"
  /\ n \in comEntities
  /\ phase' = "destructing"
  /\ comEntities' = comEntities \ {n}
  /\ UNCHANGED <<poolVars, started, entityVars, queueVars, loopVars, clientVars, fate>>

\* ~ComServer, one entity: it leaves the map and its loop gets comDestroyed,
\* which does nothing but keep it until then.
DestroyOne(n) ==
  /\ phase \in {"up", "destructing"} /\ fate = "ok"
  /\ n \in comEntities
  /\ phase' = "destructing"
  /\ comEntities' = comEntities \ {n}
  /\ IF home[n] = 0 THEN UNCHANGED pending
     ELSE Push(home[n], Functor("destroyed", n))
  /\ UNCHANGED <<poolVars, started, entityVars, batch, ran, loopVars, clientVars, fate>>

\* The members: the pool's threads are quit and joined one after the other.
JoinThreads ==
  /\ phase \in {"up", "destructing"} /\ fate = "ok"
  /\ comEntities = {}
  /\ phase' = "joining"
  /\ UNCHANGED <<poolVars, started, comEntities, entityVars, queueVars, loopVars,
                 clientVars, fate>>

\* The pool's loops that run.
Running == {l \in 1 .. poolSize : place[l] # "exited"}

Gone ==
  /\ phase = "joining" /\ fate = "ok"
  /\ Running = {}
  /\ phase' = "gone"
  /\ UNCHANGED <<poolVars, started, comEntities, entityVars, queueVars, loopVars,
                 clientVars, fate>>

(***************************************************************************)
(* A loop.                                                                 *)
(***************************************************************************)

Runs(l) == fate = "ok" /\ l \in {0} \cup 1 .. poolSize

\* poll returns, with some of the channels or, after its timeout, without.  A
\* turn of the loop that would find nothing at all to do is left out.
Poll(l, chans) ==
  /\ Runs(l)
  /\ place[l] = "poll"
  /\ chans \subseteq {n \in reading : home[n] = l}
  /\ chans # {} \/ pending[l] # <<>>
  /\ place' = [place EXCEPT ![l] = "events"]
  /\ active' = [active EXCEPT ![l] = chans]
  /\ UNCHANGED <<poolVars, serverVars, entityVars, queueVars, guard, clientVars, fate>>

\* Channel::handleEvent up to the callback.  The channel is a member of the
\* entity: without the entity there is nothing to look into.
HandleEvent(l, n) ==
  /\ Runs(l)
  /\ place[l] = "events" /\ guard[l] = NoCom
  /\ n \in active[l]
  /\ active' = [active EXCEPT ![l] = @ \ {n}]
  /\ IF Alive(n)
     THEN guard' = [guard EXCEPT ![l] = n] /\ UNCHANGED fate
     ELSE fate' = "channel" /\ UNCHANGED guard
  /\ UNCHANGED <<poolVars, serverVars, entityVars, queueVars, place, clientVars>>

\* handleRead got bytes: the message callback may hand its ComEntityPtr to
\* the client, send or shut down.
MessageCallback(l) ==
  LET n == guard[l]
  IN  /\ Runs(l)
      /\ n # NoCom
      /\ \/ /\ client' = client \cup {n}
            /\ UNCHANGED <<state, pending>>
         \/ /\ state[n] = "opened" /\ SendInLoop(n)
            /\ UNCHANGED <<state, client>>
         \/ /\ state[n] = "opened"
            /\ state' = [state EXCEPT ![n] = "idle"]
            /\ UNCHANGED <<client, pending>>
      /\ UNCHANGED <<poolVars, serverVars, home, reading, batch, ran, loopVars, calls,
                     calling, lateCall, fate>>

\* handleEvent returns; handleClose, handleError and handleWrite are empty.
EventHandled(l) ==
  /\ Runs(l)
  /\ guard[l] # NoCom
  /\ guard' = [guard EXCEPT ![l] = NoCom]
  /\ UNCHANGED <<poolVars, serverVars, entityVars, queueVars, place, active, clientVars, fate>>

\* doPendingFunctors: the swap, and the return if there is nothing to run; each
\* functor; and the return.
Swap(l) ==
  /\ Runs(l)
  /\ place[l] = "events" /\ active[l] = {} /\ guard[l] = NoCom
  /\ place' = [place EXCEPT ![l] = IF pending[l] = <<>> THEN "poll" ELSE "functors"]
  /\ batch' = [batch EXCEPT ![l] = pending[l]]
  /\ pending' = [pending EXCEPT ![l] = <<>>]
  /\ UNCHANGED <<poolVars, serverVars, entityVars, ran, active, guard, clientVars, fate>>

RunFunctor(l) ==
  LET f == batch[l][ran[l] + 1]
  IN  /\ Runs(l)
      /\ place[l] = "functors" /\ ran[l] < Len(batch[l])
      /\ ran' = [ran EXCEPT ![l] = @ + 1]
      /\ \/ /\ ~Alive(f.com)
            /\ fate' = IF l = 0 THEN "baseFunctor" ELSE "functor"
            /\ UNCHANGED <<reading, pending>>
         \/ /\ Alive(f.com) /\ f.kind = "established"
            /\ Establish(f.com, state[f.com])
            /\ UNCHANGED pending
         \/ /\ Alive(f.com) /\ f.kind = "send"
            /\ SendInLoop(f.com)
            /\ UNCHANGED <<reading, fate>>
         \/ /\ Alive(f.com) /\ f.kind \in {"destroyed", "shutdown", "complete"}
            /\ UNCHANGED <<reading, pending, fate>>
      /\ UNCHANGED <<poolVars, serverVars, home, state, batch, loopVars, clientVars>>

FunctorsDone(l) ==
  /\ Runs(l)
  /\ place[l] = "functors" /\ ran[l] = Len(batch[l])
  /\ place' = [place EXCEPT ![l] = "poll"]
  /\ batch' = [batch EXCEPT ![l] = <<>>]
  /\ ran' = [ran EXCEPT ![l] = 0]
  /\ UNCHANGED <<poolVars, serverVars, entityVars, pending, active, guard, clientVars, fate>>

\* The loop of the thread being joined sees quit_ and is destroyed with the
\* functors it did not run.
Exit(l) ==
  /\ Runs(l)
  /\ phase = "joining" /\ l \in Running /\ \A k \in Running : l <= k
  /\ place[l] = "poll"
  /\ place' = [place EXCEPT ![l] = "exited"]
  /\ pending' = [pending EXCEPT ![l] = <<>>]
  /\ UNCHANGED <<poolVars, serverVars, entityVars, batch, ran, active, guard, clientVars, fate>>

(***************************************************************************)
(* The client: send, shutdown, and letting go.                             *)
(***************************************************************************)

\* send and shutdown test state_ ...
ClientCalls(n, kind) ==
  /\ fate = "ok"
  /\ n \in client /\ calling = NoCall /\ calls < MaxCalls
  /\ state[n] = "opened"
  /\ calls' = calls + 1
  /\ calling' = Functor(kind, n)
  /\ UNCHANGED <<poolVars, serverVars, entityVars, queueVars, loopVars, client, lateCall, fate>>

\* ... and post to the entity's loop, whatever has happened since.
ClientPosts ==
  LET n == calling.com
  IN  /\ fate = "ok"
      /\ calling # NoCall
      /\ calling' = NoCall
      /\ lateCall' = (lateCall \/ phase # "up")
      /\ state' = IF calling.kind = "shutdown" THEN [state EXCEPT ![n] = "idle"] ELSE state
      /\ IF place[home[n]] = "exited"
         THEN fate' = "loop" /\ UNCHANGED pending
         ELSE Push(home[n], calling) /\ UNCHANGED fate
      /\ UNCHANGED <<poolVars, serverVars, home, reading, batch, ran, loopVars, client, calls>>

\* A ComEntityPtr is held through a call.
ClientDrops(n) ==
  /\ fate = "ok"
  /\ n \in client /\ n # calling.com
  /\ client' = client \ {n}
  /\ UNCHANGED <<poolVars, serverVars, entityVars, queueVars, loopVars, calls, calling,
                 lateCall, fate>>

LoopStep(l) ==
  \/ \E chans \in SUBSET reading : Poll(l, chans)
  \/ \E n \in active[l] : HandleEvent(l, n)
  \/ EventHandled(l) \/ Swap(l) \/ RunFunctor(l) \/ FunctorsDone(l) \/ Exit(l)

Next ==
  \/ \E k \in 0 .. MaxThreads : SetThreadNum(k)
  \/ Start
  \/ \E n \in Names, opened, got \in BOOLEAN :
       Create(n, SerialInit(opened, got))
  \/ \E n \in Names : DestroyOne(n)
  \/ JoinThreads \/ Gone
  \/ \E l \in Loops : LoopStep(l) \/ MessageCallback(l)
  \/ \E n \in Names, kind \in {"send", "shutdown"} : ClientCalls(n, kind)
  \/ ClientPosts
  \/ \E n \in Names : ClientDrops(n)

Spec == Init /\ [][Next]_vars

-----------------------------------------------------------------------------
Calls == [kind : {"send", "shutdown"}, com : Names]
Functors == [kind : Owning \cup {"send", "shutdown"}, com : Names]

TypeOK ==
  /\ numThreads \in 0 .. MaxThreads /\ poolSize \in 0 .. MaxThreads
  /\ next \in 0 .. MaxThreads
  /\ phase \in {"up", "destructing", "joining", "gone"}
  /\ started \in BOOLEAN
  /\ comEntities \subseteq Names
  /\ home \in [Names -> Loops]
  /\ state \in [Names -> {"none", "idle", "opened", "error"}]
  /\ reading \subseteq Names
  /\ place \in [Loops -> {"poll", "events", "functors", "exited"}]
  /\ active \in [Loops -> SUBSET Names]
  /\ guard \in [Loops -> Names \cup {NoCom}]
  /\ pending \in [Loops -> Seq(Functors)] /\ batch \in [Loops -> Seq(Functors)]
  /\ ran \in [Loops -> Nat]
  /\ client \subseteq Names
  /\ calls \in 0 .. MaxCalls
  /\ calling \in Calls \cup {NoCall}
  /\ lateCall \in BOOLEAN
  /\ fate \in {"ok", "notOpened", "assert", "functor", "baseFunctor", "channel", "loop"}

\* Raw pointers to an entity are good when they are used, although nothing
\* owns the entity for them.  The `this' that send and shutdown post: behind
\* it in the same queue comes comDestroyed, which owns the entity until the
\* end of its batch.  This fails, and the property leaves out, where a client
\* posts once the destructor has begun, be it from a call made before, and
\* where an entity of the base loop is destroyed without queueing.  The
\* Channel* of the poller, which comDestroyed leaves there: until the
\* destructor begins the map owns the entity, through every event, shutdown
\* and late open; after that it dangles.
RawPointersAreGood ==
  /\ fate \in {"functor", "loop"} => lateCall
  /\ fate = "baseFunctor" => phase # "up"
  /\ fate = "channel" => phase # "up"

\* assert(state_ == kOpened) in comEstablished fails for no port that was
\* opened: no shutdown() of it can come before.
EstablishedWhileOpened == fate # "assert"
=============================================================================
