--------------------------- MODULE GatewayProofs ---------------------------
(***************************************************************************)
(* What the gateway's own code promises, for documents of any size, any    *)
(* number of entities, threads and calls: an update of the configuration   *)
(* follows each good item of the file once and in order, and ComServer's   *)
(* raw pointers to entities are good when they are used.                   *)
(***************************************************************************)
EXTENDS ComServer, ConfigMgr, SequenceTheorems, WellFoundedInduction, TLAPS

-----------------------------------------------------------------------------
(***************************************************************************)
(* ConfigMgr.                                                              *)
(***************************************************************************)

\* Between FirstChild or NextSibling and the node they find there is no other.
LEMMA NextItemIsNext ==
  ASSUME NEW d \in Seq(Kinds), NEW i \in 0 .. Len(d)
  PROVE  /\ NextItem(d, i) \in 0 .. Len(d)
         /\ NextItem(d, i) # 0 => NextItem(d, i) > i
         /\ \A j \in i + 1 .. Len(d) :
              d[j] = "other" \/ (NextItem(d, i) # 0 /\ NextItem(d, i) <= j)
  <1> DEFINE later == {j \in i + 1 .. Len(d) : d[j] # "other"}
             less == OpToRel(<, Nat)
             Least(j) == \A k \in later : j <= k
  <1>0. NextItem(d, i) = IF later = {} THEN 0 ELSE CHOOSE j \in later : Least(j)
    BY DEF NextItem
  <1>1. CASE later = {}
    <2>1. NextItem(d, i) = 0
      BY <1>0, <1>1
    <2>2. \A j \in i + 1 .. Len(d) : d[j] = "other"
      BY <1>1
    <2> QED
      BY <2>1, <2>2
  <1>2. CASE later # {}
    <2>1. later \subseteq Nat
      OBVIOUS
    <2>2. PICK x \in later : \A y \in later : ~ (<<y, x>> \in less)
      <3> HIDE DEF later, less
      <3> QED
        BY <1>2, <2>1, WFMin, NatLessThanWellFounded DEF less
    <2>3. \A y \in later : ~ (y < x)
      BY <2>1, <2>2 DEF OpToRel
    <2>4. Least(x)
      BY <2>1, <2>3
    <2> HIDE DEF Least
    <2>5. (CHOOSE j \in later : Least(j)) \in later /\ Least(CHOOSE j \in later : Least(j))
      <3> HIDE DEF later
      <3> QED
        BY <2>4, Zenon
    <2>6. NextItem(d, i) \in later /\ Least(NextItem(d, i))
      BY <1>0, <1>2, <2>5, Zenon
    <2> USE DEF Least
    <2>7. \A j \in i + 1 .. Len(d) : d[j] = "other" \/ NextItem(d, i) <= j
      BY <2>6
    <2>8. NextItem(d, i) \in i + 1 .. Len(d)
      BY <2>6
    <2> QED
      BY <2>7, <2>8
  <1> QED
    BY <1>1, <1>2

\* The positions of the document the loop over the items has passed.
Passed ==
  IF pc = "items" THEN (IF node = 0 THEN 1 .. Len(doc) ELSE 1 .. node - 1)
  ELSE 1 .. node

\* In the loop, the items followed are the good ones among the children passed,
\* and no node that ends the loop was among those.
ConfigIInv ==
  /\ pc \in {"idle", "load", "items", "ports", "fields", "crashed"}
  /\ doc \in Seq(Kinds) /\ node \in 0 .. Len(doc)
  /\ followed \in Seq(Nat)
  /\ pc = "load" => followed = <<>>
  /\ pc \in {"ports", "fields"} => node # 0
  /\ pc \in {"items", "ports", "fields"} =>
       /\ Lists(followed, Expected \cap Passed)
       /\ \A j \in Passed : doc[j] # "comment"
  /\ EachItemFollowed

LEMMA ConfigInitIInv == ConfigInit => ConfigIInv
  <1> SUFFICES ASSUME ConfigInit PROVE ConfigIInv
    OBVIOUS
  <1>1. /\ doc \in Seq(Kinds) /\ Len(doc) = 0
        /\ followed \in Seq(Nat) /\ followed = <<>> /\ DOMAIN followed = {}
    BY EmptySeq DEF ConfigInit
  <1>2. Expected = {}
    BY <1>1 DEF Expected
  <1>3. Lists(followed, Expected)
    BY <1>1, <1>2 DEF Lists
  <1> QED
    BY <1>1, <1>3 DEF ConfigIInv, EachItemFollowed, ConfigInit

\* One more item followed, behind all those followed before it.
LEMMA FollowsOneMore ==
  ASSUME NEW f \in Seq(Nat), NEW n \in Nat, NEW set, Lists(f, set), \A i \in set : i < n
  PROVE  Append(f, n) \in Seq(Nat) /\ Lists(Append(f, n), set \cup {n})
  <1> DEFINE g == Append(f, n)
  <1>1. /\ g \in Seq(Nat) /\ Len(g) = Len(f) + 1
        /\ \A i \in 1 .. Len(f) : g[i] = f[i]
        /\ g[Len(f) + 1] = n
    BY AppendProperties
  <1>2. DOMAIN f = 1 .. Len(f) /\ DOMAIN g = 1 .. Len(f) + 1 /\ Len(f) \in Nat
    BY <1>1, LenProperties
  <1>3. \A i \in DOMAIN f : f[i] < n
    BY DEF Lists
  <1> HIDE DEF g
  <1>4. \A i \in DOMAIN g : i \in DOMAIN f \/ i = Len(f) + 1
    BY <1>2
  <1>5. \A i, j \in DOMAIN g : i < j => g[i] < g[j]
    <2> SUFFICES ASSUME NEW i \in DOMAIN g, NEW j \in DOMAIN g, i < j PROVE g[i] < g[j]
      OBVIOUS
    <2>1. i \in DOMAIN f
      BY <1>2
    <2>2. CASE j \in DOMAIN f
      BY <2>1, <2>2, <1>1, <1>2 DEF Lists
    <2>3. CASE j = Len(f) + 1
      BY <2>1, <2>3, <1>1, <1>2, <1>3
    <2> QED
      BY <1>4, <2>2, <2>3
  <1>6. \A i \in DOMAIN f : i \in DOMAIN g /\ g[i] = f[i]
    BY <1>1, <1>2
  <1>7. Len(f) + 1 \in DOMAIN g
    BY <1>2
  <1>8. {g[i] : i \in DOMAIN g} = {f[i] : i \in DOMAIN f} \cup {n}
    BY <1>1, <1>4, <1>6, <1>7, Zenon
  <1>9. Lists(g, set \cup {n})
    BY <1>5, <1>8 DEF Lists
  <1> QED
    BY <1>1, <1>9 DEF g

\* The loop goes on with the next item: the children in between are others.
LEMMA PassesOthers ==
  ASSUME doc \in Seq(Kinds), node \in 1 .. Len(doc),
         NEW n, n = NextItem(doc, node),
         NEW passed, passed = IF n = 0 THEN 1 .. Len(doc) ELSE 1 .. n - 1
  PROVE  /\ n \in 0 .. Len(doc)
         /\ 1 .. node \subseteq passed
         /\ \A j \in passed : j \in 1 .. node \/ doc[j] = "other"
         /\ Expected \cap passed = Expected \cap 1 .. node
  <1>1. /\ n \in 0 .. Len(doc)
        /\ n # 0 => n > node
        /\ \A j \in node + 1 .. Len(doc) : doc[j] = "other" \/ (n # 0 /\ n <= j)
    BY NextItemIsNext
  <1>2. 1 .. node \subseteq passed
    BY <1>1
  <1>3. \A j \in passed : j \in 1 .. node \/ doc[j] = "other"
    <2> SUFFICES ASSUME NEW j \in passed, j \notin 1 .. node PROVE doc[j] = "other"
      OBVIOUS
    <2>1. j \in node + 1 .. Len(doc) /\ ~ (n # 0 /\ n <= j)
      BY <1>1
    <2> QED
      BY <1>1, <2>1
  <1>4. \A j \in Expected : doc[j] # "other"
    BY DEF Expected
  <1> QED
    BY <1>1, <1>2, <1>3, <1>4

\* The increment of the loop, once the good children among 1 .. node have been
\* followed and if none of them ends the loop.
LEMMA LoopGoesOn ==
  ASSUME ConfigIInv, node # 0, UNCHANGED doc,
         node' = NextItem(doc, node), pc' = "items",
         followed' \in Seq(Nat),
         Lists(followed', Expected \cap 1 .. node),
         \A j \in 1 .. node : doc[j] # "comment"
  PROVE  ConfigIInv'
  <1>0. doc \in Seq(Kinds) /\ node \in 1 .. Len(doc)
    BY DEF ConfigIInv
  <1>1. Expected' = Expected
    BY DEF Expected
  <1>2. Passed' = IF node' = 0 THEN 1 .. Len(doc) ELSE 1 .. node' - 1
    BY DEF Passed
  <1>3. /\ node' \in 0 .. Len(doc)
        /\ \A j \in Passed' : j \in 1 .. node \/ doc[j] = "other"
        /\ Expected \cap Passed' = Expected \cap 1 .. node
    BY <1>0, <1>2, PassesOthers
  <1>4. \A j \in Passed' : doc[j] # "comment"
    BY <1>3
  <1> QED
    BY <1>0, <1>1, <1>3, <1>4 DEF ConfigIInv, EachItemFollowed

\* Up to a node that ends the loop, or with the loop at its end, the good items
\* among the children passed are all that are expected.
LEMMA AllPassed ==
  ASSUME doc \in Seq(Kinds), node \in 0 .. Len(doc), pc = "items",
         node # 0 => doc[node] = "comment"
  PROVE  Expected \cap Passed = Expected
  <1>1. CASE node = 0
    BY <1>1 DEF Expected, Passed
  <1>2. CASE node # 0
    <2>1. \A i \in Expected : i < node
      BY <1>2 DEF Expected
    <2> QED
      BY <1>2, <2>1 DEF Expected, Passed
  <1> QED
    BY <1>1, <1>2

LEMMA ConfigStep == ConfigIInv /\ [ConfigNext]_configVars => ConfigIInv'
  <1> SUFFICES ASSUME ConfigIInv, [ConfigNext]_configVars PROVE ConfigIInv'
    OBVIOUS
  <1>0. doc \in Seq(Kinds) /\ Len(doc) \in Nat /\ node \in 0 .. Len(doc) /\ followed \in Seq(Nat)
    BY DEF ConfigIInv
  <1>1. CASE UNCHANGED <<pc, doc, node, followed>>
    BY <1>1 DEF ConfigIInv, EachItemFollowed, Expected, Passed
  <1>2. CASE Update
    BY <1>2, EmptySeq DEF Update, ConfigIInv, EachItemFollowed
  <1>3. CASE LoadGlobal
    <2>0. followed = <<>> /\ UNCHANGED followed /\ DOMAIN followed = {}
      BY <1>3, EmptySeq DEF LoadGlobal, ConfigIInv
    <2>1. Lists(followed, {})
      BY <2>0 DEF Lists
    <2>2. CASE pc' \in {"idle", "crashed"} /\ doc' = <<>> /\ node' = 0
      <3>1. doc' \in Seq(Kinds) /\ Len(doc') = 0
        BY <2>2, EmptySeq
      <3>2. Expected' = {}
        BY <3>1 DEF Expected
      <3> QED
        BY <1>0, <2>0, <2>1, <2>2, <3>1, <3>2 DEF ConfigIInv, EachItemFollowed
    <2>3. CASE doc' \in GlobalDocs /\ node' = NextItem(doc', 0) /\ pc' = "items"
      <3>1. doc' \in Seq(Kinds) /\ 0 \in 0 .. Len(doc')
        BY <2>3, DocsAssumption
      <3>2. /\ node' \in 0 .. Len(doc')
            /\ \A j \in 1 .. Len(doc') : doc'[j] = "other" \/ (node' # 0 /\ node' <= j)
        BY <2>3, <3>1, NextItemIsNext
      <3>3. \A j \in Passed' : doc'[j] = "other"
        BY <2>3, <3>1, <3>2 DEF Passed
      <3>4. (Expected \cap Passed)' = {}
        BY <3>3 DEF Expected
      <3>5. \A j \in Passed' : doc'[j] # "comment"
        BY <3>3
      <3> QED
        BY <1>0, <2>0, <2>1, <2>3, <3>1, <3>2, <3>4, <3>5 DEF ConfigIInv, EachItemFollowed
    <2> QED
      BY <1>3, <2>2, <2>3 DEF LoadGlobal
  <1>4. CASE SkipItem
    <2>0. /\ pc = "items" /\ node # 0 /\ UNCHANGED <<doc, followed>>
          /\ Lists(followed, Expected \cap Passed)
          /\ \A j \in Passed : doc[j] # "comment"
          /\ Passed = 1 .. node - 1
      BY <1>4 DEF SkipItem, ConfigIInv, Passed
    <2>1. CASE doc[node] = "comment"
      <3>1. Expected \cap Passed = Expected
        BY <1>0, <2>0, <2>1, AllPassed
      <3>2. Expected' = Expected
        BY <2>0 DEF Expected
      <3>3. pc' = "idle" /\ node' = node
        BY <1>4, <2>1 DEF SkipItem, GoOn
      <3> QED
        BY <1>0, <2>0, <3>1, <3>2, <3>3 DEF ConfigIInv, EachItemFollowed
    <2>2. CASE doc[node] \in {"bad", "unknown"}
      <3>1. node' = NextItem(doc, node) /\ pc' = "items"
        BY <1>4, <2>0, <2>2 DEF SkipItem, GoOn
      <3>2. node \notin Expected
        BY <2>2 DEF Expected
      <3>3. \A j \in 1 .. node : j \in Passed \/ j = node
        BY <1>0, <2>0
      <3>4. Expected \cap Passed = Expected \cap 1 .. node
        BY <1>0, <2>0, <3>2, <3>3
      <3>5. \A j \in 1 .. node : doc[j] # "comment"
        BY <2>0, <2>2, <3>3
      <3> QED
        BY <1>0, <2>0, <3>1, <3>4, <3>5, LoopGoesOn
    <2> QED
      BY <1>4, <2>1, <2>2 DEF SkipItem
  <1>5. ASSUME pc = "items", node # 0, followed' = Append(followed, node),
               doc[node] \in {"ComConfig", "DBConfig", "MonitorUnitConfig"}
        PROVE  /\ followed' \in Seq(Nat)
               /\ Lists(followed', Expected \cap 1 .. node)
               /\ \A j \in 1 .. node : doc[j] # "comment"
    <2>1. /\ Lists(followed, Expected \cap Passed)
          /\ \A j \in Passed : doc[j] # "comment"
          /\ Passed = 1 .. node - 1
      BY <1>5 DEF ConfigIInv, Passed
    <2>2. \A j \in 1 .. node : j \in Passed \/ j = node
      BY <1>0, <2>1
    <2>3. \A j \in 1 .. node : doc[j] # "comment"
      BY <1>5, <2>1, <2>2
    <2>4. node \in Expected
      BY <1>0, <1>5, <2>3 DEF Expected
    <2>5. Expected \cap 1 .. node = (Expected \cap Passed) \cup {node}
      BY <1>0, <1>5, <2>1, <2>2, <2>4
    <2>6. \A j \in Expected \cap Passed : j < node
      BY <1>0, <2>1
    <2> QED
      BY <1>0, <1>5, <2>1, <2>3, <2>5, <2>6, FollowsOneMore
  <1>6. CASE ParseDBConfig \/ ParseMonitorUnitConfig
    <2>1. /\ pc = "items" /\ node # 0 /\ followed' = Append(followed, node)
          /\ doc[node] \in {"DBConfig", "MonitorUnitConfig"}
          /\ UNCHANGED <<doc, pc>> /\ node' = NextItem(doc, node)
      BY <1>6 DEF ParseDBConfig, ParseMonitorUnitConfig, ParseNameOnly, GoOn
    <2> QED
      BY <1>5, <2>1, LoopGoesOn
  <1>7. CASE LoadCom
    <2>0. /\ pc = "items" /\ node # 0 /\ followed' = Append(followed, node)
          /\ doc[node] = "ComConfig" /\ UNCHANGED doc
      BY <1>7 DEF LoadCom
    <2>1. CASE GoOn("ComConfig")
      <3>1. node' = NextItem(doc, node) /\ pc' = "items"
        BY <2>0, <2>1 DEF GoOn
      <3> QED
        BY <1>5, <2>0, <3>1, LoopGoesOn
    <2>2. CASE pc' \in {"crashed", "ports"} /\ UNCHANGED node
      <3>1. Passed' = 1 .. node /\ Expected' = Expected
        BY <2>0, <2>2 DEF Passed, Expected
      <3>2. /\ followed' \in Seq(Nat)
            /\ Lists(followed', Expected \cap 1 .. node)
            /\ \A j \in 1 .. node : doc[j] # "comment"
        BY <1>5, <2>0
      <3> QED
        BY <1>0, <2>0, <2>2, <3>1, <3>2 DEF ConfigIInv, EachItemFollowed
    <2> QED
      BY <1>7, <2>1, <2>2 DEF LoadCom
  <1>8. CASE ItemsDone
    <2>0. pc = "items" /\ node = 0 /\ pc' = "idle" /\ UNCHANGED <<doc, node, followed>>
      BY <1>8 DEF ItemsDone
    <2>1. Expected \cap Passed = Expected /\ Expected' = Expected
      BY <1>0, <2>0, AllPassed DEF Expected
    <2> QED
      BY <1>0, <2>0, <2>1 DEF ConfigIInv, EachItemFollowed
  <1>9. CASE NextPort
    <2>0. pc = "ports" /\ node # 0 /\ UNCHANGED <<doc, followed>> /\ Passed = 1 .. node
      BY <1>9 DEF NextPort, ConfigIInv, Passed
    <2>1. Lists(followed, Expected \cap 1 .. node) /\ \A j \in 1 .. node : doc[j] # "comment"
      BY <2>0 DEF ConfigIInv
    <2>2. CASE comNode = 0
      <3>1. node' = NextItem(doc, node) /\ pc' = "items"
        BY <1>9, <2>2 DEF NextPort
      <3> QED
        BY <1>0, <2>0, <2>1, <3>1, LoopGoesOn
    <2>3. CASE comNode # 0
      <3>1. pc' = "fields" /\ UNCHANGED node
        BY <1>9, <2>3 DEF NextPort
      <3>2. Passed' = 1 .. node /\ Expected' = Expected
        BY <2>0, <3>1 DEF Passed, Expected
      <3> QED
        BY <1>0, <2>0, <2>1, <3>1, <3>2 DEF ConfigIInv, EachItemFollowed
    <2> QED
      BY <2>2, <2>3
  <1>10. CASE ReadField \/ MakePort
    <2>0. /\ pc = "fields" /\ node # 0 /\ UNCHANGED <<doc, node, followed>>
          /\ pc' \in {"fields", "crashed", "ports"}
      BY <1>10 DEF ReadField, MakePort, ConfigIInv
    <2>1. Passed = 1 .. node /\ Passed' = 1 .. node /\ Expected' = Expected
      BY <2>0 DEF Passed, Expected
    <2> QED
      BY <1>0, <2>0, <2>1 DEF ConfigIInv, EachItemFollowed
  <1> QED
    BY <1>1, <1>2, <1>3, <1>4, <1>6, <1>7, <1>8, <1>9, <1>10
    DEF ConfigNext, Parse, SetConfigUpdateCallback, configVars

\* An update that returns has followed each good item of the global document,
\* up to the first node that is not an element, once and in the order of the
\* file, however long the document is and whatever stands beside the items.
THEOREM ItemsFollowed == ConfigSpec => []EachItemFollowed
  <1>1. ConfigIInv => EachItemFollowed
    BY DEF ConfigIInv
  <1> QED
    BY <1>1, ConfigInitIInv, ConfigStep, PTL DEF ConfigSpec

-----------------------------------------------------------------------------
(***************************************************************************)
(* ComServer.                                                              *)
(***************************************************************************)

\* getNextLoop() stays within the pool, which start() fills.
NextInPool ==
  /\ next = 0 \/ next < poolSize
  /\ ~started => poolSize = 0

\* Every entity anyone refers to has been made, and until the destructor begins
\* the map holds all that have been.
OnlyCreated ==
  /\ comEntities \subseteq Created
  /\ phase = "up" => comEntities = Created
  /\ reading \subseteq Created
  /\ \A l \in Loops : \A i \in DOMAIN pending[l] : pending[l][i].com \in Created
  /\ \A l \in Loops : \A i \in DOMAIN batch[l] : batch[l][i].com \in Created

\* A callback, and with it the client, is only reached through the poller.
HeldWereRead ==
  /\ client \subseteq reading
  /\ \A l \in Loops : active[l] \subseteq reading
  /\ \A l \in Loops : guard[l] # NoCom => guard[l] \in reading
  /\ calling # NoCall => calling.com \in client

\* The functors of an entity are in the queue of its loop.
AtHome ==
  /\ \A l \in Loops : \A i \in DOMAIN pending[l] : home[pending[l][i].com] = l
  /\ \A l \in Loops : \A i \in DOMAIN batch[l] : home[batch[l][i].com] = l

LoopPlaces ==
  /\ \A l \in Loops : place[l] # "functors" => batch[l] = <<>> /\ ran[l] = 0
  /\ \A l \in Loops : ran[l] <= Len(batch[l])
  /\ \A l \in Loops : place[l] = "exited" => phase \in {"joining", "gone"}

\* In a loop of the pool, what is queued has its entity in the map or an owner
\* in the same queue; what runs has it in the map, an owner in its batch, which
\* lasts as long as the batch, or comDestroyed queued meanwhile.
QueuesKeep ==
  \A l \in Loops \ {0} :
    /\ \A i \in DOMAIN pending[l] :
         pending[l][i].com \in comEntities \/ Owns(pending[l], pending[l][i].com)
    /\ \A i \in DOMAIN batch[l] :
         \/ batch[l][i].com \in comEntities
         \/ Owns(pending[l], batch[l][i].com) \/ Owns(batch[l], batch[l][i].com)

IsEstablished(q, i) == q[i].kind = "established"

\* comEstablished is queued once per entity, and before it has run nobody can
\* have got hold of the entity to shut it down.
EstablishedOnce ==
  \A l \in Loops :
    /\ \A i \in DOMAIN pending[l] : IsEstablished(pending[l], i) =>
         /\ pending[l][i].com \notin reading
         /\ state[pending[l][i].com] \in {"opened", "error"}
         /\ \A j \in DOMAIN pending[l] :
              IsEstablished(pending[l], j) /\ pending[l][j].com = pending[l][i].com => i = j
         /\ \A j \in DOMAIN batch[l] :
              IsEstablished(batch[l], j) => batch[l][j].com # pending[l][i].com
    /\ \A i \in DOMAIN batch[l] : IsEstablished(batch[l], i) =>
         /\ i > ran[l] => /\ batch[l][i].com \notin reading
                          /\ state[batch[l][i].com] \in {"opened", "error"}
         /\ \A j \in DOMAIN batch[l] :
              IsEstablished(batch[l], j) /\ batch[l][j].com = batch[l][i].com => i = j

\* While no pointer has dangled and no assert failed.
ServerDetails ==
  /\ NextInPool /\ OnlyCreated /\ HeldWereRead /\ AtHome /\ LoopPlaces
  /\ ~lateCall => QueuesKeep
  /\ EstablishedOnce

ServerIInv ==
  /\ TypeOK
  /\ RawPointersAreGood
  /\ EstablishedWhileOpened
  /\ fate = "ok" => ServerDetails

LEMMA ServerInitIInv == Init => ServerIInv
  <1> SUFFICES ASSUME Init PROVE ServerIInv
    OBVIOUS
  <1>0. /\ <<>> \in Seq(Functors) /\ Len(<<>>) = 0 /\ DOMAIN <<>> = {}
        /\ 0 \in Loops /\ 0 \in 0 .. MaxThreads /\ 0 \in 0 .. MaxCalls
    BY EmptySeq, MaxThreadsAssumption, ComAssumption DEF Loops
  <1>1. TypeOK
    BY <1>0 DEF Init, PoolInit, TypeOK
  <1>2. \A l \in Loops : /\ pending[l] = <<>> /\ batch[l] = <<>> /\ ran[l] = 0
                         /\ place[l] = "poll" /\ active[l] = {} /\ guard[l] = NoCom
    BY DEF Init
  <1>3. Created = {}
    BY DEF Init, Created
  <1>4. /\ next = 0 /\ poolSize = 0 /\ comEntities = {} /\ reading = {} /\ client = {}
        /\ calling = NoCall /\ fate = "ok"
    BY DEF Init, PoolInit
  <1>5. NextInPool /\ OnlyCreated /\ HeldWereRead /\ AtHome /\ EstablishedOnce
    BY <1>0, <1>2, <1>3, <1>4
    DEF NextInPool, OnlyCreated, HeldWereRead, AtHome, EstablishedOnce
  <1>6. LoopPlaces /\ QueuesKeep
    BY <1>0, <1>2 DEF LoopPlaces, QueuesKeep
  <1> QED
    BY <1>1, <1>4, <1>5, <1>6
    DEF ServerIInv, ServerDetails, RawPointersAreGood, EstablishedWhileOpened

\* What queueInLoop does to the queues.
LEMMA PushQueues ==
  ASSUME TypeOK, NEW l \in Loops, NEW f \in Functors, Push(l, f)
  PROVE  /\ pending' \in [Loops -> Seq(Functors)]
         /\ \A k \in Loops : \A i \in DOMAIN pending'[k] :
              \/ i \in DOMAIN pending[k] /\ pending'[k][i] = pending[k][i]
              \/ k = l /\ i = Len(pending[l]) + 1 /\ pending'[k][i] = f
         /\ \A k \in Loops : \A i \in DOMAIN pending[k] :
              i \in DOMAIN pending'[k] /\ pending'[k][i] = pending[k][i]
         /\ Len(pending[l]) + 1 \in DOMAIN pending'[l]
         /\ pending'[l][Len(pending[l]) + 1] = f
  <1> DEFINE q == pending[l]
             r == Append(q, f)
  <1>0. pending \in [Loops -> Seq(Functors)] /\ q \in Seq(Functors)
    BY DEF TypeOK
  <1>1. pending'[l] = r /\ \A k \in Loops \ {l} : pending'[k] = pending[k]
    BY <1>0 DEF Push
  <1>2. /\ r \in Seq(Functors) /\ Len(r) = Len(q) + 1
        /\ \A i \in 1 .. Len(q) : r[i] = q[i]
        /\ r[Len(q) + 1] = f
    BY <1>0, AppendProperties
  <1>3. pending' \in [Loops -> Seq(Functors)]
    BY <1>0, <1>2 DEF Push
  <1> HIDE DEF q, r
  <1>4. DOMAIN q = 1 .. Len(q) /\ DOMAIN r = 1 .. Len(q) + 1 /\ Len(q) \in Nat
    BY <1>0, <1>2, LenProperties
  <1>a. \A i \in 1 .. Len(q) + 1 : i \in 1 .. Len(q) \/ i = Len(q) + 1
    BY <1>4
  <1>b. 1 .. Len(q) \subseteq 1 .. Len(q) + 1 /\ Len(q) + 1 \in 1 .. Len(q) + 1
    BY <1>4
  <1>5. /\ \A i \in DOMAIN r : \/ i \in DOMAIN q /\ r[i] = q[i]
                               \/ i = Len(q) + 1 /\ r[i] = f
        /\ \A i \in DOMAIN q : i \in DOMAIN r /\ r[i] = q[i]
        /\ Len(q) + 1 \in DOMAIN r
    BY <1>2, <1>4, <1>a, <1>b, Zenon
  <1> USE DEF q
  <1>6. ASSUME NEW k \in Loops
        PROVE  /\ \A i \in DOMAIN pending'[k] :
                    \/ i \in DOMAIN pending[k] /\ pending'[k][i] = pending[k][i]
                    \/ k = l /\ i = Len(pending[l]) + 1 /\ pending'[k][i] = f
               /\ \A i \in DOMAIN pending[k] :
                    i \in DOMAIN pending'[k] /\ pending'[k][i] = pending[k][i]
    <2>1. CASE k = l
      BY <1>1, <1>5, <2>1
    <2>2. CASE k # l
      BY <1>1, <2>2
    <2> QED
      BY <2>1, <2>2
  <1>7. /\ Len(pending[l]) + 1 \in DOMAIN pending'[l]
        /\ pending'[l][Len(pending[l]) + 1] = f
    BY <1>1, <1>2, <1>5
  <1> QED
    BY <1>3, <1>6, <1>7

LEMMA NextLoopInPool ==
  ASSUME TypeOK, NextInPool
  PROVE  NextLoop \in Loops /\ NextLoop \in {0} \cup 1 .. poolSize
  <1>1. poolSize \in Nat /\ poolSize <= MaxThreads /\ next \in Nat
    BY MaxThreadsAssumption DEF TypeOK
  <1>2. CASE poolSize = 0
    BY <1>2, MaxThreadsAssumption DEF NextLoop, Loops
  <1>3. CASE poolSize # 0
    <2>1. NextLoop = next + 1 /\ next + 1 <= poolSize
      BY <1>1, <1>3 DEF NextLoop, NextInPool
    <2> QED
      BY <1>1, <2>1, MaxThreadsAssumption DEF Loops
  <1> QED
    BY <1>2, <1>3

LEMMA ServerTypes ==
  ASSUME ServerIInv, Next
  PROVE  TypeOK'
  <1> USE DEF TypeOK
  <1>0. TypeOK
    BY DEF ServerIInv
  <1>a. ASSUME NEW k, NEW n \in Names, NEW kind \in Owning \cup {"send", "shutdown"},
               Push(home[n], Functor(kind, n))
        PROVE  pending' \in [Loops -> Seq(Functors)]
    <2>1. home[n] \in Loops /\ Functor(kind, n) \in Functors
      BY <1>0 DEF Functor, Functors
    <2> QED
      BY <1>0, <1>a, <2>1, PushQueues
  <1>1. CASE \E k \in 0 .. MaxThreads : SetThreadNum(k)
    BY <1>0, <1>1 DEF SetThreadNum, PoolSetThreadNum, serverVars, entityVars, queueVars,
                      loopVars, clientVars
  <1>2. CASE Start
    BY <1>0, <1>2 DEF Start, PoolStart, entityVars, queueVars, loopVars, clientVars
  <1>3. ASSUME NEW n \in Names, NEW opens \in BOOLEAN, Create(n, opens)
        PROVE  TypeOK'
    <2>0. fate = "ok" /\ NextInPool
      BY <1>3 DEF Create, ServerIInv, ServerDetails
    <2>1. NextLoop \in Loops /\ next' \in 0 .. MaxThreads
      BY <1>0, <1>3, <2>0, NextLoopInPool, MaxThreadsAssumption
      DEF Create, Advance, NextInPool
    <2>2. pending' \in [Loops -> Seq(Functors)]
      <3>1. Functor("established", n) \in Functors
        BY DEF Functor, Functors, Owning
      <3>2. CASE UNCHANGED pending
        BY <1>0, <3>2
      <3>3. CASE Push(NextLoop, Functor("established", n))
        BY <1>0, <2>1, <3>1, <3>3, PushQueues
      <3> QED
        BY <1>3, <3>2, <3>3 DEF Create
    <2>3. reading' \subseteq Names /\ fate' \in {"ok", "notOpened", "assert"}
      BY <1>0, <1>3, <2>0 DEF Create, Establish
    <2>4. /\ home' \in [Names -> Loops]
          /\ state' \in [Names -> {"none", "idle", "opened", "error"}]
          /\ comEntities' \subseteq Names
      BY <1>0, <1>3, <2>1 DEF Create, StateOf
    <2> QED
      BY <1>0, <1>3, <2>1, <2>2, <2>3, <2>4 DEF Create, Advance, loopVars, clientVars
  <1>4. ASSUME NEW n \in Names, DestroyOne(n)
        PROVE  TypeOK'
    <2>1. pending' \in [Loops -> Seq(Functors)]
      BY <1>0, <1>4, <1>a DEF DestroyOne, Owning
    <2> QED
      BY <1>0, <1>4, <2>1 DEF DestroyOne, poolVars, entityVars, loopVars, clientVars
  <1>5. CASE JoinThreads \/ Gone
    BY <1>0, <1>5 DEF JoinThreads, Gone, poolVars, entityVars, queueVars, loopVars, clientVars
  <1>6. ASSUME NEW l \in Loops, MessageCallback(l)
        PROVE  TypeOK'
    <2>0. guard[l] \in Names
      BY <1>0, <1>6 DEF MessageCallback
    <2>1. pending' \in [Loops -> Seq(Functors)]
      BY <1>0, <1>6, <1>a, <2>0 DEF MessageCallback, SendInLoop, Owning
    <2>2. client' \subseteq Names /\ state' \in [Names -> {"none", "idle", "opened", "error"}]
      BY <1>0, <1>6, <2>0 DEF MessageCallback
    <2> QED
      BY <1>0, <1>6, <2>1, <2>2 DEF MessageCallback, poolVars, serverVars, loopVars
  <1>7. ASSUME NEW l \in Loops, LoopStep(l)
        PROVE  TypeOK'
    <2>1. ASSUME NEW chans \in SUBSET reading, Poll(l, chans) PROVE TypeOK'
      BY <1>0, <2>1 DEF Poll, poolVars, serverVars, entityVars, queueVars, clientVars
    <2>2. ASSUME NEW n \in active[l], HandleEvent(l, n) PROVE TypeOK'
      <3>1. n \in Names
        BY <1>0
      <3> QED
        BY <1>0, <2>2, <3>1
        DEF HandleEvent, poolVars, serverVars, entityVars, queueVars, clientVars
    <2>3. CASE EventHandled(l)
      BY <1>0, <2>3 DEF EventHandled, poolVars, serverVars, entityVars, queueVars, clientVars
    <2>4. CASE Swap(l)
      BY <1>0, <2>4, EmptySeq DEF Swap, poolVars, serverVars, entityVars, clientVars
    <2>5. CASE RunFunctor(l)
      <3> DEFINE f == batch[l][ran[l] + 1]
      <3>0. ran \in [Loops -> Nat] /\ ran[l] \in Nat /\ ran[l] < Len(batch[l])
        BY <1>0, <2>5 DEF RunFunctor
      <3>1. ran[l] + 1 \in 1 .. Len(batch[l]) /\ batch[l] \in Seq(Functors)
        BY <1>0, <3>0
      <3>2. f \in Functors
        BY <3>1
      <3>3. f.com \in Names
        BY <3>2 DEF Functors
      <3> HIDE DEF f
      <3>4. pending' \in [Loops -> Seq(Functors)]
        <4>1. UNCHANGED pending \/ Push(home[f.com], Functor("complete", f.com))
          BY <2>5 DEF RunFunctor, SendInLoop, f
        <4> QED
          BY <1>0, <1>a, <3>3, <4>1 DEF Owning
      <3>5. reading' \subseteq Names
           /\ fate' \in {"ok", "notOpened", "assert", "functor", "baseFunctor", "channel", "loop"}
        BY <1>0, <2>5, <3>3 DEF RunFunctor, Establish, f
      <3>6. ran' \in [Loops -> Nat]
        <4>1. ran' = [ran EXCEPT ![l] = ran[l] + 1] /\ ran[l] + 1 \in Nat
          BY <2>5, <3>0 DEF RunFunctor
        <4> QED
          BY <3>0, <4>1
      <3> QED
        BY <1>0, <2>5, <3>4, <3>5, <3>6
        DEF RunFunctor, poolVars, serverVars, loopVars, clientVars
    <2>6. CASE FunctorsDone(l)
      BY <1>0, <2>6, EmptySeq
      DEF FunctorsDone, poolVars, serverVars, entityVars, clientVars
    <2>7. CASE Exit(l)
      BY <1>0, <2>7, EmptySeq DEF Exit, poolVars, serverVars, entityVars, clientVars
    <2> QED
      BY <1>7, <2>1, <2>2, <2>3, <2>4, <2>5, <2>6, <2>7 DEF LoopStep
  <1>8. CASE ClientPosts
    <2>0. calling \in Functors /\ calling.com \in Names
      BY <1>0, <1>8 DEF ClientPosts, Functors, Calls
    <2>1. pending' \in [Loops -> Seq(Functors)]
      <3>1. home[calling.com] \in Loops
        BY <1>0, <2>0
      <3>2. UNCHANGED pending \/ Push(home[calling.com], calling)
        BY <1>8 DEF ClientPosts
      <3> QED
        BY <1>0, <2>0, <3>1, <3>2, PushQueues
    <2>2. state' \in [Names -> {"none", "idle", "opened", "error"}]
      BY <1>0, <1>8, <2>0 DEF ClientPosts
    <2>3. fate' \in {"ok", "loop"} /\ lateCall' \in BOOLEAN /\ calling' = NoCall
      BY <1>0, <1>8 DEF ClientPosts
    <2> QED
      BY <1>0, <1>8, <2>1, <2>2, <2>3 DEF ClientPosts, poolVars, serverVars, loopVars
  <1>c. ASSUME NEW n \in Names, NEW kind \in {"send", "shutdown"}, ClientCalls(n, kind)
        PROVE  TypeOK'
    <2>1. calls' \in 0 .. MaxCalls
      BY <1>0, <1>c, ComAssumption DEF ClientCalls
    <2>2. calling' \in Calls
      BY <1>c DEF ClientCalls, Functor, Calls
    <2> QED
      BY <1>0, <1>c, <2>1, <2>2
      DEF ClientCalls, poolVars, serverVars, entityVars, queueVars, loopVars
  <1>9. ASSUME NEW n \in Names, ClientDrops(n)
        PROVE  TypeOK'
    BY <1>0, <1>9 DEF ClientDrops, poolVars, serverVars, entityVars, queueVars, loopVars
  <1>10. \A opened, got \in BOOLEAN : SerialInit(opened, got) \in BOOLEAN
    BY DEF SerialInit
  <1> QED
    BY <1>1, <1>2, <1>3, <1>4, <1>5, <1>6, <1>7, <1>8, <1>9, <1>10, <1>c DEF Next

LEMMA ServerRuns == ServerIInv /\ Next => fate = "ok" /\ TypeOK /\ ServerDetails
  BY DEF ServerIInv, Next, SetThreadNum, Start, Create, DestroyOne, JoinThreads, Gone, LoopStep,
         MessageCallback, Runs, Poll, HandleEvent, EventHandled, Swap, RunFunctor, FunctorsDone,
         Exit, ClientCalls, ClientPosts, ClientDrops

\* The functor about to run.
LEMMA FunctorToRun ==
  ASSUME TypeOK, NEW l \in Loops, RunFunctor(l)
  PROVE  /\ ran[l] \in Nat /\ ran[l] + 1 \in DOMAIN batch[l]
         /\ batch[l][ran[l] + 1] \in Functors
         /\ batch[l][ran[l] + 1].com \in Names
  <1>1. ran[l] \in Nat /\ batch[l] \in Seq(Functors)
    BY DEF TypeOK
  <1>2. ran[l] < Len(batch[l])
    BY DEF RunFunctor
  <1>3. ran[l] + 1 \in 1 .. Len(batch[l])
    BY <1>1, <1>2
  <1>4. ran[l] + 1 \in DOMAIN batch[l] /\ batch[l][ran[l] + 1] \in Functors
    BY <1>1, <1>3
  <1> QED
    BY <1>1, <1>4 DEF Functors

LEMMA ServerSafeStep ==
  ASSUME ServerIInv, Next
  PROVE  RawPointersAreGood' /\ EstablishedWhileOpened'
  <1> USE DEF RawPointersAreGood, EstablishedWhileOpened
  <1>0. fate = "ok" /\ TypeOK /\ ServerDetails
    BY ServerRuns
  <1>1. CASE UNCHANGED fate
    BY <1>0, <1>1
  <1>2. ASSUME NEW n \in Names, NEW opens \in BOOLEAN, Create(n, opens), fate' # fate
        PROVE  fate' = "notOpened"
    <2>1. state'[n] = StateOf(opens)
      BY <1>0, <1>2 DEF Create, TypeOK
    <2>2. state'[n] \in {"opened", "error"}
      BY <2>1 DEF StateOf
    <2> QED
      BY <1>2, <2>2 DEF Create, Establish
  <1>3. ASSUME NEW l \in Loops, NEW n \in active[l], HandleEvent(l, n), fate' # fate
        PROVE  fate' = "channel" /\ phase' # "up"
    <2>1. fate' = "channel" /\ ~Alive(n) /\ phase' = phase
      BY <1>3 DEF HandleEvent, serverVars
    <2>2. n \in Created
      BY <1>0 DEF ServerDetails, HeldWereRead, OnlyCreated
    <2>3. n \notin comEntities
      BY <2>1 DEF Alive
    <2> QED
      BY <1>0, <2>1, <2>2, <2>3 DEF ServerDetails, OnlyCreated
  <1>4. ASSUME NEW l \in Loops, RunFunctor(l), fate' # fate
        PROVE  \/ fate' = "functor" /\ lateCall'
               \/ fate' = "baseFunctor" /\ phase' # "up"
               \/ fate' = "notOpened"
    <2> DEFINE f == batch[l][ran[l] + 1]
    <2>0. ran[l] + 1 \in DOMAIN batch[l] /\ f.com \in Names /\ ran[l] \in Nat
      BY <1>0, <1>4, FunctorToRun
    <2>1. UNCHANGED <<lateCall, phase>>
      BY <1>4 DEF RunFunctor, serverVars, clientVars
    <2>2. CASE ~Alive(f.com)
      <3>1. fate' = IF l = 0 THEN "baseFunctor" ELSE "functor"
        BY <1>4, <2>2 DEF RunFunctor
      <3>2. /\ f.com \notin comEntities
            /\ ~Owns(pending[l], f.com) /\ ~Owns(batch[l], f.com)
        BY <2>2 DEF Alive
      <3>3. l # 0 => ~QueuesKeep
        BY <2>0, <3>2 DEF QueuesKeep
      <3>4. phase # "up"
        BY <1>0, <2>0, <3>2 DEF ServerDetails, OnlyCreated
      <3> QED
        BY <1>0, <2>1, <3>1, <3>3, <3>4 DEF ServerDetails
    <2>3. CASE Alive(f.com)
      <3>1. f.kind = "established" /\ Establish(f.com, state[f.com])
        BY <1>4, <2>3 DEF RunFunctor
      <3>2. state[f.com] \in {"opened", "error"}
        BY <1>0, <2>0, <3>1 DEF ServerDetails, EstablishedOnce, IsEstablished
      <3> QED
        BY <1>4, <3>1, <3>2 DEF Establish
    <2> QED
      BY <2>2, <2>3
  <1>5. ASSUME ClientPosts, fate' # fate
        PROVE  fate' = "loop" /\ lateCall'
    <2>1. /\ fate' = "loop" /\ place[home[calling.com]] = "exited"
          /\ lateCall' = (lateCall \/ phase # "up")
      BY <1>5 DEF ClientPosts
    <2>2. home[calling.com] \in Loops
      BY <1>0, <1>5 DEF TypeOK, ClientPosts, Calls
    <2>3. phase # "up"
      BY <1>0, <2>1, <2>2 DEF ServerDetails, LoopPlaces
    <2> QED
      BY <2>1, <2>3
  <1>6. \A opened, got \in BOOLEAN : SerialInit(opened, got) \in BOOLEAN
    BY DEF SerialInit
  <1>7. CASE \E n \in Names, opened, got \in BOOLEAN :
               Create(n, SerialInit(opened, got))
    BY <1>1, <1>2, <1>6, <1>7
  <1>8. CASE \E l \in Loops : \/ \E n \in active[l] : HandleEvent(l, n)
                              \/ RunFunctor(l)
    BY <1>1, <1>3, <1>4, <1>8
  <1>9. CASE ClientPosts
    BY <1>1, <1>5, <1>9
  <1> QED
    BY <1>1, <1>7, <1>8, <1>9
    DEF Next, SetThreadNum, Start, DestroyOne, JoinThreads, Gone, LoopStep, MessageCallback,
        Poll, EventHandled, Swap, FunctorsDone, Exit, ClientCalls, ClientDrops

\* A functor other than comEstablished is queued for an entity that has been
\* made.  It is kept if it owns the entity or the map still does.
LEMMA PushKeeps ==
  ASSUME TypeOK, ServerDetails, NEW n \in Created,
         NEW kind \in {"destroyed", "complete", "send", "shutdown"},
         Push(home[n], Functor(kind, n)),
         UNCHANGED <<home, batch, reading>>, Created' = Created,
         \A m \in Names \ reading : state'[m] = state[m],
         \A l \in Loops : ran'[l] \in Nat /\ ran[l] <= ran'[l],
         comEntities \ {n} \subseteq comEntities'
  PROVE  /\ AtHome' /\ EstablishedOnce'
         /\ QueuesKeep /\ (kind \in Owning \/ n \in comEntities') => QueuesKeep'
         /\ \A l \in Loops : \A i \in DOMAIN pending'[l] : pending'[l][i].com \in Created
  <1> DEFINE h == home[n]
             f == Functor(kind, n)
             last == Len(pending[h]) + 1
  <1>0. n \in Names /\ h \in Loops /\ f \in Functors /\ f.kind = kind /\ f.com = n
    BY DEF Created, TypeOK, Functor, Functors, Owning
  <1>1. /\ \A k \in Loops : \A i \in DOMAIN pending'[k] :
             \/ i \in DOMAIN pending[k] /\ pending'[k][i] = pending[k][i]
             \/ k = h /\ i = last /\ pending'[k][i] = f
        /\ \A k \in Loops : \A i \in DOMAIN pending[k] :
             i \in DOMAIN pending'[k] /\ pending'[k][i] = pending[k][i]
        /\ last \in DOMAIN pending'[h] /\ pending'[h][last] = f
    BY <1>0, PushQueues
  <1> HIDE DEF f, last
  <1>2. AtHome'
    BY <1>0, <1>1 DEF ServerDetails, AtHome, h
  <1>3. \A l \in Loops : \A i \in DOMAIN pending'[l] : pending'[l][i].com \in Created
    BY <1>0, <1>1 DEF ServerDetails, OnlyCreated
  <1>4. ASSUME NEW l \in Loops, NEW i \in DOMAIN pending'[l], IsEstablished(pending'[l], i)
        PROVE  i \in DOMAIN pending[l] /\ pending'[l][i] = pending[l][i]
               /\ IsEstablished(pending[l], i)
    BY <1>0, <1>1, <1>4 DEF IsEstablished
  <1>5. /\ \A l \in Loops : \A i \in DOMAIN pending[l] : pending[l][i].com \in Names
        /\ \A l \in Loops : \A i \in DOMAIN batch[l] : batch[l][i].com \in Names
    BY DEF ServerDetails, OnlyCreated, Created
  <1>6. EstablishedOnce'
    <2> SUFFICES ASSUME NEW l \in Loops
                 PROVE  /\ \A i \in DOMAIN pending'[l] : IsEstablished(pending'[l], i) =>
                             /\ pending'[l][i].com \notin reading'
                             /\ state'[pending'[l][i].com] \in {"opened", "error"}
                             /\ \A j \in DOMAIN pending'[l] :
                                  IsEstablished(pending'[l], j)
                                    /\ pending'[l][j].com = pending'[l][i].com => i = j
                             /\ \A j \in DOMAIN batch'[l] :
                                  IsEstablished(batch'[l], j)
                                    => batch'[l][j].com # pending'[l][i].com
                        /\ \A i \in DOMAIN batch'[l] : IsEstablished(batch'[l], i) =>
                             /\ i > ran'[l] =>
                                  /\ batch'[l][i].com \notin reading'
                                  /\ state'[batch'[l][i].com] \in {"opened", "error"}
                             /\ \A j \in DOMAIN batch'[l] :
                                  IsEstablished(batch'[l], j)
                                    /\ batch'[l][j].com = batch'[l][i].com => i = j
      BY DEF EstablishedOnce, IsEstablished
    <2>1. EstablishedOnce
      BY DEF ServerDetails
    <2>2. ASSUME NEW i \in DOMAIN pending'[l], IsEstablished(pending'[l], i)
          PROVE  /\ pending'[l][i].com \notin reading'
                 /\ state'[pending'[l][i].com] \in {"opened", "error"}
                 /\ \A j \in DOMAIN pending'[l] :
                      IsEstablished(pending'[l], j)
                        /\ pending'[l][j].com = pending'[l][i].com => i = j
                 /\ \A j \in DOMAIN batch'[l] :
                      IsEstablished(batch'[l], j) => batch'[l][j].com # pending'[l][i].com
      BY <1>4, <1>5, <2>1, <2>2 DEF EstablishedOnce
    <2>3. ASSUME NEW i \in DOMAIN batch[l], IsEstablished(batch[l], i)
          PROVE  /\ i > ran'[l] =>
                      /\ batch[l][i].com \notin reading
                      /\ state'[batch[l][i].com] \in {"opened", "error"}
                 /\ \A j \in DOMAIN batch[l] :
                      IsEstablished(batch[l], j) /\ batch[l][j].com = batch[l][i].com => i = j
      <3>1. i \in Nat /\ ran[l] \in Nat
        BY DEF TypeOK
      <3>2. i > ran'[l] => i > ran[l]
        BY <3>1
      <3> QED
        BY <1>5, <2>1, <2>3, <3>2 DEF EstablishedOnce
    <2> QED
      BY <2>2, <2>3
  <1>7. ASSUME NEW l \in Loops, NEW m, Owns(pending[l], m)
        PROVE  Owns(pending'[l], m)
    BY <1>1, <1>7 DEF Owns
  <1>8. ASSUME kind \in Owning
        PROVE  Owns(pending'[h], n)
    BY <1>0, <1>1, <1>8 DEF Owns
  <1>9. ASSUME QueuesKeep, kind \in Owning \/ n \in comEntities' PROVE QueuesKeep'
    <2> SUFFICES ASSUME NEW l \in Loops \ {0}
                 PROVE  /\ \A i \in DOMAIN pending'[l] :
                             \/ pending'[l][i].com \in comEntities'
                             \/ Owns(pending'[l], pending'[l][i].com)
                        /\ \A i \in DOMAIN batch[l] :
                             \/ batch[l][i].com \in comEntities'
                             \/ Owns(pending'[l], batch[l][i].com)
                             \/ Owns(batch[l], batch[l][i].com)
      BY DEF QueuesKeep, Owns
    <2>1. ASSUME NEW i \in DOMAIN pending'[l]
          PROVE  \/ pending'[l][i].com \in comEntities'
                 \/ Owns(pending'[l], pending'[l][i].com)
      <3>1. CASE pending'[l][i].com = n
        <4>1. l = h
          BY <1>0, <1>2, <3>1 DEF AtHome
        <4> QED
          BY <1>8, <1>9, <3>1, <4>1
      <3>2. CASE pending'[l][i].com # n
        <4>1. i \in DOMAIN pending[l] /\ pending'[l][i] = pending[l][i]
          BY <1>0, <1>1, <3>2
        <4> QED
          BY <1>7, <1>9, <3>2, <4>1 DEF QueuesKeep
      <3> QED
        BY <3>1, <3>2
    <2>2. ASSUME NEW i \in DOMAIN batch[l]
          PROVE  \/ batch[l][i].com \in comEntities'
                 \/ Owns(pending'[l], batch[l][i].com)
                 \/ Owns(batch[l], batch[l][i].com)
      <3>1. CASE batch[l][i].com = n
        <4>1. l = h
          BY <1>0, <3>1 DEF AtHome, ServerDetails
        <4> QED
          BY <1>8, <1>9, <3>1, <4>1
      <3>2. CASE batch[l][i].com # n
        BY <1>7, <1>9, <3>2 DEF QueuesKeep
      <3> QED
        BY <3>1, <3>2
    <2> QED
      BY <2>1, <2>2
  <1> QED
    BY <1>2, <1>3, <1>6, <1>9

\* Actions that leave the queues, and who has been read, alone.
LEMMA QuietKeeps ==
  ASSUME TypeOK, ServerDetails,
         UNCHANGED <<queueVars, home, state, comEntities, reading>>,
         lateCall => lateCall'
  PROVE  /\ AtHome' /\ EstablishedOnce'
         /\ ~lateCall' => QueuesKeep'
         /\ (phase' = "up" => phase = "up") => OnlyCreated'
  <1>1. UNCHANGED <<pending, batch, ran, Created>>
    BY DEF queueVars, Created
  <1>2. AtHome' /\ ((phase' = "up" => phase = "up") => OnlyCreated')
    BY <1>1 DEF ServerDetails, AtHome, OnlyCreated
  <1>3. EstablishedOnce'
    BY <1>1 DEF ServerDetails, EstablishedOnce, IsEstablished
  <1>4. ~lateCall' => QueuesKeep'
    BY <1>1 DEF ServerDetails, QueuesKeep, Owns
  <1> QED
    BY <1>2, <1>3, <1>4

LEMMA SetUpKeeps ==
  ASSUME TypeOK, ServerDetails,
         (\E k \in 0 .. MaxThreads : SetThreadNum(k)) \/ Start \/ JoinThreads \/ Gone
  PROVE  ServerDetails'
  <1>1. UNCHANGED <<queueVars, loopVars, clientVars, home, state, comEntities,
                    reading>>
    BY DEF SetThreadNum, Start, JoinThreads, Gone, serverVars, entityVars
  <1>2. phase' = "up" => phase = "up"
    BY DEF SetThreadNum, Start, JoinThreads, Gone, serverVars
  <1>3. phase \in {"joining", "gone"} => phase' \in {"joining", "gone"}
    BY DEF SetThreadNum, Start, JoinThreads, Gone, serverVars
  <1>4. /\ AtHome' /\ EstablishedOnce' /\ (~lateCall' => QueuesKeep') /\ OnlyCreated'
    BY <1>1, <1>2, QuietKeeps DEF clientVars
  <1>5. NextInPool'
    <2>1. CASE UNCHANGED <<next, poolSize, started>>
      BY <2>1 DEF ServerDetails, NextInPool
    <2>2. CASE Start
      <3>1. next \in Nat /\ poolSize = 0 /\ next' = next /\ started'
        BY <2>2 DEF Start, PoolStart, ServerDetails, NextInPool, TypeOK
      <3> QED
        BY <3>1 DEF ServerDetails, NextInPool
    <2> QED
      BY <2>1, <2>2 DEF SetThreadNum, PoolSetThreadNum, JoinThreads, Gone, poolVars, serverVars
  <1>6. HeldWereRead' /\ LoopPlaces'
    BY <1>1, <1>3
    DEF ServerDetails, HeldWereRead, LoopPlaces, loopVars, queueVars, clientVars
  <1> QED
    BY <1>4, <1>5, <1>6 DEF ServerDetails

LEMMA EventsKeep ==
  ASSUME TypeOK, ServerDetails, NEW l \in Loops,
         \/ \E chans \in SUBSET reading : Poll(l, chans)
         \/ \E n \in active[l] : HandleEvent(l, n)
         \/ EventHandled(l)
  PROVE  ServerDetails'
  <1>1. UNCHANGED <<poolVars, serverVars, entityVars, queueVars, clientVars>>
    BY DEF Poll, HandleEvent, EventHandled
  <1>2. /\ AtHome' /\ EstablishedOnce' /\ (~lateCall' => QueuesKeep') /\ OnlyCreated'
    BY <1>1, QuietKeeps DEF serverVars, entityVars, clientVars
  <1>3. NextInPool'
    BY <1>1 DEF ServerDetails, NextInPool, poolVars, serverVars
  <1>4. HeldWereRead'
    <2>1. UNCHANGED <<client, calling, reading>>
      BY <1>1 DEF entityVars, clientVars
    <2>2. \A k \in Loops : active'[k] \subseteq reading
      BY DEF Poll, HandleEvent, EventHandled, TypeOK, ServerDetails, HeldWereRead
    <2>3. \A k \in Loops : guard'[k] # NoCom => guard'[k] \in reading
      <3>0. guard \in [Loops -> Names \cup {NoCom}]
        BY DEF TypeOK
      <3>1. UNCHANGED guard \/ \E m \in active[l] \cup {NoCom} : guard' = [guard EXCEPT ![l] = m]
        BY DEF Poll, HandleEvent, EventHandled
      <3> QED
        BY <3>0, <3>1 DEF ServerDetails, HeldWereRead
    <2> QED
      BY <2>1, <2>2, <2>3 DEF ServerDetails, HeldWereRead
  <1>5. LoopPlaces'
    <2>1. UNCHANGED <<batch, ran, phase>>
      BY <1>1 DEF queueVars, serverVars
    <2>2. \A k \in Loops : \/ place'[k] = place[k]
                           \/ place[k] = "poll" /\ place'[k] = "events"
      BY DEF Poll, HandleEvent, EventHandled, TypeOK
    <2> QED
      BY <2>1, <2>2 DEF ServerDetails, LoopPlaces
  <1> QED
    BY <1>2, <1>3, <1>4, <1>5 DEF ServerDetails

\* shutdown() and what else may change the state of entities that were read.
LEMMA StateKeeps ==
  ASSUME TypeOK, ServerDetails, TypeOK',
         UNCHANGED <<queueVars, home, comEntities, reading, lateCall, phase>>,
         Created' = Created, \A m \in Names \ reading : state'[m] = state[m]
  PROVE  AtHome' /\ EstablishedOnce' /\ (~lateCall' => QueuesKeep') /\ OnlyCreated'
  <1>1. UNCHANGED <<pending, batch, ran>>
    BY DEF queueVars
  <1>2. /\ \A l \in Loops : \A i \in DOMAIN pending[l] : pending[l][i].com \in Names
        /\ \A l \in Loops : \A i \in DOMAIN batch[l] : batch[l][i].com \in Names
    BY DEF ServerDetails, OnlyCreated, Created
  <1>3. AtHome' /\ OnlyCreated'
    BY <1>1 DEF ServerDetails, AtHome, OnlyCreated
  <1>4. ~lateCall' => QueuesKeep'
    BY <1>1 DEF ServerDetails, QueuesKeep, Owns
  <1>5. EstablishedOnce'
    BY <1>1, <1>2 DEF ServerDetails, EstablishedOnce, IsEstablished
  <1> QED
    BY <1>3, <1>4, <1>5

LEMMA ShutDownKeepsCreated ==
  ASSUME TypeOK, NEW n \in reading,
         state' = state \/ (state[n] # "none" /\ state' = [state EXCEPT ![n] = "idle"])
  PROVE  Created' = Created /\ \A m \in Names \ reading : state'[m] = state[m]
  <1>0. state \in [Names -> {"none", "idle", "opened", "error"}] /\ n \in Names
    BY DEF TypeOK
  <1>1. CASE state' = state
    BY <1>1 DEF Created
  <1>2. CASE state[n] # "none" /\ state' = [state EXCEPT ![n] = "idle"]
    <2>1. state'[n] = "idle" /\ \A m \in Names \ {n} : state'[m] = state[m]
      BY <1>0, <1>2
    <2> QED
      BY <1>0, <1>2, <2>1 DEF Created
  <1> QED
    BY <1>1, <1>2

LEMMA CallbackKeeps ==
  ASSUME TypeOK, ServerDetails, TypeOK', NEW l \in Loops, MessageCallback(l)
  PROVE  ServerDetails'
  <1> DEFINE n == guard[l]
  <1>0. n \in reading /\ n \in Names
    BY DEF MessageCallback, ServerDetails, HeldWereRead, TypeOK
  <1>1. UNCHANGED <<poolVars, serverVars, home, reading, queueVars, loopVars, calling, lateCall>>
    BY DEF MessageCallback, SendInLoop, queueVars
  <1>2. /\ client \subseteq client' /\ client' \subseteq client \cup {n}
        /\ state' = state \/ (state[n] = "opened" /\ state' = [state EXCEPT ![n] = "idle"])
    BY DEF MessageCallback
  <1>3. Created' = Created /\ \A m \in Names \ reading : state'[m] = state[m]
    BY <1>0, <1>2, ShutDownKeepsCreated
  <1>4. AtHome' /\ EstablishedOnce' /\ (~lateCall' => QueuesKeep') /\ OnlyCreated'
    BY <1>1, <1>3, StateKeeps DEF serverVars
  <1>5. NextInPool' /\ LoopPlaces'
    BY <1>1 DEF ServerDetails, NextInPool, LoopPlaces, poolVars, serverVars, loopVars, queueVars
  <1>6. HeldWereRead'
    BY <1>0, <1>1, <1>2 DEF ServerDetails, HeldWereRead, loopVars
  <1> QED
    BY <1>4, <1>5, <1>6 DEF ServerDetails

\* A call that begins, or a ComEntityPtr that no call uses let go.
LEMMA ClientKeeps ==
  ASSUME TypeOK, ServerDetails, NEW n \in Names,
         ClientDrops(n) \/ \E kind \in {"send", "shutdown"} : ClientCalls(n, kind)
  PROVE  ServerDetails'
  <1>1. /\ UNCHANGED <<poolVars, serverVars, entityVars, queueVars, loopVars, lateCall>>
        /\ client' \subseteq client
        /\ \/ calling' = calling /\ client' = client \ {n} /\ n # calling.com
           \/ calling'.com = n /\ n \in client /\ client' = client
    BY DEF ClientDrops, ClientCalls, Functor
  <1>2. /\ AtHome' /\ EstablishedOnce' /\ (~lateCall' => QueuesKeep') /\ OnlyCreated'
    BY <1>1, QuietKeeps DEF serverVars, entityVars
  <1>3. NextInPool' /\ LoopPlaces'
    BY <1>1 DEF ServerDetails, NextInPool, LoopPlaces, poolVars, serverVars, loopVars, queueVars
  <1>4. HeldWereRead'
    BY <1>1 DEF ServerDetails, HeldWereRead, loopVars, entityVars
  <1> QED
    BY <1>2, <1>3, <1>4 DEF ServerDetails

LEMMA DestroyKeeps ==
  ASSUME TypeOK, ServerDetails, NEW n \in Names, DestroyOne(n)
  PROVE  ServerDetails'
  <1>0. /\ n \in comEntities /\ n \in Created /\ n \in Names
        /\ comEntities' = comEntities \ {n} /\ phase' = "destructing"
        /\ phase \in {"up", "destructing"}
    BY DEF DestroyOne, ServerDetails, OnlyCreated
  <1>1. UNCHANGED <<poolVars, started, entityVars, batch, ran, loopVars, clientVars>>
    BY DEF DestroyOne
  <1>2. Created' = Created /\ UNCHANGED <<home, state, reading, lateCall>>
    BY <1>1 DEF Created, entityVars, clientVars
  <1>3. NextInPool' /\ LoopPlaces' /\ HeldWereRead'
    BY <1>0, <1>1, <1>2 DEF ServerDetails, NextInPool, LoopPlaces, HeldWereRead, poolVars,
                            loopVars, clientVars
  <1>4. CASE home[n] = 0
    <2>1. UNCHANGED pending
      BY <1>4 DEF DestroyOne
    <2>2. AtHome' /\ EstablishedOnce'
      BY <1>1, <1>2, <2>1 DEF ServerDetails, AtHome, EstablishedOnce, IsEstablished
    <2>3. OnlyCreated'
      BY <1>0, <1>1, <1>2, <2>1 DEF ServerDetails, OnlyCreated
    <2>4. ASSUME QueuesKeep PROVE QueuesKeep'
      <3>1. /\ \A l \in Loops \ {0} : \A i \in DOMAIN pending[l] : pending[l][i].com # n
            /\ \A l \in Loops \ {0} : \A i \in DOMAIN batch[l] : batch[l][i].com # n
        BY <1>4 DEF ServerDetails, AtHome
      <3> QED
        BY <1>0, <1>1, <2>1, <2>4, <3>1 DEF QueuesKeep, Owns
    <2> QED
      BY <1>2, <1>3, <2>2, <2>3, <2>4 DEF ServerDetails
  <1>5. CASE home[n] # 0
    <2>1. Push(home[n], Functor("destroyed", n))
      BY <1>5 DEF DestroyOne
    <2>2. \A l \in Loops : ran'[l] \in Nat /\ ran[l] <= ran'[l]
      BY <1>1 DEF TypeOK
    <2>3. /\ AtHome' /\ EstablishedOnce'
          /\ QueuesKeep => QueuesKeep'
          /\ \A l \in Loops : \A i \in DOMAIN pending'[l] : pending'[l][i].com \in Created
      BY <1>0, <1>1, <1>2, <2>1, <2>2, PushKeeps DEF Owning
    <2>4. OnlyCreated'
      BY <1>0, <1>1, <1>2, <2>3 DEF ServerDetails, OnlyCreated
    <2> QED
      BY <1>2, <1>3, <2>3, <2>4 DEF ServerDetails
  <1> QED
    BY <1>4, <1>5

LEMMA PostsKeep ==
  ASSUME TypeOK, ServerDetails, ClientPosts, fate' = "ok"
  PROVE  ServerDetails'
  <1> DEFINE n == calling.com
             kind == calling.kind
  <1>1. /\ n \in reading /\ n \in Created /\ n \in Names
        /\ lateCall' = (lateCall \/ phase # "up")
    BY DEF ClientPosts, ServerDetails, HeldWereRead, OnlyCreated, Created
  <1>2. UNCHANGED <<poolVars, serverVars, home, reading, batch, ran, loopVars, client>>
        /\ calling' = NoCall
    BY DEF ClientPosts
  <1>3. kind \in {"send", "shutdown"} /\ Push(home[n], Functor(kind, n))
    <2>1. calling \in Calls
      BY DEF ClientPosts, TypeOK
    <2>2. calling = Functor(kind, n) /\ kind \in {"send", "shutdown"}
      BY <2>1 DEF Calls, Functor
    <2>3. Push(home[n], calling)
      BY DEF ClientPosts
    <2> QED
      BY <2>2, <2>3
  <1>4. state' = state \/ (state[n] # "none" /\ state' = [state EXCEPT ![n] = "idle"])
    BY <1>1 DEF ClientPosts, Created
  <1> HIDE DEF n, kind
  <1>5. Created' = Created /\ \A m \in Names \ reading : state'[m] = state[m]
    BY <1>1, <1>4, ShutDownKeepsCreated
  <1>6. NextInPool' /\ LoopPlaces' /\ HeldWereRead'
    BY <1>2 DEF ServerDetails, NextInPool, LoopPlaces, HeldWereRead, poolVars, serverVars,
                loopVars
  <1>7. \A l \in Loops : ran'[l] \in Nat /\ ran[l] <= ran'[l]
    BY <1>2 DEF TypeOK
  <1>8. comEntities' = comEntities /\ phase' = phase
    BY <1>2 DEF serverVars
  <1>9. ~lateCall' => n \in comEntities
    BY <1>1 DEF ServerDetails, OnlyCreated
  <1>10. /\ AtHome' /\ EstablishedOnce'
         /\ QueuesKeep /\ n \in comEntities => QueuesKeep'
         /\ \A l \in Loops : \A i \in DOMAIN pending'[l] : pending'[l][i].com \in Created
    BY <1>1, <1>2, <1>3, <1>5, <1>7, <1>8, PushKeeps
  <1>11. OnlyCreated'
    BY <1>2, <1>5, <1>8, <1>10 DEF ServerDetails, OnlyCreated
  <1>12. ~lateCall' => QueuesKeep'
    BY <1>1, <1>9, <1>10 DEF ServerDetails
  <1> QED
    BY <1>6, <1>10, <1>11, <1>12 DEF ServerDetails

\* The functor that runs queues nothing, or it is sendInLoop and queues the
\* write complete callback.
LEMMA RunKeeps ==
  ASSUME TypeOK, ServerDetails, TypeOK', NEW l \in Loops, RunFunctor(l), fate' = "ok"
  PROVE  ServerDetails'
  <1> DEFINE f == batch[l][ran[l] + 1]
  <1>0. /\ ran[l] \in Nat /\ ran[l] + 1 \in DOMAIN batch[l]
        /\ f \in Functors /\ f.com \in Names
    BY FunctorToRun
  <1>1. f.com \in Created /\ home[f.com] = l
    BY <1>0 DEF ServerDetails, OnlyCreated, AtHome
  <1>2. /\ UNCHANGED <<poolVars, serverVars, home, state, batch, loopVars, clientVars>>
        /\ UNCHANGED <<comEntities, phase, lateCall>> /\ Created' = Created
    BY DEF RunFunctor, serverVars, clientVars, Created
  <1>3. /\ ran'[l] = ran[l] + 1 /\ \A k \in Loops \ {l} : ran'[k] = ran[k]
        /\ ran[l] < Len(batch[l])
    <2>1. ran \in [Loops -> Nat]
      BY DEF TypeOK
    <2> QED
      BY <2>1 DEF RunFunctor
  <1>4. \A k \in Loops : ran'[k] \in Nat /\ ran[k] \in Nat /\ ran[k] <= ran'[k]
    <2>1. ran \in [Loops -> Nat]
      BY DEF TypeOK
    <2> QED
      BY <1>0, <1>3, <2>1
  <1>5. NextInPool'
    BY <1>2 DEF ServerDetails, NextInPool, poolVars, serverVars
  <1>6. LoopPlaces'
    <2>1. place[l] = "functors" /\ UNCHANGED <<place, batch, phase>>
      BY <1>2 DEF RunFunctor, loopVars
    <2>2. Len(batch[l]) \in Nat /\ ran'[l] <= Len(batch[l])
      BY <1>3, <1>4 DEF TypeOK
    <2>3. \A k \in Loops : place[k] # "functors" => k # l
      BY <2>1
    <2> QED
      BY <1>3, <2>1, <2>2, <2>3 DEF ServerDetails, LoopPlaces
  <1>7. reading \subseteq reading' /\ UNCHANGED <<client, calling, active, guard>>
    BY <1>2 DEF RunFunctor, Establish, clientVars, loopVars
  <1>8. HeldWereRead'
    BY <1>7 DEF ServerDetails, HeldWereRead
  <1> HIDE DEF f
  <1>9. CASE UNCHANGED reading /\ Push(home[f.com], Functor("complete", f.com))
    <2>1. /\ AtHome' /\ EstablishedOnce'
          /\ QueuesKeep => QueuesKeep'
          /\ \A k \in Loops : \A i \in DOMAIN pending'[k] : pending'[k][i].com \in Created
      BY <1>1, <1>2, <1>4, <1>9, PushKeeps DEF Owning
    <2>2. OnlyCreated'
      BY <1>2, <1>9, <2>1 DEF ServerDetails, OnlyCreated
    <2> QED
      BY <1>2, <1>5, <1>6, <1>8, <2>1, <2>2 DEF ServerDetails
  <1>10. CASE UNCHANGED pending /\ (UNCHANGED reading \/ (f.kind = "established"
                                                           /\ reading' = reading \cup {f.com}))
    <2>1. AtHome' /\ OnlyCreated'
      BY <1>1, <1>2, <1>10 DEF ServerDetails, AtHome, OnlyCreated
    <2>2. ~lateCall' => QueuesKeep'
      BY <1>2, <1>10 DEF ServerDetails, QueuesKeep, Owns
    <2>3. EstablishedOnce /\ AtHome
      BY DEF ServerDetails
    <2>4. f.kind = "established" => IsEstablished(batch[l], ran[l] + 1)
      BY DEF f, IsEstablished
    <2>5. ASSUME NEW k \in Loops, NEW i \in DOMAIN pending[k], IsEstablished(pending[k], i)
          PROVE  pending[k][i].com \notin reading'
      <3>1. CASE UNCHANGED reading
        BY <2>3, <2>5, <3>1 DEF EstablishedOnce
      <3>2. CASE f.kind = "established" /\ reading' = reading \cup {f.com}
        <4>1. pending[k][i].com = f.com => k = l
          BY <1>1, <2>3 DEF AtHome
        <4>2. pending[k][i].com # f.com
          BY <1>0, <2>3, <2>4, <2>5, <3>2, <4>1 DEF EstablishedOnce, f
        <4> QED
          BY <2>3, <2>5, <3>2, <4>2 DEF EstablishedOnce
      <3> QED
        BY <1>10, <3>1, <3>2
    <2>6. ASSUME NEW k \in Loops, NEW i \in DOMAIN batch[k], IsEstablished(batch[k], i),
                 i > ran'[k]
          PROVE  batch[k][i].com \notin reading' /\ i > ran[k]
      <3>0. i \in Nat
        <4>1. batch[k] \in Seq(Functors)
          BY <1>2 DEF TypeOK
        <4>2. DOMAIN batch[k] = 1 .. Len(batch[k]) /\ Len(batch[k]) \in Nat
          BY <4>1, LenProperties
        <4> QED
          BY <4>2
      <3>a. i > ran[k]
        BY <1>4, <2>6, <3>0
      <3>1. CASE UNCHANGED reading
        BY <2>3, <2>6, <3>1, <3>a DEF EstablishedOnce
      <3>2. CASE f.kind = "established" /\ reading' = reading \cup {f.com}
        <4>1. batch[k][i].com = f.com => k = l
          BY <1>1, <2>3 DEF AtHome
        <4>2. k = l => i # ran[l] + 1
          BY <1>0, <1>3, <2>6, <3>0
        <4>3. batch[k][i].com # f.com
          BY <1>0, <2>3, <2>4, <2>6, <3>2, <4>1, <4>2 DEF EstablishedOnce, f
        <4> QED
          BY <2>3, <2>6, <3>2, <3>a, <4>3 DEF EstablishedOnce
      <3> QED
        BY <1>10, <3>1, <3>2, <3>a
    <2>7. EstablishedOnce'
      BY <1>2, <1>10, <2>3, <2>5, <2>6 DEF EstablishedOnce, IsEstablished
    <2> QED
      BY <1>2, <1>5, <1>6, <1>8, <2>1, <2>2, <2>7 DEF ServerDetails
  <1>11. \/ UNCHANGED reading /\ Push(home[f.com], Functor("complete", f.com))
         \/ UNCHANGED pending /\ (UNCHANGED reading \/ (f.kind = "established"
                                                         /\ reading' = reading \cup {f.com}))
    BY DEF RunFunctor, SendInLoop, Establish, f
  <1> QED
    BY <1>9, <1>10, <1>11

\* Functors that move from the queue to the batch, and that are let go.
LEMMA QueueStepsKeep ==
  ASSUME TypeOK, ServerDetails, NEW l \in Loops,
         Swap(l) \/ FunctorsDone(l) \/ Exit(l)
  PROVE  ServerDetails'
  <1>0. /\ UNCHANGED <<poolVars, serverVars, entityVars, clientVars, guard, active>>
        /\ UNCHANGED <<comEntities, phase, home, state, reading, lateCall>> /\ Created' = Created
    BY DEF Swap, FunctorsDone, Exit, serverVars, entityVars, clientVars, Created
  <1>1. /\ pending \in [Loops -> Seq(Functors)] /\ batch \in [Loops -> Seq(Functors)]
        /\ ran \in [Loops -> Nat]
        /\ place \in [Loops -> {"poll", "events", "functors", "exited"}]
    BY DEF TypeOK
  <1>2. Len(<<>>) = 0 /\ DOMAIN <<>> = {}
    BY EmptySeq
  <1>3. \A k \in Loops \ {l} : /\ pending'[k] = pending[k] /\ batch'[k] = batch[k]
                               /\ ran'[k] = ran[k] /\ place'[k] = place[k]
    BY <1>1 DEF Swap, FunctorsDone, Exit
  <1>4. /\ \/ pending'[l] = <<>> /\ batch'[l] = pending[l]
           \/ pending'[l] = pending[l] /\ batch'[l] = <<>>
           \/ pending'[l] = <<>> /\ batch'[l] = <<>>
        /\ ran'[l] = 0
        /\ place'[l] # "functors" => batch'[l] = <<>>
        /\ place'[l] = "exited" => phase = "joining"
    <2>0. place[l] # "functors" => batch[l] = <<>> /\ ran[l] = 0
      BY DEF ServerDetails, LoopPlaces
    <2>1. CASE Swap(l)
      BY <1>1, <2>0, <2>1 DEF Swap
    <2>2. CASE FunctorsDone(l)
      BY <1>1, <2>0, <2>2 DEF FunctorsDone
    <2>3. CASE Exit(l)
      BY <1>1, <2>0, <2>3 DEF Exit
    <2> QED
      BY <2>1, <2>2, <2>3
  <1>5. NextInPool' /\ HeldWereRead'
    BY <1>0 DEF ServerDetails, NextInPool, HeldWereRead, poolVars, serverVars, clientVars
  <1>6. LoopPlaces'
    <2> SUFFICES ASSUME NEW k \in Loops
                 PROVE  /\ place'[k] # "functors" => batch'[k] = <<>> /\ ran'[k] = 0
                        /\ ran'[k] <= Len(batch'[k])
                        /\ place'[k] = "exited" => phase' \in {"joining", "gone"}
      BY DEF LoopPlaces
    <2>1. CASE k = l
      <3>1. Len(batch'[l]) \in Nat
        BY <1>1, <1>2, <1>4
      <3> QED
        BY <1>0, <1>4, <2>1, <3>1
    <2>2. CASE k # l
      BY <1>0, <1>3, <2>2 DEF ServerDetails, LoopPlaces
    <2> QED
      BY <2>1, <2>2
  <1>7. \A k \in Loops : \A i \in DOMAIN pending'[k] :
          i \in DOMAIN pending[k] /\ pending'[k] = pending[k]
    BY <1>2, <1>3, <1>4
  <1>8. \A k \in Loops : \A i \in DOMAIN batch'[k] :
          \/ i \in DOMAIN batch[k] /\ batch'[k] = batch[k] /\ k # l
          \/ i \in DOMAIN pending[k] /\ batch'[k] = pending[k] /\ k = l /\ DOMAIN pending'[k] = {}
    BY <1>2, <1>3, <1>4
  <1>9. AtHome'
    BY <1>0, <1>7, <1>8 DEF ServerDetails, AtHome
  <1>10. OnlyCreated'
    BY <1>0, <1>7, <1>8 DEF ServerDetails, OnlyCreated
  <1>11. ~lateCall' => QueuesKeep'
    <2> SUFFICES ASSUME ~lateCall, NEW k \in Loops \ {0}
                 PROVE  /\ \A i \in DOMAIN pending'[k] :
                             \/ pending'[k][i].com \in comEntities
                             \/ Owns(pending'[k], pending'[k][i].com)
                        /\ \A i \in DOMAIN batch'[k] :
                             \/ batch'[k][i].com \in comEntities
                             \/ Owns(pending'[k], batch'[k][i].com)
                             \/ Owns(batch'[k], batch'[k][i].com)
      BY <1>0 DEF QueuesKeep, Owns
    <2>1. QueuesKeep
      BY DEF ServerDetails
    <2>2. k # l => pending'[k] = pending[k]
      BY <1>3
    <2> QED
      BY <1>7, <1>8, <2>1, <2>2 DEF QueuesKeep
  <1>12. EstablishedOnce'
    <2>0. EstablishedOnce
      BY DEF ServerDetails
    <2>1. ASSUME NEW k \in Loops, NEW i \in DOMAIN pending'[k], IsEstablished(pending'[k], i)
          PROVE  /\ pending'[k][i].com \notin reading
                 /\ state[pending'[k][i].com] \in {"opened", "error"}
                 /\ \A j \in DOMAIN pending'[k] :
                      IsEstablished(pending'[k], j)
                        /\ pending'[k][j].com = pending'[k][i].com => i = j
                 /\ \A j \in DOMAIN batch'[k] :
                      IsEstablished(batch'[k], j) => batch'[k][j].com # pending'[k][i].com
      <3>1. i \in DOMAIN pending[k] /\ pending'[k] = pending[k]
        BY <1>7
      <3>2. \A j \in DOMAIN batch'[k] : j \in DOMAIN batch[k] /\ batch'[k] = batch[k]
        BY <1>8
      <3> QED
        BY <2>0, <2>1, <3>1, <3>2 DEF EstablishedOnce
    <2>2. ASSUME NEW k \in Loops, NEW i \in DOMAIN batch'[k], IsEstablished(batch'[k], i)
          PROVE  /\ i > ran'[k] => /\ batch'[k][i].com \notin reading
                                   /\ state[batch'[k][i].com] \in {"opened", "error"}
                 /\ \A j \in DOMAIN batch'[k] :
                      IsEstablished(batch'[k], j) /\ batch'[k][j].com = batch'[k][i].com => i = j
      <3>1. CASE k # l /\ i \in DOMAIN batch[k] /\ batch'[k] = batch[k]
        BY <1>3, <2>0, <2>2, <3>1 DEF EstablishedOnce
      <3>2. CASE i \in DOMAIN pending[k] /\ batch'[k] = pending[k]
        BY <2>0, <2>2, <3>2 DEF EstablishedOnce
      <3> QED
        BY <1>8, <3>1, <3>2
    <2> QED
      BY <1>0, <2>1, <2>2 DEF EstablishedOnce, IsEstablished
  <1> QED
    BY <1>5, <1>6, <1>9, <1>10, <1>11, <1>12 DEF ServerDetails

\* The entity is new: nothing refers to it yet.
LEMMA CreateKeeps ==
  ASSUME TypeOK, ServerDetails, TypeOK', NEW n \in Names, NEW opens \in BOOLEAN,
         Create(n, opens), fate' = "ok"
  PROVE  ServerDetails'
  <1>0. /\ phase = "up" /\ n \notin comEntities /\ comEntities = Created
        /\ comEntities' = comEntities \cup {n}
        /\ UNCHANGED <<phase, started, batch, ran, loopVars, clientVars>>
    BY DEF Create, ServerDetails, OnlyCreated
  <1>1. /\ home' = [home EXCEPT ![n] = NextLoop]
        /\ state' = [state EXCEPT ![n] = StateOf(opens)]
    BY DEF Create
  <1>2. /\ home'[n] = NextLoop /\ \A m \in Names \ {n} : home'[m] = home[m]
        /\ state'[n] = StateOf(opens) /\ \A m \in Names \ {n} : state'[m] = state[m]
    BY <1>1 DEF TypeOK
  <1>3. Created' = Created \cup {n}
    BY <1>2 DEF Created, StateOf
  <1>4. NextLoop \in Loops
    BY NextLoopInPool DEF ServerDetails
  <1>5. NextInPool'
    <2>1. poolSize \in Nat /\ next \in Nat /\ UNCHANGED poolSize
      BY MaxThreadsAssumption DEF TypeOK, Create, Advance
    <2>2. next' = 0 \/ next' < poolSize
      <3>1. next' = IF poolSize = 0 \/ next + 1 >= poolSize THEN 0 ELSE next + 1
        BY DEF Create, Advance
      <3> QED
        BY <2>1, <3>1
    <2> QED
      BY <1>0, <2>1, <2>2 DEF ServerDetails, NextInPool
  <1>6. LoopPlaces'
    BY <1>0 DEF ServerDetails, LoopPlaces, loopVars
  <1>7. reading \subseteq reading' /\ reading' \subseteq reading \cup {n}
    BY DEF Create, Establish
  <1>8. HeldWereRead'
    BY <1>0, <1>7 DEF ServerDetails, HeldWereRead, loopVars, clientVars
  <1>9. /\ \A l \in Loops : \A i \in DOMAIN pending[l] :
             pending[l][i].com \in Names \ {n} /\ pending[l][i].com \in comEntities
        /\ \A l \in Loops : \A i \in DOMAIN batch[l] :
             batch[l][i].com \in Names \ {n} /\ batch[l][i].com \in comEntities
        /\ n \notin reading
    BY <1>0 DEF ServerDetails, OnlyCreated, Created
  <1>10. ASSUME \A l \in Loops : \A i \in DOMAIN pending'[l] :
                  \/ i \in DOMAIN pending[l] /\ pending'[l][i] = pending[l][i]
                  \/ /\ l = NextLoop /\ i = Len(pending[l]) + 1
                     /\ pending'[l][i] = Functor("established", n)
                     /\ reading' = reading
         PROVE  ServerDetails'
    <2> DEFINE f == Functor("established", n)
    <2>0. f.com = n /\ f.kind = "established"
      BY DEF Functor
    <2> HIDE DEF f
    <2>a. \A l \in Loops : \A i \in DOMAIN pending'[l] :
            \/ i \in DOMAIN pending[l] /\ pending'[l][i] = pending[l][i]
            \/ /\ l = NextLoop /\ i = Len(pending[l]) + 1
               /\ pending'[l][i] = f
               /\ reading' = reading
      BY <1>10 DEF f
    <2>1. \A l \in Loops : \A i \in DOMAIN pending'[l] :
            /\ pending'[l][i].com \in comEntities'
            /\ home'[pending'[l][i].com] = l
      BY <1>0, <1>2, <1>9, <2>0, <2>a DEF ServerDetails, AtHome
    <2>2. AtHome'
      BY <1>0, <1>2, <1>9, <2>1 DEF ServerDetails, AtHome
    <2>3. OnlyCreated'
      BY <1>0, <1>3, <1>7, <1>9, <2>1 DEF ServerDetails, OnlyCreated
    <2>4. QueuesKeep'
      BY <1>0, <1>9, <2>1 DEF QueuesKeep
    <2>5. EstablishedOnce
      BY DEF ServerDetails
    <2>7. state'[n] \in {"opened", "error"}
      BY <1>1, <1>2 DEF StateOf
    <2>8. ASSUME NEW l \in Loops, NEW i \in DOMAIN pending'[l], IsEstablished(pending'[l], i)
          PROVE  /\ pending'[l][i].com \notin reading'
                 /\ state'[pending'[l][i].com] \in {"opened", "error"}
                 /\ \A j \in DOMAIN pending'[l] :
                      IsEstablished(pending'[l], j)
                        /\ pending'[l][j].com = pending'[l][i].com => i = j
                 /\ \A j \in DOMAIN batch[l] :
                      IsEstablished(batch[l], j) => batch[l][j].com # pending'[l][i].com
      <3>1. CASE i \in DOMAIN pending[l] /\ pending'[l][i] = pending[l][i]
        <4>1. IsEstablished(pending[l], i) /\ pending[l][i].com # n
          BY <1>9, <2>8, <3>1 DEF IsEstablished
        <4>2. \A j \in DOMAIN pending'[l] : pending'[l][j].com = pending[l][i].com =>
                j \in DOMAIN pending[l] /\ pending'[l][j] = pending[l][j]
          BY <2>0, <2>a, <4>1
        <4>3. \A j \in DOMAIN pending'[l] :
                IsEstablished(pending'[l], j) /\ pending'[l][j].com = pending[l][i].com => i = j
          BY <2>5, <3>1, <4>1, <4>2 DEF EstablishedOnce, IsEstablished
        <4>4. pending[l][i].com \notin reading'
          BY <1>7, <2>5, <3>1, <4>1 DEF EstablishedOnce
        <4>5. state'[pending[l][i].com] \in {"opened", "error"}
          BY <1>2, <1>9, <2>5, <3>1, <4>1 DEF EstablishedOnce
        <4>6. \A j \in DOMAIN batch[l] :
                IsEstablished(batch[l], j) => batch[l][j].com # pending[l][i].com
          BY <2>5, <3>1, <4>1 DEF EstablishedOnce
        <4> QED
          BY <3>1, <4>3, <4>4, <4>5, <4>6
      <3>2. CASE /\ l = NextLoop /\ i = Len(pending[l]) + 1 /\ pending'[l][i] = f
                 /\ reading' = reading
        <4>1. \A j \in DOMAIN pending'[l] : pending'[l][j].com = n => j = i
          BY <1>9, <2>a, <3>2
        <4> QED
          BY <1>9, <2>0, <2>7, <3>2, <4>1
      <3> QED
        BY <2>a, <3>1, <3>2
    <2>9. ASSUME NEW l \in Loops, NEW i \in DOMAIN batch[l], IsEstablished(batch[l], i)
          PROVE  /\ i > ran[l] => /\ batch[l][i].com \notin reading'
                                  /\ state'[batch[l][i].com] \in {"opened", "error"}
                 /\ \A j \in DOMAIN batch[l] :
                      IsEstablished(batch[l], j) /\ batch[l][j].com = batch[l][i].com => i = j
      BY <1>2, <1>7, <1>9, <2>5, <2>9 DEF EstablishedOnce
    <2>10. EstablishedOnce'
      BY <1>0, <2>8, <2>9 DEF EstablishedOnce, IsEstablished
    <2> QED
      BY <1>5, <1>6, <1>8, <2>2, <2>3, <2>4, <2>10 DEF ServerDetails
  <1>11. CASE UNCHANGED pending
    BY <1>10, <1>11
  <1>12. CASE Push(NextLoop, Functor("established", n)) /\ UNCHANGED reading
    <2>1. Functor("established", n) \in Functors
      BY DEF Functor, Functors, Owning
    <2> QED
      BY <1>4, <1>10, <1>12, <2>1, PushQueues
  <1> QED
    BY <1>11, <1>12 DEF Create

LEMMA ServerStep == ServerIInv /\ [Next]_vars => ServerIInv'
  <1> SUFFICES ASSUME ServerIInv, [Next]_vars PROVE ServerIInv'
    OBVIOUS
  <1>1. CASE UNCHANGED vars
    <2>1. /\ UNCHANGED <<poolVars, serverVars, entityVars, queueVars, loopVars, clientVars>>
          /\ UNCHANGED fate
      BY <1>1 DEF vars
    <2>2. UNCHANGED <<numThreads, poolSize, next, phase, started, comEntities, home, state,
                      reading, pending, batch, ran, place, active, guard, client, calls,
                      calling, lateCall>>
      BY <2>1 DEF poolVars, serverVars, entityVars, queueVars, loopVars, clientVars
    <2>3. TypeOK' /\ RawPointersAreGood' /\ EstablishedWhileOpened'
      BY <2>1, <2>2 DEF ServerIInv, TypeOK, RawPointersAreGood, EstablishedWhileOpened
    <2>4. fate' = "ok" => ServerDetails'
      BY <2>1, <2>2
      DEF ServerIInv, ServerDetails, NextInPool, OnlyCreated, HeldWereRead, AtHome, LoopPlaces,
          QueuesKeep, EstablishedOnce, Created, Owns, IsEstablished
    <2> QED
      BY <2>3, <2>4 DEF ServerIInv
  <1>2. CASE Next
    <2>0. fate = "ok" /\ TypeOK /\ ServerDetails
      BY <1>2, ServerRuns
    <2>1. TypeOK'
      BY <1>2, ServerTypes
    <2>2. RawPointersAreGood' /\ EstablishedWhileOpened'
      BY <1>2, ServerSafeStep
    <2>3. ASSUME fate' = "ok" PROVE ServerDetails'
      <3>1. \A opened, got \in BOOLEAN : SerialInit(opened, got) \in BOOLEAN
        BY DEF SerialInit
      <3>2. CASE \E n \in Names, opened, got \in BOOLEAN :
                   Create(n, SerialInit(opened, got))
        BY <2>0, <2>1, <2>3, <3>1, <3>2, CreateKeeps
      <3>3. CASE (\E k \in 0 .. MaxThreads : SetThreadNum(k)) \/ Start \/ JoinThreads \/ Gone
        BY <2>0, <3>3, SetUpKeeps
      <3>4. CASE \E n \in Names : DestroyOne(n)
        BY <2>0, <3>4, DestroyKeeps
      <3>5. CASE \E l \in Loops : MessageCallback(l)
        BY <2>0, <2>1, <3>5, CallbackKeeps
      <3>6. ASSUME NEW l \in Loops, LoopStep(l)
            PROVE  ServerDetails'
        <4>1. CASE \/ \E chans \in SUBSET reading : Poll(l, chans)
                   \/ \E n \in active[l] : HandleEvent(l, n)
                   \/ EventHandled(l)
          BY <2>0, <4>1, EventsKeep
        <4>2. CASE RunFunctor(l)
          BY <2>0, <2>1, <2>3, <4>2, RunKeeps
        <4>3. CASE Swap(l) \/ FunctorsDone(l) \/ Exit(l)
          BY <2>0, <4>3, QueueStepsKeep
        <4> QED
          BY <3>6, <4>1, <4>2, <4>3 DEF LoopStep
      <3>7. CASE ClientPosts
        BY <2>0, <2>3, <3>7, PostsKeep
      <3>8. CASE \E n \in Names : ClientDrops(n) \/ \E kind \in {"send", "shutdown"} : ClientCalls(n, kind)
        BY <2>0, <3>8, ClientKeeps
      <3> QED
        BY <1>2, <3>2, <3>3, <3>4, <3>5, <3>6, <3>7, <3>8 DEF Next
    <2> QED
      BY <2>1, <2>2, <2>3 DEF ServerIInv
  <1> QED
    BY <1>1, <1>2

\* Raw pointers to an entity are good when they are used, for any number of
\* entities, threads and calls: in a loop of the pool unless a client posts once
\* the destructor has begun, in the base loop and the poller until it has.
THEOREM PointersGood == Spec => []RawPointersAreGood
  <1>1. ServerIInv => RawPointersAreGood
    BY DEF ServerIInv
  <1> QED
    BY <1>1, ServerInitIInv, ServerStep, PTL DEF Spec

\* comEstablished's assert(state_ == kOpened) fails for no port that was opened:
\* nobody can shut an entity down before its comEstablished has run.
THEOREM OpenedWhenEstablished == Spec => []EstablishedWhileOpened
  <1>1. ServerIInv => EstablishedWhileOpened
    BY DEF ServerIInv
  <1> QED
    BY <1>1, ServerInitIInv, ServerStep, PTL DEF Spec
=============================================================================
