----------------------------- MODULE ConfigMgr -----------------------------
(***************************************************************************)
(* The configuration manager, src/bussiness_logic/ConfigMgr.cpp, as        *)
(* MainService.cpp's main() uses it: update() loads GlobalConf.xml and     *)
(* follows the files its items refer to.                                   *)
(*                                                                         *)
(* TinyXML is external: LoadFile fails, or yields any document, each time  *)
(* it is called (files are edited while the program runs).  The global     *)
(* document is the sequence of its root's children, each one a kind of     *)
(* child; a document of ports is the sequence of its root's ComConfig      *)
(* children, each one the sequence of its Item children.                   *)
(***************************************************************************)
EXTENDS Naturals, Sequences

CONSTANTS
  GlobalDocs,  \* what GlobalConf.xml may hold: sequences of Kinds
  ComDocs      \* what a file of ports may hold: sequences of sequences of Items

\* A child of the root: an element of another name, a comment that reads
\* `Config-Item' (FirstChild compares values, so it is found), an item that
\* lacks an attribute, and items of each type.
Kinds == {"other", "comment", "bad", "unknown", "ComConfig", "DBConfig",
          "MonitorUnitConfig"}

Fields == {"PortName", "BaudRate", "DataBits", "StopBits", "Parity"}
Texts == {"", "0", "1", "2", "9"}

\* A child called Item: a comment, an element that lacks an attribute, or a
\* name with its value.
Items == [name : Fields \cup {"comment", "invalid", "unknown"}, value : Texts]

ASSUME DocsAssumption ==
  /\ GlobalDocs \subseteq Seq(Kinds)
  /\ ComDocs \subseteq Seq(Seq(Items))

VARIABLES
  pathSet,      \* globalConfigPath_ is not empty
  callback,     \* configUpdateCallback_: "onUpdate" or "none"
  pc,           \* where update() is
  doc,          \* the global document in memory
  node,         \* parseConfigFile's node, an index into doc, or 0
  com,          \* the document of ports in memory
  comNode,      \* parseComConfig's node, an index into com, or 0
  subNode,      \* its subNode, an index into com[comNode], or 0
  port,         \* portName, baudRate, dataBits, stopBits and parity
  comEntityMap, \* comEntityMap_
  followed      \* history: the items of doc this update has followed

comVars == <<com, comNode, subNode, port>>
configVars == <<pathSet, callback, pc, doc, node, comVars, comEntityMap, followed>>

NoPort == [f \in Fields |-> ""]

-----------------------------------------------------------------------------
(***************************************************************************)
(* TinyXML.                                                                *)
(***************************************************************************)

\* The first child called Config-Item after position i, or 0.
NextItem(d, i) ==
  LET later == {j \in i + 1 .. Len(d) : d[j] # "other"}
  IN  IF later = {} THEN 0 ELSE CHOOSE j \in later : \A k \in later : j <= k

\* FirstChild of a sequence of children of one name.
FirstChild(s) == IF s = <<>> THEN 0 ELSE 1

-----------------------------------------------------------------------------
ConfigInit ==
  /\ pathSet \in BOOLEAN
  /\ callback = "onUpdate"
  /\ pc = "idle"
  /\ doc = <<>> /\ node = 0
  /\ com = <<>> /\ comNode = 0 /\ subNode = 0
  /\ port = NoPort
  /\ comEntityMap = <<>>
  /\ followed = <<>>

SetConfigUpdateCallback ==
  /\ pc = "idle"
  /\ callback' \in {"onUpdate", "none"}
  /\ UNCHANGED <<pathSet, pc, doc, node, comVars, comEntityMap, followed>>

\* update() and onUpdate, up to LoadFile; without a callback or a path it comes
\* back with nothing changed.
Update ==
  /\ pc = "idle"
  /\ callback = "onUpdate" /\ pathSet
  /\ pc' = "load"
  /\ followed' = <<>>
  /\ UNCHANGED <<pathSet, callback, doc, node, comVars, comEntityMap>>

\* parseConfigFile: LoadFile, RootElement and FirstChild("Config-Item").
LoadGlobal ==
  /\ pc = "load"
  /\ \/ pc' = "idle" /\ doc' = <<>> /\ node' = 0      \* LoadFile fails
     \/ pc' = "crashed" /\ doc' = <<>> /\ node' = 0   \* there is no root element
     \/ /\ doc' \in GlobalDocs
        /\ node' = NextItem(doc', 0)
        /\ pc' = "items"
  /\ UNCHANGED <<pathSet, callback, comVars, comEntityMap, followed>>

\* Mutant: a bad item ends the loop, as an empty node does.
GoOnStops(kind) ==
  IF kind \in {"comment", "bad"} THEN pc' = "idle" /\ UNCHANGED node
  ELSE node' = NextItem(doc, node) /\ UNCHANGED pc

\* Mutant: `continue' in a loop whose increment is at the end of the body.
GoOnStays(kind) ==
  IF kind = "comment" THEN pc' = "idle" /\ UNCHANGED node
  ELSE /\ node' = IF kind \in {"bad", "unknown"} THEN node ELSE NextItem(doc, node)
       /\ UNCHANGED pc

\* The end of a turn of the loop over the items: `break' at a node that is
\* not an element, else its increment.
GoOn(kind) ==
  IF kind = "comment" THEN pc' = "idle" /\ UNCHANGED node
  ELSE node' = NextItem(doc, node) /\ UNCHANGED pc

\* A turn of the loop for a node that is not an element, a bad item, or one of
\* an unknown type.
SkipItem ==
  /\ pc = "items" /\ node # 0
  /\ doc[node] \in {"comment", "bad", "unknown"}
  /\ GoOn(doc[node])
  /\ UNCHANGED <<pathSet, callback, doc, comVars, comEntityMap, followed>>

\* parseDBConfig and parseMonitorUnitConfig put a file name together, no more.
ParseNameOnly(kind) ==
  /\ pc = "items" /\ node # 0
  /\ doc[node] = kind
  /\ followed' = Append(followed, node)
  /\ GoOn(kind)
  /\ UNCHANGED <<pathSet, callback, doc, comVars, comEntityMap>>

ParseDBConfig == ParseNameOnly("DBConfig")
ParseMonitorUnitConfig == ParseNameOnly("MonitorUnitConfig")

\* A ComConfig item: parseComConfig up to its loop.
LoadCom ==
  /\ pc = "items" /\ node # 0
  /\ doc[node] = "ComConfig"
  /\ followed' = Append(followed, node)
  /\ \/ GoOn("ComConfig") /\ UNCHANGED comVars         \* LoadFile fails
     \/ pc' = "crashed" /\ UNCHANGED <<node, comVars>> \* there is no root element
     \/ /\ com' \in ComDocs
        /\ comNode' = FirstChild(com')
        /\ port' = NoPort
        /\ pc' = "ports"
        /\ UNCHANGED <<node, subNode>>
  /\ UNCHANGED <<pathSet, callback, doc, comEntityMap>>

\* The loop over the items is left: parseConfigFile returns.
ItemsDone ==
  /\ pc = "items" /\ node = 0
  /\ pc' = "idle"
  /\ UNCHANGED <<pathSet, callback, doc, node, comVars, comEntityMap, followed>>

-----------------------------------------------------------------------------
(***************************************************************************)
(* The loops of parseComConfig.                                            *)
(***************************************************************************)

\* `node->NextSibling("ComConfig")' and `subNode->NextSibling("Item")', the
\* increments of both loops: the result is dropped, the node stays.
NextSibling(i) == i

\* The head of the outer loop: it is left, or a turn starts with names that
\* hide the outer ones; stopBits is not among them and keeps its value.
NextPort ==
  /\ pc = "ports"
  /\ IF comNode = 0
     THEN /\ node' = NextItem(doc, node)
          /\ pc' = "items"
          /\ UNCHANGED <<subNode, port>>
     ELSE /\ subNode' = FirstChild(com[comNode])
          /\ port' = [NoPort EXCEPT !["StopBits"] = port["StopBits"]]
          /\ pc' = "fields"
          /\ UNCHANGED node
  /\ UNCHANGED <<pathSet, callback, doc, com, comNode, comEntityMap, followed>>

\* A turn of the inner loop.
ReadField ==
  /\ pc = "fields" /\ subNode # 0
  /\ LET item == com[comNode][subNode] IN
       IF item.name = "comment"
       THEN pc' = "crashed" /\ UNCHANGED <<port, subNode>>
       ELSE /\ port' = IF item.name \in Fields
                       THEN [port EXCEPT ![item.name] = item.value] ELSE port
            /\ subNode' = NextSibling(subNode)
            /\ UNCHANGED pc
  /\ UNCHANGED <<pathSet, callback, doc, node, com, comNode, comEntityMap, followed>>

Parity(text) == CASE text = "1" -> "MB_PAR_ODD" [] text = "2" -> "MB_PAR_EVEN"
                  [] OTHER -> "MB_PAR_NONE"

\* The ComEntity of a port: the stop bits are not passed on.
Entity(p) ==
  [portName |-> p["PortName"], dataBits |-> p["DataBits"],
   baudRate |-> p["BaudRate"], parity |-> Parity(p["Parity"])]

\* The inner loop is left: comEntityMap_[portName] = comEntity if every
\* value is there, and the outer loop's increment.
MakePort ==
  /\ pc = "fields" /\ subNode = 0
  /\ comEntityMap' =
       IF \A f \in Fields : port[f] # ""
       THEN [n \in DOMAIN comEntityMap \cup {port["PortName"]} |->
               IF n = port["PortName"] THEN Entity(port) ELSE comEntityMap[n]]
       ELSE comEntityMap
  /\ comNode' = NextSibling(comNode)
  /\ pc' = "ports"
  /\ UNCHANGED <<pathSet, callback, doc, node, com, subNode, port, followed>>

Parse ==
  \/ LoadGlobal \/ SkipItem \/ ParseDBConfig \/ ParseMonitorUnitConfig \/ LoadCom
  \/ ItemsDone \/ NextPort \/ ReadField \/ MakePort

ConfigNext == SetConfigUpdateCallback \/ Update \/ Parse

ConfigSpec == ConfigInit /\ [][ConfigNext]_configVars

\* The thread in update() runs on.
FairConfigSpec == ConfigSpec /\ WF_configVars(Parse)

-----------------------------------------------------------------------------
ConfigTypeOK ==
  /\ pathSet \in BOOLEAN
  /\ callback \in {"onUpdate", "none"}
  /\ pc \in {"idle", "load", "items", "ports", "fields", "crashed"}
  /\ doc \in Seq(Kinds) /\ node \in 0 .. Len(doc)
  /\ com \in Seq(Seq(Items)) /\ comNode \in 0 .. Len(com)
  /\ pc = "fields" => comNode # 0 /\ subNode \in 0 .. Len(com[comNode])
  /\ port \in [Fields -> Texts]

\* The items an update must follow: the well-formed ones of a known type, up
\* to the first node that is not an element.
Expected ==
  {i \in 1 .. Len(doc) :
     /\ doc[i] \in {"ComConfig", "DBConfig", "MonitorUnitConfig"}
     /\ \A j \in 1 .. i : doc[j] # "comment"}

\* The sequence f lists the positions in set, each once and in order.
Lists(f, set) ==
  /\ \A i, j \in DOMAIN f : i < j => f[i] < f[j]
  /\ {f[i] : i \in DOMAIN f} = set

\* An update that returns has followed each of them once and in the order of
\* the file: a bad item, an unknown type or a file that does not load costs
\* no other item its turn.
EachItemFollowed == pc = "idle" => Lists(followed, Expected)

\* A ComConfig child was found: neither loop of parseComConfig advances.
Trapped == pc \in {"ports", "fields"} /\ com # <<>>

\* Every update returns, whatever the files hold, unless a document has no
\* root element or a file of ports has a ComConfig child.
UpdateReturns == pc # "idle" ~> pc = "idle" \/ pc = "crashed" \/ Trapped
=============================================================================
