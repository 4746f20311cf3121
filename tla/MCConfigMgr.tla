---------------------------- MODULE MCConfigMgr ----------------------------
(* Documents for TLC.                                                      *)
EXTENDS ConfigMgr

\* Every global document of up to three children.
McGlobalDocs == UNION {[1 .. n -> Kinds] : n \in 0 .. 3}

\* Files of ports: without a ComConfig child (the shipped dat/RS485.xml has
\* ComConfig as its root), with an empty one, and with Items of each sort.
McItem(name, value) == [name |-> name, value |-> value]
McComDocs ==
  {<<>>, << <<>> >>, << <<McItem("comment", "")>> >>}
    \cup {<< <<McItem(n, "9"), McItem("Parity", "1")>>, <<>> >> :
            n \in Fields \cup {"invalid", "unknown"}}
=============================================================================
