---------------------------- MODULE MCFunctions -----------------------------
(* Small inputs for the functions of PureFunctions.                        *)
EXTENDS PureFunctions, TLC

MCNames == {"cpu", "memory"}
Lists(amounts) == UNION {[S -> amounts] : S \in SUBSET MCNames}
Containers == [requests : Lists({1, 2}), limits : {NoResources, [memory |-> 0]}]
                \cup {[requests |-> [cpu |-> 3], limits |-> [cpu |-> 1, memory |-> 1]]}
MCPodSpecs == [containers     : UNION {[1..n -> Containers] : n \in 0..2},
               initContainers : UNION {[1..n -> Containers] : n \in 0..1},
               overhead       : {NoResources, [memory |-> 1], [cpu |-> 2, memory |-> 1]}]

MCNodes == {"n1", "n2"}
MCLedgers == {NewResourceMap, mapAdd(NewResourceMap, "n1", [memory |-> 2])}

MCConfig == [namespace |-> "kauloud", baseImageNamespace |-> "base",
             storageClassName |-> "ceph"]
MCAnyImage == [name |-> "i1", size |-> 1, osMeta |-> << >>]

\* Users whose ids begin and end alike, or with a token of the names, and
\* uuids that share their time.
MCTokens == Fixed \cup {"a", "1"}
MCAsks == [user : {<< "a" >>, << "a", "1" >>, << "1", "a" >>, << "vm", "a" >>},
           uuid : {<< "1", "x" >>, << "1", "y" >>, << "a", "x" >>},
           imageCode : {"c1", "c2"}]

Annotations == {<< >>, [OsType |-> "linux"]}
                 \cup [imagecode : {"c1", "c2"}]
                 \cup [imagecode : {"c1"}, OsType : {"linux"}, OsVersion : {"18"}]
MCVolumes == [name : {"i1", "i2"}, namespace : {"base", "other"}, dvType : {"base-image"},
              size : {1}, annotations : Annotations]
               \cup [name : {"i3"}, namespace : {"base"}, dvType : {"base-image", "vm-image"},
                     size : {2}, annotations : [imagecode : {"c1", "c2"}]]
MCListings == {vs \in UNION {[1..n -> MCVolumes] : n \in 0..3} :
                 \A i, j \in DOMAIN vs :
                   vs[i].name = vs[j].name /\ vs[i].namespace = vs[j].namespace => i = j}

\* Numbers on both sides of 0, of the last of UintSize = 8 and of IntMax = 15,
\* and both signs of what is no number for Atoi.
Texts == {Whole(n) : n \in {-16, -8, -1, 0, 2, 7, 8, 15, 17}}
           \cup {Milli(500), Milli(-1500), Empty, Malformed}
MCResources == [cpu : Texts, memory : Texts,
                gpu : [enabled : BOOLEAN, deviceName : {"", "gpu", "cpu"}]]
                 \cup {DefaultInstanceTypes[i].resources : i \in DOMAIN DefaultInstanceTypes}

MCCodes == {0, 1, 5}
MCNewTypes == [code : MCCodes, name : {"", "x"}, resources : {[cpu |-> Whole(1)]}]
=============================================================================
