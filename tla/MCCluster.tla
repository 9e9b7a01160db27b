----------------------------- MODULE MCCluster -----------------------------
(* Small clusters for TLC: what the constants of Describer stand for.      *)
EXTENDS Sequences, TLC

CONSTANTS MCPods, MCNodes

MCKeys == MCPods \cup MCNodes
MCResourceOf == [k \in MCKeys |-> IF k \in MCPods THEN "pod" ELSE "node"]

\* A pod of one container, which asks for memory or for memory and a GPU.
Pod(requested, limited) ==
  [containers |-> << [requests |-> requested, limits |-> limited] >>,
   initContainers |-> << >>, overhead |-> << >>]
Plain == Pod([cpu |-> 1, memory |-> 1], [memory |-> 2])
Heavy == Pod([memory |-> 1, gpu |-> 1], [gpu |-> 1])
MCOneSpec == {Plain}
MCTwoSpecs == {Plain, Heavy}
MCAllocatables == {[cpu |-> 1, memory |-> 2], [cpu |-> 2, memory |-> 2, gpu |-> 1]}

\* Nodes with room for a second pod, for a cluster whose nodes are not watched.
MCRoomy == {[cpu |-> 2, memory |-> 2], [cpu |-> 4, memory |-> 4]}

MCSymmetry == Permutations(MCPods) \cup Permutations(MCNodes)
=============================================================================
