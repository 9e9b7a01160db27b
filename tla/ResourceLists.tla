--------------------------- MODULE ResourceLists ---------------------------
(***************************************************************************)
(* The arithmetic of resource lists (pkg/informer/tools.go) and of the     *)
(* per-node ledgers built from them (ResourceMap, in describer.go).        *)
(*                                                                         *)
(* A corev1.ResourceList is a function from the names it holds to amounts; *)
(* a name that is missing and a name held at zero are different lists, and *)
(* the code tells them apart.  A Quantity has arbitrary precision, so it   *)
(* is an integer here.  A ResourceMap is a record of the list of each node *)
(* it knows (perNode) and of the total (allNode).                          *)
(***************************************************************************)
EXTENDS Integers, FiniteSets, Sequences, SequencesExt

NoResources == << >>

\* What a list holds of a resource, nothing when the name is missing.
Amount(list, r) == IF r \in DOMAIN list THEN list[r] ELSE 0

addResourceList(list, new) ==
  [r \in DOMAIN list \cup DOMAIN new |-> Amount(list, r) + Amount(new, r)]

maxResourceList(list, new) ==
  [r \in DOMAIN list \cup DOMAIN new |->
     IF r \notin DOMAIN list \/ (r \in DOMAIN new /\ new[r] > list[r])
       THEN new[r] ELSE list[r]]

\* Variant for the mutation check: the demand is not added.
expectedWithoutDemand(now, req) == now

\* Only the resources the node's list already holds are carried forward.
expectedAfterAllocation(now, req) ==
  [r \in DOMAIN now |-> now[r] + Amount(req, r)]

----------------------------------------------------------------------------
(* PodRequestsAndLimits.  A pod spec is a record of the sequences of its   *)
(* containers and initContainers, each a record of requests and limits,    *)
(* and of its overhead list (NoResources when the field is nil).           *)

\* The lists of one kind, "requests" or "limits", of the containers.
listsOf(containers, kind) == [i \in DOMAIN containers |-> containers[i][kind]]

sumOfLists(lists) == FoldLeft(addResourceList, NoResources, lists)
atLeast(list, lists) == FoldLeft(maxResourceList, list, lists)

beforeOverhead(spec, kind) ==
  atLeast(sumOfLists(listsOf(spec.containers, kind)), listsOf(spec.initContainers, kind))

\* Variant: the overhead is added before the init containers are looked at.
PodRequestsOverheadFirst(spec) ==
  atLeast(addResourceList(sumOfLists(listsOf(spec.containers, "requests")), spec.overhead),
          listsOf(spec.initContainers, "requests"))

PodRequests(spec) == addResourceList(beforeOverhead(spec, "requests"), spec.overhead)

PodLimits(spec) ==
  LET limits == beforeOverhead(spec, "limits")
  IN  [r \in DOMAIN limits |->
         IF limits[r] = 0 THEN 0 ELSE limits[r] + Amount(spec.overhead, r)]

----------------------------------------------------------------------------
(* ResourceMap.                                                            *)

NewResourceMap == [perNode |-> << >>, allNode |-> NoResources]

KnowsNode(rm, node) == node \in DOMAIN rm.perNode

\* What a ledger says a node holds of a resource.
Held(rm, node, r) == IF KnowsNode(rm, node) THEN Amount(rm.perNode[node], r) ELSE 0

mapAdd(rm, node, resources) ==
  [perNode |-> [n \in DOMAIN rm.perNode \cup {node} |->
                  IF n # node THEN rm.perNode[n]
                  ELSE addResourceList(IF KnowsNode(rm, node) THEN rm.perNode[node]
                                       ELSE NoResources, resources)],
   allNode |-> addResourceList(rm.allNode, resources)]

\* Variant: the early return for an unknown node comes after the total.
mapSubTotalFirst(rm, node, resources) ==
  [perNode |-> IF ~KnowsNode(rm, node) THEN rm.perNode
               ELSE [rm.perNode EXCEPT ![node] =
                       [r \in DOMAIN @ |-> @[r] - Amount(resources, r)]],
   allNode |-> [r \in DOMAIN rm.allNode |-> rm.allNode[r] - Amount(resources, r)]]

\* A resource the node does not hold is skipped in the total as well.
mapSub(rm, node, resources) ==
  IF ~KnowsNode(rm, node) THEN rm
  ELSE LET held == rm.perNode[node]
       IN  [perNode |-> [rm.perNode EXCEPT ![node] =
                           [r \in DOMAIN held |-> held[r] - Amount(resources, r)]],
            allNode |-> [r \in DOMAIN rm.allNode |->
                           IF r \in DOMAIN held
                             THEN rm.allNode[r] - Amount(resources, r)
                             ELSE rm.allNode[r]]]

\* Variant: the node is removed and the total left alone.
mapDeleteNodeOnly(rm, node) ==
  [rm EXCEPT !.perNode = [n \in DOMAIN rm.perNode \ {node} |-> rm.perNode[n]]]

mapDeleteNode(rm, node) ==
  IF ~KnowsNode(rm, node) THEN rm
  ELSE LET emptied == mapSub(rm, node, rm.perNode[node])
       IN  [perNode |-> [n \in DOMAIN rm.perNode \ {node} |-> rm.perNode[n]],
            allNode |-> emptied.allNode]

IsResourceList(list) ==
  /\ list = [r \in DOMAIN list |-> list[r]]
  /\ \A r \in DOMAIN list : list[r] \in Int

\* What the API server admits as a pod's resources: no amount is negative.
IsDemand(list) == IsResourceList(list) /\ \A r \in DOMAIN list : list[r] >= 0
IsPodSpec(spec) ==
  /\ \A containers \in {spec.containers, spec.initContainers} :
       /\ IsFiniteSet(DOMAIN containers) /\ DOMAIN containers \subseteq Nat
       /\ \A i \in DOMAIN containers, kind \in {"requests", "limits"} :
            IsDemand(containers[i][kind])
  /\ IsDemand(spec.overhead)

IsResourceMap(rm, nodes) ==
  /\ rm = [perNode |-> rm.perNode, allNode |-> rm.allNode]
  /\ rm.perNode = [n \in DOMAIN rm.perNode |-> rm.perNode[n]]
  /\ DOMAIN rm.perNode \subseteq nodes
  /\ \A n \in DOMAIN rm.perNode : IsResourceList(rm.perNode[n])
  /\ IsResourceList(rm.allNode)

----------------------------------------------------------------------------
(* What the scheduler reserves for a pod, which the two lists are to say:  *)
(* init containers run one at a time before the others, so of each         *)
(* resource the pod needs the sum of its containers or its largest init    *)
(* container; the overhead comes on top of that.  Where there is no limit, *)
(* or a limit of zero, none is made by the overhead: an unlimited pod      *)
(* stays unlimited.                                                        *)

EffectiveAmount(spec, kind, r) ==
  LET each(containers) ==
        [i \in DOMAIN containers |-> Amount(containers[i][kind], r)]
  IN  Max({SumFunction(each(spec.containers))} \cup Range(each(spec.initContainers)))

AreEffective(spec, requestsOfPod, limitsOfPod, r) ==
  LET limit == EffectiveAmount(spec, "limits", r)
      overhead == Amount(spec.overhead, r)
  IN  /\ Amount(requestsOfPod, r) = EffectiveAmount(spec, "requests", r) + overhead
      /\ Amount(limitsOfPod, r) = IF limit = 0 THEN 0 ELSE limit + overhead

----------------------------------------------------------------------------
(* StreamingResourceDescriber.CheckAvailability, given the names on        *)
(* nodeList, the two ledgers it reads and the configuration's              *)
(* skipCompressibleResource.                                               *)

isExpectedEnough(node, expected, nodes, allocatable, skipCompressible) ==
  /\ node \in nodes
  /\ KnowsNode(allocatable, node)
  /\ \A r \in DOMAIN expected \ (IF skipCompressible THEN {"cpu"} ELSE {}) :
       /\ r \in DOMAIN allocatable.perNode[node]
       /\ allocatable.perNode[node][r] >= expected[r]

CheckAvailability(req, nodes, requests, allocatable, skipCompressible) ==
  \E node \in nodes :
    /\ KnowsNode(requests, node)
    /\ isExpectedEnough(node, expectedAfterAllocation(requests.perNode[node], req),
                        nodes, allocatable, skipCompressible)
=============================================================================
