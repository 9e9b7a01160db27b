----------------------------- MODULE Describer -----------------------------
(***************************************************************************)
(* The StreamingResourceDescriber (pkg/informer/describer.go): it mirrors  *)
(* the cluster's pods and nodes in podList and nodeList and keeps, per     *)
(* node, what the pods request, what they are limited to and what the node *)
(* can allocate, so that CheckAvailability can say whether a virtual       *)
(* machine still fits somewhere.                                           *)
(*                                                                         *)
(* The maps are fed by the events of EventPipeline.  Every handler is one  *)
(* action, which includes the handleError and Done that consume calls      *)
(* after it: nobody else touches the maps or the event in between.         *)
(***************************************************************************)
EXTENDS EventPipeline, ResourceLists, FiniteSets

CONSTANTS PodSpecs,             \* what a pod may ask for (see ResourceLists)
          Allocatables,         \* what a node may offer: resource lists
          NoNode,               \* Spec.NodeName = ""
          SkipCompressible,     \* the configuration's skipCompressibleResource
          NodeInformerStarted   \* FALSE as the code stands: Run's call is
                                \* commented out

Pods  == {k \in Keys : ResourceOf[k] = "pod"}
Nodes == {k \in Keys : ResourceOf[k] = "node"}

\* A pod that failed and one that succeeded are alike: both have ended.
PodObjects ==
  {p \in [phase : {"Pending", "Running", "Ended"}, node : Nodes \cup {NoNode},
          spec : PodSpecs] : p.phase = "Running" => p.node # NoNode}
NodeObjects == [allocatable : Allocatables]
ObjectsOf(k) == IF k \in Pods THEN PodObjects ELSE NodeObjects

ASSUME DescriberAssumption ==
  /\ \A k \in Keys : ResourceOf[k] \in {"pod", "node"}
  /\ NoNode \notin Nodes
  /\ Unread \notin Keys
  /\ {Absent, Unread} \cap (PodObjects \cup NodeObjects) = {}
  /\ \A s \in PodSpecs : IsPodSpec(s)
  /\ \A a \in Allocatables : IsResourceList(a)
  /\ SkipCompressible \in BOOLEAN
  /\ NodeInformerStarted \in BOOLEAN

VARIABLES podList,      \* [Pods -> pod or Absent]
          nodeList,     \* [Nodes -> node or Absent]
          requests, limits, allocatable   \* ResourceMaps

mapVars == << podList, nodeList, requests, limits, allocatable >>
vars == << pipeVars, mapVars >>

Init ==
  /\ PipeInit
  /\ podList = [k \in Pods |-> Absent]
  /\ nodeList = [n \in Nodes |-> Absent]
  /\ requests = NewResourceMap
  /\ limits = NewResourceMap
  /\ allocatable = NewResourceMap

Ended(pod) == pod.phase = "Ended"
Unscheduled(pod) == pod.phase = "Pending" /\ pod.node = NoNode

----------------------------------------------------------------------------
(* sync: an object that is gone goes to the delete handler whatever the    *)
(* verb says, and a "delete" whose object is there to the update handler.  *)

Adding(e)   == Handling(e) /\ object # Absent /\ e.verb = "add"
Updating(e) == Handling(e) /\ object # Absent /\ e.verb # "add"
\* Variant for the mutation check: sync trusts the verb, not the store.
DeletingByVerb(e) == Handling(e) /\ e.verb = "delete"
Deleting(e) == Handling(e) /\ object = Absent

\* Variant: a pod without a node is booked like any other.
handlePodAdditionAnyNode(e) ==
  /\ Adding(e)
  /\ e.key \in Pods
  /\ IF Ended(object)
       THEN UNCHANGED mapVars
       ELSE /\ podList' = [podList EXCEPT ![e.key] = object]
            /\ requests' = mapAdd(requests, object.node, PodRequests(object.spec))
            /\ limits' = mapAdd(limits, object.node, PodLimits(object.spec))
            /\ UNCHANGED << nodeList, allocatable >>
  /\ Finish(e, FALSE)

handlePodAddition(e) ==
  /\ Adding(e)
  /\ e.key \in Pods
  /\ \/ /\ Ended(object)
        /\ UNCHANGED mapVars
        /\ Finish(e, FALSE)
     \/ /\ Unscheduled(object)                 \* ErrorPodPendingWithNoNode
        /\ podList' = [podList EXCEPT ![e.key] = object]
        /\ UNCHANGED << nodeList, requests, limits, allocatable >>
        /\ Finish(e, TRUE)
     \/ /\ ~Ended(object) /\ ~Unscheduled(object)
        /\ podList' = [podList EXCEPT ![e.key] = object]
        /\ requests' = mapAdd(requests, object.node, PodRequests(object.spec))
        /\ limits' = mapAdd(limits, object.node, PodLimits(object.spec))
        /\ UNCHANGED << nodeList, allocatable >>
        /\ Finish(e, FALSE)

\* What the deletion of a pod and the end of one have in common.
Release(k, pod) ==
  /\ requests' = mapSub(requests, pod.node, PodRequests(pod.spec))
  /\ limits' = mapSub(limits, pod.node, PodLimits(pod.spec))
  /\ podList' = [podList EXCEPT ![k] = Absent]
  /\ UNCHANGED << nodeList, allocatable >>

\* Variant: the end of a pod is not looked at.
handlePodUpdateKeepsEnded(e) ==
  /\ Updating(e)
  /\ e.key \in Pods
  /\ podList' = [podList EXCEPT ![e.key] = object]
  /\ UNCHANGED << nodeList, requests, limits, allocatable >>
  /\ Finish(e, FALSE)

\* Variant: an ended pod is taken off whether or not it is listed.
handlePodUpdateUnlisted(e) ==
  /\ Updating(e)
  /\ e.key \in Pods
  /\ IF Ended(object)
       THEN Release(e.key, object)
       ELSE /\ podList' = [podList EXCEPT ![e.key] = object]
            /\ UNCHANGED << nodeList, requests, limits, allocatable >>
  /\ Finish(e, FALSE)

handlePodUpdate(e) ==
  /\ Updating(e)
  /\ e.key \in Pods
  /\ \/ /\ Ended(object)
        /\ IF podList[e.key] # Absent THEN Release(e.key, object)
                                      ELSE UNCHANGED mapVars
     \/ /\ ~Ended(object)
        /\ podList' = [podList EXCEPT ![e.key] = object]
        /\ UNCHANGED << nodeList, requests, limits, allocatable >>
  /\ Finish(e, FALSE)

\* The object is gone: what was booked is known from podList alone.
handlePodDeletion(e) ==
  /\ Deleting(e)
  /\ e.key \in Pods
  /\ IF podList[e.key] # Absent THEN Release(e.key, podList[e.key])
                                ELSE UNCHANGED mapVars
  /\ Finish(e, FALSE)

handleNodeAddition(e) ==
  /\ Adding(e)
  /\ e.key \in Nodes
  /\ nodeList' = [nodeList EXCEPT ![e.key] = object]
  /\ allocatable' = mapAdd(allocatable, e.key, object.allocatable)
  /\ UNCHANGED << podList, requests, limits >>
  /\ Finish(e, FALSE)

\* Variant: an update of a node is ignored.
handleNodeUpdateIgnored(e) ==
  /\ Updating(e)
  /\ e.key \in Nodes
  /\ UNCHANGED mapVars
  /\ Finish(e, FALSE)

handleNodeUpdate(e) ==
  /\ Updating(e)
  /\ e.key \in Nodes
  /\ nodeList' = [nodeList EXCEPT ![e.key] = object]
  /\ UNCHANGED << podList, requests, limits, allocatable >>
  /\ Finish(e, FALSE)

\* Variant: the node leaves the list and its resources stay.
handleNodeDeletionListOnly(e) ==
  /\ Deleting(e)
  /\ e.key \in Nodes
  /\ nodeList' = [nodeList EXCEPT ![e.key] = Absent]
  /\ UNCHANGED << podList, requests, limits, allocatable >>
  /\ Finish(e, nodeList[e.key] = Absent)

\* A node that is not on the list is an error here, and so retried.
handleNodeDeletion(e) ==
  /\ Deleting(e)
  /\ e.key \in Nodes
  /\ \/ /\ nodeList[e.key] = Absent
        /\ UNCHANGED mapVars
        /\ Finish(e, TRUE)
     \/ /\ nodeList[e.key] # Absent
        /\ nodeList' = [nodeList EXCEPT ![e.key] = Absent]
        /\ allocatable' = mapDeleteNode(allocatable, e.key)
        /\ UNCHANGED << podList, requests, limits >>
        /\ Finish(e, FALSE)

\* The describer's answer to whether req still fits on some node.
Available(req) ==
  CheckAvailability(req, {n \in Nodes : nodeList[n] # Absent}, requests,
                    allocatable, SkipCompressible)

----------------------------------------------------------------------------

ObservePod(k) == /\ \E new \in PodObjects \cup {Absent} : Observe(k, new)
                 /\ UNCHANGED mapVars

\* Run's call that starts the node informer is commented out: as the code
\* stands NodeInformerStarted is FALSE and no event of a node exists.  TRUE is
\* the code with that line; its behaviours include those of FALSE, so what
\* always holds with it holds without it.  What is said to happen in the end,
\* and what the code does wrong, is run with FALSE.
ObserveNode(n) == /\ NodeInformerStarted
                  /\ \E new \in NodeObjects \cup {Absent} : Observe(n, new)
                  /\ UNCHANGED mapVars

DeliverTo(r) == Deliver(r) /\ UNCHANGED mapVars
Retry(e)     == RetryDue(e) /\ UNCHANGED mapVars
Take         == (Get \/ Read) /\ UNCHANGED mapVars

Handle(e) ==
  \/ handlePodAddition(e)
  \/ handlePodUpdate(e)
  \/ handlePodDeletion(e)
  \/ handleNodeAddition(e)
  \/ handleNodeUpdate(e)
  \/ handleNodeDeletion(e)

Next ==
  \/ \E k \in Pods : ObservePod(k)
  \/ \E n \in Nodes : ObserveNode(n)
  \/ \E r \in Resources : DeliverTo(r)
  \/ \E e \in Event : Retry(e) \/ Handle(e)
  \/ Take

Spec == Init /\ [][Next]_vars

\* The goroutines of client-go deliver what they hold, a delay ends, and
\* the worker loops: each keeps running while the process does.
Fairness ==
  /\ \A r \in Resources : WF_vars(DeliverTo(r))
  /\ \A e \in Event : WF_vars(Retry(e))
  /\ WF_vars(Take)
  /\ WF_vars(\E e \in Event : Handle(e))

FairSpec == Spec /\ Fairness

----------------------------------------------------------------------------
(* Properties.                                                             *)

\* What the map of key k should hold for an object of the store: a pod that
\* has ended is not listed.
Listed(k, o) == IF k \in Pods /\ o # Absent /\ Ended(o) THEN Absent ELSE o

\* The state keeps its shape; in particular no book is ever opened for a
\* pod without a node (ResourceMap.add with an empty node name).
TypeOK ==
  /\ PipeTypeOK
  /\ \A k \in Keys : store[k] \in ObjectsOf(k) \cup {Absent}
  /\ object # Unread => object \in ObjectsOf(processing.key) \cup {Absent}
  /\ podList \in [Pods -> PodObjects \cup {Absent}]
  /\ nodeList \in [Nodes -> NodeObjects \cup {Absent}]
  /\ IsResourceMap(requests, Nodes)
  /\ IsResourceMap(limits, Nodes)
  /\ IsResourceMap(allocatable, Nodes)

Truth == [k \in Keys |-> Listed(k, store[k])]
View  == [k \in Keys |-> IF k \in Pods THEN podList[k] ELSE nodeList[k]]

\* podList holds exactly the live pods of the informer's store, as they are
\* there, whenever no event of the pod is on its way: no order of delivery,
\* retry and reading of the store leaves a stale pod or loses one.
PodListConverged == \A k \in Pods : ~Pending(k) => podList[k] = Listed(k, store[k])

\* The same for nodeList.
NodeListConverged == \A n \in Nodes : ~Pending(n) => nodeList[n] = store[n]

\* In each of the three ledgers the total of a resource is the sum of what
\* the nodes hold of it: add, sub and deleteNode change both or neither,
\* also when they skip a node or a resource they do not know.
TotalsAgree ==
  \A rm \in {requests, limits, allocatable} :
    \A r \in DOMAIN rm.allNode :
      rm.allNode[r] = SumFunction([n \in DOMAIN rm.perNode |-> Amount(rm.perNode[n], r)])

\* Once the cluster stops changing, podList and nodeList come to agree with
\* it and stay so, whatever was retried or dropped on the way.
EventuallyConverged ==
  <>[](/\ \A k \in Pods : podList[k] = Listed(k, store[k])
       /\ \A n \in Nodes : nodeList[n] = store[n])

\* No event is retried for ever: an event that keeps failing is dropped and
\* the worker comes to rest with nothing waiting.
RetriesEnd == <>[](waiting = {} /\ queue = << >> /\ processing = Nothing)

----------------------------------------------------------------------------
(* Why the maps converge: the inductive invariant behind PodListConverged, *)
(* NodeListConverged and MirrorSpec.                                       *)

SomeOnWay(k)   == \E e \in Event : e.key = k /\ OnWay(e)
ChangeOnWay(k) == \E e \in Event : e.key = k /\ e.verb # "add" /\ OnWay(e)

\* The object in the worker's hands is outdated only if another event of the
\* key will make the worker look again; and if it shows a pod that is gone
\* by now, that event is not an "add", which might not take the pod off.
ReadIsFollowed ==
  object # Unread =>
    LET k == processing.key
    IN  /\ object # store[k] => SomeOnWay(k)
        /\ Listed(k, object) # Absent /\ Truth[k] = Absent => ChangeOnWay(k)

\* A listed pod that is gone will be taken off: by an event on its way that
\* is not an "add", or by the one the worker processes.
EndIsFollowed ==
  \A k \in Pods : podList[k] # Absent /\ Truth[k] = Absent =>
    \/ ChangeOnWay(k)
    \/ /\ processing # Nothing
       /\ processing.key = k
       /\ processing.verb # "add"
       /\ object # Unread => Listed(k, object) = Absent

\* Both maps agree with the stores where nothing is on its way, and what
\* is needed to keep it so while the worker has read and not yet written.
Converging ==
  /\ \A k \in Keys : ~Pending(k) => View[k] = Truth[k]
  /\ ReadIsFollowed
  /\ EndIsFollowed

----------------------------------------------------------------------------
(* The describer implements Mirror: an entry is stale while one of its     *)
(* events is on its way.                                                   *)

Mirrored == INSTANCE Mirror WITH
  Values  <- PodObjects \cup NodeObjects \cup {Absent},
  NoKey   <- Unread,
  truth   <- Truth,
  view    <- View,
  stale   <- {k \in Keys : Pending(k)},
  looking <- IF object = Unread THEN Unread ELSE processing.key,
  seen    <- IF object = Unread THEN Unread ELSE Listed(processing.key, object)

\* podList and nodeList are a mirror of the cluster: what a handler writes is
\* what the store held for that key after all that was written before, and
\* an entry with no event on its way is up to date.
MirrorSpec == Mirrored!Spec
=============================================================================
