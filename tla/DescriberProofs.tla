-------------------------- MODULE DescriberProofs --------------------------
(***************************************************************************)
(* The describer's maps are well-typed, converge to the informers' stores  *)
(* and implement Mirror; the totals of its three ledgers are the sums of   *)
(* the nodes; and, as long as none of the four causes of DescriberAudit    *)
(* has come up, its books are exact and its answers are true: for every    *)
(* set of pods, of nodes and of requests, every bound on retries and on    *)
(* changes, and with or without the node informer.                         *)
(***************************************************************************)
EXTENDS DescriberAudit, EventPipelineProofs, ResourceListsProofs

LEMMA KeyKinds ==
  /\ Pods \subseteq Keys /\ Nodes \subseteq Keys
  /\ Pods \cap Nodes = {}
  /\ \A k \in Keys : k \in Pods \/ k \in Nodes
BY DescriberAssumption DEF Pods, Nodes

\* A handler finishes the event it holds, and every event has one.
LEMMA HandleFinishes ==
  ASSUME NEW e \in Event, Handle(e)
  PROVE  /\ Handling(e)
         /\ \E failed \in BOOLEAN : Finish(e, failed)
BY DEF Handle, handlePodAddition, handlePodUpdate, handlePodDeletion,
       handleNodeAddition, handleNodeUpdate, handleNodeDeletion,
       Adding, Updating, Deleting

----------------------------------------------------------------------------
(* Types.                                                                  *)

LEMMA TypeInit == Init => TypeOK
<1> SUFFICES ASSUME Init PROVE TypeOK
  OBVIOUS
<1>1. PipeTypeOK
  BY PipelineAssumption DEF Init, PipeInit, PipeTypeOK
<1>2. /\ IsResourceMap(requests, Nodes)
      /\ IsResourceMap(limits, Nodes)
      /\ IsResourceMap(allocatable, Nodes)
  BY NewIsMap DEF Init
<1> QED BY <1>1, <1>2, KeyKinds DEF Init, PipeInit, TypeOK

\* A pod that is booked runs on a node: only one that is pending has none.
LEMMA BookedPodHasNode ==
  ASSUME NEW pod \in PodObjects, ~Ended(pod), ~Unscheduled(pod)
  PROVE  pod.node \in Nodes
BY DEF PodObjects, Ended, Unscheduled

LEMMA PodLists ==
  ASSUME NEW pod \in PodObjects
  PROVE  IsResourceList(PodRequests(pod.spec)) /\ IsResourceList(PodLimits(pod.spec))
BY DescriberAssumption, PodListsAreLists DEF PodObjects

\* Taking a pod off keeps the types, whatever the object says of its node.
LEMMA ReleaseType ==
  ASSUME TypeOK, NEW k \in Pods, NEW pod \in PodObjects, Release(k, pod)
  PROVE  /\ podList' \in [Pods -> PodObjects \cup {Absent}]
         /\ IsResourceMap(requests', Nodes)
         /\ IsResourceMap(limits', Nodes)
<1>1. IsResourceMap(requests', Nodes) /\ IsResourceMap(limits', Nodes)
  BY PodLists, SubKeepsMap DEF Release, TypeOK
<1> QED BY <1>1 DEF Release, TypeOK

LEMMA HandleType ==
  ASSUME TypeOK, NEW e \in Event, Handle(e)
  PROVE  TypeOK'
<1>1. Handling(e) /\ e.key \in Keys /\ PipeTypeOK
  BY HandleFinishes, EventParts DEF TypeOK
<1>2. /\ e = processing /\ object # Unread
      /\ object \in ObjectsOf(e.key) \cup {Absent}
  BY <1>1 DEF Handling, TypeOK
<1>3. PICK failed \in BOOLEAN : Finish(e, failed)
  BY HandleFinishes
<1>4. PipeTypeOK' /\ store' = store /\ object' = Unread
  BY <1>1, <1>3, FinishFacts DEF Finish
<1> DEFINE MapTypes == /\ podList \in [Pods -> PodObjects \cup {Absent}]
                       /\ nodeList \in [Nodes -> NodeObjects \cup {Absent}]
                       /\ IsResourceMap(requests, Nodes)
                       /\ IsResourceMap(limits, Nodes)
                       /\ IsResourceMap(allocatable, Nodes)
<1>5. MapTypes
  BY DEF TypeOK
<1>6. MapTypes'
  <2>1. CASE handlePodAddition(e)
    <3>1. object \in PodObjects /\ e.key \in Pods
      BY <1>2, <2>1 DEF handlePodAddition, Adding, ObjectsOf
    <3>2. CASE UNCHANGED mapVars
      BY <1>5, <3>2 DEF mapVars
    <3>3. CASE /\ podList' = [podList EXCEPT ![e.key] = object]
               /\ UNCHANGED << nodeList, requests, limits, allocatable >>
      BY <1>5, <3>1, <3>3
    <3>4. CASE /\ ~Ended(object) /\ ~Unscheduled(object)
               /\ podList' = [podList EXCEPT ![e.key] = object]
               /\ requests' = mapAdd(requests, object.node, PodRequests(object.spec))
               /\ limits' = mapAdd(limits, object.node, PodLimits(object.spec))
               /\ UNCHANGED << nodeList, allocatable >>
      <4>1. object.node \in Nodes
        BY <3>1, <3>4, BookedPodHasNode
      <4>2. IsResourceMap(requests', Nodes) /\ IsResourceMap(limits', Nodes)
        BY <1>5, <3>1, <3>4, <4>1, PodLists, AddKeepsMap
      <4> QED BY <1>5, <3>1, <3>4, <4>2
    <3> QED BY <2>1, <3>2, <3>3, <3>4 DEF handlePodAddition
  <2>2. CASE handlePodUpdate(e)
    <3>1. object \in PodObjects /\ e.key \in Pods
      BY <1>2, <2>2 DEF handlePodUpdate, Updating, ObjectsOf
    <3>2. CASE UNCHANGED mapVars
      BY <1>5, <3>2 DEF mapVars
    <3>3. CASE /\ podList' = [podList EXCEPT ![e.key] = object]
               /\ UNCHANGED << nodeList, requests, limits, allocatable >>
      BY <1>5, <3>1, <3>3
    <3>4. CASE Release(e.key, object)
      BY <1>5, <3>1, <3>4, ReleaseType DEF Release
    <3> QED BY <2>2, <3>2, <3>3, <3>4 DEF handlePodUpdate
  <2>3. CASE handlePodDeletion(e)
    <3>1. e.key \in Pods
      BY <2>3 DEF handlePodDeletion
    <3>2. CASE UNCHANGED mapVars
      BY <1>5, <3>2 DEF mapVars
    <3>3. CASE podList[e.key] # Absent /\ Release(e.key, podList[e.key])
      <4>1. podList[e.key] \in PodObjects
        BY <1>5, <3>1, <3>3
      <4> QED BY <1>5, <3>1, <3>3, <4>1, ReleaseType DEF Release
    <3> QED BY <2>3, <3>2, <3>3 DEF handlePodDeletion
  <2>4. CASE handleNodeAddition(e)
    <3>1. object \in NodeObjects /\ e.key \in Nodes
      BY <1>2, <2>4, KeyKinds DEF handleNodeAddition, Adding, ObjectsOf
    <3>2. IsResourceList(object.allocatable)
      BY <3>1, DescriberAssumption DEF NodeObjects
    <3>3. IsResourceMap(allocatable', Nodes)
      BY <1>5, <2>4, <3>1, <3>2, AddKeepsMap DEF handleNodeAddition
    <3> QED BY <1>5, <2>4, <3>1, <3>3 DEF handleNodeAddition
  <2>5. CASE handleNodeUpdate(e)
    <3>1. object \in NodeObjects /\ e.key \in Nodes
      BY <1>2, <2>5, KeyKinds DEF handleNodeUpdate, Updating, ObjectsOf
    <3> QED BY <1>5, <2>5, <3>1 DEF handleNodeUpdate
  <2>6. CASE handleNodeDeletion(e)
    <3>1. CASE UNCHANGED mapVars
      BY <1>5, <3>1 DEF mapVars
    <3>2. CASE /\ nodeList' = [nodeList EXCEPT ![e.key] = Absent]
               /\ allocatable' = mapDeleteNode(allocatable, e.key)
               /\ UNCHANGED << podList, requests, limits >>
      BY <1>5, <3>2, DeleteNodeKeepsMap
    <3> QED BY <2>6, <3>1, <3>2 DEF handleNodeDeletion
  <2> QED BY <2>1, <2>2, <2>3, <2>4, <2>5, <2>6 DEF Handle
<1>7. object' = Unread /\ \A k \in Keys : store'[k] \in ObjectsOf(k) \cup {Absent}
  BY <1>4 DEF TypeOK
<1> QED BY <1>4, <1>6, <1>7 DEF TypeOK

LEMMA ObserveType ==
  ASSUME TypeOK, NEW k \in Keys, NEW new \in ObjectsOf(k) \cup {Absent},
         Observe(k, new), UNCHANGED mapVars
  PROVE  TypeOK'
<1>1. PipeTypeOK'
  BY ObserveFacts DEF TypeOK
<1>2. \A q \in Keys : store'[q] \in ObjectsOf(q) \cup {Absent}
  BY DEF Observe, TypeOK, PipeTypeOK
<1> QED BY <1>1, <1>2 DEF TypeOK, mapVars, Observe

LEMMA TypeNext == TypeOK /\ [Next]_vars => TypeOK'
<1> SUFFICES ASSUME TypeOK, [Next]_vars PROVE TypeOK'
  OBVIOUS
<1>1. CASE UNCHANGED vars
  BY <1>1 DEF vars, pipeVars, mapVars, TypeOK, PipeTypeOK
<1>2. ASSUME NEW k \in Pods, ObservePod(k) PROVE TypeOK'
  BY <1>2, ObserveType, KeyKinds DEF ObservePod, ObjectsOf
<1>3. ASSUME NEW n \in Nodes, ObserveNode(n) PROVE TypeOK'
  BY <1>3, ObserveType, KeyKinds DEF ObserveNode, ObjectsOf
<1>4. ASSUME NEW r \in Resources, DeliverTo(r) PROVE TypeOK'
  <2>1. PipeTypeOK'
    BY <1>4, DeliverFacts DEF DeliverTo, TypeOK
  <2> QED BY <1>4, <2>1 DEF DeliverTo, Deliver, mapVars, TypeOK
<1>5. ASSUME NEW e \in Event, Retry(e) PROVE TypeOK'
  <2>1. PipeTypeOK'
    BY <1>5, RetryFacts DEF Retry, TypeOK
  <2> QED BY <1>5, <2>1 DEF Retry, RetryDue, mapVars, TypeOK
<1>6. ASSUME NEW e \in Event, Handle(e) PROVE TypeOK'
  BY <1>6, HandleType
<1>7. CASE Get /\ UNCHANGED mapVars
  <2>1. PipeTypeOK' /\ object = Unread
    BY <1>7, GetFacts DEF TypeOK, PipeTypeOK, Get
  <2> QED BY <1>7, <2>1 DEF Get, mapVars, TypeOK
<1>8. CASE Read /\ UNCHANGED mapVars
  <2>1. PipeTypeOK'
    BY <1>8, ReadFacts DEF TypeOK
  <2>2. object' \in ObjectsOf(processing'.key) \cup {Absent}
    BY <1>8, EventParts DEF Read, TypeOK, PipeTypeOK
  <2> QED BY <1>8, <2>1, <2>2 DEF Read, mapVars, TypeOK
<1> QED BY <1>1, <1>2, <1>3, <1>4, <1>5, <1>6, <1>7, <1>8 DEF Next, Take

\* The describer never leaves its types: see TypeOK.
THEOREM TypeCorrect == Spec => []TypeOK
BY TypeInit, TypeNext, PTL DEF Spec

----------------------------------------------------------------------------
(* Convergence.                                                            *)

\* What a handler writes: what the worker read, unless the pod had ended
\* before its "add" was applied, which leaves podList alone.
LEMMA HandleWrites ==
  ASSUME TypeOK, NEW e \in Event, Handle(e)
  PROVE  /\ e = processing /\ object # Unread /\ e.key \in Keys
         /\ PipeTypeOK'
         /\ Truth' = Truth /\ store' = store
         /\ processing' = Nothing /\ object' = Unread
         /\ \A f \in Event : OnWay(f)' <=> OnWay(f)
         /\ \/ View' = [View EXCEPT ![e.key] = Listed(e.key, object)]
            \/ /\ View' = View
               /\ e.key \in Pods /\ e.verb = "add"
               /\ Listed(e.key, object) = Absent
<1>1. /\ e = processing /\ object # Unread /\ e.key \in Keys
      /\ object \in ObjectsOf(e.key) \cup {Absent} /\ PipeTypeOK
  BY HandleFinishes, EventParts DEF Handling, TypeOK
<1>2. PICK failed \in BOOLEAN : Finish(e, failed)
  BY HandleFinishes
<1>3. PipeTypeOK' /\ \A f \in Event : OnWay(f)' <=> OnWay(f)
  BY <1>1, <1>2, FinishFacts
<1>4. /\ processing' = Nothing /\ object' = Unread /\ store' = store
      /\ Truth' = Truth
  BY <1>2 DEF Finish, Truth, Listed
<1> DEFINE Writes(v) == View' = [View EXCEPT ![e.key] = v]
<1>5. ASSUME NEW v, e.key \in Pods, podList' = [podList EXCEPT ![e.key] = v],
             nodeList' = nodeList
      PROVE  Writes(v)
  BY <1>5, KeyKinds DEF View, TypeOK
<1>6. ASSUME NEW v, e.key \in Nodes, nodeList' = [nodeList EXCEPT ![e.key] = v],
             podList' = podList
      PROVE  Writes(v)
  BY <1>6, KeyKinds DEF View, TypeOK
<1>7. ASSUME UNCHANGED mapVars PROVE View' = View
  BY <1>7 DEF mapVars, View
<1>8. ASSUME UNCHANGED mapVars, View[e.key] = Absent PROVE Writes(Absent)
  BY <1>7, <1>8, <1>1 DEF View
<1>9. \/ Writes(Listed(e.key, object))
      \/ /\ View' = View
         /\ e.key \in Pods /\ e.verb = "add"
         /\ Listed(e.key, object) = Absent
  <2>1. CASE handlePodAddition(e)
    <3>1. CASE Ended(object) /\ UNCHANGED mapVars
      BY <2>1, <3>1, <1>7 DEF handlePodAddition, Adding, Listed
    <3>2. CASE ~Ended(object) /\ podList' = [podList EXCEPT ![e.key] = object]
               /\ nodeList' = nodeList
      BY <2>1, <3>2, <1>5 DEF handlePodAddition, Listed
    <3>3. Unscheduled(object) => ~Ended(object)
      BY DEF Unscheduled, Ended
    <3> QED BY <2>1, <3>1, <3>2, <3>3 DEF handlePodAddition
  <2>2. CASE handlePodUpdate(e)
    <3>1. CASE Ended(object)
      <4>1. Listed(e.key, object) = Absent /\ e.key \in Pods
        BY <2>2, <3>1 DEF handlePodUpdate, Updating, Listed
      <4>2. CASE Release(e.key, object)
        BY <4>1, <4>2, <1>5 DEF Release
      <4>3. CASE podList[e.key] = Absent /\ UNCHANGED mapVars
        BY <4>1, <4>3, <1>1, <1>8 DEF View
      <4> QED BY <2>2, <3>1, <4>2, <4>3 DEF handlePodUpdate
    <3>2. CASE ~Ended(object)
      BY <2>2, <3>2, <1>5 DEF handlePodUpdate, Listed
    <3> QED BY <3>1, <3>2
  <2>3. CASE handlePodDeletion(e)
    <3>1. Listed(e.key, object) = Absent /\ e.key \in Pods
      BY <2>3 DEF handlePodDeletion, Deleting, Listed
    <3>2. CASE podList[e.key] # Absent /\ Release(e.key, podList[e.key])
      BY <3>1, <3>2, <1>5 DEF Release
    <3>3. CASE podList[e.key] = Absent /\ UNCHANGED mapVars
      BY <3>1, <3>3, <1>1, <1>8 DEF View
    <3> QED BY <2>3, <3>2, <3>3 DEF handlePodDeletion
  <2>4. CASE handleNodeAddition(e) \/ handleNodeUpdate(e)
    BY <2>4, <1>6, KeyKinds DEF handleNodeAddition, handleNodeUpdate, Listed
  <2>5. CASE handleNodeDeletion(e)
    <3>1. Listed(e.key, object) = Absent /\ e.key \in Nodes
      BY <2>5 DEF handleNodeDeletion, Deleting, Listed
    <3>2. CASE nodeList[e.key] = Absent /\ UNCHANGED mapVars
      BY <3>1, <3>2, <1>1, <1>8, KeyKinds DEF View
    <3>3. CASE nodeList' = [nodeList EXCEPT ![e.key] = Absent] /\ podList' = podList
      BY <3>1, <3>3, <1>6
    <3> QED BY <2>5, <3>2, <3>3 DEF handleNodeDeletion
  <2> QED BY <2>1, <2>2, <2>3, <2>4, <2>5 DEF Handle
<1> QED BY <1>1, <1>3, <1>4, <1>9

LEMMA ConvergingInit == Init => Converging
<1> SUFFICES ASSUME Init PROVE Converging
  OBVIOUS
<1>1. \A k \in Keys : View[k] = Absent /\ Truth[k] = Absent
  BY KeyKinds DEF Init, PipeInit, View, Truth, Listed
<1>2. \A k \in Pods : podList[k] = Absent
  BY DEF Init
<1>3. object = Unread
  BY DEF Init, PipeInit
<1> QED BY <1>1, <1>2, <1>3 DEF Converging, ReadIsFollowed, EndIsFollowed

\* The informers: what changes is announced, and an end not as an "add".
LEMMA ObserveConverges ==
  ASSUME TypeOK, Converging, NEW k \in Keys, NEW new,
         Observe(k, new), UNCHANGED mapVars
  PROVE  Converging'
<1> DEFINE a == [verb |-> VerbOf(store[k], new), key |-> k]
<1>1. a \in Event /\ a.key = k /\ \A f \in Event : OnWay(f)' <=> OnWay(f) \/ f = a
  BY ObserveFacts DEF TypeOK
<1>2. /\ processing' = processing /\ object' = object /\ View' = View
      /\ podList' = podList
  BY DEF Observe, mapVars, View
<1>3. /\ Truth'[k] = Listed(k, new)
      /\ \A q \in Keys \ {k} : Truth'[q] = Truth[q] /\ store'[q] = store[q]
  BY DEF Observe, TypeOK, PipeTypeOK, Truth, Listed
<1>4. /\ Pending(k)' /\ SomeOnWay(k)'
      /\ \A q \in Keys : /\ Pending(q) => Pending(q)'
                         /\ SomeOnWay(q) => SomeOnWay(q)'
                         /\ ChangeOnWay(q) => ChangeOnWay(q)'
  BY <1>1, <1>2 DEF Pending, SomeOnWay, ChangeOnWay
<1>5. Truth[k] # Absent /\ Truth'[k] = Absent => ChangeOnWay(k)'
  <2> SUFFICES ASSUME Truth[k] # Absent, Truth'[k] = Absent PROVE ChangeOnWay(k)'
    OBVIOUS
  <2>1. store[k] # Absent
    BY DEF Truth, Listed
  <2>2. a.verb # "add"
    BY <2>1 DEF VerbOf
  <2> QED BY <1>1, <2>2 DEF ChangeOnWay
<1>6. \A q \in Keys : ~Pending(q)' => View'[q] = Truth'[q]
  BY <1>2, <1>3, <1>4 DEF Converging
<1>7. ReadIsFollowed'
  <2> SUFFICES ASSUME object # Unread,
                      NEW q \in Keys, q = processing.key
               PROVE  /\ object # store'[q] => SomeOnWay(q)'
                      /\ Listed(q, object) # Absent /\ Truth'[q] = Absent
                           => ChangeOnWay(q)'
    <3>1. object # Unread => processing.key \in Keys
      BY EventParts DEF TypeOK, PipeTypeOK
    <3> QED BY <3>1, <1>2 DEF ReadIsFollowed, Listed
  <2>1. /\ object # store[q] => SomeOnWay(q)
        /\ Listed(q, object) # Absent /\ Truth[q] = Absent => ChangeOnWay(q)
    BY DEF Converging, ReadIsFollowed
  <2>2. CASE q = k
    BY <2>1, <2>2, <1>4, <1>5
  <2>3. CASE q # k
    BY <2>1, <2>3, <1>3, <1>4
  <2> QED BY <2>2, <2>3
<1>8. EndIsFollowed'
  <2> SUFFICES ASSUME NEW q \in Pods, podList[q] # Absent, Truth'[q] = Absent,
                      ~ChangeOnWay(q)'
               PROVE  /\ processing # Nothing
                      /\ processing.key = q
                      /\ processing.verb # "add"
                      /\ object # Unread => Listed(q, object) = Absent
    BY <1>2 DEF EndIsFollowed, Listed
  <2>1. q \in Keys /\ Truth[q] = Absent /\ ~ChangeOnWay(q)
    BY <1>3, <1>4, <1>5, KeyKinds
  <2> QED BY <2>1 DEF Converging, EndIsFollowed
<1> QED BY <1>6, <1>7, <1>8 DEF Converging

\* Moving events towards the worker, or adding one again, disturbs nothing.
LEMMA QueueStepConverges ==
  ASSUME Converging, UNCHANGED << store, object, processing, mapVars >>,
         \A f \in Event : OnWay(f) => OnWay(f)'
  PROVE  Converging'
<1>1. /\ Truth' = Truth /\ View' = View /\ podList' = podList
      /\ store' = store /\ object' = object /\ processing' = processing
  BY DEF Truth, View, Listed, mapVars
<1>2. \A q \in Keys : /\ Pending(q) => Pending(q)'
                      /\ SomeOnWay(q) => SomeOnWay(q)'
                      /\ ChangeOnWay(q) => ChangeOnWay(q)'
  BY <1>1 DEF Pending, SomeOnWay, ChangeOnWay
<1>3. ReadIsFollowed'
  <2> SUFFICES ASSUME object # Unread, NEW q, q = processing.key
               PROVE  /\ object # store[q] => SomeOnWay(q)'
                      /\ Listed(q, object) # Absent /\ Truth[q] = Absent
                           => ChangeOnWay(q)'
    BY <1>1 DEF ReadIsFollowed, Listed
  <2>1. /\ object # store[q] => SomeOnWay(q)
        /\ Listed(q, object) # Absent /\ Truth[q] = Absent => ChangeOnWay(q)
    BY DEF Converging, ReadIsFollowed
  <2> QED BY <2>1 DEF SomeOnWay, ChangeOnWay
<1>4. EndIsFollowed'
  <2> SUFFICES ASSUME NEW q \in Pods, podList[q] # Absent, Truth[q] = Absent,
                      ~ChangeOnWay(q)'
               PROVE  /\ processing # Nothing
                      /\ processing.key = q
                      /\ processing.verb # "add"
                      /\ object # Unread => Listed(q, object) = Absent
    BY <1>1 DEF EndIsFollowed, Listed
  <2>1. q \in Keys
    BY KeyKinds
  <2>2. ~ChangeOnWay(q)
    BY <1>2, <2>1 DEF ChangeOnWay
  <2> QED BY <2>2 DEF Converging, EndIsFollowed
<1>5. \A q \in Keys : ~Pending(q)' => View'[q] = Truth'[q]
  <2> SUFFICES ASSUME NEW q \in Keys, ~Pending(q)' PROVE View'[q] = Truth'[q]
    OBVIOUS
  <2>1. ~Pending(q)
    BY <1>2 DEF Pending
  <2>2. View[q] = Truth[q]
    BY <2>1 DEF Converging
  <2> QED BY <2>2, <1>1
<1> QED BY <1>3, <1>4, <1>5 DEF Converging

\* The event the worker takes was on its way, and now is in its hands.
LEMMA GetConverges ==
  ASSUME TypeOK, Converging, Get, UNCHANGED mapVars
  PROVE  Converging'
<1>1. /\ processing' \in Event /\ processing = Nothing
      /\ \A f \in Event : OnWay(f) => OnWay(f)' \/ f = processing'
  BY GetFacts DEF TypeOK, Get
<1>2. /\ Truth' = Truth /\ View' = View /\ podList' = podList
      /\ object = Unread /\ object' = Unread
  BY <1>1 DEF Get, Truth, View, Listed, mapVars, TypeOK, PipeTypeOK
<1>3. \A q \in Keys : Pending(q) => Pending(q)'
  <2> SUFFICES ASSUME NEW q \in Keys, NEW f \in Event, f.key = q,
                      OnWay(f) \/ f = processing
               PROVE  Pending(q)'
    BY DEF Pending
  <2>1. OnWay(f)' \/ f = processing'
    BY <1>1, PipelineAssumption
  <2> QED BY <2>1 DEF Pending
<1>4. EndIsFollowed'
  <2> SUFFICES ASSUME NEW q \in Pods, podList[q] # Absent, Truth[q] = Absent,
                      ~ChangeOnWay(q)'
               PROVE  /\ processing' # Nothing
                      /\ processing'.key = q
                      /\ processing'.verb # "add"
    BY <1>2 DEF EndIsFollowed
  <2>1. ChangeOnWay(q)
    BY <1>1 DEF Converging, EndIsFollowed
  <2>2. PICK f \in Event : f.key = q /\ f.verb # "add" /\ OnWay(f)
    BY <2>1 DEF ChangeOnWay
  <2>3. f = processing'
    BY <2>2, <1>1 DEF ChangeOnWay
  <2> QED BY <2>2, <2>3, PipelineAssumption
<1>5. ReadIsFollowed'
  BY <1>2 DEF ReadIsFollowed
<1> QED BY <1>2, <1>3, <1>4, <1>5 DEF Converging

\* What the worker reads is the truth of that moment.
LEMMA ReadConverges ==
  ASSUME TypeOK, Converging, Read, UNCHANGED mapVars
  PROVE  Converging'
<1>1. /\ processing # Nothing /\ processing' = processing /\ store' = store
      /\ object = Unread /\ object' = store[processing.key]
      /\ \A f \in Event : OnWay(f)' <=> OnWay(f)
  BY ReadFacts DEF TypeOK, Read
<1>2. /\ Truth' = Truth /\ View' = View /\ podList' = podList
      /\ processing.key \in Keys
  BY <1>1, EventParts DEF Truth, View, Listed, mapVars, TypeOK, PipeTypeOK
<1>3. Truth[processing.key] = Listed(processing.key, store[processing.key])
  BY <1>2 DEF Truth
<1>4. ReadIsFollowed'
  <2>1. Listed(processing.key, object') = Truth[processing.key]
    BY <1>1, <1>3
  <2> QED BY <1>1, <1>2, <2>1 DEF ReadIsFollowed, Listed
<1>5. EndIsFollowed'
  <2> SUFFICES ASSUME NEW q \in Pods, podList[q] # Absent, Truth[q] = Absent,
                      ~ChangeOnWay(q)'
               PROVE  /\ processing # Nothing
                      /\ processing.key = q
                      /\ processing.verb # "add"
                      /\ Listed(q, store[processing.key]) = Absent
    BY <1>1, <1>2 DEF EndIsFollowed, Listed
  <2>1. q \in Keys
    BY KeyKinds
  <2>2. ~ChangeOnWay(q)
    BY <1>1 DEF ChangeOnWay
  <2>3. /\ processing.key = q /\ processing.verb # "add"
    BY <2>2 DEF Converging, EndIsFollowed
  <2> QED BY <1>1, <1>3, <2>3
<1>6. \A q \in Keys : ~Pending(q)' => View'[q] = Truth'[q]
  <2> SUFFICES ASSUME NEW q \in Keys, ~Pending(q)' PROVE View'[q] = Truth'[q]
    OBVIOUS
  <2>1. ~Pending(q)
    BY <1>1 DEF Pending
  <2>2. View[q] = Truth[q]
    BY <2>1 DEF Converging
  <2> QED BY <2>2, <1>2
<1> QED BY <1>4, <1>5, <1>6 DEF Converging

\* What the handler writes is right, or another event of the key follows.
LEMMA HandleConverges ==
  ASSUME TypeOK, Converging, NEW e \in Event, Handle(e)
  PROVE  Converging'
<1>1. /\ e = processing /\ object # Unread /\ e.key \in Keys
      /\ Truth' = Truth /\ processing' = Nothing /\ object' = Unread
      /\ \A f \in Event : OnWay(f)' <=> OnWay(f)
  BY HandleWrites
<1>2. PICK k \in Keys : k = e.key /\ k = processing.key
  BY <1>1
<1>3. \/ View' = [View EXCEPT ![k] = Listed(k, object)]
      \/ View' = View /\ k \in Pods /\ e.verb = "add" /\ Listed(k, object) = Absent
  BY <1>2, HandleWrites
<1>4. /\ object # store[k] => SomeOnWay(k)
      /\ Listed(k, object) # Absent /\ Truth[k] = Absent => ChangeOnWay(k)
  BY <1>1, <1>2 DEF Converging, ReadIsFollowed
<1>5. /\ \A q \in Keys \ {k} : View'[q] = View[q]
      /\ \A q \in Pods : q \in Keys /\ podList[q] = View[q] /\ podList'[q] = View'[q]
      /\ View'[k] = Listed(k, object) \/ View'[k] = View[k]
  <2>1. DOMAIN View = Keys
    BY DEF View
  <2>2. \A q \in Pods : q \in Keys /\ podList[q] = View[q] /\ podList'[q] = View'[q]
    BY KeyKinds DEF View
  <2> QED BY <1>3, <2>1, <2>2
<1>6. \A q \in Keys : View'[q] = View[q] \/ q = k
  BY <1>5
<1>7. \A q \in Pods : podList[q] # Absent /\ Truth[q] = Absent =>
        ChangeOnWay(q) \/ (q = k /\ e.verb # "add" /\ Listed(k, object) = Absent)
  BY <1>1, <1>2 DEF Converging, EndIsFollowed
<1>8. \A q \in Keys : ~Pending(q)' => View'[q] = Truth'[q]
  <2> SUFFICES ASSUME NEW q \in Keys, ~Pending(q)' PROVE View'[q] = Truth[q]
    BY <1>1
  <2>1. ~SomeOnWay(q) /\ ~ChangeOnWay(q)
    BY <1>1 DEF Pending, SomeOnWay, ChangeOnWay
  <2>2. CASE q # k
    <3>1. ~Pending(q)
      BY <2>1, <2>2, <1>1, <1>2 DEF Pending, SomeOnWay
    <3>2. View[q] = Truth[q]
      BY <3>1 DEF Converging
    <3> QED BY <3>2, <2>2, <1>5
  <2>3. CASE q = k
    <3>1. Listed(k, object) = Truth[k]
      BY <2>1, <2>3, <1>4 DEF Truth
    <3>2. View'[k] = Listed(k, object) \/ (View'[k] = View[k] /\ k \in Pods
            /\ e.verb = "add" /\ Listed(k, object) = Absent)
      <4>1. DOMAIN View = Keys
        BY DEF View
      <4> QED BY <4>1, <1>3
    <3>3. CASE View'[k] = View[k] /\ k \in Pods /\ e.verb = "add"
               /\ Listed(k, object) = Absent
      <4>1. View[k] = Absent
        BY <2>1, <2>3, <3>1, <3>3, <1>5, <1>7
      <4> QED BY <4>1, <3>1, <3>3, <2>3
    <3> QED BY <3>1, <3>2, <3>3, <2>3
  <2> QED BY <2>2, <2>3
<1>9. EndIsFollowed'
  <2> SUFFICES ASSUME NEW q \in Pods, podList'[q] # Absent, Truth[q] = Absent
               PROVE  ChangeOnWay(q)
    BY <1>1 DEF EndIsFollowed, ChangeOnWay
  <2>1. q \in Keys /\ podList[q] = View[q] /\ podList'[q] = View'[q]
    BY <1>5
  <2>2. CASE q = k /\ View'[k] = Listed(k, object)
    BY <2>1, <2>2, <1>4
  <2>3. CASE View'[q] = View[q]
    <3>1. podList[q] # Absent
      BY <2>1, <2>3
    <3>2. ASSUME q = k, e.verb # "add", Listed(k, object) = Absent PROVE FALSE
      <4>1. View' = [View EXCEPT ![k] = Listed(k, object)] /\ DOMAIN View = Keys
        BY <3>2, <1>3 DEF View
      <4> QED BY <4>1, <3>2, <2>1
    <3> QED BY <3>1, <3>2, <1>7
  <2> QED BY <2>1, <2>2, <2>3, <1>5, <1>6
<1>10. ReadIsFollowed'
  BY <1>1 DEF ReadIsFollowed
<1> QED BY <1>8, <1>9, <1>10 DEF Converging

LEMMA ConvergingNext == TypeOK /\ Converging /\ [Next]_vars => Converging'
<1> SUFFICES ASSUME TypeOK, Converging, [Next]_vars PROVE Converging'
  OBVIOUS
<1>1. CASE UNCHANGED vars
  <2>1. \A f \in Event : OnWay(f) => OnWay(f)'
    BY <1>1 DEF vars, pipeVars, OnWay
  <2> QED BY <1>1, <2>1, QueueStepConverges DEF vars, pipeVars
<1>2. ASSUME NEW k \in Pods, ObservePod(k) PROVE Converging'
  BY <1>2, ObserveConverges, KeyKinds DEF ObservePod
<1>3. ASSUME NEW n \in Nodes, ObserveNode(n) PROVE Converging'
  BY <1>3, ObserveConverges, KeyKinds DEF ObserveNode
<1>4. ASSUME NEW r \in Resources, DeliverTo(r) PROVE Converging'
  <2>1. \A f \in Event : OnWay(f) => OnWay(f)'
    BY <1>4, DeliverFacts DEF DeliverTo, TypeOK
  <2> QED BY <1>4, <2>1, QueueStepConverges DEF DeliverTo, Deliver
<1>5. ASSUME NEW e \in Event, Retry(e) PROVE Converging'
  <2>1. \A f \in Event : OnWay(f) => OnWay(f)'
    BY <1>5, RetryFacts DEF Retry, TypeOK
  <2> QED BY <1>5, <2>1, QueueStepConverges DEF Retry, RetryDue
<1>6. ASSUME NEW e \in Event, Handle(e) PROVE Converging'
  BY <1>6, HandleConverges
<1>7. CASE Get /\ UNCHANGED mapVars
  BY <1>7, GetConverges
<1>8. CASE Read /\ UNCHANGED mapVars
  BY <1>8, ReadConverges
<1> QED BY <1>1, <1>2, <1>3, <1>4, <1>5, <1>6, <1>7, <1>8 DEF Next, Take

\* What keeps the maps converging is an invariant: see Converging.
THEOREM AlwaysConverging == Spec => []Converging
<1>1. Init => TypeOK /\ Converging
  BY TypeInit, ConvergingInit
<1>2. TypeOK /\ Converging /\ [Next]_vars => (TypeOK /\ Converging)'
  BY TypeNext, ConvergingNext
<1> QED BY <1>1, <1>2, PTL DEF Spec

\* podList holds exactly the live pods of the store, for every pod none of
\* whose events is on its way: see PodListConverged.
THEOREM PodsConverge == Spec => []PodListConverged
<1>1. Converging => PodListConverged
  <2> SUFFICES ASSUME Converging, NEW k \in Pods, ~Pending(k)
               PROVE  podList[k] = Listed(k, store[k])
    BY DEF PodListConverged
  <2>1. k \in Keys /\ View[k] = podList[k] /\ Truth[k] = Listed(k, store[k])
    BY KeyKinds DEF View, Truth
  <2> QED BY <2>1 DEF Converging
<1> QED BY <1>1, AlwaysConverging, PTL

\* The same for nodeList: see NodeListConverged.
THEOREM NodesConverge == Spec => []NodeListConverged
<1>1. Converging => NodeListConverged
  <2> SUFFICES ASSUME Converging, NEW n \in Nodes, ~Pending(n)
               PROVE  nodeList[n] = store[n]
    BY DEF NodeListConverged
  <2>1. n \in Keys /\ View[n] = nodeList[n] /\ Truth[n] = store[n]
    BY KeyKinds DEF View, Truth, Listed
  <2> QED BY <2>1 DEF Converging
<1> QED BY <1>1, AlwaysConverging, PTL

----------------------------------------------------------------------------
(* The describer implements Mirror.                                        *)

Stale   == {k \in Keys : Pending(k)}
Looking == IF object = Unread THEN Unread ELSE processing.key
Seen    == IF object = Unread THEN Unread ELSE Listed(processing.key, object)
Values  == PodObjects \cup NodeObjects \cup {Absent}

LEMMA ListedIsValue ==
  ASSUME NEW k \in Keys, NEW o \in ObjectsOf(k) \cup {Absent}
  PROVE  Listed(k, o) \in Values /\ Listed(k, o) # Unread
BY DescriberAssumption, PipelineAssumption DEF Listed, ObjectsOf, Values

LEMMA InitMirrors == Init => Mirrored!Init
<1> SUFFICES ASSUME Init PROVE Mirrored!Init
  OBVIOUS
<1>1. Truth = [k \in Keys |-> Absent]
  BY DEF Init, PipeInit, Truth, Listed
<1>2. View = [k \in Keys |-> Absent]
  BY KeyKinds DEF Init, View
<1>3. \A k \in Keys : ~Pending(k)
  <2> SUFFICES ASSUME NEW e \in Event, OnWay(e) \/ e = processing PROVE FALSE
    BY DEF Pending
  <2>1. inbox[ResourceOf[e.key]] = << >>
    BY EventParts DEF Init, PipeInit
  <2> QED BY <2>1, EmptyHoldsNothing, PipelineAssumption DEF OnWay, Init, PipeInit
<1> QED BY <1>1, <1>2, <1>3 DEF Mirrored!Init, Init, PipeInit

\* A step that only adds to the events of one key is a change that changes
\* nothing, if the store does not change.
LEMMA ObserveMirrors ==
  ASSUME TypeOK, NEW k \in Keys, NEW new \in ObjectsOf(k) \cup {Absent},
         Observe(k, new), UNCHANGED mapVars
  PROVE  Mirrored!Next
<1> DEFINE a == [verb |-> VerbOf(store[k], new), key |-> k]
<1>1. /\ a \in Event /\ a.key = k
      /\ \A f \in Event : OnWay(f)' <=> OnWay(f) \/ f = a
  BY ObserveFacts DEF TypeOK
<1>2. processing' = processing /\ object' = object /\ View' = View
  BY DEF Observe, mapVars, View
<1>3. Truth' = [Truth EXCEPT ![k] = Listed(k, new)]
  BY DEF Observe, TypeOK, PipeTypeOK, Truth, Listed
<1>4. Stale' = Stale \cup {k}
  BY <1>1, <1>2 DEF Stale, Pending
<1>5. Mirrored!Change(k, Listed(k, new))
  BY <1>2, <1>3, <1>4 DEF Mirrored!Change, Stale, Listed
<1>6. Listed(k, new) \in Values
  BY ListedIsValue
<1> QED BY <1>5, <1>6 DEF Mirrored!Next, Values

LEMMA QueueStepMirrors ==
  ASSUME TypeOK, NEW e \in Event,
         UNCHANGED << store, object, processing, mapVars >>,
         \A f \in Event : OnWay(f)' <=> OnWay(f) \/ f = e
  PROVE  Mirrored!Next
<1>1. Truth' = Truth /\ View' = View /\ object' = object /\ processing' = processing
  BY DEF Truth, View, Listed, mapVars
<1>2. e.key \in Keys
  BY EventParts
<1>3. Stale' = Stale \cup {e.key}
  BY <1>1, <1>2 DEF Stale, Pending
<1>4. Truth' = [Truth EXCEPT ![e.key] = Truth[e.key]] /\ Truth[e.key] \in Values
  BY <1>1, <1>2, ListedIsValue DEF Truth, TypeOK
<1>5. Mirrored!Change(e.key, Truth[e.key])
  BY <1>1, <1>3, <1>4 DEF Mirrored!Change, Stale, Listed
<1> QED BY <1>2, <1>4, <1>5 DEF Mirrored!Next, Values

LEMMA GetMirrors ==
  ASSUME TypeOK, Get, UNCHANGED mapVars
  PROVE  Mirrored!Next
<1>1. /\ processing' \in Event /\ processing = Nothing
      /\ \A f \in Event : OnWay(f) => OnWay(f)' \/ f = processing'
      /\ \A f \in Event : OnWay(f)' => OnWay(f)
      /\ object = Unread /\ object' = Unread
  BY GetFacts DEF TypeOK, PipeTypeOK, Get
<1>2. PICK k \in Keys : k = processing'.key
  BY <1>1, EventParts
<1>3. Truth' = Truth /\ View' = View
  BY DEF Get, Truth, View, Listed, mapVars
<1>4. Stale' = Stale \cup {k}
  BY <1>1, <1>2, PipelineAssumption DEF Stale, Pending
<1>5. Truth' = [Truth EXCEPT ![k] = Truth[k]] /\ Truth[k] \in Values
  BY <1>3, ListedIsValue DEF Truth, TypeOK
<1>6. Mirrored!Change(k, Truth[k])
  BY <1>1, <1>3, <1>4, <1>5 DEF Mirrored!Change, Stale
<1> QED BY <1>5, <1>6 DEF Mirrored!Next, Values

LEMMA ReadMirrors ==
  ASSUME TypeOK, Read, UNCHANGED mapVars
  PROVE  Mirrored!Next
<1>1. /\ processing \in Event /\ processing' = processing /\ object = Unread
      /\ object' = store[processing.key]
      /\ \A f \in Event : OnWay(f)' <=> OnWay(f)
  BY ReadFacts DEF TypeOK, PipeTypeOK, Read
<1>2. PICK k \in Keys : k = processing.key
  BY <1>1, EventParts
<1>3. Truth' = Truth /\ View' = View
  BY DEF Read, Truth, View, Listed, mapVars
<1>4. Stale' = Stale /\ k \in Stale
  BY <1>1, <1>2 DEF Stale, Pending
<1>5. object' \in ObjectsOf(k) \cup {Absent} /\ object' # Unread
  BY <1>1, <1>2, DescriberAssumption, PipelineAssumption DEF TypeOK, ObjectsOf
<1>6. /\ Looking = Unread /\ Looking' = k
      /\ Seen = Unread /\ Seen' = Truth[k]
  BY <1>1, <1>2, <1>5 DEF Looking, Seen, Truth, Listed
<1>7. Mirrored!Look(k)
  BY <1>3, <1>4, <1>6 DEF Mirrored!Look, Stale, Looking, Seen
<1> QED BY <1>7 DEF Mirrored!Next

LEMMA HandleMirrors ==
  ASSUME TypeOK, Converging, NEW e \in Event, Handle(e)
  PROVE  Mirrored!Next
<1>1. /\ e = processing /\ object # Unread /\ e.key \in Keys
      /\ Truth' = Truth /\ processing' = Nothing /\ object' = Unread
      /\ \A f \in Event : OnWay(f)' <=> OnWay(f)
      /\ View' = [View EXCEPT ![e.key] = Listed(e.key, object)] \/ View' = View
  BY HandleWrites
<1>2. PICK k \in Keys : k = e.key
  BY <1>1
<1>3. Looking = k /\ k # Unread /\ Seen = Listed(k, object)
  BY <1>1, <1>2, DescriberAssumption DEF Looking, Seen
<1>4. Looking' = Unread /\ Seen' = Unread
  BY <1>1 DEF Looking, Seen
<1>5. \/ Stale' = Stale
      \/ Stale' = Stale \ {k} /\ ~Pending(k)'
  BY <1>1, <1>2, PipelineAssumption DEF Stale, Pending
<1>6. ~Pending(k)' => View'[k] = Truth[k]
  BY <1>1, HandleConverges DEF Converging
<1>7. Mirrored!Apply
  BY <1>1, <1>2, <1>3, <1>4, <1>5, <1>6 DEF Mirrored!Apply, Stale, Looking, Seen
<1> QED BY <1>7 DEF Mirrored!Next

LEMMA NextMirrors ==
  TypeOK /\ Converging /\ [Next]_vars => [Mirrored!Next]_(Mirrored!mirrorVars)
<1> SUFFICES ASSUME TypeOK, Converging, [Next]_vars
             PROVE  Mirrored!Next \/ UNCHANGED Mirrored!mirrorVars
  OBVIOUS
<1>1. CASE UNCHANGED vars
  <2>1. /\ Truth' = Truth /\ View' = View /\ Stale' = Stale
        /\ Looking' = Looking /\ Seen' = Seen
    BY <1>1 DEF vars, pipeVars, mapVars, Truth, View, Stale, Looking, Seen,
                Listed, Pending, OnWay
  <2> QED BY <2>1 DEF Mirrored!mirrorVars, Stale, Looking, Seen
<1>2. ASSUME NEW k \in Pods, ObservePod(k) PROVE Mirrored!Next
  BY <1>2, ObserveMirrors, KeyKinds DEF ObservePod, ObjectsOf
<1>3. ASSUME NEW n \in Nodes, ObserveNode(n) PROVE Mirrored!Next
  BY <1>3, ObserveMirrors, KeyKinds DEF ObserveNode, ObjectsOf
<1>4. ASSUME NEW r \in Resources, DeliverTo(r) PROVE Mirrored!Next
  <2>1. /\ Head(inbox[r]) \in Event
        /\ \A f \in Event : OnWay(f)' <=> OnWay(f) \/ f = Head(inbox[r])
    BY <1>4, DeliverFacts DEF DeliverTo, TypeOK
  <2> QED BY <1>4, <2>1, QueueStepMirrors DEF DeliverTo, Deliver
<1>5. ASSUME NEW e \in Event, Retry(e) PROVE Mirrored!Next
  <2>1. \A f \in Event : OnWay(f)' <=> OnWay(f) \/ f = e
    BY <1>5, RetryFacts DEF Retry, TypeOK
  <2> QED BY <1>5, <2>1, QueueStepMirrors DEF Retry, RetryDue
<1>6. ASSUME NEW e \in Event, Handle(e) PROVE Mirrored!Next
  BY <1>6, HandleMirrors
<1>7. CASE Get /\ UNCHANGED mapVars
  BY <1>7, GetMirrors
<1>8. CASE Read /\ UNCHANGED mapVars
  BY <1>8, ReadMirrors
<1> QED BY <1>1, <1>2, <1>3, <1>4, <1>5, <1>6, <1>7, <1>8 DEF Next, Take

\* The describer implements Mirror: what it writes to podList and nodeList is
\* what the cluster held after all that it wrote there before, and what no
\* event announces is up to date.  See MirrorSpec.
THEOREM Mirrors == Spec => MirrorSpec
<1>1. Init => TypeOK /\ Converging /\ Mirrored!Init
  BY TypeInit, ConvergingInit, InitMirrors
<1>2. TypeOK /\ Converging /\ [Next]_vars =>
        (TypeOK /\ Converging)' /\ [Mirrored!Next]_(Mirrored!mirrorVars)
  BY TypeNext, ConvergingNext, NextMirrors
<1> QED BY <1>1, <1>2, PTL DEF Spec, MirrorSpec, Mirrored!Spec

----------------------------------------------------------------------------
(* The totals of the ledgers.                                              *)

\* What a handler does to the ledgers: it books a pod or takes one off, books
\* a node's list or drops the node, or leaves them alone.
LEMMA HandleBooks ==
  ASSUME TypeOK, NEW e \in Event, Handle(e)
  PROVE  \/ UNCHANGED << requests, limits, allocatable >>
         \/ \E pod \in PodObjects :
              /\ requests' = mapAdd(requests, pod.node, PodRequests(pod.spec))
              /\ limits' = mapAdd(limits, pod.node, PodLimits(pod.spec))
              /\ allocatable' = allocatable
         \/ \E pod \in PodObjects :
              /\ requests' = mapSub(requests, pod.node, PodRequests(pod.spec))
              /\ limits' = mapSub(limits, pod.node, PodLimits(pod.spec))
              /\ allocatable' = allocatable
         \/ \E node \in NodeObjects :
              /\ allocatable' = mapAdd(allocatable, e.key, node.allocatable)
              /\ UNCHANGED << requests, limits >>
         \/ /\ allocatable' = mapDeleteNode(allocatable, e.key)
            /\ UNCHANGED << requests, limits >>
<1>1. /\ object \in ObjectsOf(e.key) \cup {Absent}
      /\ e.key \in Nodes => e.key \notin Pods
      /\ podList \in [Pods -> PodObjects \cup {Absent}]
  BY HandleFinishes, KeyKinds DEF Handling, TypeOK
<1>2. CASE handlePodAddition(e)
  <2>1. object \in PodObjects
    BY <1>1, <1>2 DEF handlePodAddition, Adding, ObjectsOf
  <2> QED BY <1>2, <2>1 DEF handlePodAddition, mapVars
<1>3. CASE handlePodUpdate(e)
  <2>1. object \in PodObjects
    BY <1>1, <1>3 DEF handlePodUpdate, Updating, ObjectsOf
  <2> QED BY <1>3, <2>1 DEF handlePodUpdate, Release, mapVars
<1>4. CASE handlePodDeletion(e)
  <2>1. podList[e.key] # Absent => podList[e.key] \in PodObjects
    BY <1>1, <1>4 DEF handlePodDeletion
  <2> QED BY <1>4, <2>1 DEF handlePodDeletion, Release, mapVars
<1>5. CASE handleNodeAddition(e)
  <2>1. object \in NodeObjects
    BY <1>1, <1>5 DEF handleNodeAddition, Adding, ObjectsOf
  <2> QED BY <1>5, <2>1 DEF handleNodeAddition
<1>6. CASE handleNodeUpdate(e)
  BY <1>6 DEF handleNodeUpdate
<1>7. CASE handleNodeDeletion(e)
  BY <1>7 DEF handleNodeDeletion, mapVars
<1> QED BY <1>2, <1>3, <1>4, <1>5, <1>6, <1>7 DEF Handle

\* The inductive invariant behind TotalsAgree.
LedgersBalance == Balanced(requests) /\ Balanced(limits) /\ Balanced(allocatable)

LEMMA BalanceNext == TypeOK /\ LedgersBalance /\ [Next]_vars => LedgersBalance'
<1> SUFFICES ASSUME TypeOK, LedgersBalance, [Next]_vars PROVE LedgersBalance'
  OBVIOUS
<1>1. /\ IsResourceMap(requests, Nodes)
      /\ IsResourceMap(limits, Nodes)
      /\ IsResourceMap(allocatable, Nodes)
      /\ Balanced(requests) /\ Balanced(limits) /\ Balanced(allocatable)
  BY DEF TypeOK, LedgersBalance
<1>2. CASE UNCHANGED << requests, limits, allocatable >>
  BY <1>1, <1>2 DEF LedgersBalance
<1>3. ASSUME NEW e \in Event, Handle(e) PROVE LedgersBalance'
  <2>1. ASSUME NEW pod \in PodObjects,
               requests' = mapAdd(requests, pod.node, PodRequests(pod.spec)),
               limits' = mapAdd(limits, pod.node, PodLimits(pod.spec)),
               allocatable' = allocatable
        PROVE  LedgersBalance'
    BY <2>1, <1>1, PodLists, AddKeepsBalance DEF LedgersBalance
  <2>2. ASSUME NEW pod \in PodObjects,
               requests' = mapSub(requests, pod.node, PodRequests(pod.spec)),
               limits' = mapSub(limits, pod.node, PodLimits(pod.spec)),
               allocatable' = allocatable
        PROVE  LedgersBalance'
    BY <2>2, <1>1, PodLists, SubKeepsBalance DEF LedgersBalance
  <2>3. ASSUME NEW node \in NodeObjects,
               allocatable' = mapAdd(allocatable, e.key, node.allocatable),
               UNCHANGED << requests, limits >>
        PROVE  LedgersBalance'
    <3>1. IsResourceList(node.allocatable)
      BY DescriberAssumption DEF NodeObjects
    <3> QED BY <2>3, <3>1, <1>1, AddKeepsBalance DEF LedgersBalance
  <2>4. ASSUME allocatable' = mapDeleteNode(allocatable, e.key),
               UNCHANGED << requests, limits >>
        PROVE  LedgersBalance'
    BY <2>4, <1>1, DeleteNodeKeepsBalance DEF LedgersBalance
  <2> QED BY <1>2, <1>3, <2>1, <2>2, <2>3, <2>4, HandleBooks
<1>4. ASSUME ~ \E e \in Event : Handle(e)
      PROVE  UNCHANGED << requests, limits, allocatable >>
  BY <1>4 DEF Next, vars, mapVars, ObservePod, ObserveNode, DeliverTo, Retry, Take
<1> QED BY <1>2, <1>3, <1>4

LEMMA BalanceIsSum ==
  ASSUME NEW rm, Balanced(rm), NEW r \in DOMAIN rm.allNode
  PROVE  rm.allNode[r] = SumFunction([n \in DOMAIN rm.perNode |-> Amount(rm.perNode[n], r)])
BY DEF Balanced, Column, Amount

\* In each ledger the total of every resource is the sum of what the nodes
\* hold of it, for every number of nodes and of pods: see TotalsAgree.
THEOREM TotalsAreSums == Spec => []TotalsAgree
<1>1. Init => TypeOK /\ LedgersBalance
  BY TypeInit, NewIsBalanced DEF Init, LedgersBalance
<1>2. TypeOK /\ LedgersBalance /\ [Next]_vars => (TypeOK /\ LedgersBalance)'
  BY TypeNext, BalanceNext
<1>3. LedgersBalance => TotalsAgree
  BY BalanceIsSum DEF LedgersBalance, TotalsAgree
<1> QED BY <1>1, <1>2, <1>3, PTL DEF Spec

----------------------------------------------------------------------------
(* The books of the describer, while none of the four causes has come up.  *)

AddOf(k) == [verb |-> "add", key |-> k]

\* What the worker has read of the key it processes.
InHand(k) == IF processing # Nothing /\ processing.key = k THEN object ELSE Unread

\* The one object may have become the other, neither resized nor replaced.
Follows(k, old, new) == IF k \in Pods THEN Successor(k, old, new) ELSE new = old

IsBooked(k) == podList[k] # Absent /\ podList[k].node \in Nodes /\ ~AddOwed(k)

\* A listed pod that is owed no "add" has a node and was booked there, or it
\* has ended without ever having one.
Placed(k) ==
  podList[k] # Absent /\ ~AddOwed(k) =>
    \/ podList[k].node \in Nodes
    \/ \A o \in {store[k], InHand(k)} \ {Absent, Unread} : Ended(o) /\ o.node = NoNode

\* What is listed became what was read, and that what the store holds; what
\* lives and is not listed is owed its "add".
Tracked(k) ==
  /\ Truth[k] # Absent /\ View[k] = Absent => AddOwed(k)
  /\ View[k] # Absent /\ store[k] # Absent => Follows(k, View[k], store[k])
  /\ InHand(k) = Absent => store[k] = Absent
  /\ InHand(k) \notin {Absent, Unread} =>
       /\ Listed(k, InHand(k)) # Absent /\ View[k] = Absent => AddOwed(k)
       /\ View[k] # Absent => Follows(k, View[k], InHand(k))
       /\ store[k] # Absent => Follows(k, InHand(k), store[k])
  /\ k \in Pods => Placed(k)

Audited == \A k \in Keys : AtOnePlace(AddOf(k)) /\ Tracked(k)

LEMMA AddOwedIsOwed == \A k : AddOwed(k) <=> Owed(AddOf(k))
BY DEF AddOwed, Owed, AddOf

LEMMA AddOfIsEvent ==
  /\ \A k \in Keys : AddOf(k) \in Event /\ AddOf(k).key = k /\ AddOf(k).verb = "add"
  /\ \A e \in Event : e.verb = "add" <=> e = AddOf(e.key)
  /\ \A e \in Event : \A k : k # e.key => AddOf(k) # e
BY DEF AddOf, Event, Verbs

LEMMA FollowsItself == \A k, o : Follows(k, o, o)
BY DEF Follows, Successor

LEMMA FollowsOn ==
  ASSUME NEW k, NEW a, NEW b, NEW c, Follows(k, a, b), Follows(k, b, c)
  PROVE  Follows(k, a, c)
<1>1. CASE k \in Pods
  <2>1. c.spec = a.spec
    BY <1>1 DEF Follows, Successor
  <2>2. c.phase = a.phase \/ c.phase = "Ended" \/ a.phase = "Pending"
    BY <1>1 DEF Follows, Successor
  <2>3. c.node = a.node \/ Unscheduled(a)
    BY <1>1 DEF Follows, Successor, Unscheduled
  <2> QED BY <1>1, <2>1, <2>2, <2>3 DEF Follows, Successor
<1>2. CASE k \notin Pods
  BY <1>2 DEF Follows
<1> QED BY <1>1, <1>2

LEMMA EndStays ==
  ASSUME NEW k \in Pods, NEW a, NEW b, Follows(k, a, b), Ended(a)
  PROVE  Ended(b) /\ b.node = a.node
BY DEF Follows, Successor, Ended, Unscheduled

LEMMA PlacedPodStays ==
  ASSUME NEW k \in Pods, NEW a, NEW b, Follows(k, a, b), a.node \in Nodes
  PROVE  b.node = a.node /\ b.spec = a.spec
BY DescriberAssumption DEF Follows, Successor, Unscheduled

LEMMA ListedKeys ==
  ASSUME TypeOK
  PROVE  /\ \A k \in Keys : Truth[k] = Listed(k, store[k])
         /\ \A k \in Pods : View[k] = podList[k] /\ k \in Keys
         /\ \A k \in Nodes : View[k] = nodeList[k] /\ k \in Keys
                             /\ Truth[k] = store[k] /\ k \notin Pods
BY KeyKinds DEF Truth, View, Listed

\* An object of the store that follows another is listed only if that was.
LEMMA FollowsListed ==
  ASSUME NEW k \in Keys, NEW a, NEW b, a # Absent, b # Absent, Follows(k, a, b),
         Listed(k, b) # Absent
  PROVE  Listed(k, a) # Absent
<1>1. CASE k \in Pods
  BY <1>1, EndStays DEF Listed
<1>2. CASE k \notin Pods
  BY <1>2 DEF Listed
<1> QED BY <1>1, <1>2

LEMMA NoCause ==
  ASSUME causes' = causes \cup Cause, causes' = {}
  PROVE  /\ causes = {}
         /\ \A k \in Keys : ~Reused(k)
         /\ \A n \in Nodes : ~Resized(n)
         /\ processing # Nothing /\ processing' = Nothing /\ processing.key \in Pods
              => ~Dropped(processing) /\ ~CutShort(processing)
<1>1. causes = {} /\ Cause = {}
  OBVIOUS
<1>2. "reused" \notin Cause /\ "resized" \notin Cause /\ "dropped" \notin Cause
      /\ "cutShort" \notin Cause
  BY <1>1
<1>3. \A k \in Keys : ~Reused(k)
  BY <1>2 DEF Cause
<1>4. \A n \in Nodes : ~Resized(n)
  BY <1>2 DEF Cause
<1>5. processing # Nothing /\ processing' = Nothing /\ processing.key \in Pods
         => ~Dropped(processing) /\ ~CutShort(processing)
  BY <1>2 DEF Cause
<1> QED BY <1>1, <1>3, <1>4, <1>5

LEMMA AuditedInit == Init => Orderly /\ Audited
<1> SUFFICES ASSUME Init PROVE Orderly /\ Audited
  OBVIOUS
<1>1. Orderly /\ \A f \in Event : ~Owed(f) /\ AtOnePlace(f)
  BY PlacesInit DEF Init
<1>2. \A k \in Keys : View[k] = Absent /\ store[k] = Absent /\ Truth[k] = Absent
                      /\ InHand(k) = Unread
  BY KeyKinds DEF Init, PipeInit, View, Truth, Listed, InHand
<1>3. \A k \in Pods : podList[k] = Absent
  BY DEF Init
<1> QED BY <1>1, <1>2, <1>3, AddOfIsEvent, PipelineAssumption
        DEF Audited, Tracked, Placed

\* An informer learns a change that is neither a reuse nor a resize.
LEMMA ObserveAudited ==
  ASSUME TypeOK, Converging, Orderly, Audited, NEW k \in Keys,
         NEW new \in ObjectsOf(k) \cup {Absent}, Observe(k, new), UNCHANGED mapVars,
         ~Reused(k), k \in Nodes => ~Resized(k)
  PROVE  /\ Orderly' /\ Audited'
         /\ \A q \in Keys : AddOwed(q)' <=> AddOwed(q) \/ (q = k /\ store[k] = Absent)
         /\ store[k] = Absent => View[k] = Absent /\ ~AddOwed(k)
<1> DEFINE a == [verb |-> VerbOf(store[k], new), key |-> k]
<1>1. /\ Orderly'
      /\ \A f \in Event : Owed(f)' <=> Owed(f) \/ f = a
      /\ \A f \in Event : AtOnePlace(f) /\ (f # a \/ ~Owed(a)) => AtOnePlace(f)'
      /\ a \in Event
      /\ \A f \in Event : OnWay(f)' <=> OnWay(f) \/ f = a
  BY ObservePlaces, ObserveFacts DEF TypeOK
<1>2. /\ store' = [store EXCEPT ![k] = new] /\ DOMAIN store = Keys
      /\ UNCHANGED << processing, object, podList, nodeList >>
      /\ store[k] # Absent \/ new # Absent
      /\ View' = View
  BY DEF Observe, TypeOK, PipeTypeOK, mapVars, View
<1>3. \A q \in Keys : /\ store'[q] = IF q = k THEN new ELSE store[q]
                      /\ Truth'[q] = IF q = k THEN Listed(k, new) ELSE Truth[q]
                      /\ InHand(q)' = InHand(q)
  BY <1>2 DEF Truth, InHand, Listed
<1>4. \A q \in Keys : AddOf(q) = a <=> q = k /\ store[k] = Absent
  BY DEF AddOf, VerbOf
<1>5. \A q \in Keys : AddOwed(q)' <=> AddOwed(q) \/ (q = k /\ store[k] = Absent)
  <2> SUFFICES ASSUME NEW q \in Keys
               PROVE  AddOwed(q)' <=> AddOwed(q) \/ (q = k /\ store[k] = Absent)
    OBVIOUS
  <2>1. AddOf(q) \in Event
    BY AddOfIsEvent
  <2>2. AddOwed(q)' <=> Owed(AddOf(q))'
    BY AddOwedIsOwed DEF AddOwed, Owed, AddOf, OnWay
  <2> QED BY <2>1, <2>2, <1>1, <1>4, AddOwedIsOwed
<1>6. ASSUME store[k] = Absent
      PROVE  /\ View[k] = Absent /\ ~AddOwed(k) /\ InHand(k) = Unread
             /\ new # Absent
  <2>1. ~Pending(k) /\ ~AddOwed(k)
    BY <1>2, <1>3, <1>6 DEF Reused
  <2>2. View[k] = Truth[k] /\ Truth[k] = Absent
    BY <2>1, <1>6, ListedKeys DEF Converging, Listed
  <2>3. InHand(k) = Unread
    BY <2>1 DEF InHand, Pending, TypeOK, PipeTypeOK
  <2> QED BY <2>1, <2>2, <2>3, <1>2, <1>6
<1>7. ASSUME store[k] # Absent, new # Absent PROVE Follows(k, store[k], new)
  <2>1. CASE new = store[k]
    BY <2>1, FollowsItself
  <2>2. CASE new # store[k] /\ k \in Pods
    BY <2>2, <1>2, <1>3, <1>7 DEF Reused, Follows
  <2>3. CASE new # store[k] /\ k \in Nodes
    BY <2>3, <1>2, <1>3, <1>7 DEF Resized
  <2> QED BY <2>1, <2>2, <2>3, KeyKinds
<1>8. \A q \in Keys : AtOnePlace(AddOf(q))'
  <2> SUFFICES ASSUME NEW q \in Keys PROVE AtOnePlace(AddOf(q))'
    OBVIOUS
  <2>1. AddOf(q) \in Event /\ AtOnePlace(AddOf(q))
    BY AddOfIsEvent DEF Audited
  <2>2. AddOf(q) # a \/ ~Owed(a)
    BY <1>4, <1>6, AddOwedIsOwed
  <2>3. \A f \in Event : AtOnePlace(f) /\ (f # a \/ ~Owed(a)) => AtOnePlace(f)'
    BY <1>1
  <2> QED BY <2>1, <2>2, <2>3 DEF AddOf
<1>9. ASSUME NEW q \in Keys PROVE Tracked(q)'
  <2>1. Tracked(q)
    BY DEF Audited
  <2>2. /\ View'[q] = View[q] /\ InHand(q)' = InHand(q) /\ podList' = podList
        /\ \A o : Listed(q, o)' = Listed(q, o)
    BY <1>2, <1>3 DEF Listed
  <2>3. CASE q # k
    <3>1. store'[q] = store[q] /\ Truth'[q] = Truth[q] /\ (AddOwed(q)' <=> AddOwed(q))
      BY <2>3, <1>3, <1>5
    <3> QED BY <2>1, <2>2, <3>1 DEF Tracked, Placed
  <2>4. CASE q = k /\ store[k] = Absent
    <3>1. View'[q] = Absent /\ InHand(q)' = Unread /\ AddOwed(q)'
      BY <2>2, <2>4, <1>5, <1>6
    <3> QED BY <3>1, PipelineAssumption DEF Tracked, Placed
  <2>5. CASE q = k /\ store[k] # Absent /\ new = Absent
    <3>1. store'[q] = Absent /\ Truth'[q] = Absent /\ (AddOwed(q)' <=> AddOwed(q))
      BY <2>5, <1>3, <1>5 DEF Listed
    <3> QED BY <2>1, <2>2, <3>1 DEF Tracked, Placed
  <2>6. CASE q = k /\ store[k] # Absent /\ new # Absent
    <3>1. /\ store'[q] = new /\ Truth'[q] = Listed(q, new)
          /\ (AddOwed(q)' <=> AddOwed(q))
          /\ Truth[q] = Listed(q, store[q])
      BY <2>6, <1>3, <1>5, ListedKeys
    <3>2. Follows(q, store[q], new)
      BY <2>6, <1>7
    <3>3. Truth'[q] # Absent => Truth[q] # Absent
      BY <3>1, <3>2, <2>6, FollowsListed
    <3>4. View[q] # Absent => Follows(q, View[q], new)
      BY <2>1, <2>6, <3>2, FollowsOn DEF Tracked
    <3>5. InHand(q) # Absent
      BY <2>1, <2>6 DEF Tracked
    <3>6. InHand(q) # Unread => Follows(q, InHand(q), new)
      BY <2>1, <2>6, <3>2, <3>5, FollowsOn DEF Tracked
    <3>7. q \in Pods => Placed(q)'
      <4> SUFFICES ASSUME q \in Pods, podList[q] # Absent, ~AddOwed(q),
                          podList[q].node \notin Nodes
                   PROVE  \A o \in {new, InHand(q)} \ {Absent, Unread} :
                            Ended(o) /\ o.node = NoNode
        BY <2>2, <3>1 DEF Placed
      <4>1. \A o \in {store[q], InHand(q)} \ {Absent, Unread} :
              Ended(o) /\ o.node = NoNode
        BY <2>1 DEF Tracked, Placed
      <4>2. store[q] # Unread
        BY DescriberAssumption, PipelineAssumption DEF TypeOK, ObjectsOf
      <4>3. Ended(store[q]) /\ store[q].node = NoNode
        BY <4>1, <4>2, <2>6
      <4>4. Ended(new) /\ new.node = NoNode
        BY <4>3, <3>2, EndStays
      <4> QED BY <4>1, <4>4
    <3> QED BY <2>1, <2>2, <3>1, <3>3, <3>4, <3>5, <3>6, <3>7, <2>6
            DEF Tracked, Listed
  <2> QED BY <2>3, <2>4, <2>5, <2>6
<1>10. store[k] = Absent => View[k] = Absent /\ ~AddOwed(k)
  BY <1>6
<1> QED BY <1>1, <1>5, <1>8, <1>9, <1>10 DEF Audited

\* An event is moved on, or the worker reads.
LEMMA MoveAudited ==
  ASSUME TypeOK, Orderly, Audited, UNCHANGED mapVars,
         \/ \E r \in Resources : Deliver(r)
         \/ \E e \in Event : RetryDue(e)
         \/ Get
         \/ Read
  PROVE  /\ Orderly' /\ Audited'
         /\ \A q \in Keys : AddOwed(q)' <=> AddOwed(q)
<1>1. /\ Orderly'
      /\ \A f \in Event : Owed(f)' <=> Owed(f)
      /\ \A f \in Event : AtOnePlace(f) => AtOnePlace(f)'
  BY MovePlaces DEF TypeOK
<1>2. /\ store' = store /\ podList' = podList
      /\ View' = View /\ Truth' = Truth
      /\ \A q, o : Listed(q, o)' = Listed(q, o)
  <2>1. store' = store /\ podList' = podList /\ nodeList' = nodeList
    BY DEF Deliver, RetryDue, Get, Read, mapVars
  <2> QED BY <2>1 DEF View, Truth, Listed
<1>3. \A q \in Keys : AddOwed(q)' <=> AddOwed(q)
  <2> SUFFICES ASSUME NEW q \in Keys PROVE AddOwed(q)' <=> AddOwed(q)
    OBVIOUS
  <2>1. AddOf(q) \in Event
    BY AddOfIsEvent
  <2>2. AddOwed(q)' <=> Owed(AddOf(q))'
    BY DEF AddOwed, Owed, AddOf, OnWay
  <2> QED BY <2>1, <2>2, <1>1, AddOwedIsOwed
<1>4. \A q \in Keys : AtOnePlace(AddOf(q))'
  <2> SUFFICES ASSUME NEW q \in Keys PROVE AtOnePlace(AddOf(q))'
    OBVIOUS
  <2>1. AddOf(q) \in Event /\ AtOnePlace(AddOf(q))
    BY AddOfIsEvent DEF Audited
  <2> QED BY <2>1, <1>1 DEF AddOf
<1>5. \A q \in Keys : \/ InHand(q)' = InHand(q)
                      \/ InHand(q) = Unread /\ InHand(q)' = store[q]
                      \/ InHand(q)' = Unread
  <2>1. CASE \E r \in Resources : Deliver(r)
    BY <2>1 DEF Deliver, InHand
  <2>2. CASE \E e \in Event : RetryDue(e)
    BY <2>2 DEF RetryDue, InHand
  <2>3. CASE Get
    BY <2>3 DEF Get, InHand, TypeOK, PipeTypeOK
  <2>4. CASE Read
    BY <2>4 DEF Read, InHand
  <2> QED BY <2>1, <2>2, <2>3, <2>4
<1>6. ASSUME NEW q \in Keys PROVE Tracked(q)'
  <2>1. Tracked(q) /\ Truth[q] = Listed(q, store[q])
    BY ListedKeys DEF Audited
  <2>2. AddOwed(q)' <=> AddOwed(q)
    BY <1>3
  <2>3. CASE InHand(q)' = InHand(q)
    BY <2>1, <2>2, <2>3, <1>2 DEF Tracked, Placed
  <2>4. CASE InHand(q)' = Unread
    <3>1. q \in Pods => Placed(q)'
      BY <2>1, <2>2, <2>4, <1>2 DEF Tracked, Placed
    <3> QED BY <2>1, <2>2, <2>4, <3>1, <1>2, PipelineAssumption DEF Tracked
  <2>5. CASE InHand(q)' = store[q]
    <3>1. q \in Pods => Placed(q)'
      BY <2>1, <2>2, <2>5, <1>2 DEF Tracked, Placed
    <3>2. Listed(q, InHand(q)') = Truth[q]
      BY <2>1, <2>5
    <3> QED BY <2>1, <2>2, <2>5, <3>1, <3>2, <1>2, FollowsItself DEF Tracked
  <2> QED BY <1>5, <2>3, <2>4, <2>5
<1> QED BY <1>1, <1>3, <1>4, <1>6 DEF Audited

\* What the handling of an event leaves owed.
LEMMA HandleOwed ==
  ASSUME TypeOK, Orderly, Audited, NEW e \in Event, Handle(e)
  PROVE  /\ Orderly'
         /\ \A q \in Keys : AtOnePlace(AddOf(q))'
         /\ \A q \in Keys \ {e.key} : AddOwed(q)' <=> AddOwed(q)
         /\ e.verb # "add" => (AddOwed(e.key)' <=> AddOwed(e.key))
         /\ e.verb = "add" => AddOwed(e.key)
         /\ e.verb = "add" /\ Finish(e, FALSE) => ~AddOwed(e.key)'
         /\ Finish(e, TRUE) /\ requeues[e] # MaxRequeue /\ e.verb = "add"
              => AddOwed(e.key)'
<1>1. e = processing /\ e.key \in Keys /\ PipeTypeOK
  BY HandleFinishes, EventParts DEF Handling, TypeOK
<1>2. \A q : AddOwed(q)' <=> Owed(AddOf(q))'
  BY DEF AddOwed, Owed, AddOf, OnWay
<1>3. PICK failed \in BOOLEAN : Finish(e, failed)
  BY HandleFinishes
<1>4. /\ Orderly'
      /\ \A f \in Event \ {e} : Owed(f)' <=> Owed(f)
      /\ \A f \in Event : AtOnePlace(f) => AtOnePlace(f)'
  BY <1>1, <1>3, FinishPlaces
<1>5. \A q \in Keys : AtOnePlace(AddOf(q))'
  <2> SUFFICES ASSUME NEW q \in Keys PROVE AtOnePlace(AddOf(q))'
    OBVIOUS
  <2>1. AddOf(q) \in Event /\ AtOnePlace(AddOf(q))
    BY AddOfIsEvent DEF Audited
  <2> QED BY <2>1, <1>4 DEF AddOf
<1>6. \A q \in Keys : q # e.key \/ e.verb # "add" => (AddOwed(q)' <=> AddOwed(q))
  <2> SUFFICES ASSUME NEW q \in Keys, q # e.key \/ e.verb # "add"
               PROVE  AddOwed(q)' <=> AddOwed(q)
    OBVIOUS
  <2>1. AddOf(q) \in Event \ {e}
    BY AddOfIsEvent
  <2> QED BY <2>1, <1>2, <1>4, AddOwedIsOwed
<1>7. ASSUME e.verb = "add"
      PROVE  /\ AddOwed(e.key)
             /\ Finish(e, FALSE) => ~AddOwed(e.key)'
             /\ Finish(e, TRUE) /\ requeues[e] # MaxRequeue => AddOwed(e.key)'
  <2>1. e = AddOf(e.key) /\ AtOnePlace(e)
    BY <1>1, <1>7, AddOfIsEvent DEF Audited
  <2>2. AddOwed(e.key)
    BY <2>1, <1>1 DEF AddOwed, AddOf
  <2>3. AddOwed(e.key)' <=> Owed(e)'
    <3>1. AddOwed(e.key)' <=> Owed(AddOf(e.key))'
      BY <1>2
    <3> QED BY <3>1, <2>1 DEF Owed, OnWay, AddOf
  <2>4. Finish(e, FALSE) => ~Owed(e)'
    BY <2>1, <1>1, FinishPlaces
  <2>5. requeues[e] # MaxRequeue => requeues[e] < MaxRequeue
    BY <1>1, PipelineAssumption DEF PipeTypeOK
  <2>6. Finish(e, TRUE) /\ requeues[e] # MaxRequeue => Owed(e)'
    BY <2>5, <1>1, FinishPlaces
  <2> QED BY <2>2, <2>3, <2>4, <2>6
<1> QED BY <1>1, <1>4, <1>5, <1>6, <1>7

\* What a handler does to a pod: it books it, takes a booking off, or changes
\* neither the ledgers nor what is booked.
BooksPod(k) ==
  /\ object \in PodObjects /\ object.node \in Nodes
  /\ podList' = [podList EXCEPT ![k] = object]
  /\ requests' = mapAdd(requests, object.node, PodRequests(object.spec))
  /\ limits' = mapAdd(limits, object.node, PodLimits(object.spec))
  /\ AddOwed(k) /\ ~AddOwed(k)'

TakesPodOff(k) ==
  /\ IsBooked(k)
  /\ podList' = [podList EXCEPT ![k] = Absent]
  /\ requests' = mapSub(requests, podList[k].node, PodRequests(podList[k].spec))
  /\ limits' = mapSub(limits, podList[k].node, PodLimits(podList[k].spec))

LeavesPodBooked(k) ==
  /\ requests' = requests /\ limits' = limits
  /\ \/ podList' = podList
     \/ podList' = [podList EXCEPT ![k] = Absent]
     \/ podList' = [podList EXCEPT ![k] = object]
  /\ IsBooked(k)' <=> IsBooked(k)
  /\ IsBooked(k) => /\ podList'[k].node = podList[k].node
                    /\ podList'[k].spec = podList[k].spec

LEMMA NoNodeNotKnown ==
  ASSUME NEW rm, IsResourceMap(rm, Nodes), NEW list
  PROVE  mapSub(rm, NoNode, list) = rm
BY DescriberAssumption DEF IsResourceMap, mapSub, KnowsNode

LEMMA HandlePod ==
  ASSUME TypeOK, Orderly, Audited, NEW e \in Event, Handle(e), e.key \in Pods,
         ~Dropped(e), ~CutShort(e)
  PROVE  /\ BooksPod(e.key) \/ TakesPodOff(e.key) \/ LeavesPodBooked(e.key)
         /\ Placed(e.key)'
         /\ nodeList' = nodeList /\ allocatable' = allocatable
<1> DEFINE k == e.key
<1>1. /\ e = processing /\ object # Unread /\ k \in Keys /\ k \in Pods
      /\ k \notin Nodes
      /\ object \in PodObjects \cup {Absent} /\ InHand(k) = object
      /\ podList \in [Pods -> PodObjects \cup {Absent}]
      /\ View[k] = podList[k] /\ Truth[k] = Listed(k, store[k])
      /\ Handling(e) /\ e # Nothing
  BY HandleFinishes, EventParts, ListedKeys, KeyKinds
     DEF Handling, TypeOK, InHand, ObjectsOf
<1>2. /\ store' = store /\ InHand(k)' = Unread
  BY HandleFinishes DEF Finish, InHand
<1>3. Tracked(k) /\ Placed(k)
  BY <1>1 DEF Audited, Tracked
<1>4. /\ e.verb # "add" => (AddOwed(k)' <=> AddOwed(k))
      /\ e.verb = "add" => AddOwed(k)
      /\ e.verb = "add" /\ Finish(e, FALSE) => ~AddOwed(k)'
      /\ Finish(e, TRUE) /\ requeues[e] # MaxRequeue /\ e.verb = "add" => AddOwed(k)'
  BY HandleOwed
<1>5. /\ IsResourceMap(requests, Nodes) /\ IsResourceMap(limits, Nodes)
      /\ NoNode \notin Nodes /\ Absent # Unread
      /\ \A p \in PodObjects : p # Absent /\ (p.node \in Nodes \/ p.node = NoNode)
      /\ store[k] # Unread
  BY <1>1, DescriberAssumption, PipelineAssumption DEF TypeOK, PodObjects, ObjectsOf
<1> DEFINE Goal == /\ BooksPod(k) \/ TakesPodOff(k) \/ LeavesPodBooked(k)
                   /\ Placed(k)'
                   /\ nodeList' = nodeList /\ allocatable' = allocatable
<1> HIDE DEF k
<1>6. ASSUME handlePodAddition(e) PROVE Goal
  <2>1. /\ object \in PodObjects /\ e.verb = "add" /\ AddOwed(k) /\ ~IsBooked(k)
        /\ object # Absent /\ Adding(e)
    BY <1>1, <1>4, <1>6 DEF handlePodAddition, Adding, IsBooked
  <2>2. CASE Ended(object) /\ UNCHANGED mapVars /\ Finish(e, FALSE)
    <3>1. UNCHANGED << podList, nodeList, requests, limits, allocatable >>
      BY <2>2 DEF mapVars
    <3>2. CASE podList[k] = Absent
      BY <3>1, <3>2, <2>1 DEF LeavesPodBooked, IsBooked, Placed
    <3>3. CASE podList[k] # Absent
      <4>1. object.node = NoNode
        BY <3>3, <2>1, <2>2, <1>1, <1>5 DEF CutShort, k
      <4>2. Follows(k, podList[k], object)
        BY <3>3, <2>1, <1>1, <1>3, <1>5 DEF Tracked
      <4>3. podList[k].node \notin Nodes
        BY <4>1, <4>2, <1>1, <1>5, PlacedPodStays
      <4>4. store[k] # Absent => Ended(store[k]) /\ store[k].node = NoNode
        BY <4>1, <2>1, <2>2, <1>1, <1>3, <1>5, EndStays DEF Tracked
      <4>5. Placed(k)'
        BY <4>4, <3>1, <1>2 DEF Placed, Ended
      <4> QED BY <4>3, <4>5, <3>1, <2>1 DEF LeavesPodBooked, IsBooked
    <3> QED BY <3>2, <3>3
  <2>3. CASE /\ Unscheduled(object) /\ Finish(e, TRUE)
             /\ podList' = [podList EXCEPT ![k] = object]
             /\ UNCHANGED << nodeList, requests, limits, allocatable >>
    <3>1. AddOwed(k)'
      BY <2>1, <2>3, <1>4 DEF Dropped
    <3> QED BY <3>1, <2>1, <2>3 DEF LeavesPodBooked, IsBooked, Placed
  <2>4. CASE /\ ~Ended(object) /\ ~Unscheduled(object)
             /\ podList' = [podList EXCEPT ![k] = object]
             /\ requests' = mapAdd(requests, object.node, PodRequests(object.spec))
             /\ limits' = mapAdd(limits, object.node, PodLimits(object.spec))
             /\ UNCHANGED << nodeList, allocatable >>
             /\ Finish(e, FALSE)
    <3>1. object.node \in Nodes
      BY <2>1, <2>4, BookedPodHasNode
    <3>2. podList'[k] = object
      BY <2>4, <1>1
    <3> QED BY <3>1, <3>2, <2>1, <2>4, <1>4 DEF BooksPod, Placed
  <2> QED BY <1>6, <2>2, <2>3, <2>4 DEF handlePodAddition, k
  \* Taking off what the worker sees of the pod.
<1>7. ASSUME NEW last \in PodObjects, podList[k] # Absent, Release(k, last),
             last.node # NoNode => ~AddOwed(k),
             last.node = NoNode => ~IsBooked(k),
             last.node # NoNode => /\ podList[k].node = last.node
                                   /\ podList[k].spec = last.spec
      PROVE  Goal
  <2>1. /\ podList' = [podList EXCEPT ![k] = Absent] /\ podList'[k] = Absent
        /\ UNCHANGED << nodeList, allocatable >>
        /\ requests' = mapSub(requests, last.node, PodRequests(last.spec))
        /\ limits' = mapSub(limits, last.node, PodLimits(last.spec))
    BY <1>1, <1>7 DEF Release
  <2>2. Placed(k)' /\ ~IsBooked(k)'
    BY <2>1 DEF Placed, IsBooked
  <2>3. CASE last.node = NoNode
    <3>1. requests' = requests /\ limits' = limits
      BY <2>1, <2>3, <1>5, NoNodeNotKnown
    <3> QED BY <3>1, <2>1, <2>2, <2>3, <1>7 DEF LeavesPodBooked
  <2>4. CASE last.node # NoNode
    <3>1. IsBooked(k)
      BY <2>4, <1>5, <1>7 DEF IsBooked
    <3> QED BY <3>1, <2>1, <2>2, <2>4, <1>7 DEF TakesPodOff
  <2> QED BY <2>3, <2>4
<1>8. ASSUME podList[k] = Absent, UNCHANGED mapVars PROVE Goal
  BY <1>8 DEF mapVars, LeavesPodBooked, IsBooked, Placed
<1>9. ASSUME handlePodUpdate(e) PROVE Goal
  <2>1. /\ object \in PodObjects /\ e.verb # "add" /\ object # Absent
        /\ AddOwed(k)' <=> AddOwed(k)
    BY <1>1, <1>4, <1>9 DEF handlePodUpdate, Updating
  <2>2. podList[k] # Absent => Follows(k, podList[k], object)
    BY <2>1, <1>1, <1>3 DEF Tracked
  <2>3. CASE Ended(object) /\ podList[k] # Absent /\ Release(k, object)
    <3>1. object.node # NoNode => ~AddOwed(k)
      BY <2>1, <2>3, <1>1 DEF CutShort, k
    <3>2. object.node = NoNode => podList[k].node \notin Nodes
      BY <2>2, <2>3, <1>1, <1>5, PlacedPodStays
    <3>3. ASSUME object.node # NoNode
          PROVE  podList[k].node = object.node /\ podList[k].spec = object.spec
      <4>1. podList[k].node \in Nodes
        BY <3>1, <3>3, <2>1, <2>3, <1>1, <1>3, <1>5 DEF Placed
      <4> QED BY <4>1, <2>2, <2>3, <1>1, PlacedPodStays
    <3> QED BY <3>1, <3>2, <3>3, <2>1, <2>3, <1>7 DEF IsBooked
  <2>4. CASE Ended(object) /\ podList[k] = Absent /\ UNCHANGED mapVars
    BY <2>4, <1>8
  <2>5. CASE /\ ~Ended(object)
             /\ podList' = [podList EXCEPT ![k] = object]
             /\ UNCHANGED << nodeList, requests, limits, allocatable >>
    <3>1. podList'[k] = object
      BY <2>5, <1>1
    <3>2. CASE AddOwed(k)
      BY <3>2, <2>1, <2>5 DEF LeavesPodBooked, IsBooked, Placed
    <3>3. CASE ~AddOwed(k)
      <4>1. podList[k] # Absent
        BY <3>3, <2>1, <2>5, <1>1, <1>3 DEF Tracked, Listed
      <4>2. podList[k].node \in Nodes
        BY <4>1, <3>3, <2>1, <2>5, <1>1, <1>3 DEF Placed
      <4>3. object.node = podList[k].node /\ object.spec = podList[k].spec
        BY <4>1, <4>2, <2>2, <1>1, PlacedPodStays
      <4> QED BY <3>1, <3>3, <4>1, <4>2, <4>3, <2>1, <2>5
              DEF LeavesPodBooked, IsBooked, Placed
    <3> QED BY <3>2, <3>3
  <2> QED BY <1>9, <2>3, <2>4, <2>5 DEF handlePodUpdate, k
<1>10. ASSUME handlePodDeletion(e) PROVE Goal
  <2>1. object = Absent
    BY <1>10 DEF handlePodDeletion, Deleting
  <2>2. CASE podList[k] # Absent /\ Release(k, podList[k])
    <3>1. podList[k] \in PodObjects
      BY <2>2, <1>1
    <3>2. podList[k].node # NoNode => ~AddOwed(k)
      BY <2>1, <2>2, <1>1 DEF CutShort, k
    <3> QED BY <3>1, <3>2, <2>2, <1>5, <1>7 DEF IsBooked
  <2> QED BY <1>10, <2>2, <1>8 DEF handlePodDeletion, k
<1>11. ~handleNodeAddition(e) /\ ~handleNodeUpdate(e) /\ ~handleNodeDeletion(e)
  BY <1>1 DEF handleNodeAddition, handleNodeUpdate, handleNodeDeletion, k
<1> QED BY <1>6, <1>9, <1>10, <1>11 DEF Handle, k

LEMMA HandleTracked ==
  ASSUME TypeOK, Orderly, Audited, NEW e \in Event, Handle(e),
         e.key \in Pods => ~Dropped(e) /\ ~CutShort(e)
  PROVE  Audited'
<1>1. /\ e = processing /\ object # Unread /\ e.key \in Keys
      /\ Truth' = Truth /\ store' = store
      /\ processing' = Nothing /\ object' = Unread
      /\ \/ View' = [View EXCEPT ![e.key] = Listed(e.key, object)]
         \/ View' = View /\ e.key \in Pods /\ e.verb = "add"
            /\ Listed(e.key, object) = Absent
  BY HandleWrites
<1>2. DOMAIN View = Keys /\ e # Nothing
  BY PipelineAssumption DEF View
<1>3. \A q \in Keys : InHand(q) = (IF q = e.key THEN object ELSE Unread)
                      /\ InHand(q)' = Unread
  BY <1>1, <1>2 DEF InHand
<1>4. ASSUME NEW q \in Keys, q # e.key PROVE Tracked(q)'
  <2>1. /\ Tracked(q) /\ View'[q] = View[q] /\ (AddOwed(q)' <=> AddOwed(q))
        /\ InHand(q) = Unread /\ InHand(q)' = Unread
    BY <1>1, <1>2, <1>3, <1>4, HandleOwed DEF Audited
  <2>2. q \in Pods => Placed(q)'
    <3> SUFFICES ASSUME q \in Pods PROVE Placed(q)'
      OBVIOUS
    <3>1. View[q] = podList[q] /\ View'[q] = podList'[q]
      BY DEF View
    <3> QED BY <2>1, <3>1, <1>1 DEF Tracked, Placed
  <2> QED BY <2>1, <2>2, <1>1 DEF Tracked
<1>5. Tracked(e.key)'
  <2> DEFINE k == e.key
  <2>1. /\ Tracked(k) /\ InHand(k) = object /\ InHand(k)' = Unread
        /\ Truth[k] = Listed(k, store[k])
        /\ View'[k] = Listed(k, object)
           \/ (View'[k] = View[k] /\ Listed(k, object) = Absent)
    BY <1>1, <1>2, <1>3, ListedKeys DEF Audited
  <2>2. k \in Pods => Placed(k)'
    BY HandlePod
  <2>3. /\ \A o : Listed(k, o) = o \/ Listed(k, o) = Absent
        /\ Listed(k, Absent) = Absent
    BY DEF Listed
  <2> HIDE DEF k
  <2>4. View'[k] # Absent /\ store[k] # Absent => Follows(k, View'[k], store[k])
    BY <2>1, <2>3, <1>1 DEF Tracked
  <2>5. ASSUME Truth[k] # Absent, View'[k] = Absent PROVE FALSE
    <3>1. store[k] # Absent /\ object # Absent /\ Listed(k, store[k]) # Absent
      BY <2>1, <2>3, <2>5 DEF Tracked
    <3>2. Follows(k, object, store[k])
      BY <3>1, <2>1, <1>1 DEF Tracked
    <3>3. Listed(k, object) # Absent
      BY <3>1, <3>2, <1>1, FollowsListed DEF k
    <3> QED BY <3>1, <3>3, <2>1, <2>3, <2>5
  <2>6. Truth'[k] # Absent /\ View'[k] = Absent => AddOwed(k)'
    BY <2>5, <1>1
  <2>7. View'[k] # Absent /\ store'[k] # Absent => Follows(k, View'[k], store'[k])
    BY <2>4, <1>1
  <2>8. Tracked(k)'
    BY <2>1, <2>2, <2>6, <2>7, PipelineAssumption DEF Tracked
  <2> QED BY <2>8 DEF k
<1> QED BY <1>4, <1>5, HandleOwed DEF Audited

----------------------------------------------------------------------------
(* What the nodes offer.                                                   *)

\* The ledger knows a node from its "add" on, and holds what the node says.
NodeBooked(n) ==
  /\ AddOwed(n) => ~KnowsNode(allocatable, n)
  /\ ~AddOwed(n) =>
       /\ KnowsNode(allocatable, n) <=> nodeList[n] # Absent
       /\ KnowsNode(allocatable, n) =>
            allocatable.perNode[n] = nodeList[n].allocatable

LEMMA HandleNodeBooked ==
  ASSUME TypeOK, Orderly, Audited, NEW e \in Event, Handle(e), NEW n \in Nodes,
         NodeBooked(n)
  PROVE  NodeBooked(n)'
<1>1. /\ e = processing /\ object # Unread /\ e.key \in Keys /\ n \in Keys
      /\ n \notin Pods /\ Handling(e)
      /\ nodeList \in [Nodes -> NodeObjects \cup {Absent}]
      /\ View[n] = nodeList[n]
      /\ \A o \in NodeObjects : o # Absent
  BY HandleFinishes, EventParts, ListedKeys, KeyKinds, DescriberAssumption
     DEF Handling, TypeOK
<1>2. CASE e.key # n
  <2>1. AddOwed(n)' <=> AddOwed(n)
    BY <1>1, <1>2, HandleOwed
  <2>2. /\ nodeList'[n] = nodeList[n]
        /\ KnowsNode(allocatable', n) <=> KnowsNode(allocatable, n)
        /\ KnowsNode(allocatable, n) => allocatable'.perNode[n] = allocatable.perNode[n]
    <3>1. CASE nodeList' = nodeList /\ allocatable' = allocatable
      BY <3>1
    <3>2. CASE handlePodAddition(e) \/ handlePodUpdate(e) \/ handlePodDeletion(e)
               \/ handleNodeUpdate(e)
      BY <1>1, <1>2, <3>2 DEF handlePodAddition, handlePodUpdate, handlePodDeletion,
                    handleNodeUpdate, Release, mapVars
    <3>3. CASE handleNodeAddition(e)
      BY <1>1, <1>2, <3>3 DEF handleNodeAddition, mapAdd, KnowsNode
    <3>4. CASE handleNodeDeletion(e)
      <4>1. CASE nodeList[e.key] = Absent
        BY <4>1, <3>4 DEF handleNodeDeletion, mapVars
      <4>2. CASE nodeList[e.key] # Absent
        <5>1. nodeList' = [nodeList EXCEPT ![e.key] = Absent]
              /\ allocatable' = mapDeleteNode(allocatable, e.key)
          BY <4>2, <3>4 DEF handleNodeDeletion
        <5> QED BY <5>1, <1>1, <1>2 DEF mapDeleteNode, KnowsNode
      <4> QED BY <4>1, <4>2
    <3> QED BY <3>2, <3>3, <3>4 DEF Handle
  <2> QED BY <2>1, <2>2 DEF NodeBooked, KnowsNode
<1>3. CASE e.key = n
  <2>1. /\ InHand(n) = object /\ Tracked(n) /\ object \in NodeObjects \cup {Absent}
        /\ \A o : Listed(n, o) = o
    BY <1>1, <1>3 DEF InHand, Audited, Handling, TypeOK, ObjectsOf, Listed
  <2>2. /\ e.verb # "add" => (AddOwed(n)' <=> AddOwed(n))
        /\ e.verb = "add" => AddOwed(n)
        /\ e.verb = "add" /\ Finish(e, FALSE) => ~AddOwed(n)'
    BY <1>3, HandleOwed
  <2>3. CASE handleNodeAddition(e)
    <3>1. /\ e.verb = "add" /\ Finish(e, FALSE) /\ object \in NodeObjects
          /\ nodeList' = [nodeList EXCEPT ![n] = object]
          /\ allocatable' = mapAdd(allocatable, n, object.allocatable)
      BY <2>1, <2>3, <1>3 DEF handleNodeAddition, Adding
    <3>2. AddOwed(n) /\ ~AddOwed(n)' /\ ~KnowsNode(allocatable, n)
      BY <3>1, <2>2 DEF NodeBooked
    <3>3. /\ KnowsNode(allocatable', n)
          /\ allocatable'.perNode[n] = addResourceList(NoResources, object.allocatable)
      BY <3>1, <3>2 DEF mapAdd, KnowsNode
    <3>4. IsResourceList(object.allocatable)
      BY <3>1, DescriberAssumption DEF NodeObjects
    <3>5. addResourceList(NoResources, object.allocatable) = object.allocatable
      <4> DEFINE list == object.allocatable
      <4>1. /\ DOMAIN NoResources = {} /\ \A r : Amount(NoResources, r) = 0
            /\ \A r \in DOMAIN list : Amount(list, r) = list[r] /\ list[r] \in Int
            /\ list = [r \in DOMAIN list |-> list[r]]
        BY <3>4 DEF NoResources, Amount, IsResourceList
      <4> HIDE DEF list
      <4>2. addResourceList(NoResources, list) = [r \in DOMAIN list |-> list[r]]
        BY <4>1 DEF addResourceList
      <4> QED BY <4>1, <4>2 DEF list
    <3>6. nodeList'[n] = object
      BY <3>1, <1>1
    <3> QED BY <3>1, <3>2, <3>3, <3>5, <3>6, <1>1 DEF NodeBooked, KnowsNode
  <2>4. CASE handleNodeUpdate(e)
    <3>1. /\ e.verb # "add" /\ object \in NodeObjects
          /\ nodeList' = [nodeList EXCEPT ![n] = object] /\ nodeList'[n] = object
          /\ allocatable' = allocatable
      BY <2>1, <2>4, <1>1, <1>3 DEF handleNodeUpdate, Updating
    <3>2. CASE AddOwed(n)
      BY <3>1, <3>2, <2>2 DEF NodeBooked
    <3>3. CASE ~AddOwed(n)
      <4>1. nodeList[n] # Absent
        BY <3>1, <3>3, <2>1, <1>1 DEF Tracked
      <4>2. object = nodeList[n]
        BY <3>1, <4>1, <2>1, <1>1 DEF Tracked, Follows
      <4> QED BY <3>1, <3>3, <4>1, <4>2, <2>2 DEF NodeBooked
    <3> QED BY <3>2, <3>3
  <2>5. CASE handleNodeDeletion(e)
    <3>1. CASE nodeList[n] = Absent
      <4>1. nodeList' = nodeList /\ allocatable' = allocatable
        BY <3>1, <2>5, <1>3 DEF handleNodeDeletion, mapVars
      <4>2. ~KnowsNode(allocatable, n)
        BY <3>1 DEF NodeBooked
      <4> QED BY <3>1, <4>1, <4>2 DEF NodeBooked
    <3>2. CASE nodeList[n] # Absent
      <4>1. /\ nodeList' = [nodeList EXCEPT ![n] = Absent] /\ nodeList'[n] = Absent
            /\ allocatable' = mapDeleteNode(allocatable, n)
        BY <3>2, <2>5, <1>1, <1>3 DEF handleNodeDeletion
      <4>2. ~KnowsNode(allocatable', n)
        BY <4>1 DEF mapDeleteNode, KnowsNode
      <4> QED BY <4>1, <4>2 DEF NodeBooked
    <3> QED BY <3>1, <3>2
  <2>6. ~handlePodAddition(e) /\ ~handlePodUpdate(e) /\ ~handlePodDeletion(e)
    BY <1>1, <1>3 DEF handlePodAddition, handlePodUpdate, handlePodDeletion
  <2> QED BY <2>3, <2>4, <2>5, <2>6 DEF Handle
<1> QED BY <1>2, <1>3

----------------------------------------------------------------------------
(* What the pods of a node request, and what they are limited to.          *)

BookedRequests(n) == [k \in Booked(n) |-> PodRequests(podList[k].spec)]
BookedLimits(n)   == [k \in Booked(n) |-> PodLimits(podList[k].spec)]

PodsBooked(n) == /\ HoldsExactly(requests, n, BookedRequests(n))
                 /\ HoldsExactly(limits, n, BookedLimits(n))

LEMMA BookedIsBooked ==
  \A n \in Nodes : Booked(n) = {k \in Pods : IsBooked(k) /\ podList[k].node = n}
BY DEF Booked, IsBooked

\* Where no booking changes, the books stay exact.
LEMMA SameBooked ==
  ASSUME NEW n \in Nodes, PodsBooked(n), requests' = requests, limits' = limits,
         \A k \in Pods : /\ IsBooked(k)' <=> IsBooked(k)
                         /\ IsBooked(k) => /\ podList'[k].node = podList[k].node
                                           /\ podList'[k].spec = podList[k].spec
  PROVE  PodsBooked(n)'
<1>1. Booked(n)' = Booked(n)
  <2>1. /\ Booked(n) = {k \in Pods : IsBooked(k) /\ podList[k].node = n}
        /\ Booked(n)' = {k \in Pods : IsBooked(k)' /\ podList'[k].node = n}
    BY BookedIsBooked DEF Booked, IsBooked, AddOwed, OnWay
  <2> QED BY <2>1
<1>2. \A k \in Booked(n) : podList'[k].spec = podList[k].spec
  BY BookedIsBooked
<1>3. BookedRequests(n)' = BookedRequests(n) /\ BookedLimits(n)' = BookedLimits(n)
  BY <1>1, <1>2 DEF BookedRequests, BookedLimits
<1> QED BY <1>3 DEF PodsBooked

LEMMA HandlePodsBooked ==
  ASSUME TypeOK, Orderly, Audited, NEW e \in Event, Handle(e),
         e.key \in Pods => ~Dropped(e) /\ ~CutShort(e),
         NEW n \in Nodes, PodsBooked(n)
  PROVE  PodsBooked(n)'
<1> DEFINE k == e.key
<1>1. /\ k \in Keys
      /\ podList \in [Pods -> PodObjects \cup {Absent}]
      /\ IsResourceMap(requests, Nodes) /\ IsResourceMap(limits, Nodes)
      /\ \A q \in Keys \ {k} : AddOwed(q)' <=> AddOwed(q)
      /\ \A q \in Pods : q \in Keys
  BY EventParts, HandleOwed, KeyKinds DEF TypeOK
<1>2. /\ Booked(n) = {q \in Pods : IsBooked(q) /\ podList[q].node = n}
      /\ Booked(n)' = {q \in Pods : IsBooked(q)' /\ podList'[q].node = n}
  BY BookedIsBooked DEF Booked, IsBooked, AddOwed, OnWay
<1> HIDE DEF k
<1>3. CASE k \notin Pods
  <2>1. podList' = podList /\ requests' = requests /\ limits' = limits
    BY <1>3 DEF Handle, handlePodAddition, handlePodUpdate, handlePodDeletion,
                handleNodeAddition, handleNodeUpdate, handleNodeDeletion, mapVars, k
  <2>2. \A q \in Pods : IsBooked(q)' <=> IsBooked(q)
    BY <2>1, <1>1, <1>3 DEF IsBooked
  <2> QED BY <2>1, <2>2, SameBooked
<1>4. CASE k \in Pods /\ BooksPod(k)
  <2>1. /\ object \in PodObjects /\ object.node \in Nodes
        /\ podList' = [podList EXCEPT ![k] = object]
        /\ requests' = mapAdd(requests, object.node, PodRequests(object.spec))
        /\ limits' = mapAdd(limits, object.node, PodLimits(object.spec))
        /\ ~IsBooked(k) /\ IsBooked(k)' /\ object # Absent
    <3>1. podList'[k] = object /\ object \in PodObjects /\ object # Absent
      BY <1>1, <1>4, DescriberAssumption DEF BooksPod
    <3> QED BY <1>4, <3>1 DEF BooksPod, IsBooked
  <2>2. \A q \in Pods \ {k} : podList'[q] = podList[q] /\ (IsBooked(q)' <=> IsBooked(q))
    BY <2>1, <1>1 DEF IsBooked
  <2>3. podList'[k] = object
    BY <2>1, <1>1, <1>4
  <2>4. IsResourceList(PodRequests(object.spec)) /\ IsResourceList(PodLimits(object.spec))
    BY <2>1, PodLists
  <2>5. CASE object.node = n
    <3>1. k \notin Booked(n) /\ Booked(n)' = Booked(n) \cup {k}
      BY <2>1, <2>2, <2>3, <2>5, <1>2, <1>4
    <3>2. /\ DOMAIN BookedRequests(n) = Booked(n)
          /\ DOMAIN BookedRequests(n)' = Booked(n) \cup {k}
          /\ BookedRequests(n)'[k] = PodRequests(object.spec)
          /\ \A q \in Booked(n) : BookedRequests(n)'[q] = BookedRequests(n)[q]
      BY <3>1, <2>2, <2>3, <1>2 DEF BookedRequests
    <3>3. /\ DOMAIN BookedLimits(n) = Booked(n)
          /\ DOMAIN BookedLimits(n)' = Booked(n) \cup {k}
          /\ BookedLimits(n)'[k] = PodLimits(object.spec)
          /\ \A q \in Booked(n) : BookedLimits(n)'[q] = BookedLimits(n)[q]
      BY <3>1, <2>2, <2>3, <1>2 DEF BookedLimits
    <3>4. HoldsExactly(requests', n, BookedRequests(n)')
      BY <3>1, <3>2, <2>1, <2>4, <2>5, <1>1, AddBooks DEF PodsBooked
    <3>5. HoldsExactly(limits', n, BookedLimits(n)')
      BY <3>1, <3>3, <2>1, <2>4, <2>5, <1>1, AddBooks DEF PodsBooked
    <3> QED BY <3>4, <3>5 DEF PodsBooked
  <2>6. CASE object.node # n
    <3>1. Booked(n)' = Booked(n) /\ \A q \in Booked(n) : podList'[q] = podList[q]
      BY <2>1, <2>2, <2>3, <2>6, <1>2
    <3>2. BookedRequests(n)' = BookedRequests(n) /\ BookedLimits(n)' = BookedLimits(n)
      BY <3>1 DEF BookedRequests, BookedLimits
    <3> QED BY <3>2, <2>1, <2>6, AddElsewhere DEF PodsBooked
  <2> QED BY <2>5, <2>6
<1>5. CASE k \in Pods /\ TakesPodOff(k)
  <2> DEFINE m == podList[k].node
  <2>1. /\ IsBooked(k) /\ podList' = [podList EXCEPT ![k] = Absent]
        /\ requests' = mapSub(requests, m, PodRequests(podList[k].spec))
        /\ limits' = mapSub(limits, m, PodLimits(podList[k].spec))
        /\ podList'[k] = Absent /\ ~IsBooked(k)'
    BY <1>1, <1>5 DEF TakesPodOff, IsBooked
  <2>2. \A q \in Pods \ {k} : podList'[q] = podList[q] /\ (IsBooked(q)' <=> IsBooked(q))
    BY <2>1, <1>1 DEF IsBooked
  <2>3. CASE m = n
    <3>1. k \in Booked(n) /\ Booked(n)' = Booked(n) \ {k}
      BY <2>1, <2>2, <2>3, <1>2, <1>5
    <3>2. /\ DOMAIN BookedRequests(n) = Booked(n)
          /\ DOMAIN BookedRequests(n)' = Booked(n) \ {k}
          /\ BookedRequests(n)[k] = PodRequests(podList[k].spec)
          /\ \A q \in Booked(n) \ {k} : BookedRequests(n)'[q] = BookedRequests(n)[q]
      BY <3>1, <2>2, <1>2 DEF BookedRequests
    <3>3. /\ DOMAIN BookedLimits(n) = Booked(n)
          /\ DOMAIN BookedLimits(n)' = Booked(n) \ {k}
          /\ BookedLimits(n)[k] = PodLimits(podList[k].spec)
          /\ \A q \in Booked(n) \ {k} : BookedLimits(n)'[q] = BookedLimits(n)[q]
      BY <3>1, <2>2, <1>2 DEF BookedLimits
    <3>4. HoldsExactly(requests', n, BookedRequests(n)')
      <4>1. requests' = mapSub(requests, n, BookedRequests(n)[k])
        BY <3>2, <2>1, <2>3
      <4>2. HoldsExactly(requests, n, BookedRequests(n))
        BY DEF PodsBooked
      <4> QED BY <4>1, <4>2, <3>1, <3>2, <1>1, SubBooks
    <3>5. HoldsExactly(limits', n, BookedLimits(n)')
      <4>1. limits' = mapSub(limits, n, BookedLimits(n)[k])
        BY <3>3, <2>1, <2>3
      <4>2. HoldsExactly(limits, n, BookedLimits(n))
        BY DEF PodsBooked
      <4> QED BY <4>1, <4>2, <3>1, <3>3, <1>1, SubBooks
    <3> QED BY <3>4, <3>5 DEF PodsBooked
  <2>4. CASE m # n
    <3>1. Booked(n)' = Booked(n) /\ \A q \in Booked(n) : podList'[q] = podList[q]
      BY <2>1, <2>2, <2>4, <1>2
    <3>2. BookedRequests(n)' = BookedRequests(n) /\ BookedLimits(n)' = BookedLimits(n)
      BY <3>1 DEF BookedRequests, BookedLimits
    <3> QED BY <3>2, <2>1, <2>4, SubElsewhere DEF PodsBooked
  <2> QED BY <2>3, <2>4
<1>6. CASE k \in Pods /\ LeavesPodBooked(k)
  <2>1. \A q \in Pods \ {k} : podList'[q] = podList[q] /\ (IsBooked(q)' <=> IsBooked(q))
    BY <1>1, <1>6 DEF LeavesPodBooked, IsBooked
  <2> QED BY <2>1, <1>6, SameBooked DEF LeavesPodBooked
<1> QED BY <1>3, <1>4, <1>5, <1>6, HandlePod DEF k

----------------------------------------------------------------------------
(* The inductive invariant of DescriberAudit.                              *)

\* What holds as long as no cause has come up.
Exact == Audited /\ \A n \in Nodes : NodeBooked(n) /\ PodsBooked(n)

AuditIInv ==
  /\ TypeOK /\ Converging /\ Orderly
  /\ causes = {} => Exact

LEMMA AuditIInvInit == AuditInit => AuditIInv
<1> SUFFICES ASSUME AuditInit PROVE AuditIInv
  OBVIOUS
<1>1. TypeOK /\ Converging /\ Orderly /\ Audited
  BY TypeInit, ConvergingInit, AuditedInit DEF AuditInit
<1>2. ASSUME NEW n \in Nodes PROVE NodeBooked(n) /\ PodsBooked(n)
  <2>1. NodeBooked(n)
    BY <1>2 DEF AuditInit, Init, NodeBooked, KnowsNode, NewResourceMap
  <2>2. Booked(n) = {}
    BY DEF AuditInit, Init, Booked
  <2>3. BookedRequests(n) = << >> /\ BookedLimits(n) = << >>
    BY <2>2 DEF BookedRequests, BookedLimits
  <2> QED BY <2>1, <2>3, NewHoldsNothing DEF AuditInit, Init, PodsBooked
<1> QED BY <1>1, <1>2 DEF AuditIInv, Exact

\* A step that leaves the maps alone books nothing.
LEMMA StillBooked ==
  ASSUME UNCHANGED mapVars, NEW n \in Nodes, NodeBooked(n), PodsBooked(n),
         TypeOK, NEW k,
         \A q \in Keys : AddOwed(q)' <=> AddOwed(q) \/ q = k,
         k \in Keys => View[k] = Absent /\ ~AddOwed(k)
  PROVE  NodeBooked(n)' /\ PodsBooked(n)'
<1>1. UNCHANGED << podList, nodeList, requests, limits, allocatable >>
  BY DEF mapVars
<1>2. \A q \in Pods : /\ IsBooked(q)' <=> IsBooked(q)
                      /\ q \in Keys
  <2>1. \A q \in Pods : q \in Keys /\ View[q] = podList[q]
    BY ListedKeys
  <2> QED BY <2>1, <1>1 DEF IsBooked
<1>3. PodsBooked(n)'
  BY <1>1, <1>2, SameBooked
<1>4. NodeBooked(n)'
  <2>1. n \in Keys /\ View[n] = nodeList[n]
    BY ListedKeys
  <2>2. CASE n = k
    <3>1. ~KnowsNode(allocatable, n)
      BY <2>1, <2>2 DEF NodeBooked
    <3> QED BY <3>1, <2>1, <2>2, <1>1 DEF NodeBooked
  <2>3. CASE n # k
    <3>1. AddOwed(n)' <=> AddOwed(n)
      BY <2>1, <2>3
    <3> QED BY <3>1, <1>1 DEF NodeBooked
  <2> QED BY <2>2, <2>3
<1> QED BY <1>3, <1>4

LEMMA ObserveExact ==
  ASSUME TypeOK, Converging, Orderly, Exact, NEW k \in Keys,
         NEW new \in ObjectsOf(k) \cup {Absent}, Observe(k, new), UNCHANGED mapVars,
         ~Reused(k), k \in Nodes => ~Resized(k)
  PROVE  Exact'
<1>1. /\ Audited'
      /\ \A q \in Keys : AddOwed(q)' <=> AddOwed(q) \/ (q = k /\ store[k] = Absent)
      /\ store[k] = Absent => View[k] = Absent /\ ~AddOwed(k)
  BY ObserveAudited DEF Exact
<1>2. PICK c : c = IF store[k] = Absent THEN k ELSE CHOOSE x : x \notin Keys
  OBVIOUS
<1>3. /\ \A q \in Keys : AddOwed(q)' <=> AddOwed(q) \/ q = c
      /\ c \in Keys => View[c] = Absent /\ ~AddOwed(c)
  BY <1>1, <1>2, NoSetContainsEverything
<1> QED BY <1>1, <1>3, StillBooked DEF Exact

LEMMA MoveExact ==
  ASSUME TypeOK, Orderly, Exact, UNCHANGED mapVars,
         \/ \E r \in Resources : Deliver(r)
         \/ \E e \in Event : RetryDue(e)
         \/ Get
         \/ Read
  PROVE  Exact' /\ Orderly'
<1>1. /\ Orderly' /\ Audited'
      /\ \A q \in Keys : AddOwed(q)' <=> AddOwed(q)
  BY MoveAudited DEF Exact
<1>2. PICK c : c \notin Keys
  BY NoSetContainsEverything
<1> QED BY <1>1, <1>2, StillBooked DEF Exact

LEMMA AuditIInvNext == AuditIInv /\ [AuditNext]_auditVars => AuditIInv'
<1> SUFFICES ASSUME AuditIInv, [AuditNext]_auditVars PROVE AuditIInv'
  OBVIOUS
<1>1. CASE UNCHANGED auditVars
  <2>1. UNCHANGED << vars, causes >> /\ UNCHANGED pipeVars /\ UNCHANGED mapVars
    BY <1>1 DEF auditVars, vars
  <2>2. TypeOK' /\ Converging'
    BY <2>1, TypeNext, ConvergingNext DEF AuditIInv
  <2>3. Orderly'
    BY <2>1 DEF AuditIInv, Orderly, QueueIsSet, OwnInbox, pipeVars
  <2>4. ASSUME Exact PROVE Exact'
    <3>1. \A k : AddOwed(k)' <=> AddOwed(k)
      BY <2>1 DEF AddOwed, OnWay, pipeVars
    <3>2. Audited'
      <4>1. \A k : /\ InHand(k)' = InHand(k)
                   /\ AtOnePlace(AddOf(k))' <=> AtOnePlace(AddOf(k))
                   /\ (View[k])' = View[k]
                   /\ (Truth[k])' = Truth[k]
        BY <2>1 DEF InHand, AtOnePlace, OnWay, AddOf, View, Truth, pipeVars, mapVars
      <4>2. \A k : Placed(k)' <=> Placed(k)
        BY <2>1, <3>1, <4>1 DEF Placed, pipeVars, mapVars
      <4>3. store' = store
        BY <2>1 DEF pipeVars
      <4> QED BY <2>4, <3>1, <4>1, <4>2, <4>3 DEF Exact, Audited, Tracked
    <3>3. PICK c : c \notin Keys
      BY NoSetContainsEverything
    <3> QED BY <2>1, <2>4, <3>1, <3>2, <3>3, StillBooked DEF Exact, AuditIInv
  <2> QED BY <2>1, <2>2, <2>3, <2>4 DEF AuditIInv, Exact
<1>2. CASE AuditNext
  <2>1. TypeOK' /\ Converging'
    BY <1>2, TypeNext, ConvergingNext DEF AuditIInv, AuditNext
  <2>2. /\ TypeOK /\ Converging /\ Orderly /\ PipeTypeOK
        /\ causes' = causes \cup Cause
        /\ Next
    BY <1>2 DEF AuditIInv, AuditNext, TypeOK
  <2>3. ASSUME NEW k \in Keys, NEW new \in ObjectsOf(k) \cup {Absent},
               Observe(k, new), UNCHANGED mapVars
        PROVE  Orderly' /\ (causes' = {} => Exact')
    <3>1. Orderly'
      BY <2>2, <2>3, ObservePlaces
    <3>2. ASSUME causes' = {} PROVE Exact'
      <4>1. /\ Exact /\ ~Reused(k) /\ (k \in Nodes => ~Resized(k))
        BY <2>2, <3>2, NoCause DEF AuditIInv, Exact
      <4> QED BY <4>1, <2>2, <2>3, ObserveExact
    <3> QED BY <3>1, <3>2
  <2>4. ASSUME UNCHANGED mapVars,
               \/ \E r \in Resources : Deliver(r)
               \/ \E e \in Event : RetryDue(e)
               \/ Get
               \/ Read
        PROVE  Orderly' /\ (causes' = {} => Exact')
    <3>1. Orderly'
      BY <2>2, <2>4, MovePlaces
    <3>2. ASSUME causes' = {} PROVE Exact'
      <4>1. Exact
        BY <2>2, <3>2, NoCause DEF AuditIInv, Exact
      <4> QED BY <4>1, <2>2, <2>4, MoveExact
    <3> QED BY <3>1, <3>2
  <2>5. ASSUME NEW e \in Event, Handle(e)
        PROVE  Orderly' /\ (causes' = {} => Exact')
    <3>1. PICK failed \in BOOLEAN : Finish(e, failed)
      BY <2>5, HandleFinishes
    <3>2. e = processing /\ processing' = Nothing /\ processing # Nothing
      BY <2>5, <3>1, HandleFinishes DEF Handling, Finish
    <3>3. Orderly'
      BY <2>2, <3>1, <3>2, FinishPlaces
    <3>4. ASSUME causes' = {} PROVE Exact'
      <4>1. /\ Exact
            /\ e.key \in Pods => ~Dropped(e) /\ ~CutShort(e)
        BY <2>2, <3>2, <3>4, NoCause DEF AuditIInv, Exact
      <4>2. Audited'
        BY <4>1, <2>2, <2>5, HandleTracked DEF Exact
      <4>3. ASSUME NEW n \in Nodes PROVE NodeBooked(n)' /\ PodsBooked(n)'
        <5>1. NodeBooked(n)'
          BY <4>1, <2>2, <2>5, HandleNodeBooked DEF Exact
        <5>2. PodsBooked(n)'
          BY <4>1, <2>2, <2>5, HandlePodsBooked DEF Exact
        <5> QED BY <5>1, <5>2
      <4> QED BY <4>2, <4>3 DEF Exact
    <3> QED BY <3>3, <3>4
  <2>6. Orderly' /\ (causes' = {} => Exact')
    <3>1. ASSUME NEW k \in Pods, ObservePod(k)
          PROVE  Orderly' /\ (causes' = {} => Exact')
      BY <3>1, <2>3, KeyKinds DEF ObservePod, ObjectsOf
    <3>2. ASSUME NEW n \in Nodes, ObserveNode(n)
          PROVE  Orderly' /\ (causes' = {} => Exact')
      BY <3>2, <2>3, KeyKinds DEF ObserveNode, ObjectsOf
    <3>3. ASSUME NEW r \in Resources, DeliverTo(r)
          PROVE  Orderly' /\ (causes' = {} => Exact')
      BY <3>3, <2>4 DEF DeliverTo
    <3>4. ASSUME NEW e \in Event, Retry(e)
          PROVE  Orderly' /\ (causes' = {} => Exact')
      BY <3>4, <2>4 DEF Retry
    <3>5. CASE Take
      BY <3>5, <2>4 DEF Take
    <3> QED BY <2>2, <2>5, <3>1, <3>2, <3>3, <3>4, <3>5 DEF Next
  <2> QED BY <2>1, <2>6 DEF AuditIInv, Exact
<1> QED BY <1>1, <1>2

LEMMA AlwaysAudited == AuditSpec => []AuditIInv
BY AuditIInvInit, AuditIInvNext, PTL DEF AuditSpec

\* What a sum over bookings says of the ledger, in the words of BooksExact.
LEMMA HeldIsAmount ==
  ASSUME NEW rm, NEW n, NEW r
  PROVE  Held(rm, n, r) =
           Amount(IF KnowsNode(rm, n) THEN rm.perNode[n] ELSE NoResources, r)
BY DEF Held, Amount, NoResources

\* Unless one of the four causes has come up, the ledger knows and holds of
\* each node what the node says it can allocate: see AllocatableExact.
THEOREM OffersAreExact == AuditSpec => []AllocatableExact
<1>1. AuditIInv => AllocatableExact
  BY DEF AuditIInv, Exact, AllocatableExact, NodeBooked
<1> QED BY <1>1, AlwaysAudited, PTL

LEMMA BookedSums ==
  ASSUME NEW n \in Nodes, PodsBooked(n), NEW r
  PROVE  /\ Held(requests, n, r) =
              SumFunction([k \in Booked(n) |-> Amount(PodRequests(podList[k].spec), r)])
         /\ Held(limits, n, r) =
              SumFunction([k \in Booked(n) |-> Amount(PodLimits(podList[k].spec), r)])
<1>1. /\ [k \in DOMAIN BookedRequests(n) |-> Amount(BookedRequests(n)[k], r)]
           = [k \in Booked(n) |-> Amount(PodRequests(podList[k].spec), r)]
      /\ [k \in DOMAIN BookedLimits(n) |-> Amount(BookedLimits(n)[k], r)]
           = [k \in Booked(n) |-> Amount(PodLimits(podList[k].spec), r)]
  BY DEF BookedRequests, BookedLimits
<1> QED BY <1>1 DEF PodsBooked, HoldsExactly

\* Unless one of the four causes has come up, each node holds in both ledgers
\* the sum over the pods that are booked there: see BooksExact.
THEOREM BooksAreExact == AuditSpec => []BooksExact
<1>1. AuditIInv => BooksExact
  <2> SUFFICES ASSUME AuditIInv, causes = {}, NEW n \in Nodes, NEW r
               PROVE  /\ Amount(IF KnowsNode(requests, n) THEN requests.perNode[n]
                                ELSE NoResources, r)
                         = SumFunction([k \in Booked(n) |->
                             Amount(PodRequests(podList[k].spec), r)])
                      /\ Amount(IF KnowsNode(limits, n) THEN limits.perNode[n]
                                ELSE NoResources, r)
                         = SumFunction([k \in Booked(n) |->
                             Amount(PodLimits(podList[k].spec), r)])
    BY DEF BooksExact
  <2> QED BY BookedSums, HeldIsAmount DEF AuditIInv, Exact
<1> QED BY <1>1, AlwaysAudited, PTL

\* When all that happened is applied, the pods that are booked on a node are
\* those the cluster runs there.
LEMMA QuietLoad ==
  ASSUME TypeOK, Converging, Quiet, NEW n \in Nodes, PodsBooked(n), NEW r
  PROVE  Held(requests, n, r) = Load(n, r)
<1> DEFINE running == {k \in Pods : /\ store[k] # Absent
                                    /\ ~Ended(store[k])
                                    /\ store[k].node = n}
<1>1. \A k \in Pods : podList[k] = Listed(k, store[k]) /\ ~AddOwed(k)
  BY ListedKeys DEF Converging, Quiet
<1>2. Booked(n) = running
  BY <1>1 DEF Booked, Listed
<1>3. \A k \in running : podList[k] = store[k]
  BY <1>1 DEF Listed
<1>4. [k \in Booked(n) |-> Amount(PodRequests(podList[k].spec), r)]
        = [k \in running |-> Amount(PodRequests(store[k].spec), r)]
  BY <1>2, <1>3
<1> QED BY <1>4, BookedSums DEF Load

\* A "yes" of CheckAvailability is backed by a node with room for what the
\* cluster really holds: see AnswerIsTrue.
THEOREM AnswersAreTrue == AuditSpec => []AnswerIsTrue
<1>1. AuditIInv => AnswerIsTrue
  <2> SUFFICES ASSUME AuditIInv, Quiet, causes = {}, NEW s \in PodSpecs,
                      Available(PodRequests(s))
               PROVE  \E n \in Nodes : \A r \in DOMAIN PodRequests(s) \ Compressible :
                        Load(n, r) > 0 => Load(n, r) + PodRequests(s)[r] <= Offers(n, r)
    BY DEF AnswerIsTrue, Demands
  <2> DEFINE req == PodRequests(s)
             expected(n) == expectedAfterAllocation(requests.perNode[n], req)
  <2>1. PICK n \in Nodes :
          /\ nodeList[n] # Absent
          /\ KnowsNode(requests, n)
          /\ KnowsNode(allocatable, n)
          /\ \A r \in DOMAIN expected(n) \ Compressible :
               /\ r \in DOMAIN allocatable.perNode[n]
               /\ allocatable.perNode[n][r] >= expected(n)[r]
    BY DEF Available, CheckAvailability, isExpectedEnough, Compressible
  <2>2. /\ TypeOK /\ Converging /\ NodeBooked(n) /\ PodsBooked(n)
        /\ n \in Keys /\ View[n] = nodeList[n] /\ Truth[n] = store[n]
        /\ ~AddOwed(n) /\ ~Pending(n)
        /\ IsResourceMap(requests, Nodes)
    BY ListedKeys DEF AuditIInv, Exact, Quiet, TypeOK
  <2>3. nodeList[n] = store[n] /\ allocatable.perNode[n] = store[n].allocatable
    BY <2>1, <2>2 DEF Converging, NodeBooked
  <2> SUFFICES ASSUME NEW r \in DOMAIN req \ Compressible, Load(n, r) > 0
               PROVE  Load(n, r) + req[r] <= Offers(n, r)
    OBVIOUS
  <2>4. Load(n, r) = Amount(requests.perNode[n], r)
    BY <2>1, <2>2, QuietLoad DEF Held
  <2>5. r \in DOMAIN requests.perNode[n]
    BY <2>4 DEF Amount
  <2>6. /\ r \in DOMAIN expected(n) \ Compressible
        /\ expected(n)[r] = Load(n, r) + req[r]
    BY <2>4, <2>5 DEF expectedAfterAllocation, Amount
  <2>7. /\ r \in DOMAIN store[n].allocatable
        /\ store[n].allocatable[r] >= Load(n, r) + req[r]
    BY <2>1, <2>3, <2>6
  <2>8. Offers(n, r) = store[n].allocatable[r]
    BY <2>1, <2>3, <2>7 DEF Offers, Amount
  <2>9. /\ store[n].allocatable[r] \in Int /\ req[r] \in Int /\ Load(n, r) \in Int
    <3>1. store[n] \in NodeObjects
      BY <2>1, <2>2, <2>3 DEF TypeOK
    <3>2. IsResourceList(store[n].allocatable) /\ IsResourceList(req)
      BY <3>1, DescriberAssumption, PodListsAreLists DEF NodeObjects
    <3> QED BY <3>2, <2>2, <2>4, <2>1, <2>7, AmountIsInt
            DEF IsResourceList, IsResourceMap, KnowsNode
  <2> QED BY <2>7, <2>8, <2>9
<1> QED BY <1>1, AlwaysAudited, PTL
=============================================================================
