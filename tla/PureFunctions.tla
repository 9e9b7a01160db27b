--------------------------- MODULE PureFunctions ---------------------------
(***************************************************************************)
(* The functions without state, at work: a behaviour takes one input and   *)
(* evaluates on it the functions of ResourceLists, Workload or Catalog     *)
(* that belong together, in the order in which the code calls them; or it  *)
(* changes the list of instance types, one request after the other.        *)
(***************************************************************************)
EXTENDS Catalog

CONSTANTS Nodes,      \* the names of nodes,
          Names,      \* and those of resources
          PodSpecs,   \* what the API server admits as a pod
          Ledgers,    \* what may be booked before it
          Config,     \* the configuration of the manager
          Tokens,     \* what is between the hyphens of ids and names
          Asks,       \* the requests for a machine
          AnyImage,   \* a base image, for the requests that are compared
          Volumes,    \* data volumes,
          Listings,   \* and what the API server may list of them
          Resources,  \* the resources of a request
          NewTypes,   \* the instance types that are added,
          Codes       \* and the codes that are deleted

\* The tokens of a name that are not of the request.
Fixed == {"vm", "dv", "svc", "ClusterIP", "NodePort"}

\* A user's id and the first group of the uuid are made of tokens.
AsksIn(tokens, t) == t.user \in Seq(tokens) /\ t.uuid[1] \in tokens

ASSUME FunctionsAssumption ==
  /\ \A spec \in PodSpecs : IsPodSpec(spec)
  /\ \A ledger \in Ledgers : IsResourceMap(ledger, Nodes)
  /\ Fixed \subseteq Tokens
  /\ \A t \in Asks : AsksIn(Tokens, t)
  /\ Listings \subseteq Seq(Volumes)
  /\ \A r \in Resources : r.cpu.n \in Int /\ r.memory.n \in Int

VARIABLES input,    \* what the functions are asked, by topic
          output    \* their answer, << >> until they are evaluated; or the
                    \* list of instance types
vars == << input, output >>

Inputs == [topic : {"pods"}, spec : PodSpecs, ledger : Ledgers, node : Nodes]
            \cup [topic : {"requests"}, first : Asks, second : Asks]
            \cup [topic : {"images"}, volumes : Listings, failed : BOOLEAN]
            \cup [topic : {"resources"}, asked : Resources]
            \cup [topic : {"bytes"}, byte : 0..255]
            \cup [topic : {"types"}]

Init == /\ input \in Inputs
        /\ output = IF input.topic = "types"
                      THEN NewInstanceTypeLister(DefaultInstanceTypes) ELSE << >>

Asked(topic) == input.topic = topic /\ output = << >> /\ UNCHANGED input

\* A pod is booked and, then, taken off or gone with its node.
BookPod ==
  /\ Asked("pods")
  /\ LET requests == PodRequests(input.spec)
         booked   == mapAdd(input.ledger, input.node, requests)
     IN  output' = [requests |-> requests, limits |-> PodLimits(input.spec),
                    released |-> mapSub(booked, input.node, requests),
                    emptied  |-> mapDeleteNode(booked, input.node)]

BuildBoth == /\ Asked("requests")
             /\ output' = [first  |-> NewVmWorkload(Config, input.first, AnyImage),
                           second |-> NewVmWorkload(Config, input.second, AnyImage)]

Load == /\ Asked("images")
        /\ output' = [list |-> NewImageManager(input.volumes, input.failed)]

Parse == /\ Asked("resources")
         /\ output' = [demand |-> IF Acceptable(input.asked)
                                    THEN {ParseResourceList(input.asked)} ELSE {},
                       built  |-> IF Panics(input.asked)
                                    THEN {} ELSE {BuildResources(input.asked)}]

Address == /\ Asked("bytes")
           /\ output' = [octet |-> FirstOctet(input.byte)]

ChangeTypes == /\ input.topic = "types"
               /\ \/ \E t \in NewTypes : output' = AddInstanceType(output, t)
                  \/ \E code \in Codes : output' = DeleteInstanceType(output, code)
               /\ UNCHANGED input

Next == BookPod \/ BuildBoth \/ Load \/ Parse \/ Address \/ ChangeTypes

Spec == Init /\ [][Next]_vars

----------------------------------------------------------------------------
(* Properties.                                                             *)

Answered(topic) == input.topic = topic /\ output # << >>

\* The lists that are booked for a pod are its effective ones.
ListsAreEffective ==
  Answered("pods") =>
    \A r \in Names : AreEffective(input.spec, output.requests, output.limits, r)

SameAmounts(rm1, rm2) ==
  \A r \in Names : /\ Amount(rm1.allNode, r) = Amount(rm2.allNode, r)
                   /\ \A n \in Nodes : Held(rm1, n, r) = Held(rm2, n, r)

\* Taking a booking off leaves every amount of every node and of the total as
\* it was before the booking; so does removing its node, if nothing else was
\* booked there.
BookingIsUndone ==
  Answered("pods") =>
    /\ SameAmounts(output.released, input.ledger)
    /\ ~KnowsNode(input.ledger, input.node) => SameAmounts(output.emptied, input.ledger)

\* Names tell workloads and their objects apart.  So a name of a service is
\* never one of a machine, and no event of one is looked up as the other
\* (handleServiceDeletion).
NamesTellObjectsApart ==
  Answered("requests") =>
    AreToldApart(input.first, output.first, input.second, output.second)

\* The Watcher reads one and the same workload from the labels of the
\* machine, its volume and both services, another one for every other
\* request, and the services lead to the machine of their own request only.
LabelsNameTheWorkload ==
  Answered("requests") =>
    LabelsTellWhose(input.first, output.first, input.second, output.second,
                    << "made-up" >>)

\* Where all base images are in the namespace that disks are cloned from,
\* the disk of every machine is cloned from a base image that carries the
\* code the request names, and is as large as that image.  (Images are
\* looked for in all namespaces: elsewhere it is not so.)
SourceCarriesCode ==
  Answered("images")
    /\ (\A i \in DOMAIN input.volumes : input.volumes[i].namespace = Config.baseImageNamespace)
    => \A t \in Asks : \A w \in WorkloadFor(Config, output.list, t) :
         ClonesImage(w, input.volumes, t.imageCode)

\* What CheckAvailability is asked for covers what is built: the cpu and
\* memory that ParseResourceList accepts are no cause for a panic of Build,
\* the machine requests what was asked for of both, and every device of it
\* was asked for.  A whole number of cpus is the number of its cores if it is
\* one of 32 bits without a sign, and only then: "-1" and "4294967296" are
\* accepted, and StringAsUint32 makes 4294967295 and 0 of them.  (A device
\* called cpu or memory would take the place of that entry.)
DemandCoversMachine ==
  Answered("resources") /\ input.asked.gpu.deviceName \notin {"cpu", "memory"} =>
    \A demand \in output.demand :
      /\ output.built # {}
      /\ \A machine \in output.built : Covers(demand, machine, input.asked)

\* However instance types are added and deleted, what is offered under a
\* code has that code, which is positive, and a name.
OffersAreValid == input.topic = "types" => AreOffers(output)

\* The address of a machine is a unicast address: its first octet is even,
\* for each of the random bytes, zero included, where one less wraps.
AddressIsUnicast == Answered("bytes") => output.octet \in 0..255 /\ output.octet % 2 = 0
=============================================================================
