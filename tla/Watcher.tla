------------------------------ MODULE Watcher ------------------------------
(***************************************************************************)
(* The Watcher (pkg/informer/watcher.go) and the calls of InformerService  *)
(* that read it (pkg/informer/informer.go).  From the events of virtual    *)
(* machines, data volumes and services it keeps one VirtualMachineInfo per *)
(* workload (owner and uuid, taken from the object's labels), and from the *)
(* key of a virtual machine to its workload the map workloadMetaMap.       *)
(*                                                                         *)
(* Events of pods are taken and ignored.                                   *)
(***************************************************************************)
EXTENDS EventPipeline, FiniteSets

CONSTANTS ObjectsOf,      \* [Keys -> set of the objects a key may hold]
          NameOf,         \* [Keys -> name]: two resources may share a name
          ServiceTypeOf,  \* [names -> type]: GetServiceTypeFromEventKey, or
          NoType,         \* NoType where it returns an error
          Metas,          \* the workloads that labels name
          Owners,         \* [Metas -> their owners]
          Anonymous,      \* kauloud.AnonymousUser
          Unlabelled,     \* meta of an object without the uuid label
          Addresses,      \* cluster IPs
          NoCall, Torn    \* see call

Vms      == {k \in Keys : ResourceOf[k] = "vm"}
Volumes  == {k \in Keys : ResourceOf[k] = "dv"}
Services == {k \in Keys : ResourceOf[k] = "svc"}
Names    == {NameOf[k] : k \in Keys}

Labels     == Metas \cup {Unlabelled}
VmObjects  == [meta : Labels, created : BOOLEAN]
DvObjects  == [meta : Labels, userImage : BOOLEAN,
               phase : {"InProgress", "Succeeded"}, progress : {"50.0%", "100.0%"}]
SvcObjects == [meta : Labels, type : {"ClusterIP", "NodePort"}, ip : Addresses]

\* Every event can bring at most one workload with a uuid made up for it.
AllMetas == Metas \cup (1..MaxChanges)
OwnerOf(m) == IF m \in Metas THEN Owners[m] ELSE Anonymous

\* An info: the objects it holds, of services those of one type, and the
\* fields of its status.
VirtualMachineInfo ==
  [vm : VmObjects \cup {Absent}, dv : DvObjects \cup {Absent},
   svc : [meta : Labels, type : {"ClusterIP"}, ip : Addresses] \cup {Absent},
   isReady : BOOLEAN, progress : {"None", "50.0%", "100.0%", "DataVolumeDeleted"},
   isRunning : BOOLEAN, clusterIp : Addresses \cup {"None"}]

ASSUME WatcherAssumption ==
  /\ \A k \in Vms : ObjectsOf[k] \subseteq VmObjects
  /\ \A k \in Volumes : ObjectsOf[k] \subseteq DvObjects
  /\ \A k \in Services : ObjectsOf[k] \subseteq SvcObjects
  /\ \A k \in Keys : {Absent, Unread} \cap ObjectsOf[k] = {}
  /\ Unread \notin Keys
  /\ \A k, l \in Keys : ResourceOf[k] = ResourceOf[l] /\ NameOf[k] = NameOf[l] => k = l
  /\ Metas \cap Nat = {}
  /\ DOMAIN Owners = Metas
  /\ Unlabelled \notin AllMetas
  /\ {Absent, NoCall, Torn} \cap (Metas \cup Nat) = {}
  /\ Absent \notin VirtualMachineInfo
  /\ NoCall # Torn

VARIABLES workloadMetaMap,  \* [Names -> AllMetas or Absent]
          vmInfoList,       \* [AllMetas -> VirtualMachineInfo or Absent]
          temps,            \* how many uuids were made up
          call,             \* the workload whose info a call of
                            \* GetWorkloadObjectNameMeta has found, NoCall,
                            \* or Torn: the info it has found was deleted
          panicked,         \* "no", or the goroutine that ended the process
          forgotten,        \* history: workloads whose info was deleted
          mixed             \* history: names of machines that were seen to
                            \* belong to another workload than the map says

infoVars == << workloadMetaMap, vmInfoList, temps, call, panicked, forgotten,
               mixed >>
vars == << pipeVars, infoVars >>

Init ==
  /\ PipeInit
  /\ workloadMetaMap = [n \in Names |-> Absent]
  /\ vmInfoList = [m \in AllMetas |-> Absent]
  /\ temps = 0
  /\ call = NoCall
  /\ panicked = "no"
  /\ forgotten = {}
  /\ mixed = {}

----------------------------------------------------------------------------
(* What the handlers write into an info.                                   *)

NewVirtualMachineInfo ==
  [vm |-> Absent, dv |-> Absent, svc |-> Absent, isReady |-> FALSE,
   progress |-> "None", isRunning |-> FALSE, clusterIp |-> "None"]

referVirtualMachineInfo(m) ==
  IF vmInfoList[m] = Absent THEN NewVirtualMachineInfo ELSE vmInfoList[m]

WithVirtualMachine(info, vm) == [info EXCEPT !.vm = vm, !.isRunning = vm.created]

WithDataVolume(info, dv) ==
  [info EXCEPT !.dv = dv, !.isReady = (dv.phase = "Succeeded"), !.progress = dv.progress]

\* Variant for the mutation check: the address of any service is shown.
WithServiceOfAnyType(info, svc) == [info EXCEPT !.svc = svc, !.clusterIp = svc.ip]

\* A service of another type only makes sure that there is an info.
WithService(info, svc) ==
  IF svc.type = "ClusterIP"
    THEN [info EXCEPT !.svc = svc, !.clusterIp = svc.ip]
    ELSE info

WithoutDataVolume(info) ==
  [info EXCEPT !.isReady = FALSE, !.progress = "DataVolumeDeleted"]

WithoutClusterIP(info) == [info EXCEPT !.clusterIp = "None"]

----------------------------------------------------------------------------
(* What the calls of InformerService read.                                 *)

\* No info: an error, and the answer is codes.NotFound.
GetVirtualMachineInfo(m) == {vmInfoList[n] : n \in {m} \cap DOMAIN vmInfoList} \ {Absent}

StatusOf(info) == [isReady |-> info.isReady, progress |-> info.progress,
                   isRunning |-> info.isRunning, clusterIp |-> info.clusterIp]

\* An empty list is an error, and codes.NotFound.
GetUserVirtualMachineInfoList(owner) ==
  {m \in AllMetas : OwnerOf(m) = owner /\ vmInfoList[m] # Absent}

ListUserVirtualMachineStats(owner) ==
  [m \in GetUserVirtualMachineInfoList(owner) |-> StatusOf(vmInfoList[m])]

ListAllVirtualMachineStats ==
  [m \in {n \in AllMetas : vmInfoList[n] # Absent} |-> StatusOf(vmInfoList[m])]

----------------------------------------------------------------------------

\* ExtractWorkloadMetaFromLabels makes up a uuid for every call that finds
\* no uuid among the labels.
Extract(o) == IF o.meta = Unlabelled THEN temps + 1 ELSE o.meta
CountTemp(o) == temps' = IF o.meta = Unlabelled THEN temps + 1 ELSE temps

----------------------------------------------------------------------------
(* sync: addHandler and updateHandler do the same.                         *)

Alive == panicked = "no"

Present(e) == Alive /\ Handling(e) /\ object # Absent
\* Variant for the mutation check: sync trusts the verb, not the store.
GoneByVerb(e) == Alive /\ Handling(e) /\ e.verb = "delete"
Gone(e) == Alive /\ Handling(e) /\ object = Absent

\* handleError of a nil error.
Done(e) == Finish(e, FALSE) /\ UNCHANGED panicked

\* Variant: an info is made anew for every event of a virtual machine.
handleVirtualMachineUpdateAnew(e) ==
  /\ Present(e)
  /\ e.key \in Vms
  /\ LET m == Extract(object)
         n == NameOf[e.key]
     IN  /\ workloadMetaMap' = [workloadMetaMap EXCEPT ![n] = IF @ = Absent THEN m ELSE @]
         /\ vmInfoList' = [vmInfoList EXCEPT
                             ![m] = WithVirtualMachine(NewVirtualMachineInfo, object)]
         /\ mixed' = mixed
  /\ CountTemp(object)
  /\ Done(e)
  /\ UNCHANGED << call, forgotten >>

handleVirtualMachineUpdate(e) ==
  /\ Present(e)
  /\ e.key \in Vms
  /\ LET m == Extract(object)
         n == NameOf[e.key]
     IN  /\ workloadMetaMap' = [workloadMetaMap EXCEPT ![n] = IF @ = Absent THEN m ELSE @]
         /\ vmInfoList' = [vmInfoList EXCEPT
                             ![m] = WithVirtualMachine(referVirtualMachineInfo(m), object)]
         /\ mixed' = IF workloadMetaMap[n] \in {Absent, m} THEN mixed ELSE mixed \cup {n}
  /\ CountTemp(object)
  /\ Done(e)
  /\ UNCHANGED << call, forgotten >>

\* Variant: a service of a workload that is not known yet is dropped.
handleServiceUpdateOfKnown(e) ==
  /\ Present(e)
  /\ e.key \in Services
  /\ LET m == Extract(object)
     IN  vmInfoList' = [vmInfoList EXCEPT
                          ![m] = IF @ = Absent THEN Absent ELSE WithService(@, object)]
  /\ CountTemp(object)
  /\ Done(e)
  /\ UNCHANGED << workloadMetaMap, call, forgotten, mixed >>

handleServiceUpdate(e) ==
  /\ Present(e)
  /\ e.key \in Services
  /\ LET m == Extract(object)
     IN  vmInfoList' = [vmInfoList EXCEPT
                          ![m] = WithService(referVirtualMachineInfo(m), object)]
  /\ CountTemp(object)
  /\ Done(e)
  /\ UNCHANGED << workloadMetaMap, call, forgotten, mixed >>

handleDataVolumeUpdate(e) ==
  /\ Present(e)
  /\ e.key \in Volumes
  /\ object.userImage
  /\ LET m == Extract(object)
     IN  vmInfoList' = [vmInfoList EXCEPT
                          ![m] = WithDataVolume(referVirtualMachineInfo(m), object)]
  /\ CountTemp(object)
  /\ Done(e)
  /\ UNCHANGED << workloadMetaMap, call, forgotten, mixed >>

\* A base image, a volume of an unknown kind, or a pod.
Ignore(e) ==
  /\ Alive
  /\ Handling(e)
  /\ \/ e.key \in Volumes /\ object # Absent /\ ~object.userImage
     \/ ResourceOf[e.key] = "pod"
  /\ Done(e)
  /\ UNCHANGED << workloadMetaMap, vmInfoList, temps, call, forgotten, mixed >>

\* Variant: the name is forgotten and the info kept.
handleVirtualMachineDeletionOfName(e) ==
  /\ Gone(e)
  /\ e.key \in Vms
  /\ workloadMetaMap' = [workloadMetaMap EXCEPT ![NameOf[e.key]] = Absent]
  /\ Done(e)
  /\ UNCHANGED << vmInfoList, temps, call, forgotten, mixed >>

deleteVirtualMachineInfo(m) == [vmInfoList EXCEPT ![m] = Absent]

\* Whoever still holds the info finds its Object and Status set to nil.
TearInfo(m) == call' = IF call = m THEN Torn ELSE call

handleVirtualMachineDeletion(e) ==
  /\ Gone(e)
  /\ e.key \in Vms
  /\ LET n == NameOf[e.key]
         m == workloadMetaMap[n]
     IN  IF m = Absent
           THEN UNCHANGED << workloadMetaMap, vmInfoList, call, forgotten >>
           ELSE /\ workloadMetaMap' = [workloadMetaMap EXCEPT ![n] = Absent]
                /\ vmInfoList' = deleteVirtualMachineInfo(m)
                /\ TearInfo(m)
                /\ forgotten' = forgotten \cup {m}
  /\ Done(e)
  /\ UNCHANGED << temps, mixed >>

\* The workload of a service or volume that is gone is looked up by name in
\* the map of the virtual machines.
KnownAs(n) == workloadMetaMap[n] # Absent /\ vmInfoList[workloadMetaMap[n]] # Absent

Panic(who) == panicked' = who /\ UNCHANGED pipeVars

\* Variant: the type of the service is looked at first.
handleServiceDeletionTypeFirst(e) ==
  /\ Gone(e)
  /\ e.key \in Services
  /\ LET n == NameOf[e.key]
     IN  /\ vmInfoList' = IF KnownAs(n) /\ ServiceTypeOf[n] = "ClusterIP"
                            THEN [vmInfoList EXCEPT ![workloadMetaMap[n]] = WithoutClusterIP(@)]
                            ELSE vmInfoList
         /\ IF ServiceTypeOf[n] = NoType THEN Panic("worker") ELSE Done(e)
  /\ UNCHANGED << workloadMetaMap, temps, call, forgotten, mixed >>

\* handleError of an error takes the Event for a string, and panics.
handleServiceDeletion(e) ==
  /\ Gone(e)
  /\ e.key \in Services
  /\ LET n == NameOf[e.key]
     IN  /\ vmInfoList' = IF KnownAs(n) /\ ServiceTypeOf[n] = "ClusterIP"
                            THEN [vmInfoList EXCEPT ![workloadMetaMap[n]] = WithoutClusterIP(@)]
                            ELSE vmInfoList
         /\ IF KnownAs(n) /\ ServiceTypeOf[n] = NoType
              THEN Panic("worker")
              ELSE Done(e)
  /\ UNCHANGED << workloadMetaMap, temps, call, forgotten, mixed >>

handleDataVolumeDeletion(e) ==
  /\ Gone(e)
  /\ e.key \in Volumes
  /\ LET n == NameOf[e.key]
     IN  vmInfoList' = IF KnownAs(n)
                         THEN [vmInfoList EXCEPT ![workloadMetaMap[n]] = WithoutDataVolume(@)]
                         ELSE vmInfoList
  /\ Done(e)
  /\ UNCHANGED << workloadMetaMap, temps, call, forgotten, mixed >>

Handle(e) ==
  \/ handleVirtualMachineUpdate(e)
  \/ handleServiceUpdate(e)
  \/ handleDataVolumeUpdate(e)
  \/ handleVirtualMachineDeletion(e)
  \/ handleServiceDeletion(e)
  \/ handleDataVolumeDeletion(e)
  \/ Ignore(e)

----------------------------------------------------------------------------
(* GetWorkloadObjectNameMeta, in a goroutine of the gRPC server: it finds  *)
(* the info and then, with no lock, reads its Object.                      *)

FindInfo(m) ==
  /\ Alive
  /\ call = NoCall
  /\ GetVirtualMachineInfo(m) # {}
  /\ call' = m
  /\ UNCHANGED << pipeVars, workloadMetaMap, vmInfoList, temps, panicked, forgotten,
                  mixed >>

\* The names of the objects, or an error where one of them is missing; an
\* info without an Object is a nil dereference.
Reply ==
  /\ Alive
  /\ call # NoCall
  /\ call' = NoCall
  /\ panicked' = IF call = Torn THEN "call" ELSE panicked
  /\ UNCHANGED << pipeVars, workloadMetaMap, vmInfoList, temps, forgotten, mixed >>

----------------------------------------------------------------------------

ObserveObject(k) == /\ Alive
                    /\ \E new \in ObjectsOf[k] \cup {Absent} : Observe(k, new)
                    /\ UNCHANGED infoVars
DeliverTo(r) == Alive /\ Deliver(r) /\ UNCHANGED infoVars
Take         == Alive /\ (Get \/ Read) /\ UNCHANGED infoVars

Next ==
  \/ \E k \in Keys : ObserveObject(k)
  \/ \E r \in Resources : DeliverTo(r)
  \/ \E e \in Event : Handle(e)
  \/ Take
  \/ \E m \in AllMetas : FindInfo(m)
  \/ Reply

Spec == Init /\ [][Next]_vars

----------------------------------------------------------------------------
(* Properties.                                                             *)

\* The state keeps its shape: no info shows a service that is not of the
\* ClusterIP type, and no made-up uuid is used before it was made up.
TypeOK ==
  /\ PipeTypeOK
  /\ \A k \in Keys : store[k] \in ObjectsOf[k] \cup {Absent}
  /\ workloadMetaMap \in [Names -> AllMetas \cup {Absent}]
  /\ vmInfoList \in [AllMetas -> VirtualMachineInfo \cup {Absent}]
  /\ temps \in 0..MaxChanges
  /\ \A i \in (temps + 1)..MaxChanges : vmInfoList[i] = Absent
  /\ call \in AllMetas \cup {NoCall, Torn}
  /\ panicked \in {"no", "worker", "call"}
  /\ forgotten \subseteq AllMetas
  /\ mixed \subseteq Names

\* The workloads that an object under key k can belong to.
MetasOf(k) == {o.meta : o \in ObjectsOf[k]}

\* An event that finds object o under key k is written into an info: not so a
\* base image, nor a service of another type.
IsShown(k, o) == /\ k \in Volumes => o.userImage
                 /\ k \in Services => o.type = "ClusterIP"

\* k's objects carry labels, and no other key of its resource has objects
\* that are shown for the same workloads.
Exclusive(k) ==
  /\ MetasOf(k) \subseteq Metas
  /\ \A l \in Keys \ {k} : ResourceOf[l] = ResourceOf[k] =>
       \A o \in ObjectsOf[l] : IsShown(l, o) => o.meta \notin MetasOf(k)

\* Two assumptions on names, under which properties below are proved.  A
\* service that bears the name of a machine has a type in its name ...
NamesAreTyped ==
  \A k \in Services, v \in Vms : NameOf[k] = NameOf[v] => ServiceTypeOf[NameOf[k]] # NoType

\* ... and where another volume or service of k's resource bears the name of
\* a machine, that machine is of none of k's workloads: the deletion of the
\* other one is looked up by that name.
Parts == Volumes \cup Services
NamesAreOwn ==
  \A k \in Parts : \A l \in Keys \ {k}, v \in Vms :
    Exclusive(k) /\ ResourceOf[l] = ResourceOf[k] /\ NameOf[l] = NameOf[v]
      => MetasOf(v) \cap MetasOf(k) = {}

\* The virtual machine that the list shows for workload m.
ShownVm(m) == IF vmInfoList[m] = Absent THEN Absent ELSE vmInfoList[m].vm

\* Where no event of a virtual machine is on its way, its workload's info
\* shows it as it is in the informer's store, no other workload that the
\* name has had shows a machine, and workloadMetaMap knows the name exactly
\* while the machine exists: no order of events, nor those of its volume and
\* service, prevents that.  Only a machine that took the name of one of
\* another workload, whose deletion the worker never saw, can spoil it.
VmConverged ==
  \A k \in Vms : Exclusive(k) /\ ~Pending(k) /\ NameOf[k] \notin mixed =>
    /\ \A m \in MetasOf(k) :
         ShownVm(m) = IF store[k] # Absent /\ store[k].meta = m THEN store[k] ELSE Absent
    /\ workloadMetaMap[NameOf[k]] = IF store[k] = Absent THEN Absent ELSE store[k].meta

\* The Watcher implements Mirror for the machines whose labels are their own:
\* an entry is what is shown of the workload that the machine is known as, and
\* is stale while an event of it is pending, or its name is mixed.
OwnVms == {k \in Vms : Exclusive(k)}

InfoOf(k) == LET m == workloadMetaMap[NameOf[k]]
             IN  IF m = Absent THEN Absent ELSE ShownVm(m)

InHand == object # Unread /\ processing.key \in OwnVms

Mirrored == INSTANCE Mirror WITH
  Keys    <- OwnVms,
  Values  <- VmObjects \cup {Absent},
  NoKey   <- Unread,
  truth   <- [k \in OwnVms |-> store[k]],
  view    <- [k \in OwnVms |-> InfoOf(k)],
  stale   <- {k \in OwnVms : Pending(k) \/ NameOf[k] \in mixed},
  looking <- IF InHand THEN processing.key ELSE Unread,
  seen    <- IF InHand THEN object ELSE Unread

\* What is shown of such a machine changes only when an event of its own is
\* handled, whatever other objects bear its name, and only to what the store
\* held for it after all that was shown before: no old state of it returns.
MirrorSpec == Mirrored!Spec

\* The status that is listed for the owner of a workload whose virtual machine
\* was never deleted shows the volume and the service as they are in the
\* stores, once their events are handled, in whatever order the three come,
\* and the list of all shows the same.
StatusConverged ==
  \A k \in Volumes \cup Services : Exclusive(k) /\ ~Pending(k) /\ store[k] # Absent =>
    LET m    == store[k].meta
        list == ListUserVirtualMachineStats(OwnerOf(m))
    IN  m \notin forgotten =>
          /\ k \in Volumes /\ store[k].userImage =>
               /\ m \in DOMAIN list
               /\ list[m].progress = store[k].progress
               /\ list[m].isReady <=> store[k].phase = "Succeeded"
          /\ k \in Services /\ store[k].type = "ClusterIP" =>
               m \in DOMAIN list /\ list[m].clusterIp = store[k].ip
          /\ m \in DOMAIN list => list[m] = ListAllVirtualMachineStats[m]

\* The worker never panics, as long as a service that bears the name of a
\* virtual machine has a name that ends with a type: handleServiceDeletion
\* returns an error only after it has found the name among the machines.
WorkerSurvives == panicked # "worker"

\* The comment of handleVirtualMachineDeletion: "When Virtual machine
\* deleted, we need to delete all metadata about the workload".  When the
\* deletion of the machine was handled, its volume and its service are gone
\* too and nothing is on its way, nothing of the workload is left.
DeletionForgets ==
  \A m \in forgotten \cap Metas :
    (\A k \in Keys : m \in MetasOf(k) => store[k] = Absent /\ ~Pending(k))
      => vmInfoList[m] = Absent

\* GetWorkloadObjectNameMeta has an answer for a machine that is not there:
\* the error "VirtualMachine or ClusterIPService doesn't exists".
CallsAreAnswered == panicked # "call"
=============================================================================
