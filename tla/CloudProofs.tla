---------------------------- MODULE CloudProofs -----------------------------
(***************************************************************************)
(* First the Watcher by itself: its map and list converge to the machines  *)
(* of the informer's store and are a mirror of them, the statuses follow   *)
(* volumes and services, and its worker survives where the names of        *)
(* services carry their types, for every set of machines, volumes and      *)
(* services, for all sets of objects they may hold and every bound on      *)
(* changes.                                                                *)
(*                                                                         *)
(* Then manager and Watcher together: who is given the names of a          *)
(* workload, for any number of workloads and restarts.  The Watcher's own  *)
(* invariant holds in this system too, as its steps are the Watcher's and  *)
(* a restart begins anew, and so does the manager's                        *)
(* (WorkloadManagerProofs).  What the two do not say is in Following: the  *)
(* worker never takes a machine that is there, or is still to come, for    *)
(* one that is gone.                                                       *)
(***************************************************************************)
EXTENDS Cloud, EventPipelineProofs

----------------------------------------------------------------------------
(* The Watcher.  Of TypeOK everything is needed but the count of the       *)
(* made-up uuids, which TypeOK bounds by the number of events; the last    *)
(* section on the Watcher has it, and with it TypeOK.                      *)

Shape ==
  /\ PipeTypeOK
  /\ \A k \in Keys : store[k] \in ObjectsOf[k] \cup {Absent}
  /\ object # Unread => object \in ObjectsOf[processing.key] \cup {Absent}
  /\ workloadMetaMap \in [Names -> Metas \cup Nat \cup {Absent}]
  /\ vmInfoList \in [AllMetas -> VirtualMachineInfo \cup {Absent}]
  /\ temps \in Nat

LEMMA KeyKinds ==
  /\ \A k \in Keys : NameOf[k] \in Names
  /\ Vms \subseteq Keys /\ Volumes \subseteq Keys /\ Services \subseteq Keys
  /\ Vms \cap Volumes = {} /\ Vms \cap Services = {} /\ Volumes \cap Services = {}
  /\ \A k, l \in Vms : NameOf[k] = NameOf[l] => k = l
BY WatcherAssumption DEF Names, Vms, Volumes, Services

----------------------------------------------------------------------------
(* The infos that the handlers write.                                      *)

LEMMA NewInfo ==
  /\ NewVirtualMachineInfo \in VirtualMachineInfo
  /\ NewVirtualMachineInfo.vm = Absent
BY DEF NewVirtualMachineInfo, VirtualMachineInfo

\* Updating one part of an info keeps its shape, and no part but the machine's
\* own update touches the machine.
LEMMA InfoParts ==
  ASSUME NEW info \in VirtualMachineInfo
  PROVE  /\ info.vm \in VmObjects \cup {Absent}
         /\ \A o \in VmObjects : /\ WithVirtualMachine(info, o) \in VirtualMachineInfo
                                 /\ WithVirtualMachine(info, o).vm = o
         /\ \A o \in DvObjects : /\ WithDataVolume(info, o) \in VirtualMachineInfo
                                 /\ WithDataVolume(info, o).vm = info.vm
         /\ \A o \in SvcObjects : /\ WithService(info, o) \in VirtualMachineInfo
                                  /\ WithService(info, o).vm = info.vm
         /\ /\ WithoutDataVolume(info) \in VirtualMachineInfo
            /\ WithoutDataVolume(info).vm = info.vm
         /\ /\ WithoutClusterIP(info) \in VirtualMachineInfo
            /\ WithoutClusterIP(info).vm = info.vm
<1>1. info.vm \in VmObjects \cup {Absent}
  BY DEF VirtualMachineInfo
<1>2. ASSUME NEW o \in VmObjects
      PROVE  /\ WithVirtualMachine(info, o) \in VirtualMachineInfo
             /\ WithVirtualMachine(info, o).vm = o
  <2>1. o.created \in BOOLEAN
    BY DEF VmObjects
  <2> QED BY <2>1 DEF WithVirtualMachine, VirtualMachineInfo
<1>3. ASSUME NEW o \in DvObjects
      PROVE  /\ WithDataVolume(info, o) \in VirtualMachineInfo
             /\ WithDataVolume(info, o).vm = info.vm
  <2>1. o.progress \in {"50.0%", "100.0%"}
    BY DEF DvObjects
  <2> QED BY <2>1 DEF WithDataVolume, VirtualMachineInfo
<1>4. ASSUME NEW o \in SvcObjects
      PROVE  /\ WithService(info, o) \in VirtualMachineInfo
             /\ WithService(info, o).vm = info.vm
  <2>1. CASE o.type = "ClusterIP"
    <3>1. /\ o \in [meta : Labels, type : {"ClusterIP"}, ip : Addresses]
          /\ o.ip \in Addresses
      BY <2>1 DEF SvcObjects
    <3> QED BY <2>1, <3>1 DEF WithService, VirtualMachineInfo
  <2>2. CASE o.type # "ClusterIP"
    BY <2>2 DEF WithService
  <2> QED BY <2>1, <2>2
<1>5. /\ WithoutDataVolume(info) \in VirtualMachineInfo
      /\ WithoutDataVolume(info).vm = info.vm
  BY DEF WithoutDataVolume, VirtualMachineInfo
<1>6. /\ WithoutClusterIP(info) \in VirtualMachineInfo
      /\ WithoutClusterIP(info).vm = info.vm
  BY DEF WithoutClusterIP, VirtualMachineInfo
<1> QED BY <1>1, <1>2, <1>3, <1>4, <1>5, <1>6

\* The info that a handler starts from: the one in the list or a new one,
\* which shows no machine either.
LEMMA Referred ==
  ASSUME Shape, NEW m \in AllMetas
  PROVE  /\ referVirtualMachineInfo(m) \in VirtualMachineInfo
         /\ referVirtualMachineInfo(m).vm = ShownVm(m)
BY NewInfo DEF referVirtualMachineInfo, Shape, ShownVm

----------------------------------------------------------------------------
(* What a handler does.                                                    *)

\* A handler holds its event and finishes it, unless the worker panics, which
\* leaves the pipeline as it is.
LEMMA HandleFinishes ==
  ASSUME Shape, NEW e \in Event, Handle(e)
  PROVE  /\ e = processing /\ object # Unread /\ e.key \in Keys
         /\ object \in ObjectsOf[e.key] \cup {Absent}
         /\ PipeTypeOK' /\ store' = store
         /\ \A f \in Event : OnWay(f)' <=> OnWay(f)
         /\ \/ processing' = Nothing /\ object' = Unread
            \/ processing' = processing /\ object' = object
<1>1. Handling(e) /\ (Finish(e, FALSE) \/ UNCHANGED pipeVars)
  BY DEF Handle, handleVirtualMachineUpdate, handleServiceUpdate,
         handleDataVolumeUpdate, handleVirtualMachineDeletion,
         handleServiceDeletion, handleDataVolumeDeletion, Ignore, Present, Gone,
         Done, Panic
<1>2. CASE Finish(e, FALSE)
  BY <1>1, <1>2, FinishFacts, EventParts DEF Finish, Handling, Shape
<1>3. CASE UNCHANGED pipeVars
  BY <1>1, <1>3, EventParts DEF pipeVars, PipeTypeOK, OnWay, Handling, Shape
<1> QED BY <1>1, <1>2, <1>3

\* The machine that is shown for a workload, and the workload a name is known
\* as, change by the handlers of machines only: an update shows the object and
\* leaves a name that is known as it is, a deletion takes both away.
MachineShown(e) ==
  LET m == Extract(object)
      n == NameOf[e.key]
  IN  /\ e.key \in Vms /\ object # Absent
      /\ workloadMetaMap' =
           [workloadMetaMap EXCEPT ![n] = IF @ = Absent THEN m ELSE @]
      /\ \A x \in AllMetas : ShownVm(x)' = IF x = m THEN object ELSE ShownVm(x)
      /\ mixed' = IF workloadMetaMap[n] \in {Absent, m} THEN mixed ELSE mixed \cup {n}

MachineRemoved(e) ==
  LET n == NameOf[e.key]
  IN  /\ e.key \in Vms /\ object = Absent
      /\ workloadMetaMap' = [workloadMetaMap EXCEPT ![n] = Absent]
      /\ \A x \in AllMetas :
           ShownVm(x)' = IF x = workloadMetaMap[n] THEN Absent ELSE ShownVm(x)
      /\ mixed' = mixed

MachinesLeftAlone ==
  /\ workloadMetaMap' = workloadMetaMap
  /\ \A x \in AllMetas : ShownVm(x)' = ShownVm(x)
  /\ mixed' = mixed

\* Writing one info, for any meta: the list keeps its shape.
LEMMA WriteInfo ==
  ASSUME Shape, NEW m, NEW info,
         m \in AllMetas => info \in VirtualMachineInfo \cup {Absent},
         vmInfoList' = [vmInfoList EXCEPT ![m] = info]
  PROVE  /\ vmInfoList' \in [AllMetas -> VirtualMachineInfo \cup {Absent}]
         /\ \A x \in AllMetas : vmInfoList'[x] = IF x = m THEN info ELSE vmInfoList[x]
<1>1. CASE m \in AllMetas
  BY <1>1 DEF Shape
<1>2. CASE m \notin AllMetas
  BY <1>2 DEF Shape
<1> QED BY <1>1, <1>2

\* An info whose machine is the one shown before leaves what is shown.
LEMMA WriteOther ==
  ASSUME Shape, NEW m, NEW info,
         m \in AllMetas => /\ info \in VirtualMachineInfo
                           /\ info.vm = ShownVm(m),
         vmInfoList' = [vmInfoList EXCEPT ![m] = info]
  PROVE  /\ vmInfoList' \in [AllMetas -> VirtualMachineInfo \cup {Absent}]
         /\ \A x \in AllMetas : ShownVm(x)' = ShownVm(x)
<1>1. /\ vmInfoList' \in [AllMetas -> VirtualMachineInfo \cup {Absent}]
      /\ \A x \in AllMetas : vmInfoList'[x] = IF x = m THEN info ELSE vmInfoList[x]
  BY WriteInfo
<1>2. ASSUME NEW x \in AllMetas PROVE ShownVm(x)' = ShownVm(x)
  <2>1. CASE x = m
    <3>1. info # Absent
      BY <2>1, WatcherAssumption
    <3> QED BY <2>1, <3>1, <1>1 DEF ShownVm
  <2>2. CASE x # m
    BY <2>2, <1>1 DEF ShownVm
  <2> QED BY <2>1, <2>2
<1> QED BY <1>1, <1>2

LEMMA HandleWrites ==
  ASSUME Shape, NEW e \in Event, Handle(e)
  PROVE  /\ e.key \in Vms => MachineShown(e) \/ MachineRemoved(e)
         /\ e.key \notin Vms => MachinesLeftAlone
         /\ vmInfoList' \in [AllMetas -> VirtualMachineInfo \cup {Absent}]
         /\ workloadMetaMap' \in [Names -> Metas \cup Nat \cup {Absent}]
         /\ temps' \in Nat
<1> DEFINE List == vmInfoList' \in [AllMetas -> VirtualMachineInfo \cup {Absent}]
<1>1. e.key \in Keys /\ object \in ObjectsOf[e.key] \cup {Absent} /\ NameOf[e.key] \in Names
  BY HandleFinishes, KeyKinds
<1>2. /\ temps' \in Nat
      /\ workloadMetaMap' \in [Names -> Metas \cup Nat \cup {Absent}]
  <2>1. temps' \in Nat
    BY DEF Shape, Handle, handleVirtualMachineUpdate, handleServiceUpdate,
           handleDataVolumeUpdate, handleVirtualMachineDeletion,
           handleServiceDeletion, handleDataVolumeDeletion, Ignore, CountTemp
  <2>2. CASE handleVirtualMachineUpdate(e)
    <3>1. object.meta \in Labels
      BY <1>1, <2>2, WatcherAssumption, KeyKinds
         DEF handleVirtualMachineUpdate, Present, VmObjects
    <3>2. Extract(object) \in Metas \cup Nat
      BY <3>1 DEF Extract, Labels, Shape
    <3> HIDE DEF Extract
    <3> QED BY <2>1, <2>2, <3>2 DEF handleVirtualMachineUpdate, Shape
  <2>3. CASE ~handleVirtualMachineUpdate(e)
    BY <2>1, <2>3
       DEF Shape, Handle, handleServiceUpdate, handleDataVolumeUpdate,
           handleVirtualMachineDeletion, handleServiceDeletion,
           handleDataVolumeDeletion, Ignore
  <2> QED BY <2>1, <2>2, <2>3
<1>3. CASE handleVirtualMachineUpdate(e)
  <2> DEFINE m == Extract(object)
             info == WithVirtualMachine(referVirtualMachineInfo(m), object)
  <2>1. e.key \in Vms /\ object # Absent /\ object \in VmObjects
    BY <1>1, <1>3, WatcherAssumption, KeyKinds DEF handleVirtualMachineUpdate, Present
  <2>2. vmInfoList' = [vmInfoList EXCEPT ![m] = info]
    BY <1>3 DEF handleVirtualMachineUpdate
  <2>3. m \in AllMetas => info \in VirtualMachineInfo /\ info.vm = object
    BY <2>1, Referred, InfoParts
  <2>4. /\ List
        /\ \A x \in AllMetas : vmInfoList'[x] = IF x = m THEN info ELSE vmInfoList[x]
    <3> HIDE DEF info, m
    <3> QED BY <2>2, <2>3, WriteInfo
  <2>5. ASSUME NEW x \in AllMetas
        PROVE  ShownVm(x)' = IF x = m THEN object ELSE ShownVm(x)
    <3>1. CASE x = m
      <4>1. info # Absent /\ vmInfoList'[x] = info /\ info.vm = object
        BY <3>1, <2>3, <2>4, WatcherAssumption
      <4> HIDE DEF info, m
      <4> QED BY <3>1, <4>1 DEF ShownVm
    <3>2. CASE x # m
      <4>1. vmInfoList'[x] = vmInfoList[x]
        BY <3>2, <2>4
      <4> QED BY <3>2, <4>1 DEF ShownVm
    <3> QED BY <3>1, <3>2
  <2>6. MachineShown(e)
    BY <1>3, <2>1, <2>5 DEF handleVirtualMachineUpdate, MachineShown
  <2> QED BY <1>2, <2>1, <2>4, <2>6
<1>4. CASE handleServiceUpdate(e)
  <2> DEFINE m == Extract(object)
             info == WithService(referVirtualMachineInfo(m), object)
  <2>1. e.key \in Services /\ object # Absent /\ object \in SvcObjects
    BY <1>1, <1>4, WatcherAssumption, KeyKinds DEF handleServiceUpdate, Present
  <2>2. vmInfoList' = [vmInfoList EXCEPT ![m] = info]
    BY <1>4 DEF handleServiceUpdate
  <2>3. m \in AllMetas => info \in VirtualMachineInfo /\ info.vm = ShownVm(m)
    BY <2>1, Referred, InfoParts
  <2>4. List /\ \A x \in AllMetas : ShownVm(x)' = ShownVm(x)
    <3> HIDE DEF info, m
    <3> QED BY <2>2, <2>3, WriteOther
  <2> QED BY <1>2, <1>4, <2>1, <2>4, KeyKinds DEF handleServiceUpdate, MachinesLeftAlone
<1>5. CASE handleDataVolumeUpdate(e)
  <2> DEFINE m == Extract(object)
             info == WithDataVolume(referVirtualMachineInfo(m), object)
  <2>1. e.key \in Volumes /\ object # Absent /\ object \in DvObjects
    BY <1>1, <1>5, WatcherAssumption, KeyKinds DEF handleDataVolumeUpdate, Present
  <2>2. vmInfoList' = [vmInfoList EXCEPT ![m] = info]
    BY <1>5 DEF handleDataVolumeUpdate
  <2>3. m \in AllMetas => info \in VirtualMachineInfo /\ info.vm = ShownVm(m)
    BY <2>1, Referred, InfoParts
  <2>4. List /\ \A x \in AllMetas : ShownVm(x)' = ShownVm(x)
    <3> HIDE DEF info, m
    <3> QED BY <2>2, <2>3, WriteOther
  <2> QED BY <1>2, <1>5, <2>1, <2>4, KeyKinds DEF handleDataVolumeUpdate, MachinesLeftAlone
<1>6. CASE handleVirtualMachineDeletion(e)
  <2> DEFINE n == NameOf[e.key]
             m == workloadMetaMap[n]
  <2>1. e.key \in Vms /\ object = Absent /\ mixed' = mixed
    BY <1>6 DEF handleVirtualMachineDeletion, Gone
  <2>2. CASE m = Absent
    <3>1. workloadMetaMap' = workloadMetaMap /\ vmInfoList' = vmInfoList
      BY <1>6, <2>2 DEF handleVirtualMachineDeletion
    <3>2. workloadMetaMap' = [workloadMetaMap EXCEPT ![n] = Absent]
      BY <1>1, <2>2, <3>1 DEF Shape
    <3>3. \A x \in AllMetas : x # m
      BY <2>2, WatcherAssumption DEF AllMetas
    <3> QED BY <1>2, <2>1, <3>1, <3>2, <3>3 DEF MachineRemoved, ShownVm, Shape
  <2>3. CASE m # Absent
    <3>1. /\ workloadMetaMap' = [workloadMetaMap EXCEPT ![n] = Absent]
          /\ vmInfoList' = [vmInfoList EXCEPT ![m] = Absent]
      BY <1>6, <2>3 DEF handleVirtualMachineDeletion, deleteVirtualMachineInfo
    <3>2. List /\ \A x \in AllMetas :
                    vmInfoList'[x] = IF x = m THEN Absent ELSE vmInfoList[x]
      BY <3>1, WriteInfo
    <3> QED BY <1>2, <2>1, <3>1, <3>2 DEF MachineRemoved, ShownVm
  <2> QED BY <2>2, <2>3
<1>7. CASE handleServiceDeletion(e) \/ handleDataVolumeDeletion(e)
  <2> DEFINE m == workloadMetaMap[NameOf[e.key]]
  <2>1. \/ vmInfoList' = vmInfoList
        \/ /\ vmInfoList[m] # Absent
           /\ \/ vmInfoList' = [vmInfoList EXCEPT ![m] = WithoutClusterIP(@)]
              \/ vmInfoList' = [vmInfoList EXCEPT ![m] = WithoutDataVolume(@)]
    BY <1>7 DEF handleServiceDeletion, handleDataVolumeDeletion, KnownAs
  <2>2. List /\ \A x \in AllMetas : ShownVm(x)' = ShownVm(x)
    <3>1. CASE vmInfoList' = vmInfoList
      BY <3>1 DEF ShownVm, Shape
    <3>2. CASE vmInfoList' # vmInfoList
      <4>1. m \in AllMetas
        BY <2>1, <3>2 DEF Shape
      <4>2. vmInfoList[m] \in VirtualMachineInfo /\ vmInfoList[m].vm = ShownVm(m)
        BY <2>1, <3>2, <4>1 DEF Shape, ShownVm
      <4>3. CASE vmInfoList' = [vmInfoList EXCEPT ![m] = WithoutClusterIP(@)]
        BY <4>2, <4>3, InfoParts, WriteOther
      <4>4. CASE vmInfoList' = [vmInfoList EXCEPT ![m] = WithoutDataVolume(@)]
        BY <4>2, <4>4, InfoParts, WriteOther
      <4> QED BY <2>1, <3>2, <4>3, <4>4
    <3> QED BY <3>1, <3>2
  <2>3. e.key \notin Vms
    BY <1>7, KeyKinds DEF handleServiceDeletion, handleDataVolumeDeletion
  <2> QED BY <1>2, <1>7, <2>2, <2>3
          DEF handleServiceDeletion, handleDataVolumeDeletion, MachinesLeftAlone
<1>8. CASE Ignore(e)
  <2>1. e.key \notin Vms
    BY <1>8, KeyKinds DEF Ignore, Vms
  <2> QED BY <1>2, <1>8, <2>1 DEF Ignore, MachinesLeftAlone, ShownVm, Shape
<1> QED BY <1>3, <1>4, <1>5, <1>6, <1>7, <1>8 DEF Handle

----------------------------------------------------------------------------
(* The inductive invariant behind VmConverged.                             *)

\* A name is known as a workload of its own machine's objects only, so no
\* handler of another machine writes to the infos of k's workloads.
KnownByItsOwn(k) ==
  /\ workloadMetaMap[NameOf[k]] \in MetasOf(k) \cup {Absent}
  /\ \A l \in Vms \ {k} : workloadMetaMap[NameOf[l]] \notin MetasOf(k)

\* Of the workloads that k's name has had, the one that the map has now, and
\* no other, shows a machine: the deletion takes away what is shown.
ShownIfKnown(k) ==
  NameOf[k] \notin mixed =>
    \A m \in MetasOf(k) : ShownVm(m) # Absent <=> workloadMetaMap[NameOf[k]] = m

\* Where the worker has read what is no longer in the store, another event
\* of the key is on its way.
ReadIsFollowed(k) ==
  processing # Nothing /\ object # Unread =>
    (processing.key = k /\ object # store[k] => \E f \in Event : f.key = k /\ OnWay(f))

\* VmConverged, but for what ShownIfKnown adds.
LastIsShown(k) ==
  ~Pending(k) /\ NameOf[k] \notin mixed =>
    IF store[k] = Absent THEN workloadMetaMap[NameOf[k]] = Absent
                         ELSE ShownVm(store[k].meta) = store[k]

Converging ==
  \A k \in Vms : Exclusive(k) =>
    KnownByItsOwn(k) /\ ShownIfKnown(k) /\ LastIsShown(k)

\* The map knows names of machines only.
MachinesKnown ==
  \A n \in Names : workloadMetaMap[n] # Absent => \E v \in Vms : NameOf[v] = n

IInv == Shape /\ (\A k \in Keys : ReadIsFollowed(k)) /\ Converging

\* The workloads of k are named by labels, and by those of no other key of
\* its resource.
LEMMA ExclusiveFacts ==
  ASSUME Shape, NEW k \in Keys, Exclusive(k)
  PROVE  /\ MetasOf(k) \subseteq AllMetas
         /\ Absent \notin MetasOf(k)
         /\ \A o \in ObjectsOf[k] : o.meta \in MetasOf(k) /\ Extract(o) = o.meta
         /\ \A l \in Keys \ {k} : ResourceOf[l] = ResourceOf[k] =>
              \A o \in ObjectsOf[l] : IsShown(l, o) => Extract(o) \notin MetasOf(k)
<1>1. MetasOf(k) \subseteq Metas
  BY DEF Exclusive
<1>2. /\ MetasOf(k) \subseteq AllMetas /\ Absent \notin MetasOf(k)
      /\ MetasOf(k) \cap Nat = {}
  BY <1>1, WatcherAssumption DEF AllMetas
<1>3. ASSUME NEW o \in ObjectsOf[k]
      PROVE  o.meta \in MetasOf(k) /\ Extract(o) = o.meta
  <2>1. o.meta \in MetasOf(k)
    BY DEF MetasOf
  <2>2. o.meta # Unlabelled
    BY <2>1, <1>2, WatcherAssumption
  <2> QED BY <2>1, <2>2 DEF Extract
<1>4. ASSUME NEW l \in Keys \ {k}, ResourceOf[l] = ResourceOf[k],
             NEW o \in ObjectsOf[l], IsShown(l, o)
      PROVE  Extract(o) \notin MetasOf(k)
  <2>1. o.meta \notin MetasOf(k)
    BY <1>4 DEF Exclusive
  <2>2. CASE o.meta = Unlabelled
    BY <2>2, <1>2 DEF Extract, Shape
  <2>3. CASE o.meta # Unlabelled
    BY <2>1, <2>3 DEF Extract
  <2> QED BY <2>2, <2>3
<1> QED BY <1>2, <1>3, <1>4

\* A step that leaves what is shown of k, after which either an event of k is
\* pending or the store is as it was, keeps what the maps say of k.
LEMMA OthersLeave ==
  ASSUME Shape, NEW k \in Vms, Exclusive(k),
         workloadMetaMap'[NameOf[k]] = workloadMetaMap[NameOf[k]],
         NameOf[k] \notin mixed' => NameOf[k] \notin mixed,
         \A x \in MetasOf(k) : ShownVm(x)' = ShownVm(x),
         Pending(k)' \/ (~Pending(k) /\ store'[k] = store[k]),
         ShownIfKnown(k), LastIsShown(k)
  PROVE  ShownIfKnown(k)' /\ LastIsShown(k)'
<1>1. ShownIfKnown(k)'
  BY DEF ShownIfKnown
<1>2. LastIsShown(k)'
  <2> SUFFICES ASSUME ~Pending(k)', NameOf[k] \notin mixed'
               PROVE  IF store'[k] = Absent
                        THEN workloadMetaMap'[NameOf[k]] = Absent
                        ELSE ShownVm(store[k].meta)' = store'[k]
    BY DEF LastIsShown
  <2>1. ~Pending(k) /\ NameOf[k] \notin mixed /\ store'[k] = store[k]
    OBVIOUS
  <2>2. CASE store[k] = Absent
    BY <2>1, <2>2 DEF LastIsShown
  <2>3. CASE store[k] # Absent
    <3>1. store[k].meta \in MetasOf(k)
      BY <2>3, ExclusiveFacts, KeyKinds DEF Shape
    <3>2. ShownVm(store[k].meta) = store[k]
      BY <2>1, <2>3 DEF LastIsShown
    <3> QED BY <2>1, <2>3, <3>1, <3>2 DEF ShownVm
  <2> QED BY <2>2, <2>3
<1> QED BY <1>1, <1>2

\* So does a step that leaves all machines alone.
LEMMA MapsLeftAlone ==
  ASSUME Shape, NEW k \in Vms, Exclusive(k), MachinesLeftAlone,
         Pending(k)' \/ (~Pending(k) /\ store'[k] = store[k]),
         KnownByItsOwn(k), ShownIfKnown(k), LastIsShown(k)
  PROVE  KnownByItsOwn(k)' /\ ShownIfKnown(k)' /\ LastIsShown(k)'
<1>1. KnownByItsOwn(k)'
  BY DEF MachinesLeftAlone, KnownByItsOwn
<1>2. \A x \in MetasOf(k) : ShownVm(x)' = ShownVm(x)
  BY ExclusiveFacts, KeyKinds DEF MachinesLeftAlone
<1> QED BY <1>1, <1>2, OthersLeave DEF MachinesLeftAlone

\* After the worker has handled an event, what is pending is what is on its
\* way, and what it has read is forgotten, unless it panicked.
LEMMA HandlePending ==
  ASSUME Shape, NEW e \in Event, Handle(e), NEW k \in Keys
  PROVE  /\ store' = store
         /\ e.key # k => (Pending(k)' <=> Pending(k))
         /\ ReadIsFollowed(k) => ReadIsFollowed(k)'
         /\ ReadIsFollowed(k) /\ e.key = k /\ ~Pending(k)' => object = store[k]
<1>1. /\ e = processing /\ object # Unread /\ store' = store
      /\ \A f \in Event : OnWay(f)' <=> OnWay(f)
      /\ \/ processing' = Nothing /\ object' = Unread
         \/ processing' = processing /\ object' = object
  BY HandleFinishes
<1>2. Nothing \notin Event
  BY PipelineAssumption
<1>3. e.key # k => (Pending(k)' <=> Pending(k))
  BY <1>1, <1>2 DEF Pending
<1>4. ReadIsFollowed(k) => ReadIsFollowed(k)'
  BY <1>1 DEF ReadIsFollowed
<1>5. ReadIsFollowed(k) /\ e.key = k /\ ~Pending(k)' => object = store[k]
  BY <1>1, <1>2 DEF Pending, ReadIsFollowed
<1> QED BY <1>1, <1>3, <1>4, <1>5

LEMMA HandleConverges ==
  ASSUME IInv, NEW e \in Event, Handle(e), NEW k \in Vms, Exclusive(k)
  PROVE  KnownByItsOwn(k)' /\ ShownIfKnown(k)' /\ LastIsShown(k)'
<1> DEFINE n == NameOf[k]
           m == Extract(object)
<1>1. /\ Shape /\ KnownByItsOwn(k) /\ ShownIfKnown(k) /\ ReadIsFollowed(k)
      /\ LastIsShown(k) /\ k \in Keys
  BY KeyKinds DEF IInv, Converging
<1>2. store' = store
  BY <1>1, HandlePending
<1>3. /\ object \in ObjectsOf[e.key] \cup {Absent}
      /\ e.key \in Vms => MachineShown(e) \/ MachineRemoved(e)
      /\ e.key \notin Vms => MachinesLeftAlone
      /\ DOMAIN workloadMetaMap = Names /\ n \in Names
      /\ workloadMetaMap \in [Names -> Metas \cup Nat \cup {Absent}]
  BY <1>1, HandleFinishes, HandleWrites, KeyKinds DEF Shape
<1>4. \A l \in Vms \ {k} : NameOf[l] # n /\ NameOf[l] \in Names
  BY KeyKinds
<1>5. CASE e.key = k
  <2>1. CASE MachineShown(e)
    <3>1. /\ object \in ObjectsOf[k] /\ m \in MetasOf(k) /\ m \in AllMetas
          /\ m = object.meta /\ object # Absent
      BY <1>1, <1>3, <1>5, <2>1, ExclusiveFacts, KeyKinds DEF MachineShown
    <3>2. /\ workloadMetaMap'[n] = IF workloadMetaMap[n] = Absent
                                     THEN m ELSE workloadMetaMap[n]
          /\ \A l \in Vms \ {k} : workloadMetaMap'[NameOf[l]] = workloadMetaMap[NameOf[l]]
      BY <1>3, <1>4, <1>5, <2>1 DEF MachineShown
    <3>3. KnownByItsOwn(k)'
      BY <1>1, <3>1, <3>2 DEF KnownByItsOwn
    <3>4. ASSUME n \notin mixed'
          PROVE  /\ n \notin mixed /\ workloadMetaMap'[n] = m
                 /\ workloadMetaMap[n] \in {Absent, m}
      BY <1>5, <2>1, <3>2, <3>4 DEF MachineShown
    <3>5. \A x \in AllMetas : ShownVm(x)' = IF x = m THEN object ELSE ShownVm(x)
      BY <2>1 DEF MachineShown
    <3>6. ShownIfKnown(k)'
      <4> SUFFICES ASSUME n \notin mixed', NEW x \in MetasOf(k)
                   PROVE  ShownVm(x)' # Absent <=> workloadMetaMap'[n] = x
        BY DEF ShownIfKnown
      <4>1. x \in AllMetas /\ x # Absent
        BY <1>1, ExclusiveFacts
      <4>2. ShownVm(x) # Absent <=> workloadMetaMap[n] = x
        BY <1>1, <3>4 DEF ShownIfKnown
      <4> QED BY <3>1, <3>4, <3>5, <4>1, <4>2
    <3>7. LastIsShown(k)'
      <4> SUFFICES ASSUME ~Pending(k)', n \notin mixed'
                   PROVE  store'[k] # Absent /\ ShownVm(store[k].meta)' = store'[k]
        BY DEF LastIsShown
      <4>1. object = store[k] /\ store' = store
        BY <1>1, <1>2, <1>5, HandlePending
      <4>2. PICK x \in AllMetas : x = m
        BY <3>1
      <4>3. ShownVm(x)' = object
        BY <3>5, <4>2
      <4> QED BY <3>1, <4>1, <4>2, <4>3 DEF ShownVm
    <3> QED BY <1>2, <3>3, <3>6, <3>7
  <2>2. CASE MachineRemoved(e)
    <3>1. /\ workloadMetaMap'[n] = Absent /\ mixed' = mixed /\ object = Absent
          /\ \A l \in Vms \ {k} : workloadMetaMap'[NameOf[l]] = workloadMetaMap[NameOf[l]]
          /\ \A x \in AllMetas :
               ShownVm(x)' = IF x = workloadMetaMap[n] THEN Absent ELSE ShownVm(x)
      BY <1>3, <1>4, <1>5, <2>2 DEF MachineRemoved
    <3>2. KnownByItsOwn(k)'
      BY <1>1, <3>1 DEF KnownByItsOwn
    <3>3. ShownIfKnown(k)'
      BY <1>1, <3>1, ExclusiveFacts, KeyKinds DEF ShownIfKnown
    <3>4. LastIsShown(k)'
      <4> SUFFICES ASSUME ~Pending(k)' PROVE store[k] = Absent
        BY <1>2, <3>1 DEF LastIsShown
      <4> QED BY <1>1, <1>5, <3>1, HandlePending
    <3> QED BY <1>2, <3>2, <3>3, <3>4
  <2> QED BY <1>3, <1>5, <2>1, <2>2
<1>6. CASE e.key # k
  <2>1. Pending(k)' <=> Pending(k)
    BY <1>1, <1>6, HandlePending
  <2>2. CASE MachineShown(e)
    <3>1. /\ object \in ObjectsOf[e.key] /\ m \notin MetasOf(k)
          /\ e.key \in Vms \ {k} /\ NameOf[e.key] # n
      BY <1>1, <1>3, <1>4, <1>6, <2>2, ExclusiveFacts, KeyKinds DEF MachineShown, Vms, IsShown
    <3>2. /\ workloadMetaMap'[n] = workloadMetaMap[n]
          /\ n \notin mixed' => n \notin mixed
          /\ \A l \in Vms \ {k} :
               workloadMetaMap'[NameOf[l]] \in {m, workloadMetaMap[NameOf[l]]}
      BY <1>3, <1>4, <2>2, <3>1 DEF MachineShown
    <3>3. \A x \in MetasOf(k) : ShownVm(x)' = ShownVm(x)
      BY <1>1, <2>2, <3>1, ExclusiveFacts, KeyKinds DEF MachineShown
    <3> HIDE DEF m
    <3>4. KnownByItsOwn(k)'
      BY <1>1, <3>1, <3>2 DEF KnownByItsOwn
    <3> QED BY <1>1, <1>2, <2>1, <3>2, <3>3, <3>4, OthersLeave
  <2>3. CASE MachineRemoved(e)
    <3>1. e.key \in Vms \ {k} /\ NameOf[e.key] # n /\ NameOf[e.key] \in Names
      BY <1>4, <1>6, <2>3 DEF MachineRemoved
    <3>2. workloadMetaMap[NameOf[e.key]] \notin MetasOf(k) /\ Absent \notin MetasOf(k)
      BY <1>1, <3>1, ExclusiveFacts, KeyKinds DEF KnownByItsOwn
    <3>3. /\ workloadMetaMap'[n] = workloadMetaMap[n] /\ mixed' = mixed
          /\ \A l \in Vms \ {k} :
               workloadMetaMap'[NameOf[l]] \in {Absent, workloadMetaMap[NameOf[l]]}
      BY <1>3, <1>4, <2>3, <3>1 DEF MachineRemoved
    <3>4. \A x \in MetasOf(k) : ShownVm(x)' = ShownVm(x)
      BY <1>1, <2>3, <3>2, ExclusiveFacts, KeyKinds DEF MachineRemoved
    <3>5. KnownByItsOwn(k)'
      BY <1>1, <3>2, <3>3 DEF KnownByItsOwn
    <3> QED BY <1>1, <1>2, <2>1, <3>3, <3>4, <3>5, OthersLeave
  <2>4. CASE MachinesLeftAlone
    BY <1>1, <1>2, <2>1, <2>4, MapsLeftAlone
  <2> QED BY <1>3, <2>2, <2>3, <2>4
<1> QED BY <1>5, <1>6

----------------------------------------------------------------------------
(* The steps of the pipeline and of the calls.                             *)

\* After a step of the pipeline an event of k is pending unless the store is
\* as it was, and what the worker has read of k is followed.
KeyKept(k) ==
  /\ ReadIsFollowed(k)'
  /\ Pending(k)' \/ (~Pending(k) /\ store'[k] = store[k])

LEMMA ObservePending ==
  ASSUME Shape, NEW q \in Keys, NEW new, Observe(q, new), NEW k \in Keys, ReadIsFollowed(k)
  PROVE  KeyKept(k)
<1> DEFINE f == [verb |-> VerbOf(store[q], new), key |-> q]
<1>1. /\ f \in Event /\ f.key = q
      /\ \A g \in Event : OnWay(g)' <=> OnWay(g) \/ g = f
  BY ObserveFacts DEF Shape
<1>2. /\ processing' = processing /\ object' = object
      /\ k # q => store'[k] = store[k]
  BY KeyKinds DEF Observe
<1>3. Nothing \notin Event
  BY PipelineAssumption
<1> HIDE DEF f
<1>4. ReadIsFollowed(k)'
  BY <1>1, <1>2 DEF ReadIsFollowed
<1>5. Pending(k)' \/ (~Pending(k) /\ store'[k] = store[k])
  BY <1>1, <1>2 DEF Pending
<1> QED BY <1>4, <1>5 DEF KeyKept

LEMMA DeliverPending ==
  ASSUME Shape, NEW r \in Resources, Deliver(r), NEW k \in Keys, ReadIsFollowed(k)
  PROVE  KeyKept(k)
<1>1. /\ \A g \in Event : OnWay(g) => OnWay(g)'
      /\ processing' = processing /\ object' = object /\ store' = store
  BY DeliverFacts DEF Deliver, Shape
<1> QED BY <1>1 DEF ReadIsFollowed, Pending, KeyKept

LEMMA TakePending ==
  ASSUME Shape, Get \/ Read, NEW k \in Keys, ReadIsFollowed(k)
  PROVE  KeyKept(k)
<1>1. CASE Get
  <2>1. /\ \A g \in Event : OnWay(g) => OnWay(g)' \/ g = processing'
        /\ processing = Nothing /\ Nothing \notin Event /\ store' = store
        /\ object' = Unread
    BY <1>1, GetFacts, PipelineAssumption DEF Get, Shape, PipeTypeOK
  <2> QED BY <2>1 DEF ReadIsFollowed, Pending, KeyKept
<1>2. CASE Read
  <2>1. /\ \A g \in Event : OnWay(g)' <=> OnWay(g)
        /\ processing' = processing /\ store' = store
        /\ object' = store[processing.key]
    BY <1>2, ReadFacts DEF Read, Shape
  <2> QED BY <2>1 DEF ReadIsFollowed, Pending, KeyKept
<1> QED BY <1>1, <1>2

----------------------------------------------------------------------------
(* The invariant.                                                          *)

\* The Watcher has just begun, whatever it knew before.
Begun ==
  /\ PipeInit
  /\ workloadMetaMap = [n \in Names |-> Absent]
  /\ vmInfoList = [m \in AllMetas |-> Absent]
  /\ temps \in Nat

LEMMA IInvBegun == Begun => IInv
<1> SUFFICES ASSUME Begun PROVE IInv
  OBVIOUS
<1>1. PipeTypeOK
  BY PipelineAssumption DEF Begun, PipeInit, PipeTypeOK
<1>2. Shape
  BY <1>1 DEF Shape, Begun, PipeInit
<1>3. ASSUME NEW k \in Vms, Exclusive(k)
      PROVE  KnownByItsOwn(k) /\ ShownIfKnown(k) /\ LastIsShown(k)
  <2>1. \A l \in Vms : workloadMetaMap[NameOf[l]] = Absent
    BY KeyKinds DEF Begun
  <2>2. \A m \in MetasOf(k) : m \in AllMetas /\ m # Absent
    BY <1>2, <1>3, ExclusiveFacts, KeyKinds
  <2>3. \A m \in MetasOf(k) : ShownVm(m) = Absent
    BY <2>2 DEF Begun, ShownVm
  <2>4. KnownByItsOwn(k) /\ ShownIfKnown(k)
    BY <2>1, <2>2, <2>3 DEF KnownByItsOwn, ShownIfKnown
  <2>5. store[k] = Absent
    BY KeyKinds DEF Begun, PipeInit
  <2> QED BY <2>1, <2>4, <2>5 DEF LastIsShown
<1>4. \A k \in Keys : ReadIsFollowed(k)
  BY DEF Begun, PipeInit, ReadIsFollowed
<1> QED BY <1>2, <1>3, <1>4 DEF IInv, Converging

LEMMA IInvInit == Init => IInv
BY IInvBegun DEF Init, Begun

\* A step that leaves the infos alone keeps the shape.
LEMMA ShapeKept ==
  ASSUME Shape, PipeTypeOK', UNCHANGED << workloadMetaMap, vmInfoList, temps >>,
         \A k \in Keys : store'[k] \in ObjectsOf[k] \cup {Absent},
         object' # Unread => object' \in ObjectsOf[processing'.key] \cup {Absent}
  PROVE  Shape'
BY DEF Shape

LEMMA ShapeNext == Shape /\ [Next]_vars => Shape'
<1> SUFFICES ASSUME Shape, [Next]_vars PROVE Shape'
  OBVIOUS
<1>1. PipeTypeOK
  BY DEF Shape
<1>2. ASSUME NEW k \in Keys, ObserveObject(k) PROVE Shape'
  <2>1. PICK new \in ObjectsOf[k] \cup {Absent} : Observe(k, new)
    BY <1>2 DEF ObserveObject
  <2>2. PipeTypeOK'
    BY <1>1, <2>1, ObserveFacts
  <2> QED BY <1>2, <2>1, <2>2, ShapeKept
          DEF ObserveObject, Observe, Shape, PipeTypeOK, infoVars
<1>3. ASSUME NEW r \in Resources, DeliverTo(r) PROVE Shape'
  <2>1. PipeTypeOK'
    BY <1>1, <1>3, DeliverFacts DEF DeliverTo
  <2> QED BY <1>3, <2>1, ShapeKept DEF DeliverTo, Deliver, Shape, infoVars
<1>4. CASE Take
  <2>1. PipeTypeOK'
    BY <1>1, <1>4, GetFacts, ReadFacts DEF Take
  <2>2. object' # Unread => object' \in ObjectsOf[processing'.key] \cup {Absent}
    BY <1>4, EventParts DEF Take, Get, Read, Shape, PipeTypeOK
  <2> QED BY <1>4, <2>1, <2>2, ShapeKept DEF Take, Get, Read, Shape, infoVars
<1>5. ASSUME NEW e \in Event, Handle(e) PROVE Shape'
  <2>1. /\ PipeTypeOK' /\ store' = store /\ e = processing
        /\ object \in ObjectsOf[e.key] \cup {Absent}
        /\ object' = Unread \/ (processing' = processing /\ object' = object)
    BY <1>5, HandleFinishes
  <2>2. /\ vmInfoList' \in [AllMetas -> VirtualMachineInfo \cup {Absent}]
        /\ workloadMetaMap' \in [Names -> Metas \cup Nat \cup {Absent}]
        /\ temps' \in Nat
    BY <1>5, HandleWrites
  <2> QED BY <2>1, <2>2 DEF Shape
<1>6. CASE (\E m \in AllMetas : FindInfo(m)) \/ Reply \/ UNCHANGED vars
  <2>1. UNCHANGED << pipeVars, workloadMetaMap, vmInfoList, temps >>
    BY <1>6 DEF FindInfo, Reply, vars, infoVars
  <2> QED BY <2>1 DEF Shape, PipeTypeOK, pipeVars
<1> QED BY <1>2, <1>3, <1>4, <1>5, <1>6 DEF Next

LEMMA IInvNext == IInv /\ [Next]_vars => IInv'
<1> SUFFICES ASSUME IInv, [Next]_vars PROVE IInv'
  OBVIOUS
<1> DEFINE Followed(k) == KnownByItsOwn(k) /\ ShownIfKnown(k) /\ LastIsShown(k)
<1>1. /\ Shape /\ PipeTypeOK /\ Vms \subseteq Keys
      /\ \A k \in Keys : ReadIsFollowed(k)
      /\ \A k \in Vms : Exclusive(k) => Followed(k)
      /\ Shape'
  BY KeyKinds, ShapeNext DEF IInv, Shape, Converging
<1>2. ASSUME \A k \in Keys : ReadIsFollowed(k)',
             \A k \in Vms : Exclusive(k) => Followed(k)'
      PROVE  IInv'
  BY <1>1, <1>2 DEF IInv, Converging, Exclusive, MetasOf
<1>3. ASSUME UNCHANGED infoVars, \A k \in Keys : KeyKept(k)
      PROVE  IInv'
  <2>1. MachinesLeftAlone
    BY <1>3 DEF infoVars, MachinesLeftAlone, ShownVm
  <2>2. ASSUME NEW k \in Vms, Exclusive(k) PROVE Followed(k)'
    BY <1>1, <1>3, <2>1, <2>2, MapsLeftAlone DEF KeyKept
  <2>3. \A k \in Keys : ReadIsFollowed(k)'
    BY <1>3 DEF KeyKept
  <2> QED BY <1>2, <1>3, <2>2, <2>3
<1>4. ASSUME NEW q \in Keys, ObserveObject(q) PROVE IInv'
  <2>1. PICK new \in ObjectsOf[q] \cup {Absent} : Observe(q, new)
    BY <1>4 DEF ObserveObject
  <2>2. UNCHANGED infoVars
    BY <1>4 DEF ObserveObject
  <2> QED BY <1>1, <1>3, <2>1, <2>2, ObservePending
<1>5. ASSUME NEW r \in Resources, DeliverTo(r) PROVE IInv'
  <2>1. Deliver(r) /\ UNCHANGED infoVars
    BY <1>5 DEF DeliverTo
  <2> QED BY <1>1, <1>3, <2>1, DeliverPending
<1>6. CASE Take
  <2>1. (Get \/ Read) /\ UNCHANGED infoVars
    BY <1>6 DEF Take
  <2> QED BY <1>1, <1>3, <2>1, TakePending
<1>7. ASSUME NEW e \in Event, Handle(e) PROVE IInv'
  <2>2. \A k \in Keys : ReadIsFollowed(k)'
    BY <1>1, <1>7, HandlePending
  <2> QED BY <1>2, <1>7, <2>2, HandleConverges
<1>8. CASE /\ UNCHANGED << pipeVars, workloadMetaMap, vmInfoList, temps, mixed >>
  <2>2. ASSUME NEW k \in Vms, Exclusive(k) PROVE Followed(k)'
    BY <1>1, <1>8, <2>2 DEF KnownByItsOwn, ShownIfKnown, LastIsShown, ShownVm,
                            Pending, OnWay, pipeVars
  <2>3. \A k \in Keys : ReadIsFollowed(k)'
    BY <1>1, <1>8 DEF ReadIsFollowed, OnWay, pipeVars
  <2> QED BY <1>2, <2>2, <2>3
<1>9. CASE (\E m \in AllMetas : FindInfo(m)) \/ Reply \/ UNCHANGED vars
  BY <1>8, <1>9 DEF FindInfo, Reply, vars, infoVars
<1> QED BY <1>4, <1>5, <1>6, <1>7, <1>9 DEF Next

\* Where nothing is pending, what is shown is what is in the store.
LEMMA IInvShows == IInv => VmConverged
<1> SUFFICES ASSUME IInv, NEW k \in Vms, Exclusive(k), ~Pending(k), NameOf[k] \notin mixed
             PROVE  /\ \A m \in MetasOf(k) :
                         ShownVm(m) = IF store[k] # Absent /\ store[k].meta = m
                                        THEN store[k] ELSE Absent
                    /\ workloadMetaMap[NameOf[k]] =
                         IF store[k] = Absent THEN Absent ELSE store[k].meta
  BY DEF VmConverged
<1>1. /\ Shape /\ ShownIfKnown(k) /\ LastIsShown(k)
      /\ Absent \notin MetasOf(k)
  BY ExclusiveFacts, KeyKinds DEF IInv, Converging
<1>2. CASE store[k] = Absent
  BY <1>1, <1>2 DEF ShownIfKnown, LastIsShown
<1>3. CASE store[k] # Absent
  <2>1. store[k].meta \in MetasOf(k) /\ ShownVm(store[k].meta) = store[k]
    BY <1>1, <1>3, ExclusiveFacts, KeyKinds DEF Shape, LastIsShown
  <2>2. workloadMetaMap[NameOf[k]] = store[k].meta
    BY <1>1, <1>3, <2>1 DEF ShownIfKnown
  <2> QED BY <1>1, <1>3, <2>1, <2>2 DEF ShownIfKnown
<1> QED BY <1>2, <1>3

\* The Watcher comes to show each machine as it is, in whatever order events
\* are delivered, merged and handled: see VmConverged.
THEOREM MachinesConverge == Spec => []VmConverged
BY IInvInit, IInvNext, IInvShows, PTL DEF Spec

----------------------------------------------------------------------------
(* The Watcher implements Mirror.                                          *)

InStore  == [k \in OwnVms |-> store[k]]
Shown   == [k \in OwnVms |-> InfoOf(k)]
Stale   == {k \in OwnVms : Pending(k) \/ NameOf[k] \in mixed}
Looking == IF InHand THEN processing.key ELSE Unread
Seen    == IF InHand THEN object ELSE Unread

LEMMA OwnKeys ==
  ASSUME NEW k \in OwnVms
  PROVE  /\ k \in Vms /\ k \in Keys /\ Exclusive(k) /\ k # Unread
         /\ \A o \in ObjectsOf[k] : o \in VmObjects
         /\ Unread \notin ObjectsOf[k] \cup {Absent}
BY WatcherAssumption, PipelineAssumption DEF OwnVms, Vms

\* What stutters: all that Mirror sees is unchanged.
LEMMA NothingToMirror ==
  ASSUME InStore' = InStore, Shown' = Shown, Stale' = Stale,
         Looking' = Looking, Seen' = Seen
  PROVE  UNCHANGED Mirrored!mirrorVars
BY DEF Mirrored!mirrorVars, InStore, Shown, Stale, Looking, Seen

\* The infos and mixed say the same of each machine after a step that leaves
\* them alone.
LEMMA ShownStays ==
  ASSUME UNCHANGED << workloadMetaMap, vmInfoList >>
  PROVE  Shown' = Shown
BY DEF Shown, InfoOf, ShownVm

LEMMA InitMirrors == Init => Mirrored!Init
<1> SUFFICES ASSUME Init PROVE Mirrored!Init
  OBVIOUS
<1>1. InStore = [k \in OwnVms |-> Absent]
  BY OwnKeys DEF Init, PipeInit, InStore
<1>2. Shown = [k \in OwnVms |-> Absent]
  BY OwnKeys, KeyKinds DEF Init, Shown, InfoOf
<1>3. \A k \in OwnVms : ~Pending(k)
  <2> SUFFICES ASSUME NEW e \in Event, OnWay(e) \/ e = processing PROVE FALSE
    BY DEF Pending
  <2>1. inbox[ResourceOf[e.key]] = << >>
    BY EventParts DEF Init, PipeInit
  <2> QED BY <2>1, EmptyHoldsNothing, PipelineAssumption DEF OnWay, Init, PipeInit
<1>4. ~InHand /\ mixed = {}
  BY DEF Init, PipeInit, InHand
<1>5. Stale = {}
  BY <1>3, <1>4 DEF Stale
<1> QED BY <1>1, <1>2, <1>4, <1>5 DEF Mirrored!Init, InStore, Shown, Stale

\* A new event of a key, with or without a change of the store: a change of
\* one of the mirrored machines, or nothing to mirror.
LEMMA NewEventMirrors ==
  ASSUME Shape, NEW q \in Keys, NEW new \in ObjectsOf[q] \cup {Absent},
         UNCHANGED infoVars,
         store' = [store EXCEPT ![q] = new] \/ (store' = store /\ new = store[q]),
         \A k \in Keys : Pending(k)' <=> Pending(k) \/ k = q,
         \/ object = Unread /\ object' = Unread
         \/ UNCHANGED << object, processing >>
  PROVE  Mirrored!Next \/ UNCHANGED Mirrored!mirrorVars
<1>1. /\ Shown' = Shown /\ mixed' = mixed
      /\ Looking' = Looking /\ Seen' = Seen
  BY ShownStays DEF infoVars, Looking, Seen, InHand
<1>2. CASE q \in OwnVms
  <2>1. InStore' = [InStore EXCEPT ![q] = new]
    BY <1>2, OwnKeys DEF InStore, Shape, PipeTypeOK
  <2>2. Stale' = Stale \cup {q}
    BY <1>1, <1>2, OwnKeys DEF Stale
  <2>3. Mirrored!Change(q, new)
    BY <1>1, <2>1, <2>2
       DEF Mirrored!Change, InStore, Shown, Stale, Looking, Seen
  <2>4. new \in VmObjects \cup {Absent}
    BY <1>2, OwnKeys
  <2> QED BY <1>2, <2>3, <2>4 DEF Mirrored!Next
<1>3. CASE q \notin OwnVms
  <2>1. InStore' = InStore
    BY <1>3, OwnKeys DEF InStore, Shape, PipeTypeOK
  <2>2. Stale' = Stale
    BY <1>1, <1>3, OwnKeys DEF Stale
  <2> QED BY <1>1, <2>1, <2>2, NothingToMirror
<1> QED BY <1>2, <1>3

LEMMA PipelineMirrors ==
  ASSUME Shape, UNCHANGED infoVars,
         \/ \E k \in Keys : \E new \in ObjectsOf[k] \cup {Absent} : Observe(k, new)
         \/ \E r \in Resources : Deliver(r)
         \/ Get
  PROVE  Mirrored!Next \/ UNCHANGED Mirrored!mirrorVars
<1>1. /\ PipeTypeOK /\ DOMAIN store = Keys
      /\ \A k \in Keys : store[k] \in ObjectsOf[k] \cup {Absent}
  BY DEF Shape, PipeTypeOK
<1>2. ASSUME NEW k \in Keys, NEW new \in ObjectsOf[k] \cup {Absent}, Observe(k, new)
      PROVE  Mirrored!Next \/ UNCHANGED Mirrored!mirrorVars
  <2> DEFINE f == [verb |-> VerbOf(store[k], new), key |-> k]
  <2>1. /\ f \in Event /\ f.key = k
        /\ \A g \in Event : OnWay(g)' <=> OnWay(g) \/ g = f
        /\ UNCHANGED << object, processing >>
        /\ store' = [store EXCEPT ![k] = new]
    BY <1>1, <1>2, ObserveFacts DEF Observe
  <2> HIDE DEF f
  <2>2. \A l \in Keys : Pending(l)' <=> Pending(l) \/ l = k
    BY <2>1 DEF Pending
  <2> QED BY <2>1, <2>2, NewEventMirrors
<1>3. ASSUME NEW e \in Event, store' = store,
             \A l \in Keys : Pending(l)' <=> Pending(l) \/ l = e.key,
             \/ object = Unread /\ object' = Unread
             \/ UNCHANGED << object, processing >>
      PROVE  Mirrored!Next \/ UNCHANGED Mirrored!mirrorVars
  <2>1. PICK k \in Keys : k = e.key
    BY EventParts
  <2> QED BY <1>1, <1>3, <2>1, NewEventMirrors
<1>4. ASSUME NEW r \in Resources, Deliver(r)
      PROVE  Mirrored!Next \/ UNCHANGED Mirrored!mirrorVars
  <2>1. PICK e \in Event : \A g \in Event : OnWay(g)' <=> OnWay(g) \/ g = e
    BY <1>1, <1>4, DeliverFacts
  <2>2. UNCHANGED << store, object, processing >>
    BY <1>4 DEF Deliver
  <2>3. \A l \in Keys : Pending(l)' <=> Pending(l) \/ l = e.key
    BY <2>1, <2>2 DEF Pending
  <2> QED BY <1>3, <2>2, <2>3
<1>5. CASE Get
  <2>1. /\ processing' \in Event /\ processing = Nothing /\ Nothing \notin Event
        /\ \A g \in Event : OnWay(g) => OnWay(g)' \/ g = processing'
        /\ \A g \in Event : OnWay(g)' => OnWay(g)
        /\ object = Unread /\ object' = Unread /\ store' = store
    BY <1>1, <1>5, GetFacts, PipelineAssumption DEF Get, PipeTypeOK
  <2>2. PICK e \in Event : e = processing'
    BY <2>1
  <2>3. \A l \in Keys : Pending(l)' <=> Pending(l) \/ l = e.key
    BY <2>1, <2>2 DEF Pending
  <2> QED BY <1>3, <2>1, <2>3
<1> QED BY <1>2, <1>4, <1>5

\* Reading the store for a mirrored machine is the look at it.
LEMMA ReadMirrors ==
  ASSUME Shape, UNCHANGED infoVars, Read
  PROVE  Mirrored!Next \/ UNCHANGED Mirrored!mirrorVars
<1>1. /\ processing \in Event /\ processing' = processing
      /\ object = Unread /\ object' = store[processing.key] /\ store' = store
      /\ \A f \in Event : OnWay(f)' <=> OnWay(f)
      /\ mixed' = mixed
  BY ReadFacts DEF Shape, PipeTypeOK, Read, infoVars
<1>2. PICK k \in Keys : k = processing.key
  BY <1>1, EventParts
<1>3. /\ InStore' = InStore /\ Shown' = Shown /\ Stale' = Stale
  BY <1>1, ShownStays DEF InStore, Stale, Pending, infoVars
<1>4. Looking = Unread /\ Seen = Unread
  BY <1>1 DEF Looking, Seen, InHand
<1>5. CASE k \in OwnVms
  <2>1. object' \in ObjectsOf[k] \cup {Absent} /\ object' # Unread
    BY <1>1, <1>2, <1>5, OwnKeys DEF Shape
  <2>2. Looking' = k /\ Seen' = InStore[k]
    BY <1>1, <1>2, <1>5, <2>1 DEF Looking, Seen, InHand, InStore
  <2>3. k \in Stale
    BY <1>1, <1>2, <1>5 DEF Stale, Pending
  <2>4. Mirrored!Look(k)
    BY <1>3, <1>4, <2>2, <2>3
       DEF Mirrored!Look, InStore, Shown, Stale, Looking, Seen
  <2> QED BY <1>5, <2>4 DEF Mirrored!Next
<1>6. CASE k \notin OwnVms
  <2>1. Looking' = Unread /\ Seen' = Unread
    BY <1>1, <1>2, <1>6 DEF Looking, Seen, InHand
  <2> QED BY <1>3, <1>4, <2>1, NothingToMirror
<1> QED BY <1>5, <1>6

\* What a handler shows of a mirrored machine: the object it has read, if the
\* event is the machine's own, or what was shown before.
LEMMA HandleShows ==
  ASSUME IInv, NEW e \in Event, Handle(e), NEW k \in OwnVms
  PROVE  /\ e.key # k => /\ InfoOf(k)' = InfoOf(k)
                         /\ NameOf[k] \in mixed' <=> NameOf[k] \in mixed
         /\ e.key = k => InfoOf(k)' \in {object, InfoOf(k)}
<1> DEFINE n == NameOf[k]
           m == Extract(object)
<1>1. /\ Shape /\ KnownByItsOwn(k) /\ k \in Vms /\ k \in Keys /\ Exclusive(k)
      /\ MetasOf(k) \subseteq AllMetas /\ Absent \notin MetasOf(k)
      /\ n \in Names
      /\ \A o \in ObjectsOf[k] : Extract(o) \in MetasOf(k)
      /\ \A l \in Vms : NameOf[l] = n => l = k
  BY OwnKeys, ExclusiveFacts, KeyKinds DEF IInv, Converging
<1>2. /\ object \in ObjectsOf[e.key] \cup {Absent}
      /\ e.key \in Vms => MachineShown(e) \/ MachineRemoved(e)
      /\ e.key \notin Vms => MachinesLeftAlone
      /\ workloadMetaMap \in [Names -> Metas \cup Nat \cup {Absent}]
  BY <1>1, HandleFinishes, HandleWrites DEF Shape
<1>3. /\ workloadMetaMap[n] \in MetasOf(k) \cup {Absent}
      /\ \A l \in Vms \ {k} : workloadMetaMap[NameOf[l]] \notin MetasOf(k)
  BY <1>1 DEF KnownByItsOwn
<1>4. CASE MachinesLeftAlone
  <2>1. \A x \in MetasOf(k) : ShownVm(x)' = ShownVm(x)
    BY <1>1, <1>4 DEF MachinesLeftAlone
  <2> QED BY <1>1, <1>3, <1>4, <2>1 DEF MachinesLeftAlone, InfoOf
<1>5. CASE e.key = k /\ MachineShown(e)
  <2>1. m \in MetasOf(k)
    BY <1>1, <1>2, <1>5 DEF MachineShown
  <2> HIDE DEF m
  <2>2. /\ workloadMetaMap'[n] = IF workloadMetaMap[n] = Absent THEN m ELSE workloadMetaMap[n]
        /\ \A x \in MetasOf(k) : ShownVm(x)' = IF x = m THEN object ELSE ShownVm(x)
    BY <1>1, <1>2, <1>5 DEF MachineShown, m
  <2> QED BY <1>1, <1>3, <1>5, <2>1, <2>2 DEF InfoOf
<1>6. CASE e.key = k /\ MachineRemoved(e)
  BY <1>1, <1>2, <1>6 DEF MachineRemoved, InfoOf
<1>7. CASE e.key \in Vms \ {k} /\ MachineShown(e)
  <2>1. ResourceOf[e.key] = ResourceOf[k] /\ e.key \in Keys \ {k}
    BY <1>1, <1>7 DEF Vms
  <2>2. IsShown(e.key, object)
    BY <1>7, KeyKinds DEF IsShown
  <2>3. m \notin MetasOf(k)
    BY <1>1, <1>2, <1>7, <2>1, <2>2, ExclusiveFacts DEF MachineShown
  <2> HIDE DEF m
  <2>4. /\ workloadMetaMap'[n] = workloadMetaMap[n]
        /\ \A x \in MetasOf(k) : ShownVm(x)' = ShownVm(x)
        /\ n \in mixed' <=> n \in mixed
    BY <1>1, <1>2, <1>7, <2>3 DEF MachineShown, m
  <2> QED BY <1>1, <1>3, <1>7, <2>4 DEF InfoOf
<1>8. CASE e.key \in Vms \ {k} /\ MachineRemoved(e)
  <2>1. /\ workloadMetaMap'[n] = workloadMetaMap[n] /\ mixed' = mixed
        /\ \A x \in MetasOf(k) : ShownVm(x)' = ShownVm(x)
    BY <1>1, <1>2, <1>3, <1>8 DEF MachineRemoved
  <2> QED BY <1>1, <1>3, <1>8, <2>1 DEF InfoOf
<1> QED BY <1>2, <1>4, <1>5, <1>6, <1>7, <1>8

\* Only the deletion of a service can make the worker panic.
LEMMA MachineIsFinished ==
  ASSUME Shape, NEW e \in Event, Handle(e), e.key \in Vms
  PROVE  processing' = Nothing /\ object' = Unread
BY KeyKinds DEF Handle, handleVirtualMachineUpdate, handleServiceUpdate,
       handleDataVolumeUpdate, handleVirtualMachineDeletion,
       handleServiceDeletion, handleDataVolumeDeletion, Ignore, Done, Finish

\* What is shown and not stale is what is in the store.
FreshShown == \A k \in OwnVms \ Stale : InfoOf(k) = store[k]

LEMMA FreshIsShown == IInv => FreshShown
<1> SUFFICES ASSUME IInv, NEW k \in OwnVms, k \notin Stale PROVE InfoOf(k) = store[k]
  BY DEF FreshShown
<1>1. /\ Shape /\ Exclusive(k) /\ k \in Vms /\ k \in Keys
      /\ ~Pending(k) /\ NameOf[k] \notin mixed
      /\ store[k] # Absent => store[k].meta \in MetasOf(k)
      /\ Absent \notin MetasOf(k)
  BY OwnKeys, ExclusiveFacts DEF IInv, Stale, Shape
<1> QED BY <1>1, IInvShows DEF VmConverged, InfoOf

LEMMA HandleMirrors ==
  ASSUME IInv, NEW e \in Event, Handle(e), FreshShown'
  PROVE  Mirrored!Next \/ UNCHANGED Mirrored!mirrorVars
<1>1. /\ Shape /\ e = processing /\ object # Unread /\ e.key \in Keys /\ store' = store
      /\ \A f \in Event : OnWay(f)' <=> OnWay(f)
      /\ \/ processing' = Nothing /\ object' = Unread
         \/ processing' = processing /\ object' = object
  BY HandleFinishes DEF IInv
<1>2. InStore' = InStore
  BY <1>1 DEF InStore
<1>3. \A k \in OwnVms : e.key # k => (Pending(k)' <=> Pending(k)) /\ InfoOf(k)' = InfoOf(k)
                                     /\ (NameOf[k] \in mixed' <=> NameOf[k] \in mixed)
  BY <1>1, HandlePending, HandleShows, OwnKeys
<1>4. CASE e.key \in OwnVms
  <2>1. PICK k \in OwnVms : k = e.key
    BY <1>4
  <2>2. Looking = k /\ Seen = object /\ k # Unread
    BY <1>1, <2>1, OwnKeys DEF Looking, Seen, InHand
  <2>3. Looking' = Unread /\ Seen' = Unread
    BY <1>1, <2>1, MachineIsFinished, OwnKeys DEF Looking, Seen, InHand
  <2>4. Shown' = [Shown EXCEPT ![k] = object] \/ Shown' = Shown
    BY <1>3, <2>1, HandleShows DEF Shown
  <2>5. k \in Stale
    BY <1>1, <2>1 DEF Stale, Pending
  <2>6. Stale' = Stale \/ Stale' = Stale \ {k}
    <3>1. \A l \in OwnVms : l # k => (l \in Stale' <=> l \in Stale)
      BY <1>3, <2>1 DEF Stale
    <3>2. Stale \subseteq OwnVms /\ Stale' \subseteq OwnVms
      BY DEF Stale
    <3> QED BY <2>5, <3>1, <3>2
  <2>7. k \notin Stale' => Shown'[k] = InStore[k]
    BY <1>1 DEF FreshShown, Shown, InStore
  <2>8. Mirrored!Apply
    BY <1>2, <2>2, <2>3, <2>4, <2>6, <2>7
       DEF Mirrored!Apply, InStore, Shown, Stale, Looking, Seen
  <2> QED BY <2>8 DEF Mirrored!Next
<1>5. CASE e.key \notin OwnVms
  <2>1. Looking = Unread /\ Seen = Unread /\ Looking' = Unread /\ Seen' = Unread
    BY <1>1, <1>5 DEF Looking, Seen, InHand
  <2>2. Shown' = Shown /\ Stale' = Stale
    BY <1>3, <1>5 DEF Shown, Stale
  <2> QED BY <1>2, <2>1, <2>2, NothingToMirror
<1> QED BY <1>4, <1>5

LEMMA NextMirrors ==
  IInv /\ FreshShown' /\ [Next]_vars => [Mirrored!Next]_(Mirrored!mirrorVars)
<1> SUFFICES ASSUME IInv, FreshShown', [Next]_vars
             PROVE  Mirrored!Next \/ UNCHANGED Mirrored!mirrorVars
  OBVIOUS
<1>1. Shape
  BY DEF IInv
<1>2. ASSUME NEW k \in Keys, ObserveObject(k)
      PROVE  Mirrored!Next \/ UNCHANGED Mirrored!mirrorVars
  BY <1>1, <1>2, PipelineMirrors DEF ObserveObject
<1>3. ASSUME NEW r \in Resources, DeliverTo(r)
      PROVE  Mirrored!Next \/ UNCHANGED Mirrored!mirrorVars
  BY <1>1, <1>3, PipelineMirrors DEF DeliverTo
<1>4. CASE Take
  BY <1>1, <1>4, PipelineMirrors, ReadMirrors DEF Take
<1>5. ASSUME NEW e \in Event, Handle(e)
      PROVE  Mirrored!Next \/ UNCHANGED Mirrored!mirrorVars
  BY <1>1, <1>5, HandleMirrors
<1>6. CASE (\E m \in AllMetas : FindInfo(m)) \/ Reply \/ UNCHANGED vars
  <2>1. UNCHANGED << pipeVars, workloadMetaMap, vmInfoList, mixed >>
    BY <1>6 DEF FindInfo, Reply, vars, infoVars
  <2>2. /\ InStore' = InStore /\ Shown' = Shown /\ Stale' = Stale
        /\ Looking' = Looking /\ Seen' = Seen
    BY <2>1, ShownStays
       DEF pipeVars, InStore, Stale, Pending, OnWay, Looking, Seen, InHand
  <2> QED BY <2>2, NothingToMirror
<1> QED BY <1>2, <1>3, <1>4, <1>5, <1>6 DEF Next

\* The Watcher implements Mirror: of a machine whose labels are its own it
\* shows states in the order in which the cluster had them, and the present one
\* where no event of it is pending and its name is not mixed.  See MirrorSpec.
THEOREM Mirrors == Spec => MirrorSpec
<1>1. Init => IInv /\ Mirrored!Init
  BY IInvInit, InitMirrors
<1>2. IInv /\ FreshShown' /\ [Next]_vars =>
        IInv' /\ [Mirrored!Next]_(Mirrored!mirrorVars)
  BY IInvNext, NextMirrors
<1> QED BY <1>1, <1>2, IInvNext, FreshIsShown, PTL DEF Spec, MirrorSpec, Mirrored!Spec

----------------------------------------------------------------------------
(* The worker.                                                             *)

\* A name is known as a workload of its machine's objects, or as one with a
\* uuid made up for them.
KnownByLabel ==
  \A v \in Vms : workloadMetaMap[NameOf[v]] \in MetasOf(v) \cup Nat \cup {Absent}

NamesKnown == MachinesKnown /\ KnownByLabel

\* Every step is one of a handler, or leaves the infos and keeps what is
\* known of each key.
LEMMA StepKinds ==
  ASSUME IInv, [Next]_vars
  PROVE  \/ \E e \in Event : Handle(e)
         \/ /\ UNCHANGED << workloadMetaMap, vmInfoList, forgotten, mixed >>
            /\ panicked' \in {panicked, "call"}
            /\ \A k \in Keys : KeyKept(k)
<1>1. Shape /\ \A k \in Keys : ReadIsFollowed(k)
  BY DEF IInv
<1>2. ASSUME NEW q \in Keys, ObserveObject(q) PROVE \A k \in Keys : KeyKept(k)
  BY <1>1, <1>2, ObservePending DEF ObserveObject
<1>3. ASSUME NEW r \in Resources, DeliverTo(r) PROVE \A k \in Keys : KeyKept(k)
  BY <1>1, <1>3, DeliverPending DEF DeliverTo
<1>4. CASE Take
  BY <1>1, <1>4, TakePending DEF Take, infoVars
<1>5. ASSUME UNCHANGED pipeVars PROVE \A k \in Keys : KeyKept(k)
  BY <1>1, <1>5 DEF KeyKept, ReadIsFollowed, Pending, OnWay, pipeVars
<1>6. CASE (\E m \in AllMetas : FindInfo(m)) \/ Reply \/ UNCHANGED vars
  BY <1>5, <1>6 DEF FindInfo, Reply, vars, infoVars
<1> QED BY <1>2, <1>3, <1>4, <1>6 DEF Next, ObserveObject, DeliverTo, infoVars

LEMMA KnownInit == Init => NamesKnown
BY KeyKinds DEF Init, NamesKnown, MachinesKnown, KnownByLabel

LEMMA KnownNext == IInv /\ NamesKnown /\ [Next]_vars => NamesKnown'
<1> SUFFICES ASSUME IInv, NamesKnown, [Next]_vars PROVE NamesKnown'
  OBVIOUS
<1>1. Shape /\ MachinesKnown /\ KnownByLabel
  BY DEF IInv, NamesKnown
<1>2. ASSUME NEW e \in Event, Handle(e) PROVE NamesKnown'
  <2>1. MachinesKnown'
    BY <1>1, <1>2, HandleWrites
       DEF MachineShown, MachineRemoved, MachinesLeftAlone, MachinesKnown, Shape
  <2>2. ASSUME NEW v \in Vms
        PROVE  workloadMetaMap'[NameOf[v]] \in MetasOf(v) \cup Nat \cup {Absent}
    <3>1. /\ workloadMetaMap[NameOf[v]] \in MetasOf(v) \cup Nat \cup {Absent}
          /\ NameOf[v] \in Names
          /\ \A l \in Vms : NameOf[l] = NameOf[v] => l = v
          /\ workloadMetaMap \in [Names -> Metas \cup Nat \cup {Absent}]
      BY <1>1, KeyKinds DEF KnownByLabel, Shape
    <3>2. CASE MachineShown(e)
      <4>1. e.key = v => Extract(object) \in MetasOf(v) \cup Nat
        BY <1>1, <1>2, <3>2, HandleFinishes DEF MachineShown, Extract, MetasOf, Shape
      <4> HIDE DEF Extract
      <4> QED BY <3>1, <3>2, <4>1 DEF MachineShown
    <3>3. CASE MachineRemoved(e)
      BY <3>1, <3>3 DEF MachineRemoved
    <3>4. CASE MachinesLeftAlone
      BY <3>1, <3>4 DEF MachinesLeftAlone
    <3> QED BY <1>1, <1>2, <3>2, <3>3, <3>4, HandleWrites
  <2> QED BY <2>1, <2>2 DEF NamesKnown, KnownByLabel, MetasOf
<1>3. CASE UNCHANGED workloadMetaMap
  BY <1>1, <1>3 DEF NamesKnown, MachinesKnown, KnownByLabel, MetasOf
<1> QED BY <1>2, <1>3, StepKinds

LEMMA SurvivesNext ==
  ASSUME NamesAreTyped, IInv, NamesKnown, WorkerSurvives, [Next]_vars
  PROVE  WorkerSurvives'
<1>1. ASSUME NEW e \in Event, Handle(e) PROVE panicked' = panicked
  <2>1. CASE handleServiceDeletion(e)
    <3>1. e.key \in Services /\ NameOf[e.key] \in Names
      BY <2>1, KeyKinds DEF handleServiceDeletion
    <3>2. ~(KnownAs(NameOf[e.key]) /\ ServiceTypeOf[NameOf[e.key]] = NoType)
      BY <3>1 DEF KnownAs, NamesKnown, MachinesKnown, NamesAreTyped
    <3> QED BY <2>1, <3>2 DEF handleServiceDeletion, Done
  <2>2. CASE ~handleServiceDeletion(e)
    BY <1>1, <2>2 DEF Handle, handleVirtualMachineUpdate, handleServiceUpdate,
          handleDataVolumeUpdate, handleVirtualMachineDeletion,
          handleDataVolumeDeletion, Ignore, Done
  <2> QED BY <2>1, <2>2
<1> QED BY <1>1, StepKinds DEF WorkerSurvives

\* No order of events makes the worker panic, where a service that bears the
\* name of a machine has a type in its name: see WorkerSurvives.
THEOREM WorkerNeverPanics ==
  ASSUME NamesAreTyped
  PROVE  Spec => []WorkerSurvives
<1>1. Init => IInv /\ NamesKnown /\ WorkerSurvives
  BY IInvInit, KnownInit DEF Init, WorkerSurvives
<1>2. IInv /\ NamesKnown /\ WorkerSurvives /\ [Next]_vars
        => (IInv /\ NamesKnown /\ WorkerSurvives)'
  BY IInvNext, KnownNext, SurvivesNext
<1> QED BY <1>1, <1>2, PTL DEF Spec

----------------------------------------------------------------------------
(* The status of a workload.                                               *)

\* The info shows volume or service k as object o.
StatusShows(k, o, info) ==
  /\ k \in Volumes /\ o.userImage =>
       /\ info # Absent /\ info.progress = o.progress
       /\ info.isReady <=> o.phase = "Succeeded"
  /\ k \in Services /\ o.type = "ClusterIP" =>
       info # Absent /\ info.clusterIp = o.ip

\* StatusConverged, read off the infos.
LastStatusIsShown(k) ==
  ~Pending(k) /\ store[k] # Absent /\ store[k].meta \notin forgotten =>
    StatusShows(k, store[k], vmInfoList[store[k].meta])

StatusesShown == \A k \in Parts : Exclusive(k) => LastStatusIsShown(k)

\* What each update leaves of the status of a volume and of a service.
LEMMA StatusOfMachine ==
  ASSUME NEW info \in VirtualMachineInfo, NEW o \in VmObjects
  PROVE  /\ WithVirtualMachine(info, o).progress = info.progress
         /\ WithVirtualMachine(info, o).isReady = info.isReady
         /\ WithVirtualMachine(info, o).clusterIp = info.clusterIp
BY DEF WithVirtualMachine, VirtualMachineInfo

LEMMA StatusOfVolume ==
  ASSUME NEW info \in VirtualMachineInfo
  PROVE  /\ \A o \in DvObjects :
              /\ WithDataVolume(info, o).progress = o.progress
              /\ WithDataVolume(info, o).isReady = (o.phase = "Succeeded")
              /\ WithDataVolume(info, o).clusterIp = info.clusterIp
         /\ WithoutDataVolume(info).clusterIp = info.clusterIp
BY DEF WithDataVolume, WithoutDataVolume, VirtualMachineInfo

LEMMA StatusOfService ==
  ASSUME NEW info \in VirtualMachineInfo
  PROVE  /\ \A o \in SvcObjects :
              /\ WithService(info, o).progress = info.progress
              /\ WithService(info, o).isReady = info.isReady
              /\ o.type = "ClusterIP" => WithService(info, o).clusterIp = o.ip
         /\ WithoutClusterIP(info).progress = info.progress
         /\ WithoutClusterIP(info).isReady = info.isReady
BY DEF WithService, WithoutClusterIP, VirtualMachineInfo

\* A name by which the deletion of another volume or service is looked up is
\* not known as a workload of k.
LEMMA OtherLookup ==
  ASSUME NamesAreOwn, Shape, MachinesKnown, KnownByLabel,
         NEW k \in Parts, Exclusive(k),
         NEW l \in Keys \ {k}, ResourceOf[l] = ResourceOf[k]
  PROVE  workloadMetaMap[NameOf[l]] \notin MetasOf(k)
<1>1. /\ NameOf[l] \in Names /\ k \in Keys
      /\ MetasOf(k) \cap Nat = {} /\ Absent \notin MetasOf(k)
  BY KeyKinds, WatcherAssumption DEF Parts, Exclusive
<1>2. CASE workloadMetaMap[NameOf[l]] = Absent
  BY <1>1, <1>2
<1>3. CASE workloadMetaMap[NameOf[l]] # Absent
  <2>1. PICK v \in Vms : NameOf[v] = NameOf[l]
    BY <1>1, <1>3 DEF MachinesKnown
  <2>2. workloadMetaMap[NameOf[l]] \in MetasOf(v) \cup Nat
    BY <1>3, <2>1 DEF KnownByLabel
  <2>3. MetasOf(v) \cap MetasOf(k) = {}
    BY <2>1 DEF NamesAreOwn
  <2> QED BY <1>1, <2>2, <2>3
<1> QED BY <1>2, <1>3

\* What an info shows of key k, a volume or a service.
SameStatus(k, old, new) ==
  /\ new # Absent
  /\ k \in Volumes => new.progress = old.progress /\ new.isReady = old.isReady
  /\ k \in Services => new.clusterIp = old.clusterIp

\* A handler of another key leaves what is shown of the volume or service k
\* of a workload, unless it deletes the workload's info.
LEMMA OthersKeepStatus ==
  ASSUME NamesAreOwn, Shape, MachinesKnown, KnownByLabel,
         NEW e \in Event, Handle(e),
         NEW k \in Parts, Exclusive(k), e.key # k,
         NEW m \in MetasOf(k), m \notin forgotten', vmInfoList[m] # Absent
  PROVE  SameStatus(k, vmInfoList[m], vmInfoList'[m])
<1> DEFINE x == Extract(object)
           l == workloadMetaMap[NameOf[e.key]]
           old == vmInfoList[m]
<1>1. /\ k \in Keys /\ e.key \in Keys /\ object \in ObjectsOf[e.key] \cup {Absent}
      /\ m \in AllMetas /\ old \in VirtualMachineInfo /\ old # Absent
      /\ referVirtualMachineInfo(m) = old
      /\ Absent \notin VirtualMachineInfo
  BY HandleFinishes, ExclusiveFacts, KeyKinds, WatcherAssumption
     DEF Parts, Shape, referVirtualMachineInfo
<1>2. ResourceOf[e.key] = ResourceOf[k] =>
         /\ object # Absent /\ IsShown(e.key, object) => x # m
         /\ l # m
  BY <1>1, ExclusiveFacts, OtherLookup
<1>3. SameStatus(k, old, old)
  BY <1>1 DEF SameStatus
<1>4. CASE handleVirtualMachineUpdate(e)
  <2> DEFINE new == WithVirtualMachine(old, object)
  <2>1. object \in VmObjects
    BY <1>1, <1>4, WatcherAssumption, KeyKinds DEF handleVirtualMachineUpdate, Present
  <2>2. vmInfoList'[m] = IF x = m THEN new ELSE old
    BY <1>1, <1>4 DEF handleVirtualMachineUpdate, Shape
  <2>3. new # Absent
    BY <1>1, <2>1, InfoParts
  <2>4. SameStatus(k, old, new)
    BY <1>1, <2>1, <2>3, StatusOfMachine DEF SameStatus
  <2> HIDE DEF x, new
  <2> QED BY <1>3, <2>2, <2>4
<1>5. CASE handleServiceUpdate(e)
  <2> DEFINE new == WithService(old, object)
  <2>1. object \in SvcObjects /\ e.key \in Services /\ object # Absent
    BY <1>1, <1>5, WatcherAssumption, KeyKinds DEF handleServiceUpdate, Present
  <2>2. vmInfoList'[m] = IF x = m THEN new ELSE old
    BY <1>1, <1>5 DEF handleServiceUpdate, Shape
  <2>3. new # Absent
    BY <1>1, <2>1, InfoParts
  <2>4. k \notin Services => SameStatus(k, old, new)
    BY <1>1, <2>1, <2>3, StatusOfService DEF SameStatus
  <2>5. k \in Services => x # m \/ new = old
    BY <1>2, <2>1, KeyKinds DEF Services, IsShown, WithService
  <2> HIDE DEF x, new
  <2> QED BY <1>3, <2>2, <2>4, <2>5
<1>6. CASE handleDataVolumeUpdate(e)
  <2> DEFINE new == WithDataVolume(old, object)
  <2>1. object \in DvObjects /\ e.key \in Volumes /\ object # Absent
    BY <1>1, <1>6, WatcherAssumption, KeyKinds DEF handleDataVolumeUpdate, Present
  <2>2. vmInfoList'[m] = IF x = m THEN new ELSE old
    BY <1>1, <1>6 DEF handleDataVolumeUpdate, Shape
  <2>3. new # Absent
    BY <1>1, <2>1, InfoParts
  <2>4. k \notin Volumes => SameStatus(k, old, new)
    BY <1>1, <2>1, <2>3, StatusOfVolume DEF SameStatus
  <2>5. k \in Volumes => x # m
    BY <1>2, <1>6, <2>1, KeyKinds DEF handleDataVolumeUpdate, Volumes, IsShown
  <2> HIDE DEF x, new
  <2> QED BY <1>3, <2>2, <2>4, <2>5
<1>7. CASE handleVirtualMachineDeletion(e)
  <2>1. \/ vmInfoList' = vmInfoList
        \/ vmInfoList' = [vmInfoList EXCEPT ![l] = Absent] /\ l # m
    BY <1>7 DEF handleVirtualMachineDeletion, deleteVirtualMachineInfo
  <2>2. vmInfoList'[m] = old
    BY <2>1, <1>1 DEF Shape
  <2> QED BY <1>3, <2>2
<1>8. CASE handleServiceDeletion(e)
  <2> DEFINE new == WithoutClusterIP(old)
  <2>1. vmInfoList' = vmInfoList \/ vmInfoList' = [vmInfoList EXCEPT ![l] = WithoutClusterIP(@)]
    BY <1>8 DEF handleServiceDeletion
  <2>2. vmInfoList'[m] = old \/ (l = m /\ vmInfoList'[m] = new)
    BY <2>1, <1>1 DEF Shape
  <2>3. k \in Services => l # m
    BY <1>2, <1>8 DEF handleServiceDeletion, Services
  <2>4. new # Absent
    BY <1>1, InfoParts
  <2>5. k \notin Services => SameStatus(k, old, new)
    BY <1>1, <2>4, StatusOfService DEF SameStatus
  <2> HIDE DEF new
  <2> QED BY <1>3, <2>2, <2>3, <2>5
<1>9. CASE handleDataVolumeDeletion(e)
  <2> DEFINE new == WithoutDataVolume(old)
  <2>1. vmInfoList' = vmInfoList \/ vmInfoList' = [vmInfoList EXCEPT ![l] = WithoutDataVolume(@)]
    BY <1>9 DEF handleDataVolumeDeletion
  <2>2. vmInfoList'[m] = old \/ (l = m /\ vmInfoList'[m] = new)
    BY <2>1, <1>1 DEF Shape
  <2>3. k \in Volumes => l # m
    BY <1>2, <1>9 DEF handleDataVolumeDeletion, Volumes
  <2>4. new # Absent
    BY <1>1, InfoParts
  <2>5. k \notin Volumes => SameStatus(k, old, new)
    BY <1>1, <2>4, StatusOfVolume DEF SameStatus
  <2> HIDE DEF new
  <2> QED BY <1>3, <2>2, <2>3, <2>5
<1>10. CASE Ignore(e)
  BY <1>3, <1>10 DEF Ignore
<1> QED BY <1>4, <1>5, <1>6, <1>7, <1>8, <1>9, <1>10 DEF Handle

\* The handler of k itself shows what it has read.
LEMMA OwnShowsStatus ==
  ASSUME Shape, NEW k \in Parts, Exclusive(k), NEW e \in Event, e.key = k, Handle(e),
         object # Absent
  PROVE  StatusShows(k, object, vmInfoList'[object.meta])
<1> DEFINE m == object.meta
           old == referVirtualMachineInfo(m)
<1>1. /\ k \in Keys /\ object \in ObjectsOf[k] /\ m \in AllMetas
      /\ Extract(object) = m /\ old \in VirtualMachineInfo
      /\ Absent \notin VirtualMachineInfo
  BY HandleFinishes, ExclusiveFacts, KeyKinds, Referred, WatcherAssumption DEF Parts
<1>2. CASE k \in Volumes /\ object.userImage
  <2> DEFINE new == WithDataVolume(old, object)
  <2>1. object \in DvObjects /\ k \notin Services
    BY <1>1, <1>2, WatcherAssumption, KeyKinds
  <2>2. handleDataVolumeUpdate(e)
    BY <1>1, <1>2, KeyKinds
       DEF Handle, handleVirtualMachineUpdate, handleServiceUpdate,
           handleVirtualMachineDeletion, handleServiceDeletion,
           handleDataVolumeDeletion, Ignore, Gone, Volumes
  <2>3. vmInfoList'[m] = new
    BY <1>1, <2>2 DEF handleDataVolumeUpdate, Shape
  <2>4. new # Absent
    BY <1>1, <2>1, InfoParts
  <2>5. StatusShows(k, object, new)
    BY <1>1, <2>1, <2>4, StatusOfVolume DEF StatusShows
  <2> QED BY <2>3, <2>5
<1>3. CASE k \in Services /\ object.type = "ClusterIP"
  <2> DEFINE new == WithService(old, object)
  <2>1. object \in SvcObjects /\ k \notin Volumes
    BY <1>1, <1>3, WatcherAssumption, KeyKinds
  <2>2. handleServiceUpdate(e)
    BY <1>1, <1>3, KeyKinds
       DEF Handle, handleVirtualMachineUpdate, handleDataVolumeUpdate,
           handleVirtualMachineDeletion, handleServiceDeletion,
           handleDataVolumeDeletion, Ignore, Gone, Services
  <2>3. vmInfoList'[m] = new
    BY <1>1, <2>2 DEF handleServiceUpdate, Shape
  <2>4. new # Absent
    BY <1>1, <2>1, InfoParts
  <2>5. StatusShows(k, object, new)
    BY <1>1, <1>3, <2>1, <2>4, StatusOfService DEF StatusShows
  <2> QED BY <2>3, <2>5
<1> QED BY <1>2, <1>3 DEF StatusShows

LEMMA StatusInit == Init => StatusesShown
BY KeyKinds DEF Init, PipeInit, StatusesShown, LastStatusIsShown, Parts

LEMMA StatusNext ==
  ASSUME NamesAreOwn, IInv, NamesKnown, StatusesShown, [Next]_vars
  PROVE  StatusesShown'
<1> SUFFICES ASSUME NEW k \in Parts, Exclusive(k) PROVE LastStatusIsShown(k)'
  BY DEF StatusesShown, Exclusive, MetasOf
<1>1. /\ Shape /\ MachinesKnown /\ KnownByLabel /\ LastStatusIsShown(k)
      /\ k \in Keys /\ ReadIsFollowed(k)
  BY KeyKinds DEF IInv, NamesKnown, StatusesShown, Parts
<1>2. ASSUME NEW e \in Event, Handle(e) PROVE LastStatusIsShown(k)'
  <2> SUFFICES ASSUME ~Pending(k)', store'[k] # Absent, store'[k].meta \notin forgotten'
               PROVE  StatusShows(k, store[k], vmInfoList[store[k].meta])'
    BY DEF LastStatusIsShown
  <2>1. store' = store
    BY <1>1, <1>2, HandlePending
  <2>2. CASE e.key = k
    <3>1. object = store[k]
      BY <1>1, <1>2, <2>2, HandlePending
    <3>2. StatusShows(k, object, vmInfoList'[object.meta])
      BY <1>1, <1>2, <2>1, <2>2, <3>1, OwnShowsStatus
    <3> QED BY <2>1, <3>1, <3>2 DEF StatusShows
  <2>3. CASE e.key # k
    <3> DEFINE m == store[k].meta
    <3>1. ~Pending(k) /\ forgotten \subseteq forgotten'
      BY <1>1, <1>2, <2>3, HandlePending
         DEF Handle, handleVirtualMachineUpdate, handleServiceUpdate,
             handleDataVolumeUpdate, handleVirtualMachineDeletion,
             handleServiceDeletion, handleDataVolumeDeletion, Ignore
    <3>2. m \notin forgotten' /\ m \in MetasOf(k)
      BY <1>1, <2>1, ExclusiveFacts DEF Shape
    <3>3. StatusShows(k, store[k], vmInfoList[m])
      BY <1>1, <2>1, <3>1, <3>2 DEF LastStatusIsShown
    <3>4. vmInfoList[m] # Absent => SameStatus(k, vmInfoList[m], vmInfoList'[m])
      BY <1>1, <1>2, <2>3, <3>2, OthersKeepStatus
    <3>5. StatusShows(k, store[k], vmInfoList'[m])
      BY <3>3, <3>4 DEF StatusShows, SameStatus
    <3> QED BY <2>1, <3>5 DEF StatusShows
  <2> QED BY <2>2, <2>3
<1>3. CASE UNCHANGED << vmInfoList, forgotten >> /\ KeyKept(k)
  BY <1>1, <1>3 DEF KeyKept, LastStatusIsShown, StatusShows
<1> QED BY <1>1, <1>2, <1>3, StepKinds

\* The list that a caller is given shows what the infos hold.
LEMMA StatusListed == IInv /\ StatusesShown => StatusConverged
<1> SUFFICES ASSUME IInv, StatusesShown, NEW k \in Parts, Exclusive(k), ~Pending(k),
                    store[k] # Absent, store[k].meta \notin forgotten
             PROVE  LET m    == store[k].meta
                        list == ListUserVirtualMachineStats(OwnerOf(m))
                    IN  /\ k \in Volumes /\ store[k].userImage =>
                             /\ m \in DOMAIN list
                             /\ list[m].progress = store[k].progress
                             /\ list[m].isReady <=> store[k].phase = "Succeeded"
                        /\ k \in Services /\ store[k].type = "ClusterIP" =>
                             m \in DOMAIN list /\ list[m].clusterIp = store[k].ip
                        /\ m \in DOMAIN list => list[m] = ListAllVirtualMachineStats[m]
  BY DEF StatusConverged, Parts
<1> DEFINE m == store[k].meta
           list == ListUserVirtualMachineStats(OwnerOf(m))
<1>1. m \in AllMetas /\ StatusShows(k, store[k], vmInfoList[m])
  BY ExclusiveFacts, KeyKinds DEF IInv, Shape, StatusesShown, LastStatusIsShown, Parts
<1>2. /\ m \in DOMAIN list <=> vmInfoList[m] # Absent
      /\ m \in DOMAIN list => list[m] = StatusOf(vmInfoList[m])
  BY <1>1 DEF ListUserVirtualMachineStats, GetUserVirtualMachineInfoList
<1>3. vmInfoList[m] # Absent => ListAllVirtualMachineStats[m] = StatusOf(vmInfoList[m])
  BY <1>1 DEF ListAllVirtualMachineStats
<1>4. LET status == StatusOf(vmInfoList[m])
      IN  /\ status.progress = vmInfoList[m].progress
          /\ status.isReady = vmInfoList[m].isReady
          /\ status.clusterIp = vmInfoList[m].clusterIp
  BY DEF StatusOf
<1>5. k \in Volumes /\ store[k].userImage =>
        /\ m \in DOMAIN list
        /\ list[m].progress = store[k].progress
        /\ list[m].isReady <=> store[k].phase = "Succeeded"
  BY <1>1, <1>2, <1>4 DEF StatusShows
<1>6. k \in Services /\ store[k].type = "ClusterIP" =>
        m \in DOMAIN list /\ list[m].clusterIp = store[k].ip
  BY <1>1, <1>2, <1>4 DEF StatusShows
<1>7. m \in DOMAIN list => list[m] = ListAllVirtualMachineStats[m]
  BY <1>2, <1>3
<1> QED BY <1>5, <1>6, <1>7

\* The status that is listed for a workload comes to show its volume and its
\* service as they are, where they bear no foreign machine's name: see
\* StatusConverged.
THEOREM StatusesConverge ==
  ASSUME NamesAreOwn
  PROVE  Spec => []StatusConverged
<1>1. Init => IInv /\ NamesKnown /\ StatusesShown
  BY IInvInit, KnownInit, StatusInit
<1>2. IInv /\ NamesKnown /\ StatusesShown /\ [Next]_vars
        => (IInv /\ NamesKnown /\ StatusesShown)'
  BY IInvNext, KnownNext, StatusNext
<1>3. IInv /\ NamesKnown /\ StatusesShown => StatusConverged
  BY StatusListed
<1> QED BY <1>1, <1>2, <1>3, PTL DEF Spec

----------------------------------------------------------------------------
(* The uuids that are made up.                                             *)

\* Shape, with the uuids numbered by the changes that they go back to: a uuid
\* is made up for an event that is handled for good, and by each only once.
Numbered ==
  /\ Countable
  /\ temps + InFlight <= changes
  /\ workloadMetaMap \in [Names -> AllMetas \cup {Absent}]
  /\ \A i \in (temps + 1)..MaxChanges : vmInfoList[i] = Absent
  /\ call \in AllMetas \cup {NoCall, Torn}
  /\ panicked \in {"no", "worker", "call"}
  /\ forgotten \subseteq AllMetas
  /\ mixed \subseteq Names

TypesIInv == Shape /\ Orderly /\ Numbered

LEMMA CountIsBounded ==
  ASSUME Shape, Numbered
  PROVE  /\ temps \in Nat /\ InFlight \in Nat /\ changes \in Nat
         /\ temps + InFlight <= changes /\ changes <= MaxChanges
<1>1. Countable /\ temps + InFlight <= changes
  BY DEF Numbered
<1>2. temps \in Nat /\ changes \in 0..MaxChanges
  BY DEF Shape, PipeTypeOK
<1> QED BY <1>1, <1>2, InFlightIsNat, PipelineAssumption

\* The uuid of an object that is handled: one of a label, or the next one.
LEMMA ExtractIsMeta ==
  ASSUME Shape, Numbered, NEW e \in Event, e = processing,
         NEW o, o.meta \in Labels
  PROVE  /\ Extract(o) \in AllMetas
         /\ Extract(o) \in Metas \/ Extract(o) = temps + 1
         /\ o.meta = Unlabelled => Extract(o) = temps + 1
         /\ temps + 1 <= MaxChanges
<1>1. temps + 1 <= MaxChanges /\ temps \in Nat
  <2>1. InFlight >= 1
    BY InFlightIsNat, PipelineAssumption DEF Numbered, InFlight
  <2> QED BY <2>1, CountIsBounded, PipelineAssumption
<1> QED BY <1>1, PipelineAssumption DEF Extract, AllMetas, Labels

\* What a handler writes stays numbered.
LEMMA HandleNumbered ==
  ASSUME Shape, Orderly, Numbered, NEW e \in Event, Handle(e)
  PROVE  Orderly' /\ Numbered'
<1>1. /\ e = processing /\ object # Unread /\ e.key \in Keys
      /\ object \in ObjectsOf[e.key] \cup {Absent}
      /\ NameOf[e.key] \in Names
  BY HandleFinishes, KeyKinds
<1>2. object # Absent /\ e.key \in Vms \cup Volumes \cup Services
        => object.meta \in Labels
  BY <1>1, WatcherAssumption DEF VmObjects, DvObjects, SvcObjects
<1>3. ASSUME UNCHANGED << pipeVars, temps >>
      PROVE  Orderly' /\ Countable' /\ temps' + InFlight' <= changes'
  BY <1>3 DEF pipeVars, Orderly, QueueIsSet, OwnInbox, Numbered, Countable,
              InFlight, Undelivered
<1>4. ASSUME Finish(e, FALSE), temps' \in {temps, temps + 1}
      PROVE  Orderly' /\ Countable' /\ temps' + InFlight' <= changes'
  <2>1. Orderly'
    BY <1>1, <1>4, FinishPlaces DEF Shape
  <2>2. /\ Countable' /\ InFlight' = InFlight - 1 /\ changes' = changes
    BY <1>1, <1>4, CountFinish DEF Shape, Numbered, Finish
  <2>3. temps' + InFlight' <= changes'
    BY <1>4, <2>2, CountIsBounded
  <2> QED BY <2>1, <2>2, <2>3
<1>5. /\ Orderly' /\ Countable' /\ temps' + InFlight' <= changes'
      /\ temps' \in Nat /\ temps' >= temps
  <2>1. /\ Finish(e, FALSE) \/ UNCHANGED << pipeVars, temps >>
        /\ temps' \in {temps, temps + 1}
    BY DEF Handle, handleVirtualMachineUpdate, handleServiceUpdate,
           handleDataVolumeUpdate, handleVirtualMachineDeletion,
           handleServiceDeletion, handleDataVolumeDeletion, Ignore,
           Done, Panic, CountTemp
  <2>2. Orderly' /\ Countable' /\ temps' + InFlight' <= changes'
    BY <2>1, <1>3, <1>4
  <2> QED BY <2>1, <2>2, CountIsBounded
<1>6. /\ workloadMetaMap' \in [Names -> AllMetas \cup {Absent}]
      /\ forgotten' \subseteq AllMetas
      /\ mixed' \subseteq Names
      /\ call' \in AllMetas \cup {NoCall, Torn}
      /\ panicked' \in {"no", "worker", "call"}
  <2>1. CASE handleVirtualMachineUpdate(e)
    <3>1. Extract(object) \in AllMetas
      BY <1>1, <1>2, <2>1, ExtractIsMeta DEF handleVirtualMachineUpdate, Present
    <3> HIDE DEF Extract
    <3> QED BY <1>1, <2>1, <3>1 DEF handleVirtualMachineUpdate, Numbered, Done
  <2>2. CASE handleVirtualMachineDeletion(e)
    BY <1>1, <2>2 DEF handleVirtualMachineDeletion, Numbered, TearInfo, Done
  <2>3. CASE handleServiceDeletion(e)
    BY <2>3 DEF handleServiceDeletion, Numbered, Done, Panic
  <2>4. CASE ~handleVirtualMachineUpdate(e) /\ ~handleVirtualMachineDeletion(e)
             /\ ~handleServiceDeletion(e)
    BY <2>4 DEF Handle, handleServiceUpdate, handleDataVolumeUpdate,
                handleDataVolumeDeletion, Ignore, Numbered, Done
  <2> QED BY <2>1, <2>2, <2>3, <2>4
<1>7. ASSUME NEW i, i \in (temps' + 1)..MaxChanges PROVE vmInfoList'[i] = Absent
  <2>1. /\ i \in (temps + 1)..MaxChanges /\ i \in 1..MaxChanges
        /\ i \in Nat /\ i # temps'
    <3>1. temps \in Nat /\ temps' \in Nat /\ temps' >= temps /\ MaxChanges \in Nat
      BY <1>5, CountIsBounded, PipelineAssumption
    <3>2. PICK t : t = temps'
      OBVIOUS
    <3>3. t \in Nat /\ t >= temps /\ i \in (t + 1)..MaxChanges
      BY <3>1, <3>2, <1>7
    <3>4. i \in Int /\ t + 1 <= i /\ i <= MaxChanges
      BY <3>1, <3>3
    <3>5. i \in (temps + 1)..MaxChanges /\ i \in 1..MaxChanges /\ i \in Nat /\ i # t
      BY <3>1, <3>3, <3>4
    <3> QED BY <3>2, <3>5
  <2>10. i \in AllMetas /\ i \notin Metas /\ vmInfoList[i] = Absent
    BY <2>1, WatcherAssumption DEF Numbered, AllMetas
  <2>2. ASSUME NEW m, NEW info, vmInfoList' = [vmInfoList EXCEPT ![m] = info],
               m # i \/ info = Absent
        PROVE  vmInfoList'[i] = Absent
    BY <2>1, <2>10, <2>2 DEF Shape
  <2>3. ASSUME object # Absent, e.key \in Vms \cup Volumes \cup Services,
               CountTemp(object)
        PROVE  Extract(object) # i
    <3>1. CASE object.meta = Unlabelled
      BY <2>1, <2>3, <3>1 DEF CountTemp, Extract
    <3>2. CASE object.meta # Unlabelled
      BY <1>2, <2>10, <2>3, <3>2 DEF Extract, Labels
    <3> QED BY <3>1, <3>2
  <2> HIDE DEF Extract
  <2>4. CASE handleVirtualMachineUpdate(e)
    BY <2>2, <2>3, <2>4 DEF handleVirtualMachineUpdate, Present
  <2>5. CASE handleServiceUpdate(e)
    BY <2>2, <2>3, <2>5 DEF handleServiceUpdate, Present
  <2>6. CASE handleDataVolumeUpdate(e)
    BY <2>2, <2>3, <2>6 DEF handleDataVolumeUpdate, Present
  <2>7. CASE handleVirtualMachineDeletion(e)
    BY <2>1, <2>10, <2>2, <2>7 DEF handleVirtualMachineDeletion, deleteVirtualMachineInfo
  <2>8. CASE handleServiceDeletion(e) \/ handleDataVolumeDeletion(e)
    BY <2>1, <2>10, <2>2, <2>8
       DEF handleServiceDeletion, handleDataVolumeDeletion, KnownAs
  <2>9. CASE Ignore(e)
    BY <2>10, <2>9 DEF Ignore
  <2> QED BY <2>4, <2>5, <2>6, <2>7, <2>8, <2>9 DEF Handle
<1> QED BY <1>5, <1>6, <1>7 DEF Numbered

LEMMA TypesIInvInit == Init => TypesIInv
<1> SUFFICES ASSUME Init PROVE TypesIInv
  OBVIOUS
<1>1. Shape
  BY IInvInit DEF IInv
<1>2. Orderly /\ Countable /\ InFlight = 0
  BY PlacesInit, CountInit DEF Init
<1>3. \A i \in 1..MaxChanges : i \in AllMetas
  BY DEF AllMetas
<1> QED BY <1>1, <1>2, <1>3 DEF Init, PipeInit, TypesIInv, Numbered

LEMMA TypesIInvNext == TypesIInv /\ [Next]_vars => TypesIInv'
<1> SUFFICES ASSUME TypesIInv, [Next]_vars PROVE TypesIInv'
  OBVIOUS
<1>1. Shape /\ PipeTypeOK /\ Orderly /\ Numbered /\ Countable
  BY DEF TypesIInv, Shape, Numbered
<1>2. Shape'
  BY <1>1, ShapeNext
<1>3. ASSUME UNCHANGED infoVars, Countable', temps + InFlight' <= changes'
      PROVE  Numbered'
  BY <1>1, <1>3 DEF Numbered, infoVars
<1>4. ASSUME NEW k \in Keys, ObserveObject(k) PROVE Orderly' /\ Numbered'
  <2>1. PICK new \in ObjectsOf[k] \cup {Absent} : Observe(k, new)
    BY <1>4 DEF ObserveObject
  <2>2. Orderly'
    BY <1>1, <2>1, ObservePlaces
  <2>3. Countable' /\ InFlight' = InFlight + 1 /\ changes' = changes + 1
    BY <1>1, <2>1, CountObserve DEF Observe
  <2>4. temps + InFlight' <= changes'
    BY <1>1, <2>3, CountIsBounded
  <2> QED BY <1>3, <1>4, <2>2, <2>3, <2>4 DEF ObserveObject
<1>5. ASSUME NEW r \in Resources, DeliverTo(r) PROVE Orderly' /\ Numbered'
  <2>1. Orderly'
    BY <1>1, <1>5, MovePlaces DEF DeliverTo
  <2>2. Countable' /\ InFlight' <= InFlight /\ changes' = changes
    BY <1>1, <1>5, CountDeliver DEF DeliverTo, Deliver
  <2>3. temps + InFlight' <= changes'
    BY <1>1, <2>2, CountIsBounded, InFlightIsNat
  <2> QED BY <1>3, <1>5, <2>1, <2>2, <2>3 DEF DeliverTo
<1>6. CASE Take
  <2>1. Orderly'
    BY <1>1, <1>6, MovePlaces DEF Take
  <2>2. Countable' /\ InFlight' <= InFlight /\ changes' = changes
    BY <1>1, <1>6, CountTake DEF Take, Get, Read
  <2>3. temps + InFlight' <= changes'
    BY <1>1, <2>2, CountIsBounded, InFlightIsNat
  <2> QED BY <1>2, <1>3, <1>6, <2>1, <2>2, <2>3 DEF Take, TypesIInv
<1>7. ASSUME NEW e \in Event, Handle(e) PROVE Orderly' /\ Numbered'
  BY <1>1, <1>7, HandleNumbered
<1>8. CASE (\E m \in AllMetas : FindInfo(m)) \/ Reply \/ UNCHANGED vars
  <2>1. /\ UNCHANGED << pipeVars, workloadMetaMap, vmInfoList, temps, forgotten, mixed >>
        /\ call' \in AllMetas \cup {NoCall, Torn}
        /\ panicked' \in {"no", "worker", "call"}
    BY <1>1, <1>8 DEF FindInfo, Reply, vars, infoVars, Numbered
  <2>2. Orderly'
    BY <1>1, <2>1 DEF pipeVars, Orderly, QueueIsSet, OwnInbox
  <2>3. Countable' /\ InFlight' = InFlight
    BY <1>1, <2>1 DEF pipeVars, Countable, InFlight, Undelivered
  <2>4. Numbered'
    BY <1>1, <2>1, <2>3 DEF Numbered, pipeVars
  <2> QED BY <1>2, <2>2, <2>4 DEF TypesIInv
<1> QED BY <1>2, <1>4, <1>5, <1>6, <1>7, <1>8 DEF Next, TypesIInv

\* The Watcher's state keeps its shape, and no uuid is used before it was made
\* up, nor more of them than the informers saw changes: see TypeOK.
THEOREM WatcherTypes == Spec => []TypeOK
<1>1. TypesIInv => TypeOK
  <2> SUFFICES ASSUME TypesIInv PROVE TypeOK
    OBVIOUS
  <2>1. temps \in 0..MaxChanges
    BY CountIsBounded, PipelineAssumption DEF TypesIInv
  <2> QED BY <2>1 DEF TypesIInv, Shape, Numbered, TypeOK
<1> QED BY <1>1, TypesIInvInit, TypesIInvNext, PTL DEF Spec

----------------------------------------------------------------------------
(* Manager and Watcher together.                                           *)

ManagerProofs == INSTANCE WorkloadManagerProofs

Vm(w) == KeyOf(w, "vm")
Svc(w) == KeyOf(w, "svc")

\* The machine was not created yet.
NotYet(w) == creating[w] \in {"new", "building", "built", "service"}
HasMachine(w) == machines[w] # Absent \/ NotYet(w)

\* No event of key k is anywhere in the pipeline.
Quiet(k) == \A e \in Event : e.key = k =>
              /\ \A r \in Resources : ~In(inbox[r], e)
              /\ ~In(queue, e) /\ e \notin dirty /\ e # processing

\* The worker holds no event for which it has read that k is gone.
NotReadAsGone(k) ==
  processing # Nothing /\ object # Unread /\ processing.key = k => object # Absent

\* Of a machine that is there, or still to come, there are no events before
\* the informer has seen it, as it does if it lists where machines are created.
SameNamespace == Namespace = TargetNamespace
MachineIsFresh(w) ==
  /\ NotYet(w) \/ ~SameNamespace => store[Vm(w)] = Absent
  /\ HasMachine(w) => NotReadAsGone(Vm(w)) /\ (store[Vm(w)] = Absent => Quiet(Vm(w)))

\* The info shows the service that the informer has seen, until the deletion
\* of the machine takes it away.
ServiceIsShown(w) ==
  HasMachine(w) /\ store[Svc(w)] # Absent /\ ~Pending(Svc(w)) =>
    vmInfoList[w] # Absent /\ vmInfoList[w].svc # Absent

\* Who was given the names could be given them again, and nobody else
\* deletes.
NamesStay(w) ==
  /\ deleting[w] # "no" => w \in named
  /\ w \in named /\ restarts = 0 /\ HasMachine(w) => Nameable(w)

Following == \A w \in Requests : MachineIsFresh(w) /\ ServiceIsShown(w) /\ NamesStay(w)

CloudIInv ==
  /\ IInv /\ mixed = {}
  /\ ManagerProofs!IInv
  /\ restarts \in Nat
  /\ Following

----------------------------------------------------------------------------
(* Keys, and the manager's steps.                                          *)

LEMMA CloudKeys ==
  ASSUME NEW w \in Requests
  PROVE  /\ Vm(w) \in Vms /\ Vm(w) \in Keys
         /\ Svc(w) \in Services /\ Svc(w) \in Keys /\ Svc(w) # Vm(w)
         /\ {"vm", "svc"} \subseteq Resources
         /\ MetasOf(Vm(w)) = {w} /\ MetasOf(Svc(w)) = {w}
         /\ w \in AllMetas /\ w # Absent
<1>1. /\ Vm(w) \in Keys /\ Svc(w) \in Keys /\ Svc(w) # Vm(w)
      /\ Vm(w)[1] = w /\ Svc(w)[1] = w
      /\ Vm(w)[2] = "vm" /\ Svc(w)[2] = "svc"
  BY CloudAssumption DEF Vm, Svc, KeyOf
<1>2. ResourceOf[Vm(w)] = "vm" /\ ResourceOf[Svc(w)] = "svc"
  BY <1>1, CloudAssumption
<1>3. /\ ObjectsOf[Vm(w)] = {[meta |-> w, created |-> TRUE]}
      /\ ObjectsOf[Svc(w)] = {[meta |-> w, type |-> "ClusterIP", ip |-> Address]}
  BY <1>1, CloudAssumption DEF WorkloadObject
<1>4. MetasOf(Vm(w)) = {w} /\ MetasOf(Svc(w)) = {w}
  BY <1>3 DEF MetasOf
<1>5. w \in AllMetas /\ w # Absent
  BY CloudAssumption, WatcherAssumption DEF AllMetas
<1> QED BY <1>1, <1>2, <1>4, <1>5 DEF Vms, Services, Resources

\* Every key's objects are of one workload, and of no other key's.
LEMMA KeysAreExclusive == \A k \in Keys : Exclusive(k)
<1> SUFFICES ASSUME NEW k \in Keys PROVE Exclusive(k)
  OBVIOUS
<1>1. \A l \in Keys : \A o \in ObjectsOf[l] : o.meta = l[1] /\ l[1] \in Metas
  BY CloudAssumption DEF WorkloadObject
<1>2. \A l \in Keys : ResourceOf[l] = ResourceOf[k] /\ l[1] = k[1] => l = k
  BY CloudAssumption
<1> QED BY <1>1, <1>2 DEF Exclusive, MetasOf

LEMMA ManagerAssumed ==
  /\ GpuOf \in [Requests -> Gpus \cup {NoGpu}]
  /\ HasImage \in [Requests -> BOOLEAN]
  /\ NoGpu \notin Gpus
  /\ NoRequest \notin Requests
  /\ Absent \notin [gpu : Gpus \cup {NoGpu}, owner : Requests \cup {NoRequest}]
BY CloudAssumption

\* The manager of Cloud is the one of the proofs.
LEMMA SameManager ==
  /\ Manager!Init <=> ManagerProofs!Init
  /\ Manager!Next <=> ManagerProofs!Next
<1>1. Manager!Init <=> ManagerProofs!Init
  BY DEF Manager!Init, ManagerProofs!Init, Manager!Preset, ManagerProofs!Preset
<1>2. Manager!Next <=> ManagerProofs!Next
  BY DEF Manager!Next, ManagerProofs!Next, Manager!BeginBuild, ManagerProofs!BeginBuild,
     Manager!FinishBuild, ManagerProofs!FinishBuild, Manager!CreateService,
     ManagerProofs!CreateService, Manager!CreateMachine, ManagerProofs!CreateMachine,
     Manager!RollBack, ManagerProofs!RollBack, Manager!DeleteService,
     ManagerProofs!DeleteService, Manager!DeleteMachine, ManagerProofs!DeleteMachine,
     Manager!Crash, ManagerProofs!Crash, Manager!Building, ManagerProofs!Building,
     Manager!Called, ManagerProofs!Called, Manager!Outcome, ManagerProofs!Outcome,
     Manager!UnderWay, ManagerProofs!UnderWay, Manager!Preset, ManagerProofs!Preset
<1> QED BY <1>1, <1>2

LEMMA ManagerKeeps ==
  ManagerProofs!IInv /\ [Manager!Next]_managerVars => ManagerProofs!IInv'
BY SameManager, ManagerAssumed, ManagerProofs!StepKeeps DEF managerVars, ManagerProofs!vars

ManagerStep == (\E w \in Requests : Create(w) \/ Delete(w)) \/ ByManager(Manager!Crash)

\* A machine that was not created yet is the only one that may come to be,
\* and a deletion begins with the names.
LEMMA ManagerLeaves ==
  ASSUME ManagerProofs!Types, ManagerStep, NEW v \in Requests
  PROVE  /\ Manager!Next
         /\ UNCHANGED << vars, named, restarts >>
         /\ HasMachine(v)' => HasMachine(v)
         /\ NotYet(v)' => NotYet(v)
         /\ deleting'[v] # "no" => deleting[v] # "no" \/ v \in named
<1>1. /\ creating \in [Requests -> {"new", "building", "built", "service",
                                    "rollback", "ok", "failed", "lost"}]
      /\ DOMAIN deleting = Requests /\ DOMAIN machines = Requests
  BY DEF ManagerProofs!Types, ManagerProofs!Places
<1>2. Manager!Next /\ UNCHANGED << vars, named, restarts >>
  BY DEF ManagerStep, Create, Delete, ByManager, Manager!Next
<1>3. ASSUME NEW w \in Requests, Create(w)
      PROVE  /\ HasMachine(v)' => HasMachine(v)
             /\ NotYet(v)' => NotYet(v)
             /\ deleting' = deleting
  BY <1>1, <1>3 DEF Create, ByManager, Manager!BeginBuild, Manager!FinishBuild,
     Manager!CreateService, Manager!CreateMachine, Manager!RollBack, HasMachine, NotYet
<1>4. ASSUME NEW w \in Requests, Delete(w)
      PROVE  /\ HasMachine(v)' => HasMachine(v)
             /\ NotYet(v)' => NotYet(v)
             /\ deleting'[v] # "no" => deleting[v] # "no" \/ v \in named
  BY <1>1, <1>4 DEF Delete, ByManager, Manager!DeleteService, Manager!DeleteMachine,
     HasMachine, NotYet
<1>5. ASSUME Manager!Crash
      PROVE  /\ HasMachine(v)' => HasMachine(v)
             /\ NotYet(v)' => NotYet(v)
             /\ deleting'[v] # "no" => deleting[v] # "no" \/ v \in named
  BY <1>1, <1>5 DEF Manager!Crash, Manager!UnderWay, HasMachine, NotYet
<1> QED BY <1>2, <1>3, <1>4, <1>5 DEF ManagerStep, ByManager

----------------------------------------------------------------------------
(* The pipeline.                                                           *)

\* A step of the pipeline that observes nothing of key k brings no event of it.
LEMMA QuietKept ==
  ASSUME PipeTypeOK, NEW k \in Keys, Quiet(k),
         \/ \E q \in Keys \ {k} : \E new : Observe(q, new)
         \/ \E r \in Resources : Deliver(r)
         \/ Get \/ Read
         \/ \E e \in Event : e = processing /\ Finish(e, FALSE)
         \/ UNCHANGED pipeVars
  PROVE  Quiet(k)'
<1> SUFFICES ASSUME NEW f \in Event, f.key = k
             PROVE  /\ \A r \in Resources : ~In(inbox'[r], f)
                    /\ ~In(queue', f) /\ f \notin dirty' /\ f # processing'
  BY DEF Quiet
<1>1. /\ \A r \in Resources : ~In(inbox[r], f)
      /\ ~In(queue, f) /\ f \notin dirty /\ f # processing
  BY DEF Quiet
<1>2. ASSUME NEW q \in Keys \ {k}, NEW new, Observe(q, new)
      PROVE  \A r \in Resources : ~In(inbox'[r], f)
  <2> DEFINE g == [verb |-> VerbOf(store[q], new), key |-> q]
  <2>1. g \in Event /\ g # f
    BY <1>2, ObserveFacts
  <2>2. /\ inbox' = [inbox EXCEPT ![ResourceOf[q]] = Append(@, g)]
        /\ \A r \in Resources : inbox[r] \in Seq(Event)
    BY <1>2 DEF Observe, PipeTypeOK
  <2> HIDE DEF g
  <2>3. ASSUME NEW r \in Resources PROVE ~In(inbox'[r], f)
    <3>1. inbox'[r] \in {inbox[r], Append(inbox[r], g)}
      BY <2>2 DEF PipeTypeOK
    <3> QED BY <1>1, <2>1, <2>2, <3>1, InAppend
  <2> QED BY <2>3
<1>3. ASSUME NEW r \in Resources, Deliver(r)
      PROVE  /\ \A s \in Resources : ~In(inbox'[s], f)
             /\ ~In(queue', f) /\ f \notin dirty'
  <2> DEFINE g == Head(inbox[r])
  <2>1. /\ inbox[r] \in Seq(Event) /\ inbox[r] # << >> /\ queue \in Seq(Event)
        /\ inbox' = [inbox EXCEPT ![r] = Tail(@)] /\ Add(g)
    BY <1>3 DEF Deliver, PipeTypeOK
  <2>2. g \in Event /\ g # f /\ ~In(Tail(inbox[r]), f)
    BY <1>1, <2>1, InTail
  <2>3. \A s \in Resources : ~In(inbox'[s], f)
    BY <1>1, <2>1, <2>2 DEF PipeTypeOK
  <2> HIDE DEF g
  <2>4. ~In(Append(queue, g), f)
    BY <1>1, <2>1, <2>2, InAppend
  <2>5. ~In(queue', f) /\ f \notin dirty'
    BY <1>1, <2>1, <2>2, <2>4 DEF Add
  <2> QED BY <2>3, <2>5
<1>4. CASE Get
  <2>1. queue \in Seq(Event) /\ queue # << >>
    BY <1>4 DEF Get, PipeTypeOK
  <2>2. f # Head(queue) /\ ~In(Tail(queue), f)
    BY <1>1, <2>1, InTail
  <2> QED BY <1>1, <1>4, <2>2 DEF Get
<1>5. ASSUME NEW e \in Event, Finish(e, FALSE)
      PROVE  ~In(queue', f) /\ f # processing'
  <2>1. In(Append(queue, e), f) => e = f
    BY <1>1, InAppend DEF PipeTypeOK
  <2> QED BY <1>1, <1>5, <2>1, PipelineAssumption DEF Finish
<1>6. CASE \E q \in Keys \ {k} : \E new : Observe(q, new)
  BY <1>1, <1>2, <1>6 DEF Observe
<1>7. CASE \E r \in Resources : Deliver(r)
  BY <1>1, <1>3, <1>7 DEF Deliver
<1>8. CASE \E e \in Event : e = processing /\ Finish(e, FALSE)
  BY <1>1, <1>5, <1>8 DEF Finish
<1> QED BY <1>1, <1>4, <1>6, <1>7, <1>8 DEF Read, pipeVars

----------------------------------------------------------------------------
(* The infos.                                                              *)

\* The service that an info shows is written by the service's own update only.
LEMMA ServicePart ==
  ASSUME NEW info \in VirtualMachineInfo
  PROVE  /\ \A o : WithVirtualMachine(info, o).svc = info.svc
         /\ \A o : WithDataVolume(info, o).svc = info.svc
         /\ WithoutDataVolume(info).svc = info.svc
         /\ WithoutClusterIP(info).svc = info.svc
         /\ \A o : WithService(info, o).svc \in {info.svc, o}
         /\ \A o : o.type = "ClusterIP" => WithService(info, o).svc = o
BY DEF WithVirtualMachine, WithDataVolume, WithoutDataVolume, WithoutClusterIP,
   WithService, VirtualMachineInfo

ShowsService(info) == info # Absent /\ info.svc # Absent

\* The handler of a workload's service shows it, and nothing but the deletion
\* of its machine takes an info or the service that it shows away.
LEMMA HandlerOnService ==
  ASSUME Shape, NEW w \in Requests, KnownByItsOwn(Vm(w)), NEW e \in Event, Handle(e),
         e.key = Vm(w) => object # Absent
  PROVE  /\ ShowsService(vmInfoList[w]) => ShowsService(vmInfoList'[w])
         /\ e.key = Svc(w) /\ object # Absent => ShowsService(vmInfoList'[w])
<1> DEFINE x == Extract(object)
           l == workloadMetaMap[NameOf[e.key]]
           old == vmInfoList[w]
<1>1. /\ object \in ObjectsOf[e.key] \cup {Absent}
      /\ w \in AllMetas /\ w # Absent /\ Vm(w) \in Vms /\ Svc(w) \in Services /\ e.key \in Keys
      /\ Absent \notin VirtualMachineInfo /\ Absent \notin ObjectsOf[e.key]
      /\ old \in VirtualMachineInfo \cup {Absent}
      /\ vmInfoList \in [AllMetas -> VirtualMachineInfo \cup {Absent}]
  BY HandleFinishes, CloudKeys, WatcherAssumption DEF Shape
<1>2. /\ referVirtualMachineInfo(w) \in VirtualMachineInfo
      /\ old # Absent => referVirtualMachineInfo(w) = old
  BY <1>1, Referred DEF referVirtualMachineInfo
<1> DEFINE ref == referVirtualMachineInfo(w)
<1>3. CASE handleVirtualMachineUpdate(e)
  <2> DEFINE new == WithVirtualMachine(ref, object)
  <2>1. object \in VmObjects /\ e.key \notin Services
    BY <1>1, <1>3, WatcherAssumption, KeyKinds DEF handleVirtualMachineUpdate, Present
  <2>2. vmInfoList'[w] = IF x = w THEN new ELSE old
    BY <1>1, <1>3 DEF handleVirtualMachineUpdate
  <2>3. new # Absent /\ new.svc = ref.svc
    BY <1>1, <1>2, <2>1, InfoParts, ServicePart
  <2> HIDE DEF x, new
  <2> QED BY <1>1, <1>2, <2>1, <2>2, <2>3 DEF ShowsService
<1>4. CASE handleServiceUpdate(e)
  <2> DEFINE new == WithService(ref, object)
  <2>1. object \in SvcObjects /\ object # Absent
    BY <1>1, <1>4, WatcherAssumption DEF handleServiceUpdate, Present
  <2>2. vmInfoList'[w] = IF x = w THEN new ELSE old
    BY <1>1, <1>4 DEF handleServiceUpdate
  <2>3. new # Absent /\ new.svc \in {ref.svc, object}
    BY <1>1, <1>2, <2>1, InfoParts, ServicePart
  <2>4. e.key = Svc(w) => x = w /\ new.svc = object
    <3> SUFFICES ASSUME e.key = Svc(w) PROVE x = w /\ new.svc = object
      OBVIOUS
    <3>1. object = [meta |-> w, type |-> "ClusterIP", ip |-> Address]
      BY <1>1, <2>1, CloudAssumption DEF Svc, KeyOf, WorkloadObject
    <3>2. object.type = "ClusterIP" /\ object.meta = w /\ w # Unlabelled
      BY <1>1, <3>1, WatcherAssumption
    <3> QED BY <1>2, <3>2, ServicePart DEF Extract
  <2> HIDE DEF x, new
  <2> QED BY <1>1, <1>2, <2>1, <2>2, <2>3, <2>4 DEF ShowsService
<1>5. CASE handleDataVolumeUpdate(e)
  <2> DEFINE new == WithDataVolume(ref, object)
  <2>1. object \in DvObjects /\ e.key \notin Services
    BY <1>1, <1>5, WatcherAssumption, KeyKinds DEF handleDataVolumeUpdate, Present
  <2>2. vmInfoList'[w] = IF x = w THEN new ELSE old
    BY <1>1, <1>5 DEF handleDataVolumeUpdate
  <2>3. new # Absent /\ new.svc = ref.svc
    BY <1>1, <1>2, <2>1, InfoParts, ServicePart
  <2> HIDE DEF x, new
  <2> QED BY <1>1, <1>2, <2>1, <2>2, <2>3 DEF ShowsService
<1>6. CASE handleVirtualMachineDeletion(e)
  <2>1. e.key \in Vms /\ object = Absent /\ e.key # Vm(w) /\ e.key # Svc(w)
    BY <1>1, <1>6, KeyKinds DEF handleVirtualMachineDeletion, Gone
  <2>2. l # w
    BY <2>1, CloudKeys DEF KnownByItsOwn
  <2>3. vmInfoList'[w] = old
    BY <1>1, <1>6, <2>2 DEF handleVirtualMachineDeletion, deleteVirtualMachineInfo
  <2> QED BY <2>1, <2>3
<1>7. CASE handleServiceDeletion(e)
  <2> DEFINE new == WithoutClusterIP(old)
  <2>1. vmInfoList' = vmInfoList \/ vmInfoList' = [vmInfoList EXCEPT ![l] = WithoutClusterIP(@)]
    BY <1>7 DEF handleServiceDeletion
  <2>2. vmInfoList'[w] \in {old, new} /\ object = Absent
    BY <1>1, <1>7, <2>1 DEF handleServiceDeletion, Gone
  <2>3. old # Absent => new # Absent /\ new.svc = old.svc
    BY <1>1, InfoParts, ServicePart
  <2> HIDE DEF new
  <2> QED BY <2>2, <2>3 DEF ShowsService
<1>8. CASE handleDataVolumeDeletion(e)
  <2> DEFINE new == WithoutDataVolume(old)
  <2>1. vmInfoList' = vmInfoList \/ vmInfoList' = [vmInfoList EXCEPT ![l] = WithoutDataVolume(@)]
    BY <1>8 DEF handleDataVolumeDeletion
  <2>2. vmInfoList'[w] \in {old, new} /\ object = Absent
    BY <1>1, <1>8, <2>1 DEF handleDataVolumeDeletion, Gone
  <2>3. old # Absent => new # Absent /\ new.svc = old.svc
    BY <1>1, InfoParts, ServicePart
  <2> HIDE DEF new
  <2> QED BY <2>2, <2>3 DEF ShowsService
<1>9. CASE Ignore(e)
  <2>1. e.key # Svc(w)
    BY <1>1, <1>9, KeyKinds DEF Ignore, Services
  <2> QED BY <1>9, <2>1 DEF Ignore
<1> QED BY <1>3, <1>4, <1>5, <1>6, <1>7, <1>8, <1>9 DEF Handle

----------------------------------------------------------------------------
(* The Watcher's steps.                                                    *)

WatcherStep == (\E k \in Keys : See(k)) \/ (\E r \in Resources : Deliveries(r)) \/ Work

\* They are the Watcher's.
LEMMA WatcherSteps ==
  ASSUME WatcherStep
  PROVE  /\ [Next]_vars
         /\ UNCHANGED << managerVars, named, restarts >>
<1>1. ASSUME NEW k \in Keys, See(k) PROVE ObserveObject(k)
  <2>1. Listed(k) \in ObjectsOf[k] \cup {Absent}
    BY CloudAssumption DEF Listed, Stored
  <2> QED BY <1>1, <2>1 DEF See, ByWatcher, ObserveObject
<1>2. ASSUME NEW r \in Resources, Deliveries(r) PROVE DeliverTo(r)
  BY <1>2 DEF Deliveries, ByWatcher
<1>3. CASE Work
  BY <1>3 DEF Work, ByWatcher, Next
<1> QED BY <1>1, <1>2, <1>3 DEF WatcherStep, See, Deliveries, Work, ByWatcher, Next

\* What each of them is to the pipeline.
LEMMA WatcherPipeSteps ==
  ASSUME Shape, WatcherStep
  PROVE  \/ \E k \in Keys : store[k] # Listed(k) /\ Observe(k, Listed(k))
         \/ store' = store /\ \/ \E r \in Resources : Deliver(r)
                              \/ Get \/ Read
                              \/ \E e \in Event : Handle(e)
BY HandleFinishes DEF WatcherStep, See, Deliveries, Work, ByWatcher, DeliverTo, Take,
   Deliver, Get, Read

LEMMA FreshNext ==
  ASSUME CloudIInv, WatcherStep, NEW w \in Requests
  PROVE  MachineIsFresh(w)'
<1>1. /\ Shape /\ PipeTypeOK /\ MachineIsFresh(w)
      /\ HasMachine(w)' <=> HasMachine(w)
      /\ NotYet(w)' <=> NotYet(w)
      /\ Vm(w) \in Keys
  BY WatcherSteps, CloudKeys
     DEF CloudIInv, IInv, Shape, Following, HasMachine, NotYet, managerVars
<1>2. ASSUME NEW k \in Keys, store[k] # Listed(k), Observe(k, Listed(k))
      PROVE  MachineIsFresh(w)'
  <2>1. processing' = processing /\ object' = object /\ store' = [store EXCEPT ![k] = Listed(k)]
    BY <1>2 DEF Observe
  <2>2. CASE k = Vm(w)
    <3>0. SameNamespace /\ Listed(k) = Stored(k)
      BY <1>1, <1>2, <2>2 DEF MachineIsFresh, SameNamespace, Listed
    <3>1. store'[Vm(w)] = Stored(Vm(w))
      BY <1>1, <2>1, <2>2, <3>0 DEF PipeTypeOK
    <3>2. /\ machines[w] # Absent => Stored(Vm(w)) # Absent
          /\ machines[w] = Absent => Stored(Vm(w)) = Absent
      BY <1>1, CloudAssumption, WatcherAssumption DEF Stored, Vm, KeyOf
    <3>3. NotYet(w) => machines[w] = Absent
      BY DEF CloudIInv, ManagerProofs!IInv, ManagerProofs!Stages, ManagerProofs!Stage, NotYet
    <3>4. ~NotYet(w)
      BY <1>1, <1>2, <2>2, <3>0, <3>2, <3>3 DEF MachineIsFresh
    <3>5. HasMachine(w) => store'[Vm(w)] # Absent
      BY <3>1, <3>2, <3>4 DEF HasMachine
    <3> QED BY <1>1, <2>1, <3>0, <3>4, <3>5 DEF MachineIsFresh, NotReadAsGone
  <2>3. CASE k # Vm(w)
    <3>1. store'[Vm(w)] = store[Vm(w)]
      BY <1>1, <2>1, <2>3
    <3>2. Quiet(Vm(w)) => Quiet(Vm(w))'
      BY <1>1, <1>2, <2>3, QuietKept
    <3> QED BY <1>1, <2>1, <3>1, <3>2 DEF MachineIsFresh, NotReadAsGone
  <2> QED BY <2>2, <2>3
<1>3. ASSUME store' = store, Quiet(Vm(w)) => Quiet(Vm(w))',
             HasMachine(w) => NotReadAsGone(Vm(w))'
      PROVE  MachineIsFresh(w)'
  BY <1>1, <1>3 DEF MachineIsFresh
<1>4. ASSUME NEW r \in Resources, Deliver(r), store' = store PROVE MachineIsFresh(w)'
  <2>1. Quiet(Vm(w)) => Quiet(Vm(w))'
    BY <1>1, <1>4, QuietKept
  <2> QED BY <1>1, <1>3, <1>4, <2>1 DEF MachineIsFresh, NotReadAsGone, Deliver
<1>5. ASSUME Get \/ Read, store' = store PROVE MachineIsFresh(w)'
  <2>1. Quiet(Vm(w)) => Quiet(Vm(w))'
    BY <1>1, <1>5, QuietKept
  <2>2. Get => object' = Unread
    BY <1>1 DEF Get, PipeTypeOK
  <2>3. Read /\ processing.key = Vm(w) => object' = store[Vm(w)] /\ ~Quiet(Vm(w))
    BY <1>1 DEF Read, Quiet, PipeTypeOK
  <2>4. HasMachine(w) => NotReadAsGone(Vm(w))'
    BY <1>1, <1>5, <2>2, <2>3 DEF MachineIsFresh, NotReadAsGone, Read
  <2> QED BY <1>3, <1>5, <2>1, <2>4
<1>6. ASSUME NEW e \in Event, Handle(e), store' = store PROVE MachineIsFresh(w)'
  <2>1. /\ e = processing /\ (Finish(e, FALSE) \/ UNCHANGED pipeVars)
        /\ \/ processing' = Nothing /\ object' = Unread
           \/ processing' = processing /\ object' = object
    BY <1>1, <1>6, HandleFinishes
       DEF Handle, handleVirtualMachineUpdate, handleServiceUpdate,
           handleDataVolumeUpdate, handleVirtualMachineDeletion,
           handleServiceDeletion, handleDataVolumeDeletion, Ignore, Done, Panic
  <2>2. Quiet(Vm(w)) => Quiet(Vm(w))'
    BY <1>1, <2>1, QuietKept
  <2> QED BY <1>1, <1>3, <1>6, <2>1, <2>2 DEF MachineIsFresh, NotReadAsGone
<1> QED BY <1>1, <1>2, <1>4, <1>5, <1>6, WatcherPipeSteps

LEMMA ShownNext ==
  ASSUME CloudIInv, WatcherStep, NEW w \in Requests
  PROVE  ServiceIsShown(w)' /\ (HasMachine(w) /\ Nameable(w) => Nameable(w)')
<1>1. /\ IInv /\ Shape /\ MachineIsFresh(w) /\ ServiceIsShown(w)
      /\ HasMachine(w)' <=> HasMachine(w)
      /\ Vm(w) \in Vms /\ Vm(w) \in Keys /\ Svc(w) \in Keys /\ Svc(w) # Vm(w) /\ w \in AllMetas
      /\ KnownByItsOwn(Vm(w)) /\ ReadIsFollowed(Svc(w))
      /\ [Next]_vars
  BY WatcherSteps, CloudKeys, KeysAreExclusive
     DEF CloudIInv, IInv, Converging, Following, HasMachine, NotYet, managerVars
<1>2. ASSUME NEW e \in Event, Handle(e)
      PROVE  ServiceIsShown(w)' /\ (HasMachine(w) /\ Nameable(w) => Nameable(w)')
  <2> SUFFICES ASSUME HasMachine(w)
               PROVE  ServiceIsShown(w)' /\ (Nameable(w) => Nameable(w)')
    BY <1>1 DEF ServiceIsShown
  <2>1. e.key = Vm(w) => object # Absent
    BY <1>1, <1>2, HandleFinishes, PipelineAssumption DEF MachineIsFresh, NotReadAsGone
  <2>2. /\ ShowsService(vmInfoList[w]) => ShowsService(vmInfoList'[w])
        /\ e.key = Svc(w) /\ object # Absent => ShowsService(vmInfoList'[w])
    BY <1>1, <1>2, <2>1, HandlerOnService
  <2>3. ServiceIsShown(w)'
    <3> SUFFICES ASSUME store'[Svc(w)] # Absent, ~Pending(Svc(w))'
                 PROVE  ShowsService(vmInfoList'[w])
      BY DEF ServiceIsShown, ShowsService
    <3>1. store' = store
      BY <1>1, <1>2, HandlePending
    <3>2. CASE e.key = Svc(w)
      <4>1. object = store[Svc(w)]
        BY <1>1, <1>2, <3>2, HandlePending
      <4> QED BY <2>2, <3>1, <3>2, <4>1
    <3>3. CASE e.key # Svc(w)
      <4>1. ~Pending(Svc(w))
        BY <1>1, <1>2, <3>3, HandlePending
      <4> QED BY <1>1, <2>2, <3>1, <4>1 DEF ServiceIsShown, ShowsService
    <3> QED BY <3>2, <3>3
  <2>4. ShownVm(w) # Absent => ShownVm(w)' # Absent
    <3>1. CASE MachineShown(e)
      BY <1>1, <3>1 DEF MachineShown
    <3>2. CASE MachineRemoved(e)
      <4>1. workloadMetaMap[NameOf[e.key]] # w
        BY <1>1, <2>1, <3>2, CloudKeys DEF MachineRemoved, KnownByItsOwn
      <4> QED BY <1>1, <3>2, <4>1 DEF MachineRemoved
    <3>3. CASE MachinesLeftAlone
      BY <1>1, <3>3 DEF MachinesLeftAlone
    <3> QED BY <1>1, <1>2, <3>1, <3>2, <3>3, HandleWrites
  <2>5. Nameable(w) => Nameable(w)'
    BY <2>2, <2>4 DEF Nameable, ShowsService, ShownVm
  <2> QED BY <2>3, <2>5
<1>3. CASE UNCHANGED vmInfoList /\ KeyKept(Svc(w))
  BY <1>1, <1>3 DEF KeyKept, ServiceIsShown, Nameable
<1> QED BY <1>1, <1>2, <1>3, StepKinds

\* Names of machines are known as their own workload's only.
LEMMA NeverMixed ==
  ASSUME CloudIInv, WatcherStep
  PROVE  mixed' = mixed
<1>1. IInv /\ Shape /\ [Next]_vars
  BY WatcherSteps DEF CloudIInv, IInv
<1>2. ASSUME NEW e \in Event, Handle(e) PROVE mixed' = mixed
  <2>1. CASE MachineShown(e)
    <3>1. /\ e.key \in Keys /\ object \in ObjectsOf[e.key]
          /\ KnownByItsOwn(e.key)
      BY <1>1, <1>2, <2>1, HandleFinishes, KeysAreExclusive
         DEF MachineShown, IInv, Converging
    <3>2. object.meta \in MetasOf(e.key) /\ Extract(object) = object.meta
      BY <1>1, <3>1, ExclusiveFacts, KeysAreExclusive
    <3>3. MetasOf(e.key) \subseteq {object.meta}
      BY <3>1, CloudAssumption DEF MetasOf
    <3> QED BY <2>1, <3>1, <3>2, <3>3 DEF MachineShown, KnownByItsOwn
  <2> QED BY <1>1, <1>2, <2>1, HandleWrites DEF MachineRemoved, MachinesLeftAlone
<1> QED BY <1>1, <1>2, StepKinds

LEMMA WatcherKeeps == CloudIInv /\ WatcherStep => CloudIInv'
<1> SUFFICES ASSUME CloudIInv, WatcherStep PROVE CloudIInv'
  OBVIOUS
<1>1. [Next]_vars /\ UNCHANGED << managerVars, named, restarts >>
  BY WatcherSteps
<1>2. IInv'
  BY <1>1, IInvNext DEF CloudIInv
<1>3. ManagerProofs!IInv'
  BY <1>1, ManagerKeeps DEF CloudIInv
<1>4. ASSUME NEW w \in Requests PROVE NamesStay(w)'
  BY <1>1, ShownNext DEF CloudIInv, Following, NamesStay, HasMachine, NotYet, managerVars
<1> QED BY <1>1, <1>2, <1>3, <1>4, FreshNext, ShownNext, NeverMixed
        DEF CloudIInv, Following

----------------------------------------------------------------------------
(* The other steps, and the whole.                                         *)

LEMMA ManagerStepKeeps == CloudIInv /\ ManagerStep => CloudIInv'
<1> SUFFICES ASSUME CloudIInv, ManagerStep PROVE CloudIInv'
  OBVIOUS
<1>1. ManagerProofs!Types
  BY DEF CloudIInv, ManagerProofs!IInv
<1>2. Manager!Next /\ UNCHANGED << vars, named, restarts >>
  BY <1>1, ManagerLeaves, CloudKeys DEF ManagerStep, Create, Delete, ByManager, Manager!Next
<1>3. IInv' /\ ManagerProofs!IInv'
  BY <1>2, IInvNext, ManagerKeeps DEF CloudIInv
<1>4. ASSUME NEW w \in Requests PROVE (MachineIsFresh(w) /\ ServiceIsShown(w) /\ NamesStay(w))'
  <2>1. /\ MachineIsFresh(w) /\ ServiceIsShown(w) /\ NamesStay(w)
        /\ HasMachine(w)' => HasMachine(w)
        /\ NotYet(w)' => NotYet(w)
        /\ deleting'[w] # "no" => deleting[w] # "no" \/ w \in named
    BY <1>1, ManagerLeaves DEF CloudIInv, Following
  <2>2. MachineIsFresh(w)'
    BY <1>2, <2>1 DEF MachineIsFresh, NotReadAsGone, Quiet, vars, pipeVars
  <2>3. ServiceIsShown(w)'
    BY <1>2, <2>1 DEF ServiceIsShown, Pending, OnWay, vars, pipeVars, infoVars
  <2>4. NamesStay(w)'
    BY <1>2, <2>1 DEF NamesStay, Nameable, vars, infoVars
  <2> QED BY <2>2, <2>3, <2>4
<1> QED BY <1>2, <1>3, <1>4 DEF CloudIInv, Following, vars, infoVars

\* After a restart the Watcher has just begun.
LEMMA RestartKeeps == CloudIInv /\ Restart => CloudIInv'
<1> SUFFICES ASSUME CloudIInv, Restart PROVE CloudIInv'
  OBVIOUS
<1>1. Begun'
  BY DEF Restart, CloudIInv, IInv, Shape, Begun, PipeInit
<1>2. Begun' => IInv'
  BY IInvBegun, PTL
<1>3. ManagerProofs!IInv'
  BY ManagerKeeps DEF CloudIInv, Restart
<1>4. restarts' \in Nat /\ restarts' # 0 /\ mixed' = {}
  BY DEF CloudIInv, Restart
<1>5. ASSUME NEW w \in Requests PROVE (MachineIsFresh(w) /\ ServiceIsShown(w) /\ NamesStay(w))'
  <2>1. NamesStay(w) /\ UNCHANGED << named, managerVars >>
    BY DEF CloudIInv, Following, Restart
  <2>2. Quiet(Vm(w))' /\ NotReadAsGone(Vm(w))'
    BY PipelineAssumption, EmptyHoldsNothing DEF Restart, Quiet, NotReadAsGone
  <2>3. store'[Vm(w)] = Absent /\ store'[Svc(w)] = Absent
    BY CloudKeys DEF Restart
  <2>4. NamesStay(w)'
    BY <1>4, <2>1 DEF NamesStay, managerVars
  <2> QED BY <2>2, <2>3, <2>4 DEF MachineIsFresh, ServiceIsShown
<1> QED BY <1>1, <1>2, <1>3, <1>4, <1>5 DEF CloudIInv, Following

\* To give out names changes nothing but who has them.
LEMMA AskKeeps == ASSUME CloudIInv, NEW w \in Requests, Ask(w) PROVE CloudIInv'
<1>1. UNCHANGED << vars, managerVars, restarts >> /\ named' = named \cup {w} /\ Nameable(w)
  BY DEF Ask
<1>2. IInv' /\ ManagerProofs!IInv'
  BY <1>1, IInvNext, ManagerKeeps DEF CloudIInv
<1>3. ASSUME NEW v \in Requests PROVE (MachineIsFresh(v) /\ ServiceIsShown(v) /\ NamesStay(v))'
  <2>1. MachineIsFresh(v) /\ ServiceIsShown(v) /\ NamesStay(v)
    BY DEF CloudIInv, Following
  <2>2. MachineIsFresh(v)'
    BY <1>1, <2>1 DEF MachineIsFresh, NotReadAsGone, Quiet, HasMachine, NotYet, vars, pipeVars,
                      managerVars
  <2>3. ServiceIsShown(v)'
    BY <1>1, <2>1 DEF ServiceIsShown, Pending, OnWay, HasMachine, NotYet, vars, pipeVars,
                      infoVars, managerVars
  <2>4. NamesStay(v)'
    BY <1>1, <2>1 DEF NamesStay, Nameable, HasMachine, NotYet, vars, infoVars, managerVars
  <2> QED BY <2>2, <2>3, <2>4
<1> QED BY <1>1, <1>2, <1>3 DEF CloudIInv, Following, vars, infoVars

LEMMA StillKeeps ==
  CloudIInv /\ UNCHANGED << vars, managerVars, named, restarts >> => CloudIInv'
<1> SUFFICES ASSUME CloudIInv, UNCHANGED << vars, managerVars, named, restarts >>
             PROVE  CloudIInv'
  OBVIOUS
<1>1. IInv' /\ ManagerProofs!IInv'
  BY IInvNext, ManagerKeeps DEF CloudIInv
<1>2. Following'
  BY DEF CloudIInv, Following, MachineIsFresh, ServiceIsShown, NamesStay, NotReadAsGone, Quiet,
         Nameable, Pending, OnWay, HasMachine, NotYet, vars, pipeVars, infoVars, managerVars
<1> QED BY <1>1, <1>2 DEF CloudIInv, vars, infoVars

LEMMA CloudIInvInit == CloudInit => CloudIInv
<1> SUFFICES ASSUME CloudInit PROVE CloudIInv
  OBVIOUS
<1>1. IInv /\ ManagerProofs!IInv
  BY IInvInit, SameManager, ManagerAssumed, ManagerProofs!InitIInv DEF CloudInit
<1>2. ASSUME NEW w \in Requests PROVE MachineIsFresh(w) /\ ServiceIsShown(w) /\ NamesStay(w)
  <2>1. Quiet(Vm(w)) /\ NotReadAsGone(Vm(w))
    BY PipelineAssumption, EmptyHoldsNothing DEF CloudInit, Init, PipeInit, Quiet, NotReadAsGone
  <2>2. store[Vm(w)] = Absent /\ store[Svc(w)] = Absent
    BY CloudKeys DEF CloudInit, Init, PipeInit
  <2> QED BY <2>1, <2>2 DEF CloudInit, Manager!Init, MachineIsFresh, ServiceIsShown, NamesStay
<1> QED BY <1>1, <1>2 DEF CloudIInv, Following, CloudInit, Init

LEMMA CloudIInvNext == CloudIInv /\ [CloudNext]_cloudVars => CloudIInv'
<1>1. Cluster \/ UNCHANGED cloudVars => UNCHANGED << vars, managerVars, named, restarts >>
  BY DEF Cluster, cloudVars
<1> QED BY <1>1, WatcherKeeps, ManagerStepKeeps, RestartKeeps, AskKeeps, StillKeeps
        DEF CloudNext, WatcherStep, ManagerStep

LEMMA AlwaysFollowing == CloudSpec => []CloudIInv
BY CloudIInvInit, CloudIInvNext, PTL DEF CloudSpec

----------------------------------------------------------------------------

\* Where the Watcher is informed, an info shows the machine if there is one
\* where the informers list.
LEMMA InformedShows ==
  ASSUME CloudIInv, NEW w \in Requests, Informed(w)
  PROVE  /\ ShownVm(w) # Absent <=> SameNamespace /\ machines[w] # Absent
         /\ store[Svc(w)] = Listed(Svc(w)) /\ ~Pending(Svc(w))
<1>1. /\ store[Vm(w)] = Listed(Vm(w)) /\ ~Pending(Vm(w))
      /\ store[Svc(w)] = Listed(Svc(w)) /\ ~Pending(Svc(w))
  BY CloudKeys DEF Informed, Vm, Svc
<1>2. ShownVm(w) = IF store[Vm(w)] # Absent /\ store[Vm(w)].meta = w
                     THEN store[Vm(w)] ELSE Absent
  BY <1>1, CloudKeys, KeysAreExclusive, IInvShows DEF CloudIInv, VmConverged
<1>3. /\ machines[w] # Absent =>
           Stored(Vm(w)) = [meta |-> w, created |-> TRUE] /\ Stored(Vm(w)) # Absent
      /\ machines[w] = Absent => Stored(Vm(w)) = Absent
  <2>1. WorkloadObject(Vm(w)) = [meta |-> w, created |-> TRUE]
    BY DEF WorkloadObject, Vm, KeyOf
  <2>2. WorkloadObject(Vm(w)) # Absent
    BY CloudKeys, CloudAssumption, WatcherAssumption
  <2> QED BY <2>1, <2>2 DEF Stored, Vm, KeyOf
<1>4. Listed(Vm(w)) = IF SameNamespace THEN Stored(Vm(w)) ELSE Absent
  BY DEF Listed, SameNamespace
<1> QED BY <1>1, <1>2, <1>3, <1>4

\* Where the manager creates in the namespace that the informers list, a
\* machine can be deleted as long as it is there (GetWorkloadObjectNameMeta
\* gives what DeleteVirtualMachineWorkload needs): see Deletable.
THEOREM MachinesAreDeletable ==
  ASSUME Namespace = TargetNamespace
  PROVE  CloudSpec => []Deletable
<1>0. SameNamespace
  BY DEF SameNamespace
<1>1. CloudIInv => Deletable
  <2> SUFFICES ASSUME CloudIInv, NEW w \in Requests, Informed(w), machines[w] # Absent,
                      w \in services \/ (w \notin unsure /\ restarts = 0)
               PROVE  Nameable(w)
    BY DEF Deletable
  <2>1. ShownVm(w) # Absent /\ HasMachine(w)
    BY <1>0, InformedShows DEF HasMachine
  <2>2. CASE w \in services
    <3>1. Listed(Svc(w)) = WorkloadObject(Svc(w))
      BY <1>0, <2>2 DEF SameNamespace, Listed, Stored, Svc, KeyOf
    <3>2. WorkloadObject(Svc(w)) # Absent
      BY CloudKeys, CloudAssumption, WatcherAssumption
    <3>3. store[Svc(w)] # Absent /\ ~Pending(Svc(w))
      BY <3>1, <3>2, InformedShows
    <3> QED BY <2>1, <3>3 DEF CloudIInv, Following, ServiceIsShown, Nameable, ShownVm
  <2>3. CASE w \notin services
    <3>1. deleting[w] # "no"
      BY <2>3 DEF CloudIInv, ManagerProofs!IInv, ManagerProofs!Stages, ManagerProofs!Stage,
                  ManagerProofs!Plain
    <3> QED BY <2>1, <2>3, <3>1 DEF CloudIInv, Following, NamesStay
  <2> QED BY <2>2, <2>3
<1> QED BY <1>1, AlwaysFollowing, PTL

\* Where the manager creates in the namespace that the informers list, a
\* machine that is there is found (GetVirtualMachineInfo): see NotFoundIsGone.
THEOREM MachinesAreFound ==
  ASSUME Namespace = TargetNamespace
  PROVE  CloudSpec => []NotFoundIsGone
<1>1. CloudIInv => NotFoundIsGone
  <2> SUFFICES ASSUME CloudIInv, NEW w \in Requests, Informed(w),
                      GetVirtualMachineInfo(w) = {}
               PROVE  machines[w] = Absent
    BY DEF NotFoundIsGone
  <2>1. w \in DOMAIN vmInfoList
    BY CloudKeys DEF CloudIInv, IInv, Shape
  <2>2. vmInfoList[w] = Absent
    BY <2>1 DEF GetVirtualMachineInfo
  <2> QED BY <2>2, InformedShows DEF SameNamespace, ShownVm
<1> QED BY <1>1, AlwaysFollowing, PTL

\* Nobody is given the names of a workload whose machine is gone, once the
\* Watcher has caught up: see GoneIsNotNamed.
THEOREM GoneMachinesAreNotNamed == CloudSpec => []GoneIsNotNamed
<1>1. CloudIInv => GoneIsNotNamed
  BY InformedShows DEF GoneIsNotNamed, Nameable, ShownVm
<1> QED BY <1>1, AlwaysFollowing, PTL
=============================================================================
