------------------------------- MODULE Cloud --------------------------------
(***************************************************************************)
(* The virt manager (WorkloadManager) and the Watcher put together through *)
(* the API server: what the manager creates there the Watcher's informers  *)
(* learn of, in their own time; what the Watcher then knows of a workload  *)
(* gives its owner the names (GetWorkloadObjectNameMeta) without which the *)
(* manager cannot delete it (DeleteVirtualMachineWorkload).  The two are   *)
(* different processes, and either may end and start again.                *)
(*                                                                         *)
(* The manager creates in the namespace of the configuration, and the      *)
(* Watcher's informers list one that is fixed: what they learn of the      *)
(* first is nothing, unless the two are the same.                          *)
(***************************************************************************)
EXTENDS Watcher

CONSTANTS Requests, Gpus, NoGpu, GpuOf, HasImage, NoRequest,
          Address,      \* the cluster IP that a service gets
          Namespace,    \* where the manager creates: virtManager.namespace
          TargetNamespace, \* what the Watcher's informers list
          MaxRestarts   \* bound: restarts of the Watcher

VARIABLES template, creating, deleting, services, machines, unsure, shared,
          volumes,      \* the workloads whose data volume exists
          named,        \* the workloads whose names their owner was given
          restarts      \* how often the Watcher was started again

Manager == INSTANCE WorkloadManager

managerVars == << template, creating, deleting, services, machines, unsure, shared >>
cloudVars == << vars, managerVars, volumes, named, restarts >>

\* A workload is labelled with the request it comes from, and every object
\* of it has a name of its own, in which a service's type cannot be read.
\* What changes about an object while it exists is left to Watcher.
KeyOf(w, r) == << w, r >>
WorkloadObject(k) ==
  LET w == k[1]
  IN  CASE k[2] = "vm"  -> [meta |-> w, created |-> TRUE]
        [] k[2] = "svc" -> [meta |-> w, type |-> "ClusterIP", ip |-> Address]
        [] k[2] = "dv"  -> [meta |-> w, userImage |-> TRUE, phase |-> "Succeeded",
                            progress |-> "100.0%"]

ASSUME CloudAssumption ==
  /\ Keys = Requests \X {"vm", "dv", "svc"}
  /\ Metas = Requests
  /\ \A k \in Keys : /\ ResourceOf[k] = k[2]
                     /\ ObjectsOf[k] = {WorkloadObject(k)}
                     /\ ServiceTypeOf[NameOf[k]] = NoType
                     /\ \A l \in Keys : NameOf[k] = NameOf[l] => k = l
  /\ GpuOf \in [Requests -> Gpus \cup {NoGpu}]
  /\ HasImage \in [Requests -> BOOLEAN]
  /\ NoGpu \notin Gpus
  /\ NoRequest \notin Requests
  /\ Absent \notin [gpu : Gpus \cup {NoGpu}, owner : Requests \cup {NoRequest}]
  /\ MaxRestarts \in Nat

CloudInit ==
  /\ Init
  /\ Manager!Init
  /\ volumes = {}
  /\ named = {}
  /\ restarts = 0

----------------------------------------------------------------------------
(* The cluster, as far as the code relies on it: a machine's data volume   *)
(* is made from the machine's template, and goes with the machine.         *)

MakeVolume(w) ==
  /\ machines[w] # Absent
  /\ w \notin volumes
  /\ volumes' = volumes \cup {w}

CollectGarbage(w) ==
  /\ machines[w] = Absent
  /\ w \in volumes
  /\ volumes' = volumes \ {w}

Cluster ==
  /\ \E w \in Requests : MakeVolume(w) \/ CollectGarbage(w)
  /\ UNCHANGED << vars, managerVars, named, restarts >>

\* What the API server holds under a key.
Stored(k) ==
  LET w == k[1]
      there == \/ k[2] = "vm" /\ machines[w] # Absent
               \/ k[2] = "svc" /\ w \in services
               \/ k[2] = "dv" /\ w \in volumes
  IN  IF there THEN WorkloadObject(k) ELSE Absent

\* What the Watcher's informer is told of it.
Listed(k) == IF Namespace = TargetNamespace THEN Stored(k) ELSE Absent

----------------------------------------------------------------------------

ByManager(A) == A /\ UNCHANGED << vars, volumes, named, restarts >>
ByWatcher(A) == A /\ UNCHANGED << managerVars, volumes, named, restarts >>

Create(w) ==
  ByManager(\/ Manager!BeginBuild(w) \/ Manager!FinishBuild(w)
            \/ Manager!CreateService(w) \/ Manager!CreateMachine(w)
            \/ Manager!RollBack(w))

\* The caller of the deletion gives the names that it was given.
Delete(w) ==
  /\ w \in named
  /\ ByManager(Manager!DeleteService(w) \/ Manager!DeleteMachine(w))

See(k) == /\ Alive
          /\ store[k] # Listed(k)
          /\ ByWatcher(Observe(k, Listed(k)) /\ UNCHANGED infoVars)

Deliveries(r) == ByWatcher(DeliverTo(r))
Work == ByWatcher(Take \/ \E e \in Event : Handle(e))

\* GetWorkloadObjectNameMeta has both names to give, or returns an error.
Nameable(m) == /\ vmInfoList[m] # Absent
               /\ Absent \notin {vmInfoList[m].vm, vmInfoList[m].svc}

\* The call's two steps, apart in Watcher, are taken for one here.
Ask(w) ==
  /\ Alive
  /\ GetVirtualMachineInfo(w) # {} /\ Nameable(w)
  /\ w \notin named
  /\ named' = named \cup {w}
  /\ UNCHANGED << vars, managerVars, volumes, restarts >>

\* The Watcher's process starts again, after a panic or without one: what it
\* knew is gone, and its informers list the cluster anew.
Restart ==
  /\ restarts < MaxRestarts
  /\ restarts' = restarts + 1
  /\ store' = [k \in Keys |-> Absent]
  /\ inbox' = [r \in Resources |-> << >>]
  /\ queue' = << >> /\ dirty' = {} /\ waiting' = {}
  /\ processing' = Nothing /\ object' = Unread
  /\ requeues' = [e \in Event |-> 0]
  /\ workloadMetaMap' = [n \in Names |-> Absent]
  /\ vmInfoList' = [m \in AllMetas |-> Absent]
  /\ call' = NoCall /\ panicked' = "no"
  /\ changes' = 0
  /\ UNCHANGED << temps, forgotten, mixed, managerVars, volumes, named >>

CloudNext ==
  \/ \E w \in Requests : Create(w) \/ Delete(w) \/ Ask(w)
  \/ ByManager(Manager!Crash)
  \/ Cluster
  \/ \E k \in Keys : See(k)
  \/ \E r \in Resources : Deliveries(r)
  \/ Work \/ Restart

\* The Watcher's goroutines run as long as the process does, and informers
\* learn in the end what stays as it is in the namespace that they list.
\* Nothing is asked of the manager, of the cluster and of those who call.
CloudSpec ==
  /\ CloudInit /\ [][CloudNext]_cloudVars
  /\ \A k \in Keys : WF_cloudVars(See(k))
  /\ \A r \in Resources : WF_cloudVars(Deliveries(r))
  /\ WF_cloudVars(Work)

----------------------------------------------------------------------------
(* Properties.                                                             *)

\* The Watcher knows all it is told of workload w.
Informed(w) == \A r \in Resources : LET k == KeyOf(w, r)
                                    IN  store[k] = Listed(k) /\ ~Pending(k)

\* "no virtual machine" (GetVirtualMachineInfo) is said of a workload only if
\* it has none, once the Watcher has caught up.  So it is if the namespaces
\* are the same; with those of the repository it is said of all workloads.
NotFoundIsGone ==
  \A w \in Requests :
    Alive /\ Informed(w) /\ GetVirtualMachineInfo(w) = {} => machines[w] = Absent

\* Where the namespaces are the same, a machine can be deleted as long as it
\* is there: once the Watcher has caught up, its owner is given both names,
\* also when the service is gone because an earlier deletion got no further
\* than that, unless an answer of the API server was lost or the Watcher was
\* started again since.
Deletable ==
  \A w \in Requests :
    /\ Alive /\ Informed(w) /\ machines[w] # Absent
    /\ w \in services \/ (w \notin unsure /\ restarts = 0)
    => Nameable(w)

\* The names of a workload whose machine is gone are not given out, once the
\* Watcher has caught up, though its volume or service live on and come back
\* to the list: nobody deletes it twice.
GoneIsNotNamed ==
  \A w \in Requests : Alive /\ Informed(w) /\ machines[w] = Absent => ~Nameable(w)

\* Where the namespaces are the same, a workload whose two objects stay can be
\* deleted in the end, for good, whatever became of earlier deletions, and
\* however often the Watcher was started again.
CreatedIsNamed ==
  \A w \in Requests :
    <>[](machines[w] # Absent /\ w \in services) => <>[]Nameable(w)
=============================================================================
