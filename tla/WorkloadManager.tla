-------------------------- MODULE WorkloadManager --------------------------
(***************************************************************************)
(* The virt manager (pkg/virt/manager.go, vm.go): a workload is a service  *)
(* and a virtual machine, created one after the other at the API server,   *)
(* and deleted so.  Requests may overlap.  A workload is known by the      *)
(* request that creates it, which names both objects after a fresh uuid.   *)
(*                                                                         *)
(* Every machine is built on a copy of the preset that shares its          *)
(* Spec.Template: the builder copies the pointer.  Of the template we keep *)
(* the GPU, which Build sets only if the request has one, and the request  *)
(* that last wrote the rest (labels, cores, resources, volumes).           *)
(*                                                                         *)
(* A call to the API server succeeds, fails, or is carried out while the   *)
(* caller sees an error, and the process may end between any two calls.    *)
(***************************************************************************)
CONSTANTS Requests,   \* the requests for a workload
          Gpus, NoGpu,
          GpuOf,      \* [Requests -> Gpus or NoGpu]: Resources.Gpu
          HasImage,   \* [Requests -> BOOLEAN]: is its image code known?
          NoRequest,  \* nobody has written the template yet
          Absent

ASSUME WorkloadAssumption ==
  /\ GpuOf \in [Requests -> Gpus \cup {NoGpu}]
  /\ HasImage \in [Requests -> BOOLEAN]
  /\ NoGpu \notin Gpus
  /\ NoRequest \notin Requests
  /\ Absent \notin [gpu : Gpus \cup {NoGpu}, owner : Requests \cup {NoRequest}]

VARIABLES template,   \* the one template: [gpu, owner]
          creating,   \* [Requests -> where the creation is]
          deleting,   \* [Requests -> where its deletion is]
          services,   \* the workloads whose service exists
          machines,   \* [Requests -> the machine's template, or Absent]
          unsure,     \* history: a call for the workload failed that was
                      \* carried out
          shared      \* history: another request built on the template
                      \* between this one's build and its machine

vars == << template, creating, deleting, services, machines, unsure, shared >>

\* DefaultVirtualMachine
Preset == [gpu |-> NoGpu, owner |-> NoRequest]

Init ==
  /\ template = Preset
  /\ creating = [w \in Requests |-> "new"]
  /\ deleting = [w \in Requests |-> "no"]
  /\ services = {}
  /\ machines = [w \in Requests |-> Absent]
  /\ unsure = {}
  /\ shared = {}

Building == {w \in Requests : creating[w] \in {"building", "built", "service"}}

----------------------------------------------------------------------------
(* The API server: how a call is carried out, and whether it is answered.  *)

Called(w, done, ok) == unsure' = IF done /\ ~ok THEN unsure \cup {w} ELSE unsure
Outcome(done, ok) == ok => done

----------------------------------------------------------------------------
(* CreateVirtualMachineWorkload                                            *)

\* An unknown image is an error; else Build begins, with the GPU.
BeginBuild(w) ==
  /\ creating[w] = "new"
  /\ IF HasImage[w]
       THEN /\ creating' = [creating EXCEPT ![w] = "building"]
            /\ template' = IF GpuOf[w] # NoGpu
                             THEN [template EXCEPT !.gpu = GpuOf[w]]
                             ELSE template
            /\ shared' = shared \cup Building \cup (IF Building = {} THEN {} ELSE {w})
       ELSE /\ creating' = [creating EXCEPT ![w] = "failed"]
            /\ UNCHANGED << template, shared >>
  /\ UNCHANGED << deleting, services, machines, unsure >>

\* Variant for the mutation check: Build sets the template only once.
FinishBuildOnce(w) ==
  /\ creating[w] = "building"
  /\ template' = [template EXCEPT !.owner = IF @ = NoRequest THEN w ELSE @]
  /\ creating' = [creating EXCEPT ![w] = "built"]
  /\ UNCHANGED << deleting, services, machines, unsure, shared >>

\* The rest of Build overwrites what an earlier request has left.
FinishBuild(w) ==
  /\ creating[w] = "building"
  /\ template' = [template EXCEPT !.owner = w]
  /\ creating' = [creating EXCEPT ![w] = "built"]
  /\ UNCHANGED << deleting, services, machines, unsure, shared >>

\* Variant: the error of creating the service is not looked at.
CreateServiceUnchecked(w) ==
  /\ creating[w] = "built"
  /\ services' \in {services, services \cup {w}}
  /\ creating' = [creating EXCEPT ![w] = "service"]
  /\ UNCHANGED << template, deleting, machines, unsure, shared >>

CreateService(w) ==
  /\ creating[w] = "built"
  /\ \E done, ok \in BOOLEAN :
       /\ Outcome(done, ok)
       /\ services' = IF done THEN services \cup {w} ELSE services
       /\ creating' = [creating EXCEPT ![w] = IF ok THEN "service" ELSE "failed"]
       /\ Called(w, done, ok)
  /\ UNCHANGED << template, deleting, machines, shared >>

\* The machine is sent with the template as it is now.
CreateMachine(w) ==
  /\ creating[w] = "service"
  /\ \E done, ok \in BOOLEAN :
       /\ Outcome(done, ok)
       /\ machines' = IF done THEN [machines EXCEPT ![w] = template] ELSE machines
       /\ creating' = [creating EXCEPT ![w] = IF ok THEN "ok" ELSE "rollback"]
       /\ Called(w, done, ok)
  /\ UNCHANGED << template, deleting, services, shared >>

\* Variant: the rollback answers success whatever became of it.
RollBackQuietly(w) ==
  /\ creating[w] = "rollback"
  /\ \E done, ok \in BOOLEAN :
       /\ Outcome(done, ok)
       /\ services' = IF done THEN services \ {w} ELSE services
       /\ Called(w, done, ok)
  /\ creating' = [creating EXCEPT ![w] = "ok"]
  /\ UNCHANGED << template, deleting, machines, shared >>

\* The answer is that of the rollback: success, when that succeeds.
RollBack(w) ==
  /\ creating[w] = "rollback"
  /\ \E done, ok \in BOOLEAN :
       /\ Outcome(done, ok)
       /\ services' = IF done THEN services \ {w} ELSE services
       /\ creating' = [creating EXCEPT ![w] = IF ok THEN "ok" ELSE "failed"]
       /\ Called(w, done, ok)
  /\ UNCHANGED << template, deleting, machines, shared >>

----------------------------------------------------------------------------
(* DeleteVirtualMachineWorkload, of a workload whose machine was seen.     *)

\* What became of the service makes no difference.  A deletion that was
\* answered with an error may be tried again.
DeleteService(w) ==
  /\ deleting[w] \in {"no", "failed"}
  /\ machines[w] # Absent
  /\ deleting' = [deleting EXCEPT ![w] = "service"]
  /\ services' \in {services, services \ {w}}
  /\ UNCHANGED << template, creating, machines, unsure, shared >>

\* Variant: success is answered whatever became of the machine.
DeleteMachineQuietly(w) ==
  /\ deleting[w] = "service"
  /\ \E done \in BOOLEAN :
       machines' = IF done THEN [machines EXCEPT ![w] = Absent] ELSE machines
  /\ deleting' = [deleting EXCEPT ![w] = "ok"]
  /\ UNCHANGED << template, creating, services, unsure, shared >>

DeleteMachine(w) ==
  /\ deleting[w] = "service"
  /\ \E done, ok \in BOOLEAN :
       /\ Outcome(done, ok)
       /\ machines' = IF done THEN [machines EXCEPT ![w] = Absent] ELSE machines
       /\ deleting' = [deleting EXCEPT ![w] = IF ok THEN "ok" ELSE "failed"]
  /\ UNCHANGED << template, creating, services, unsure, shared >>

----------------------------------------------------------------------------

UnderWay == {w \in Requests :
               creating[w] \in {"building", "built", "service", "rollback"}}

\* The process ends (also because Build has panicked): the calls under way
\* are not answered, the objects stay, and the next process begins with the
\* preset.
Crash ==
  /\ UnderWay # {} \/ \E w \in Requests : deleting[w] = "service"
  /\ creating' = [w \in Requests |-> IF w \in UnderWay THEN "lost" ELSE creating[w]]
  /\ deleting' = [w \in Requests |-> IF deleting[w] = "service" THEN "failed"
                                                               ELSE deleting[w]]
  /\ template' = Preset
  /\ UNCHANGED << services, machines, unsure, shared >>

Next ==
  \/ \E w \in Requests :
       \/ BeginBuild(w) \/ FinishBuild(w)
       \/ CreateService(w) \/ CreateMachine(w) \/ RollBack(w)
       \/ DeleteService(w) \/ DeleteMachine(w)
  \/ Crash

Spec == Init /\ [][Next]_vars

----------------------------------------------------------------------------
(* Properties.                                                             *)

\* The state keeps its shape, and nothing exists of a workload before its
\* template was built.
TypeOK ==
  /\ template \in [gpu : Gpus \cup {NoGpu}, owner : Requests \cup {NoRequest}]
  /\ creating \in [Requests -> {"new", "building", "built", "service",
                                "rollback", "ok", "failed", "lost"}]
  /\ deleting \in [Requests -> {"no", "service", "ok", "failed"}]
  /\ services \subseteq Requests
  /\ \A w \in Requests :
       /\ machines[w] # Absent => machines[w] \in [gpu : Gpus \cup {NoGpu}, owner : Requests]
       /\ creating[w] \in {"new", "building", "built"} =>
            w \notin services /\ machines[w] = Absent
       /\ deleting[w] = "ok" => machines[w] = Absent
  /\ unsure \subseteq Requests
  /\ shared \subseteq Requests

Plain(w) == w \notin unsure /\ deleting[w] = "no"

\* A creation that was answered with success has created both objects or
\* (when it was rolled back) neither, and one that was answered with an
\* error has created no machine, unless an answer of the API server was
\* lost or the workload is deleted: no half of a workload goes unreported.
AnswerAccountsForObjects ==
  \A w \in Requests : Plain(w) =>
    /\ creating[w] = "ok" => (w \in services <=> machines[w] # Absent)
    /\ creating[w] = "failed" => machines[w] = Absent

\* A machine never exists without the service that leads to it, wherever the
\* process ends, unless an answer was lost or the workload is deleted.
MachineHasService ==
  \A w \in Requests : Plain(w) /\ machines[w] # Absent => w \in services

\* A machine whose request shared the template with no other request has
\* that request's labels, cores and volumes, and its GPU if it has one:
\* what earlier requests left in the template is overwritten.
AloneGetsItsOwn ==
  \A w \in Requests \ shared : machines[w] # Absent =>
    /\ machines[w].owner = w
    /\ GpuOf[w] # NoGpu => machines[w].gpu = GpuOf[w]
=============================================================================
