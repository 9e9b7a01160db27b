----------------------- MODULE WorkloadManagerProofs -----------------------
(***************************************************************************)
(* What the virt manager answers and leaves behind, for any number of      *)
(* requests that overlap, and wherever a call or the process fails.  Two   *)
(* arguments that do not depend on each other: one follows the objects of  *)
(* a single workload through the places of its creation (Stages), the      *)
(* other the one template through the requests that build on it (Sharing). *)
(***************************************************************************)
EXTENDS WorkloadManager, TLAPS

Templates == [gpu : Gpus \cup {NoGpu}, owner : Requests \cup {NoRequest}]
Places == {"new", "building", "built", "service", "rollback", "ok", "failed", "lost"}

\* The variables have their types.
Types ==
  /\ template \in Templates
  /\ creating \in [Requests -> Places]
  /\ deleting \in [Requests -> {"no", "service", "ok", "failed"}]
  /\ services \subseteq Requests
  /\ machines \in [Requests -> Templates \cup {Absent}]
  /\ unsure \subseteq Requests
  /\ shared \subseteq Requests

\* What exists of workload w, by the place of its creation.
Stage(w) ==
  /\ creating[w] \in {"new", "building", "built"} => w \notin services
  /\ creating[w] \in {"new", "building", "built", "service"} =>
       machines[w] = Absent /\ deleting[w] = "no"
  /\ deleting[w] = "ok" => machines[w] = Absent
  /\ Plain(w) =>
       /\ creating[w] \in {"service", "rollback"} => w \in services
       /\ creating[w] \in {"rollback", "failed"} => machines[w] = Absent
       /\ creating[w] = "ok" => (w \in services <=> machines[w] # Absent)
       /\ machines[w] # Absent => w \in services

Stages == \A w \in Requests : Stage(w)

\* What the template and the machine of w hold, if w had the template to
\* itself, and that both were written by some request.
Own(w) ==
  /\ creating[w] \in {"built", "service"} => template.owner # NoRequest
  /\ machines[w] # Absent => machines[w].owner # NoRequest
  /\ w \notin shared =>
       /\ w \in Building => /\ Building = {w}
                            /\ GpuOf[w] # NoGpu => template.gpu = GpuOf[w]
       /\ creating[w] \in {"built", "service"} => template.owner = w
       /\ machines[w] # Absent => /\ machines[w].owner = w
                                  /\ GpuOf[w] # NoGpu => machines[w].gpu = GpuOf[w]

Sharing == \A w \in Requests : Own(w)

IInv == Types /\ Stages /\ Sharing

LEMMA InitIInv == Init => IInv
BY WorkloadAssumption DEF Init, Preset, IInv, Types, Templates, Places, Stages, Stage,
   Plain, Sharing, Own, Building

\* A machine that is made from the template is a machine.
LEMMA TemplateIsMachine == Types => template # Absent
BY WorkloadAssumption DEF Types, Templates

----------------------------------------------------------------------------
(* The types.                                                              *)

LEMMA CreateTypes ==
  ASSUME Types, NEW w \in Requests,
         \/ BeginBuild(w) \/ FinishBuild(w) \/ CreateService(w)
         \/ CreateMachine(w) \/ RollBack(w)
  PROVE  Types'
<1>1. CASE BeginBuild(w)
  <2>1. /\ creating' \in [Requests -> Places]
        /\ template' \in Templates
        /\ shared' \subseteq Requests
    BY <1>1, WorkloadAssumption DEF BeginBuild, Types, Templates, Places, Building
  <2> QED BY <1>1, <2>1 DEF BeginBuild, Types
<1>2. CASE FinishBuild(w)
  BY <1>2 DEF FinishBuild, Types, Templates, Places
<1>3. CASE CreateService(w)
  BY <1>3 DEF CreateService, Called, Types, Places
<1>4. CASE CreateMachine(w)
  BY <1>4 DEF CreateMachine, Called, Types, Places
<1>5. CASE RollBack(w)
  BY <1>5 DEF RollBack, Called, Types, Places
<1> QED BY <1>1, <1>2, <1>3, <1>4, <1>5

LEMMA DeleteTypes ==
  ASSUME Types, NEW w \in Requests, DeleteService(w) \/ DeleteMachine(w)
  PROVE  Types'
<1>1. CASE DeleteService(w)
  BY <1>1 DEF DeleteService, Types
<1>2. CASE DeleteMachine(w)
  BY <1>2 DEF DeleteMachine, Types
<1> QED BY <1>1, <1>2

LEMMA CrashTypes == ASSUME Types, Crash PROVE Types'
<1>1. /\ creating' \in [Requests -> Places]
      /\ deleting' \in [Requests -> {"no", "service", "ok", "failed"}]
      /\ template' \in Templates
  BY WorkloadAssumption DEF Crash, Preset, Types, Templates, Places
<1> QED BY <1>1 DEF Crash, Types

----------------------------------------------------------------------------
(* The stages: a step of one workload leaves those of the others alone.    *)

\* Nothing of workload v has changed.
Same(v) == /\ creating'[v] = creating[v] /\ deleting'[v] = deleting[v]
           /\ machines'[v] = machines[v]
           /\ v \in services' <=> v \in services
           /\ v \in unsure' <=> v \in unsure

LEMMA SameStage == ASSUME NEW v \in Requests, Stage(v), Same(v) PROVE Stage(v)'
BY DEF Same, Stage, Plain

LEMMA CreateStages ==
  ASSUME Types, Stages, NEW w \in Requests,
         \/ BeginBuild(w) \/ FinishBuild(w) \/ CreateService(w)
         \/ CreateMachine(w) \/ RollBack(w)
  PROVE  Stages'
<1>1. \A v \in Requests \ {w} : Same(v)
  BY DEF Types, Same, BeginBuild, FinishBuild, CreateService, CreateMachine, RollBack,
     Called
<1>2. Stage(w)'
  <2> Stage(w)
    BY DEF Stages
  <2>1. CASE BeginBuild(w) \/ FinishBuild(w)
    BY <2>1 DEF BeginBuild, FinishBuild, Types, Stage, Plain
  <2>2. CASE CreateService(w)
    BY <2>2 DEF CreateService, Called, Outcome, Types, Stage, Plain
  <2>3. CASE CreateMachine(w)
    BY <2>3, TemplateIsMachine DEF CreateMachine, Called, Outcome, Types, Stage, Plain
  <2>4. CASE RollBack(w)
    BY <2>4 DEF RollBack, Called, Outcome, Types, Stage, Plain
  <2> QED BY <2>1, <2>2, <2>3, <2>4
<1> QED BY <1>1, <1>2, SameStage DEF Stages

LEMMA DeleteStages ==
  ASSUME Types, Stages, NEW w \in Requests, DeleteService(w) \/ DeleteMachine(w)
  PROVE  Stages'
<1>1. \A v \in Requests \ {w} : Same(v)
  BY DEF Types, Same, DeleteService, DeleteMachine
<1>2. Stage(w)'
  <2> Stage(w)
    BY DEF Stages
  <2>1. CASE DeleteService(w)
    BY <2>1 DEF DeleteService, Types, Stage, Plain
  <2>2. CASE DeleteMachine(w)
    BY <2>2 DEF DeleteMachine, Outcome, Types, Stage, Plain
  <2> QED BY <2>1, <2>2
<1> QED BY <1>1, <1>2, SameStage DEF Stages

LEMMA CrashStages == ASSUME Types, Stages, Crash PROVE Stages'
<1> SUFFICES ASSUME NEW w \in Requests PROVE Stage(w)'
  BY DEF Stages
<1>1. Stage(w)
  BY DEF Stages
<1>2. /\ creating'[w] = IF w \in UnderWay THEN "lost" ELSE creating[w]
      /\ deleting'[w] = IF deleting[w] = "service" THEN "failed" ELSE deleting[w]
      /\ UNCHANGED << services, machines, unsure >>
  BY DEF Crash
<1> QED BY <1>1, <1>2 DEF UnderWay, Stage, Plain, Types, Places

----------------------------------------------------------------------------
(* The template.                                                           *)

LEMMA BeginBuildSharing ==
  ASSUME Types, Stages, Sharing, NEW w \in Requests, BeginBuild(w)
  PROVE  Sharing'
<1>1. CASE ~HasImage[w]
  <2>1. /\ UNCHANGED << template, machines, shared >>
        /\ Building' = Building
        /\ \A v \in Requests : creating'[v] \in {"built", "service"} =>
                                 creating[v] \in {"built", "service"}
    BY <1>1 DEF BeginBuild, Types, Building
  <2> QED BY <2>1 DEF Sharing, Own
<1>2. CASE HasImage[w]
  <2>1. /\ creating[w] = "new"
        /\ template' = IF GpuOf[w] # NoGpu THEN [template EXCEPT !.gpu = GpuOf[w]]
                                           ELSE template
        /\ shared' = shared \cup Building \cup (IF Building = {} THEN {} ELSE {w})
        /\ UNCHANGED machines
        /\ creating'[w] = "building"
        /\ \A v \in Requests \ {w} : creating'[v] = creating[v]
    BY <1>2 DEF BeginBuild, Types
  <2>2. /\ template'.owner = template.owner
        /\ GpuOf[w] # NoGpu => template'.gpu = GpuOf[w]
    BY <2>1 DEF Types, Templates
  <2>3. Building' = Building \cup {w} /\ w \notin Building
    BY <2>1 DEF Building
  <2>4. machines[w] = Absent
    BY <2>1 DEF Stages, Stage
  <2> SUFFICES ASSUME NEW v \in Requests PROVE Own(v)'
    BY DEF Sharing
  <2>5. Own(v)
    BY DEF Sharing
  <2>6. CASE v = w
    BY <2>6, <2>1, <2>2, <2>3, <2>4 DEF Own
  <2>7. CASE v # w
    <3>1. v \in Building => v \in shared'
      BY <2>1
    <3>2. creating[v] \in {"built", "service"} => v \in Building
      BY DEF Building
    <3> QED BY <2>7, <2>1, <2>2, <2>3, <2>5, <3>1, <3>2 DEF Own
  <2> QED BY <2>6, <2>7
<1> QED BY <1>1, <1>2

LEMMA FinishBuildSharing ==
  ASSUME Types, Stages, Sharing, NEW w \in Requests, FinishBuild(w)
  PROVE  Sharing'
<1>1. /\ creating[w] = "building"
      /\ template'.owner = w /\ template'.gpu = template.gpu
      /\ creating'[w] = "built"
      /\ \A v \in Requests \ {w} : creating'[v] = creating[v]
      /\ UNCHANGED << machines, shared >>
  BY DEF FinishBuild, Types, Templates
<1>2. Building' = Building /\ w \in Building
  BY <1>1 DEF Building
<1> SUFFICES ASSUME NEW v \in Requests PROVE Own(v)'
  BY DEF Sharing
<1>3. Own(v)
  BY DEF Sharing
<1>4. w # NoRequest
  BY WorkloadAssumption
<1>5. creating[v] \in {"built", "service"} => v \in Building
  BY DEF Building
<1> QED BY <1>1, <1>2, <1>3, <1>4, <1>5 DEF Own

\* The other steps write no template: w goes on, and what becomes of its
\* machine is what matters.
Onward(w) ==
  /\ UNCHANGED << template, shared >>
  /\ \/ machines'[w] \in {machines[w], Absent}
     \/ creating[w] = "service" /\ machines'[w] = template
  /\ \/ creating'[w] = creating[w]
     \/ creating'[w] \notin {"building", "built", "service"}
     \/ creating'[w] = "service" /\ creating[w] = "built"
  /\ \A v \in Requests \ {w} : creating'[v] = creating[v] /\ machines'[v] = machines[v]

LEMMA OtherSharing ==
  ASSUME Types, Stages, Sharing, NEW w \in Requests, Onward(w)
  PROVE  Sharing'
<1> USE DEF Onward
<1>1. Building' \subseteq Building
  BY DEF Building
<1>2. creating[w] = "service" => template.owner # NoRequest /\ w \in Building
  BY DEF Sharing, Own, Building
<1> SUFFICES ASSUME NEW v \in Requests PROVE Own(v)'
  BY DEF Sharing
<1>3. Own(v)
  BY DEF Sharing
<1>4. v \in Building' /\ Building = {v} => Building' = {v}
  BY <1>1
<1>5. CASE v = w
  BY <1>1, <1>2, <1>3, <1>4, <1>5 DEF Own
<1>6. CASE v # w
  BY <1>1, <1>3, <1>4, <1>6 DEF Own
<1> QED BY <1>5, <1>6

LEMMA CrashSharing ==
  ASSUME Types, Stages, Sharing, Crash
  PROVE  Sharing'
<1>1. /\ \A w \in Requests : creating'[w] \notin {"building", "built", "service"}
      /\ UNCHANGED << machines, shared >>
  BY DEF Crash, UnderWay
<1>2. Building' = {}
  BY <1>1 DEF Building
<1> QED BY <1>1, <1>2 DEF Sharing, Own

----------------------------------------------------------------------------

\* One step keeps IInv.
LEMMA StepKeeps == IInv /\ [Next]_vars => IInv'
<1> SUFFICES ASSUME Types, Stages, Sharing, [Next]_vars PROVE IInv'
  BY DEF IInv
<1>1. ASSUME NEW w \in Requests, BeginBuild(w) PROVE IInv'
  BY <1>1, CreateTypes, CreateStages, BeginBuildSharing DEF IInv
<1>2. ASSUME NEW w \in Requests, FinishBuild(w) PROVE IInv'
  BY <1>2, CreateTypes, CreateStages, FinishBuildSharing DEF IInv
<1>3. ASSUME NEW w \in Requests, CreateService(w) \/ CreateMachine(w) \/ RollBack(w)
      PROVE IInv'
  <2>1. Onward(w)
    BY <1>3 DEF CreateService, CreateMachine, RollBack, Types, Onward
  <2>2. Sharing'
    BY <2>1, OtherSharing
  <2> QED BY <1>3, <2>2, CreateTypes, CreateStages DEF IInv
<1>4. ASSUME NEW w \in Requests, DeleteService(w) \/ DeleteMachine(w) PROVE IInv'
  <2>1. Onward(w)
    BY <1>4 DEF DeleteService, DeleteMachine, Types, Onward
  <2>2. Sharing'
    BY <2>1, OtherSharing
  <2> QED BY <1>4, <2>2, DeleteTypes, DeleteStages DEF IInv
<1>5. CASE Crash
  BY <1>5, CrashTypes, CrashStages, CrashSharing DEF IInv
<1>6. CASE UNCHANGED vars
  <2>1. Types'
    BY <1>6 DEF vars, Types
  <2>2. Stages'
    BY <1>6 DEF vars, Stages, Stage, Plain
  <2>3. Sharing'
    BY <1>6 DEF vars, Sharing, Own, Building
  <2> QED BY <2>1, <2>2, <2>3 DEF IInv
<1> QED BY <1>1, <1>2, <1>3, <1>4, <1>5, <1>6 DEF Next

\* The stages and the template stay in order (CreateVirtualMachineWorkload
\* and DeleteVirtualMachineWorkload).
THEOREM AlwaysInOrder == Spec => []IInv
BY InitIInv, StepKeeps, PTL DEF Spec

\* The state keeps its shape, and every machine's template was built.
THEOREM TypeCorrect == Spec => []TypeOK
<1>1. ASSUME IInv PROVE TypeOK
  <2>1. \A w \in Requests : machines[w] # Absent =>
          machines[w] \in [gpu : Gpus \cup {NoGpu}, owner : Requests]
    BY <1>1 DEF IInv, Types, Templates, Sharing, Own
  <2> QED BY <1>1, <2>1 DEF IInv, Types, Templates, Places, Stages, Stage, TypeOK
<1> QED BY <1>1, AlwaysInOrder, PTL

\* No half of a workload goes unreported (the rollback of
\* CreateVirtualMachineWorkload).
THEOREM AnswersAccount == Spec => []AnswerAccountsForObjects
<1>1. IInv => AnswerAccountsForObjects
  BY DEF IInv, Stages, Stage, AnswerAccountsForObjects
<1> QED BY <1>1, AlwaysInOrder, PTL

\* The service comes first and goes with the machine (the order of the calls
\* of CreateVirtualMachineWorkload), wherever the process ends.
THEOREM MachinesHaveServices == Spec => []MachineHasService
<1>1. IInv => MachineHasService
  BY DEF IInv, Stages, Stage, MachineHasService
<1> QED BY <1>1, AlwaysInOrder, PTL

\* Sharing the preset's template harms only requests that overlap (Build).
THEOREM AloneIsSafe == Spec => []AloneGetsItsOwn
<1>1. IInv => AloneGetsItsOwn
  BY DEF IInv, Sharing, Own, AloneGetsItsOwn
<1> QED BY <1>1, AlwaysInOrder, PTL
=============================================================================
