------------------------------ MODULE MCCloud -------------------------------
(* One workload: whatever the Watcher and the manager keep, they keep by    *)
(* workload, but for the template, which WorkloadManager is about.          *)
EXTENDS Cloud

MCKeys == Requests \X {"vm", "dv", "svc"}
MCResourceOf == [k \in MCKeys |-> k[2]]
MCNameOf == [k \in MCKeys |-> k]
MCServiceTypeOf == [n \in MCKeys |-> NoType]
MCObjectsOf == [k \in MCKeys |-> {WorkloadObject(k)}]
MCOwners == [w \in Requests |-> "user"]
MCGpuOf == [w \in Requests |-> NoGpu]
MCHasImage == [w \in Requests |-> TRUE]
=============================================================================
