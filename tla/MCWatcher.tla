----------------------------- MODULE MCWatcher -----------------------------
(***************************************************************************)
(* Small clusters for the Watcher.  The machine "web-clusterip" has a      *)
(* volume and a service of its own name, as a user may well name them, and *)
(* a NodePort service with another name; "plain" is a machine without the  *)
(* labels of kauloud.  The machine's name may pass to another workload.    *)
(***************************************************************************)
EXTENDS Watcher

CONSTANTS m1, m2, ip1, ip2,
          vm, dv, svc, port, plain,
          MCKeys,           \* which of these keys the cluster has
          MCVmMetas         \* the workloads that the machine can belong to

\* A volume is being filled, or is full.
MCVolumes(kinds) == {o \in [meta : {m1}, userImage : kinds, phase : {"InProgress", "Succeeded"},
                            progress : {"50.0%", "100.0%"}] :
                       o.phase = "Succeeded" <=> o.progress = "100.0%"}

MCOwners == [m \in Metas |-> "user"]

MCResourceOf == [k \in MCKeys |-> IF k \in {vm, plain} THEN "vm"
                                  ELSE IF k = dv THEN "dv" ELSE "svc"]

MCNameOf == [k \in MCKeys |-> IF k \in {vm, dv, svc} THEN "web-clusterip"
                              ELSE IF k = port THEN "web" ELSE "plain"]

MCServiceTypeOf == [n \in {"web-clusterip", "web", "plain"} |->
                      IF n = "web-clusterip" THEN "ClusterIP" ELSE NoType]

MCObjectsOf ==
  [k \in MCKeys |->
     CASE k = vm    -> [meta : MCVmMetas, created : BOOLEAN]
       [] k = plain -> [meta : {Unlabelled}, created : {TRUE}]
       [] k = dv    -> MCVolumes({TRUE}) \cup
                         {o \in MCVolumes({FALSE}) : o.phase = "Succeeded"}
       [] k = svc   -> [meta : {m1}, type : {"ClusterIP"}, ip : {ip1, ip2}]
       [] k = port  -> [meta : {m1}, type : {"NodePort"}, ip : {ip1}]]

ASSUME NamesAreFit == NamesAreTyped /\ NamesAreOwn
=============================================================================
