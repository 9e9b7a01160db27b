------------------------------ MODULE Catalog -------------------------------
(***************************************************************************)
(* What a request may choose from, and what it asks for: base images       *)
(* (ImageManager), instance types (InstanceTypeLister), and the parsing of *)
(* kauloud.Resources into resource lists and into the fields of a machine  *)
(* (pkg/virt/image.go, manager.go, vm.go, pkg/api/kauloud/type.go).        *)
(*                                                                         *)
(* A map is a function from the keys it holds.  The text of a quantity is  *)
(* a record of its form and number; amounts are in thousandths.            *)
(***************************************************************************)
EXTENDS ResourceLists, Workload

CONSTANTS UintSize,  \* how many numbers an uint32 has, 2^32,
          IntMax     \* and the largest one of an int, 2^63 - 1

ASSUME WidthAssumption ==
  UintSize \in Nat \ {0} /\ IntMax \in Nat /\ UintSize <= IntMax

\* list[key] = value
Put(list, key, value) ==
  [k \in DOMAIN list \cup {key} |-> IF k = key THEN value ELSE list[k]]

----------------------------------------------------------------------------
(* Base images.  A data volume is a record of its name, namespace, dvType  *)
(* (the label), size and annotations.                                      *)

\* Whether a list of the volumes with this label has dv.
listDataVolumeByLabel(dv, dvType) == dv.dvType = dvType

\* Without a version the type is not trusted either.
GetImageOsMetaFromAnnotation(annotations) ==
  [osType    |-> IF {"OsType", "OsVersion"} \subseteq DOMAIN annotations
                   THEN annotations.OsType ELSE "unknown",
   osVersion |-> IF "OsVersion" \in DOMAIN annotations
                   THEN annotations.OsVersion ELSE ""]

GetBaseImageMeta(dv) ==
  [name |-> dv.name, osMeta |-> GetImageOsMetaFromAnnotation(dv.annotations),
   size |-> dv.size]

HasCode(dv) == "imagecode" \in DOMAIN dv.annotations

ReferBaseImageMeta(list, code) == {list[c] : c \in DOMAIN list \cap {code}}

\* Variant for the mutation check: the label is not asked for.
LoadAnyImage(list, dv) ==
  IF HasCode(dv) /\ ReferBaseImageMeta(list, dv.annotations.imagecode) = {}
    THEN Put(list, dv.annotations.imagecode, GetBaseImageMeta(dv))
    ELSE list

\* The first volume of a code wins; one without a code is passed over.
LoadImage(list, dv) ==
  IF /\ listDataVolumeByLabel(dv, "base-image")
     /\ HasCode(dv)
     /\ ReferBaseImageMeta(list, dv.annotations.imagecode) = {}
    THEN Put(list, dv.annotations.imagecode, GetBaseImageMeta(dv))
    ELSE list

loadBaseImageMetaList(volumes) == FoldLeft(LoadImage, << >>, volumes)

\* Where the API server does not answer there are no images, and nothing
\* asks again.
NewImageManager(volumes, failed) ==
  IF failed THEN << >> ELSE loadBaseImageMetaList(volumes)

\* The workload that a request becomes before anything is created: none,
\* and an error, where no image has its code.
WorkloadFor(config, list, t) ==
  {NewVmWorkload(config, t, image) : image \in ReferBaseImageMeta(list, t.imageCode)}

\* The disk of workload w is cloned from a base image that carries the code,
\* and is as large as that image.
ClonesImage(w, volumes, code) ==
  \E i \in DOMAIN volumes :
    LET dv == volumes[i]
    IN  /\ dv.dvType = "base-image"
        /\ HasCode(dv) /\ dv.annotations.imagecode = code
        /\ w.vm.volume.source = [name |-> dv.name, namespace |-> dv.namespace]
        /\ w.vm.volume.size = dv.size

----------------------------------------------------------------------------
(* Quantities and resources.                                               *)

Whole(n) == [form |-> "whole", n |-> n]     \* "2", "-1": what Atoi reads
Milli(n) == [form |-> "milli", n |-> n]     \* "500m", "1.5", "4Gi": it does not
Empty    == [form |-> "empty", n |-> 0]     \* ""
Malformed == [form |-> "malformed", n |-> 0]

\* n, or the bound that it is beyond.
Clamp(n, low, high) == IF n < low THEN low ELSE IF n > high THEN high ELSE n

\* A quantity has a sign, and is cut at the largest amount there is.
ParseQuantity(text) ==
  IF text.form = "milli" THEN Clamp(text.n, -1000 * IntMax, 1000 * IntMax)
                         ELSE 1000 * Clamp(text.n, -IntMax, IntMax)
Parses(text) == text.form \in {"whole", "milli"}

\* Variant: the device is asked for only where there is none.
ParseResourceListWithoutGpu(r) ==
  [name \in {"cpu", "memory"} \cup (IF r.gpu.enabled THEN {} ELSE {r.gpu.deviceName}) |->
     IF name = "cpu" THEN ParseQuantity(r.cpu)
     ELSE IF name = "memory" THEN ParseQuantity(r.memory) ELSE 1000]

\* What CheckAvailability is asked for: one of the GPU's device, also where
\* the GPU is not enabled, and its name, then, may be empty.  The device
\* comes last, so of two entries with one name it stays.
ParseResourceList(r) ==
  [name \in {"cpu", "memory", r.gpu.deviceName} |->
     IF name = r.gpu.deviceName THEN 1000
     ELSE ParseQuantity(IF name = "cpu" THEN r.cpu ELSE r.memory)]

\* ParseResourceList returns no error.
Acceptable(r) == Parses(r.cpu) /\ Parses(r.memory)

GetCpuMemoryResourceList(cpu, memory) ==
  [name \in {n \in {"cpu", "memory"} :
               (IF n = "cpu" THEN cpu ELSE memory).form # "empty"} |->
     ParseQuantity(IF name = "cpu" THEN cpu ELSE memory)]

\* MustParse: an empty quantity is left out, any other must parse.
Panics(r) == \E text \in {r.cpu, r.memory} : text # Empty /\ ~Parses(text)

\* The error is dropped: zero of what is no number, the bound of what is out
\* of range.
Atoi(text) == IF text.form = "whole" THEN Clamp(text.n, -IntMax - 1, IntMax) ELSE 0

\* Of a number that does not fit in 32 bits the upper ones are cut off.
StringAsUint32(text) == Atoi(text) % UintSize

\* What Build makes of the resources: cores, requests (equal to the limits)
\* and devices of the machine.
BuildResources(r) ==
  [cores    |-> StringAsUint32(r.cpu),
   requests |-> GetCpuMemoryResourceList(r.cpu, r.memory),
   devices  |-> IF r.gpu.enabled THEN {r.gpu.deviceName} ELSE {}]

\* The machine requests what was demanded of cpu and memory, every device of
\* it was demanded, and of a whole number of cpus it has as many cores just
\* if that number is one of 32 bits without a sign.
Covers(demand, machine, r) ==
  /\ DOMAIN machine.requests = {"cpu", "memory"}
  /\ \A name \in {"cpu", "memory"} : machine.requests[name] = demand[name]
  /\ \A device \in machine.devices : Amount(demand, device) = 1000
  /\ r.cpu.form = "whole" =>
       (1000 * machine.cores = demand["cpu"] <=> r.cpu.n \in 0 .. UintSize - 1)

----------------------------------------------------------------------------
(* Instance types.                                                         *)

IsValid(t) == t.code > 0 /\ t.name # ""

GpuOf(enabled) == [enabled |-> enabled, deviceName |-> ""]

DefaultInstanceTypes ==
  LET type(code, name, cpu, gib, gpu) ==
        [code |-> code, name |-> name,
         resources |-> [cpu |-> Whole(cpu), memory |-> Whole(gib), gpu |-> GpuOf(gpu)]]
  IN  << type(1, "InstanceType-CPU-Micro", 1, 2, FALSE),
         type(2, "InstanceType-CPU-c24", 2, 4, FALSE),
         type(3, "InstanceType-CPU-c48", 4, 8, FALSE),
         type(4, "InstanceType-GPU-g48", 4, 8, TRUE) >>

SetInstanceType(list, t) == Put(list, t.code, t)

\* The defaults are not looked at: of two with one code the later one stays.
NewInstanceTypeLister(defaults) == FoldLeft(SetInstanceType, << >>, defaults)

AddInstanceType(list, t) == IF IsValid(t) THEN SetInstanceType(list, t) ELSE list

\* What is offered under a code has that code, which is positive, and a name.
AreOffers(list) ==
  \A code \in DOMAIN list : list[code].code = code /\ code > 0 /\ list[code].name # ""

DeleteInstanceType(list, code) == [c \in DOMAIN list \ {code} |-> list[c]]

GetInstanceType(list, code) == {list[c] : c \in DOMAIN list \cap {code}}
=============================================================================
