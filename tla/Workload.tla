------------------------------ MODULE Workload ------------------------------
(***************************************************************************)
(* The objects of a workload and their names (pkg/virt/manager.go, vm.go,  *)
(* pkg/utils/tools.go): what a request for a machine becomes at the API    *)
(* server.  Here the machine has its template to itself; WorkloadManager   *)
(* models the sharing.                                                     *)
(*                                                                         *)
(* A name is the sequence of its tokens, the parts between hyphens; the id *)
(* of a user is such a sequence too, since it may hold hyphens, and a uuid *)
(* is the sequence of its five groups.  A label or a field that is not set *)
(* is missing from the domain of its record.                               *)
(***************************************************************************)
EXTENDS Integers, FiniteSets, Sequences, SequencesExt

----------------------------------------------------------------------------
(* Names.                                                                  *)

GetTimeLowFromUUID(uuid) == uuid[1]

\* Variant for the mutation check: the name leaves the user out.
namingFuncUuidOnly(prefix, user, uuid) == << prefix, GetTimeLowFromUUID(uuid) >>

namingFunc(prefix, user, uuid) == << prefix >> \o user \o << GetTimeLowFromUUID(uuid) >>

NameServiceOnKubeResource(objectName, serviceType) ==
  << "svc" >> \o objectName \o << serviceType >>

ServiceTypes == {"ClusterIP", "NodePort"}
ToLower(type) == CASE type = "ClusterIP" -> "clusterip" [] type = "NodePort" -> "nodeport"

\* The type in the last token of an event's key, or an error: the empty set.
\* The first token of a key begins with the namespace, so a name of a single
\* token has no type.
GetServiceTypeFromEventKey(name) ==
  {t \in ServiceTypes : Len(name) > 1 /\ Last(name) = ToLower(t)}

----------------------------------------------------------------------------
(* Labels, and what the Watcher reads from them.                           *)

NewVirtualMachineLabels(t) ==
  [userid |-> t.user, imagecode |-> t.imageCode, uuid |-> t.uuid]

\* Build adds the kind of the volume to the labels, which machine, template
\* and volume have in common.
BuildLabels(b) ==
  [l \in {"userid", "imagecode", "uuid", "dvtype"} |->
     IF l = "dvtype" THEN "vm-image" ELSE b.labels[l]]

\* The workload that labels name; made(up) is the uuid that is made up.
WorkloadMetaFromLabels(labels, made) ==
  [owner |-> IF "userid" \in DOMAIN labels THEN labels.userid ELSE << "Anonymous" >>,
   uuid  |-> IF "uuid" \in DOMAIN labels THEN labels.uuid ELSE made]

Selects(selector, labels) ==
  \A l \in DOMAIN selector : l \in DOMAIN labels /\ labels[l] = selector[l]

----------------------------------------------------------------------------
(* The machine and its services.                                           *)

\* What Build works on: t is the request, image what its image code stands
\* for.
Builder(config, t, image, labels) ==
  [config |-> config, user |-> t.user, uuid |-> t.uuid, image |-> image, labels |-> labels]

\* The limits of the volume are parsed from an empty quantity.  MustParse is
\* taken to accept it, as the code expects; the README says what happens
\* where it panics instead.
Build(b) ==
  LET disk == namingFunc("dv", b.user, b.uuid)
  IN  [name      |-> namingFunc("vm", b.user, b.uuid),
       namespace |-> b.config.namespace,
       labels    |-> BuildLabels(b),
       template  |-> [labels |-> BuildLabels(b), boots |-> disk],
       volume    |-> [name   |-> disk,
                      labels |-> BuildLabels(b),
                      class  |-> b.config.storageClassName,
                      size   |-> b.image.size,
                      source |-> [name |-> b.image.name,
                                  namespace |-> b.config.baseImageNamespace]]]

NewVirtualMachineObject(config, t, image) ==
  Build(Builder(config, t, image, NewVirtualMachineLabels(t)))

\* Variant: a service carries the user's label only.
ServiceLabelsOfUser(labels) == [l \in {"userid"} |-> labels[l]]

ServiceLabels(labels) == [l \in {"userid", "uuid"} |-> labels[l]]

Service(vm, type) ==
  [name      |-> NameServiceOnKubeResource(vm.name, type),
   namespace |-> vm.namespace,
   labels    |-> ServiceLabels(vm.labels),
   selector  |-> ServiceLabels(vm.labels),
   port      |-> 22,
   type      |-> type]

\* The services that attachServices gives a machine: none, and an error
\* that NewVmWorkload does not look at, where a label is missing.
attachServices(vm) ==
  IF {"userid", "uuid"} \subseteq DOMAIN vm.labels
    THEN {Service(vm, type) : type \in ServiceTypes}
    ELSE {}

NewVmWorkload(config, t, image) ==
  LET vm == NewVirtualMachineObject(config, t, image)
  IN  [vm |-> vm, services |-> attachServices(vm)]

----------------------------------------------------------------------------
(* The address of the machine's network card, in eight bits.               *)

Bits == {1, 2, 4, 8, 16, 32, 64, 128}
HasBit(byte, bit) == (byte \div bit) % 2 = 1

\* x & y
bitAnd(x, y) ==
  SumFunction([bit \in Bits |-> IF HasBit(x, bit) /\ HasBit(y, bit) THEN bit ELSE 0])

\* A random byte and what NewUniCastMacAddress makes of it.
\* Variant for the mutation check: one is subtracted and nothing masked.
FirstOctetUnmasked(byte) == (byte - 1) % 256

FirstOctet(byte) == bitAnd(byte, (byte - 1) % 256)

----------------------------------------------------------------------------
(* What the names and labels of a workload are for, given two requests and *)
(* what becomes of them.                                                   *)

\* The four objects of a workload have four names, and two workloads have a
\* name in common only if they have all of them in common: when user and
\* first group of the uuid are the same, whatever hyphens are in the ids.
NamesOf(w) == {w.vm.name, w.vm.volume.name} \cup {s.name : s \in w.services}

AreToldApart(t1, w1, t2, w2) ==
  LET same == /\ t1.user = t2.user
              /\ GetTimeLowFromUUID(t1.uuid) = GetTimeLowFromUUID(t2.uuid)
  IN  /\ Cardinality(NamesOf(w1)) = 4 /\ Cardinality(NamesOf(w2)) = 4
      /\ IF same THEN NamesOf(w1) = NamesOf(w2)
                 ELSE NamesOf(w1) \cap NamesOf(w2) = {}

\* The labels of every object of a workload say who asked for it, and its
\* services lead to its own machine only.
LabelsOf(w) == {w.vm.labels, w.vm.volume.labels} \cup {s.labels : s \in w.services}

LabelsTellWhose(t1, w1, t2, w2, made) ==
  LET same == t1.user = t2.user /\ t1.uuid = t2.uuid
  IN  /\ \A labels \in LabelsOf(w1) : WorkloadMetaFromLabels(labels, made)
                                       = [owner |-> t1.user, uuid |-> t1.uuid]
      /\ \A s \in w1.services : /\ Selects(s.selector, w1.vm.template.labels)
                               /\ Selects(s.selector, w2.vm.template.labels) <=> same
=============================================================================
