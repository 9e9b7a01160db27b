---------------------------- MODULE FunctionProofs ---------------------------
(***************************************************************************)
(* The properties of PureFunctions, for every input that its assumption    *)
(* admits: what names and labels tell, what comes of a choice of image,    *)
(* quantities and instance types, and, from the theorems about resource    *)
(* lists, what is booked for a pod and how that is undone.                 *)
(***************************************************************************)
EXTENDS PureFunctions, ResourceListsProofs

----------------------------------------------------------------------------
(* Why WorkloadManager may take a workload for its request: names and       *)
(* labels are its own, whatever the ids of users are made of.              *)

NameOf(first, between, last) == << first >> \o between \o << last >>

LEMMA PartsOfName ==
  ASSUME NEW S, NEW p \in S, NEW s \in Seq(S), NEW l \in S
  PROVE  /\ NameOf(p, s, l) \in Seq(S) /\ Len(NameOf(p, s, l)) = Len(s) + 2
         /\ NameOf(p, s, l)[1] = p /\ NameOf(p, s, l)[Len(s) + 2] = l
         /\ \A i \in 1..Len(s) : NameOf(p, s, l)[i + 1] = s[i]
<1> DEFINE first == << p >> \o s
           last == << l >>
           name == first \o last
<1>1. /\ << p >> \in Seq(S) /\ Len(<< p >>) = 1 /\ << p >>[1] = p
      /\ last \in Seq(S) /\ Len(last) = 1 /\ last[1] = l
      /\ Len(s) \in Nat
  OBVIOUS
<1>2. /\ first \in Seq(S) /\ Len(first) = Len(s) + 1
      /\ first[1] = p /\ \A i \in 1..Len(s) : first[i + 1] = s[i]
  BY <1>1, ConcatProperties
<1> HIDE DEF first, last
<1>3. /\ name \in Seq(S) /\ Len(name) = Len(first) + Len(last)
      /\ \A i \in 1 .. Len(first) + Len(last) :
           name[i] = IF i <= Len(first) THEN first[i] ELSE last[i - Len(first)]
  BY <1>1, <1>2, ConcatProperties, Zenon
<1> HIDE DEF name
<1>4. name[1] = p /\ name[Len(s) + 2] = l
  <2>1. name[1] = first[1]
    BY <1>1, <1>2, <1>3
  <2>2. name[Len(s) + 2] = last[1]
    BY <1>1, <1>2, <1>3
  <2> QED BY <1>1, <1>2, <2>1, <2>2
<1>6. ASSUME NEW i \in 1..Len(s) PROVE name[i + 1] = s[i]
  <2>1. i + 1 \in 1 .. Len(first) + Len(last) /\ i + 1 <= Len(first)
    BY <1>1, <1>2
  <2> QED BY <1>2, <1>3, <2>1
<1>5. NameOf(p, s, l) = name
  BY DEF NameOf, name, first, last
<1> QED BY <1>1, <1>2, <1>3, <1>4, <1>5, <1>6

\* The first and the last token and what is between them can be told from a
\* name.
LEMMA NameTellsItsParts ==
  ASSUME NEW S, NEW p \in S, NEW s \in Seq(S), NEW l \in S,
         NEW q \in S, NEW t \in Seq(S), NEW m \in S
  PROVE  NameOf(p, s, l) = NameOf(q, t, m) => p = q /\ s = t /\ l = m
<1> DEFINE one == NameOf(p, s, l)
           other == NameOf(q, t, m)
<1>1. /\ Len(one) = Len(s) + 2 /\ one[1] = p /\ one[Len(s) + 2] = l
      /\ \A i \in 1..Len(s) : one[i + 1] = s[i]
  BY PartsOfName
<1>2. /\ Len(other) = Len(t) + 2 /\ other[1] = q /\ other[Len(t) + 2] = m
      /\ \A i \in 1..Len(t) : other[i + 1] = t[i]
  BY PartsOfName
<1> HIDE DEF one, other
<1>3. ASSUME one = other PROVE p = q /\ s = t /\ l = m
  <2>1. Len(s) = Len(t) /\ Len(s) \in Nat
    BY <1>1, <1>2, <1>3
  <2>2. \A i \in 1..Len(s) : s[i] = t[i]
    BY <1>1, <1>2, <1>3, <2>1
  <2>3. s = t
    BY <2>1, <2>2, SeqEqual
  <2> QED BY <1>1, <1>2, <1>3, <2>1, <2>3
<1> QED BY <1>3 DEF one, other

VmName(t) == NameOf("vm", t.user, t.uuid[1])
DiskName(t) == NameOf("dv", t.user, t.uuid[1])
ServiceName(t, type) == NameOf("svc", VmName(t), type)

LEMMA WorkloadOf ==
  ASSUME NEW config, NEW t, NEW image
  PROVE  LET w == NewVmWorkload(config, t, image)
             labels == [l \in {"userid", "uuid"} |-> IF l = "userid" THEN t.user ELSE t.uuid]
         IN  /\ NamesOf(w) = {VmName(t), DiskName(t),
                  ServiceName(t, "ClusterIP"), ServiceName(t, "NodePort")}
             /\ \A s \in w.services : s.labels = labels /\ s.selector = labels
             /\ \A given \in {w.vm.labels, w.vm.volume.labels, w.vm.template.labels} :
                  /\ {"userid", "uuid"} \subseteq DOMAIN given
                  /\ given.userid = t.user /\ given.uuid = t.uuid
<1> DEFINE w == NewVmWorkload(config, t, image)
           vm == NewVirtualMachineObject(config, t, image)
           labels == [l \in {"userid", "uuid"} |-> IF l = "userid" THEN t.user ELSE t.uuid]
           all == [l \in {"userid", "imagecode", "uuid", "dvtype"} |->
                     IF l = "dvtype" THEN "vm-image" ELSE
                       [userid |-> t.user, imagecode |-> t.imageCode, uuid |-> t.uuid][l]]
<1>1. /\ vm.name = VmName(t) /\ vm.volume.name = DiskName(t)
      /\ vm.labels = all /\ vm.volume.labels = all /\ vm.template.labels = all
  BY DEF NewVirtualMachineObject, Build, Builder,
         BuildLabels, NewVirtualMachineLabels, namingFunc,
         GetTimeLowFromUUID, VmName, DiskName, NameOf
<1>2. /\ DOMAIN all = {"userid", "imagecode", "uuid", "dvtype"}
      /\ all.userid = t.user /\ all.uuid = t.uuid
  OBVIOUS
<1> HIDE DEF all, vm
<1>3. ServiceLabels(vm.labels) = labels
  BY <1>1, <1>2 DEF ServiceLabels
<1>4. w.vm = vm /\ w.services = {Service(vm, "ClusterIP"), Service(vm, "NodePort")}
  BY <1>1, <1>2 DEF NewVmWorkload, vm, attachServices, ServiceTypes
<1> HIDE DEF w
<1>5. \A type : /\ Service(vm, type).name = ServiceName(t, type)
                /\ Service(vm, type).labels = labels
                /\ Service(vm, type).selector = labels
  BY <1>1, <1>3 DEF Service, ServiceName, NameServiceOnKubeResource, NameOf
<1>6. {s.name : s \in w.services} = {ServiceName(t, "ClusterIP"), ServiceName(t, "NodePort")}
  BY <1>4, <1>5
<1> HIDE DEF labels
<1>7. \A s \in w.services : s.labels = labels /\ s.selector = labels
  BY <1>4, <1>5
<1>8. NamesOf(w) = {VmName(t), DiskName(t),
         ServiceName(t, "ClusterIP"), ServiceName(t, "NodePort")}
  BY <1>1, <1>4, <1>6 DEF NamesOf
<1>9. \A given \in {w.vm.labels, w.vm.volume.labels, w.vm.template.labels} :
        /\ {"userid", "uuid"} \subseteq DOMAIN given
        /\ given.userid = t.user /\ given.uuid = t.uuid
  BY <1>1, <1>2, <1>4
<1> QED BY <1>7, <1>8, <1>9 DEF labels, w

\* Objects of two workloads have one name only if they are of one kind, and
\* user and first group are the same.
LEMMA NamesMeet ==
  ASSUME NEW tokens, Fixed \subseteq tokens,
         NEW t, AsksIn(tokens, t), NEW u, AsksIn(tokens, u),
         NEW type \in {"ClusterIP", "NodePort"}, NEW other \in {"ClusterIP", "NodePort"}
  PROVE  LET same == t.user = u.user /\ t.uuid[1] = u.uuid[1]
         IN  /\ VmName(t) = VmName(u) <=> same
             /\ DiskName(t) = DiskName(u) <=> same
             /\ ServiceName(t, type) = ServiceName(u, other) <=> same /\ type = other
             /\ VmName(t) # DiskName(u) /\ DiskName(t) # VmName(u)
             /\ ServiceName(t, type) \notin {VmName(u), DiskName(u)}
             /\ ServiceName(u, other) \notin {VmName(t), DiskName(t)}
<1> DEFINE same == t.user = u.user /\ t.uuid[1] = u.uuid[1]
<1>1. /\ "vm" \in tokens /\ "dv" \in tokens /\ "svc" \in tokens
      /\ type \in tokens /\ other \in tokens
      /\ t.user \in Seq(tokens) /\ t.uuid[1] \in tokens
      /\ u.user \in Seq(tokens) /\ u.uuid[1] \in tokens
  BY DEF Fixed, AsksIn
<1>2. VmName(t) \in Seq(tokens) /\ VmName(u) \in Seq(tokens)
  BY <1>1, PartsOfName DEF VmName
<1>3. VmName(t) = VmName(u) <=> same
  BY <1>1, NameTellsItsParts DEF VmName
<1>4. DiskName(t) = DiskName(u) <=> same
  BY <1>1, NameTellsItsParts DEF DiskName
<1>5. ServiceName(t, type) = ServiceName(u, other) <=> same /\ type = other
  <2>1. ServiceName(t, type) = ServiceName(u, other) => VmName(t) = VmName(u) /\ type = other
    BY <1>1, <1>2, NameTellsItsParts DEF ServiceName
  <2> QED BY <2>1, <1>3 DEF ServiceName
<1>6. VmName(t) # DiskName(u) /\ DiskName(t) # VmName(u)
  <2>1. "vm" # "dv"
    OBVIOUS
  <2> QED BY <1>1, <2>1, NameTellsItsParts DEF VmName, DiskName
<1>7. /\ ServiceName(t, type) \notin {VmName(u), DiskName(u)}
      /\ ServiceName(u, other) \notin {VmName(t), DiskName(t)}
  <2>1. "svc" # "vm" /\ "svc" # "dv"
    OBVIOUS
  <2>2. ServiceName(t, type)[1] = "svc" /\ ServiceName(u, other)[1] = "svc"
    BY <1>1, <1>2, PartsOfName DEF ServiceName
  <2>3. ASSUME NEW p \in tokens, NEW v \in {t, u}
        PROVE  NameOf(p, v.user, v.uuid[1])[1] = p
    <3>1. ASSUME NEW s \in Seq(tokens), NEW l \in tokens
          PROVE  NameOf(p, s, l)[1] = p
      BY PartsOfName
    <3>2. v.user \in Seq(tokens) /\ v.uuid[1] \in tokens
      BY <1>1
    <3> QED BY <3>1, <3>2
  <2>4. /\ VmName(t)[1] = "vm" /\ DiskName(t)[1] = "dv"
        /\ VmName(u)[1] = "vm" /\ DiskName(u)[1] = "dv"
    <3>1. VmName(t)[1] = "vm"
      BY <1>1, <2>3 DEF VmName
    <3>2. DiskName(t)[1] = "dv"
      BY <1>1, <2>3 DEF DiskName
    <3>3. VmName(u)[1] = "vm"
      BY <1>1, <2>3 DEF VmName
    <3>4. DiskName(u)[1] = "dv"
      BY <1>1, <2>3 DEF DiskName
    <3> QED BY <3>1, <3>2, <3>3, <3>4
  <2> QED BY <2>1, <2>2, <2>4
<1> QED BY <1>3, <1>4, <1>5, <1>6, <1>7

LEMMA FourAreFour ==
  ASSUME NEW a, NEW b, NEW c, NEW d, a # b, a # c, a # d, b # c, b # d, c # d
  PROVE  Cardinality({a, b, c, d}) = 4
<1>1. IsFiniteSet({a}) /\ Cardinality({a}) = 1
  BY FS_Singleton
<1>2. IsFiniteSet({a, b}) /\ Cardinality({a, b}) = 2
  <2>1. {a, b} = {a} \cup {b} /\ b \notin {a}
    OBVIOUS
  <2> QED BY <1>1, <2>1, FS_AddElement
<1>3. IsFiniteSet({a, b, c}) /\ Cardinality({a, b, c}) = 3
  <2>1. {a, b, c} = {a, b} \cup {c} /\ c \notin {a, b}
    OBVIOUS
  <2> QED BY <1>2, <2>1, FS_AddElement
<1>4. {a, b, c, d} = {a, b, c} \cup {d} /\ d \notin {a, b, c}
  OBVIOUS
<1> QED BY <1>3, <1>4, FS_AddElement

LEMMA FourNames ==
  ASSUME NEW tokens, Fixed \subseteq tokens, NEW t, AsksIn(tokens, t)
  PROVE  Cardinality({VmName(t), DiskName(t),
           ServiceName(t, "ClusterIP"), ServiceName(t, "NodePort")}) = 4
<1>1. /\ VmName(t) # DiskName(t)
      /\ ServiceName(t, "ClusterIP") \notin {VmName(t), DiskName(t)}
      /\ ServiceName(t, "NodePort") \notin {VmName(t), DiskName(t)}
  BY NamesMeet
<1>2. ServiceName(t, "ClusterIP") # ServiceName(t, "NodePort")
  <2>1. "ClusterIP" # "NodePort"
    OBVIOUS
  <2> QED BY <2>1, NamesMeet
<1> QED BY <1>1, <1>2, FourAreFour

\* The four objects of a workload have four names, and another workload has
\* one of them only if it has all four (Build, NameServiceOnKubeResource),
\* whatever tokens the ids of users are made of.
THEOREM WorkloadsAreToldApart ==
  ASSUME NEW tokens, Fixed \subseteq tokens,
         NEW t, AsksIn(tokens, t), NEW u, AsksIn(tokens, u),
         NEW config, NEW image, NEW another
  PROVE  AreToldApart(t, NewVmWorkload(config, t, image),
                      u, NewVmWorkload(config, u, another))
<1> DEFINE v == NewVmWorkload(config, t, image)
           w == NewVmWorkload(config, u, another)
           names(r) == {VmName(r), DiskName(r),
                        ServiceName(r, "ClusterIP"), ServiceName(r, "NodePort")}
           same == t.user = u.user /\ t.uuid[1] = u.uuid[1]
<1>1. NamesOf(v) = names(t) /\ NamesOf(w) = names(u)
  BY WorkloadOf
<1>2. Cardinality(names(t)) = 4 /\ Cardinality(names(u)) = 4
  BY FourNames
<1>3. CASE same
  <2>1. VmName(t) = VmName(u) /\ DiskName(t) = DiskName(u)
    BY <1>3 DEF VmName, DiskName
  <2>2. names(t) = names(u)
    BY <2>1 DEF ServiceName
  <2> QED BY <1>1, <1>2, <1>3, <2>2 DEF AreToldApart, GetTimeLowFromUUID
<1>4. CASE ~same
  <2>1. /\ VmName(t) \notin names(u) /\ DiskName(t) \notin names(u)
        /\ ServiceName(t, "ClusterIP") \notin names(u)
        /\ ServiceName(t, "NodePort") \notin names(u)
    BY <1>4, NamesMeet
  <2>2. names(t) \cap names(u) = {}
    BY <2>1
  <2> QED BY <1>1, <1>2, <1>4, <2>2 DEF AreToldApart, GetTimeLowFromUUID
<1> QED BY <1>3, <1>4

\* The labels of every object of a workload name its user and its uuid, and
\* its services select its own machine and no other (attachServices,
\* ExtractWorkloadMetaFromLabels).
THEOREM LabelsAreTheirOwn ==
  ASSUME NEW t, NEW u, NEW config, NEW image, NEW another, NEW made
  PROVE  LabelsTellWhose(t, NewVmWorkload(config, t, image),
                         u, NewVmWorkload(config, u, another), made)
<1> DEFINE v == NewVmWorkload(config, t, image)
           w == NewVmWorkload(config, u, another)
           labels == [l \in {"userid", "uuid"} |-> IF l = "userid" THEN t.user ELSE t.uuid]
           same == t.user = u.user /\ t.uuid = u.uuid
           Carries(given, r) == /\ {"userid", "uuid"} \subseteq DOMAIN given
                                /\ given.userid = r.user /\ given.uuid = r.uuid
<1>1. /\ \A s \in v.services : s.labels = labels /\ s.selector = labels
      /\ \A given \in {v.vm.labels, v.vm.volume.labels, v.vm.template.labels} : Carries(given, t)
      /\ Carries(w.vm.template.labels, u)
  BY WorkloadOf
<1> HIDE DEF v, w
<1>2. Carries(labels, t)
  OBVIOUS
<1>3. \A given \in LabelsOf(v) : Carries(given, t)
  <2> HIDE DEF labels, Carries
  <2> QED BY <1>1, <1>2 DEF LabelsOf
<1>4. \A given \in LabelsOf(v) : WorkloadMetaFromLabels(given, made)
                                         = [owner |-> t.user, uuid |-> t.uuid]
  BY <1>3 DEF WorkloadMetaFromLabels
<1>5. \A given, r : Carries(given, r) =>
        (Selects(labels, given) <=> t.user = r.user /\ t.uuid = r.uuid)
  BY DEF Selects
<1>6. \A s \in v.services : /\ Selects(s.selector, v.vm.template.labels)
                            /\ Selects(s.selector, w.vm.template.labels) <=> same
  <2> HIDE DEF labels, Carries
  <2> QED BY <1>1, <1>5
<1> QED BY <1>4, <1>6 DEF LabelsTellWhose, v, w
----------------------------------------------------------------------------
(* Base images: of every code the first one in the list.                   *)

LEMMA SmallestExists ==
  ASSUME NEW S, S \subseteq Nat, S # {}
  PROVE  \E m \in S : \A x \in S : m <= x
<1> SUFFICES ASSUME \A m \in S : \E x \in S : ~(m <= x) PROVE FALSE
  OBVIOUS
<1> DEFINE T == {n \in Nat : \A x \in S : n <= x}
<1>1. 0 \in T
  OBVIOUS
<1>2. ASSUME NEW n \in T PROVE n + 1 \in T
  <2>1. n \in Nat /\ n \notin S /\ \A x \in S : n <= x
    OBVIOUS
  <2> QED BY <2>1
<1>3. T \subseteq Nat
  OBVIOUS
<1> HIDE DEF T
<1>4. T = Nat
  BY <1>1, <1>2, <1>3, AllNumbers
<1>5. PICK x \in S : TRUE
  OBVIOUS
<1>6. x + 1 \in T
  BY <1>4
<1> QED BY <1>5, <1>6 DEF T

IsImage(dv) == listDataVolumeByLabel(dv, "base-image") /\ HasCode(dv)
CarriersOf(volumes, s, code) ==
  {i \in s : IsImage(volumes[i]) /\ volumes[i].annotations.imagecode = code}
CodesIn(volumes, s) == {volumes[i].annotations.imagecode : i \in {j \in s : IsImage(volumes[j])}}
FirstOf(volumes, s, code) ==
  CHOOSE i \in CarriersOf(volumes, s, code) :
    \A j \in CarriersOf(volumes, s, code) : i <= j
ImagesOf(volumes, s) ==
  [code \in CodesIn(volumes, s) |-> GetBaseImageMeta(volumes[FirstOf(volumes, s, code)])]
LoadStep(volumes, g, s) ==
  IF s = {} THEN << >> ELSE LoadImage(g[s \ {Max(s)}], volumes[Max(s)])

LEMMA FirstIs ==
  ASSUME NEW volumes, Indices(volumes), NEW s \in SUBSET DOMAIN volumes, NEW code
  PROVE  /\ code \in CodesIn(volumes, s) <=> CarriersOf(volumes, s, code) # {}
         /\ code \in CodesIn(volumes, s) =>
              /\ FirstOf(volumes, s, code) \in CarriersOf(volumes, s, code)
              /\ \A j \in CarriersOf(volumes, s, code) : FirstOf(volumes, s, code) <= j
<1> DEFINE carriers == CarriersOf(volumes, s, code)
<1>1. code \in CodesIn(volumes, s) <=> carriers # {}
  BY DEF CodesIn, CarriersOf
<1>2. carriers \subseteq Nat
  BY DEF CarriersOf, Indices
<1>3. FirstOf(volumes, s, code) = CHOOSE i \in carriers : \A j \in carriers : i <= j
  BY DEF FirstOf
<1> HIDE DEF carriers
<1>4. carriers # {} => /\ FirstOf(volumes, s, code) \in carriers
                       /\ \A j \in carriers : FirstOf(volumes, s, code) <= j
  BY <1>2, <1>3, SmallestExists
<1> QED BY <1>1, <1>4 DEF carriers

LEMMA ImageStep ==
  ASSUME NEW volumes, Indices(volumes), NEW s \in SUBSET DOMAIN volumes, s # {}
  PROVE  ImagesOf(volumes, s) = LoadImage(ImagesOf(volumes, s \ {Max(s)}), volumes[Max(s)])
<1> DEFINE m == Max(s)
           rest == s \ {m}
           dv == volumes[m]
           new == dv.annotations.imagecode
           before == ImagesOf(volumes, rest)
<1>1. /\ m \in s /\ \A i \in s : i <= m
      /\ m \in Nat /\ s \subseteq Nat
      /\ rest \in SUBSET DOMAIN volumes
  <2>1. IsFiniteSet(s) /\ s \subseteq Nat
    BY FS_Subset DEF Indices
  <2>2. s \subseteq Int
    BY <2>1
  <2> QED BY <2>1, <2>2, MaxIsLargest
<1>2. DOMAIN before = CodesIn(volumes, rest)
  BY DEF ImagesOf
<1>3. ASSUME NEW code \in CodesIn(volumes, rest)
      PROVE  /\ code \in CodesIn(volumes, s)
             /\ FirstOf(volumes, s, code) = FirstOf(volumes, rest, code)
  <2> DEFINE old == FirstOf(volumes, rest, code)
             first == FirstOf(volumes, s, code)
  <2>1. /\ old \in CarriersOf(volumes, rest, code)
        /\ \A j \in CarriersOf(volumes, rest, code) : old <= j
    BY <1>1, FirstIs
  <2>2. old \in CarriersOf(volumes, s, code) /\ old \in Nat /\ old <= m /\ old # m
    BY <1>1, <2>1 DEF CarriersOf
  <2>3. /\ code \in CodesIn(volumes, s)
        /\ first \in CarriersOf(volumes, s, code) /\ first <= old
    BY <1>1, <2>2, FirstIs
  <2>4. first \in Nat /\ first # m
    BY <1>1, <2>2, <2>3 DEF CarriersOf
  <2>5. first \in CarriersOf(volumes, rest, code)
    BY <2>3, <2>4 DEF CarriersOf
  <2>6. old <= first
    BY <2>1, <2>5
  <2> HIDE DEF old, first
  <2>7. old = first
    BY <2>2, <2>3, <2>4, <2>6
  <2> QED BY <2>3, <2>7 DEF old, first
<1>4. ASSUME IsImage(dv), new \notin CodesIn(volumes, rest)
      PROVE  FirstOf(volumes, s, new) = m
  <2>1. new \in CodesIn(volumes, s)
    BY <1>1, <1>4 DEF CodesIn
  <2>2. FirstOf(volumes, s, new) \in CarriersOf(volumes, s, new)
    BY <2>1, FirstIs
  <2>3. CarriersOf(volumes, rest, new) = {}
    BY <1>1, <1>4, FirstIs
  <2> QED BY <2>2, <2>3 DEF CarriersOf
<1>5. CASE ~IsImage(dv)
  <2>1. CodesIn(volumes, s) = CodesIn(volumes, rest)
    BY <1>1, <1>5 DEF CodesIn
  <2>2. ImagesOf(volumes, s) = before
    BY <1>3, <2>1 DEF ImagesOf
  <2> QED BY <1>5, <2>2 DEF LoadImage, IsImage
<1>6. CASE IsImage(dv)
  <2>1. CodesIn(volumes, s) = CodesIn(volumes, rest) \cup {new}
    BY <1>1, <1>6 DEF CodesIn
  <2>2. LoadImage(before, dv)
          = [code \in CodesIn(volumes, rest) \cup {new} |->
               IF code \in CodesIn(volumes, rest) THEN before[code] ELSE GetBaseImageMeta(dv)]
    <3>1. CASE new \in CodesIn(volumes, rest)
      <4>1. LoadImage(before, dv) = before
        BY <1>2, <3>1 DEF LoadImage, ReferBaseImageMeta
      <4> QED BY <1>2, <3>1, <4>1 DEF ImagesOf
    <3>2. CASE new \notin CodesIn(volumes, rest)
      <4>1. LoadImage(before, dv) = Put(before, new, GetBaseImageMeta(dv))
        BY <1>2, <1>6, <3>2 DEF LoadImage, IsImage, ReferBaseImageMeta
      <4> HIDE DEF before
      <4> QED BY <1>2, <3>2, <4>1 DEF Put
    <3> QED BY <3>1, <3>2
  <2>3. \A code \in CodesIn(volumes, s) :
          GetBaseImageMeta(volumes[FirstOf(volumes, s, code)])
            = IF code \in CodesIn(volumes, rest) THEN before[code] ELSE GetBaseImageMeta(dv)
    BY <1>3, <1>4, <1>6, <2>1 DEF ImagesOf
  <2> QED BY <2>1, <2>2, <2>3 DEF ImagesOf
<1> QED BY <1>5, <1>6

LEMMA ListOfImagesIs ==
  ASSUME NEW volumes, Indices(volumes)
  PROVE  loadBaseImageMetaList(volumes) = ImagesOf(volumes, DOMAIN volumes)
<1> DEFINE D == DOMAIN volumes
           Folds(g) == g = [s \in SUBSET D |-> LoadStep(volumes, g, s)]
           h == CHOOSE g : Folds(g)
           images == [s \in SUBSET D |-> ImagesOf(volumes, s)]
           T == {s \in SUBSET D : h[s] = images[s]}
<1>1. loadBaseImageMetaList(volumes) = h[D]
  BY DEF loadBaseImageMetaList, FoldLeft, MapThenFoldSet, LoadStep
<1>2. ImagesOf(volumes, {}) = << >>
  BY DEF ImagesOf, CodesIn
<1>3. ASSUME NEW s \in SUBSET D PROVE images[s] = LoadStep(volumes, images, s)
  BY <1>2, ImageStep DEF LoadStep
<1>4. Folds(images)
  <2> HIDE DEF images
  <2>1. images = [s \in SUBSET D |-> images[s]]
    BY DEF images
  <2> QED BY <1>3, <2>1
<1> HIDE DEF images, Folds
<1>5. Folds(h)
  BY <1>4
<1> HIDE DEF h
<1>6. \A s \in SUBSET D : h[s] = LoadStep(volumes, h, s)
  BY <1>5 DEF Folds
<1>7. ASSUME NEW s \in SUBSET D, \A x \in s : s \ {x} \in T PROVE s \in T
  BY <1>3, <1>6, <1>7, LastIndex DEF LoadStep
<1>8. IsFiniteSet(D)
  BY DEF Indices
<1> HIDE DEF T
<1>9. SUBSET D \subseteq T
  BY <1>7, <1>8, AllSubsets
<1> QED BY <1>1, <1>9 DEF T, images

\* However many volumes there are, with whatever labels and annotations,
\* the disk of every machine is cloned from a base image of the code that
\* the request names, and is as large, where images are in the namespace
\* that disks are cloned from (loadBaseImageMetaList, Build).
THEOREM DisksCloneTheirImage ==
  ASSUME NEW S, NEW volumes \in Seq(S), NEW config,
         \A i \in DOMAIN volumes : volumes[i].namespace = config.baseImageNamespace,
         NEW failed \in BOOLEAN, NEW t,
         NEW w \in WorkloadFor(config, NewImageManager(volumes, failed), t)
  PROVE  ClonesImage(w, volumes, t.imageCode)
<1> DEFINE code == t.imageCode
           list == NewImageManager(volumes, failed)
<1>1. Indices(volumes)
  <2>1. Len(volumes) \in Nat /\ DOMAIN volumes = 1..Len(volumes)
    OBVIOUS
  <2> QED BY <2>1, FS_Interval DEF Indices
<1>2. PICK image \in ReferBaseImageMeta(list, code) : w = NewVmWorkload(config, t, image)
  BY DEF WorkloadFor
<1>3. code \in DOMAIN list /\ image = list[code]
  BY <1>2 DEF ReferBaseImageMeta
<1>4. list = ImagesOf(volumes, DOMAIN volumes)
  BY <1>1, <1>3, ListOfImagesIs DEF NewImageManager
<1> DEFINE i == FirstOf(volumes, DOMAIN volumes, code)
<1>5. code \in CodesIn(volumes, DOMAIN volumes) /\ image = GetBaseImageMeta(volumes[i])
  BY <1>3, <1>4 DEF ImagesOf
<1>6. i \in CarriersOf(volumes, DOMAIN volumes, code)
  BY <1>1, <1>5, FirstIs
<1> HIDE DEF i
<1>7. /\ i \in DOMAIN volumes /\ volumes[i].dvType = "base-image" /\ HasCode(volumes[i])
      /\ volumes[i].annotations.imagecode = code
  BY <1>6 DEF CarriersOf, IsImage, listDataVolumeByLabel
<1>8. image.name = volumes[i].name /\ image.size = volumes[i].size
  BY <1>5 DEF GetBaseImageMeta, i
<1>9. /\ w.vm.volume.source = [name |-> image.name, namespace |-> config.baseImageNamespace]
      /\ w.vm.volume.size = image.size
  BY <1>2 DEF NewVmWorkload, NewVirtualMachineObject, Build, Builder
<1> QED BY <1>7, <1>8, <1>9 DEF ClonesImage

----------------------------------------------------------------------------
(* What is asked for and what is built.                                    *)

\* Of a number, cut to an int and then to 32 bits, the same is left only if it
\* was one of 32 bits without a sign.
LEMMA CoresOfWhole ==
  ASSUME NEW n \in Int
  PROVE  1000 * (Clamp(n, -IntMax - 1, IntMax) % UintSize) = 1000 * Clamp(n, -IntMax, IntMax)
           <=> n \in 0 .. UintSize - 1
<1> DEFINE int == Clamp(n, -IntMax - 1, IntMax)
           cores == int % UintSize
           amount == Clamp(n, -IntMax, IntMax)
<1>1. UintSize \in Nat \ {0} /\ IntMax \in Nat /\ UintSize <= IntMax
  BY WidthAssumption
<1>2. int \in Int /\ amount \in Int
  BY <1>1 DEF Clamp
<1>3. cores \in 0 .. UintSize - 1
  BY <1>1, <1>2
<1>4. CASE n \in 0 .. UintSize - 1
  <2>1. int = n /\ amount = n
    BY <1>1, <1>4 DEF Clamp
  <2>2. n % UintSize = n
    BY <1>1, <1>4
  <2> QED BY <1>4, <2>1, <2>2
<1>5. CASE n \notin 0 .. UintSize - 1
  <2>1. amount \notin 0 .. UintSize - 1
    BY <1>1, <1>5 DEF Clamp
  <2> QED BY <1>2, <1>3, <1>5, <2>1
<1> QED BY <1>4, <1>5

\* What CheckAvailability is asked for covers the machine that is built, and
\* what ParseResourceList accepts is no cause for a panic of Build, for every
\* text of a quantity and every device, unless one is called cpu or memory.
THEOREM DemandsCoverMachines ==
  ASSUME NEW r, Acceptable(r), r.cpu.n \in Int, r.memory.n \in Int,
         r.gpu.deviceName \notin {"cpu", "memory"}
  PROVE  ~Panics(r) /\ Covers(ParseResourceList(r), BuildResources(r), r)
<1> DEFINE demand == ParseResourceList(r)
           machine == BuildResources(r)
           device == r.gpu.deviceName
<1>1. ~Panics(r)
  BY DEF Acceptable, Panics
<1>2. r.cpu.form # "empty" /\ r.memory.form # "empty" /\ "cpu" # "memory"
  BY DEF Acceptable, Parses
<1>3. /\ DOMAIN demand = {"cpu", "memory", device}
      /\ demand["cpu"] = ParseQuantity(r.cpu) /\ demand["memory"] = ParseQuantity(r.memory)
      /\ demand[device] = 1000
  BY DEF ParseResourceList
<1>4. machine.requests = [name \in {"cpu", "memory"} |->
                            ParseQuantity(IF name = "cpu" THEN r.cpu ELSE r.memory)]
  <2>1. {n \in {"cpu", "memory"} : (IF n = "cpu" THEN r.cpu ELSE r.memory).form # "empty"}
          = {"cpu", "memory"}
    BY <1>2
  <2>2. machine.requests = GetCpuMemoryResourceList(r.cpu, r.memory)
    BY DEF BuildResources
  <2> QED BY <2>1, <2>2 DEF GetCpuMemoryResourceList
<1>5. \A name \in {"cpu", "memory"} : machine.requests[name] = demand[name]
  BY <1>2, <1>3, <1>4
<1>6. \A d \in machine.devices : Amount(demand, d) = 1000
  <2>1. machine.devices \subseteq {device}
    BY DEF BuildResources
  <2> QED BY <1>3, <2>1 DEF Amount
<1>7. r.cpu.form = "whole" =>
        (1000 * machine.cores = demand["cpu"] <=> r.cpu.n \in 0 .. UintSize - 1)
  <2>1. machine.cores = StringAsUint32(r.cpu)
    BY DEF BuildResources
  <2>2. ASSUME r.cpu.form = "whole"
        PROVE  /\ machine.cores = Clamp(r.cpu.n, -IntMax - 1, IntMax) % UintSize
               /\ demand["cpu"] = 1000 * Clamp(r.cpu.n, -IntMax, IntMax)
    BY <1>3, <2>1, <2>2 DEF StringAsUint32, Atoi, ParseQuantity
  <2> QED BY <2>2, CoresOfWhole
<1> QED BY <1>1, <1>4, <1>5, <1>6, <1>7 DEF Covers

----------------------------------------------------------------------------
(* Instance types: of every code the last one in the list.                 *)

WithCode(types, s, code) == {i \in s : types[i].code = code}
OffersOf(types, s) ==
  [code \in {types[i].code : i \in s} |-> types[Max(WithCode(types, s, code))]]
SetStep(types, g, s) ==
  IF s = {} THEN << >> ELSE SetInstanceType(g[s \ {Max(s)}], types[Max(s)])

LEMMA OfferStep ==
  ASSUME NEW types, Indices(types), NEW s \in SUBSET DOMAIN types, s # {}
  PROVE  OffersOf(types, s) = SetInstanceType(OffersOf(types, s \ {Max(s)}), types[Max(s)])
<1> DEFINE m == Max(s)
           rest == s \ {m}
           t == types[m]
           codes(u) == {types[i].code : i \in u}
           before == OffersOf(types, rest)
<1>1. m \in s /\ (\A i \in s : i <= m) /\ s \subseteq Int
  <2>1. IsFiniteSet(s) /\ s \subseteq Int
    BY FS_Subset DEF Indices
  <2> QED BY <2>1, MaxIsLargest
<1>2. /\ DOMAIN before = codes(rest)
      /\ \A c \in codes(rest) : before[c] = types[Max(WithCode(types, rest, c))]
  BY DEF OffersOf
<1>3. codes(s) = codes(rest) \cup {t.code}
  BY <1>1
<1>4. Max(WithCode(types, s, t.code)) = m
  <2>1. /\ m \in WithCode(types, s, t.code) /\ WithCode(types, s, t.code) \subseteq Int
        /\ \A i \in WithCode(types, s, t.code) : i <= m
    BY <1>1 DEF WithCode
  <2> HIDE DEF m, t
  <2> QED BY <2>1, MaxIs
<1>5. \A c : c # t.code => WithCode(types, s, c) = WithCode(types, rest, c)
  BY DEF WithCode
<1>6. \A c \in codes(s) : types[Max(WithCode(types, s, c))]
                            = IF c = t.code THEN t ELSE before[c]
  <2> HIDE DEF m, before
  <2> QED BY <1>2, <1>3, <1>4, <1>5
<1>7. SetInstanceType(before, t)
        = [c \in codes(rest) \cup {t.code} |-> IF c = t.code THEN t ELSE before[c]]
  <2> HIDE DEF before
  <2> QED BY <1>2 DEF SetInstanceType, Put
<1> QED BY <1>3, <1>6, <1>7 DEF OffersOf

LEMMA ListOfOffersIs ==
  ASSUME NEW types, Indices(types)
  PROVE  NewInstanceTypeLister(types) = OffersOf(types, DOMAIN types)
<1> DEFINE D == DOMAIN types
           Folds(g) == g = [s \in SUBSET D |-> SetStep(types, g, s)]
           h == CHOOSE g : Folds(g)
           offers == [s \in SUBSET D |-> OffersOf(types, s)]
           T == {s \in SUBSET D : h[s] = offers[s]}
<1>1. NewInstanceTypeLister(types) = h[D]
  BY DEF NewInstanceTypeLister, FoldLeft, MapThenFoldSet, SetStep
<1>2. OffersOf(types, {}) = << >>
  BY DEF OffersOf
<1>3. ASSUME NEW s \in SUBSET D PROVE offers[s] = SetStep(types, offers, s)
  BY <1>2, OfferStep DEF SetStep
<1>4. Folds(offers)
  <2> HIDE DEF offers
  <2>1. offers = [s \in SUBSET D |-> offers[s]]
    BY DEF offers
  <2> QED BY <1>3, <2>1
<1> HIDE DEF offers, Folds
<1>5. Folds(h)
  BY <1>4
<1> HIDE DEF h
<1>6. \A s \in SUBSET D : h[s] = SetStep(types, h, s)
  BY <1>5 DEF Folds
<1>7. ASSUME NEW s \in SUBSET D, \A x \in s : s \ {x} \in T PROVE s \in T
  BY <1>3, <1>6, <1>7, LastIndex DEF SetStep
<1>8. IsFiniteSet(D)
  BY DEF Indices
<1> HIDE DEF T
<1>9. SUBSET D \subseteq T
  BY <1>7, <1>8, AllSubsets
<1> QED BY <1>1, <1>9 DEF T, offers

\* The list holds valid offers from the start, although NewInstanceTypeLister
\* does not look at the defaults, and keeps them so, whatever is added or
\* deleted (AddInstanceType, DeleteInstanceType).
THEOREM OffersStayValid ==
  /\ AreOffers(NewInstanceTypeLister(DefaultInstanceTypes))
  /\ \A list, t : AreOffers(list) => AreOffers(AddInstanceType(list, t))
  /\ \A list, c : AreOffers(list) => AreOffers(DeleteInstanceType(list, c))
<1>1. AreOffers(NewInstanceTypeLister(DefaultInstanceTypes))
  <2> DEFINE types == DefaultInstanceTypes
  <2>1. DOMAIN types = 1..4
    BY DEF DefaultInstanceTypes
  <2>2. \A i \in 1..4 : IsValid(types[i])
    <3>1. types[1].code = 1 /\ types[1].name = "InstanceType-CPU-Micro"
      BY DEF DefaultInstanceTypes
    <3>2. types[2].code = 2 /\ types[2].name = "InstanceType-CPU-c24"
      BY DEF DefaultInstanceTypes
    <3>3. types[3].code = 3 /\ types[3].name = "InstanceType-CPU-c48"
      BY DEF DefaultInstanceTypes
    <3>4. types[4].code = 4 /\ types[4].name = "InstanceType-GPU-g48"
      BY DEF DefaultInstanceTypes
    <3>5. \A i \in 1..4 : i = 1 \/ i = 2 \/ i = 3 \/ i = 4
      OBVIOUS
    <3> HIDE DEF types
    <3>6. \A i \in 1..4 : types[i].code > 0
      BY <3>1, <3>2, <3>3, <3>4, <3>5
    <3>7. \A i \in 1..4 : types[i].name # ""
      BY <3>1, <3>2, <3>3, <3>4, <3>5
    <3> QED BY <3>6, <3>7 DEF IsValid
  <2> HIDE DEF types
  <2>3. Indices(types)
    <3>1. IsFiniteSet(1..4)
      BY 1 \in Int, 4 \in Int, FS_Interval
    <3> QED BY <2>1, <3>1 DEF Indices
  <2>4. ASSUME NEW c \in {types[i].code : i \in 1..4}
        PROVE  \E i \in 1..4 : OffersOf(types, 1..4)[c] = types[i] /\ types[i].code = c
    <3>1. WithCode(types, 1..4, c) # {} /\ WithCode(types, 1..4, c) \subseteq Int
      BY DEF WithCode
    <3>2. IsFiniteSet(WithCode(types, 1..4, c))
      BY FS_Interval, FS_Subset DEF WithCode
    <3>3. Max(WithCode(types, 1..4, c)) \in WithCode(types, 1..4, c)
      BY <3>1, <3>2, MaxIsLargest
    <3> QED BY <3>3 DEF WithCode, OffersOf
  <2>5. DOMAIN OffersOf(types, 1..4) = {types[i].code : i \in 1..4}
    BY DEF OffersOf
  <2>6. AreOffers(OffersOf(types, 1..4))
    <3>1. ASSUME NEW c \in DOMAIN OffersOf(types, 1..4)
          PROVE  /\ OffersOf(types, 1..4)[c].code = c
                 /\ c > 0 /\ OffersOf(types, 1..4)[c].name # ""
      <4>1. PICK i \in 1..4 : OffersOf(types, 1..4)[c] = types[i] /\ types[i].code = c
        BY <2>4, <2>5
      <4> QED BY <2>2, <4>1 DEF IsValid
    <3> QED BY <3>1 DEF AreOffers
  <2> QED BY <2>1, <2>3, <2>6, ListOfOffersIs DEF types
<1>2. ASSUME NEW list, NEW t, AreOffers(list) PROVE AreOffers(AddInstanceType(list, t))
  BY <1>2 DEF AreOffers, AddInstanceType, SetInstanceType, Put, IsValid
<1>3. ASSUME NEW list, NEW c, AreOffers(list) PROVE AreOffers(DeleteInstanceType(list, c))
  BY <1>3 DEF AreOffers, DeleteInstanceType
<1> QED BY <1>1, <1>2, <1>3

----------------------------------------------------------------------------
(* The address of a machine.                                               *)

\* Bits of a byte, all but the lowest, add up to an even byte.
LEMMA BitsAddUp ==
  ASSUME NEW f, f = [bit \in Bits |-> f[bit]], f[1] = 0,
         \A bit \in Bits : f[bit] = 0 \/ f[bit] = bit
  PROVE  SumFunction(f) \in 0..255 /\ SumFunction(f) % 2 = 0
<1> DEFINE Sum(s) == SumFunctionOnSet(f, s)
<1>1. /\ \A bit \in Bits : f[bit] \in Int
      /\ DOMAIN f = Bits
  BY DEF Bits
<1>2. ASSUME NEW s \in SUBSET Bits, NEW bit \in s
      PROVE  Sum(s) = f[bit] + Sum(s \ {bit})
  <2>1. IsFiniteSet(Bits)
    <3>1. IsFiniteSet(1..128)
      BY 1 \in Int, 128 \in Int, FS_Interval
    <3>2. Bits \subseteq 1..128
      BY DEF Bits
    <3> QED BY <3>1, <3>2, FS_Subset
  <2> QED BY <1>1, <2>1, FS_Subset, SumTakesOut
<1> HIDE DEF Sum
<1>3. Sum({}) = 0
  BY SumOfNone DEF Sum
<1>4. Sum({128}) = f[128]
  <2>1. Sum({128}) = f[128] + Sum({128} \ {128})
    BY <1>2, {128} \in SUBSET Bits DEF Bits
  <2> QED BY <1>1, <1>3, <2>1, {128} \ {128} = {} DEF Bits
<1>5. Sum({64, 128}) = f[64] + f[128]
  BY <1>2, <1>4, {64, 128} \in SUBSET Bits, {64, 128} \ {64} = {128} DEF Bits
<1>6. Sum({32, 64, 128}) = f[32] + (f[64] + f[128])
  BY <1>2, <1>5, {32, 64, 128} \in SUBSET Bits, {32, 64, 128} \ {32} = {64, 128} DEF Bits
<1>7. Sum({16, 32, 64, 128}) = f[16] + (f[32] + (f[64] + f[128]))
  BY <1>2, <1>6, {16, 32, 64, 128} \in SUBSET Bits,
     {16, 32, 64, 128} \ {16} = {32, 64, 128} DEF Bits
<1>8. Sum({8, 16, 32, 64, 128}) = f[8] + (f[16] + (f[32] + (f[64] + f[128])))
  BY <1>2, <1>7, {8, 16, 32, 64, 128} \in SUBSET Bits,
     {8, 16, 32, 64, 128} \ {8} = {16, 32, 64, 128} DEF Bits
<1>9. Sum({4, 8, 16, 32, 64, 128}) = f[4] + (f[8] + (f[16] + (f[32] + (f[64] + f[128]))))
  BY <1>2, <1>8, {4, 8, 16, 32, 64, 128} \in SUBSET Bits,
     {4, 8, 16, 32, 64, 128} \ {4} = {8, 16, 32, 64, 128} DEF Bits
<1>10. Sum({2, 4, 8, 16, 32, 64, 128})
         = f[2] + (f[4] + (f[8] + (f[16] + (f[32] + (f[64] + f[128])))))
  BY <1>2, <1>9, {2, 4, 8, 16, 32, 64, 128} \in SUBSET Bits,
     {2, 4, 8, 16, 32, 64, 128} \ {2} = {4, 8, 16, 32, 64, 128} DEF Bits
<1>11. Sum(Bits) = f[1] + Sum({2, 4, 8, 16, 32, 64, 128})
  BY <1>2, Bits \in SUBSET Bits, 1 \in Bits,
     Bits \ {1} = {2, 4, 8, 16, 32, 64, 128} DEF Bits
<1>12. /\ f[2] \in {0, 2} /\ f[4] \in {0, 4} /\ f[8] \in {0, 8} /\ f[16] \in {0, 16}
       /\ f[32] \in {0, 32} /\ f[64] \in {0, 64} /\ f[128] \in {0, 128}
  BY DEF Bits
<1>13. SumFunction(f) = f[2] + (f[4] + (f[8] + (f[16] + (f[32] + (f[64] + f[128])))))
  <2>1. SumFunction(f) = Sum(Bits)
    BY <1>1 DEF SumFunction, Sum
  <2> QED BY <1>10, <1>11, <1>12, <2>1
<1>14. \A x, y \in Int : x % 2 = 0 /\ y % 2 = 0 => x + y \in Int /\ (x + y) % 2 = 0
  OBVIOUS
<1>15. SumFunction(f) \in 0..255
  BY <1>12, <1>13
<1>16. SumFunction(f) % 2 = 0
  <2> DEFINE Even(x) == x \in Int /\ x % 2 = 0
  <2>1. \A x, y : Even(x) /\ Even(y) => Even(x + y)
    BY <1>14
  <2>2. /\ Even(f[2]) /\ Even(f[4]) /\ Even(f[8]) /\ Even(f[16])
        /\ Even(f[32]) /\ Even(f[64]) /\ Even(f[128])
    BY <1>12
  <2> HIDE DEF Even
  <2>3. Even(f[2] + (f[4] + (f[8] + (f[16] + (f[32] + (f[64] + f[128]))))))
    BY <2>1, <2>2
  <2> QED BY <1>13, <2>3 DEF Even
<1> QED BY <1>15, <1>16

\* Of a byte and the number before it, only one is odd, so the address has
\* no bit of a group of receivers (NewUniCastMacAddress).
LEMMA OctetIsEven ==
  ASSUME NEW byte \in 0..255
  PROVE  FirstOctet(byte) \in 0..255 /\ FirstOctet(byte) % 2 = 0
<1> DEFINE less == (byte - 1) % 256
           f == [bit \in Bits |-> IF HasBit(byte, bit) /\ HasBit(less, bit) THEN bit ELSE 0]
<1>1. ~(HasBit(byte, 1) /\ HasBit(less, 1))
  <2>1. less = IF byte = 0 THEN 255 ELSE byte - 1
    OBVIOUS
  <2>2. byte \div 1 = byte /\ less \div 1 = less
    BY <2>1
  <2> HIDE DEF less
  <2>3. ~(byte % 2 = 1 /\ less % 2 = 1)
    BY <2>1
  <2> QED BY <2>2, <2>3 DEF HasBit
<1>2. f[1] = 0 /\ \A bit \in Bits : f[bit] = 0 \/ f[bit] = bit
  BY <1>1 DEF Bits
<1>3. f = [bit \in Bits |-> f[bit]]
  OBVIOUS
<1>4. FirstOctet(byte) = SumFunction(f)
  BY DEF FirstOctet, bitAnd
<1> HIDE DEF f
<1> QED BY <1>2, <1>3, <1>4, BitsAddUp

----------------------------------------------------------------------------
(* The properties, along a behaviour: the input stays what it is.          *)

LEMMA InputIs ==
  ASSUME NEW i \in Inputs
  PROVE  /\ i.topic = "pods" => i.spec \in PodSpecs /\ i.ledger \in Ledgers /\ i.node \in Nodes
         /\ i.topic = "requests" => i.first \in Asks /\ i.second \in Asks
         /\ i.topic = "images" => i.volumes \in Listings /\ i.failed \in BOOLEAN
         /\ i.topic = "resources" => i.asked \in Resources
         /\ i.topic = "bytes" => i.byte \in 0..255
BY DEF Inputs

LEMMA InputStays == Spec => [](input \in Inputs)
<1>1. Init => input \in Inputs
  BY DEF Init
<1>2. input \in Inputs /\ [Next]_vars => (input \in Inputs)'
  BY DEF Next, vars, Asked, BookPod, BuildBoth, Load, Parse, Address, ChangeTypes
<1> QED BY <1>1, <1>2, PTL DEF Spec

\* An answer is given in the step of its topic, and only there.
LEMMA AnswersOnce ==
  ASSUME [Next]_vars
  PROVE  /\ input' = input
         /\ \/ output' = output
            \/ input.topic = "pods" /\ BookPod
            \/ input.topic = "requests" /\ BuildBoth
            \/ input.topic = "images" /\ Load
            \/ input.topic = "resources" /\ Parse
            \/ input.topic = "bytes" /\ Address
            \/ input.topic = "types" /\ ChangeTypes
BY DEF Next, vars, Asked, BookPod, BuildBoth, Load, Parse, Address, ChangeTypes

\* The lists that are booked for a pod are its effective ones
\* (PodRequestsAndLimits).
THEOREM ListsStayEffective == Spec => []ListsAreEffective
<1>1. Init => ListsAreEffective
  BY DEF Init, ListsAreEffective, Answered
<1>2. input \in Inputs /\ ListsAreEffective /\ [Next]_vars => ListsAreEffective'
  <2> SUFFICES ASSUME input \in Inputs, ListsAreEffective, [Next]_vars
               PROVE  ListsAreEffective'
    OBVIOUS
  <2>1. CASE output' = output
    BY <2>1, AnswersOnce DEF ListsAreEffective, Answered
  <2>2. CASE input.topic = "pods" /\ BookPod
    <3>1. IsPodSpec(input.spec)
      BY <2>2, InputIs, FunctionsAssumption
    <3>2. /\ output'.requests = PodRequests(input.spec)
          /\ output'.limits = PodLimits(input.spec)
      BY <2>2 DEF BookPod
    <3> QED BY <3>1, <3>2, AnswersOnce, PodListsAreEffective DEF ListsAreEffective
  <2> QED BY <2>1, <2>2, AnswersOnce DEF ListsAreEffective, Answered
<1> QED BY <1>1, <1>2, InputStays, PTL DEF Spec

\* Taking a booking off, or removing the node of the only one, leaves every
\* amount as it was before (ResourceMap.add, sub and deleteNode).
THEOREM BookingsAreUndone == Spec => []BookingIsUndone
<1>1. Init => BookingIsUndone
  BY DEF Init, BookingIsUndone, Answered
<1>2. input \in Inputs /\ BookingIsUndone /\ [Next]_vars => BookingIsUndone'
  <2> SUFFICES ASSUME input \in Inputs, BookingIsUndone, [Next]_vars
               PROVE  BookingIsUndone'
    OBVIOUS
  <2>1. CASE output' = output
    BY <2>1, AnswersOnce DEF BookingIsUndone, Answered
  <2>2. CASE input.topic = "pods" /\ BookPod
    <3> DEFINE requests == PodRequests(input.spec)
               booked == mapAdd(input.ledger, input.node, requests)
    <3>1. /\ IsPodSpec(input.spec) /\ input.node \in Nodes
          /\ IsResourceMap(input.ledger, Nodes)
      BY <2>2, InputIs, FunctionsAssumption
    <3>2. IsResourceList(requests)
      BY <3>1, PodListsAreLists
    <3>3. /\ output'.released = mapSub(booked, input.node, requests)
          /\ output'.emptied = mapDeleteNode(booked, input.node)
      BY <2>2 DEF BookPod
    <3> HIDE DEF requests
    <3>4. SameAmounts(mapSub(booked, input.node, requests), input.ledger)
      BY <3>1, <3>2, SubUndoesAdd DEF SameAmounts
    <3>5. ~KnowsNode(input.ledger, input.node)
            => SameAmounts(mapDeleteNode(booked, input.node), input.ledger)
      BY <3>1, <3>2, DeleteUndoesAdd DEF SameAmounts
    <3> HIDE DEF booked
    <3> QED BY <3>3, <3>4, <3>5, AnswersOnce DEF BookingIsUndone, SameAmounts
  <2> QED BY <2>1, <2>2, AnswersOnce DEF BookingIsUndone, Answered
<1> QED BY <1>1, <1>2, InputStays, PTL DEF Spec

\* Names tell workloads and their objects apart, whatever tokens the ids of
\* users are made of (namingFunc, NameServiceOnKubeResource).
THEOREM NamesStayApart == Spec => []NamesTellObjectsApart
<1>1. Init => NamesTellObjectsApart
  BY DEF Init, NamesTellObjectsApart, Answered
<1>2. input \in Inputs /\ NamesTellObjectsApart /\ [Next]_vars => NamesTellObjectsApart'
  <2> SUFFICES ASSUME input \in Inputs, NamesTellObjectsApart, [Next]_vars
               PROVE  NamesTellObjectsApart'
    OBVIOUS
  <2>1. CASE output' = output
    BY <2>1, AnswersOnce DEF NamesTellObjectsApart, Answered
  <2>2. CASE input.topic = "requests" /\ BuildBoth
    <3>1. AsksIn(Tokens, input.first) /\ AsksIn(Tokens, input.second) /\ Fixed \subseteq Tokens
      BY <2>2, InputIs, FunctionsAssumption
    <3>2. /\ output'.first = NewVmWorkload(Config, input.first, AnyImage)
          /\ output'.second = NewVmWorkload(Config, input.second, AnyImage)
      BY <2>2 DEF BuildBoth
    <3>3. AreToldApart(input.first, output'.first, input.second, output'.second)
      BY <3>1, <3>2, WorkloadsAreToldApart
    <3> QED BY <3>3, AnswersOnce DEF NamesTellObjectsApart
  <2> QED BY <2>1, <2>2, AnswersOnce DEF NamesTellObjectsApart, Answered
<1> QED BY <1>1, <1>2, InputStays, PTL DEF Spec

\* The labels of a workload's objects name it, and its services lead to its
\* own machine (NewVirtualMachineLabels, attachServices,
\* ExtractWorkloadMetaFromLabels).
THEOREM LabelsStayTrue == Spec => []LabelsNameTheWorkload
<1>1. Init => LabelsNameTheWorkload
  BY DEF Init, LabelsNameTheWorkload, Answered
<1>2. LabelsNameTheWorkload /\ [Next]_vars => LabelsNameTheWorkload'
  <2> SUFFICES ASSUME LabelsNameTheWorkload, [Next]_vars PROVE LabelsNameTheWorkload'
    OBVIOUS
  <2>1. CASE output' = output
    BY <2>1, AnswersOnce DEF LabelsNameTheWorkload, Answered
  <2>2. CASE input.topic = "requests" /\ BuildBoth
    <3>1. /\ output'.first = NewVmWorkload(Config, input.first, AnyImage)
          /\ output'.second = NewVmWorkload(Config, input.second, AnyImage)
      BY <2>2 DEF BuildBoth
    <3>2. LabelsTellWhose(input.first, output'.first, input.second, output'.second,
                          << "made-up" >>)
      BY <3>1, LabelsAreTheirOwn
    <3> QED BY <3>2, AnswersOnce DEF LabelsNameTheWorkload
  <2> QED BY <2>1, <2>2, AnswersOnce DEF LabelsNameTheWorkload, Answered
<1> QED BY <1>1, <1>2, PTL DEF Spec

\* The disk of a machine is cloned from an image of the code that was asked
\* for, however many volumes are listed (loadBaseImageMetaList, Build).
THEOREM SourcesCarryCodes == Spec => []SourceCarriesCode
<1>1. Init => SourceCarriesCode
  BY DEF Init, SourceCarriesCode, Answered
<1>2. input \in Inputs /\ SourceCarriesCode /\ [Next]_vars => SourceCarriesCode'
  <2> SUFFICES ASSUME input \in Inputs, SourceCarriesCode, [Next]_vars
               PROVE  SourceCarriesCode'
    OBVIOUS
  <2>1. CASE output' = output
    BY <2>1, AnswersOnce DEF SourceCarriesCode, Answered
  <2>2. CASE input.topic = "images" /\ Load
    <3>1. input.volumes \in Seq(Volumes) /\ input.failed \in BOOLEAN
      BY <2>2, InputIs, FunctionsAssumption
    <3>2. output'.list = NewImageManager(input.volumes, input.failed)
      BY <2>2 DEF Load
    <3>3. ASSUME \A i \in DOMAIN input.volumes :
                   input.volumes[i].namespace = Config.baseImageNamespace,
                 NEW t \in Asks, NEW w \in WorkloadFor(Config, output'.list, t)
          PROVE  ClonesImage(w, input.volumes, t.imageCode)
      BY <3>1, <3>2, <3>3, DisksCloneTheirImage
    <3> QED BY <3>3, AnswersOnce DEF SourceCarriesCode
  <2> QED BY <2>1, <2>2, AnswersOnce DEF SourceCarriesCode, Answered
<1> QED BY <1>1, <1>2, InputStays, PTL DEF Spec

\* What CheckAvailability is asked for covers what is built, for every text
\* of a quantity (ParseResourceList, GetCpuMemoryResourceList,
\* StringAsUint32).
THEOREM DemandsStayCovered == Spec => []DemandCoversMachine
<1>1. Init => DemandCoversMachine
  BY DEF Init, DemandCoversMachine, Answered
<1>2. input \in Inputs /\ DemandCoversMachine /\ [Next]_vars => DemandCoversMachine'
  <2> SUFFICES ASSUME input \in Inputs, DemandCoversMachine, [Next]_vars
               PROVE  DemandCoversMachine'
    OBVIOUS
  <2>1. CASE output' = output
    BY <2>1, AnswersOnce DEF DemandCoversMachine, Answered
  <2>2. CASE input.topic = "resources" /\ Parse
    <3> DEFINE r == input.asked
    <3>1. r.cpu.n \in Int /\ r.memory.n \in Int
      BY <2>2, InputIs, FunctionsAssumption
    <3>2. /\ output'.demand = IF Acceptable(r) THEN {ParseResourceList(r)} ELSE {}
          /\ output'.built = IF Panics(r) THEN {} ELSE {BuildResources(r)}
      BY <2>2 DEF Parse
    <3>3. ASSUME r.gpu.deviceName \notin {"cpu", "memory"}, NEW demand \in output'.demand
          PROVE  /\ output'.built # {}
                 /\ \A machine \in output'.built : Covers(demand, machine, r)
      <4>1. Acceptable(r) /\ demand = ParseResourceList(r)
        BY <3>2, <3>3
      <4>2. ~Panics(r) /\ Covers(ParseResourceList(r), BuildResources(r), r)
        BY <3>1, <3>3, <4>1, DemandsCoverMachines
      <4> QED BY <3>2, <4>1, <4>2
    <3> HIDE DEF r
    <3>4. input'.asked = r
      BY AnswersOnce DEF r
    <3> QED BY <3>3, <3>4 DEF DemandCoversMachine
  <2> QED BY <2>1, <2>2, AnswersOnce DEF DemandCoversMachine, Answered
<1> QED BY <1>1, <1>2, InputStays, PTL DEF Spec

\* What is offered under a code has that code and a name, however instance
\* types are added and deleted (InstanceTypeLister).
THEOREM OffersRemainValid == Spec => []OffersAreValid
<1>1. Init => OffersAreValid
  BY OffersStayValid DEF Init, OffersAreValid
<1>2. OffersAreValid /\ [Next]_vars => OffersAreValid'
  <2> SUFFICES ASSUME OffersAreValid, [Next]_vars PROVE OffersAreValid'
    OBVIOUS
  <2>1. CASE output' = output
    BY <2>1, AnswersOnce DEF OffersAreValid
  <2>2. CASE input.topic = "types" /\ ChangeTypes
    <3>1. AreOffers(output)
      BY <2>2 DEF OffersAreValid
    <3>2. CASE \E t \in NewTypes : output' = AddInstanceType(output, t)
      BY <3>1, <3>2, OffersStayValid DEF OffersAreValid
    <3>3. CASE \E code \in Codes : output' = DeleteInstanceType(output, code)
      BY <3>1, <3>3, OffersStayValid DEF OffersAreValid
    <3> QED BY <2>2, <3>2, <3>3 DEF ChangeTypes
  <2> QED BY <2>1, <2>2, AnswersOnce DEF OffersAreValid
<1> QED BY <1>1, <1>2, PTL DEF Spec

\* The address of a machine is a unicast address (NewUniCastMacAddress).
THEOREM AddressesAreUnicast == Spec => []AddressIsUnicast
<1>1. Init => AddressIsUnicast
  BY DEF Init, AddressIsUnicast, Answered
<1>2. input \in Inputs /\ AddressIsUnicast /\ [Next]_vars => AddressIsUnicast'
  <2> SUFFICES ASSUME input \in Inputs, AddressIsUnicast, [Next]_vars
               PROVE  AddressIsUnicast'
    OBVIOUS
  <2>1. CASE output' = output
    BY <2>1, AnswersOnce DEF AddressIsUnicast, Answered
  <2>2. CASE input.topic = "bytes" /\ Address
    <3>1. input.byte \in 0..255 /\ output'.octet = FirstOctet(input.byte)
      BY <2>2, InputIs DEF Address
    <3> QED BY <3>1, OctetIsEven DEF AddressIsUnicast
  <2> QED BY <2>1, <2>2, AnswersOnce DEF AddressIsUnicast, Answered
<1> QED BY <1>1, <1>2, InputStays, PTL DEF Spec
=============================================================================
