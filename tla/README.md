# kauloud in TLA+

kauloud serves virtual machines on a Kubernetes cluster with KubeVirt: it
watches the cluster, says whether another machine fits, creates and deletes
machines with their services, and keeps the accounts of those who may use it.
This directory holds a model of its state-changing parts in TLA+, TLC
configurations that check the model on small instances, and proofs that TLAPS
checks for every value of the constants.

Contents: 1 the system, 2 the modules, 3 the runs, 4 bounds and abstractions,
5 fairness, 6 the proofs, 7 where code and intent differ, 8 what is not
modelled, 9 the plan.

## 1. The system

| component | state | operations | interacts with |
|---|---|---|---|
| Resource lists (`pkg/informer/tools.go`, ledgers in `describer.go`) | `ResourceMap`: per node and in total, resource -> amount | `add`, `sub`, `deleteNode`, `PodRequestsAndLimits`, `expectedAfterAllocation`, `CheckAvailability` | called by the describer |
| Event pipeline (`describer.go`, `watcher.go`) | client-go's informer stores, one rate-limited work queue, its retry counts | enqueue handlers, `consume`, `sync`, `handleError` | between the API server and the two components below |
| `StreamingResourceDescriber` (`describer.go`) | `podList`, `nodeList`, ledgers `requests`, `limits`, `allocatable` | add, update and delete of pods and nodes; `Run` | read by `CheckAvailability` |
| `Watcher` (`watcher.go`) | `workloadMetaMap`, `virtualMachineInfoList` | update and delete of machines, volumes, services; `Run` | read by `InformerService` |
| `InformerService` (`informer.go`) | none | `GetWorkloadObjectNameMeta`, two list calls, `Run` | gRPC calls, concurrent with the worker of the Watcher; starts Watcher and describer |
| Virt manager (`pkg/virt/manager.go`, `vm.go`) | the preset, whose `Spec.Template` every machine shares | create and delete a workload; build machine, volume, services, names and labels | calls the API server; concurrent requests |
| `ImageManager` (`pkg/virt/image.go`), `InstanceTypeLister` | a map filled at start; a list with additions and deletions | load, look up; add, delete | used by the virt manager |
| Authentication (`auth/auth.go`, `rdb.go`) | tables of candidates and users | `SignUp`, `SignIn`, token interceptor | gRPC calls, concurrent; a MySQL database |
| `VirtManagementService`, `main.go`, configuration, protobuf, `deprecated/` | none | stubs, wiring, generated code | `main.go` starts the describer alone |

What is hard, by component, and what makes it correct:

- **Pipeline and describer.** Events carry a key, not an object. The worker reads
  the store when it comes to the event, so an "add" may find the pod gone and a
  "delete" may find it there again; equal events are merged; an "add" that fails
  is retried after events that overtook it, five times at most. Correct means
  that the maps come to be what the cluster is, in every order; that ledgers and
  lists agree; and that an answer of `CheckAvailability` can be relied upon.
- **Watcher.** Three resources, three informers, no order among them, one info
  per workload, objects of different workloads under one name. Correct means
  that each info shows its machine, volume and service as they are, that it goes
  when the machine goes, and that neither the worker nor a call panics.
- **Start and end.** Two components, each with informers, caches to wait for, a
  worker and a queue that is shut down; one is called after the other. Correct
  means that a worker begins, does all its work and ends.
- **Virt manager.** Two objects are created in two calls, either of which can
  fail or be carried out without an answer; requests overlap on one template.
  Correct means that no half of a workload goes unreported and that a machine is
  built to its own request.
- **Manager and Watcher together.** They meet only at the API server, through
  which the names come back that a deletion needs. Correct means that what was
  created can be deleted, also after failed calls and restarts.
- **Pure functions.** Names, labels, quantities and images tie the components
  together: what one writes another must read back. Correct means that they do,
  for every input.
- **Authentication.** Check, insert and update are three statements; two calls
  interleave, a statement fails, the process ends. Correct means one account per
  candidate, owned by the call that was welcomed.

`PROJECT.json` lists every hazard at its line with the property that covers it,
or the reason why none does.

## 2. The modules

| module | models | notes |
|---|---|---|
| `ResourceLists` | resource lists, ledgers, `CheckAvailability` | pure operators, folds instead of recursion |
| `Workload` | names, labels, `Build`, `attachServices`, `NewVmWorkload`, `NewUniCastMacAddress` | pure operators |
| `Catalog` | images, instance types, parsing of `kauloud.Resources` | pure operators |
| `PureFunctions` | the functions of the three, called in the order the code calls them | one input per behaviour; the properties of the functions |
| `EventPipeline` | informers, queue, worker | extended by the two components; one action per client-go or worker step |
| `Mirror` | nothing in the code: what a follower of the cluster promises | abstract specification |
| `Describer` | `describer.go` | one action per handler; implements `Mirror` |
| `DescriberAudit` | history beside `Describer` | why the books can be wrong, and that they are right otherwise |
| `Watcher` | `watcher.go`, the reading half of `informer.go` | one action per handler; implements `Mirror` for machines |
| `Lifecycle` | `Run` of Watcher, describer and `InformerService`, `main.go` | events are counted, not told apart |
| `WorkloadManager` | `manager.go`, the sharing in `virtualMachineBuilder.Build` | one action per API call |
| `Cloud` | the virt manager and the Watcher put together | composition of the two, with restarts of either |
| `Auth` | `auth.go` | one action per statement |
| `ResourceListsProofs`, `FunctionProofs`, `EventPipelineProofs`, `DescriberProofs`, `LifecycleProofs`, `WorkloadManagerProofs`, `CloudProofs`, `AuthProofs` | theorems | section 6; `FunctionProofs` is of `PureFunctions`, `CloudProofs` of `Watcher` and `Cloud` |
| `MCCluster`, `MCDescriberAudit`, `MCFunctions`, `MCWatcher`, `MCLifecycle`, `MCWorkloadManager`, `MCCloud`, `MCAuth` | small instances | values of the constants |

**EventPipeline.** `store` is the informers' indexers and `inbox` the
notifications that have not reached the registered handlers; `Observe` is a
change seen by a reflector, `Deliver` an `addPod`/`updatePod`/... handler that
calls `queue.Add`. `queue`, `dirty`, `processing` are the three parts of
client-go's work queue, `waiting` and `requeues` its rate limiter
(`AddRateLimited`, `NumRequeues`, `Forget`). `Get` and `Read` are the first two
lines of the worker's loop, apart because the store changes in between.
`Finish` is `handleError` and the deferred `Done`.

**Describer.** `handlePodAddition`, `handlePodUpdate`, ... are the functions of
those names together with the branch of `sync` that selects them and with
`Finish`. They are one step: between reading the object and `Done` only the
worker touches the maps (there is one worker, `threadiness` is 1) and the event
stays in its hands. `NodeInformerStarted` is FALSE for the code as it stands:
the line of `Run` that would start the node informer is commented out
(`describer.go:126`), no node event exists and `nodeList` stays empty. The run
`describer` sets it to TRUE, which is the code with that line: its behaviours
include those of FALSE, so what always holds with it also holds of the code, and
the node handlers, which are code, are seen at work. `describer_live`, whose
properties say that something happens, and `find_no_node_listed`, which says that
the code does something wrong, set it to FALSE.

**DescriberAudit.** The ledgers are not always the sums of the listed pods: only
an "add" books, while the end and the deletion of a pod always take off. The
module records beside the run the four things after which books can be off:
`dropped` (retries used up before the pod has a node), `cutShort` (the end seen
before the retried "add"), `reused` (a name replaced before the describer was
done with it), `resized` (a node's resources change). `BooksExact` and
`AllocatableExact` say that there is no fifth.

**Watcher.** `vmInfoList[m]` is `virtualMachineInfoList`; an info keeps the
machine, the ClusterIP service, the volume and the four fields of its status.
`call` is one goroutine in `GetWorkloadObjectNameMeta` between finding the info
and reading it; the two list calls are operators on `vmInfoList`, which
`StatusConverged` reads. `panicked` ends everything, as in Go. `RetryDue` of the
pipeline is not an action here: `handleError` panics at the first error (it
asserts that the queue's `Event` is a string), so nothing is ever retried.
`mixed` records the names of machines that passed to another workload before the
worker saw the first one go: `workloadMetaMap` then still says the old one
(`watcher.go:339`).

**Lifecycle.** `order` is what the caller of `Run` does: `InformerService.Run`
calls the watcher and then the describer, `main` the describer alone. `place` is
where each `Run` stands, `synced` what `WaitForCacheSync` looks at, `shut` the
deferred `queue.ShutDown`, `worker` the goroutine of `wait.Until`, `lister` the
goroutine `runTestLister` that the describer's `Run` starts: its loop has no end,
so no action ends it. What becomes of an event is the matter of `EventPipeline`;
here queues are numbers.

**Workload and Catalog.** A name is the sequence of its tokens between hyphens,
so that a hyphen in an id and one in the format are the same thing, as in the
code. `Workload` is what a request becomes at the API server, `Catalog` what a
request can choose from and how the texts of its resources are read. A missing
label, annotation or quantity is missing from a record's domain. A bitwise "and"
is the sum of the bits that both bytes have. Integers have their width:
`StringAsUint32` takes what `strconv.Atoi` reads, which is cut at the bounds of an
int, modulo `UintSize` (2^32), and `ParseQuantity` knows signs and is cut at the
largest amount. So a request for "-1" or "4294967296" cpus is accepted, and the
machine has 4294967295 cores, or none.

**PureFunctions.** Here the functions are at work. A behaviour takes one input and
answers it in one step: `BookPod` books a pod and takes it off again, `BuildBoth`
builds the workloads of two requests, `Load` reads the images a listing has,
`Parse` makes of one request's resources what `CheckAvailability` is asked for and
what `Build` writes into the machine, `Address` makes an address of a byte. Only
`ChangeTypes` goes on for ever; what it keeps, `OffersAreValid`, is left to the
proof. What the inputs may be is in `FunctionsAssumption`.

**WorkloadManager.** A workload is known by the request that creates it: a fresh
uuid is in both names. `creating[w]` is how far `CreateVirtualMachineWorkload`
has come, `deleting[w]` the same of the deletion. Every API call has the
outcomes done and answered, done and not answered, not done. `Build` is two
steps (GPU, then the rest) so that two of them can overlap on the template.

**Cloud.** `Manager` is an instance of `WorkloadManager`, and the Watcher is
extended; no variable is common. The manager creates in `Namespace`, the
configuration's, and the Watcher's informers list `TargetNamespace`, a constant of
the code: what the API server holds (`Stored`) is told to them only if the two are
the same (`Listed`). `See` is how an informer learns of it, any number of changes
later. A data volume is made from
the machine's template and goes with the machine (`MakeVolume`,
`CollectGarbage`: the cluster, external). `Ask` is a whole call of
`GetWorkloadObjectNameMeta`, and only who was given the names can `Delete`.
`Crash` is the end of the manager's process, `Restart` that of the Watcher's:
its maps, queue and stores are gone and its informers list anew.

**Auth.** `registered` and `users` are the two tables, `calls[c]` where the
gRPC call is. `CheckClaim` is the lookup of the candidate, `Save` the insert,
`Register` the update of the column; each may fail, and the insert may be
carried out although the caller sees an error. A call whose insert was carried out
is "saved", then "welcome", or "unsure" if its caller was told otherwise or nothing.
`Crash` ends all calls under way. `FindByKey` finds the row of an id; of the empty
id, which `SignUp` refuses and `SignIn` does not, it finds any row, since a field
that is empty is no condition to `Get`.

## 3. The runs

| run | question | result |
|---|---|---|
| `pure_functions` | Do the functions without state compute what their callers rely on: a pod's effective requests and limits (`ListsAreEffective`), `sub` undoing `add`, names and labels that tell workloads apart, a disk of the image that was asked for, a demand that covers the machine, unicast addresses? | yes |
| `describer` | Do lists and ledgers stay consistent in every order of delivery, merging, retry and reading? Does the describer implement `Mirror`? Are the ledgers exact unless a pod was dropped, cut short, reused or a node resized, and is a yes backed by room for what pods there already request? | yes |
| `describer_live` | When the cluster stops changing, do the maps come to agree with it for good, and do retries end? | yes |
| `watcher` | Do infos and `workloadMetaMap` follow the cluster in every order, with calls in between? Does the Watcher implement `Mirror` for its machines? Does the worker survive? | yes |
| `workload_manager` | Are answers true of the objects, does a machine have its service and, if no request overlapped, its own template? | yes |
| `lifecycle` | Which component gets a worker, does a worker do all its work, which goroutines are left when the channel has been closed? | the first of the order only; yes; the describer's lister |
| `cloud` | Can a machine be deleted as long as it is there, are the names of one that is gone withheld, is a workload that stays named in the end, if manager and Watcher have one namespace? | yes |
| `auth` | One account per candidate, owned by the welcomed call, no lock-out by the column, and no token, also for an empty id, but for the password of a user whom a sign-up saved? | yes |
| `find_no_node_listed` | Is the answer of `CheckAvailability` yes where a node that is in use has room for the demand? | violated |
| `find_unseen_machine` | With the namespaces of the repository, is a workload "not found" only if it has no machine? | violated |
| `find_leftover_info` | Does nothing remain of a deleted workload? | violated |
| `find_torn_info` | Does `GetWorkloadObjectNameMeta` answer for a machine that is not there? | violated |

Every property of a passing run has a variant of the code (`...Ignored`,
`...ByVerb`, `SaveOver`, ...) defined next to the definition it would replace:
with the variant in its place TLC finds the property violated.

`WorkerSurvives` holds under what the instance assumes of names
(`NamesAreFit`): a service with the name of a machine ends in `-clusterip` or
`-nodeport`. Where it does not, `handleServiceDeletion` returns an error and
`handleError` panics (`watcher.go:176`). `NamesTellObjectsApart` shows that the
names the system itself gives never meet so; a user's own objects may.

## 4. Bounds and abstractions

Bounds of the runs:

- `MaxChanges` (4; 6 in `cloud`): changes the informers see. The hard orders need
  few: a pod created, bound, ended and created again is four. Everything else
  (deliveries, reads, retries) is unbounded.
- `MaxRequeue` is 1 where the code has 5: one retry and then the drop show both
  sides of the bound; the proofs hold for every value.
- `describer`: two pods, one node, one spec. Pods meet only in the ledger of a
  node, so two on one node are what can disturb one another. `describer_live`:
  one pod with either of two specs, one node, since liveness is per key and
  without symmetry. `find_no_node_listed`: one pod on one node, which has room for
  two of its kind whatever it offers.
- `watcher`: a machine "web-clusterip" that may belong to either of two
  workloads, a volume and a ClusterIP service of the same name and a NodePort
  service "web", all of the first workload, and a machine without labels. The
  worker looks services and volumes up under the names of machines, so names
  that meet are what can go wrong, and the one that passes between two workloads
  is the case of `watcher.go:339`.
- `lifecycle`: two components with the informers the code starts, three events
  each: none, one and more than one in the queue when it is shut down.
- `workload_manager`: three requests: two with different GPUs that overlap, and
  one whose image is unknown. `auth`: four calls on two candidates and a
  stranger, two passwords.
- `cloud`: one request, since what the two processes keep they keep by workload
  (the template, which they do not, is the matter of `workload_manager`); six
  changes and one restart of the Watcher: three objects come, the service and
  the machine go, the volume follows. `Namespace` and `TargetNamespace` are the same;
  in `find_unseen_machine` they are those of `assets/config.yaml` and `const.go`.
- `pure_functions`: users whose ids begin and end alike and uuids that share
  their first group, in pairs; up to three volumes in two namespaces; every form of
  quantity with and without GPU, also one called "cpu", and numbers below zero, at and beyond the bounds of an uint32
  and of an int, for which 8 and 15 stand; every byte; up to two containers and one
  init container, with and without overhead. About 213 000 states.

Abstractions, each of which allows at least what the code does unless said so:

- An informer may replace any object by any other and call it "update" (a list
  after a broken watch does that), and may repeat the same object (a resync). In
  `cloud` it sees only what the API server holds.
- The delay of a retry ends at any time. The worker may start before the caches
  have synced (`Lifecycle` shows that it waits), which only adds behaviours.
- A failed and a succeeded pod are both `Ended`. Quantities are small integers;
  in `Catalog` thousandths of what the text says.
- Labels of a volume's or a service's key are fixed within the instance of
  `watcher`; a machine's may change with a machine of the same name, and the
  unlabelled machine gets a new uuid per event.
- uuids do not collide; hashes stand for passwords; expiry happens at any time.
- A map read by another goroutine is read atomically. Go gives no such promise
  (section 8).
- In `Cloud` a namespace is only what the informers list or do not; no other
  namespace has objects of its own.

`CHECK_DEADLOCK FALSE` is set where the system rests once the bounded changes,
requests or calls are used up, which is the normal end of every behaviour.

## 5. Fairness

Three runs check liveness, and each assumes weak fairness only of goroutines that
run as long as their process does. No fairness is assumed of the cluster, of
callers or of failures: `<>[]` properties hold because changes are bounded, or
because their premise says that the cluster stays as it is.

- `describer_live` (`FairAuditSpec`). `DeliverTo(r)`: each informer's processor
  goroutine. `Retry(e)`: the delaying queue's timer fires. `Take` and the
  handlers: `wait.Until` restarts `runWorker`, whose loop blocks only in `Get`,
  and no handler blocks.
- `lifecycle` (`Fairness`). `Call`, `CachesSynced`, `Return`: the goroutine that
  calls `Run`. `List`: an API server that is there answers a list in the end.
  `Begin`, `Consume`, `Quit`: the worker. The lister needs none: it is said to stay,
  not to get anywhere. Not `Stop` (nobody must close the
  channel; `main` never does) and not `Notify` (nothing must happen in the
  cluster).
- `cloud` (`CloudSpec`). `See`: a reflector learns in the end of what stays as it is
  in the namespace that it lists; so `CreatedIsNamed` says something of the code only
  where manager and Watcher have one namespace, and the run gives them one.
  `Deliveries` and `Work`: as above. Nothing of the manager.

## 6. The proofs

Assumptions are those on constants, named in the module that declares them:
`PipelineAssumption`, `DescriberAssumption`, `WatcherAssumption`,
`LifecycleAssumption`, `WorkloadAssumption`, `CloudAssumption`, `AuthAssumption`,
`WidthAssumption`, `FunctionsAssumption`. Two theorems of `CloudProofs` have a premise
of their own, `Namespace = TargetNamespace`.
Of a pod spec they say only what the API server admits (`IsPodSpec`: finitely many
containers, no negative quantity). Sets of pods, nodes, specs, keys, workloads,
requests, ids and calls are arbitrary, as are `MaxRequeue`, `MaxChanges` and
`MaxEvents`.

**Describer** (`DescriberProofs`).

- `TypeCorrect`: the state keeps its types. The interesting part is that no
  ledger opens a book for the empty node name: a listed pod that is released may
  have no node, and `sub` skips it.
- `AlwaysConverging`, `PodsConverge`, `NodesConverge`: where no event of a key is
  pending, the list holds what the store holds. This is not inductive by itself.
  The worker may hold an old object while the store moves on, so `ReadIsFollowed`
  asks for another event on its way. That is not enough for pods: an "add" that
  finds an ended pod leaves the list alone, so a listed pod that ended must be
  followed by an event that is not an "add"; `EndIsFollowed` and the second part
  of `ReadIsFollowed` say so. `Converging` is the conjunction, checked by TLC in
  `describer` and proved inductive with one lemma per group of steps.
- `TotalsAreSums` (`LedgersBalance`): in every ledger the total of a resource is the
  sum over the nodes. It is inductive together with the types: each step books
  once, releases once or removes a node (`Balanced`, in `ResourceListsProofs`).
- `OffersAreExact`, `BooksAreExact`, `AnswersAreTrue`: the four causes of
  `DescriberAudit` are all there are. The invariant is `AuditIInv`: as long as
  there is no cause, what a node offers is what its listed object says
  (`NodeBooked`), and what it holds in the two pod ledgers is the sum over the pods
  that are listed there and not owed their "add" (`PodsBooked`). What keeps a
  release from taking off what was never booked is `Tracked`: what is listed can
  become what was read, and that what the store holds, without a change of name,
  node or resources; a pod that lives and is not listed is owed its "add"; and a
  listed pod owed nothing has a node, or has ended without one (`Placed`). That no
  "add" is applied twice needs `Orderly`: an "add" is at one place, since the
  inbox, the queue and the retries hand it on, and the queue holds nothing twice.
  `AnswersAreTrue` then compares the books with what the cluster runs.
- `Mirrors`: the refinement. An entry is stale while one of its events is on its
  way or in hand; a handler is `Apply`, a read is `Look`, an observation is
  `Change`, everything else stutters.

**Watcher** (first half of `CloudProofs`).

- `MachinesConverge`: where no event of a machine is pending, its info and
  `workloadMetaMap` show it as the store does, unless its name is `mixed`, and
  whatever volumes, services and other machines there are. The invariant
  `IInv` has the shape of the maps, `ReadIsFollowed` for every key, and for every
  machine whose labels are its own (`Exclusive`): the name is known by one of its
  workloads (`KnownByItsOwn`), a workload that shows a machine is known by that
  machine's name (`ShownIfKnown`), and what is shown is the last object, or an
  event is on its way (`LastIsShown`). All but the last are needed because the
  deletion finds the info by the name: were the name unknown, it would leave
  a machine shown that is gone.
- `WorkerNeverPanics`, where `NamesAreTyped`: services that bear a machine's name
  have a type in it. `NamesKnown` adds to `IInv` that the map knows only names of
  machines; so a service's deletion that finds its name known is one of those.
- `StatusesConverge`, where `NamesAreOwn`: no volume or service bears the name of
  a machine of another one's workload. `StatusesShown` is like `LastIsShown`
  for volumes and services; the work is in showing that every other step leaves
  the three fields alone (`OthersKeepStatus`), and that is where the name of
  another object would do harm.
- `WatcherTypes`: `TypeOK`, whose hard part is that no more uuids are made up than
  the informers saw changes, for objects without labels. `Numbered` counts: those
  made up and the events on their way (`InFlight`) are together no more than the
  changes. A merge of equal events only lowers the count, and the worker makes up
  one uuid for an event that it then is done with: nothing is retried, since
  `handleError` panics.
- `Mirrors`: the refinement, for the machines whose labels are their own, whatever
  volumes, services and other machines there are. The view of a machine is what is
  shown of the workload its name is known as; it is stale while one of its events
  is on its way or in hand, or its name is `mixed`. A handler of the machine is
  `Apply`, its read `Look`, its observation `Change`; a made-up uuid, a handler of
  another object and a call are stutters. That an entry that is not stale is right
  is `FreshShown`, from `IInv`; that no other object changes what is shown is
  `ShownStays`.

The two assumptions on names are hypotheses of the theorems; TLC evaluates them
for the instance of `watcher` (`NamesAreFit` in `MCWatcher`).

**Start and end** (`LifecycleProofs`). `IInv` is `TypeOK` with `Turn` (who is
called later is called when those before have returned), `Closed` and `Late`
(then the channel was closed and the later one's informers list nothing). From it
`SecondNeverWorks`, whatever informers there are and however many events.

**Virt manager** (`WorkloadManagerProofs`). `IInv` has the types, what exists of
a workload at every stage of its creation (`Stages`), and who wrote the template
that a building request has not shared (`Sharing`). From it `AnswersAccount`,
`MachinesHaveServices` and `AloneIsSafe`, for any number of requests.

**Cloud** (`CloudProofs`). `MachinesAreDeletable`, `MachinesAreFound` and
`GoneMachinesAreNotNamed`, for any number of requests, changes and restarts; the
first two where manager and Watcher have one namespace, without which they are
false (`find_unseen_machine`). `CloudIInv` has the invariants of the
two processes, which hold in the composition because every step is one of the
Watcher's, one of the manager's or a restart, and `Following`, which neither has
alone. `MachineIsFresh`: of a machine that is there or still to come, the worker
holds no "gone", and before the informer has seen it no event is anywhere.
`ServiceIsShown`: until its machine goes, a service that was seen stays in the
info, also when the service itself goes. `NamesStay`: who was given the names of a
machine that is there is given them again, so a half deletion can be repeated,
unless the Watcher was started again.

**Functions without state** (`ResourceListsProofs`, `FunctionProofs`). The
properties of `pure_functions`, and `OffersAreValid`, are theorems of
`PureFunctions`, whatever pods, ledgers, requests, listings, resources and
instance types there are: `ListsStayEffective`, `BookingsAreUndone`, `NamesStayApart`, `LabelsStayTrue`,
`SourcesCarryCodes`, `DemandsStayCovered`, `OffersRemainValid` and
`AddressesAreUnicast`. That the input stays (`InputStays`) and is answered by the
step of its topic (`AnswersOnce`) is all there is to the behaviours; the work is in
the theorems on the operators, which the proofs of the describer use as well.

- `SubUndoesAdd`, `DeleteUndoesAdd`: booking and releasing restores every amount,
  also where the node or the resource was unknown before; so does removing a node
  that had no other booking. The lemmas say that `add`, `sub` and `deleteNode` keep
  the shape of a ledger, its balance, and of a node's book the sum of its pods
  (`HoldsExactly`).
- `PodListsAreEffective`: what is booked for a pod is, of every resource, the sum of
  its containers or its largest init container, and the overhead, with the rule
  for limits that are not set.
- `WorkloadsAreToldApart`, `LabelsAreTheirOwn`: why `WorkloadManager` may take a
  workload for its request. Ids of users are made of any tokens, hyphens between
  them included. A name has the user between its first and its last token, so it
  tells all its parts (`NameTellsItsParts`): two names are the same only if they
  are as long, and then token by token (`NamesMeet`).
- `DisksCloneTheirImage`: of every code the list of images has the first volume that
  carries it (`ListOfImagesIs`), and the disk is cloned from that one, provided that
  the images are in the namespace of the configuration.
- `DemandsCoverMachines`: for all quantities, whatever their sign and size
  (`CoresOfWhole` is where a whole number comes out of the 32 bits), and every device
  that is not called
  "cpu" or "memory": one of that name would replace the entry of the demand.
- `OctetIsEven`: a byte and the number before it are not both odd, so the lowest
  bit is in neither of what they have in common; the others add up to an even
  byte (`BitsAddUp`).
- `OffersStayValid`: the default instance types are valid, of every code the last
  one is listed (`ListOfOffersIs`), and additions and deletions keep the list valid.
- Sums and folds are recursive functions over sets of indices, about which nothing
  can be taken from the induction theorems of the library, as these take an
  operator. `AllNumbers` and `AllSubsets` are induction for sets instead: a set that
  has every subset of which it has each part with an element less, has them all.
  With them it is shown that the tables of partial sums exist (`TableExists`) and do
  not depend on the order (`SumTakesOut`), and what the folds are: a sum
  (`SumOfListsIs`), a maximum (`AtLeastIs`), the first and the last of a code.

**Pipeline** (`EventPipelineProofs`). For each step, where events are afterwards, and
how many (`InFlight`); used by the describer, the Watcher and `Cloud`.

**Auth** (`AuthProofs`). `Safe` adds to the checked properties `UserHasCall`: a row
of `users` was written by a call for a candidate that is past the insert, with its
password. It is what makes `TokenIsEarned` inductive: a call that was only refused
is no witness, and whatever row an empty id finds has such a call. The theorems are
`TypeCorrect`,
`WelcomedOnce`, `RegisteredCanSignIn`, `TokensAreEarned` and `PasswordsStay`. The
check of the `registered` column is never used in the argument: the primary key
alone keeps two sign-ups apart.

Only model-checked: liveness, which is out of the prover's reach
(`EventuallyConverged`, `RetriesEnd`, `WorkGetsDone`, `OnlyTheListerStays`,
`CreatedIsNamed`). Every invariant that a passing run checks, and both refinements
of `Mirror`, are theorems.

## 7. Where code and intent differ

With a run that shows it:

- `find_no_node_listed`: the node informer is not started, `nodeList` stays empty and
  `CheckAvailability` answers no to every demand. With the line of `Run` that starts
  it two more things would come to bear: a node on which no pod was ever booked is
  skipped (`describer.go:80`), and a resource that no pod of the node requests is not
  compared (`tools.go:57`), which is why `AnswerIsTrue` speaks only of resources
  that are requested there.
- `find_unseen_machine`: the manager creates in "kauloud" (`assets/config.yaml`), the
  Watcher lists "default" (`const.go:38`, `watcher.go:43-67`); it has no virtual
  machine of anybody, and no owner is ever given the names a deletion needs.
- `find_leftover_info`: an event of a volume or service that is handled after the
  deletion of its machine makes the info anew, and nothing deletes it again.
- `find_torn_info`: a call that has found an info dereferences nil when the
  machine is deleted before it reads on.

Stated by a property that holds:

- `OnlyTheListerStays`: the describer's `Run` starts `runTestLister`, whose wait for
  the stop channel comes after an endless loop; in the order of `InformerService.Run`
  it is even started when the channel is closed already.
- `OnlyTheFirstWorks`: `InformerService.Run` starts the describer after
  `watcher.Run` has returned, when everything is to end; its worker never begins.
- `VmConverged` excepts `mixed` names: `workloadMetaMap` keeps the workload of the
  first event, so a machine that was replaced by one of another workload before
  the worker looked leaves the second workload's info behind.
- `StatusConverged` excepts `forgotten` workloads: the deletion of a machine takes
  the progress and the address along, and a machine that comes back has neither
  until its volume and service change again.
- `AnswerAccountsForObjects`, `MachineHasService` and `Deletable` except `unsure`
  workloads: when the answer to the creation of a machine is lost, the rollback
  deletes its service; the machine is left, cannot be named and so not be deleted.
- `Deletable` excepts a restart of the Watcher after half a deletion: the service
  that is gone is not learnt of again, and the machine can no longer be named.
- `AnswerAccountsForObjects` takes "both or neither" for success, since a creation
  that failed and was rolled back returns nil.
- `AloneGetsItsOwn` speaks of the GPU only where the request has one, since `Build`
  only ever sets it: a machine without keeps the GPU of an earlier request.
- `SourceCarriesCode` holds where all base images are in the namespace that disks
  are cloned from; they are listed in all namespaces.
- `DemandCoversMachine` is one way only: `ParseResourceList` demands one of the
  GPU's device also where the GPU is not enabled and its name is empty. A device
  called "cpu" or "memory" is excepted: it would replace that entry of the demand.
  A machine of "500m" has 0 cores, and so has one of "4294967296"; one of "-1" has
  4294967295. The property says for which whole numbers cores and demand agree.
- `TokenIsEarned`: a sign-in with an empty id is answered by whatever row the
  database finds, and its caller must give that user's password.

Seen while modelling, without a run of their own:

- `Build` parses the volume's limits from an empty quantity (`vm.go:267` calls
  `GetStorageResourceList("")`, which is `MustParse("")` at `tools.go:51`), on
  which the library version of `go.mod` panics: then no machine is ever built.
  The model takes the library as the code expects it to be; `Crash` of
  `WorkloadManager` includes a `Build` that panics.
- The name that `NameServiceOnKubeResource` gives a service ends in "-ClusterIP" or
  "-NodePort", and an API server refuses a name with capitals: then every creation
  fails at its first call (`CreateService` without success). The model lets the
  server accept the name; no safety property depends on it.
- The key is `resourceDesciber` in `assets/config.yaml` and `resourceDescriber` in
  `config.go`, so `SkipCompressible` is never read.
- `main.go` calls `NewStreamingResourceDescriber` without its configuration, and
  `auth.go` and a file of `deprecated/` refer to a package `main2` that they do
  not import: neither compiles as it stands.
- An object without the uuid label gets a new uuid at every event, and so a new
  info each time (`TypeOK` of `Watcher` bounds them by the events).
- `GetServiceTypeFromEventKey` compares in lower case what
  `NameServiceOnKubeResource` writes in mixed case: the type of a service that the
  system itself named cannot be read.
- A list call may be handed an info whose status was set to nil by a deletion
  meanwhile, and answers with an empty entry.
- `UpdateBaseImageList` is empty: images that appear later are not known until the
  next start.
- A sign-in with any valid token is refused, whoever the token was issued to.
- If marking the candidate fails, or the answer to the insert is lost, the
  account exists and signs in, and each later sign-up is refused by the insert.

## 8. Not modelled

- The concurrent reading of Go maps without a lock (`CheckAvailability`,
  `runTestLister`, the list calls): the runtime may end the process, at any time,
  and no state of interest follows.
- What `runTestLister` logs (that it runs is in `Lifecycle`). `main.go` beyond the
  order in which it calls `Run`,
  reading of configuration and building of clients keep no state.
- `VirtManagementService`: both methods return `codes.Unimplemented`;
  `CreateVirtualMachine` calls `IsAllocatable` and ignores the answer.
- Generated protobuf code, and `deprecated/`, which nothing calls.
- Fixed fields of the objects that are built (devices, clock, cloud-init).
- Hashing, the encoding of tokens, the creation of tables.

## 9. The plan

Done, in this order: `ResourceLists`, `EventPipeline`, `Mirror`, `Describer` with
its proofs, `DescriberAudit`, `Watcher`, `WorkloadManager`, `Auth` with its proofs,
`Workload` and `Catalog` with `pure_functions`, `Lifecycle` with its proofs,
`WorkloadManagerProofs`, `Cloud`, the Watcher with names that pass between
workloads, the Watcher's proofs and `CloudProofs`, the ledgers' sums and the audit
in `DescriberProofs`, the Watcher's types, the functions without state in
`ResourceListsProofs`, the Watcher as a second implementation of `Mirror`, and
`PureFunctions` with `FunctionProofs`.

What could follow:

- `Mirror` for volumes and services, whose view is the status of an info: it is
  made and forgotten with the machine's, so the mirror would have to say when.
