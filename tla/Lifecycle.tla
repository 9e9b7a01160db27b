----------------------------- MODULE Lifecycle ------------------------------
(***************************************************************************)
(* The start and the end of the watcher and the describer: their methods   *)
(* Run, which are alike, InformerService.Run, which calls one after the    *)
(* other, and main, which calls the describer's alone.  Run starts the     *)
(* informers, waits until they have synced, starts the worker, and waits   *)
(* for the stop channel; its deferred calls shut the queue down.           *)
(*                                                                         *)
(* Events are counted, not told apart: EventPipeline models what becomes   *)
(* of them.  The describer's Run also starts a goroutine that logs         *)
(* (runTestLister); what it reads and writes is left out, that it runs is  *)
(* not.  That an informer ends with the stop channel is left to client-go. *)
(***************************************************************************)
EXTENDS Naturals, Sequences

CONSTANTS InformersOf,  \* [components -> the informers that Run starts]
          MaxEvents     \* bound: notifications of each component

Components == DOMAIN InformersOf
ServiceOrder == << "watcher", "describer" >>
MainOrder == << "describer" >>

ASSUME LifecycleAssumption ==
  /\ Components = {"watcher", "describer"}
  /\ \A c \in Components : InformersOf[c] # {}
  /\ MaxEvents \in Nat

VARIABLES order,    \* the calls of Run that the caller makes, in order
          stop,     \* is the stop channel closed?
          place,    \* [Components -> where Run is]
          synced,   \* [Components -> the informers that have synced]
          queue,    \* [Components -> events in the work queue]
          arrived,  \* [Components -> notifications so far]
          shut,     \* the components whose queue was shut down
          worker,   \* [Components -> what the worker does]
          lister    \* does runTestLister run?

vars == << order, stop, place, synced, queue, arrived, shut, worker, lister >>

Init ==
  /\ order \in {ServiceOrder, MainOrder}
  /\ stop = FALSE
  /\ place = [c \in Components |-> "not called"]
  /\ synced = [c \in Components |-> {}]
  /\ queue = [c \in Components |-> 0]
  /\ arrived = [c \in Components |-> 0]
  /\ shut = {}
  /\ worker = [c \in Components |-> "none"]
  /\ lister = FALSE

Goto(c, there) == place' = [place EXCEPT ![c] = there]

\* Variant for the mutation check: each Run gets a goroutine of its own.
InTurnAtOnce(i) == TRUE

\* The calls before the i-th have returned.
InTurn(i) == \A j \in 1..(i - 1) : place[order[j]] = "returned"

----------------------------------------------------------------------------
(* Run                                                                     *)

\* Of the lister's loop there is no end: the wait for the stop channel comes
\* after it and is never reached, so no action ends the lister.
Call(i) ==
  /\ place[order[i]] = "not called"
  /\ InTurn(i)
  /\ Goto(order[i], "syncing")
  /\ lister' = (lister \/ order[i] = "describer")
  /\ UNCHANGED << order, stop, synced, queue, arrived, shut, worker >>

\* Variant: Run does not start the informer of pods, whose cache it waits for.
ListAllButPods(c, informer) ==
  /\ place[c] # "not called"
  /\ ~stop
  /\ informer \in InformersOf[c] \ (synced[c] \cup {"pod"})
  /\ synced' = [synced EXCEPT ![c] = @ \cup {informer}]
  /\ UNCHANGED << order, stop, place, queue, arrived, shut, worker, lister >>

\* A reflector lists what there is, unless the stop channel is closed.
List(c, informer) ==
  /\ place[c] # "not called"
  /\ ~stop
  /\ informer \in InformersOf[c] \ synced[c]
  /\ synced' = [synced EXCEPT ![c] = @ \cup {informer}]
  /\ UNCHANGED << order, stop, place, queue, arrived, shut, worker, lister >>

\* Variant: one cache that has synced will do.
SomeCacheSynced(c) ==
  /\ place[c] = "syncing"
  /\ synced[c] # {}
  /\ Goto(c, "running")
  /\ worker' = [worker EXCEPT ![c] = "starting"]
  /\ UNCHANGED << order, stop, synced, queue, arrived, shut, lister >>

\* WaitForCacheSync
CachesSynced(c) ==
  /\ place[c] = "syncing"
  /\ synced[c] = InformersOf[c]
  /\ Goto(c, "running")
  /\ worker' = [worker EXCEPT ![c] = "starting"]
  /\ UNCHANGED << order, stop, synced, queue, arrived, shut, lister >>

\* Variant: the queue is not shut down.
ReturnQuietly(c) ==
  /\ place[c] \in {"syncing", "running"}
  /\ stop
  /\ Goto(c, "returned")
  /\ UNCHANGED << order, stop, synced, queue, arrived, shut, worker, lister >>

\* The stop channel is closed, before the caches have synced or after.
Return(c) ==
  /\ place[c] \in {"syncing", "running"}
  /\ stop
  /\ Goto(c, "returned")
  /\ shut' = shut \cup {c}
  /\ UNCHANGED << order, stop, synced, queue, arrived, worker, lister >>

\* Only whoever called InformerService.Run closes the channel: main closes it
\* when it ends, which it does not.
Stop ==
  /\ ~stop
  /\ order = ServiceOrder
  /\ stop' = TRUE
  /\ UNCHANGED << order, place, synced, queue, arrived, shut, worker, lister >>

----------------------------------------------------------------------------
(* The queue and the worker.                                               *)

\* Notifications may still be delivered after the end; the queue drops them.
Notify(c) ==
  /\ synced[c] # {}
  /\ arrived[c] < MaxEvents
  /\ arrived' = [arrived EXCEPT ![c] = @ + 1]
  /\ queue' = [queue EXCEPT ![c] = IF c \in shut THEN @ ELSE @ + 1]
  /\ UNCHANGED << order, stop, place, synced, shut, worker, lister >>

Work(c, from, to) == worker[c] = from /\ worker' = [worker EXCEPT ![c] = to]

\* wait.Until looks at the stop channel before it calls runWorker.
Begin(c) ==
  /\ Work(c, "starting", IF stop THEN "never began" ELSE "working")
  /\ UNCHANGED << order, stop, place, synced, queue, arrived, shut, lister >>

Consume(c) ==
  /\ worker[c] = "working"
  /\ queue[c] > 0
  /\ queue' = [queue EXCEPT ![c] = @ - 1]
  /\ UNCHANGED << order, stop, place, synced, arrived, shut, worker, lister >>

\* Get returns quit when the queue is shut down and empty.
Quit(c) ==
  /\ c \in shut
  /\ queue[c] = 0
  /\ Work(c, "working", "done")
  /\ UNCHANGED << order, stop, place, synced, queue, arrived, shut, lister >>

Next ==
  \/ \E i \in DOMAIN order : Call(i)
  \/ \E c \in Components :
       \/ \E informer \in InformersOf[c] : List(c, informer)
       \/ CachesSynced(c) \/ Return(c) \/ Notify(c)
       \/ Begin(c) \/ Consume(c) \/ Quit(c)
  \/ Stop

\* Every goroutine runs as long as it can; an API server that is there
\* answers a list in the end.  Nobody has to stop anything, and nothing has
\* to happen in the cluster.
Fairness ==
  /\ \A i \in 1..2 : WF_vars(i \in DOMAIN order /\ Call(i))
  /\ \A c \in Components :
       /\ \A informer \in InformersOf[c] : WF_vars(List(c, informer))
       /\ WF_vars(CachesSynced(c)) /\ WF_vars(Return(c))
       /\ WF_vars(Begin(c)) /\ WF_vars(Consume(c)) /\ WF_vars(Quit(c))

Spec == Init /\ [][Next]_vars /\ Fairness

----------------------------------------------------------------------------
(* Properties.                                                             *)

\* The state keeps its shape, no queue holds more than has arrived, and no
\* worker starts before all caches have synced.
TypeOK ==
  /\ order \in {ServiceOrder, MainOrder}
  /\ stop \in BOOLEAN
  /\ place \in [Components -> {"not called", "syncing", "running", "returned"}]
  /\ DOMAIN synced = Components
  /\ \A c \in Components : synced[c] \subseteq InformersOf[c]
  /\ arrived \in [Components -> 0..MaxEvents]
  /\ queue \in [Components -> 0..MaxEvents]
  /\ \A c \in Components : queue[c] <= arrived[c]
  /\ shut \subseteq Components
  /\ worker \in [Components -> {"none", "starting", "working", "never began", "done"}]
  /\ \A c \in Components : worker[c] # "none" => synced[c] = InformersOf[c]
  /\ lister \in BOOLEAN

\* Only the first component of the order ever has a worker: the second is
\* called when the stop channel is closed, its informers list nothing, and
\* its wait for the caches fails.  In InformerService.Run that is the
\* describer, which so never learns of a pod or a node.
OnlyTheFirstWorks ==
  \A c \in Components : worker[c] # "none" => c = order[1]

\* A worker never sleeps for good: the first component gets to work, unless
\* it is stopped before, and while it works every event that has come is
\* handled in the end.
WorkGetsDone ==
  /\ <>(stop \/ worker[order[1]] = "working")
  /\ \A c \in Components : worker[c] = "working" ~> queue[c] = 0

\* The goroutines that run: calls of Run, workers, and the lister.
Running ==
  {<< "Run", c >> : c \in {d \in Components : place[d] \in {"syncing", "running"}}}
    \cup {<< "worker", c >> : c \in {d \in Components : worker[d] \in {"starting", "working"}}}
    \cup (IF lister THEN {<< "lister", "describer" >>} ELSE {})

\* When the channel is closed, at whatever moment, both calls of Run return in
\* the end and no worker is left waiting at its queue; but the describer's
\* lister, which its Run starts even then, goes on for ever.
OnlyTheListerStays == stop ~> [](Running = {<< "lister", "describer" >>})
=============================================================================
