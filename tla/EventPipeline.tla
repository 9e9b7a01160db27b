--------------------------- MODULE EventPipeline ---------------------------
(***************************************************************************)
(* What the resource describer and the virt watcher have in common: each   *)
(* registers handlers on shared informers, the handlers put events on one  *)
(* rate-limited work queue, and one worker takes the events, reads the     *)
(* CURRENT object from the informer's store and applies it to its own      *)
(* maps (consume, sync, handleError, and the enqueue handlers).            *)
(*                                                                         *)
(* The informers and the queue are client-go's: they are modelled from how *)
(* the code in src/ uses them.  An informer first replaces the object in   *)
(* its store and then notifies its handlers, in order, from a goroutine of *)
(* its own; informers do not wait for one another.  The queue holds an     *)
(* event at most once, and an event added while it is processed returns to *)
(* the queue when the worker is done with it.                              *)
(***************************************************************************)
EXTENDS Integers, Sequences

CONSTANTS Keys,         \* the cluster's objects, by resource and name
          ResourceOf,   \* the resource of each key
          MaxRequeue,   \* kauloud.ControllerMaxRequeue
          MaxChanges,   \* bound: changes of the cluster the informers see
          Absent,       \* in a store or a map: no object under the key
          Unread,       \* the worker has not read the store yet
          Nothing       \* the worker processes no event

Verbs == {"add", "update", "delete"}
Event == [verb : Verbs, key : Keys]
Resources == {ResourceOf[k] : k \in Keys}

ASSUME PipelineAssumption ==
  /\ MaxRequeue \in Nat
  /\ MaxChanges \in Nat
  /\ Nothing \notin Event
  /\ Absent # Unread

VARIABLES store,        \* [Keys -> object or Absent]: the informers' stores
          inbox,        \* [Resources -> Seq(Event)]: notifications not delivered
          queue,        \* the work queue: the events in line,
          dirty,        \* those that need to be processed,
          processing,   \* the one the worker has taken, or Nothing
          waiting,      \* those to be added again when their delay is over
          requeues,     \* [Event -> 0..MaxRequeue]: the rate limiter's counts
          object,       \* what the worker read for the event it processes
          changes       \* how many changes the informers have seen

pipeVars == << store, inbox, queue, dirty, processing, waiting, requeues,
               object, changes >>

PipeInit ==
  /\ store = [k \in Keys |-> Absent]
  /\ inbox = [r \in Resources |-> << >>]
  /\ queue = << >>
  /\ dirty = {}
  /\ processing = Nothing
  /\ waiting = {}
  /\ requeues = [e \in Event |-> 0]
  /\ object = Unread
  /\ changes = 0

----------------------------------------------------------------------------
(* The informers.                                                          *)

VerbOf(old, new) == IF old = Absent THEN "add"
                    ELSE IF new = Absent THEN "delete" ELSE "update"

\* An informer learns a new state of key k.  A watch that was interrupted
\* is made up for by a list, so any object may follow any other, and one
\* that replaces another of the same name comes as an "update".
Observe(k, new) ==
  /\ changes < MaxChanges
  /\ store[k] # Absent \/ new # Absent
  /\ store' = [store EXCEPT ![k] = new]
  /\ inbox' = [inbox EXCEPT ![ResourceOf[k]] =
                 Append(@, [verb |-> VerbOf(store[k], new), key |-> k])]
  /\ changes' = changes + 1
  /\ UNCHANGED << queue, dirty, processing, waiting, requeues, object >>

----------------------------------------------------------------------------
(* The work queue.                                                         *)

Add(e) ==
  IF e \in dirty
    THEN UNCHANGED << queue, dirty >>
    ELSE /\ dirty' = dirty \cup {e}
         /\ queue' = IF e = processing THEN queue ELSE Append(queue, e)

\* addPod, updatePod, deletePod, ...: a notification becomes an event.
Deliver(r) ==
  /\ inbox[r] # << >>
  /\ Add(Head(inbox[r]))
  /\ inbox' = [inbox EXCEPT ![r] = Tail(@)]
  /\ UNCHANGED << store, processing, waiting, requeues, object, changes >>

\* The delay of AddRateLimited is over.  The delays grow with the count of
\* requeues, but a delay may end at any time relative to the other steps.
RetryDue(e) ==
  /\ e \in waiting
  /\ waiting' = waiting \ {e}
  /\ Add(e)
  /\ UNCHANGED << store, inbox, processing, requeues, object, changes >>

\* consume takes an event ...
Get ==
  /\ processing = Nothing
  /\ queue # << >>
  /\ processing' = Head(queue)
  /\ queue' = Tail(queue)
  /\ dirty' = dirty \ {Head(queue)}
  /\ UNCHANGED << store, inbox, waiting, requeues, object, changes >>

\* ... and sync reads the object, which need not be the one notified.
Read ==
  /\ processing # Nothing
  /\ object = Unread
  /\ object' = store[processing.key]
  /\ UNCHANGED << store, inbox, queue, dirty, processing, waiting, requeues,
                  changes >>

\* The worker holds event e and has read the object for it.
Handling(e) == processing = e /\ e # Nothing /\ object # Unread

\* Variant for the mutation check: the number of retries is not bounded.
FinishRetriesForEver(e, failed) ==
  /\ requeues' = [requeues EXCEPT ![e] =
                    IF ~failed THEN 0 ELSE IF @ < MaxRequeue THEN @ + 1 ELSE @]
  /\ waiting' = IF failed THEN waiting \cup {e} ELSE waiting
  /\ processing' = Nothing
  /\ object' = Unread
  /\ queue' = IF e \in dirty THEN Append(queue, e) ELSE queue
  /\ UNCHANGED << store, inbox, dirty, changes >>

\* handleError, and the deferred Done.  Forget clears the count only: an
\* entry that still waits stays.
Finish(e, failed) ==
  LET again == failed /\ requeues[e] < MaxRequeue
  IN  /\ requeues' = [requeues EXCEPT ![e] = IF again THEN @ + 1 ELSE 0]
      /\ waiting' = IF again THEN waiting \cup {e} ELSE waiting
      /\ processing' = Nothing
      /\ object' = Unread
      /\ queue' = IF e \in dirty THEN Append(queue, e) ELSE queue
      /\ UNCHANGED << store, inbox, dirty, changes >>

----------------------------------------------------------------------------
(* Where an event of a key can be.                                         *)

In(seq, e) == \E i \in DOMAIN seq : seq[i] = e

\* The event will come to the worker without further delay.
OnWay(e) == In(inbox[ResourceOf[e.key]], e) \/ e \in dirty

\* An event of the key is on its way, or in the worker's hands.
Pending(k) == \E e \in Event : e.key = k /\ (OnWay(e) \/ e = processing)

PipeTypeOK ==
  /\ DOMAIN store = Keys
  /\ inbox \in [Resources -> Seq(Event)]
  /\ queue \in Seq(Event)
  /\ dirty \subseteq Event
  /\ processing \in Event \cup {Nothing}
  /\ waiting \subseteq Event
  /\ requeues \in [Event -> 0..MaxRequeue]
  /\ changes \in 0..MaxChanges
  /\ (processing = Nothing) => (object = Unread)
=============================================================================
