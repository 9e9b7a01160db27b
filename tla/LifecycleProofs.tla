-------------------------- MODULE LifecycleProofs --------------------------
(***************************************************************************)
(* The start and the end of the components, for any informers and any      *)
(* number of notifications.  Nothing here depends on the scheduler: that   *)
(* InformerService never gives the describer a worker is a matter of what  *)
(* its Run waits for, and no fairness can help it.                         *)
(***************************************************************************)
EXTENDS Lifecycle, TLAPS

\* Whoever is called after the first is called when the first has returned.
Turn == \A c \in Components :
          c # order[1] /\ place[c] # "not called" => place[order[1]] = "returned"

\* Run returns only when the stop channel is closed.
Closed == \A c \in Components : place[c] = "returned" => stop

\* Nothing is listed for whoever is called when the channel is closed.
Late == \A c \in Components : c # order[1] => synced[c] = {}

IInv == TypeOK /\ Turn /\ Closed /\ Late /\ OnlyTheFirstWorks

\* The first of an order is a component, and no other comes before it.
LEMMA FirstOfOrder ==
  ASSUME TypeOK
  PROVE  /\ order[1] \in Components
         /\ \A i \in DOMAIN order : /\ order[i] \in Components
                                    /\ order[i] # order[1] => 1 \in 1..(i - 1)
<1>1. CASE order = ServiceOrder
  <2>1. Len(order) = 2 /\ order[1] = "watcher" /\ order[2] = "describer"
    BY <1>1 DEF ServiceOrder
  <2>2. DOMAIN order = {1, 2}
    BY <1>1 DEF ServiceOrder
  <2>3. 1 \in 1..(2 - 1)
    OBVIOUS
  <2> QED BY <2>1, <2>2, <2>3, LifecycleAssumption
<1>2. CASE order = MainOrder
  <2>1. DOMAIN order = {1} /\ order[1] = "describer"
    BY <1>2 DEF MainOrder
  <2> QED BY <2>1, LifecycleAssumption
<1> QED BY <1>1, <1>2 DEF TypeOK

LEMMA InitIInv == Init => IInv
<1> SUFFICES ASSUME Init PROVE IInv
  OBVIOUS
<1>1. TypeOK
  <2>1. 0 \in 0..MaxEvents /\ 0 <= 0
    BY LifecycleAssumption
  <2> QED BY <2>1 DEF Init, TypeOK
<1>2. Turn /\ Closed /\ Late /\ OnlyTheFirstWorks
  BY DEF Init, Turn, Closed, Late, OnlyTheFirstWorks
<1> QED BY <1>1, <1>2 DEF IInv

\* A call of Run waits for the calls before it.
LEMMA CallKeeps ==
  ASSUME IInv, NEW i \in DOMAIN order, Call(i)
  PROVE  IInv'
<1> DEFINE c == order[i]
<1>1. /\ c \in Components /\ order[1] \in Components
      /\ c # order[1] => place[order[1]] = "returned"
  BY FirstOfOrder DEF IInv, Call, InTurn
<1>2. /\ place[c] = "not called"
      /\ place'[c] = "syncing"
      /\ \A d \in Components \ {c} : place'[d] = place[d]
      /\ place' \in [Components -> {"not called", "syncing", "running", "returned"}]
      /\ lister' \in BOOLEAN
      /\ UNCHANGED << order, stop, synced, queue, arrived, shut, worker >>
  BY <1>1 DEF Call, Goto, IInv, TypeOK
<1>3. TypeOK'
  BY <1>2 DEF IInv, TypeOK
<1>4. Turn'
  BY <1>1, <1>2 DEF IInv, Turn
<1>5. Closed'
  BY <1>2 DEF IInv, Closed
<1>6. (Late /\ OnlyTheFirstWorks)'
  BY <1>2 DEF IInv, Late, OnlyTheFirstWorks
<1> QED BY <1>3, <1>4, <1>5, <1>6 DEF IInv

\* What is listed is listed for the first: the channel is closed when
\* another is called.
LEMMA ListKeeps ==
  ASSUME IInv, NEW c \in Components, NEW informer \in InformersOf[c], List(c, informer)
  PROVE  IInv'
<1>1. c = order[1]
  BY FirstOfOrder DEF IInv, List, Turn, Closed
<1>2. /\ synced'[c] = synced[c] \cup {informer}
      /\ \A d \in Components \ {c} : synced'[d] = synced[d]
      /\ DOMAIN synced' = Components
      /\ UNCHANGED << order, stop, place, queue, arrived, shut, worker, lister >>
  BY DEF List, IInv, TypeOK
<1>3. TypeOK'
  BY <1>2 DEF IInv, TypeOK
<1>4. Late'
  BY <1>1, <1>2 DEF IInv, Late
<1>5. (Turn /\ Closed /\ OnlyTheFirstWorks)'
  BY <1>2 DEF IInv, Turn, Closed, OnlyTheFirstWorks
<1> QED BY <1>3, <1>4, <1>5 DEF IInv

\* Only the first has caches that sync.
LEMMA CachesSyncedKeeps ==
  ASSUME IInv, NEW c \in Components, CachesSynced(c)
  PROVE  IInv'
<1>1. c = order[1]
  BY LifecycleAssumption DEF IInv, CachesSynced, Late
<1>2. /\ place[c] = "syncing" /\ synced[c] = InformersOf[c]
      /\ place'[c] = "running"
      /\ \A d \in Components \ {c} : place'[d] = place[d] /\ worker'[d] = worker[d]
      /\ place' \in [Components -> {"not called", "syncing", "running", "returned"}]
      /\ worker'[c] = "starting"
      /\ worker' \in [Components -> {"none", "starting", "working", "never began", "done"}]
      /\ UNCHANGED << order, stop, synced, queue, arrived, shut, lister >>
  BY DEF CachesSynced, Goto, IInv, TypeOK
<1>3. TypeOK'
  BY <1>2 DEF IInv, TypeOK
<1>4. Turn'
  BY <1>1, <1>2 DEF IInv, Turn
<1>5. (Closed /\ Late)'
  BY <1>2 DEF IInv, Closed, Late
<1>6. OnlyTheFirstWorks'
  BY <1>1, <1>2 DEF IInv, OnlyTheFirstWorks
<1> QED BY <1>3, <1>4, <1>5, <1>6 DEF IInv

LEMMA ReturnKeeps ==
  ASSUME IInv, NEW c \in Components, Return(c)
  PROVE  IInv'
<1>1. /\ stop
      /\ place[c] # "not called"
      /\ place'[c] = "returned"
      /\ \A d \in Components \ {c} : place'[d] = place[d]
      /\ place' \in [Components -> {"not called", "syncing", "running", "returned"}]
      /\ shut' = shut \cup {c}
      /\ UNCHANGED << order, stop, synced, queue, arrived, worker, lister >>
  BY DEF Return, Goto, IInv, TypeOK
<1>2. TypeOK'
  BY <1>1 DEF IInv, TypeOK
<1>3. Turn'
  BY <1>1, FirstOfOrder DEF IInv, Turn
<1>4. (Closed /\ Late /\ OnlyTheFirstWorks)'
  BY <1>1 DEF IInv, Closed, Late, OnlyTheFirstWorks
<1> QED BY <1>2, <1>3, <1>4 DEF IInv

\* A queue that was shut down takes no event.
LEMMA NotifyKeeps ==
  ASSUME IInv, NEW c \in Components, Notify(c)
  PROVE  IInv'
<1>1. /\ arrived'[c] = arrived[c] + 1
      /\ arrived' \in [Components -> 0..MaxEvents]
      /\ queue' \in [Components -> 0..MaxEvents]
      /\ queue'[c] = IF c \in shut THEN queue[c] ELSE queue[c] + 1
      /\ queue'[c] <= arrived'[c]
      /\ \A d \in Components \ {c} : queue'[d] = queue[d] /\ arrived'[d] = arrived[d]
      /\ UNCHANGED << order, stop, place, synced, shut, worker, lister >>
  <2>1. /\ arrived[c] \in 0..MaxEvents /\ queue[c] \in 0..MaxEvents
        /\ arrived[c] < MaxEvents /\ queue[c] <= arrived[c]
    BY DEF Notify, IInv, TypeOK
  <2>2. /\ arrived[c] + 1 \in 0..MaxEvents /\ queue[c] + 1 \in 0..MaxEvents
        /\ queue[c] <= arrived[c] + 1 /\ queue[c] + 1 <= arrived[c] + 1
    BY <2>1, LifecycleAssumption
  <2> QED BY <2>2 DEF Notify, IInv, TypeOK
<1>2. TypeOK'
  BY <1>1 DEF IInv, TypeOK
<1>3. (Turn /\ Closed /\ Late /\ OnlyTheFirstWorks)'
  BY <1>1 DEF IInv, Turn, Closed, Late, OnlyTheFirstWorks
<1> QED BY <1>2, <1>3 DEF IInv

\* What the worker does.
LEMMA WorkerKeeps ==
  ASSUME IInv, NEW c \in Components, Begin(c) \/ Consume(c) \/ Quit(c)
  PROVE  IInv'
<1>1. CASE Begin(c) \/ Quit(c)
  <2>1. /\ worker[c] # "none" /\ worker'[c] # "none"
        /\ \A d \in Components \ {c} : worker'[d] = worker[d]
        /\ worker' \in [Components -> {"none", "starting", "working", "never began", "done"}]
        /\ UNCHANGED << order, stop, place, synced, queue, arrived, shut, lister >>
    BY <1>1 DEF Begin, Quit, Work, IInv, TypeOK
  <2> QED BY <2>1 DEF IInv, TypeOK, Turn, Closed, Late, OnlyTheFirstWorks
<1>2. CASE Consume(c)
  <2>1. /\ worker[c] = "working"
        /\ queue'[c] <= arrived[c]
        /\ queue' \in [Components -> 0..MaxEvents]
        /\ \A d \in Components \ {c} : queue'[d] = queue[d]
        /\ UNCHANGED << order, stop, place, synced, arrived, shut, worker, lister >>
    <3>1. /\ queue[c] \in 0..MaxEvents /\ arrived[c] \in 0..MaxEvents
          /\ queue[c] > 0 /\ queue[c] <= arrived[c]
      BY <1>2 DEF Consume, IInv, TypeOK
    <3>2. queue[c] - 1 \in 0..MaxEvents /\ queue[c] - 1 <= arrived[c]
      BY <3>1, LifecycleAssumption
    <3> QED BY <1>2, <3>2 DEF Consume, IInv, TypeOK
  <2> QED BY <2>1 DEF IInv, TypeOK, Turn, Closed, Late, OnlyTheFirstWorks
<1> QED BY <1>1, <1>2

\* One step keeps IInv.
LEMMA StepKeeps == IInv /\ [Next]_vars => IInv'
<1> SUFFICES ASSUME IInv, [Next]_vars PROVE IInv'
  OBVIOUS
<1>1. CASE \E i \in DOMAIN order : Call(i)
  BY <1>1, CallKeeps
<1>2. CASE \E c \in Components :
             \/ \E informer \in InformersOf[c] : List(c, informer)
             \/ CachesSynced(c) \/ Return(c) \/ Notify(c)
             \/ Begin(c) \/ Consume(c) \/ Quit(c)
  BY <1>2, ListKeeps, CachesSyncedKeeps, ReturnKeeps, NotifyKeeps, WorkerKeeps
<1>3. CASE Stop
  BY <1>3 DEF Stop, IInv, TypeOK, Turn, Closed, Late, OnlyTheFirstWorks
<1>4. CASE UNCHANGED vars
  BY <1>4 DEF vars, IInv, TypeOK, Turn, Closed, Late, OnlyTheFirstWorks
<1> QED BY <1>1, <1>2, <1>3, <1>4 DEF Next

----------------------------------------------------------------------------

\* The components start and end in order, with the state in shape (Run).
THEOREM StartsInOrder == Spec => []IInv
BY InitIInv, StepKeeps, PTL DEF Spec

\* The state keeps its shape (the methods Run of watcher.go and describer.go).
THEOREM TypeCorrect == Spec => []TypeOK
<1>1. IInv => TypeOK
  BY DEF IInv
<1> QED BY <1>1, StartsInOrder, PTL

\* InformerService.Run never gives the describer a worker, whatever informers
\* there are, and main never gives the watcher one.
THEOREM SecondNeverWorks == Spec => []OnlyTheFirstWorks
<1>1. IInv => OnlyTheFirstWorks
  BY DEF IInv
<1> QED BY <1>1, StartsInOrder, PTL
=============================================================================
