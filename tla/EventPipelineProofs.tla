------------------------ MODULE EventPipelineProofs ------------------------
(***************************************************************************)
(* What each step of EventPipeline does to the events that are on their    *)
(* way, for every set of keys and every bound: the facts a component that  *)
(* is fed by the pipeline needs to show that its maps converge; where an   *)
(* event can be (Orderly, AtOnePlace); and how many events there can be    *)
(* (InFlight).                                                             *)
(***************************************************************************)
EXTENDS EventPipeline, FiniteSetTheorems, TLAPS

\* Appending adds the element and loses none.
LEMMA InAppend ==
  ASSUME NEW S, NEW s \in Seq(S), NEW x \in S, NEW y
  PROVE  /\ Append(s, x) \in Seq(S)
         /\ In(Append(s, x), y) <=> In(s, y) \/ y = x
<1>1. Append(s, x) \in Seq(S)
  OBVIOUS
<1>2. ASSUME In(Append(s, x), y) PROVE In(s, y) \/ y = x
  BY <1>2 DEF In
<1>3. ASSUME In(s, y) PROVE In(Append(s, x), y)
  BY <1>3 DEF In
<1>4. In(Append(s, x), x)
  <2>1. /\ Len(s) + 1 \in DOMAIN Append(s, x)
        /\ Append(s, x)[Len(s) + 1] = x
    OBVIOUS
  <2> QED BY <2>1 DEF In
<1> QED BY <1>1, <1>2, <1>3, <1>4

\* A nonempty sequence holds its head, what its tail holds and no more.
LEMMA InTail ==
  ASSUME NEW S, NEW s \in Seq(S), s # << >>, NEW y
  PROVE  /\ Head(s) \in S
         /\ Tail(s) \in Seq(S)
         /\ In(s, y) <=> y = Head(s) \/ In(Tail(s), y)
<1>1. Head(s) \in S /\ Tail(s) \in Seq(S)
  OBVIOUS
<1>2. ASSUME In(s, y), y # Head(s) PROVE In(Tail(s), y)
  <2>1. PICK i \in DOMAIN s : s[i] = y
    BY <1>2 DEF In
  <2>2. i # 1
    BY <2>1, <1>2
  <2>3. i - 1 \in DOMAIN Tail(s) /\ Tail(s)[i - 1] = y
    BY <2>1, <2>2
  <2> QED BY <2>3 DEF In
<1>3. ASSUME In(Tail(s), y) PROVE In(s, y)
  <2>1. PICK i \in DOMAIN Tail(s) : Tail(s)[i] = y
    BY <1>3 DEF In
  <2>2. i + 1 \in DOMAIN s /\ s[i + 1] = y
    BY <2>1
  <2> QED BY <2>2 DEF In
<1>4. In(s, Head(s))
  <2>1. 1 \in DOMAIN s /\ s[1] = Head(s)
    OBVIOUS
  <2> QED BY <2>1 DEF In
<1> QED BY <1>1, <1>2, <1>3, <1>4

LEMMA EmptyHoldsNothing == \A y : ~In(<< >>, y)
BY DEF In

LEMMA EventParts ==
  /\ \A e \in Event : e.key \in Keys /\ e.verb \in Verbs
                      /\ ResourceOf[e.key] \in Resources
  /\ \A k \in Keys : ResourceOf[k] \in Resources
BY DEF Event, Resources

----------------------------------------------------------------------------
(* The work queue's Add.                                                   *)

LEMMA AddFacts ==
  ASSUME PipeTypeOK, NEW e \in Event, Add(e)
  PROVE  /\ dirty' = dirty \cup {e}
         /\ queue' \in Seq(Event)
<1>1. CASE e \in dirty
  BY <1>1 DEF Add, PipeTypeOK
<1>2. CASE e \notin dirty
  <2>1. Append(queue, e) \in Seq(Event)
    BY DEF PipeTypeOK
  <2> QED BY <1>2, <2>1 DEF Add, PipeTypeOK
<1> QED BY <1>1, <1>2

----------------------------------------------------------------------------
(* One lemma per step: it keeps the types, and what becomes of the events. *)

LEMMA ObserveFacts ==
  ASSUME PipeTypeOK, NEW k \in Keys, NEW new, Observe(k, new)
  PROVE  /\ PipeTypeOK'
         /\ [verb |-> VerbOf(store[k], new), key |-> k] \in Event
         /\ \A f \in Event :
              OnWay(f)' <=> \/ OnWay(f)
                           \/ f = [verb |-> VerbOf(store[k], new), key |-> k]
<1> DEFINE e == [verb |-> VerbOf(store[k], new), key |-> k]
           r == ResourceOf[k]
<1>1. e \in Event
  BY DEF VerbOf, Event, Verbs
<1>2. r \in Resources /\ inbox[r] \in Seq(Event)
  BY EventParts DEF PipeTypeOK
<1>3. inbox' = [inbox EXCEPT ![r] = Append(@, e)]
  BY DEF Observe
<1>4. Append(inbox[r], e) \in Seq(Event)
  BY <1>1, <1>2, InAppend
<1>5. inbox' \in [Resources -> Seq(Event)]
  BY <1>3, <1>4 DEF PipeTypeOK
<1>6. changes' \in 0..MaxChanges
  BY PipelineAssumption DEF Observe, PipeTypeOK
<1>7. PipeTypeOK'
  BY <1>5, <1>6 DEF Observe, PipeTypeOK
<1>8. ASSUME NEW f \in Event PROVE OnWay(f)' <=> OnWay(f) \/ f = e
  <2>1. CASE ResourceOf[f.key] = r
    <3>1. inbox'[r] = Append(inbox[r], e)
      BY <1>2, <1>3 DEF PipeTypeOK
    <3>2. In(inbox'[r], f) <=> In(inbox[r], f) \/ f = e
      BY <3>1, <1>1, <1>2, InAppend
    <3> QED BY <2>1, <3>2 DEF OnWay, Observe
  <2>2. CASE ResourceOf[f.key] # r
    <3>1. f # e
      BY <2>2
    <3>2. inbox'[ResourceOf[f.key]] = inbox[ResourceOf[f.key]]
      BY <2>2, <1>3, EventParts DEF PipeTypeOK
    <3> QED BY <3>1, <3>2 DEF OnWay, Observe
  <2> QED BY <2>1, <2>2
<1> QED BY <1>1, <1>7, <1>8

LEMMA DeliverFacts ==
  ASSUME PipeTypeOK, NEW r \in Resources, Deliver(r)
  PROVE  /\ PipeTypeOK'
         /\ Head(inbox[r]) \in Event
         /\ \A f \in Event : OnWay(f)' <=> OnWay(f) \/ f = Head(inbox[r])
<1> DEFINE e == Head(inbox[r])
<1>1. /\ inbox[r] \in Seq(Event) /\ inbox[r] # << >>
      /\ inbox' = [inbox EXCEPT ![r] = Tail(@)]
      /\ Add(e)
  BY DEF Deliver, PipeTypeOK
<1>2. e \in Event /\ Tail(inbox[r]) \in Seq(Event)
  BY <1>1, InTail
<1>3. dirty' = dirty \cup {e} /\ queue' \in Seq(Event)
  BY <1>1, <1>2, AddFacts
<1>4. inbox' \in [Resources -> Seq(Event)]
  BY <1>1, <1>2 DEF PipeTypeOK
<1>5. PipeTypeOK'
  BY <1>2, <1>3, <1>4 DEF Deliver, PipeTypeOK
<1>6. ASSUME NEW f \in Event
      PROVE  OnWay(f)' <=> OnWay(f) \/ f = e
  <2>1. CASE ResourceOf[f.key] = r
    <3>1. inbox'[r] = Tail(inbox[r])
      BY <1>1 DEF PipeTypeOK
    <3>2. In(inbox[r], f) <=> f = e \/ In(inbox'[r], f)
      BY <3>1, <1>1, InTail
    <3> QED BY <2>1, <3>2, <1>3 DEF OnWay
  <2>2. CASE ResourceOf[f.key] # r
    <3>1. inbox'[ResourceOf[f.key]] = inbox[ResourceOf[f.key]]
      BY <2>2, <1>1, EventParts DEF PipeTypeOK
    <3> QED BY <3>1, <1>3 DEF OnWay
  <2> QED BY <2>1, <2>2
<1> QED BY <1>2, <1>5, <1>6

LEMMA RetryFacts ==
  ASSUME PipeTypeOK, NEW e \in Event, RetryDue(e)
  PROVE  /\ PipeTypeOK'
         /\ \A f \in Event : OnWay(f)' <=> OnWay(f) \/ f = e
<1>1. dirty' = dirty \cup {e} /\ queue' \in Seq(Event)
  BY AddFacts DEF RetryDue
<1>2. PipeTypeOK'
  BY <1>1 DEF RetryDue, PipeTypeOK
<1>3. ASSUME NEW f \in Event PROVE OnWay(f)' <=> OnWay(f) \/ f = e
  BY <1>1 DEF RetryDue, OnWay
<1> QED BY <1>2, <1>3

LEMMA GetFacts ==
  ASSUME PipeTypeOK, Get
  PROVE  /\ PipeTypeOK'
         /\ processing' \in Event
         /\ \A f \in Event : OnWay(f) => OnWay(f)' \/ f = processing'
         /\ \A f \in Event : OnWay(f)' => OnWay(f)
<1>1. queue \in Seq(Event) /\ queue # << >>
  BY DEF Get, PipeTypeOK
<1>2. Head(queue) \in Event /\ Tail(queue) \in Seq(Event)
  BY <1>1, InTail
<1>3. PipeTypeOK'
  BY <1>2, PipelineAssumption DEF Get, PipeTypeOK
<1>4. ASSUME NEW f \in Event
      PROVE  /\ OnWay(f) => OnWay(f)' \/ f = processing'
             /\ OnWay(f)' => OnWay(f)
  BY DEF Get, OnWay
<1> QED BY <1>2, <1>3, <1>4 DEF Get

LEMMA ReadFacts ==
  ASSUME PipeTypeOK, Read
  PROVE  PipeTypeOK' /\ \A f \in Event : OnWay(f)' <=> OnWay(f)
BY DEF Read, PipeTypeOK, OnWay

LEMMA FinishFacts ==
  ASSUME PipeTypeOK, NEW e \in Event, NEW failed \in BOOLEAN, Finish(e, failed)
  PROVE  PipeTypeOK' /\ \A f \in Event : OnWay(f)' <=> OnWay(f)
<1>1. queue' \in Seq(Event)
  BY InAppend DEF Finish, PipeTypeOK
<1>2. requeues' \in [Event -> 0..MaxRequeue]
  BY PipelineAssumption DEF Finish, PipeTypeOK
<1>3. PipeTypeOK'
  BY <1>1, <1>2 DEF Finish, PipeTypeOK
<1>4. ASSUME NEW f \in Event PROVE OnWay(f)' <=> OnWay(f)
  BY DEF Finish, OnWay
<1> QED BY <1>3, <1>4

----------------------------------------------------------------------------
(* Where an event can be, and that it is nowhere twice.                    *)

Once(seq, e) == \A i, j \in DOMAIN seq : seq[i] = e /\ seq[j] = e => i = j

LEMMA OnceAppend ==
  ASSUME NEW S, NEW s \in Seq(S), NEW x \in S, NEW e, Once(s, e),
         x # e \/ ~In(s, e)
  PROVE  Once(Append(s, x), e)
<1>1. /\ \A i \in DOMAIN Append(s, x) : i \in DOMAIN s \/ i = Len(s) + 1
      /\ \A i \in DOMAIN s : Append(s, x)[i] = s[i]
      /\ Append(s, x)[Len(s) + 1] = x
  OBVIOUS
<1> QED BY <1>1 DEF Once, In

LEMMA OnceTail ==
  ASSUME NEW S, NEW s \in Seq(S), s # << >>, NEW e, Once(s, e)
  PROVE  /\ Once(Tail(s), e)
         /\ Head(s) = e => ~In(Tail(s), e)
<1>1. /\ \A i \in DOMAIN Tail(s) : i \in Nat /\ i + 1 \in DOMAIN s /\ Tail(s)[i] = s[i + 1]
      /\ 1 \in DOMAIN s /\ s[1] = Head(s)
      /\ \A i \in DOMAIN Tail(s) : i # 0
  OBVIOUS
<1>2. Once(Tail(s), e)
  BY <1>1 DEF Once
<1>3. ASSUME Head(s) = e, NEW i \in DOMAIN Tail(s), Tail(s)[i] = e PROVE FALSE
  BY <1>1, <1>3 DEF Once
<1> QED BY <1>2, <1>3 DEF In

\* What client-go promises: no event is in line twice, and none that the
\* worker processes; and an informer notifies of its own resource.
QueueIsSet == \A e \in Event : /\ Once(queue, e)
                               /\ In(queue, e) => e \in dirty /\ e # processing
OwnInbox == \A r \in Resources, e \in Event : In(inbox[r], e) => ResourceOf[e.key] = r
Orderly == QueueIsSet /\ OwnInbox

\* The event is yet to be handled for the last time.
Owed(e) == OnWay(e) \/ e = processing \/ e \in waiting

\* It is with the informer, in the queue, in the worker's hands or waits for
\* its delay to end: never at two places, and there once.
AtOnePlace(e) ==
  LET notified == inbox[ResourceOf[e.key]]
  IN  /\ Once(notified, e)
      /\ In(notified, e) => e \notin dirty
      /\ OnWay(e) => e # processing
      /\ OnWay(e) \/ e = processing => e \notin waiting

LEMMA PlacesInit ==
  ASSUME PipeInit
  PROVE  /\ Orderly
         /\ \A f \in Event : ~Owed(f) /\ AtOnePlace(f)
<1>1. \A f \in Event : inbox[ResourceOf[f.key]] = << >>
  BY EventParts DEF PipeInit
<1>2. \A f \in Event : ~Owed(f)
  BY <1>1, EmptyHoldsNothing, PipelineAssumption DEF PipeInit, Owed, OnWay
<1>3. \A f : Once(<< >>, f)
  BY DEF Once
<1>4. OwnInbox
  BY EmptyHoldsNothing DEF PipeInit, OwnInbox
<1> QED BY <1>1, <1>2, <1>3, <1>4, EmptyHoldsNothing
        DEF PipeInit, Owed, AtOnePlace, Orderly, QueueIsSet

\* The work queue's Add leaves the queue a set.
LEMMA AddQueueIsSet ==
  ASSUME PipeTypeOK, QueueIsSet, NEW e \in Event, Add(e), processing' = processing
  PROVE  QueueIsSet'
<1>1. CASE e \in dirty
  BY <1>1 DEF Add, QueueIsSet
<1>2. CASE e \notin dirty /\ e = processing
  BY <1>2 DEF Add, QueueIsSet
<1>3. CASE e \notin dirty /\ e # processing
  <2>1. queue' = Append(queue, e) /\ dirty' = dirty \cup {e} /\ queue \in Seq(Event)
    BY <1>3 DEF Add, PipeTypeOK
  <2>2. ASSUME NEW f \in Event PROVE Once(queue', f)
    BY <2>1, <1>3, OnceAppend DEF QueueIsSet
  <2>3. ASSUME NEW f \in Event, In(queue', f) PROVE f \in dirty' /\ f # processing
    BY <2>1, <2>3, <1>3, InAppend DEF QueueIsSet
  <2> QED BY <2>2, <2>3 DEF QueueIsSet
<1> QED BY <1>1, <1>2, <1>3

LEMMA ObservePlaces ==
  ASSUME PipeTypeOK, Orderly, NEW k \in Keys, NEW new, Observe(k, new)
  PROVE  LET a == [verb |-> VerbOf(store[k], new), key |-> k]
         IN  /\ Orderly'
             /\ \A f \in Event : Owed(f)' <=> Owed(f) \/ f = a
             /\ \A f \in Event : AtOnePlace(f) /\ (f # a \/ ~Owed(a)) => AtOnePlace(f)'
<1> DEFINE a == [verb |-> VerbOf(store[k], new), key |-> k]
           r == ResourceOf[k]
<1>1. /\ a \in Event /\ a.key = k
      /\ \A f \in Event : OnWay(f)' <=> OnWay(f) \/ f = a
  BY ObserveFacts
<1>2. /\ UNCHANGED << queue, dirty, processing, waiting >>
      /\ inbox' = [inbox EXCEPT ![r] = Append(@, a)]
  BY DEF Observe
<1>3. Orderly'
  <2>1. QueueIsSet'
    BY <1>2 DEF Orderly, QueueIsSet
  <2>2. ASSUME NEW q \in Resources, NEW f \in Event, In(inbox'[q], f)
        PROVE  ResourceOf[f.key] = q
    <3>1. inbox'[q] = IF q = r THEN Append(inbox[q], a) ELSE inbox[q]
      BY <1>2 DEF PipeTypeOK
    <3>2. In(inbox[q], f) \/ (f = a /\ q = r)
      BY <2>2, <3>1, <1>1, InAppend DEF PipeTypeOK
    <3> QED BY <3>2, <1>1 DEF Orderly, OwnInbox
  <2> QED BY <2>1, <2>2 DEF Orderly, OwnInbox
<1>4. \A f \in Event : Owed(f)' <=> Owed(f) \/ f = a
  BY <1>1, <1>2 DEF Owed
<1>5. ASSUME NEW f \in Event, AtOnePlace(f), f # a \/ ~Owed(a) PROVE AtOnePlace(f)'
  <2> DEFINE q == ResourceOf[f.key]
  <2>1. inbox[q] \in Seq(Event) /\ q \in Resources /\ r \in Resources
    BY EventParts DEF PipeTypeOK
  <2>2. inbox'[q] = IF q = r THEN Append(inbox[q], a) ELSE inbox[q]
    BY <1>2, <2>1 DEF PipeTypeOK
  <2>3. f = a => ~In(inbox[q], f) /\ f \notin dirty /\ f # processing /\ f \notin waiting
    BY <1>5 DEF Owed, OnWay
  <2>4. Once(inbox'[q], f)
    <3>1. Once(inbox[q], f)
      BY <1>5 DEF AtOnePlace
    <3> QED BY <3>1, <2>1, <2>2, <2>3, <1>1, OnceAppend
  <2>5. In(inbox'[q], f) => In(inbox[q], f) \/ f = a
    BY <2>1, <2>2, <1>1, InAppend
  <2>6. In(inbox'[q], f) => f \notin dirty
    BY <2>3, <2>5, <1>5 DEF AtOnePlace
  <2>7. OnWay(f)' => OnWay(f) \/ f = a
    BY <1>1
  <2> QED BY <2>3, <2>4, <2>6, <2>7, <1>2, <1>5 DEF AtOnePlace
<1> QED BY <1>3, <1>4, <1>5

\* A step that only moves events on.
LEMMA MovePlaces ==
  ASSUME PipeTypeOK, Orderly,
         \/ \E r \in Resources : Deliver(r)
         \/ \E e \in Event : RetryDue(e)
         \/ Get
         \/ Read
  PROVE  /\ Orderly'
         /\ \A f \in Event : Owed(f)' <=> Owed(f)
         /\ \A f \in Event : AtOnePlace(f) => AtOnePlace(f)'
<1>1. ASSUME NEW r \in Resources, Deliver(r)
      PROVE  /\ Orderly'
             /\ \A f \in Event : Owed(f)' <=> Owed(f)
             /\ \A f \in Event : AtOnePlace(f) => AtOnePlace(f)'
  <2> DEFINE e == Head(inbox[r])
  <2>1. /\ inbox[r] \in Seq(Event) /\ inbox[r] # << >> /\ e \in Event
        /\ \A f \in Event : OnWay(f)' <=> OnWay(f) \/ f = e
        /\ UNCHANGED << processing, waiting >> /\ Add(e)
        /\ inbox' = [inbox EXCEPT ![r] = Tail(@)]
    BY <1>1, DeliverFacts DEF Deliver, PipeTypeOK
  <2>2. Orderly' /\ dirty' = dirty \cup {e}
    <3>1. QueueIsSet' /\ dirty' = dirty \cup {e}
      BY <2>1, AddQueueIsSet, AddFacts DEF Orderly
    <3>2. ASSUME NEW q \in Resources, NEW f \in Event, In(inbox'[q], f)
          PROVE  In(inbox[q], f)
      <4>1. inbox'[q] = IF q = r THEN Tail(inbox[q]) ELSE inbox[q]
        BY <2>1 DEF PipeTypeOK
      <4> QED BY <4>1, <3>2, <2>1, InTail
    <3>3. OwnInbox'
      BY <3>2 DEF Orderly, OwnInbox
    <3> QED BY <3>1, <3>3 DEF Orderly
  <2>3. ASSUME NEW f \in Event PROVE /\ Owed(f)' <=> Owed(f)
                                     /\ AtOnePlace(f) => AtOnePlace(f)'
    <3> DEFINE q == ResourceOf[f.key]
    <3>1. q \in Resources /\ inbox[q] \in Seq(Event)
      BY EventParts DEF PipeTypeOK
    <3>2. inbox'[q] = IF q = r THEN Tail(inbox[q]) ELSE inbox[q]
      BY <2>1, <3>1 DEF PipeTypeOK
    <3>3. CASE q = r
      <4>1. In(inbox[q], f) <=> f = e \/ In(inbox'[q], f)
        BY <3>2, <3>3, <2>1, InTail
      <4>2. Once(inbox[q], f) => /\ Once(inbox'[q], f)
                                 /\ e = f => ~In(inbox'[q], f)
        BY <3>2, <3>3, <2>1, OnceTail
      <4> HIDE DEF e, q
      <4>3. OnWay(f) <=> In(inbox[q], f) \/ f \in dirty
        BY DEF OnWay, q
      <4>4. OnWay(f)' <=> OnWay(f)
        BY <2>1, <4>1, <4>3
      <4>5. Owed(f)' <=> Owed(f)
        BY <4>4, <2>1 DEF Owed
      <4>6. AtOnePlace(f) => AtOnePlace(f)'
        <5> SUFFICES ASSUME AtOnePlace(f) PROVE AtOnePlace(f)'
          OBVIOUS
        <5>1. Once(inbox'[q], f) /\ (In(inbox'[q], f) => f \notin dirty')
          BY <4>1, <4>2, <2>2 DEF AtOnePlace, q
        <5> QED BY <5>1, <4>4, <2>1 DEF AtOnePlace, q
      <4> QED BY <4>5, <4>6
    <3>4. CASE q # r
      <4>1. f # e
        BY <3>4, <2>1, InTail DEF Orderly, OwnInbox
      <4>2. inbox'[q] = inbox[q] /\ (f \in dirty' <=> f \in dirty)
        BY <4>1, <3>2, <3>4, <2>2
      <4> HIDE DEF e
      <4> QED BY <4>2, <2>1 DEF Owed, AtOnePlace, OnWay
    <3> QED BY <3>3, <3>4
  <2> QED BY <2>2, <2>3
<1>2. ASSUME NEW e \in Event, RetryDue(e)
      PROVE  /\ Orderly'
             /\ \A f \in Event : Owed(f)' <=> Owed(f)
             /\ \A f \in Event : AtOnePlace(f) => AtOnePlace(f)'
  <2>1. /\ e \in waiting /\ waiting' = waiting \ {e} /\ Add(e)
        /\ UNCHANGED << inbox, processing >>
    BY <1>2 DEF RetryDue
  <2>2. Orderly' /\ dirty' = dirty \cup {e}
    BY <2>1, AddQueueIsSet, AddFacts DEF Orderly, OwnInbox
  <2> QED BY <2>1, <2>2 DEF Owed, OnWay, AtOnePlace
<1>3. ASSUME Get
      PROVE  /\ Orderly'
             /\ \A f \in Event : Owed(f)' <=> Owed(f)
             /\ \A f \in Event : AtOnePlace(f) => AtOnePlace(f)'
  <2> DEFINE e == Head(queue)
  <2>1. /\ queue \in Seq(Event) /\ queue # << >> /\ e \in Event
        /\ processing = Nothing /\ processing' = e
        /\ queue' = Tail(queue) /\ dirty' = dirty \ {e}
        /\ UNCHANGED << inbox, waiting >>
    BY <1>3, InTail DEF Get, PipeTypeOK
  <2>2. \A f \in Event : In(queue, f) <=> f = e \/ In(queue', f)
    BY <2>1, InTail
  <2>3. \A f \in Event : Once(queue', f) /\ (f = e => ~In(queue', f))
    BY <2>1, OnceTail DEF Orderly, QueueIsSet
  <2> HIDE DEF e
  <2>4. QueueIsSet' /\ e \in dirty
    BY <2>1, <2>2, <2>3 DEF Orderly, QueueIsSet
  <2>5. Orderly'
    BY <2>1, <2>4 DEF Orderly, OwnInbox
  <2> QED BY <2>1, <2>4, <2>5, PipelineAssumption DEF Owed, OnWay, AtOnePlace
<1>4. ASSUME Read
      PROVE  /\ Orderly'
             /\ \A f \in Event : Owed(f)' <=> Owed(f)
             /\ \A f \in Event : AtOnePlace(f) => AtOnePlace(f)'
  BY <1>4 DEF Read, Orderly, QueueIsSet, OwnInbox, Owed, OnWay, AtOnePlace
<1> QED BY <1>1, <1>2, <1>3, <1>4

\* The end of an event: it waits for another try or is owed no more, unless
\* it came again meanwhile.
LEMMA FinishPlaces ==
  ASSUME PipeTypeOK, Orderly, NEW e \in Event, e = processing,
         NEW failed \in BOOLEAN, Finish(e, failed)
  PROVE  /\ Orderly'
         /\ \A f \in Event \ {e} : Owed(f)' <=> Owed(f)
         /\ \A f \in Event : AtOnePlace(f) => AtOnePlace(f)'
         /\ failed /\ requeues[e] < MaxRequeue => Owed(e)'
         /\ AtOnePlace(e) /\ ~(failed /\ requeues[e] < MaxRequeue) => ~Owed(e)'
<1> DEFINE again == failed /\ requeues[e] < MaxRequeue
<1>1. /\ waiting' = IF again THEN waiting \cup {e} ELSE waiting
      /\ processing' = Nothing
      /\ queue' = IF e \in dirty THEN Append(queue, e) ELSE queue
      /\ UNCHANGED << inbox, dirty >>
      /\ queue \in Seq(Event)
  BY DEF Finish, PipeTypeOK
<1>2. \A f \in Event : f # Nothing
  BY PipelineAssumption
<1>3. QueueIsSet'
  <2>1. CASE e \in dirty
    <3>1. ~In(queue, e)
      BY DEF Orderly, QueueIsSet
    <3>2. ASSUME NEW f \in Event PROVE Once(queue', f)
      BY <3>1, <2>1, <1>1, OnceAppend DEF Orderly, QueueIsSet
    <3>3. ASSUME NEW f \in Event, In(queue', f) PROVE f \in dirty
      BY <2>1, <3>3, <1>1, InAppend DEF Orderly, QueueIsSet
    <3> QED BY <3>2, <3>3, <1>1, <1>2 DEF QueueIsSet
  <2>2. CASE e \notin dirty
    BY <2>2, <1>1, <1>2 DEF Orderly, QueueIsSet
  <2> QED BY <2>1, <2>2
<1>9. Orderly'
  BY <1>1, <1>3 DEF Orderly, OwnInbox
<1> HIDE DEF again
<1>4. \A f \in Event : OnWay(f)' <=> OnWay(f)
  BY <1>1 DEF OnWay
<1>5. \A f \in Event \ {e} : Owed(f)' <=> Owed(f)
  BY <1>1, <1>2, <1>4 DEF Owed
<1>6. \A f \in Event : AtOnePlace(f) => AtOnePlace(f)'
  BY <1>1, <1>2, <1>4 DEF AtOnePlace
<1>7. again => Owed(e)'
  BY <1>1 DEF Owed
<1>8. AtOnePlace(e) /\ ~again => ~Owed(e)'
  BY <1>1, <1>2, <1>4 DEF AtOnePlace, Owed
<1> QED BY <1>9, <1>5, <1>6, <1>7, <1>8 DEF again

----------------------------------------------------------------------------
(* Every event that is yet to be handled goes back to a change of its own. *)

\* The notifications that are not delivered: by resource, and place in line.
Undelivered == UNION {{r} \X DOMAIN inbox[r] : r \in Resources}

Countable == IsFiniteSet(Undelivered) /\ IsFiniteSet(dirty)

\* No more events than this will be handled, unless there is another change
\* or one is tried again.
InFlight == Cardinality(Undelivered) + Cardinality(dirty)
            + (IF processing = Nothing THEN 0 ELSE 1)

LEMMA InFlightIsNat ==
  /\ Countable => /\ Cardinality(Undelivered) \in Nat /\ Cardinality(dirty) \in Nat
                  /\ InFlight \in Nat
  /\ Countable' => InFlight' \in Nat
BY FS_CardinalityType DEF Countable, InFlight

LEMMA PlacesInLine ==
  /\ \A p : p \in Undelivered <=>
             \E r \in Resources : \E i \in DOMAIN inbox[r] : p = << r, i >>
  /\ \A p : p \in Undelivered' <=>
             \E r \in Resources : \E i \in DOMAIN inbox'[r] : p = << r, i >>
<1>1. \A r, S, p : p \in {r} \X S <=> \E i \in S : p = << r, i >>
  OBVIOUS
<1> QED BY <1>1 DEF Undelivered

LEMMA CountInit == PipeInit => Countable /\ InFlight = 0
<1> SUFFICES ASSUME PipeInit PROVE Countable /\ InFlight = 0
  OBVIOUS
<1>1. \A r \in Resources : DOMAIN inbox[r] = {}
  BY DEF PipeInit
<1>2. Undelivered = {}
  BY <1>1, PlacesInLine
<1> QED BY <1>2, FS_EmptySet DEF PipeInit, Countable, InFlight

LEMMA CountObserve ==
  ASSUME PipeTypeOK, Countable, NEW k \in Keys, NEW new, Observe(k, new)
  PROVE  Countable' /\ InFlight' = InFlight + 1
<1> DEFINE r == ResourceOf[k]
           e == [verb |-> VerbOf(store[k], new), key |-> k]
           last == << r, Len(inbox[r]) + 1 >>
<1>1. r \in Resources /\ inbox[r] \in Seq(Event) /\ e \in Event
  BY EventParts, ObserveFacts DEF PipeTypeOK
<1>2. inbox' = [inbox EXCEPT ![r] = Append(@, e)] /\ UNCHANGED << dirty, processing >>
  BY DEF Observe
<1>3. /\ inbox'[r] = Append(inbox[r], e)
      /\ \A q \in Resources \ {r} : inbox'[q] = inbox[q]
  BY <1>1, <1>2 DEF PipeTypeOK
<1>4. /\ DOMAIN inbox[r] = 1 .. Len(inbox[r])
      /\ DOMAIN inbox'[r] = 1 .. (Len(inbox[r]) + 1)
      /\ Len(inbox[r]) \in Nat
  BY <1>1, <1>3
<1> HIDE DEF r, e
<1>5. DOMAIN inbox'[r] = DOMAIN inbox[r] \cup {Len(inbox[r]) + 1}
      /\ Len(inbox[r]) + 1 \notin DOMAIN inbox[r]
  BY <1>4
<1>6. Undelivered' = Undelivered \cup {last} /\ last \notin Undelivered
  <2>1. last \notin Undelivered
    BY <1>5, PlacesInLine
  <2>2. \A p : p \in Undelivered' <=> p \in Undelivered \/ p = last
    BY <1>1, <1>3, <1>5, PlacesInLine
  <2> QED BY <2>1, <2>2
<1> HIDE DEF last
<1>7. /\ IsFiniteSet(Undelivered')
      /\ Cardinality(Undelivered') = Cardinality(Undelivered) + 1
  BY <1>6, FS_AddElement DEF Countable
<1> QED BY <1>2, <1>7, InFlightIsNat DEF Countable, InFlight

LEMMA CountDeliver ==
  ASSUME PipeTypeOK, Countable, NEW r \in Resources, Deliver(r)
  PROVE  Countable' /\ InFlight' <= InFlight
<1> DEFINE e == Head(inbox[r])
           last == << r, Len(inbox[r]) >>
<1>1. /\ inbox[r] \in Seq(Event) /\ inbox[r] # << >> /\ e \in Event
      /\ inbox' = [inbox EXCEPT ![r] = Tail(@)]
      /\ Add(e) /\ processing' = processing
  BY DeliverFacts DEF Deliver, PipeTypeOK
<1>2. /\ inbox'[r] = Tail(inbox[r])
      /\ \A q \in Resources \ {r} : inbox'[q] = inbox[q]
  BY <1>1 DEF PipeTypeOK
<1>3. /\ Len(inbox[r]) \in DOMAIN inbox[r]
      /\ DOMAIN inbox'[r] = DOMAIN inbox[r] \ {Len(inbox[r])}
  <2>1. /\ Len(inbox[r]) \in Nat \ {0} /\ DOMAIN inbox[r] = 1 .. Len(inbox[r])
        /\ Len(Tail(inbox[r])) = Len(inbox[r]) - 1
        /\ Tail(inbox[r]) \in Seq(Event)
    BY <1>1
  <2>2. DOMAIN inbox'[r] = 1 .. (Len(inbox[r]) - 1)
    BY <1>2, <2>1
  <2> QED BY <2>1, <2>2
<1>4. dirty' = dirty \cup {e}
  BY <1>1, AddFacts
<1> HIDE DEF e
<1>5. Undelivered' = Undelivered \ {last} /\ last \in Undelivered
  <2>1. last \in Undelivered
    BY <1>3, PlacesInLine
  <2>2. ASSUME NEW q \in Resources, NEW i
        PROVE  i \in DOMAIN inbox'[q] <=> i \in DOMAIN inbox[q] /\ << q, i >> # last
    <3>1. CASE q = r
      BY <1>3, <3>1
    <3>2. CASE q # r
      BY <1>2, <3>2
    <3> QED BY <3>1, <3>2
  <2> HIDE DEF last
  <2>3. \A p : p \in Undelivered' <=> p \in Undelivered /\ p # last
    BY <2>2, PlacesInLine
  <2> QED BY <2>1, <2>3
<1> HIDE DEF last
<1>6. /\ IsFiniteSet(Undelivered')
      /\ Cardinality(Undelivered') = Cardinality(Undelivered) - 1
  BY <1>5, FS_RemoveElement DEF Countable
<1>7. /\ IsFiniteSet(dirty')
      /\ Cardinality(dirty') \in {Cardinality(dirty), Cardinality(dirty) + 1}
  BY <1>4, FS_AddElement DEF Countable
<1> QED BY <1>1, <1>6, <1>7, InFlightIsNat DEF Countable, InFlight

LEMMA CountTake ==
  ASSUME PipeTypeOK, Orderly, Countable, Get \/ Read
  PROVE  Countable' /\ InFlight' <= InFlight
<1>1. CASE Get
  <2> DEFINE e == Head(queue)
  <2>1. /\ e \in Event /\ In(queue, e)
        /\ dirty' = dirty \ {e} /\ processing = Nothing /\ inbox' = inbox
    BY <1>1, InTail DEF Get, PipeTypeOK
  <2> HIDE DEF e
  <2>2. e \in dirty
    BY <2>1 DEF Orderly, QueueIsSet
  <2>3. /\ IsFiniteSet(dirty') /\ Cardinality(dirty') = Cardinality(dirty) - 1
    BY <2>1, <2>2, FS_RemoveElement DEF Countable
  <2>4. Undelivered' = Undelivered
    BY <2>1 DEF Undelivered
  <2> QED BY <2>1, <2>3, <2>4, InFlightIsNat DEF Countable, InFlight
<1>2. CASE Read
  <2>1. Undelivered' = Undelivered /\ UNCHANGED << dirty, processing >>
    BY <1>2 DEF Read, Undelivered
  <2> QED BY <2>1, InFlightIsNat DEF Countable, InFlight
<1> QED BY <1>1, <1>2

\* An event that is handled for good is owed no more.
LEMMA CountFinish ==
  ASSUME PipeTypeOK, Countable, NEW e \in Event, e = processing, Finish(e, FALSE)
  PROVE  Countable' /\ InFlight' = InFlight - 1
<1>1. /\ Undelivered' = Undelivered /\ dirty' = dirty /\ processing' = Nothing
      /\ processing # Nothing
  BY PipelineAssumption DEF Finish, Undelivered
<1> QED BY <1>1, InFlightIsNat DEF Countable, InFlight
=============================================================================
