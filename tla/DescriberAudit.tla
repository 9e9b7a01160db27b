--------------------------- MODULE DescriberAudit ---------------------------
(***************************************************************************)
(* Do the describer's books add up?  Only the "add" event of a pod books   *)
(* its requests (handlePodAddition), while its end or its deletion takes   *)
(* them off (handlePodUpdate, handlePodDeletion) whether they were booked  *)
(* or not; and only the "add" of a node books what it offers.  The books   *)
(* are therefore exact only as long as none of four things has happened,   *)
(* which this module records beside the run of the describer:              *)
(*   dropped   a pod was given up before it had a node: its "add" failed   *)
(*             once more than MaxRequeue times (handleError), and nothing  *)
(*             books the pod when the scheduler places it later;           *)
(*   cutShort  the end of a pod that has a node was learnt before the      *)
(*             retried "add" had booked it: what was never added is taken  *)
(*             off;                                                        *)
(*   reused    a pod or a node was replaced by another of the same name    *)
(*             before the describer was done with it: the queue merges the *)
(*             events of the two;                                          *)
(*   resized   the allocatable resources of a node changed: an "update"    *)
(*             replaces the node in nodeList and books nothing.            *)
(***************************************************************************)
EXTENDS Describer

VARIABLE causes

auditVars == << vars, causes >>

\* The "add" of the pod or the node is still to be applied.
AddOwed(k) ==
  LET e == [verb |-> "add", key |-> k]
  IN  OnWay(e) \/ e = processing \/ e \in waiting

\* What the API server lets become of a pod: it gets a node once, starts
\* only there, and when it has ended stays so; its requests never change.
\* A node may become anything.
Successor(k, old, new) ==
  k \in Pods =>
    /\ new.spec = old.spec
    /\ new.node = old.node \/ Unscheduled(old)
    /\ new.phase = old.phase \/ new.phase = "Ended" \/ old.phase = "Pending"

Reused(k) ==
  /\ store'[k] # store[k]
  /\ store'[k] # Absent
  /\ IF store[k] = Absent THEN Pending(k) \/ AddOwed(k)
                          ELSE ~Successor(k, store[k], store'[k])

Resized(n) ==
  /\ store'[n] # store[n]
  /\ Absent \notin {store[n], store'[n]}

Dropped(e) == /\ Adding(e) /\ Unscheduled(object)
              /\ requeues[e] = MaxRequeue

\* The pod's last object, as far as the worker can know it.
CutShort(e) ==
  LET last == IF object = Absent THEN podList[e.key] ELSE object
  IN  /\ Handling(e)
      /\ podList[e.key] # Absent
      /\ object = Absent \/ Ended(object)
      /\ last.node # NoNode
      /\ AddOwed(e.key)

\* What the step that is taken adds to causes.
Cause ==
  LET podDone == /\ processing # Nothing /\ processing' = Nothing
                 /\ processing.key \in Pods
  IN  {c \in {"reused", "resized", "dropped", "cutShort"} :
         \/ c = "reused" /\ \E k \in Keys : Reused(k)
         \/ c = "resized" /\ \E n \in Nodes : Resized(n)
         \/ c = "dropped" /\ podDone /\ Dropped(processing)
         \/ c = "cutShort" /\ podDone /\ CutShort(processing)}

AuditInit == Init /\ causes = {}

AuditNext == Next /\ causes' = causes \cup Cause

AuditSpec == AuditInit /\ [][AuditNext]_auditVars
FairAuditSpec == AuditSpec /\ Fairness

----------------------------------------------------------------------------

Booked(n) == {k \in Pods : /\ podList[k] # Absent
                           /\ podList[k].node = n
                           /\ ~AddOwed(k)}

\* Unless one of the four things has happened, what a node holds in the
\* request and in the limit ledger is exactly the sum over the pods of
\* podList that run there and whose "add" has been applied.
BooksExact ==
  causes = {} =>
    \A n \in Nodes :
      LET held(rm) == IF KnowsNode(rm, n) THEN rm.perNode[n] ELSE NoResources
          due(Of(_), r) ==
            SumFunction([k \in Booked(n) |-> Amount(Of(podList[k].spec), r)])
      IN  /\ \A r \in UNION {DOMAIN PodRequests(s) : s \in PodSpecs} :
               Amount(held(requests), r) = due(PodRequests, r)
          /\ \A r \in UNION {DOMAIN PodLimits(s) : s \in PodSpecs} :
               Amount(held(limits), r) = due(PodLimits, r)

\* Unless one of the four things has happened, the describer knows what a
\* node can allocate exactly for the nodes of nodeList whose "add" has been
\* applied, and it is what the node says.
AllocatableExact ==
  causes = {} =>
    \A n \in Nodes : ~AddOwed(n) =>
      /\ KnowsNode(allocatable, n) <=> nodeList[n] # Absent
      /\ KnowsNode(allocatable, n) =>
           allocatable.perNode[n] = nodeList[n].allocatable

----------------------------------------------------------------------------
(* The answers of CheckAvailability, when all that happened is applied.    *)

Quiet == \A k \in Keys : ~Pending(k) /\ ~AddOwed(k)

Demands == {PodRequests(s) : s \in PodSpecs}

\* What the live pods of the cluster request of node n.
Load(n, r) ==
  LET running == {k \in Pods : /\ store[k] # Absent
                               /\ ~Ended(store[k])
                               /\ store[k].node = n}
  IN  SumFunction([k \in running |-> Amount(PodRequests(store[k].spec), r)])

Offers(n, r) == IF store[n] = Absent THEN 0 ELSE Amount(store[n].allocatable, r)

Compressible == IF SkipCompressible THEN {"cpu"} ELSE {}

\* A "yes" is backed by a node of the cluster on which every resource that a
\* pod running there requests leaves room for the demand: what the cluster
\* really holds, not what the books say.
AnswerIsTrue ==
  Quiet /\ causes = {} =>
    \A req \in Demands : Available(req) =>
      \E n \in Nodes : \A r \in DOMAIN req \ Compressible :
        Load(n, r) > 0 => Load(n, r) + req[r] <= Offers(n, r)

\* describer.go:78, "if expectedAfterAlloc << o.allocatable -> return true":
\* where a node of the cluster has room for the demand, the answer is "yes".
\* That a node is there shows in a pod that runs on it, and it has room where
\* the least that any node offers covers what runs there and the demand.
RoomIsFound ==
  Quiet /\ causes = {} =>
    \A req \in Demands :
      (\E n \in Nodes :
         /\ \E k \in Pods : podList[k] # Absent /\ podList[k].node = n
         /\ \A a \in Allocatables : \A r \in DOMAIN req :
              Load(n, r) + req[r] <= Amount(a, r))
      => Available(req)
=============================================================================
