------------------------- MODULE ResourceListsProofs ------------------------
(***************************************************************************)
(* What the functions of ResourceLists compute, for every input: what the  *)
(* operations of the ledgers keep and undo, what is booked for a pod, and  *)
(* how totals and books follow.  The sums and folds this needs are         *)
(* induction over finite sets (AllSubsets).                                *)
(***************************************************************************)
EXTENDS ResourceLists, SequenceTheorems, FiniteSetTheorems, TLAPS

WellFounded == INSTANCE WellFoundedInduction

LEMMA AmountIsInt ==
  ASSUME NEW list, IsResourceList(list), NEW r
  PROVE  Amount(list, r) \in Int
BY DEF Amount, IsResourceList

LEMMA AddKeepsList ==
  ASSUME NEW list, IsResourceList(list), NEW new, IsResourceList(new)
  PROVE  IsResourceList(addResourceList(list, new))
BY AmountIsInt DEF addResourceList, IsResourceList

LEMMA NoResourcesIsList == IsResourceList(NoResources)
BY DEF NoResources, IsResourceList

LEMMA NewIsMap == ASSUME NEW nodes PROVE IsResourceMap(NewResourceMap, nodes)
BY NoResourcesIsList DEF NewResourceMap, IsResourceMap, NoResources, IsResourceList

\* Booking a list for a node of a ledger leaves a ledger.
LEMMA AddKeepsMap ==
  ASSUME NEW nodes, NEW rm, IsResourceMap(rm, nodes), NEW node \in nodes,
         NEW list, IsResourceList(list)
  PROVE  IsResourceMap(mapAdd(rm, node, list), nodes)
<1> DEFINE after == mapAdd(rm, node, list)
           held == IF KnowsNode(rm, node) THEN rm.perNode[node] ELSE NoResources
<1>1. IsResourceList(held)
  BY NoResourcesIsList DEF KnowsNode, IsResourceMap
<1>2. IsResourceList(addResourceList(held, list))
  BY <1>1, AddKeepsList
<1>3. IsResourceList(after.allNode)
  BY AddKeepsList DEF mapAdd, IsResourceMap
<1>4. \A n \in DOMAIN after.perNode : IsResourceList(after.perNode[n])
  BY <1>2 DEF mapAdd, IsResourceMap
<1>5. /\ after = [perNode |-> after.perNode, allNode |-> after.allNode]
      /\ after.perNode = [n \in DOMAIN after.perNode |-> after.perNode[n]]
      /\ DOMAIN after.perNode \subseteq nodes
  BY DEF mapAdd, IsResourceMap
<1> QED BY <1>3, <1>4, <1>5 DEF IsResourceMap

\* So does taking one off, whether or not the node is known.
LEMMA SubKeepsMap ==
  ASSUME NEW nodes, NEW rm, IsResourceMap(rm, nodes), NEW node,
         NEW list, IsResourceList(list)
  PROVE  /\ IsResourceMap(mapSub(rm, node, list), nodes)
         /\ DOMAIN mapSub(rm, node, list).perNode = DOMAIN rm.perNode
<1> DEFINE after == mapSub(rm, node, list)
<1>1. CASE ~KnowsNode(rm, node)
  BY <1>1 DEF mapSub
<1>2. CASE KnowsNode(rm, node)
  <2> DEFINE held == rm.perNode[node]
             less == [r \in DOMAIN held |-> held[r] - Amount(list, r)]
             total == [r \in DOMAIN rm.allNode |-> IF r \in DOMAIN held
                         THEN rm.allNode[r] - Amount(list, r) ELSE rm.allNode[r]]
  <2>1. /\ after.perNode = [rm.perNode EXCEPT ![node] = less]
        /\ after.allNode = total
        /\ after = [perNode |-> after.perNode, allNode |-> after.allNode]
    BY <1>2 DEF mapSub
  <2>2. IsResourceList(held) /\ IsResourceList(rm.allNode)
    BY <1>2 DEF KnowsNode, IsResourceMap
  <2>3. IsResourceList(less) /\ IsResourceList(total)
    BY <2>2, AmountIsInt DEF IsResourceList
  <2>4. DOMAIN after.perNode = DOMAIN rm.perNode
    BY <2>1
  <2>5. \A n \in DOMAIN after.perNode : IsResourceList(after.perNode[n])
    BY <2>1, <2>3 DEF IsResourceMap
  <2>6. after.perNode = [n \in DOMAIN after.perNode |-> after.perNode[n]]
    BY <2>1
  <2>7. DOMAIN after.perNode \subseteq nodes
    BY <2>4 DEF IsResourceMap
  <2>8. IsResourceList(after.allNode)
    BY <2>1, <2>3
  <2>9. IsResourceMap(after, nodes)
    <3> HIDE DEF after
    <3> QED BY <2>1, <2>5, <2>6, <2>7, <2>8 DEF IsResourceMap
  <2> QED BY <2>4, <2>9
<1> QED BY <1>1, <1>2

LEMMA DeleteNodeKeepsMap ==
  ASSUME NEW nodes, NEW rm, IsResourceMap(rm, nodes), NEW node
  PROVE  IsResourceMap(mapDeleteNode(rm, node), nodes)
<1>1. CASE ~KnowsNode(rm, node)
  BY <1>1 DEF mapDeleteNode
<1>2. CASE KnowsNode(rm, node)
  <2> DEFINE emptied == mapSub(rm, node, rm.perNode[node])
             after == mapDeleteNode(rm, node)
  <2>1. IsResourceMap(emptied, nodes)
    BY <1>2, SubKeepsMap DEF KnowsNode, IsResourceMap
  <2>2. /\ after.perNode = [n \in DOMAIN rm.perNode \ {node} |-> rm.perNode[n]]
        /\ after.allNode = emptied.allNode
        /\ after = [perNode |-> after.perNode, allNode |-> after.allNode]
    BY <1>2 DEF mapDeleteNode
  <2>3. IsResourceList(after.allNode)
    BY <2>1, <2>2 DEF IsResourceMap
  <2>4. IsResourceMap(after, nodes)
    <3> HIDE DEF after
    <3> QED BY <2>2, <2>3 DEF IsResourceMap
  <2> QED BY <2>4
<1> QED BY <1>1, <1>2

\* Taking a booking off undoes it: every node and the total hold of every
\* resource what they held before (ResourceMap.add and sub).
THEOREM SubUndoesAdd ==
  ASSUME NEW nodes, NEW rm, IsResourceMap(rm, nodes), NEW node \in nodes,
         NEW list, IsResourceList(list), NEW n, NEW r
  PROVE  LET after == mapSub(mapAdd(rm, node, list), node, list)
         IN  /\ Held(after, n, r) = Held(rm, n, r)
             /\ Amount(after.allNode, r) = Amount(rm.allNode, r)
<1> DEFINE added == mapAdd(rm, node, list)
           after == mapSub(added, node, list)
           held == IF KnowsNode(rm, node) THEN rm.perNode[node] ELSE NoResources
           sum == addResourceList(held, list)
<1>1. IsResourceList(held) /\ IsResourceList(rm.allNode)
  BY NoResourcesIsList DEF KnowsNode, IsResourceMap
<1>2. /\ Amount(held, r) \in Int /\ Amount(list, r) \in Int
      /\ Amount(rm.allNode, r) \in Int
  BY <1>1, AmountIsInt
<1>3. /\ KnowsNode(added, node)
      /\ DOMAIN added.perNode = DOMAIN rm.perNode \cup {node}
      /\ added.perNode[node] = sum
      /\ \A m \in DOMAIN rm.perNode \ {node} : added.perNode[m] = rm.perNode[m]
      /\ added.allNode = addResourceList(rm.allNode, list)
  BY DEF mapAdd, KnowsNode
<1>4. /\ after.perNode = [added.perNode EXCEPT ![node] =
                            [s \in DOMAIN sum |-> sum[s] - Amount(list, s)]]
      /\ after.allNode = [s \in DOMAIN added.allNode |-> IF s \in DOMAIN sum
                            THEN added.allNode[s] - Amount(list, s)
                            ELSE added.allNode[s]]
  BY <1>3 DEF mapSub
<1> HIDE DEF added, after, held
<1>5. Amount(after.perNode[node], r) = Amount(held, r)
  BY <1>2, <1>3, <1>4 DEF addResourceList, Amount
<1>6. Held(after, n, r) = Held(rm, n, r)
  <2>1. DOMAIN after.perNode = DOMAIN rm.perNode \cup {node}
    BY <1>3, <1>4
  <2>2. CASE n = node
    <3>1. Held(rm, node, r) = Amount(held, r)
      BY DEF Held, held, KnowsNode, NoResources, Amount
    <3> QED BY <2>1, <2>2, <1>5, <3>1 DEF Held, KnowsNode
  <2>3. CASE n # node
    BY <2>1, <2>3, <1>3, <1>4 DEF Held, KnowsNode
  <2> QED BY <2>2, <2>3
<1>7. Amount(after.allNode, r) = Amount(rm.allNode, r)
  <2>1. CASE r \in DOMAIN list
    BY <2>1, <1>2, <1>3, <1>4 DEF addResourceList, Amount
  <2>2. CASE r \notin DOMAIN list
    BY <2>2, <1>2, <1>3, <1>4 DEF addResourceList, Amount
  <2> QED BY <2>1, <2>2
<1> QED BY <1>6, <1>7 DEF after, added

\* So does removing its node, where nothing else was booked on it
\* (ResourceMap.deleteNode).
THEOREM DeleteUndoesAdd ==
  ASSUME NEW nodes, NEW rm, IsResourceMap(rm, nodes), NEW node \in nodes,
         ~KnowsNode(rm, node), NEW list, IsResourceList(list), NEW n, NEW r
  PROVE  LET after == mapDeleteNode(mapAdd(rm, node, list), node)
         IN  /\ Held(after, n, r) = Held(rm, n, r)
             /\ Amount(after.allNode, r) = Amount(rm.allNode, r)
<1> DEFINE added == mapAdd(rm, node, list)
           after == mapDeleteNode(added, node)
<1>1. /\ DOMAIN added.perNode = DOMAIN rm.perNode \cup {node}
      /\ \A m \in DOMAIN rm.perNode : added.perNode[m] = rm.perNode[m]
      /\ added.perNode[node] = addResourceList(NoResources, list)
  BY DEF mapAdd, KnowsNode
<1>2. added.perNode[node] = list
  <2>1. addResourceList(NoResources, list) = [s \in DOMAIN list |-> Amount(list, s)]
    <3>1. \A s : Amount(NoResources, s) = 0 /\ Amount(list, s) \in Int
      BY AmountIsInt DEF Amount, NoResources
    <3>2. DOMAIN NoResources = {}
      BY DEF NoResources
    <3> QED BY <3>1, <3>2 DEF addResourceList
  <2>2. [s \in DOMAIN list |-> Amount(list, s)] = list
    BY DEF Amount, IsResourceList
  <2> QED BY <1>1, <2>1, <2>2
<1>3. /\ after.perNode = [m \in DOMAIN added.perNode \ {node} |-> added.perNode[m]]
      /\ after.allNode = mapSub(added, node, list).allNode
  BY <1>1, <1>2 DEF mapDeleteNode, KnowsNode
<1>4. Held(after, n, r) = Held(rm, n, r)
  BY <1>1, <1>3 DEF Held, KnowsNode
<1>5. Amount(after.allNode, r) = Amount(rm.allNode, r)
  BY <1>3, SubUndoesAdd
<1> QED BY <1>4, <1>5

----------------------------------------------------------------------------
(* Finite sets of numbers.                                                 *)


\* Induction, for a set of numbers.
LEMMA AllNumbers ==
  ASSUME NEW T, T \subseteq Nat, 0 \in T, \A n \in T : n + 1 \in T
  PROVE  T = Nat
<1> SUFFICES ASSUME Nat \ T # {} PROVE FALSE
  OBVIOUS
<1> DEFINE R == WellFounded!OpToRel(<, Nat)
<1>1. \A m, n \in Nat : m < n => << m, n >> \in R
  BY DEF WellFounded!OpToRel
<1>2. WellFounded!IsWellFoundedOn(R, Nat)
  BY WellFounded!NatLessThanWellFounded, Zenon
<1> HIDE DEF R
<1>3. PICK n \in Nat \ T : \A m \in Nat \ T : << m, n >> \notin R
  BY <1>2, WellFounded!WFMin, Nat \ T \subseteq Nat
<1>4. n # 0 /\ n - 1 \in Nat
  BY <1>3
<1>5. << n - 1, n >> \in R
  BY <1>1, <1>4
<1>6. n - 1 \in T
  BY <1>3, <1>4, <1>5
<1> QED BY <1>3, <1>4, <1>6

\* Induction over the subsets of a finite set.
LEMMA AllSubsets ==
  ASSUME NEW S, IsFiniteSet(S), NEW T,
         \A s \in SUBSET S : (\A x \in s : s \ {x} \in T) => s \in T
  PROVE  SUBSET S \subseteq T
<1> DEFINE N == {n \in Nat : \A s \in SUBSET S : Cardinality(s) <= n => s \in T}
<1>1. \A s \in SUBSET S : /\ IsFiniteSet(s) /\ Cardinality(s) \in Nat
                          /\ Cardinality(s) = 0 <=> s = {}
  BY FS_Subset, FS_CardinalityType, FS_EmptySet
<1>2. \A s \in SUBSET S : \A x \in s :
        s \ {x} \in SUBSET S /\ Cardinality(s \ {x}) = Cardinality(s) - 1
  BY <1>1, FS_RemoveElement
<1>3. 0 \in N
  BY <1>1
<1>4. ASSUME NEW n \in N PROVE n + 1 \in N
  <2>1. ASSUME NEW s \in SUBSET S, Cardinality(s) <= n + 1 PROVE s \in T
    <3>1. \A x \in s : s \ {x} \in T
      BY <1>1, <1>2, <2>1
    <3> QED BY <3>1
  <2> QED BY <2>1
<1>5. N \subseteq Nat
  OBVIOUS
<1> HIDE DEF N
<1>6. N = Nat
  BY <1>3, <1>4, <1>5, AllNumbers
<1> QED BY <1>1, <1>6 DEF N

LEMMA MaxIsLargest ==
  ASSUME NEW S, IsFiniteSet(S), S \subseteq Int, S # {}
  PROVE  Max(S) \in S /\ \A x \in S : x <= Max(S)
<1> DEFINE T == {s \in SUBSET S : s # {} => \E m \in s : \A x \in s : x <= m}
<1>1. ASSUME NEW s \in SUBSET S, \A x \in s : s \ {x} \in T PROVE s \in T
  <2> SUFFICES ASSUME s # {} PROVE \E m \in s : \A x \in s : x <= m
    OBVIOUS
  <2>1. PICK y \in s : TRUE
    OBVIOUS
  <2>2. CASE s \ {y} = {}
    BY <2>1, <2>2
  <2>3. CASE s \ {y} # {}
    <3>1. PICK m \in s \ {y} : \A x \in s \ {y} : x <= m
      BY <1>1, <2>1, <2>3
    <3>2. CASE y <= m
      BY <3>1, <3>2
    <3>3. CASE ~(y <= m)
      BY <2>1, <3>1, <3>3
    <3> QED BY <3>2, <3>3
  <2> QED BY <2>2, <2>3
<1> HIDE DEF T
<1>2. SUBSET S \subseteq T
  BY <1>1, AllSubsets
<1>3. \E m \in S : \A x \in S : x <= m
  BY <1>2 DEF T
<1>4. \E m \in S : \A x \in S : m >= x
  BY <1>3
<1>5. Max(S) \in S /\ \A x \in S : Max(S) >= x
  BY <1>4 DEF Max
<1> QED BY <1>5

----------------------------------------------------------------------------
(* Sums.  SumFunctionOnSet is a recursive function over the subsets of the *)
(* set: that such a function exists, and that its value does not depend on *)
(* the order in which elements are chosen, is shown by induction on size.  *)

\* The table of the partial sums of f over the subsets of S, as the module
\* Functions tabulates them: an element chosen from each goes first.
SumFrom(f, g, s) == IF s = {} THEN 0
                 ELSE f[CHOOSE x \in s : TRUE] + g[s \ {CHOOSE x \in s : TRUE}]
Tabulates(g, f, S) == g = [s \in SUBSET S |-> SumFrom(f, g, s)]
SumTable(f, S) == CHOOSE g : Tabulates(g, f, S)

LEMMA SumIsTabulated == ASSUME NEW f, NEW S PROVE SumFunctionOnSet(f, S) = SumTable(f, S)[S]
BY DEF SumFunctionOnSet, FoldFunctionOnSet, MapThenFoldSet, SumTable, Tabulates, SumFrom

\* There is such a table if S is finite: by induction on the size of the
\* subsets for which it is right.
LEMMA TableExists ==
  ASSUME NEW f, NEW S, IsFiniteSet(S)
  PROVE  Tabulates(SumTable(f, S), f, S)
<1> DEFINE UpTo(g, n) == \A s \in SUBSET S : Cardinality(s) <= n => g[s] = SumFrom(f, g, s)
           T == {n \in Nat : \E g : UpTo(g, n)}
<1>1. \A s \in SUBSET S : /\ IsFiniteSet(s) /\ Cardinality(s) \in Nat
                          /\ Cardinality(s) <= Cardinality(S)
                          /\ Cardinality(s) = 0 <=> s = {}
  BY FS_Subset, FS_CardinalityType, FS_EmptySet
<1>2. \A s \in SUBSET S : s # {} =>
        /\ (CHOOSE x \in s : TRUE) \in s
        /\ s \ {CHOOSE x \in s : TRUE} \in SUBSET S
        /\ Cardinality(s \ {CHOOSE x \in s : TRUE}) = Cardinality(s) - 1
  BY <1>1, FS_RemoveElement
<1>3. ASSUME NEW n \in Nat, NEW g, UpTo(g, n)
      PROVE  LET h == [s \in SUBSET S |-> SumFrom(f, g, s)]
             IN  \A s \in SUBSET S : Cardinality(s) <= n + 1 => h[s] = SumFrom(f, h, s)
  <2> DEFINE h == [s \in SUBSET S |-> SumFrom(f, g, s)]
  <2> SUFFICES ASSUME NEW s \in SUBSET S, Cardinality(s) <= n + 1
               PROVE  h[s] = SumFrom(f, h, s)
    OBVIOUS
  <2>1. CASE s = {}
    BY <2>1 DEF SumFrom
  <2>2. CASE s # {}
    <3> DEFINE rest == s \ {CHOOSE x \in s : TRUE}
    <3>1. rest \in SUBSET S /\ Cardinality(rest) <= n
      BY <1>1, <1>2, <2>2
    <3>2. h[rest] = g[rest]
      BY <1>3, <3>1
    <3>3. h[s] = SumFrom(f, g, s)
      OBVIOUS
    <3> HIDE DEF h
    <3> QED BY <3>2, <3>3, <2>2 DEF SumFrom
  <2> QED BY <2>1, <2>2
<1>4. 0 \in T
  <2>1. UpTo([s \in SUBSET S |-> 0], 0)
    BY <1>1 DEF SumFrom
  <2> QED BY <2>1
<1>5. ASSUME NEW n \in T PROVE n + 1 \in T
  <2>1. n \in Nat /\ \E g : UpTo(g, n)
    OBVIOUS
  <2>2. PICK g : UpTo(g, n)
    BY <2>1
  <2>3. UpTo([s \in SUBSET S |-> SumFrom(f, g, s)], n + 1)
    BY <1>3, <2>1, <2>2
  <2>4. \E h : UpTo(h, n + 1)
    BY <2>3
  <2> HIDE DEF UpTo
  <2> QED BY <2>1, <2>4
<1>6. Cardinality(S) \in T
  <2>1. T \subseteq Nat
    OBVIOUS
  <2> HIDE DEF T
  <2>2. T = Nat
    BY <1>4, <1>5, <2>1, AllNumbers
  <2> QED BY <2>2, FS_CardinalityType
<1>7. PICK g : \A s \in SUBSET S : g[s] = SumFrom(f, g, s)
  BY <1>6, <1>1
<1> DEFINE h == [s \in SUBSET S |-> SumFrom(f, g, s)]
<1>8. \A s \in SUBSET S : h[s] = g[s]
  BY <1>7
<1>9. \A s \in SUBSET S : SumFrom(f, h, s) = SumFrom(f, g, s)
  BY <1>2, <1>8 DEF SumFrom
<1>10. Tabulates(h, f, S)
  BY <1>9 DEF Tabulates
<1> HIDE DEF h
<1> QED BY <1>10 DEF SumTable

\* Where two tables overlap and are made from the same numbers, they agree.
LEMMA TablesAgree ==
  ASSUME NEW f, NEW S, NEW g, Tabulates(g, f, S),
         NEW e, NEW R, NEW h, Tabulates(h, e, R),
         IsFiniteSet(S), R \subseteq S, \A x \in R : f[x] = e[x]
  PROVE  g[R] = h[R]
<1> DEFINE T == {s \in SUBSET R : g[s] = h[s]}
<1>1. \A s \in SUBSET S : g[s] = SumFrom(f, g, s)
  BY DEF Tabulates
<1>2. \A s \in SUBSET R : s \in SUBSET S /\ h[s] = SumFrom(e, h, s)
  BY DEF Tabulates
<1>3. ASSUME NEW s \in SUBSET R, \A x \in s : s \ {x} \in T PROVE s \in T
  <2>1. CASE s = {}
    BY <2>1, <1>1, <1>2 DEF SumFrom
  <2>2. CASE s # {}
    <3> DEFINE x == CHOOSE y \in s : TRUE
    <3>1. x \in s
      BY <2>2
    <3>2. g[s \ {x}] = h[s \ {x}]
      BY <3>1, <1>3
    <3>3. g[s] = f[x] + g[s \ {x}] /\ h[s] = e[x] + h[s \ {x}]
      BY <2>2, <1>1, <1>2 DEF SumFrom
    <3> HIDE DEF x
    <3> QED BY <3>1, <3>2, <3>3
  <2> QED BY <2>1, <2>2
<1>4. IsFiniteSet(R)
  BY FS_Subset
<1> HIDE DEF T
<1>5. SUBSET R \subseteq T
  BY <1>3, <1>4, AllSubsets
<1> QED BY <1>5 DEF T

\* A sum depends on the numbers that are summed alone.
LEMMA SumDepends ==
  ASSUME NEW S, IsFiniteSet(S), NEW f, NEW e, \A x \in S : f[x] = e[x]
  PROVE  SumFunctionOnSet(f, S) = SumFunctionOnSet(e, S)
<1>1. Tabulates(SumTable(f, S), f, S) /\ Tabulates(SumTable(e, S), e, S)
  BY TableExists
<1> QED BY <1>1, TablesAgree, SumIsTabulated

LEMMA SumOfNone == ASSUME NEW f PROVE SumFunctionOnSet(f, {}) = 0
<1>1. Tabulates(SumTable(f, {}), f, {})
  BY TableExists, FS_EmptySet
<1>2. SumTable(f, {})[{}] = SumFrom(f, SumTable(f, {}), {})
  BY <1>1 DEF Tabulates
<1> QED BY <1>2, SumIsTabulated DEF SumFrom

\* Whichever number is taken out of a sum, it and the rest make the sum.
LEMMA SumTakesOut ==
  ASSUME NEW S, IsFiniteSet(S), NEW f, \A x \in S : f[x] \in Int
  PROVE  /\ SumFunctionOnSet(f, S) \in Int
         /\ \A x \in S : SumFunctionOnSet(f, S) = f[x] + SumFunctionOnSet(f, S \ {x})
<1> DEFINE g == SumTable(f, S)
           Right(s) == g[s] \in Int /\ \A x \in s : g[s] = f[x] + g[s \ {x}]
           UpTo(n) == \A s \in SUBSET S : Cardinality(s) <= n => Right(s)
           T == {n \in Nat : UpTo(n)}
<1>1. \A s \in SUBSET S : /\ IsFiniteSet(s) /\ Cardinality(s) \in Nat
                          /\ Cardinality(s) = 0 <=> s = {}
  BY FS_Subset, FS_CardinalityType, FS_EmptySet
<1>2. \A s \in SUBSET S : \A x \in s :
        s \ {x} \in SUBSET S /\ Cardinality(s \ {x}) = Cardinality(s) - 1
  BY <1>1, FS_RemoveElement
<1>3. Tabulates(g, f, S)
  BY TableExists
<1>4. \A s \in SUBSET S : g[s] = SumFrom(f, g, s)
  BY <1>3 DEF Tabulates
<1> HIDE DEF g
<1>5. ASSUME NEW n \in Nat, UpTo(n) PROVE UpTo(n + 1)
  <2> SUFFICES ASSUME NEW s \in SUBSET S, Cardinality(s) <= n + 1
               PROVE  Right(s)
    OBVIOUS
  <2>1. CASE s = {}
    <3>1. g[s] = 0
      BY <2>1, <1>4 DEF SumFrom
    <3> QED BY <2>1, <3>1
  <2>2. CASE s # {}
    <3> DEFINE c == CHOOSE y \in s : TRUE
    <3>1. c \in s /\ g[s] = f[c] + g[s \ {c}]
      BY <2>2, <1>4 DEF SumFrom
    <3> HIDE DEF c
    <3>2. \A x \in s : s \ {x} \in SUBSET S /\ Cardinality(s \ {x}) <= n
      BY <1>1, <1>2
    <3>3. \A x \in s : Right(s \ {x})
      BY <3>2, <1>5
    <3>4. ASSUME NEW x \in s, x # c PROVE g[s] = f[x] + g[s \ {x}]
      <4>1. g[s \ {c}] = f[x] + g[(s \ {c}) \ {x}]
        BY <3>1, <3>3, <3>4
      <4>2. g[s \ {x}] = f[c] + g[(s \ {x}) \ {c}]
        BY <3>1, <3>3, <3>4
      <4>3. (s \ {c}) \ {x} = (s \ {x}) \ {c}
        OBVIOUS
      <4>4. /\ f[x] \in Int /\ f[c] \in Int
            /\ g[(s \ {x}) \ {c}] \in Int
        <5>1. s \ {x} \in SUBSET S /\ c \in s \ {x}
          BY <3>1, <3>4
        <5>2. Cardinality((s \ {x}) \ {c}) = Cardinality(s \ {x}) - 1
          BY <5>1, <1>2
        <5>3. (s \ {x}) \ {c} \in SUBSET S
          OBVIOUS
        <5>4. Cardinality((s \ {x}) \ {c}) <= n
          BY <5>1, <5>2, <5>3, <3>2, <1>1
        <5>5. Right((s \ {x}) \ {c})
          BY <5>3, <5>4, <1>5
        <5> QED BY <5>5, <3>1
      <4>5. g[(s \ {c}) \ {x}] = g[(s \ {x}) \ {c}]
        BY <4>3
      <4>6. g[s] = f[c] + g[s \ {c}]
        BY <3>1
      <4> QED BY <4>1, <4>2, <4>4, <4>5, <4>6
    <3>5. g[s] \in Int
      BY <3>1, <3>3
    <3> QED BY <3>1, <3>4, <3>5
  <2> QED BY <2>1, <2>2
<1>6. 0 \in T
  BY <1>1, <1>4 DEF SumFrom
<1>7. Cardinality(S) \in T
  <2>1. ASSUME NEW n \in T PROVE n + 1 \in T
    <3>1. n \in Nat /\ UpTo(n)
      OBVIOUS
    <3> HIDE DEF UpTo
    <3> QED BY <3>1, <1>5
  <2>2. T \subseteq Nat
    OBVIOUS
  <2> HIDE DEF T
  <2>3. T = Nat
    BY <1>6, <2>1, <2>2, AllNumbers
  <2> QED BY <2>3, <1>1
<1>8. Right(S)
  BY <1>7, <1>1
<1>9. ASSUME NEW x \in S PROVE g[S \ {x}] = SumFunctionOnSet(f, S \ {x})
  <2> DEFINE h == SumTable(f, S \ {x})
  <2>1. Tabulates(h, f, S \ {x})
    BY <1>1, <1>2, TableExists
  <2> HIDE DEF h
  <2>2. g[S \ {x}] = h[S \ {x}]
    BY <2>1, <1>3, TablesAgree
  <2> QED BY <2>2, SumIsTabulated DEF h
<1> QED BY <1>8, <1>9, SumIsTabulated DEF g

LEMMA SumIsNat ==
  ASSUME NEW S, IsFiniteSet(S), NEW f, \A x \in S : f[x] \in Nat
  PROVE  SumFunctionOnSet(f, S) \in Nat
<1> DEFINE T == {s \in SUBSET S : SumFunctionOnSet(f, s) \in Nat}
<1>1. ASSUME NEW s \in SUBSET S, \A x \in s : s \ {x} \in T PROVE s \in T
  <2>1. CASE s = {}
    BY <2>1, SumOfNone
  <2>2. CASE s # {}
    <3>1. PICK x \in s : TRUE
      BY <2>2
    <3>2. SumFunctionOnSet(f, s \ {x}) \in Nat /\ f[x] \in Nat
      BY <1>1
    <3>3. IsFiniteSet(s) /\ \A y \in s : f[y] \in Int
      BY FS_Subset
    <3>4. SumFunctionOnSet(f, s) = f[x] + SumFunctionOnSet(f, s \ {x})
      BY <3>3, SumTakesOut
    <3> QED BY <3>2, <3>4
  <2> QED BY <2>1, <2>2
<1> HIDE DEF T
<1>2. SUBSET S \subseteq T
  BY <1>1, AllSubsets
<1> QED BY <1>2 DEF T

\* A sum of zeros is zero.
LEMMA SumOfZeros ==
  ASSUME NEW S, IsFiniteSet(S), NEW f, \A x \in S : f[x] = 0
  PROVE  SumFunctionOnSet(f, S) = 0
<1> DEFINE T == {s \in SUBSET S : SumFunctionOnSet(f, s) = 0}
<1>1. ASSUME NEW s \in SUBSET S, \A x \in s : s \ {x} \in T PROVE s \in T
  <2>1. CASE s = {}
    BY <2>1, SumOfNone
  <2>2. CASE s # {}
    <3>1. PICK x \in s : TRUE
      BY <2>2
    <3>2. SumFunctionOnSet(f, s \ {x}) = 0 /\ f[x] = 0
      BY <1>1
    <3>3. IsFiniteSet(s) /\ \A y \in s : f[y] \in Int
      BY FS_Subset
    <3>4. SumFunctionOnSet(f, s) = f[x] + SumFunctionOnSet(f, s \ {x})
      BY <3>3, SumTakesOut
    <3> QED BY <3>2, <3>4
  <2> QED BY <2>1, <2>2
<1> HIDE DEF T
<1>2. SUBSET S \subseteq T
  BY <1>1, AllSubsets
<1> QED BY <1>2 DEF T

\* What a sum becomes when a number is put to it ...
LEMMA SumPutsIn ==
  ASSUME NEW S, IsFiniteSet(S), NEW f, NEW e, NEW x, x \notin S,
         \A y \in S : f[y] \in Int /\ e[y] = f[y], e[x] \in Int
  PROVE  SumFunctionOnSet(e, S \cup {x}) = SumFunctionOnSet(f, S) + e[x]
<1>1. IsFiniteSet(S \cup {x}) /\ (S \cup {x}) \ {x} = S
  BY FS_AddElement
<1>2. SumFunctionOnSet(e, S \cup {x}) = e[x] + SumFunctionOnSet(e, S)
  BY <1>1, SumTakesOut
<1>3. SumFunctionOnSet(e, S) = SumFunctionOnSet(f, S)
  BY SumDepends
<1> QED BY <1>2, <1>3, SumTakesOut

\* ... or one of its numbers is replaced.
LEMMA SumReplaces ==
  ASSUME NEW S, IsFiniteSet(S), NEW f, NEW e, NEW x \in S,
         \A y \in S : f[y] \in Int, \A y \in S \ {x} : e[y] = f[y], e[x] \in Int
  PROVE  SumFunctionOnSet(e, S) = SumFunctionOnSet(f, S) - f[x] + e[x]
<1>1. IsFiniteSet(S \ {x})
  BY FS_RemoveElement
<1>2. /\ SumFunctionOnSet(e, S) = e[x] + SumFunctionOnSet(e, S \ {x})
      /\ SumFunctionOnSet(f, S) = f[x] + SumFunctionOnSet(f, S \ {x})
      /\ SumFunctionOnSet(f, S \ {x}) \in Int
  BY <1>1, SumTakesOut
<1>3. SumFunctionOnSet(e, S \ {x}) = SumFunctionOnSet(f, S \ {x})
  BY <1>1, SumDepends
<1> QED BY <1>2, <1>3

----------------------------------------------------------------------------
(* Folds.  FoldLeft is such a function too; it takes the last index out of *)
(* each set of indices.                                                    *)

Indices(lists) == IsFiniteSet(DOMAIN lists) /\ DOMAIN lists \subseteq Nat

LEMMA LastIndex ==
  ASSUME NEW lists, Indices(lists), NEW s \in SUBSET DOMAIN lists, s # {}
  PROVE  Max(s) \in s
<1>1. IsFiniteSet(s) /\ s \subseteq Int
  BY FS_Subset DEF Indices
<1> QED BY <1>1, MaxIsLargest

\* What the first lists are together ...
SumOfSome(lists, s) ==
  [r \in UNION {DOMAIN lists[i] : i \in s} |->
     SumFunctionOnSet([i \in DOMAIN lists |-> Amount(lists[i], r)], s)]
AddStep(lists, g, s) ==
  IF s = {} THEN NoResources ELSE addResourceList(g[s \ {Max(s)}], lists[Max(s)])

LEMMA AmountOfSum ==
  ASSUME NEW lists, Indices(lists), NEW s \in SUBSET DOMAIN lists, NEW r
  PROVE  Amount(SumOfSome(lists, s), r)
           = SumFunctionOnSet([i \in DOMAIN lists |-> Amount(lists[i], r)], s)
<1> DEFINE names == UNION {DOMAIN lists[i] : i \in s}
           amounts == [i \in DOMAIN lists |-> Amount(lists[i], r)]
<1>1. CASE r \in names
  BY <1>1 DEF SumOfSome, Amount
<1>2. CASE r \notin names
  <2>1. \A i \in s : amounts[i] = 0
    BY <1>2 DEF Amount
  <2>2. SumFunctionOnSet(amounts, s) = 0
    BY <2>1, FS_Subset, SumOfZeros DEF Indices
  <2> QED BY <1>2, <2>2 DEF SumOfSome, Amount
<1> QED BY <1>1, <1>2

LEMMA SumStep ==
  ASSUME NEW lists, Indices(lists), \A i \in DOMAIN lists : IsResourceList(lists[i]),
         NEW s \in SUBSET DOMAIN lists, NEW m \in s
  PROVE  SumOfSome(lists, s) = addResourceList(SumOfSome(lists, s \ {m}), lists[m])
<1> DEFINE amounts(r) == [i \in DOMAIN lists |-> Amount(lists[i], r)]
           rest == s \ {m}
           names(t) == UNION {DOMAIN lists[i] : i \in t}
           before == SumOfSome(lists, rest)
<1>1. IsFiniteSet(s) /\ IsFiniteSet(rest)
  BY FS_Subset DEF Indices
<1>2. \A r : \A i \in s : amounts(r)[i] \in Int
  BY AmountIsInt
<1>3. ASSUME NEW r
      PROVE  /\ SumFunctionOnSet(amounts(r), s)
                  = amounts(r)[m] + SumFunctionOnSet(amounts(r), rest)
             /\ SumFunctionOnSet(amounts(r), rest) \in Int
  BY <1>1, <1>2, SumTakesOut
<1>4. names(s) = names(rest) \cup DOMAIN lists[m]
  OBVIOUS
<1>5. ASSUME NEW r PROVE Amount(before, r) = SumFunctionOnSet(amounts(r), rest)
  BY AmountOfSum
<1>6. DOMAIN before = names(rest)
  BY DEF SumOfSome
<1>7. ASSUME NEW r
      PROVE  SumFunctionOnSet(amounts(r), s) = Amount(before, r) + Amount(lists[m], r)
  <2>1. amounts(r)[m] = Amount(lists[m], r) /\ amounts(r)[m] \in Int
    BY <1>2
  <2>2. /\ SumFunctionOnSet(amounts(r), s)
              = amounts(r)[m] + SumFunctionOnSet(amounts(r), rest)
        /\ SumFunctionOnSet(amounts(r), rest) \in Int
    BY <1>3
  <2>3. Amount(before, r) = SumFunctionOnSet(amounts(r), rest)
    BY <1>5
  <2> HIDE DEF amounts, before, rest
  <2> QED BY <2>1, <2>2, <2>3
<1> HIDE DEF before
<1>8. /\ DOMAIN addResourceList(before, lists[m]) = names(s)
      /\ \A r \in names(s) : addResourceList(before, lists[m])[r]
                              = Amount(before, r) + Amount(lists[m], r)
      /\ addResourceList(before, lists[m])
           = [r \in names(s) |-> addResourceList(before, lists[m])[r]]
  BY <1>4, <1>6 DEF addResourceList
<1>9. SumOfSome(lists, s) = [r \in names(s) |-> SumFunctionOnSet(amounts(r), s)]
  BY DEF SumOfSome
<1>10. SumOfSome(lists, s)
         = [r \in names(s) |-> Amount(before, r) + Amount(lists[m], r)]
  <2> HIDE DEF names
  <2> QED BY <1>7, <1>9
<1>11. SumOfSome(lists, s) = addResourceList(before, lists[m])
  <2> HIDE DEF amounts, names
  <2> QED BY <1>8, <1>10
<1> QED BY <1>11 DEF before

\* ... is what the fold has after them: another function that does the same
\* steps would agree with it on every set of indices.
LEMMA SumOfListsIs ==
  ASSUME NEW lists, Indices(lists), \A i \in DOMAIN lists : IsResourceList(lists[i])
  PROVE  sumOfLists(lists) = SumOfSome(lists, DOMAIN lists)
<1> DEFINE D == DOMAIN lists
           Folds(g) == g = [s \in SUBSET D |-> AddStep(lists, g, s)]
           h == CHOOSE g : Folds(g)
           sums == [s \in SUBSET D |-> SumOfSome(lists, s)]
           T == {s \in SUBSET D : h[s] = sums[s]}
<1>1. sumOfLists(lists) = h[D]
  BY DEF sumOfLists, FoldLeft, MapThenFoldSet, AddStep
<1>2. SumOfSome(lists, {}) = NoResources
  BY DEF SumOfSome, NoResources
<1>3. \A s \in SUBSET D : sums[s] = AddStep(lists, sums, s)
  BY <1>2, LastIndex, SumStep DEF AddStep
<1>4. Folds(sums)
  <2> HIDE DEF sums
  <2>1. sums = [s \in SUBSET D |-> sums[s]]
    BY DEF sums
  <2> QED BY <1>3, <2>1
<1> HIDE DEF sums, Folds
<1>5. Folds(h)
  BY <1>4
<1> HIDE DEF h
<1>6. \A s \in SUBSET D : h[s] = AddStep(lists, h, s)
  BY <1>5 DEF Folds
<1>7. ASSUME NEW s \in SUBSET D, \A x \in s : s \ {x} \in T PROVE s \in T
  BY <1>3, <1>6, <1>7, LastIndex DEF AddStep
<1>8. IsFiniteSet(D)
  BY DEF Indices
<1> HIDE DEF T
<1>9. SUBSET D \subseteq T
  BY <1>7, <1>8, AllSubsets
<1> QED BY <1>1, <1>9 DEF T, sums

\* The same of the largest amounts, from a list that is there already.
AmountsOf(list, lists, s, r) == {Amount(list, r)} \cup {Amount(lists[i], r) : i \in s}
LargestOfSome(list, lists, s) ==
  [r \in DOMAIN list \cup UNION {DOMAIN lists[i] : i \in s} |->
     Max(AmountsOf(list, lists, s, r))]
MaxStep(list, lists, g, s) ==
  IF s = {} THEN list ELSE maxResourceList(g[s \ {Max(s)}], lists[Max(s)])

LEMMA MaxIs ==
  ASSUME NEW S, NEW m \in S, S \subseteq Int, \A x \in S : x <= m
  PROVE  Max(S) = m
<1>1. \E y \in S : \A x \in S : y >= x
  BY m \in S
<1>2. Max(S) \in S /\ \A x \in S : Max(S) >= x
  BY <1>1 DEF Max
<1>3. Max(S) \in Int /\ m \in Int /\ Max(S) <= m /\ Max(S) >= m
  BY <1>2
<1> QED BY <1>3

\* The largest of some demands is one of them, and none is larger.
LEMMA LargestOfAmounts ==
  ASSUME NEW list, IsDemand(list),
         NEW lists, Indices(lists), \A i \in DOMAIN lists : IsDemand(lists[i]),
         NEW s \in SUBSET DOMAIN lists, NEW r
  PROVE  LET amounts == AmountsOf(list, lists, s, r)
         IN  /\ amounts \subseteq Nat
             /\ Max(amounts) \in amounts
             /\ \A x \in amounts : x <= Max(amounts)
<1> DEFINE amounts == AmountsOf(list, lists, s, r)
           T == {t \in SUBSET s : IsFiniteSet(AmountsOf(list, lists, t, r))}
<1>1. amounts \subseteq Nat /\ amounts # {}
  BY DEF AmountsOf, Amount, IsDemand, IsResourceList
<1>2. ASSUME NEW t \in SUBSET s, \A i \in t : t \ {i} \in T PROVE t \in T
  <2>1. CASE t = {}
    <3>1. AmountsOf(list, lists, t, r) = {Amount(list, r)}
      BY <2>1 DEF AmountsOf
    <3> QED BY <3>1, FS_Singleton
  <2>2. CASE t # {}
    <3>1. PICK i \in t : TRUE
      BY <2>2
    <3>2. IsFiniteSet(AmountsOf(list, lists, t \ {i}, r))
      BY <1>2
    <3>3. AmountsOf(list, lists, t, r)
            = AmountsOf(list, lists, t \ {i}, r) \cup {Amount(lists[i], r)}
      BY <3>1 DEF AmountsOf
    <3> DEFINE others == AmountsOf(list, lists, t \ {i}, r)
               amount == Amount(lists[i], r)
    <3>4. IsFiniteSet(others \cup {amount})
      <4> HIDE DEF others, amount
      <4> QED BY <3>2, FS_AddElement DEF others
    <3> QED BY <3>3, <3>4
  <2> QED BY <2>1, <2>2
<1>3. IsFiniteSet(s)
  BY FS_Subset DEF Indices
<1> HIDE DEF T
<1>4. SUBSET s \subseteq T
  BY <1>2, <1>3, AllSubsets
<1>5. IsFiniteSet(amounts)
  BY <1>4 DEF T
<1> HIDE DEF amounts
<1>6. amounts \subseteq Int
  BY <1>1
<1>7. Max(amounts) \in amounts /\ \A x \in amounts : x <= Max(amounts)
  BY <1>1, <1>5, <1>6, MaxIsLargest
<1> QED BY <1>1, <1>7 DEF amounts

LEMMA LargestStep ==
  ASSUME NEW list, IsDemand(list),
         NEW lists, Indices(lists), \A i \in DOMAIN lists : IsDemand(lists[i]),
         NEW s \in SUBSET DOMAIN lists, NEW m \in s
  PROVE  LargestOfSome(list, lists, s)
           = maxResourceList(LargestOfSome(list, lists, s \ {m}), lists[m])
<1> DEFINE rest == s \ {m}
           names(t) == DOMAIN list \cup UNION {DOMAIN lists[i] : i \in t}
           all(r) == AmountsOf(list, lists, s, r)
           others(r) == AmountsOf(list, lists, rest, r)
           before == LargestOfSome(list, lists, rest)
           after == maxResourceList(before, lists[m])
<1>1. /\ DOMAIN before = names(rest)
      /\ \A r \in names(rest) : before[r] = Max(others(r))
      /\ names(s) = names(rest) \cup DOMAIN lists[m]
  BY DEF LargestOfSome
<1>2. ASSUME NEW r
      PROVE  /\ others(r) \subseteq Nat
             /\ Max(others(r)) \in others(r)
             /\ \A x \in others(r) : x <= Max(others(r))
             /\ all(r) = others(r) \cup {Amount(lists[m], r)}
             /\ Amount(lists[m], r) \in Nat
  <2>1. rest \in SUBSET DOMAIN lists
    OBVIOUS
  <2>2. all(r) = others(r) \cup {Amount(lists[m], r)}
    BY DEF AmountsOf
  <2>3. Amount(lists[m], r) \in Nat
    BY DEF IsDemand, IsResourceList, Amount
  <2> HIDE DEF rest
  <2> QED BY <2>1, <2>2, <2>3, LargestOfAmounts
<1>3. /\ DOMAIN after = names(s)
      /\ after = [r \in names(s) |-> after[r]]
      /\ \A r \in names(s) :
           after[r] = IF r \notin names(rest)
                         \/ (r \in DOMAIN lists[m] /\ lists[m][r] > before[r])
                        THEN lists[m][r] ELSE before[r]
  BY <1>1 DEF maxResourceList
<1>4. ASSUME NEW r \in names(rest)
      PROVE  after[r] = Max(all(r))
  <2>1. after[r] \in all(r) /\ \A x \in all(r) : x <= after[r]
    <3> HIDE DEF all, others, before, after
    <3> QED BY <1>1, <1>2, <1>3, <1>4 DEF Amount
  <2>2. all(r) \subseteq Int
    <3> HIDE DEF all, others
    <3> QED BY <1>2
  <2> HIDE DEF all, after
  <2> QED BY <2>1, <2>2, MaxIs
<1>5. ASSUME NEW r \in DOMAIN lists[m], r \notin names(rest)
      PROVE  after[r] = Max(all(r))
  <2>1. others(r) \subseteq {0}
    BY <1>5 DEF AmountsOf, Amount
  <2>2. after[r] = Amount(lists[m], r)
    BY <1>1, <1>3, <1>5 DEF Amount
  <2>3. after[r] \in all(r) /\ \A x \in all(r) : x <= after[r]
    <3> HIDE DEF all, others, after
    <3> QED BY <1>2, <2>1, <2>2
  <2>4. all(r) \subseteq Int
    <3> HIDE DEF all, others
    <3> QED BY <1>2
  <2> HIDE DEF all, after
  <2> QED BY <2>3, <2>4, MaxIs
<1>6. \A r \in names(s) : after[r] = Max(all(r))
  BY <1>1, <1>4, <1>5
<1>7. LargestOfSome(list, lists, s) = [r \in names(s) |-> Max(all(r))]
  BY DEF LargestOfSome
<1>8. LargestOfSome(list, lists, s) = after
  <2> HIDE DEF names, all, after
  <2> QED BY <1>3, <1>6, <1>7
<1> QED BY <1>8

LEMMA AtLeastIs ==
  ASSUME NEW list, IsDemand(list),
         NEW lists, Indices(lists), \A i \in DOMAIN lists : IsDemand(lists[i])
  PROVE  atLeast(list, lists) = LargestOfSome(list, lists, DOMAIN lists)
<1> DEFINE D == DOMAIN lists
           Folds(g) == g = [s \in SUBSET D |-> MaxStep(list, lists, g, s)]
           h == CHOOSE g : Folds(g)
           largest == [s \in SUBSET D |-> LargestOfSome(list, lists, s)]
           T == {s \in SUBSET D : h[s] = largest[s]}
<1>1. atLeast(list, lists) = h[D]
  BY DEF atLeast, FoldLeft, MapThenFoldSet, MaxStep
<1>2. LargestOfSome(list, lists, {}) = list
  <2>1. \A r \in DOMAIN list : /\ AmountsOf(list, lists, {}, r) = {list[r]}
                               /\ list[r] \in Int
    BY DEF AmountsOf, Amount, IsDemand, IsResourceList
  <2>2. \A r \in DOMAIN list : Max(AmountsOf(list, lists, {}, r)) = list[r]
    BY <2>1, MaxIs
  <2>3. LargestOfSome(list, lists, {})
          = [r \in DOMAIN list |-> Max(AmountsOf(list, lists, {}, r))]
    BY DEF LargestOfSome
  <2>4. list = [r \in DOMAIN list |-> list[r]]
    BY DEF IsDemand, IsResourceList
  <2> QED BY <2>2, <2>3, <2>4
<1>3. ASSUME NEW s \in SUBSET D PROVE largest[s] = MaxStep(list, lists, largest, s)
  <2>1. CASE s = {}
    BY <2>1, <1>2 DEF MaxStep
  <2>2. CASE s # {}
    <3>1. Max(s) \in s
      BY <2>2, LastIndex
    <3>2. LargestOfSome(list, lists, s)
            = maxResourceList(LargestOfSome(list, lists, s \ {Max(s)}), lists[Max(s)])
      BY <3>1, LargestStep
    <3> QED BY <2>2, <3>2 DEF MaxStep
  <2> QED BY <2>1, <2>2
<1>4. Folds(largest)
  <2> HIDE DEF largest
  <2>1. largest = [s \in SUBSET D |-> largest[s]]
    BY DEF largest
  <2> QED BY <1>3, <2>1
<1> HIDE DEF largest, Folds
<1>5. Folds(h)
  BY <1>4
<1> HIDE DEF h
<1>6. \A s \in SUBSET D : h[s] = MaxStep(list, lists, h, s)
  BY <1>5 DEF Folds
<1>7. ASSUME NEW s \in SUBSET D, \A x \in s : s \ {x} \in T PROVE s \in T
  BY <1>3, <1>6, <1>7, LastIndex DEF MaxStep
<1>8. IsFiniteSet(D)
  BY DEF Indices
<1> HIDE DEF T
<1>9. SUBSET D \subseteq T
  BY <1>7, <1>8, AllSubsets
<1> QED BY <1>1, <1>9 DEF T, largest

LEMMA AmountOfLargest ==
  ASSUME NEW list, IsDemand(list),
         NEW lists, Indices(lists), \A i \in DOMAIN lists : IsDemand(lists[i]),
         NEW s \in SUBSET DOMAIN lists, NEW r
  PROVE  Amount(LargestOfSome(list, lists, s), r) = Max(AmountsOf(list, lists, s, r))
<1> DEFINE names == DOMAIN list \cup UNION {DOMAIN lists[i] : i \in s}
<1>1. CASE r \in names
  BY <1>1 DEF LargestOfSome, Amount
<1>2. CASE r \notin names
  <2>1. AmountsOf(list, lists, s, r) = {0}
    BY <1>2 DEF AmountsOf, Amount
  <2>2. Max(AmountsOf(list, lists, s, r)) = 0
    BY <2>1, MaxIs
  <2> QED BY <1>2, <2>2 DEF LargestOfSome, Amount
<1> QED BY <1>1, <1>2

----------------------------------------------------------------------------
(* The lists of a pod.                                                     *)

LEMMA ListsOfContainers ==
  ASSUME NEW spec, IsPodSpec(spec), NEW kind \in {"requests", "limits"},
         NEW containers \in {spec.containers, spec.initContainers}
  PROVE  LET lists == listsOf(containers, kind)
         IN  /\ Indices(lists) /\ DOMAIN lists = DOMAIN containers
             /\ \A i \in DOMAIN lists : /\ lists[i] = containers[i][kind]
                                       /\ IsDemand(lists[i]) /\ IsResourceList(lists[i])
BY DEF IsPodSpec, listsOf, Indices, IsDemand

LEMMA SumIsDemand ==
  ASSUME NEW lists, Indices(lists), \A i \in DOMAIN lists : IsDemand(lists[i])
  PROVE  IsDemand(SumOfSome(lists, DOMAIN lists))
<1> DEFINE amounts(r) == [i \in DOMAIN lists |-> Amount(lists[i], r)]
           sum == SumOfSome(lists, DOMAIN lists)
<1>1. ASSUME NEW r PROVE SumFunctionOnSet(amounts(r), DOMAIN lists) \in Nat
  <2>1. \A i \in DOMAIN lists : amounts(r)[i] \in Nat
    BY DEF IsDemand, IsResourceList, Amount
  <2>2. IsFiniteSet(DOMAIN lists)
    BY DEF Indices
  <2> HIDE DEF amounts
  <2> QED BY <2>1, <2>2, SumIsNat
<1>2. /\ sum = [r \in DOMAIN sum |-> sum[r]]
      /\ \A r \in DOMAIN sum : sum[r] = SumFunctionOnSet(amounts(r), DOMAIN lists)
  BY DEF SumOfSome
<1> HIDE DEF sum, amounts
<1>3. IsDemand(sum)
  BY <1>1, <1>2 DEF IsDemand, IsResourceList
<1> QED BY <1>3 DEF sum

LEMMA LargestIsDemand ==
  ASSUME NEW list, IsDemand(list),
         NEW lists, Indices(lists), \A i \in DOMAIN lists : IsDemand(lists[i]),
         NEW s \in SUBSET DOMAIN lists
  PROVE  IsDemand(LargestOfSome(list, lists, s))
<1> DEFINE largest == LargestOfSome(list, lists, s)
<1>1. /\ largest = [r \in DOMAIN largest |-> largest[r]]
      /\ \A r \in DOMAIN largest : largest[r] = Max(AmountsOf(list, lists, s, r))
  BY DEF LargestOfSome
<1>2. \A r : Max(AmountsOf(list, lists, s, r)) \in Nat
  BY LargestOfAmounts
<1> HIDE DEF largest
<1>3. IsDemand(largest)
  BY <1>1, <1>2 DEF IsDemand, IsResourceList
<1> QED BY <1>3 DEF largest

LEMMA BeforeOverhead ==
  ASSUME NEW spec, IsPodSpec(spec), NEW kind \in {"requests", "limits"}, NEW r
  PROVE  /\ IsDemand(beforeOverhead(spec, kind))
         /\ Amount(beforeOverhead(spec, kind), r) = EffectiveAmount(spec, kind, r)
<1> DEFINE lists == listsOf(spec.containers, kind)
           inits == listsOf(spec.initContainers, kind)
           sum == sumOfLists(lists)
           each(containers) == [i \in DOMAIN containers |-> Amount(containers[i][kind], r)]
<1>1. /\ Indices(lists) /\ DOMAIN lists = DOMAIN spec.containers
      /\ \A i \in DOMAIN lists : /\ lists[i] = spec.containers[i][kind]
                                /\ IsDemand(lists[i]) /\ IsResourceList(lists[i])
  BY ListsOfContainers
<1>2. /\ Indices(inits) /\ DOMAIN inits = DOMAIN spec.initContainers
      /\ \A i \in DOMAIN inits : /\ inits[i] = spec.initContainers[i][kind]
                                /\ IsDemand(inits[i])
  BY ListsOfContainers
<1> HIDE DEF lists, inits
<1>3. sum = SumOfSome(lists, DOMAIN lists) /\ IsDemand(sum)
  BY <1>1, SumOfListsIs, SumIsDemand
<1>4. Amount(sum, r) = SumFunction(each(spec.containers))
  <2>1. each(spec.containers) = [i \in DOMAIN lists |-> Amount(lists[i], r)]
    BY <1>1
  <2> QED BY <1>1, <1>3, <2>1, AmountOfSum DEF SumFunction
<1> HIDE DEF sum
<1>5. AmountsOf(sum, inits, DOMAIN inits, r)
        = {SumFunction(each(spec.containers))} \cup Range(each(spec.initContainers))
  BY <1>2, <1>4 DEF AmountsOf, Range
<1>6. beforeOverhead(spec, kind) = LargestOfSome(sum, inits, DOMAIN inits)
  BY <1>2, <1>3, AtLeastIs DEF beforeOverhead, sum, lists, inits
<1>7. EffectiveAmount(spec, kind, r) = Max(AmountsOf(sum, inits, DOMAIN inits, r))
  BY <1>5 DEF EffectiveAmount
<1> QED BY <1>2, <1>3, <1>6, <1>7, AmountOfLargest, LargestIsDemand

\* The two lists of a pod hold lists of amounts ...
LEMMA PodListsAreLists ==
  ASSUME NEW spec, IsPodSpec(spec)
  PROVE  IsResourceList(PodRequests(spec)) /\ IsResourceList(PodLimits(spec))
<1>1. /\ IsResourceList(beforeOverhead(spec, "requests"))
      /\ IsResourceList(beforeOverhead(spec, "limits"))
      /\ IsResourceList(spec.overhead)
  BY BeforeOverhead DEF IsDemand, IsPodSpec
<1>2. IsResourceList(PodRequests(spec))
  BY <1>1, AddKeepsList DEF PodRequests
<1>3. IsResourceList(PodLimits(spec))
  <2> DEFINE limits == beforeOverhead(spec, "limits")
             after == [r \in DOMAIN limits |->
               IF limits[r] = 0 THEN 0 ELSE limits[r] + Amount(spec.overhead, r)]
  <2>1. \A r : Amount(spec.overhead, r) \in Int
    BY <1>1, AmountIsInt
  <2> HIDE DEF limits
  <2>2. IsResourceList(after)
    BY <1>1, <2>1 DEF limits, IsResourceList
  <2> QED BY <2>2 DEF PodLimits, limits
<1> QED BY <1>2, <1>3

\* ... and they are the effective ones, whatever containers the pod has and
\* whichever resources they name (PodRequestsAndLimits).
THEOREM PodListsAreEffective ==
  ASSUME NEW spec, IsPodSpec(spec), NEW r
  PROVE  AreEffective(spec, PodRequests(spec), PodLimits(spec), r)
<1> DEFINE requests == beforeOverhead(spec, "requests")
           limits == beforeOverhead(spec, "limits")
           overhead == spec.overhead
<1>1. /\ IsDemand(requests) /\ Amount(requests, r) = EffectiveAmount(spec, "requests", r)
      /\ IsDemand(limits) /\ Amount(limits, r) = EffectiveAmount(spec, "limits", r)
  BY BeforeOverhead
<1>2. Amount(overhead, r) \in Int /\ Amount(requests, r) \in Int
  BY <1>1, AmountIsInt DEF IsPodSpec, IsDemand
<1> HIDE DEF requests, limits
<1>3. Amount(PodRequests(spec), r) = Amount(requests, r) + Amount(overhead, r)
  <2>1. PodRequests(spec) = addResourceList(requests, overhead)
    BY DEF PodRequests, requests
  <2> QED BY <1>2, <2>1 DEF addResourceList, Amount
<1>4. Amount(PodLimits(spec), r) = IF Amount(limits, r) = 0 THEN 0
                                   ELSE Amount(limits, r) + Amount(overhead, r)
  <2>1. PodLimits(spec) = [s \in DOMAIN limits |->
          IF limits[s] = 0 THEN 0 ELSE limits[s] + Amount(overhead, s)]
    BY DEF PodLimits, limits
  <2> QED BY <2>1 DEF Amount
<1> QED BY <1>1, <1>3, <1>4 DEF AreEffective

----------------------------------------------------------------------------
(* The total of a ledger.                                                  *)

\* What the nodes of a ledger hold of a resource.
Column(rm, r) == [n \in DOMAIN rm.perNode |-> Amount(rm.perNode[n], r)]

\* The books balance: of every resource the total is what the nodes hold of
\* it together, and none is held that the total does not know.
Balanced(rm) ==
  /\ IsFiniteSet(DOMAIN rm.perNode)
  /\ \A n \in DOMAIN rm.perNode : DOMAIN rm.perNode[n] \subseteq DOMAIN rm.allNode
  /\ \A r : Amount(rm.allNode, r) = SumFunction(Column(rm, r))

LEMMA ColumnIsInt ==
  ASSUME NEW nodes, NEW rm, IsResourceMap(rm, nodes), NEW r
  PROVE  /\ \A n \in DOMAIN rm.perNode : Column(rm, r)[n] \in Int
         /\ DOMAIN Column(rm, r) = DOMAIN rm.perNode
         /\ Amount(rm.allNode, r) \in Int
BY AmountIsInt DEF Column, IsResourceMap

LEMMA NewIsBalanced == Balanced(NewResourceMap)
<1>1. DOMAIN NewResourceMap.perNode = {}
  BY DEF NewResourceMap
<1>2. \A r : Amount(NewResourceMap.allNode, r) = 0
  BY DEF NewResourceMap, NoResources, Amount
<1>3. \A r : DOMAIN Column(NewResourceMap, r) = {}
  BY <1>1 DEF Column
<1>4. \A r : SumFunction(Column(NewResourceMap, r)) = 0
  BY <1>3, SumOfNone DEF SumFunction
<1> QED BY <1>1, <1>2, <1>4, FS_EmptySet DEF Balanced

LEMMA AddKeepsBalance ==
  ASSUME NEW nodes, NEW rm, IsResourceMap(rm, nodes), Balanced(rm),
         NEW node, NEW list, IsResourceList(list)
  PROVE  Balanced(mapAdd(rm, node, list))
<1> DEFINE after == mapAdd(rm, node, list)
           S == DOMAIN rm.perNode
<1>1. /\ DOMAIN after.perNode = S \cup {node}
      /\ \A n \in S \ {node} : after.perNode[n] = rm.perNode[n]
      /\ after.perNode[node] = addResourceList(
           IF KnowsNode(rm, node) THEN rm.perNode[node] ELSE NoResources, list)
      /\ after.allNode = addResourceList(rm.allNode, list)
  BY DEF mapAdd
<1> HIDE DEF after
<1>2. IsFiniteSet(S) /\ IsFiniteSet(S \cup {node})
  BY FS_AddElement DEF Balanced
<1>3. \A n \in DOMAIN after.perNode :
        DOMAIN after.perNode[n] \subseteq DOMAIN after.allNode
  BY <1>1 DEF Balanced, addResourceList, NoResources, KnowsNode
<1>4. ASSUME NEW r PROVE Amount(after.allNode, r) = SumFunction(Column(after, r))
  <2> DEFINE f == Column(rm, r)
             e == Column(after, r)
  <2>1. /\ \A n \in S : f[n] \in Int
        /\ DOMAIN f = S
        /\ Amount(rm.allNode, r) \in Int /\ Amount(list, r) \in Int
    BY ColumnIsInt, AmountIsInt
  <2>2. DOMAIN e = S \cup {node} /\ \A n \in S \ {node} : e[n] = f[n]
    BY <1>1 DEF Column
  <2>3. Amount(after.allNode, r) = Amount(rm.allNode, r) + Amount(list, r)
    BY <1>1, <2>1 DEF addResourceList, Amount
  <2>4. Amount(rm.allNode, r) = SumFunctionOnSet(f, S)
    BY <2>1 DEF Balanced, SumFunction
  <2>5. CASE node \in S
    <3>1. e[node] = f[node] + Amount(list, r)
      <4>1. f[node] = Amount(rm.perNode[node], r)
            /\ e[node] = Amount(after.perNode[node], r)
        BY <2>5, <1>1 DEF Column
      <4>2. after.perNode[node] = addResourceList(rm.perNode[node], list)
        BY <2>5, <1>1 DEF KnowsNode
      <4> QED BY <4>1, <4>2, <2>1, <2>5 DEF addResourceList, Amount
    <3> HIDE DEF f, e
    <3>2. SumFunctionOnSet(e, S) = SumFunctionOnSet(f, S) - f[node] + e[node]
      BY <3>1, <2>1, <2>2, <2>5, <1>2, SumReplaces
    <3>3. SumFunctionOnSet(f, S) \in Int
      BY <2>1, <2>4
    <3>4. DOMAIN e = S
      BY <2>2, <2>5
    <3>5. SumFunctionOnSet(e, S) = Amount(rm.allNode, r) + Amount(list, r)
      BY <3>1, <3>2, <2>1, <2>4, <2>5
    <3> QED BY <3>4, <3>5, <2>3 DEF SumFunction, e
  <2>6. CASE node \notin S
    <3>1. e[node] = Amount(list, r)
      <4>1. e[node] = Amount(after.perNode[node], r)
        BY <1>1 DEF Column
      <4>2. after.perNode[node] = addResourceList(NoResources, list)
        BY <2>6, <1>1 DEF KnowsNode
      <4> QED BY <4>1, <4>2, <2>1 DEF addResourceList, Amount, NoResources
    <3> HIDE DEF f, e
    <3>2. SumFunctionOnSet(e, S \cup {node}) = SumFunctionOnSet(f, S) + e[node]
      BY <3>1, <2>1, <2>2, <2>6, <1>2, SumPutsIn
    <3> QED BY <3>1, <3>2, <2>2, <2>3, <2>4 DEF SumFunction, e
  <2> QED BY <2>5, <2>6
<1> QED BY <1>1, <1>2, <1>3, <1>4 DEF Balanced, after

\* Taking a list off a known node takes as much off its total.
LEMMA SubKeepsBalance ==
  ASSUME NEW nodes, NEW rm, IsResourceMap(rm, nodes), Balanced(rm),
         NEW node, NEW list, IsResourceList(list)
  PROVE  Balanced(mapSub(rm, node, list))
<1>1. CASE ~KnowsNode(rm, node)
  BY <1>1 DEF mapSub
<1>2. CASE KnowsNode(rm, node)
  <2> DEFINE after == mapSub(rm, node, list)
             S == DOMAIN rm.perNode
             held == rm.perNode[node]
  <2>1. /\ DOMAIN after.perNode = S /\ node \in S
        /\ \A n \in S \ {node} : after.perNode[n] = rm.perNode[n]
        /\ after.perNode[node] = [r \in DOMAIN held |-> held[r] - Amount(list, r)]
        /\ after.allNode = [r \in DOMAIN rm.allNode |->
             IF r \in DOMAIN held THEN rm.allNode[r] - Amount(list, r)
                                  ELSE rm.allNode[r]]
    BY <1>2 DEF mapSub, KnowsNode
  <2> HIDE DEF after
  <2>2. IsFiniteSet(S) /\ DOMAIN held \subseteq DOMAIN rm.allNode
    BY <2>1 DEF Balanced
  <2>3. \A n \in DOMAIN after.perNode :
          DOMAIN after.perNode[n] \subseteq DOMAIN after.allNode
    BY <2>1 DEF Balanced
  <2>4. ASSUME NEW r PROVE Amount(after.allNode, r) = SumFunction(Column(after, r))
    <3> DEFINE f == Column(rm, r)
               e == Column(after, r)
               d == IF r \in DOMAIN held THEN Amount(list, r) ELSE 0
    <3>1. /\ \A n \in S : f[n] \in Int
          /\ DOMAIN f = S /\ DOMAIN e = S
          /\ Amount(rm.allNode, r) \in Int /\ d \in Int
      BY <2>1, ColumnIsInt, AmountIsInt DEF Column
    <3>2. \A n \in S \ {node} : e[n] = f[n]
      BY <2>1 DEF Column
    <3>3. Amount(after.allNode, r) = Amount(rm.allNode, r) - d
      BY <2>1, <2>2, <3>1 DEF Amount
    <3>4. Amount(rm.allNode, r) = SumFunctionOnSet(f, S)
      BY <3>1 DEF Balanced, SumFunction
    <3>5. e[node] = f[node] - d
      <4>1. f[node] = Amount(held, r) /\ e[node] = Amount(after.perNode[node], r)
        BY <2>1 DEF Column
      <4> QED BY <4>1, <2>1, <3>1 DEF Amount
    <3> HIDE DEF f, e, d
    <3>6. SumFunctionOnSet(e, S) = SumFunctionOnSet(f, S) - f[node] + e[node]
      BY <2>1, <2>2, <3>1, <3>2, <3>5, SumReplaces
    <3>7. SumFunctionOnSet(e, S) = Amount(rm.allNode, r) - d
      BY <2>1, <3>1, <3>4, <3>5, <3>6
    <3> QED BY <3>1, <3>3, <3>7 DEF SumFunction, e
  <2> QED BY <2>1, <2>2, <2>3, <2>4 DEF Balanced, after
<1> QED BY <1>1, <1>2

\* Deleting a node takes all it holds off the total.
LEMMA DeleteNodeKeepsBalance ==
  ASSUME NEW nodes, NEW rm, IsResourceMap(rm, nodes), Balanced(rm), NEW node
  PROVE  Balanced(mapDeleteNode(rm, node))
<1>1. CASE ~KnowsNode(rm, node)
  BY <1>1 DEF mapDeleteNode
<1>2. CASE KnowsNode(rm, node)
  <2> DEFINE emptied == mapSub(rm, node, rm.perNode[node])
             after == mapDeleteNode(rm, node)
             S == DOMAIN rm.perNode
  <2>1. IsResourceMap(emptied, nodes) /\ Balanced(emptied)
    <3>1. IsResourceList(rm.perNode[node])
      BY <1>2 DEF KnowsNode, IsResourceMap
    <3> QED BY <3>1, SubKeepsMap, SubKeepsBalance
  <2>2. /\ DOMAIN emptied.perNode = S /\ node \in S
        /\ \A n \in S \ {node} : emptied.perNode[n] = rm.perNode[n]
        /\ emptied.perNode[node] =
             [r \in DOMAIN rm.perNode[node] |->
                rm.perNode[node][r] - Amount(rm.perNode[node], r)]
    BY <1>2 DEF mapSub, KnowsNode
  <2>3. /\ DOMAIN after.perNode = S \ {node}
        /\ \A n \in S \ {node} : after.perNode[n] = rm.perNode[n]
        /\ after.allNode = emptied.allNode
    BY <1>2 DEF mapDeleteNode
  <2> HIDE DEF emptied, after
  <2>4. IsFiniteSet(S) /\ IsFiniteSet(S \ {node})
    BY FS_RemoveElement DEF Balanced
  <2>5. \A n \in DOMAIN after.perNode :
          DOMAIN after.perNode[n] \subseteq DOMAIN after.allNode
    BY <2>1, <2>2, <2>3 DEF Balanced
  <2>6. ASSUME NEW r PROVE Amount(after.allNode, r) = SumFunction(Column(after, r))
    <3> DEFINE f == Column(emptied, r)
               e == Column(after, r)
    <3>1. /\ \A n \in S : f[n] \in Int
          /\ DOMAIN f = S /\ DOMAIN e = S \ {node}
      BY <2>1, <2>2, <2>3, ColumnIsInt DEF Column
    <3>2. \A n \in S \ {node} : e[n] = f[n]
      BY <2>2, <2>3 DEF Column
    <3>3. f[node] = 0
      <4>1. f[node] = Amount(emptied.perNode[node], r)
        BY <2>2 DEF Column
      <4>2. IsResourceList(rm.perNode[node])
        BY <2>2 DEF IsResourceMap
      <4> QED BY <4>1, <4>2, <2>2 DEF Amount, IsResourceList
    <3>4. Amount(emptied.allNode, r) = SumFunctionOnSet(f, S)
      BY <2>1, <3>1 DEF Balanced, SumFunction
    <3> HIDE DEF f, e
    <3>5. /\ SumFunctionOnSet(f, S) = f[node] + SumFunctionOnSet(f, S \ {node})
          /\ SumFunctionOnSet(f, S \ {node}) \in Int
      BY <2>2, <2>4, <3>1, SumTakesOut
    <3>6. SumFunctionOnSet(e, S \ {node}) = SumFunctionOnSet(f, S \ {node})
      BY <2>4, <3>2, SumDepends
    <3>7. SumFunctionOnSet(e, S \ {node}) = Amount(after.allNode, r)
      BY <2>3, <3>3, <3>4, <3>5, <3>6
    <3> QED BY <3>1, <3>7 DEF SumFunction, e
  <2> QED BY <2>3, <2>4, <2>5, <2>6 DEF Balanced, after
<1> QED BY <1>1, <1>2

----------------------------------------------------------------------------
(* What a ledger books for one node.                                       *)

\* A ledger holds of a node exactly the lists booked, one for each index,
\* and knows every resource in them.
HoldsExactly(rm, n, booked) ==
  /\ IsFiniteSet(DOMAIN booked)
  /\ \A k \in DOMAIN booked : /\ IsResourceList(booked[k])
                              /\ KnowsNode(rm, n)
                              /\ DOMAIN booked[k] \subseteq DOMAIN rm.perNode[n]
  /\ \A r : Held(rm, n, r) = SumFunction([k \in DOMAIN booked |-> Amount(booked[k], r)])

LEMMA HeldIsInt ==
  ASSUME NEW nodes, NEW rm, IsResourceMap(rm, nodes), NEW n, NEW r
  PROVE  Held(rm, n, r) \in Int
BY AmountIsInt DEF Held, KnowsNode, IsResourceMap

LEMMA NewHoldsNothing == ASSUME NEW n PROVE HoldsExactly(NewResourceMap, n, << >>)
<1>1. DOMAIN << >> = {} /\ IsFiniteSet({})
  BY FS_EmptySet
<1>2. \A r : Held(NewResourceMap, n, r) = 0
  BY DEF Held, KnowsNode, NewResourceMap
<1>3. \A r : SumFunction([k \in DOMAIN << >> |-> Amount(<< >>[k], r)]) = 0
  <2>1. \A r : DOMAIN [k \in DOMAIN << >> |-> Amount(<< >>[k], r)] = {}
    BY <1>1
  <2> QED BY <2>1, SumOfNone DEF SumFunction
<1> QED BY <1>1, <1>2, <1>3 DEF HoldsExactly

\* A booking is one more list ...
LEMMA AddBooks ==
  ASSUME NEW nodes, NEW rm, IsResourceMap(rm, nodes), NEW n,
         NEW booked, HoldsExactly(rm, n, booked),
         NEW k, k \notin DOMAIN booked, NEW list, IsResourceList(list),
         NEW more, DOMAIN more = DOMAIN booked \cup {k}, more[k] = list,
         \A j \in DOMAIN booked : more[j] = booked[j]
  PROVE  HoldsExactly(mapAdd(rm, n, list), n, more)
<1> DEFINE after == mapAdd(rm, n, list)
           S == DOMAIN booked
           held == IF KnowsNode(rm, n) THEN rm.perNode[n] ELSE NoResources
<1>1. KnowsNode(after, n) /\ after.perNode[n] = addResourceList(held, list)
  BY DEF mapAdd, KnowsNode
<1>2. DOMAIN after.perNode[n] = DOMAIN held \cup DOMAIN list
  BY <1>1 DEF addResourceList
<1>3. IsFiniteSet(S) /\ IsFiniteSet(DOMAIN more)
  BY FS_AddElement DEF HoldsExactly
<1>4. \A j \in DOMAIN more : /\ IsResourceList(more[j])
                             /\ DOMAIN more[j] \subseteq DOMAIN after.perNode[n]
  BY <1>2 DEF HoldsExactly
<1>5. ASSUME NEW r
      PROVE  Held(after, n, r) = SumFunction([j \in DOMAIN more |-> Amount(more[j], r)])
  <2> DEFINE f == [j \in S |-> Amount(booked[j], r)]
             e == [j \in DOMAIN more |-> Amount(more[j], r)]
  <2>1. /\ Held(rm, n, r) = SumFunctionOnSet(f, S) /\ Held(rm, n, r) \in Int
        /\ Amount(list, r) \in Int
    BY HeldIsInt, AmountIsInt DEF HoldsExactly, SumFunction
  <2>2. Held(after, n, r) = Held(rm, n, r) + Amount(list, r)
    <3>1. Held(rm, n, r) = Amount(held, r)
      BY DEF Held, Amount, NoResources
    <3> QED BY <3>1, <2>1, <1>1 DEF Held, addResourceList, Amount
  <2>3. /\ \A j \in S : f[j] \in Int /\ e[j] = f[j]
        /\ e[k] = Amount(list, r) /\ DOMAIN e = S \cup {k}
    BY AmountIsInt DEF HoldsExactly
  <2> HIDE DEF f, e
  <2>4. SumFunctionOnSet(e, S \cup {k}) = SumFunctionOnSet(f, S) + e[k]
    BY <2>1, <2>3, <1>3, SumPutsIn
  <2> QED BY <2>1, <2>2, <2>3, <2>4 DEF SumFunction, e
<1> QED BY <1>1, <1>3, <1>4, <1>5 DEF HoldsExactly, after

\* ... taking one of the lists off leaves the others ...
LEMMA SubBooks ==
  ASSUME NEW nodes, NEW rm, IsResourceMap(rm, nodes), NEW n,
         NEW booked, HoldsExactly(rm, n, booked), NEW k \in DOMAIN booked,
         NEW less, DOMAIN less = DOMAIN booked \ {k},
         \A j \in DOMAIN less : less[j] = booked[j]
  PROVE  HoldsExactly(mapSub(rm, n, booked[k]), n, less)
<1> DEFINE after == mapSub(rm, n, booked[k])
           S == DOMAIN booked
           held == rm.perNode[n]
<1>1. /\ KnowsNode(rm, n) /\ KnowsNode(after, n)
      /\ after.perNode[n] = [r \in DOMAIN held |-> held[r] - Amount(booked[k], r)]
      /\ DOMAIN booked[k] \subseteq DOMAIN held
      /\ IsResourceList(booked[k]) /\ IsResourceList(held)
  BY DEF mapSub, KnowsNode, HoldsExactly, IsResourceMap
<1>2. DOMAIN after.perNode[n] = DOMAIN held
  BY <1>1
<1>3. IsFiniteSet(S) /\ IsFiniteSet(DOMAIN less)
  BY FS_RemoveElement DEF HoldsExactly
<1>4. \A j \in DOMAIN less : /\ IsResourceList(less[j])
                             /\ DOMAIN less[j] \subseteq DOMAIN after.perNode[n]
  BY <1>2 DEF HoldsExactly
<1>5. ASSUME NEW r
      PROVE  Held(after, n, r) = SumFunction([j \in DOMAIN less |-> Amount(less[j], r)])
  <2> DEFINE f == [j \in S |-> Amount(booked[j], r)]
             e == [j \in DOMAIN less |-> Amount(less[j], r)]
  <2>1. /\ Held(rm, n, r) = SumFunctionOnSet(f, S) /\ Held(rm, n, r) \in Int
        /\ Amount(booked[k], r) \in Int /\ Amount(held, r) \in Int
    BY HeldIsInt, AmountIsInt, <1>1 DEF HoldsExactly, SumFunction
  <2>2. Held(after, n, r) = Held(rm, n, r) - Amount(booked[k], r)
    <3>1. Amount(after.perNode[n], r) = Amount(held, r) - Amount(booked[k], r)
      <4>1. CASE r \in DOMAIN held
        BY <4>1, <1>1, <1>2 DEF Amount
      <4>2. CASE r \notin DOMAIN held
        <5>1. r \notin DOMAIN booked[k]
          BY <4>2, <1>1
        <5> QED BY <4>2, <5>1, <1>2 DEF Amount
      <4> QED BY <4>1, <4>2
    <3> QED BY <3>1, <1>1 DEF Held
  <2>3. /\ \A j \in S : f[j] \in Int
        /\ \A j \in S \ {k} : e[j] = f[j]
        /\ f[k] = Amount(booked[k], r) /\ DOMAIN e = S \ {k}
    BY AmountIsInt DEF HoldsExactly
  <2> HIDE DEF f, e
  <2>4. /\ SumFunctionOnSet(f, S) = f[k] + SumFunctionOnSet(f, S \ {k})
        /\ SumFunctionOnSet(f, S \ {k}) \in Int
    BY <2>3, <1>3, SumTakesOut
  <2>5. SumFunctionOnSet(e, S \ {k}) = SumFunctionOnSet(f, S \ {k})
    BY <2>3, <1>3, SumDepends
  <2> QED BY <2>1, <2>2, <2>3, <2>4, <2>5 DEF SumFunction, e
<1> QED BY <1>1, <1>3, <1>4, <1>5 DEF HoldsExactly, after

\* ... and no other node is touched.
LEMMA OthersKeepBooks ==
  ASSUME NEW rm, NEW n, NEW booked, HoldsExactly(rm, n, booked),
         NEW after, KnowsNode(after, n) <=> KnowsNode(rm, n),
         KnowsNode(rm, n) => after.perNode[n] = rm.perNode[n]
  PROVE  HoldsExactly(after, n, booked)
BY DEF HoldsExactly, Held

LEMMA AddElsewhere ==
  ASSUME NEW rm, NEW n, NEW booked, HoldsExactly(rm, n, booked),
         NEW node, node # n, NEW list
  PROVE  HoldsExactly(mapAdd(rm, node, list), n, booked)
<1> DEFINE after == mapAdd(rm, node, list)
<1>1. /\ KnowsNode(after, n) <=> KnowsNode(rm, n)
      /\ KnowsNode(rm, n) => after.perNode[n] = rm.perNode[n]
  BY DEF mapAdd, KnowsNode
<1> QED BY <1>1, OthersKeepBooks

LEMMA SubElsewhere ==
  ASSUME NEW rm, NEW n, NEW booked, HoldsExactly(rm, n, booked),
         NEW node, node # n, NEW list
  PROVE  HoldsExactly(mapSub(rm, node, list), n, booked)
<1> DEFINE after == mapSub(rm, node, list)
<1>1. /\ KnowsNode(after, n) <=> KnowsNode(rm, n)
      /\ KnowsNode(rm, n) => after.perNode[n] = rm.perNode[n]
  BY DEF mapSub, KnowsNode
<1> QED BY <1>1, OthersKeepBooks
=============================================================================
