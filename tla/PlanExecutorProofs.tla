--------------------------- MODULE PlanExecutorProofs ---------------------------
(***************************************************************************)
(* Theorems about PlanExecutor, for every finite plan and every bound on   *)
(* the pool.                                                               *)
(*                                                                         *)
(* While layers are found, the nodes placed depend only on nodes placed,   *)
(* so none of them needs itself.  While the pool runs, what a layer holds  *)
(* depends on no node of its own or a later layer; hence a node taken has  *)
(* only ended nodes before it, and what those ended with is what they are  *)
(* meant to end with.                                                      *)
(***************************************************************************)
EXTENDS PlanExecutor, FiniteSetTheorems, WellFoundedInduction, TLAPS

\* No node is in two layers, and a layer's nodes depend on none of their own or
\* of a later layer.
LayersInOrder ==
    \A i, j \in 1..Len(layers) : i <= j =>
        /\ i # j => layers[i] \cap layers[j] = {}
        /\ \A n \in layers[i] : deps[n] \cap layers[j] = {}

\* The layers found so far are closed, and hold no cycle.
Planning ==
    pc = "layers" =>
        /\ \A n \in Nodes : n \in Placed <=> \E i \in 1..Len(layers) : n \in layers[i]
        /\ Closed(Placed)
        /\ \A n \in Placed : ~Needs(n, n)

BeforePool ==
    pc \in {"layers", "rejected"} =>
        /\ \A n \in Nodes : state[n] = "none"
        /\ todo = {}
        /\ ~aborted

Verdict ==
    /\ pc = "rejected" => ~Acyclic
    /\ pc \in {"pool", "done"} => Acyclic

\* The running layer is apart from those to come.
LayerApart == \A i \in 1..Len(layers) : todo \cap layers[i] = {}

\* What has been taken found all it depends on ended; what is in hand, succeeded.
Begun ==
    /\ pc \in {"pool", "done"} => \A n \in Nodes : state[n] # "none"
    /\ pc = "done" => \A n \in Nodes : state[n] \in Terminal
    /\ \A n \in todo, m \in Nodes : m \in deps[n] => state[m] \in Terminal
    /\ \A n, m \in Nodes : state[n] \in {"checking", "running", "succeeded"} /\ m \in deps[n]
                               => state[m] = "succeeded"

Before(n) == {m \in Nodes : Needs(n, m)}

Unblocked(n) == fate[n] # "missing" /\ \A m \in Nodes : Needs(n, m) => fate[m] = "ok"

\* What has ended did so as meant, and what is in hand may yet.
AsMeant ==
    \A n \in Nodes :
        /\ state[n] \in Terminal => state[n] = Meant(n) \/ (aborted /\ state[n] = "cancelled")
        /\ state[n] = "checking" => Unblocked(n)
        /\ state[n] = "running" => Unblocked(n) /\ fate[n] \in {"ok", "broken"}

InBounds == Cardinality(InHand) <= Concurrency

IInv ==
    /\ TypeOK
    /\ LayersInOrder
    /\ Planning
    /\ BeforePool
    /\ Verdict
    /\ LayerApart
    /\ Begun
    /\ AsMeant
    /\ InBounds

-----------------------------------------------------------------------------
(* A nonempty set of numbers has a least.                                  *)

LEMMA LeastOf ==
  ASSUME NEW S \in SUBSET Nat, S # {}
  PROVE  \E n \in S : \A m \in S : n <= m
<1> DEFINE R == OpToRel(<, Nat)
<1>1. IsWellFoundedOn(R, Nat)
  BY NatLessThanWellFounded
<1>2. \A x, y \in Nat : x < y => <<x, y>> \in R
  BY DEF OpToRel
<1> HIDE DEF R
<1>3. PICK n \in S : \A m \in S : ~ (<<m, n>> \in R)
  BY <1>1, WFMin
<1>4. ASSUME NEW m \in S PROVE n <= m
  <2>1. n \in Nat /\ m \in Nat
    OBVIOUS
  <2>2. ~(m < n)
    BY <1>2, <1>3, <2>1, Zenon
  <2> QED BY <2>1, <2>2
<1> QED BY <1>4

-----------------------------------------------------------------------------
(* What a plan needs.                                                      *)

Graph == deps \in [Nodes -> SUBSET Nodes]

LEMMA NeedsDirect ==
  ASSUME Graph, NEW n \in Nodes, NEW m \in deps[n]
  PROVE  m \in Nodes /\ Needs(n, m)
  BY DEF Graph, Needs

LEMMA NeedsWithin ==
  ASSUME NEW n, NEW m, NEW S \in SUBSET Nodes,
         deps[n] \subseteq S, Closed(S), Needs(n, m)
  PROVE  m \in S
  BY DEF Needs

LEMMA NeedsTransitive ==
  ASSUME NEW n, NEW m, NEW k, Needs(n, m), Needs(m, k)
  PROVE  Needs(n, k)
<1> SUFFICES ASSUME NEW S \in SUBSET Nodes, deps[n] \subseteq S, Closed(S)
             PROVE  k \in S
  BY DEF Needs
<1>1. m \in S
  BY DEF Needs
<1>2. deps[m] \subseteq S
  BY <1>1 DEF Closed
<1> QED BY <1>2 DEF Needs

\* What n needs, something it depends on is or needs.
LEMMA NeedsThrough ==
  ASSUME Graph, NEW n \in Nodes, NEW k \in Nodes, Needs(n, k)
  PROVE  k \in deps[n] \/ \E m \in deps[n] : Needs(m, k)
<1> DEFINE S == {j \in Nodes : j \in deps[n] \/ \E m \in deps[n] : Needs(m, j)}
<1>1. S \in SUBSET Nodes /\ deps[n] \subseteq S
  BY DEF Graph
<1>2. ASSUME NEW j \in S, NEW i \in deps[j]
      PROVE  i \in S
  <2>1. j \in Nodes /\ i \in Nodes /\ Needs(j, i)
    BY NeedsDirect DEF Graph
  <2>2. CASE j \in deps[n]
    BY <2>1, <2>2
  <2>3. CASE \E m \in deps[n] : Needs(m, j)
    BY <2>1, <2>3, NeedsTransitive
  <2> QED BY <2>2, <2>3
<1>3. Closed(S)
  BY <1>2 DEF Closed
<1>4. k \in S
  <2> HIDE DEF S
  <2> QED BY <1>1, <1>3, NeedsWithin
<1> QED BY <1>4

\* What closes over its dependencies holds all that its members need.
LEMMA NeedsOfClosed ==
  ASSUME NEW S \in SUBSET Nodes, Closed(S), NEW n \in S, NEW m, Needs(n, m)
  PROVE  m \in S
<1>1. deps[n] \subseteq S
  BY DEF Closed
<1> QED BY <1>1, NeedsWithin

\* Among nodes that each depend on one of them, some node needs itself: one of
\* those with the fewest needs.
LEMMA SomeCycle ==
  ASSUME Graph, NEW R \in SUBSET Nodes, R # {},
         \A n \in R : \E m \in R : m \in deps[n]
  PROVE  ~Acyclic
<1> DEFINE Sizes == {Cardinality(Before(n)) : n \in R}
<1>1. \A n \in Nodes : /\ Before(n) \in SUBSET Nodes
                       /\ IsFiniteSet(Before(n))
                       /\ Cardinality(Before(n)) \in Nat
  BY ConstantsAssumption, FS_Subset, FS_CardinalityType DEF Before
<1>2. Sizes \in SUBSET Nat /\ Sizes # {}
  BY <1>1
<1>3. PICK least \in Sizes : \A size \in Sizes : least <= size
  <2> HIDE DEF Sizes
  <2> QED BY <1>2, LeastOf
<1>4. PICK n \in R : \A k \in R : Cardinality(Before(n)) <= Cardinality(Before(k))
  BY <1>3
<1>5. PICK m \in R : m \in deps[n]
  OBVIOUS
<1>6. Needs(n, m)
  BY <1>5, NeedsDirect
<1>7. Before(m) \subseteq Before(n)
  BY <1>6, NeedsTransitive DEF Before
<1>8. Before(m) = Before(n)
  <2>1. Cardinality(Before(m)) <= Cardinality(Before(n))
    BY <1>1, <1>7, FS_Subset
  <2>2. Cardinality(Before(m)) = Cardinality(Before(n))
    BY <1>1, <1>4, <2>1
  <2> QED BY <1>1, <1>7, <2>2, FS_Subset
<1>9. m \in Before(m)
  BY <1>6, <1>8 DEF Before
<1> QED BY <1>9 DEF Before, Acyclic

\* A node is meant to succeed when it is well and so is all that it needs.
LEMMA MeantToSucceed ==
  ASSUME TypeOK, NEW n \in Nodes
  PROVE  Meant(n) = "succeeded" <=>
             fate[n] = "ok" /\ \A m \in Nodes : Needs(n, m) => fate[m] = "ok"
<1>1. fate[n] \in Fate
  BY DEF TypeOK
<1> QED BY <1>1 DEF Meant, Fate

LEMMA NeedsAreWell ==
  ASSUME TypeOK, NEW n \in Nodes
  PROVE  (\A m \in deps[n] : Meant(m) = "succeeded") <=>
             \A m \in Nodes : Needs(n, m) => fate[m] = "ok"
<1>1. Graph /\ deps[n] \subseteq Nodes
  BY DEF TypeOK, Graph
<1>2. ASSUME \A m \in deps[n] : Meant(m) = "succeeded", NEW k \in Nodes, Needs(n, k)
      PROVE  fate[k] = "ok"
  <2>1. CASE k \in deps[n]
    BY <1>2, <2>1, MeantToSucceed
  <2>2. ASSUME NEW m \in deps[n], Needs(m, k) PROVE fate[k] = "ok"
    BY <1>1, <1>2, <2>2, MeantToSucceed
  <2> QED BY <1>1, <1>2, <2>1, <2>2, NeedsThrough
<1>3. ASSUME \A m \in Nodes : Needs(n, m) => fate[m] = "ok", NEW m \in deps[n]
      PROVE  Meant(m) = "succeeded"
  <2>1. m \in Nodes /\ Needs(n, m)
    BY <1>1, NeedsDirect
  <2>2. fate[m] = "ok"
    BY <1>3, <2>1
  <2>3. ASSUME NEW k \in Nodes, Needs(m, k) PROVE fate[k] = "ok"
    <3>1. Needs(n, k)
      BY <2>1, <2>3, NeedsTransitive
    <3> QED BY <1>3, <3>1
  <2> QED BY <2>1, <2>2, <2>3, MeantToSucceed
<1> QED BY <1>2, <1>3

-----------------------------------------------------------------------------
(* Steps.                                                                  *)

LEMMA SameReference ==
  ASSUME deps' = deps, fate' = fate
  PROVE  /\ \A n, m : Needs(n, m)' <=> Needs(n, m)
         /\ \A n : Meant(n)' = Meant(n)
         /\ \A n : Unblocked(n)' <=> Unblocked(n)
         /\ Acyclic' <=> Acyclic
<1>1. \A n, m : Needs(n, m)' <=> Needs(n, m)
  BY DEF Needs, Closed
<1>2. ASSUME NEW n PROVE Meant(n)' = Meant(n)
  <2>1. \A m : Needs(n, m)' <=> Needs(n, m)
    BY <1>1
  <2> QED BY <2>1 DEF Meant
<1>3. ASSUME NEW n PROVE Unblocked(n)' <=> Unblocked(n)
  BY <1>1 DEF Unblocked
<1> QED BY <1>1, <1>2, <1>3 DEF Acyclic

LEMMA InitHolds ==
  ASSUME Init
  PROVE  IInv
<1>1. InHand = {}
  BY DEF Init, InHand
<1>2. Placed = {}
  BY DEF Init, Placed
<1>3. TypeOK
  <2>1. layers \in Seq(SUBSET Nodes)
    BY DEF Init
  <2>2. state \in [Nodes -> Status]
    BY DEF Init, Status
  <2> QED BY <2>1, <2>2 DEF Init, TypeOK
<1>4. LayersInOrder /\ LayerApart
  BY DEF Init, LayersInOrder, LayerApart
<1>5. Planning
  BY <1>2 DEF Init, Planning, Closed
<1>6. BeforePool /\ Verdict
  BY DEF Init, BeforePool, Verdict
<1>7. Begun /\ AsMeant
  BY DEF Init, Begun, AsMeant, Terminal
<1>8. InBounds
  BY <1>1, ConstantsAssumption, FS_EmptySet DEF InBounds
<1> QED BY <1>3, <1>4, <1>5, <1>6, <1>7, <1>8 DEF IInv

LEMMA PlanLayerKeeps ==
  ASSUME IInv, PlanLayer
  PROVE  IInv'
<1> DEFINE layer == {n \in remaining : deps[n] \subseteq Placed}
<1>1. /\ pc = "layers" /\ UNCHANGED <<deps, fate, pc, todo, state, aborted>>
      /\ layers' = Append(layers, layer) /\ remaining' = remaining \ layer
  BY DEF PlanLayer
<1>2. /\ TypeOK /\ Graph /\ remaining \subseteq Nodes /\ layers \in Seq(SUBSET Nodes)
      /\ Planning /\ BeforePool
  BY DEF IInv, TypeOK, Graph
<1>3. /\ layer \subseteq Nodes /\ layer \cap Placed = {} /\ Placed \subseteq Nodes
      /\ Placed' = Placed \cup layer
      /\ \A n \in layer : deps[n] \subseteq Placed
  BY <1>1, <1>2 DEF Placed
<1> HIDE DEF layer
<1>4. /\ Len(layers) \in Nat /\ Len(layers') = Len(layers) + 1
      /\ \A i \in 1..Len(layers) : layers'[i] = layers[i] /\ layers[i] \subseteq Nodes
      /\ layers'[Len(layers) + 1] = layer
      /\ layers' \in Seq(SUBSET Nodes)
  BY <1>1, <1>2, <1>3
<1>5. \A i \in 1..Len(layers) : layers[i] \subseteq Placed
  BY <1>1, <1>2, <1>4 DEF Planning
<1>6. Closed(Placed) /\ \A n \in Placed : ~Needs(n, n)
  BY <1>1, <1>2 DEF Planning
<1>7. TypeOK'
  BY <1>1, <1>2, <1>3, <1>4 DEF TypeOK
<1>8. LayersInOrder'
  <2> SUFFICES ASSUME NEW i \in 1..Len(layers'), NEW j \in 1..Len(layers'), i <= j
               PROVE  /\ i # j => layers'[i] \cap layers'[j] = {}
                      /\ \A n \in layers'[i] : deps[n] \cap layers'[j] = {}
    BY <1>1 DEF LayersInOrder
  <2>1. CASE j \in 1..Len(layers)
    BY <1>4, <2>1 DEF IInv, LayersInOrder
  <2>2. CASE i \in 1..Len(layers) /\ j = Len(layers) + 1
    <3>1. \A n \in layers[i] : deps[n] \subseteq Placed
      BY <1>5, <1>6, <2>2 DEF Closed
    <3> QED BY <1>3, <1>4, <1>5, <2>2, <3>1
  <2>3. CASE i = Len(layers) + 1 /\ j = Len(layers) + 1
    BY <1>3, <1>4, <2>3
  <2> QED BY <1>4, <2>1, <2>2, <2>3
<1>9. Planning'
  <2>1. \A n \in Nodes : n \in Placed' <=> \E i \in 1..Len(layers') : n \in layers'[i]
    <3>1. \A n \in Nodes : n \in Placed <=> \E i \in 1..Len(layers) : n \in layers[i]
      BY <1>1, <1>2 DEF Planning
    <3>2. ASSUME NEW n \in layer PROVE \E i \in 1..Len(layers') : n \in layers'[i]
      BY <1>4
    <3>3. ASSUME NEW n \in Nodes, NEW i \in 1..Len(layers), n \in layers[i]
          PROVE  \E k \in 1..Len(layers') : n \in layers'[k]
      BY <1>4, <3>3
    <3>4. ASSUME NEW n \in Nodes, NEW i \in 1..Len(layers'), n \in layers'[i]
          PROVE  n \in Placed'
      <4>1. CASE i \in 1..Len(layers)
        BY <1>3, <1>4, <1>5, <3>4, <4>1
      <4>2. CASE i = Len(layers) + 1
        BY <1>3, <1>4, <3>4, <4>2
      <4> QED BY <1>4, <4>1, <4>2
    <3> QED BY <1>3, <3>1, <3>2, <3>3, <3>4
  <2>2. Closed(Placed')
    BY <1>3, <1>6 DEF Closed
  <2>3. ASSUME NEW n \in Placed' PROVE ~Needs(n, n)
    <3>1. CASE n \in Placed
      BY <1>6, <3>1
    <3>2. CASE n \in layer
      BY <1>3, <1>6, <3>2, NeedsWithin
    <3> QED BY <1>3, <3>1, <3>2
  <2>4. Closed(Placed)' <=> Closed(Placed')
    BY <1>1 DEF Closed
  <2>5. \A n : Needs(n, n)' <=> Needs(n, n)
    BY <1>1, SameReference
  <2> QED BY <2>1, <2>2, <2>3, <2>4, <2>5 DEF Planning
<1>10. BeforePool'
  BY <1>1, <1>2 DEF BeforePool
<1>11. Verdict'
  BY <1>1 DEF Verdict
<1>12. LayerApart'
  BY <1>1, <1>2 DEF BeforePool, LayerApart
<1>13. Begun'
  BY <1>1 DEF IInv, Begun
<1>14. AsMeant'
  BY <1>1, SameReference DEF IInv, AsMeant
<1>15. InBounds'
  BY <1>1 DEF IInv, InBounds, InHand
<1> QED BY <1>7, <1>8, <1>9, <1>10, <1>11, <1>12, <1>13, <1>14, <1>15 DEF IInv

LEMMA RejectKeeps ==
  ASSUME IInv, Reject
  PROVE  IInv'
<1>1. /\ pc = "layers" /\ pc' = "rejected"
      /\ UNCHANGED <<deps, fate, remaining, layers, todo, state, aborted>>
  BY DEF Reject
<1>2. TypeOK /\ Graph /\ remaining \subseteq Nodes /\ Planning
  BY DEF IInv, TypeOK, Graph
<1>3. ~Acyclic
  <2>1. CASE \E n \in Nodes : n \in deps[n]
    BY <1>2, <2>1, NeedsDirect DEF Acyclic
  <2>2. CASE remaining # {} /\ \A n \in remaining : ~(deps[n] \subseteq Placed)
    <3>1. \A n \in remaining : \E m \in remaining : m \in deps[n]
      BY <1>2, <2>2 DEF Graph, Placed
    <3> QED BY <1>2, <2>2, <3>1, SomeCycle
  <2> QED BY <2>1, <2>2 DEF Reject
<1>4. TypeOK'
  BY <1>1, <1>2 DEF TypeOK
<1>5. LayersInOrder' /\ LayerApart'
  BY <1>1 DEF IInv, LayersInOrder, LayerApart
<1>6. Planning' /\ BeforePool'
  BY <1>1 DEF IInv, Planning, BeforePool
<1>7. Verdict'
  BY <1>1, <1>3, SameReference DEF Verdict
<1>8. Begun'
  BY <1>1 DEF IInv, Begun
<1>9. AsMeant'
  BY <1>1, SameReference DEF IInv, AsMeant
<1>10. InBounds'
  BY <1>1 DEF IInv, InBounds, InHand
<1> QED BY <1>4, <1>5, <1>6, <1>7, <1>8, <1>9, <1>10 DEF IInv

LEMMA QueueKeeps ==
  ASSUME IInv, Queue
  PROVE  IInv'
<1>1. /\ pc = "layers" /\ pc' = "pool" /\ remaining = {}
      /\ UNCHANGED <<deps, fate, remaining, layers, todo, aborted>>
      /\ state' = [n \in Nodes |-> "queued"]
  BY DEF Queue
<1>2. TypeOK /\ Planning /\ BeforePool /\ Placed = Nodes
  BY <1>1 DEF IInv, Placed
<1>3. Acyclic
  BY <1>1, <1>2 DEF Planning, Acyclic
<1>4. \A n \in Nodes : \E i \in 1..Len(layers) : n \in layers[i]
  BY <1>1, <1>2 DEF Planning
<1>5. todo = {} /\ \A n \in Nodes : state'[n] = "queued"
  BY <1>1, <1>2 DEF BeforePool
<1>6. TypeOK'
  <2>1. state' \in [Nodes -> Status]
    BY <1>1 DEF Status
  <2> QED BY <1>1, <1>2, <1>4, <1>5, <2>1 DEF TypeOK
<1>7. LayersInOrder' /\ LayerApart'
  BY <1>1 DEF IInv, LayersInOrder, LayerApart
<1>8. Planning' /\ BeforePool'
  BY <1>1 DEF Planning, BeforePool
<1>9. Verdict'
  BY <1>1, <1>3, SameReference DEF Verdict
<1>10. Begun'
  BY <1>1, <1>5 DEF Begun
<1>11. AsMeant'
  BY <1>1, <1>5 DEF AsMeant, Terminal
<1>12. InBounds'
  <2>1. InHand' = {}
    BY <1>5 DEF InHand
  <2> QED BY <2>1, ConstantsAssumption, FS_EmptySet DEF InBounds
<1> QED BY <1>6, <1>7, <1>8, <1>9, <1>10, <1>11, <1>12 DEF IInv

LEMMA NextLayerKeeps ==
  ASSUME IInv, NextLayer
  PROVE  IInv'
<1>1. /\ pc = "pool" /\ todo = {} /\ InHand = {} /\ layers # <<>>
      /\ todo' = Head(layers) /\ layers' = Tail(layers)
      /\ UNCHANGED <<deps, fate, pc, remaining, state, aborted>>
  BY DEF NextLayer, LayerIsOver
<1>2. TypeOK /\ Graph /\ layers \in Seq(SUBSET Nodes) /\ LayersInOrder /\ Begun
  BY DEF IInv, TypeOK, Graph
<1>3. /\ Len(layers) \in Nat /\ Len(layers) >= 1 /\ Len(layers') = Len(layers) - 1
      /\ \A i \in 1..Len(layers') : layers'[i] = layers[i + 1] /\ i + 1 \in 1..Len(layers)
      /\ todo' = layers[1] /\ layers[1] \subseteq Nodes
      /\ layers' \in Seq(SUBSET Nodes)
  BY <1>1, <1>2
<1>4. \A i \in 1..Len(layers) : i = 1 \/ (i - 1 \in 1..Len(layers') /\ layers[i] = layers'[i - 1])
  BY <1>3
<1>5. \A n \in Nodes : n \in todo' \/ (\E i \in 1..Len(layers') : n \in layers'[i]) <=>
                       \E i \in 1..Len(layers) : n \in layers[i]
  <2> SUFFICES ASSUME NEW n \in Nodes
               PROVE  n \in todo' \/ (\E i \in 1..Len(layers') : n \in layers'[i]) <=>
                      \E i \in 1..Len(layers) : n \in layers[i]
    OBVIOUS
  <2>1. ASSUME n \in todo' PROVE \E i \in 1..Len(layers) : n \in layers[i]
    BY <1>3, <2>1
  <2>2. ASSUME NEW i \in 1..Len(layers'), n \in layers'[i]
        PROVE  \E k \in 1..Len(layers) : n \in layers[k]
    BY <1>3, <2>2
  <2>3. ASSUME NEW i \in 1..Len(layers), n \in layers[i]
        PROVE  n \in todo' \/ \E k \in 1..Len(layers') : n \in layers'[k]
    BY <1>3, <1>4, <2>3
  <2> QED BY <2>1, <2>2, <2>3
<1>6. TypeOK'
  BY <1>1, <1>2, <1>3, <1>5 DEF TypeOK
<1>7. LayersInOrder'
  <2> SUFFICES ASSUME NEW i \in 1..Len(layers'), NEW j \in 1..Len(layers'), i <= j
               PROVE  /\ i # j => layers'[i] \cap layers'[j] = {}
                      /\ \A n \in layers'[i] : deps[n] \cap layers'[j] = {}
    BY <1>1 DEF LayersInOrder
  <2>1. i + 1 \in 1..Len(layers) /\ j + 1 \in 1..Len(layers) /\ i + 1 <= j + 1
    BY <1>3
  <2>2. layers'[i] = layers[i + 1] /\ layers'[j] = layers[j + 1]
    BY <1>3
  <2>3. i # j => i + 1 # j + 1
    OBVIOUS
  <2> QED BY <1>2, <2>1, <2>2, <2>3 DEF LayersInOrder
<1>8. Planning' /\ BeforePool'
  BY <1>1 DEF Planning, BeforePool
<1>9. Verdict'
  BY <1>1, SameReference DEF IInv, Verdict
<1>10. LayerApart'
  <2> SUFFICES ASSUME NEW i \in 1..Len(layers') PROVE todo' \cap layers'[i] = {}
    BY DEF LayerApart
  <2>1. 1 \in 1..Len(layers) /\ i + 1 \in 1..Len(layers) /\ 1 <= i + 1 /\ 1 # i + 1
    BY <1>3
  <2> QED BY <1>2, <1>3, <2>1 DEF LayersInOrder
<1>11. Begun'
  <2>1. ASSUME NEW n \in todo', NEW m \in Nodes, m \in deps[n]
        PROVE  state[m] \in Terminal
    <3>1. ASSUME NEW i \in 1..Len(layers) PROVE m \notin layers[i]
      <4>1. 1 \in 1..Len(layers) /\ 1 <= i
        BY <1>3
      <4> QED BY <1>2, <1>3, <2>1, <4>1 DEF LayersInOrder
    <3>2. state[m] # "queued"
      BY <1>1, <1>2, <3>1 DEF TypeOK
    <3>3. state[m] \in Status /\ state[m] # "none"
      BY <1>1, <1>2 DEF TypeOK, Begun
    <3>4. state[m] \notin {"checking", "running"}
      BY <1>1 DEF InHand
    <3> QED BY <3>2, <3>3, <3>4 DEF Status
  <2> QED BY <1>1, <1>2, <2>1 DEF Begun
<1>12. AsMeant'
  BY <1>1, SameReference DEF IInv, AsMeant
<1>13. InBounds'
  BY <1>1 DEF IInv, InBounds, InHand
<1> QED BY <1>6, <1>7, <1>8, <1>9, <1>10, <1>11, <1>12, <1>13 DEF IInv

\* A node is told its next state, and what the invariant asks of that state holds.
LEMMA ToldKeeps ==
  ASSUME IInv, pc = "pool", NEW n \in Nodes,
         NEW status \in {"checking", "running"} \cup Terminal,
         state' = [state EXCEPT ![n] = status],
         todo' = todo \ {n},
         UNCHANGED <<deps, fate, pc, remaining, layers, aborted>>,
         \A i \in 1..Len(layers) : n \notin layers[i],
         state[n] \notin Terminal,
         \A m \in deps[n] : state[m] \in Terminal,
         status \in {"checking", "running", "succeeded"} =>
             \A m \in deps[n] : state[m] = "succeeded",
         status \in Terminal => status = Meant(n) \/ (aborted /\ status = "cancelled"),
         status = "checking" => Unblocked(n),
         status = "running" => Unblocked(n) /\ fate[n] \in {"ok", "broken"},
         Cardinality(InHand') <= Concurrency
  PROVE  IInv'
<1>1. TypeOK /\ LayersInOrder /\ LayerApart /\ Begun /\ AsMeant /\ Verdict
  BY DEF IInv
<1>2. /\ state' \in [Nodes -> Status]
      /\ \A k \in Nodes : state'[k] = IF k = n THEN status ELSE state[k]
  BY <1>1 DEF TypeOK, Status
<1>3. status \notin {"none", "queued"}
  BY DEF Terminal
<1>4. TypeOK'
  <2>1. \A k \in Nodes : state'[k] = "queued" <=>
            k \in todo' \/ \E i \in 1..Len(layers) : k \in layers[i]
    BY <1>1, <1>2, <1>3 DEF TypeOK
  <2>2. todo' \subseteq Nodes
    BY <1>1 DEF TypeOK
  <2> QED BY <1>1, <1>2, <2>1, <2>2 DEF TypeOK
<1>5. LayersInOrder' /\ LayerApart'
  BY <1>1 DEF LayersInOrder, LayerApart
<1>6. Planning' /\ BeforePool'
  BY DEF Planning, BeforePool
<1>7. Verdict'
  BY <1>1, SameReference DEF Verdict
<1>8. Begun'
  <2>1. \A k \in Nodes : state'[k] # "none"
    BY <1>1, <1>2, <1>3 DEF Begun
  <2>2. ASSUME NEW k \in todo', NEW m \in Nodes, m \in deps[k]
        PROVE  state'[m] \in Terminal
    BY <1>1, <1>2, <2>2 DEF Begun
  <2>3. ASSUME NEW k \in Nodes, NEW m \in Nodes, m \in deps[k],
               state'[k] \in {"checking", "running", "succeeded"}
        PROVE  state'[m] = "succeeded"
    <3>1. CASE k = n
      BY <1>2, <2>3, <3>1 DEF Terminal
    <3>2. CASE k # n
      BY <1>1, <1>2, <2>3, <3>2 DEF Begun, Terminal
    <3> QED BY <3>1, <3>2
  <2> QED BY <2>1, <2>2, <2>3 DEF Begun
<1>9. AsMeant'
  <2> SUFFICES ASSUME NEW k \in Nodes
               PROVE  /\ state'[k] \in Terminal =>
                             state'[k] = Meant(k) \/ (aborted /\ state'[k] = "cancelled")
                      /\ state'[k] = "checking" => Unblocked(k)
                      /\ state'[k] = "running" => Unblocked(k) /\ fate[k] \in {"ok", "broken"}
    BY SameReference DEF AsMeant
  <2>1. CASE k = n
    BY <1>2, <2>1
  <2>2. CASE k # n
    BY <1>1, <1>2, <2>2 DEF AsMeant
  <2> QED BY <2>1, <2>2
<1>10. InBounds'
  BY DEF InBounds
<1> QED BY <1>4, <1>5, <1>6, <1>7, <1>8, <1>9, <1>10 DEF IInv

\* What is in hand is finite; one node more, and not one less.
LEMMA HandGrowsByOne ==
  ASSUME TypeOK, NEW n \in Nodes, NEW status,
         state' = [state EXCEPT ![n] = status]
  PROVE  /\ Cardinality(InHand) \in Nat /\ Cardinality(InHand') \in Nat
         /\ Cardinality(InHand') <= Cardinality(InHand) + 1
         /\ status \notin {"checking", "running"} \/ n \in InHand =>
                Cardinality(InHand') <= Cardinality(InHand)
<1>1. IsFiniteSet(InHand) /\ IsFiniteSet(InHand')
  <2>1. InHand \in SUBSET Nodes /\ InHand' \in SUBSET Nodes
    BY DEF InHand
  <2> QED BY <2>1, ConstantsAssumption, FS_Subset
<1>2. Cardinality(InHand) \in Nat /\ Cardinality(InHand') \in Nat
  BY <1>1, FS_CardinalityType
<1>3. InHand' \in SUBSET (InHand \cup {n})
  BY DEF InHand, TypeOK
<1>4. /\ IsFiniteSet(InHand \cup {n})
      /\ Cardinality(InHand \cup {n}) <= Cardinality(InHand) + 1
      /\ Cardinality(InHand \cup {n}) \in Nat
  <2>1. /\ IsFiniteSet(InHand \cup {n})
        /\ Cardinality(InHand \cup {n}) =
               IF n \in InHand THEN Cardinality(InHand) ELSE Cardinality(InHand) + 1
    BY <1>1, FS_AddElement
  <2> QED BY <1>2, <2>1
<1>5. Cardinality(InHand') <= Cardinality(InHand \cup {n})
  BY <1>3, <1>4, FS_Subset
<1>6. ASSUME status \notin {"checking", "running"} \/ n \in InHand
      PROVE  Cardinality(InHand') <= Cardinality(InHand)
  <2>1. InHand' \in SUBSET InHand
    BY <1>6 DEF InHand, TypeOK
  <2> QED BY <1>1, <2>1, FS_Subset
<1> QED BY <1>2, <1>4, <1>5, <1>6

\* With nothing aborted, a node whose dependencies ended is blocked exactly when
\* something it needs is not well.
LEMMA BlockedAsMeant ==
  ASSUME IInv, NEW n \in Nodes, ~aborted, \A m \in deps[n] : state[m] \in Terminal
  PROVE  Blocked(n) <=> \E m \in Nodes : Needs(n, m) /\ fate[m] # "ok"
<1>1. TypeOK /\ deps[n] \subseteq Nodes
  BY DEF IInv, TypeOK
<1>2. \A m \in deps[n] : state[m] = Meant(m)
  BY <1>1 DEF IInv, AsMeant
<1> QED BY <1>1, <1>2, NeedsAreWell DEF Blocked

LEMMA TakeKeeps ==
  ASSUME IInv, NEW n \in Nodes, Take(n)
  PROVE  IInv'
<1> DEFINE status == IF aborted THEN "cancelled"
                     ELSE IF fate[n] = "missing" THEN "failed"
                     ELSE IF Blocked(n) THEN "skipped"
                     ELSE "checking"
<1>1. /\ pc = "pool" /\ n \in todo /\ todo' = todo \ {n}
      /\ Cardinality(InHand) < Concurrency
      /\ state' = [state EXCEPT ![n] = status]
      /\ UNCHANGED <<deps, fate, pc, remaining, layers, aborted>>
  BY DEF Take, Tell
<1>2. TypeOK /\ deps[n] \subseteq Nodes
  BY DEF IInv, TypeOK
<1>3. state[n] \notin Terminal
  BY <1>1, <1>2 DEF TypeOK, Terminal
<1>4. \A m \in deps[n] : state[m] \in Terminal
  BY <1>1, <1>2 DEF IInv, Begun
<1>5. \A i \in 1..Len(layers) : n \notin layers[i]
  BY <1>1 DEF IInv, LayerApart
<1>6. status = "checking" => /\ \A m \in deps[n] : state[m] = "succeeded"
                             /\ Unblocked(n)
  <2> SUFFICES ASSUME ~aborted, fate[n] # "missing", ~Blocked(n)
               PROVE  (\A m \in deps[n] : state[m] = "succeeded") /\ Unblocked(n)
    OBVIOUS
  <2> QED BY <1>4, BlockedAsMeant DEF Blocked, Unblocked
<1>7. status = Meant(n) \/ (aborted /\ status = "cancelled") \/ status = "checking"
  <2>1. CASE aborted
    BY <2>1
  <2>2. CASE ~aborted /\ fate[n] = "missing"
    BY <2>2 DEF Meant
  <2>3. CASE ~aborted /\ fate[n] # "missing" /\ Blocked(n)
    <3>1. \E m \in Nodes : Needs(n, m) /\ fate[m] # "ok"
      BY <1>4, <2>3, BlockedAsMeant
    <3> QED BY <2>3, <3>1 DEF Meant
  <2>4. CASE ~aborted /\ fate[n] # "missing" /\ ~Blocked(n)
    BY <2>4
  <2> QED BY <2>1, <2>2, <2>3, <2>4
<1>8. status \in {"checking"} \cup {"cancelled", "failed", "skipped"}
  OBVIOUS
<1> HIDE DEF status
<1>9. Cardinality(InHand') <= Concurrency
  <2>1. /\ Cardinality(InHand) \in Nat /\ Cardinality(InHand') \in Nat
        /\ Cardinality(InHand') <= Cardinality(InHand) + 1
    BY <1>1, <1>2, HandGrowsByOne
  <2> QED BY <1>1, <2>1, ConstantsAssumption
<1>10. /\ status \in {"checking", "running"} \cup Terminal
       /\ status \in {"checking", "running", "succeeded"} => status = "checking"
       /\ status \in Terminal => status # "checking"
  BY <1>8 DEF Terminal
<1> QED BY <1>1, <1>3, <1>4, <1>5, <1>6, <1>7, <1>9, <1>10, ToldKeeps

\* A node in hand is in no layer any more, and what it depends on has succeeded.
LEMMA InHandFacts ==
  ASSUME IInv, NEW n \in Nodes, pc = "pool", state[n] \in {"checking", "running"}
  PROVE  /\ n \in InHand /\ state[n] \notin Terminal
         /\ n \notin todo /\ \A i \in 1..Len(layers) : n \notin layers[i]
         /\ \A m \in deps[n] : state[m] = "succeeded" /\ state[m] \in Terminal
         /\ Unblocked(n)
<1>1. TypeOK /\ Begun /\ AsMeant /\ deps[n] \subseteq Nodes
  BY DEF IInv, TypeOK
<1>2. state[n] # "queued" /\ state[n] \notin Terminal
  BY DEF Terminal
<1>3. \A m \in deps[n] : state[m] = "succeeded" /\ state[m] \in Terminal
  BY <1>1 DEF Begun, Terminal
<1>4. n \notin todo /\ \A i \in 1..Len(layers) : n \notin layers[i]
  BY <1>1, <1>2 DEF TypeOK
<1>5. Unblocked(n)
  BY <1>1 DEF AsMeant
<1> QED BY <1>2, <1>3, <1>4, <1>5 DEF InHand

LEMMA CheckedKeeps ==
  ASSUME IInv, NEW n \in Nodes, Checked(n)
  PROVE  IInv'
<1> DEFINE status == IF fate[n] = "unavailable" THEN "skipped"
                     ELSE IF fate[n] = "invalid" THEN "failed"
                     ELSE "running"
<1>1. /\ pc = "pool" /\ state[n] = "checking"
      /\ state' = [state EXCEPT ![n] = status]
      /\ UNCHANGED <<deps, fate, pc, remaining, layers, todo, aborted>>
  BY DEF Checked, Tell
<1>2. TypeOK /\ fate[n] \in Fate /\ todo \subseteq Nodes
  BY DEF IInv, TypeOK
<1>3. /\ n \in InHand /\ state[n] \notin Terminal
      /\ n \notin todo /\ \A i \in 1..Len(layers) : n \notin layers[i]
      /\ \A m \in deps[n] : state[m] = "succeeded" /\ state[m] \in Terminal
      /\ Unblocked(n)
  BY <1>1, InHandFacts
<1>4. status \in {"skipped", "failed"} => status = Meant(n)
  BY <1>3 DEF Unblocked, Meant
<1>5. status = "running" => fate[n] \in {"ok", "broken"}
  BY <1>2, <1>3 DEF Unblocked, Fate
<1>6. status \in {"skipped", "failed", "running"}
  OBVIOUS
<1> HIDE DEF status
<1>7. Cardinality(InHand') <= Concurrency
  <2>1. /\ Cardinality(InHand) \in Nat /\ Cardinality(InHand') \in Nat
        /\ Cardinality(InHand') <= Cardinality(InHand)
    BY <1>1, <1>2, <1>3, HandGrowsByOne
  <2> QED BY <2>1, ConstantsAssumption DEF IInv, InBounds
<1>8. /\ status \in {"checking", "running"} \cup Terminal
      /\ status # "checking"
      /\ status \in Terminal => status \in {"skipped", "failed"}
      /\ todo' = todo \ {n}
  BY <1>1, <1>3, <1>6 DEF Terminal
<1> QED BY <1>1, <1>3, <1>4, <1>5, <1>7, <1>8, ToldKeeps

LEMMA ReturnsKeeps ==
  ASSUME IInv, NEW n \in Nodes, Returns(n)
  PROVE  IInv'
<1> DEFINE status == IF aborted THEN "cancelled"
                     ELSE IF fate[n] = "ok" THEN "succeeded"
                     ELSE "failed"
<1>1. /\ pc = "pool" /\ state[n] = "running"
      /\ state' = [state EXCEPT ![n] = status]
      /\ UNCHANGED <<deps, fate, pc, remaining, layers, todo, aborted>>
  BY DEF Returns, Tell
<1>2. TypeOK /\ fate[n] \in {"ok", "broken"}
  BY <1>1 DEF IInv, AsMeant
<1>3. /\ n \in InHand /\ state[n] \notin Terminal
      /\ n \notin todo /\ \A i \in 1..Len(layers) : n \notin layers[i]
      /\ \A m \in deps[n] : state[m] = "succeeded" /\ state[m] \in Terminal
      /\ Unblocked(n)
  BY <1>1, InHandFacts
<1>4. status = Meant(n) \/ (aborted /\ status = "cancelled")
  BY <1>2, <1>3 DEF Unblocked, Meant
<1>5. status \in {"cancelled", "succeeded", "failed"}
  OBVIOUS
<1> HIDE DEF status
<1>6. Cardinality(InHand') <= Concurrency
  <2>1. /\ Cardinality(InHand) \in Nat /\ Cardinality(InHand') \in Nat
        /\ Cardinality(InHand') <= Cardinality(InHand)
    BY <1>1, <1>2, <1>3, HandGrowsByOne
  <2> QED BY <2>1, ConstantsAssumption DEF IInv, InBounds
<1>7. status \in Terminal /\ status \notin {"checking", "running"} /\ todo' = todo \ {n}
  BY <1>1, <1>3, <1>5 DEF Terminal
<1> QED BY <1>1, <1>3, <1>4, <1>6, <1>7, ToldKeeps

LEMMA FinishKeeps ==
  ASSUME IInv, Finish
  PROVE  IInv'
<1>1. /\ pc = "pool" /\ pc' = "done" /\ todo = {} /\ InHand = {}
      /\ layers = <<>> \/ aborted
      /\ state' = [n \in Nodes |-> IF state[n] \in Terminal THEN state[n] ELSE "cancelled"]
      /\ UNCHANGED <<deps, fate, remaining, layers, todo, aborted>>
  BY DEF Finish, LayerIsOver
<1>2. TypeOK /\ LayersInOrder /\ LayerApart /\ Verdict /\ Begun /\ AsMeant
  BY DEF IInv
<1>3. /\ state' \in [Nodes -> Status]
      /\ \A n \in Nodes : /\ state'[n] \in Terminal
                          /\ state[n] \in Terminal => state'[n] = state[n]
                          /\ state[n] \notin Terminal => state'[n] = "cancelled"
  BY <1>1, <1>2 DEF TypeOK, Status, Terminal
<1>4. ASSUME NEW n \in Nodes, state[n] \notin Terminal
      PROVE  aborted
  <2>1. state[n] \in Status /\ state[n] # "none" /\ state[n] \notin {"checking", "running"}
    BY <1>1, <1>2 DEF TypeOK, Begun, InHand
  <2>2. state[n] = "queued"
    BY <1>4, <2>1 DEF Status
  <2>3. layers # <<>>
    BY <1>1, <1>2, <2>2 DEF TypeOK
  <2> QED BY <1>1, <2>3
<1>5. TypeOK'
  BY <1>1, <1>2, <1>3 DEF TypeOK
<1>6. LayersInOrder' /\ LayerApart'
  BY <1>1, <1>2 DEF LayersInOrder, LayerApart
<1>7. Planning' /\ BeforePool'
  BY <1>1 DEF Planning, BeforePool
<1>8. Verdict'
  BY <1>1, <1>2, SameReference DEF Verdict
<1>9. Begun'
  <2>1. \A n \in Nodes : state'[n] \in Terminal /\ state'[n] # "none"
    BY <1>3 DEF Terminal
  <2>2. ASSUME NEW n \in Nodes, NEW m \in Nodes, m \in deps[n],
               state'[n] \in {"checking", "running", "succeeded"}
        PROVE  state'[m] = "succeeded"
    <3>1. state[n] = "succeeded"
      BY <1>3, <2>2 DEF Terminal
    <3> QED BY <1>2, <1>3, <2>2, <3>1 DEF Begun, Terminal
  <2> QED BY <1>1, <2>1, <2>2 DEF Begun
<1>10. AsMeant'
  <2> SUFFICES ASSUME NEW n \in Nodes
               PROVE  state'[n] = Meant(n) \/ (aborted /\ state'[n] = "cancelled")
    BY <1>1, <1>3, SameReference DEF AsMeant, Terminal
  <2> QED BY <1>2, <1>3, <1>4 DEF AsMeant
<1>11. InBounds'
  <2>1. InHand' = {}
    BY <1>3 DEF InHand, Terminal
  <2> QED BY <2>1, ConstantsAssumption, FS_EmptySet DEF InBounds
<1> QED BY <1>5, <1>6, <1>7, <1>8, <1>9, <1>10, <1>11 DEF IInv

LEMMA AbortKeeps ==
  ASSUME IInv, Abort
  PROVE  IInv'
<1>1. /\ pc = "pool" /\ aborted'
      /\ UNCHANGED <<deps, fate, pc, remaining, layers, todo, state>>
  BY DEF Abort
<1>2. TypeOK'
  BY <1>1 DEF Abort, IInv, TypeOK
<1>3. LayersInOrder' /\ LayerApart'
  BY <1>1 DEF IInv, LayersInOrder, LayerApart
<1>4. Planning' /\ BeforePool'
  BY <1>1 DEF Planning, BeforePool
<1>5. Verdict' /\ Begun'
  BY <1>1, SameReference DEF IInv, Verdict, Begun
<1>6. AsMeant'
  BY <1>1, SameReference DEF IInv, AsMeant
<1>7. InBounds'
  BY <1>1 DEF IInv, InBounds, InHand
<1> QED BY <1>2, <1>3, <1>4, <1>5, <1>6, <1>7 DEF IInv

LEMMA StepKeeps ==
  ASSUME IInv, [Next]_vars
  PROVE  IInv'
<1>1. CASE UNCHANGED vars
  <2>1. UNCHANGED <<deps, fate, pc, remaining, layers, todo, state, aborted>>
    BY <1>1 DEF vars
  <2>2. TypeOK' /\ InBounds'
    BY <2>1 DEF IInv, TypeOK, InBounds, InHand
  <2>3. LayersInOrder' /\ LayerApart' /\ BeforePool' /\ Begun'
    BY <2>1 DEF IInv, LayersInOrder, LayerApart, BeforePool, Begun
  <2>4. Planning'
    BY <2>1, SameReference DEF IInv, Planning, Placed, Closed
  <2>5. Verdict' /\ AsMeant'
    BY <2>1, SameReference DEF IInv, Verdict, AsMeant
  <2> QED BY <2>2, <2>3, <2>4, <2>5 DEF IInv
<1> QED BY <1>1, PlanLayerKeeps, RejectKeeps, QueueKeeps, NextLayerKeeps, FinishKeeps,
           TakeKeeps, CheckedKeeps, ReturnsKeeps, AbortKeeps DEF Next, Step

-----------------------------------------------------------------------------
(* Theorems.                                                               *)

\* The whole inductive invariant: layers in order, nodes begun only after what they
\* depend on ended, results as meant.
THEOREM Invariance == Spec => []IInv
<1>1. Init => IInv
  BY InitHolds
<1>2. IInv /\ [Next]_vars => IInv'
  BY StepKeeps
<1> QED BY <1>1, <1>2, PTL DEF Spec

\* Every variable keeps its type.
THEOREM TypeCorrect == Spec => []TypeOK
<1>1. IInv => TypeOK
  BY DEF IInv
<1> QED BY <1>1, Invariance, PTL

\* A module is in hand only when all that it needs, at any distance, has succeeded,
\* and the pool is never exceeded, whatever the plan and the bound.
THEOREM NeedsHaveSucceeded == Spec => []NeedsComeFirst
<1>1. ASSUME IInv PROVE NeedsComeFirst
  <2> DEFINE S == {m \in Nodes : state[m] = "succeeded"}
  <2>1. TypeOK /\ Begun
    BY <1>1 DEF IInv
  <2>2. Closed(S) /\ S \in SUBSET Nodes
    BY <2>1 DEF Closed, Begun, TypeOK
  <2>3. ASSUME NEW n \in InHand, NEW m \in Nodes, Needs(n, m)
        PROVE  state[m] = "succeeded"
    <3>1. n \in Nodes /\ state[n] \in {"checking", "running"}
      BY DEF InHand
    <3>2. deps[n] \subseteq S
      BY <2>1, <3>1 DEF Begun, TypeOK
    <3>3. m \in S
      <4> HIDE DEF S
      <4> QED BY <2>2, <2>3, <3>2, NeedsWithin
    <3> QED BY <3>3
  <2> QED BY <1>1, <2>3 DEF NeedsComeFirst, IInv, InBounds
<1> QED BY <1>1, Invariance, PTL

\* A plan is refused exactly for a cycle, and what is not refused ends with the
\* results the reference gives it: for every finite plan, every fate of its modules
\* and every order in which the pool may run them.
THEOREM ResultsDoNotDependOnOrder == Spec => []ResultsAsMeant
<1>1. IInv => ResultsAsMeant
  BY DEF IInv, Verdict, Begun, AsMeant, ResultsAsMeant
<1> QED BY <1>1, Invariance, PTL

\* After an abort no output becomes a result, and a told result stands.
THEOREM AbortStands == Spec => AbortDiscards
<1>1. ASSUME IInv, [Next]_vars, NEW n \in Nodes
      PROVE  /\ aborted /\ state'[n] = "succeeded" => state[n] = "succeeded"
             /\ state[n] \in Terminal => state'[n] = state[n]
  <2>1. TypeOK /\ BeforePool
    BY <1>1 DEF IInv
  <2>2. ASSUME NEW m \in Nodes, NEW status, state' = [state EXCEPT ![m] = status]
        PROVE  state'[n] = IF n = m THEN status ELSE state[n]
    BY <2>1, <2>2 DEF TypeOK
  <2>3. CASE PlanLayer \/ Reject \/ NextLayer \/ Abort \/ UNCHANGED vars
    BY <2>3 DEF PlanLayer, Reject, NextLayer, Abort, vars
  <2>4. CASE Queue
    BY <2>1, <2>4 DEF Queue, BeforePool, Terminal
  <2>5. CASE Finish
    BY <2>5 DEF Finish, Terminal
  <2>6. ASSUME NEW m \in Nodes, Take(m)
        PROVE  /\ aborted /\ state'[n] = "succeeded" => state[n] = "succeeded"
               /\ state[n] \in Terminal => state'[n] = state[n]
    <3>1. state[m] \notin Terminal
      BY <2>1, <2>6 DEF Take, TypeOK, Terminal
    <3> QED BY <2>2, <2>6, <3>1 DEF Take, Tell
  <2>7. ASSUME NEW m \in Nodes, Checked(m)
        PROVE  /\ aborted /\ state'[n] = "succeeded" => state[n] = "succeeded"
               /\ state[n] \in Terminal => state'[n] = state[n]
    BY <2>2, <2>7 DEF Checked, Tell, Terminal
  <2>8. ASSUME NEW m \in Nodes, Returns(m)
        PROVE  /\ aborted /\ state'[n] = "succeeded" => state[n] = "succeeded"
               /\ state[n] \in Terminal => state'[n] = state[n]
    BY <2>2, <2>8 DEF Returns, Tell, Terminal
  <2> QED BY <1>1, <2>3, <2>4, <2>5, <2>6, <2>7, <2>8 DEF Next, Step
<1>2. IInv /\ [Next]_vars =>
          [\A n \in Nodes :
              /\ aborted /\ state'[n] = "succeeded" => state[n] = "succeeded"
              /\ state[n] \in Terminal => state'[n] = state[n]]_vars
  BY <1>1
<1> QED BY <1>2, Invariance, PTL DEF Spec, AbortDiscards

-----------------------------------------------------------------------------
(* The plan comes to an end.                                               *)

LEMMA DutiesShrink ==
  ASSUME remaining' \subseteq remaining, ToGive' \subseteq ToGive, ToTake' \subseteq ToTake,
         ToCheck' \subseteq ToCheck, ToEnd' \subseteq ToEnd, ToLeave' \subseteq ToLeave,
         ToHear' \subseteq ToHear,
         \/ remaining' # remaining \/ ToGive' # ToGive \/ ToTake' # ToTake
         \/ ToCheck' # ToCheck \/ ToEnd' # ToEnd \/ ToLeave' # ToLeave \/ ToHear' # ToHear
  PROVE  Duties' \subseteq Duties /\ Duties' # Duties
<1>1. Duties' \subseteq Duties
  BY DEF Duties
<1>2. CASE remaining' # remaining
  <2>1. PICK y \in remaining : y \notin remaining'
    BY <1>2
  <2>2. <<"place", y>> \in Duties /\ <<"place", y>> \notin Duties'
    BY <2>1 DEF Duties
  <2> QED BY <1>1, <2>2
<1>3. CASE ToGive' # ToGive
  <2>1. PICK y \in ToGive : y \notin ToGive'
    BY <1>3
  <2>2. <<"give", y>> \in Duties /\ <<"give", y>> \notin Duties'
    BY <2>1 DEF Duties
  <2> QED BY <1>1, <2>2
<1>4. CASE ToTake' # ToTake
  <2>1. PICK y \in ToTake : y \notin ToTake'
    BY <1>4
  <2>2. <<"take", y>> \in Duties /\ <<"take", y>> \notin Duties'
    BY <2>1 DEF Duties
  <2> QED BY <1>1, <2>2
<1>5. CASE ToCheck' # ToCheck
  <2>1. PICK y \in ToCheck : y \notin ToCheck'
    BY <1>5
  <2>2. <<"check", y>> \in Duties /\ <<"check", y>> \notin Duties'
    BY <2>1 DEF Duties
  <2> QED BY <1>1, <2>2
<1>6. CASE ToEnd' # ToEnd
  <2>1. PICK y \in ToEnd : y \notin ToEnd'
    BY <1>6
  <2>2. <<"end", y>> \in Duties /\ <<"end", y>> \notin Duties'
    BY <2>1 DEF Duties
  <2> QED BY <1>1, <2>2
<1>7. CASE ToLeave' # ToLeave
  <2>1. PICK y \in ToLeave : y \notin ToLeave'
    BY <1>7
  <2>2. <<"leave", y>> \in Duties /\ <<"leave", y>> \notin Duties'
    BY <2>1 DEF Duties
  <2> QED BY <1>1, <2>2
<1>8. CASE ToHear' # ToHear
  <2>1. PICK y \in ToHear : y \notin ToHear'
    BY <1>8
  <2>2. <<"hear", y>> \in Duties /\ <<"hear", y>> \notin Duties'
    BY <2>1 DEF Duties
  <2> QED BY <1>1, <2>2
<1> QED BY <1>2, <1>3, <1>4, <1>5, <1>6, <1>7, <1>8

LEMMA DutiesFinite ==
  ASSUME TypeOK
  PROVE  IsFiniteSet(Duties) /\ Cardinality(Duties) \in Nat
<1>1. /\ IsFiniteSet(remaining) /\ IsFiniteSet(ToGive) /\ IsFiniteSet(ToTake)
      /\ IsFiniteSet(ToCheck) /\ IsFiniteSet(ToEnd)
  <2>1. /\ remaining \subseteq Nodes /\ ToGive \subseteq Nodes /\ ToTake \subseteq Nodes
        /\ ToCheck \subseteq Nodes /\ ToEnd \subseteq Nodes
    BY DEF TypeOK, ToGive, ToTake, ToCheck, ToEnd, Ahead
  <2> QED BY <2>1, ConstantsAssumption, FS_Subset
<1>2. \A x, y : IsFiniteSet({x}) /\ IsFiniteSet({x, y})
  <2>1. \A x : IsFiniteSet({x})
    BY FS_Singleton
  <2>2. ASSUME NEW x, NEW y PROVE IsFiniteSet({x, y})
    <3>1. IsFiniteSet({x} \cup {y})
      BY <2>1, FS_AddElement
    <3>2. {x, y} = {x} \cup {y}
      OBVIOUS
    <3> QED BY <3>1, <3>2
  <2> QED BY <2>1, <2>2
<1>3. IsFiniteSet(ToLeave) /\ IsFiniteSet(ToHear)
  BY <1>2, FS_EmptySet DEF ToLeave, ToHear
<1>4. ASSUME NEW x, NEW S, IsFiniteSet(S) PROVE IsFiniteSet({x} \X S)
  BY <1>2, <1>4, FS_Product
<1>5. /\ IsFiniteSet({"place"} \X remaining) /\ IsFiniteSet({"give"} \X ToGive)
      /\ IsFiniteSet({"take"} \X ToTake) /\ IsFiniteSet({"check"} \X ToCheck)
      /\ IsFiniteSet({"end"} \X ToEnd) /\ IsFiniteSet({"leave"} \X ToLeave)
      /\ IsFiniteSet({"hear"} \X ToHear)
  BY <1>1, <1>3, <1>4
<1>6. IsFiniteSet(Duties)
  BY <1>5, FS_Union DEF Duties
<1> QED BY <1>6, FS_CardinalityType

\* No layer is empty: the pool takes a node of each.
LayersHoldNodes == \A i \in 1..Len(layers) : layers[i] # {}

LEMMA LayersHoldNodesStep ==
  ASSUME TypeOK, LayersHoldNodes, [Next]_vars
  PROVE  LayersHoldNodes'
<1>1. layers \in Seq(SUBSET Nodes) /\ Len(layers) \in Nat
  BY DEF TypeOK
<1>2. CASE PlanLayer
  <2>1. PICK layer \in SUBSET Nodes : layer # {} /\ layers' = Append(layers, layer)
    BY <1>2 DEF PlanLayer, TypeOK
  <2>2. \A i \in 1..Len(layers') : layers'[i] = IF i <= Len(layers) THEN layers[i] ELSE layer
    BY <1>1, <2>1
  <2>3. Len(layers') = Len(layers) + 1
    BY <1>1, <2>1
  <2> QED BY <1>1, <2>1, <2>2, <2>3 DEF LayersHoldNodes
<1>3. CASE NextLayer
  <2>1. layers # <<>> /\ layers' = Tail(layers)
    BY <1>3 DEF NextLayer
  <2>2. \A i \in 1..Len(layers') : i + 1 \in 1..Len(layers) /\ layers'[i] = layers[i + 1]
    BY <1>1, <2>1
  <2> QED BY <2>2 DEF LayersHoldNodes
<1>4. CASE UNCHANGED layers
  BY <1>4 DEF LayersHoldNodes
<1> QED
  BY <1>2, <1>3, <1>4
  DEF Next, Step, Reject, Queue, Take, Checked, Returns, Finish, Abort, vars

LEMMA StepDescends ==
  ASSUME IInv, LayersHoldNodes, Next
  PROVE  Duties' \subseteq Duties /\ Duties' # Duties
<1>1. TypeOK /\ state \in [Nodes -> Status] /\ todo \subseteq Nodes /\ layers \in Seq(SUBSET Nodes)
  BY DEF IInv, TypeOK
<1>2. ASSUME UNCHANGED <<state, todo>>
      PROVE  UNCHANGED <<ToGive, ToTake, ToCheck, ToEnd>>
  BY <1>2 DEF ToGive, ToTake, ToCheck, ToEnd, Ahead
<1>3. /\ UNCHANGED pc => UNCHANGED ToLeave
      /\ UNCHANGED aborted => UNCHANGED ToHear
  BY DEF ToLeave, ToHear
<1>4. CASE PlanLayer
  <2>1. remaining' \subseteq remaining /\ remaining' # remaining
    BY <1>4 DEF PlanLayer
  <2> QED BY <1>2, <1>3, <1>4, <2>1, DutiesShrink DEF PlanLayer
<1>5. CASE Reject
  <2>1. ToLeave' = {} /\ ToLeave = {"layers", "pool"}
    BY <1>5 DEF Reject, ToLeave
  <2> QED BY <1>2, <1>3, <1>5, <2>1, DutiesShrink DEF Reject
<1>6. CASE Queue
  <2>1. ToLeave' = {"pool"} /\ ToLeave = {"layers", "pool"} /\ "layers" # "pool"
    BY <1>6 DEF Queue, ToLeave
  <2>2. UNCHANGED <<remaining, todo, aborted>> /\ \A n \in Nodes : state[n] = "none" /\ state'[n] = "queued"
    BY <1>6 DEF Queue, IInv, BeforePool
  <2>3. UNCHANGED <<ToGive, ToTake, ToCheck, ToEnd>>
    <3>1. \A n \in Nodes : state[n] \in Status \ Terminal /\ state'[n] \in Status \ Terminal
      BY <2>2 DEF Status, Terminal
    <3> QED BY <2>2, <3>1 DEF ToGive, ToTake, ToCheck, ToEnd, Ahead
  <2> QED BY <1>3, <2>1, <2>2, <2>3, DutiesShrink
<1>7. CASE NextLayer
  <2>1. /\ todo = {} /\ layers # <<>> /\ todo' = Head(layers) /\ pc = "pool"
        /\ UNCHANGED <<remaining, state, pc, aborted>>
    BY <1>7 DEF NextLayer, LayerIsOver
  <2>2. 1 \in 1 .. Len(layers) /\ Head(layers) = layers[1] /\ Head(layers) \subseteq Nodes
    BY <1>1, <2>1
  <2>3. \A n \in Head(layers) : state[n] = "queued"
    BY <2>1, <2>2 DEF IInv, TypeOK
  <2>4. Head(layers) # {}
    BY <2>1, <2>2 DEF LayersHoldNodes
  <2>5. UNCHANGED <<ToTake, ToCheck, ToEnd>> /\ ToGive' = ToGive \ Head(layers)
    BY <2>1 DEF ToGive, ToTake, ToCheck, ToEnd, Ahead
  <2>6. ToGive' # ToGive /\ ToGive' \subseteq ToGive
    BY <2>1, <2>2, <2>3, <2>4, <2>5 DEF ToGive, Ahead
  <2> QED BY <1>3, <2>1, <2>5, <2>6, DutiesShrink
\* A node goes on from one stage to a later one.
<1>8. ASSUME NEW n \in Nodes, NEW status, state' = [state EXCEPT ![n] = status],
             UNCHANGED <<remaining, pc, aborted>>,
             \/ /\ state[n] = "queued" /\ n \in todo /\ todo' = todo \ {n}
                /\ status \in {"checking"} \cup Terminal
             \/ /\ state[n] = "checking" /\ todo' = todo
                /\ status \in {"running"} \cup Terminal
             \/ /\ state[n] = "running" /\ todo' = todo
                /\ status \in Terminal
      PROVE  Duties' \subseteq Duties /\ Duties' # Duties
  <2>1. /\ state'[n] = status /\ \A m \in Nodes \ {n} : state'[m] = state[m]
        /\ "running" \in Status \ Terminal /\ "checking" \in Status \ Terminal
        /\ "queued" \in Status \ Terminal
        /\ \A s \in Terminal : s \notin {"none", "queued", "checking", "running"}
    BY <1>1, <1>8 DEF Status, Terminal
  <2>2. CASE state[n] = "queued"
    <3>1. ToTake' = ToTake \ {n} /\ n \in ToTake
      BY <1>8, <2>1, <2>2 DEF ToTake, Ahead
    <3>2. ToGive' \subseteq ToGive /\ ToCheck' \subseteq ToCheck /\ ToEnd' \subseteq ToEnd
      BY <1>8, <2>1, <2>2 DEF ToGive, ToCheck, ToEnd, Ahead
    <3> QED BY <1>3, <1>8, <3>1, <3>2, DutiesShrink
  <2>3. CASE state[n] = "checking"
    <3>1. ToCheck' = ToCheck \ {n} /\ n \in ToCheck
      BY <1>8, <2>1, <2>3 DEF ToCheck, Ahead
    <3>2. ToGive' \subseteq ToGive /\ ToTake' \subseteq ToTake /\ ToEnd' \subseteq ToEnd
      BY <1>8, <2>1, <2>3 DEF ToGive, ToTake, ToEnd, Ahead
    <3> QED BY <1>3, <1>8, <3>1, <3>2, DutiesShrink
  <2>4. CASE state[n] = "running"
    <3>1. ToEnd' = ToEnd \ {n} /\ n \in ToEnd
      BY <1>8, <2>1, <2>4 DEF ToEnd, Ahead
    <3>2. ToGive' \subseteq ToGive /\ ToTake' \subseteq ToTake /\ ToCheck' \subseteq ToCheck
      BY <1>8, <2>1, <2>4 DEF ToGive, ToTake, ToCheck, Ahead
    <3> QED BY <1>3, <1>8, <3>1, <3>2, DutiesShrink
  <2> QED BY <1>8, <2>2, <2>3, <2>4
<1>9. ASSUME NEW n \in Nodes, Take(n)
      PROVE  Duties' \subseteq Duties /\ Duties' # Duties
  <2>1. state[n] = "queued"
    BY <1>9 DEF Take, IInv, TypeOK
  <2> QED BY <1>8, <1>9, <2>1 DEF Take, Tell, Terminal
<1>10. ASSUME NEW n \in Nodes, Checked(n) \/ Returns(n)
       PROVE  Duties' \subseteq Duties /\ Duties' # Duties
  BY <1>8, <1>10 DEF Checked, Returns, Tell, Terminal
<1>11. CASE Finish
  <2>1. ToLeave' = {} /\ ToLeave = {"pool"}
    BY <1>11 DEF Finish, LayerIsOver, ToLeave
  <2>2. UNCHANGED <<remaining, todo, aborted>> /\ \A n \in Nodes : state'[n] = state[n] \/ state'[n] = "cancelled"
    BY <1>11 DEF Finish
  <2>3. ToGive' \subseteq ToGive /\ ToTake' \subseteq ToTake /\ ToCheck' \subseteq ToCheck
        /\ ToEnd' \subseteq ToEnd
    BY <2>2 DEF ToGive, ToTake, ToCheck, ToEnd, Ahead, Terminal
  <2> QED BY <1>3, <2>1, <2>2, <2>3, DutiesShrink
<1>12. CASE Abort
  <2>1. ToHear' = {} /\ ToHear = {"abort"}
    BY <1>12 DEF Abort, ToHear
  <2> QED BY <1>2, <1>3, <1>12, <2>1, DutiesShrink DEF Abort
<1> QED BY <1>4, <1>5, <1>6, <1>7, <1>9, <1>10, <1>11, <1>12 DEF Next, Step

\* There is less to do after every step, of a finite amount: executePlan takes finitely
\* many steps, however its lanes interleave and whenever the signal is aborted.
THEOREM PlanGoesOn == Spec => PlanDescends /\ [](Cardinality(Duties) \in Nat)
<1>1. ASSUME IInv, LayersHoldNodes, Next
      PROVE  Duties' \subseteq Duties /\ Cardinality(Duties') < Cardinality(Duties)
  <2>1. Duties' \subseteq Duties /\ Duties' # Duties
    BY <1>1, StepDescends
  <2>2. IsFiniteSet(Duties)
    BY <1>1, DutiesFinite DEF IInv
  <2>3. Cardinality(Duties') <= Cardinality(Duties)
        /\ (Cardinality(Duties') = Cardinality(Duties) => Duties' = Duties)
    BY <2>1, <2>2, FS_Subset
  <2>4. Cardinality(Duties) \in Nat /\ Cardinality(Duties') \in Nat
    <3>1. IsFiniteSet(Duties')
      BY <2>1, <2>2, FS_Subset
    <3> QED BY <2>2, <3>1, FS_CardinalityType
  <2> QED BY <2>1, <2>3, <2>4
<1>2. IInv /\ LayersHoldNodes /\ [Next]_vars =>
        [Duties' \subseteq Duties /\ Cardinality(Duties') < Cardinality(Duties)]_vars
  BY <1>1 DEF IInv
<1>3. Init => LayersHoldNodes
  BY DEF Init, LayersHoldNodes
<1>4. IInv /\ LayersHoldNodes /\ [Next]_vars => LayersHoldNodes'
  BY LayersHoldNodesStep DEF IInv
<1>5. IInv => Cardinality(Duties) \in Nat
  BY DutiesFinite DEF IInv
<1> QED BY <1>2, <1>3, <1>4, <1>5, Invariance, PTL DEF Spec, PlanDescends

\* The pool never waits on itself: with nothing in hand it has a node to take, the next
\* layer to begin or the plan to finish.
THEOREM PoolGoesOn == Spec => []PoolNeverStuck
<1>1. ASSUME IInv, pc = "pool", InHand = {}, ~ LayerIsOver
      PROVE  Cardinality(InHand) < Concurrency /\ \E n \in todo : \A m \in todo : n <= m
  <2>1. todo # {} /\ todo \subseteq Nat
    BY <1>1, ConstantsAssumption DEF LayerIsOver, IInv, TypeOK
  <2>2. Cardinality(InHand) = 0
    BY <1>1, FS_EmptySet
  <2> QED BY <2>1, <2>2, LeastOf, ConstantsAssumption
<1>2. IInv => PoolNeverStuck
  BY <1>1 DEF PoolNeverStuck
<1> QED BY <1>2, Invariance, PTL
=============================================================================
