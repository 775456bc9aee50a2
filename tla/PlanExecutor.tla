----------------------------- MODULE PlanExecutor -----------------------------
(***************************************************************************)
(* executePlan: the nodes of a workflow's plan are put into layers and     *)
(* run, a layer at a time, by a bounded pool.  A node is skipped when one  *)
(* it depends on did not succeed; an abort stops the plan between awaits.  *)
(*                                                                         *)
(* What each node's module would do is chosen once, as its fate, so that   *)
(* results can be compared with a definition that knows no order.  Nodes   *)
(* are numbers in the order of plan.nodes.  The pool's lanes are counted,  *)
(* not named.  A state change whose listener throws, and a module that     *)
(* reads outputs of others in its own layer, are left out.                 *)
(***************************************************************************)
EXTENDS Naturals, FiniteSets, Sequences

CONSTANTS
    Nodes,          \* nodes of the plan, by number
    Concurrency     \* options.concurrency

ASSUME ConstantsAssumption ==
    /\ Nodes \subseteq Nat
    /\ IsFiniteSet(Nodes)
    /\ Concurrency \in Nat \ {0}

VARIABLES
    deps,       \* node.dependsOn
    fate,       \* what the node's module does once it is reached
    pc,         \* executePlan itself
    remaining,  \* planLayers: nodes in no layer yet; then nodes not begun on
    layers,     \* planLayers: layers found; then layers still to run
    todo,       \* nodes of the running layer that no lane has taken
    state,      \* last state told for each node
    aborted     \* options.signal

vars == <<deps, fate, pc, remaining, layers, todo, state, aborted>>

\* "missing": no such module; "unavailable": a requirement; "invalid": the input
\* fails its schema; "broken": the module throws or its output fails its schema.
Fate == {"ok", "missing", "unavailable", "invalid", "broken"}

Terminal == {"succeeded", "failed", "skipped", "cancelled"}

\* "checking" is a queued node that awaits its requirements.
Status == {"none", "queued", "checking", "running"} \cup Terminal

Init ==
    /\ deps \in [Nodes -> SUBSET Nodes]
    /\ fate \in [Nodes -> Fate]
    /\ pc = "layers"
    /\ remaining = Nodes
    /\ layers = <<>>
    /\ todo = {}
    /\ state = [n \in Nodes |-> "none"]
    /\ aborted = FALSE

\* Nodes a lane of the pool has in hand.
InHand == {n \in Nodes : state[n] \in {"checking", "running"}}

\* Mutant: only a failure blocks, not a skipped or cancelled node.
BlockedByFailure(n) == \E m \in deps[n] : state[m] = "failed"

Blocked(n) == \E m \in deps[n] : state[m] # "succeeded"

Tell(n, status) == state' = [state EXCEPT ![n] = status]

-----------------------------------------------------------------------------
(* validatePlan and planLayers; then every node is told to be queued.      *)

Placed == Nodes \ remaining

PlanLayer ==
    /\ pc = "layers"
    /\ \A n \in Nodes : n \notin deps[n]
    /\ LET layer == {n \in remaining : deps[n] \subseteq Placed} IN
           /\ layer # {}
           /\ layers' = Append(layers, layer)
           /\ remaining' = remaining \ layer
    /\ UNCHANGED <<deps, fate, pc, todo, state, aborted>>

\* A node that depends on itself, or a layer nothing fits in: an error is thrown.
Reject ==
    /\ pc = "layers"
    /\ \/ \E n \in Nodes : n \in deps[n]
       \/ /\ remaining # {}
          /\ \A n \in remaining : ~(deps[n] \subseteq Placed)
    /\ pc' = "rejected"
    /\ UNCHANGED <<deps, fate, remaining, layers, todo, state, aborted>>

Queue ==
    /\ pc = "layers"
    /\ remaining = {}
    /\ \A n \in Nodes : n \notin deps[n]
    /\ pc' = "pool"
    /\ state' = [n \in Nodes |-> "queued"]
    /\ UNCHANGED <<deps, fate, remaining, layers, todo, aborted>>

-----------------------------------------------------------------------------
(* The layers, each a pooledMap.                                           *)

\* Mutant: the next layer does not wait for the nodes in hand.
LayerIsTaken == pc = "pool" /\ todo = {}

LayerIsOver == pc = "pool" /\ todo = {} /\ InHand = {}

NextLayer ==
    /\ LayerIsOver
    /\ layers # <<>>
    /\ ~aborted
    /\ todo' = Head(layers)
    /\ layers' = Tail(layers)
    /\ UNCHANGED <<deps, fate, pc, remaining, state, aborted>>

\* A lane is free and takes the layer's next node: the checks up to the await.
Take(n) ==
    /\ pc = "pool"
    /\ n \in todo
    /\ \A m \in todo : n <= m
    /\ Cardinality(InHand) < Concurrency
    /\ todo' = todo \ {n}
    /\ Tell(n, IF aborted THEN "cancelled"
               ELSE IF fate[n] = "missing" THEN "failed"
               ELSE IF Blocked(n) THEN "skipped"
               ELSE "checking")
    /\ UNCHANGED <<deps, fate, pc, remaining, layers, aborted>>

\* unavailableRequirementReason has answered.  The signal is not asked again.
Checked(n) ==
    /\ pc = "pool"
    /\ state[n] = "checking"
    /\ Tell(n, IF fate[n] = "unavailable" THEN "skipped"
               ELSE IF fate[n] = "invalid" THEN "failed"
               ELSE "running")
    /\ UNCHANGED <<deps, fate, pc, remaining, layers, todo, aborted>>

\* Mutant: an output that arrives after the abort is a result like any other.
ReturnsLate(n) ==
    /\ pc = "pool"
    /\ state[n] = "running"
    /\ Tell(n, IF fate[n] = "ok" THEN "succeeded" ELSE "failed")
    /\ UNCHANGED <<deps, fate, pc, remaining, layers, todo, aborted>>

\* The module has returned or thrown; after an abort either is a cancellation.
Returns(n) ==
    /\ pc = "pool"
    /\ state[n] = "running"
    /\ Tell(n, IF aborted THEN "cancelled"
               ELSE IF fate[n] = "ok" THEN "succeeded"
               ELSE "failed")
    /\ UNCHANGED <<deps, fate, pc, remaining, layers, todo, aborted>>

\* Mutant: an abort does not break the loop over layers.
FinishWhenThrough ==
    /\ LayerIsOver
    /\ layers = <<>>
    /\ pc' = "done"
    /\ state' = [n \in Nodes |-> IF state[n] \in Terminal THEN state[n] ELSE "cancelled"]
    /\ UNCHANGED <<deps, fate, remaining, layers, todo, aborted>>

\* After the last layer, or an abort: nodes never reached are cancelled.
Finish ==
    /\ LayerIsOver
    /\ layers = <<>> \/ aborted
    /\ pc' = "done"
    /\ state' = [n \in Nodes |-> IF state[n] \in Terminal THEN state[n] ELSE "cancelled"]
    /\ UNCHANGED <<deps, fate, remaining, layers, todo, aborted>>

\* controller.abort, at any await.
Abort ==
    /\ pc = "pool"
    /\ ~aborted
    /\ aborted' = TRUE
    /\ UNCHANGED <<deps, fate, pc, remaining, layers, todo, state>>

-----------------------------------------------------------------------------
Step ==
    \/ PlanLayer \/ Reject \/ Queue \/ NextLayer \/ Finish
    \/ \E n \in Nodes : Take(n) \/ Checked(n) \/ Returns(n)

Next == Step \/ Abort

Spec == Init /\ [][Next]_vars

\* The event loop turns, requirements answer and modules return.
FairSpec == Spec /\ WF_vars(Step)

-----------------------------------------------------------------------------
(* The reference: what a plan means, whatever order it is run in.          *)

\* n needs m, directly or through others: m is in every set that holds what n
\* depends on and, with a node, what that node depends on.
Closed(S) == \A k \in S : deps[k] \subseteq S

Needs(n, m) == \A S \in SUBSET Nodes : deps[n] \subseteq S /\ Closed(S) => m \in S

Acyclic == \A n \in Nodes : ~Needs(n, n)

Meant(n) ==
    IF fate[n] = "missing" THEN "failed"
    ELSE IF \E m \in Nodes : Needs(n, m) /\ fate[m] # "ok" THEN "skipped"
    ELSE IF fate[n] = "unavailable" THEN "skipped"
    ELSE IF fate[n] \in {"invalid", "broken"} THEN "failed"
    ELSE "succeeded"

-----------------------------------------------------------------------------
(* Properties.                                                             *)

\* Every variable has its type, and while the pool runs a node is queued exactly
\* as long as a layer still holds it.
TypeOK ==
    /\ deps \in [Nodes -> SUBSET Nodes]
    /\ fate \in [Nodes -> Fate]
    /\ pc \in {"layers", "rejected", "pool", "done"}
    /\ remaining \subseteq Nodes
    /\ layers \in Seq(SUBSET Nodes)
    /\ todo \subseteq Nodes
    /\ state \in [Nodes -> Status]
    /\ aborted \in BOOLEAN
    /\ pc = "pool" =>
           \A n \in Nodes : state[n] = "queued" <=>
               n \in todo \/ \E i \in 1..Len(layers) : n \in layers[i]

\* A module runs only when all that it needs, at any distance, has succeeded, and
\* no more modules are in hand than the pool allows.
NeedsComeFirst ==
    /\ Cardinality(InHand) <= Concurrency
    /\ \A n \in InHand, m \in Nodes : Needs(n, m) => state[m] = "succeeded"

\* A plan is refused exactly when it has a cycle; one that is not ends with the
\* results the reference gives, independent of how the pool interleaved, or with
\* nodes cancelled by an abort.
ResultsAsMeant ==
    /\ pc = "rejected" => ~Acyclic
    /\ pc \in {"pool", "done"} => Acyclic
    /\ pc = "done" => \A n \in Nodes :
           \/ state[n] = Meant(n)
           \/ aborted /\ state[n] = "cancelled"

\* Once the signal is aborted no module's output is taken for a result, and a node
\* whose result was told is never told another.
AbortDiscards ==
    [][\A n \in Nodes :
           /\ aborted /\ state'[n] = "succeeded" => state[n] = "succeeded"
           /\ state[n] \in Terminal => state'[n] = state[n]]_vars

\* executePlan returns or throws.
PlanEnds == <>(pc \in {"rejected", "done"})

-----------------------------------------------------------------------------
(* Properties that no run lists: PlanExecutorProofs proves them.  Together *)
(* they say why PlanEnds holds.                                            *)

Ahead(stages) == {n \in Nodes : state[n] \in stages}

ToGive == Ahead({"none", "queued"}) \ todo
ToTake == Ahead({"none", "queued"})
ToCheck == Ahead({"none", "queued", "checking"})
ToEnd == Ahead(Status \ Terminal)

ToLeave == CASE pc = "layers" -> {"layers", "pool"}
             [] pc = "pool"   -> {"pool"}
             [] OTHER         -> {}

ToHear == IF aborted THEN {} ELSE {"abort"}

\* What is still ahead: nodes to be placed, given to the pool, taken, checked and ended,
\* phases to be left, and an abort that may come.
Duties ==
    ({"place"} \X remaining) \cup ({"give"} \X ToGive) \cup ({"take"} \X ToTake)
        \cup ({"check"} \X ToCheck) \cup ({"end"} \X ToEnd)
        \cup ({"leave"} \X ToLeave) \cup ({"hear"} \X ToHear)

\* Every step, an abort too, leaves less to do, and adds nothing: no node is placed,
\* given, taken, checked or ended twice, and the executor never comes back to a phase.
PlanDescends == [][Duties' \subseteq Duties /\ Cardinality(Duties') < Cardinality(Duties)]_vars

\* While the pool runs one of its steps is always possible: no plan, fate or abort leaves
\* a layer waiting for a lane, or a lane for a node.
PoolNeverStuck ==
    pc = "pool" =>
        \/ InHand # {}
        \/ LayerIsOver
        \/ Cardinality(InHand) < Concurrency /\ \E n \in todo : \A m \in todo : n <= m
=============================================================================
