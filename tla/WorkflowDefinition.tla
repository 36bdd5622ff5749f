---------------------------- MODULE WorkflowDefinition ----------------------------
(***************************************************************************)
(* NewWorkflowDefinition: a declared set of nodes becomes an immutable,    *)
(* canonically ordered DAG, or is refused.                                 *)
(*                                                                         *)
(* The topological sort is modelled step by step, one node removed from    *)
(* the ready list per step, for every declaration over IDs: any order of   *)
(* the nodes and any dependencies, unknown and circular ones included.     *)
(* Node identities are numbers, ordered as the code orders the strings.    *)
(***************************************************************************)
EXTENDS Naturals, Sequences, FiniteSets, SequencesExt

CONSTANTS
  IDs,       \* the node identities declared
  Unknown    \* an identity no node has

ASSUME DefinitionAssumption == IDs \subseteq Nat /\ Unknown \in Nat \ IDs

VARIABLES
  declared,   \* the nodes in the order of the specification
  dependsOn,  \* the dependencies of each node
  indegree,   \* dependencies not yet placed
  ready,      \* nodes without unplaced dependencies, in order
  result,     \* the canonical order so far
  verdict     \* "new", "sorting", "accepted", "invalid" or "cycle"

defVars == <<declared, dependsOn, indegree, ready, result, verdict>>

TypeOKDefinition ==
  /\ declared \in Seq(IDs)
  /\ dependsOn \in [IDs -> SUBSET (IDs \cup {Unknown})]
  /\ indegree \in [IDs -> 0..Cardinality(IDs)]
  /\ ready \in Seq(IDs)
  /\ result \in Seq(IDs)
  /\ verdict \in {"new", "sorting", "accepted", "invalid", "cycle"}

DefinitionInit ==
  /\ declared \in SetToSeqs(IDs)
  /\ dependsOn \in [IDs -> SUBSET (IDs \cup {Unknown})]
  /\ indegree = [id \in IDs |-> 0]
  /\ ready = << >>
  /\ result = << >>
  /\ verdict = "new"

(* No node depends on itself or on a node that was not declared. *)
DependenciesValid ==
  \A id \in IDs : dependsOn[id] \subseteq ToSet(declared) \ {id}

Refuse ==
  /\ verdict = "new"
  /\ ~DependenciesValid
  /\ verdict' = "invalid"
  /\ UNCHANGED <<declared, dependsOn, indegree, ready, result>>

SortIDs(S) == SetToSortSeq(S, <)

Begin ==
  /\ verdict = "new"
  /\ DependenciesValid
  /\ indegree' = [id \in IDs |-> Cardinality(dependsOn[id])]
  /\ ready' = SortIDs({id \in IDs : dependsOn[id] = {}})
  /\ verdict' = "sorting"
  /\ UNCHANGED <<declared, dependsOn, result>>

Dependents(id) == {d \in IDs : id \in dependsOn[d]}

(* Mutants: released nodes queue up in the order of their declaration, and
   a node is released by its first dependency. *)
ReleasedInOrder(rest, released) ==
  rest \o SelectSeq(declared, LAMBDA id : id \in released)

Released(rest, released) == SortIDs(ToSet(rest) \cup released)

ReleasedEarly(id) == Dependents(id) \ (ToSet(result) \cup ToSet(ready))

ReleasedBy(id) == {d \in Dependents(id) : indegree[d] = 1}

(* The smallest ready node is placed and its dependents lose a dependency. *)
Place ==
  /\ verdict = "sorting"
  /\ ready # << >>
  /\ LET id == Head(ready)
     IN /\ result' = Append(result, id)
        /\ indegree' = [d \in IDs |-> IF d \in Dependents(id)
                                      THEN indegree[d] - 1 ELSE indegree[d]]
        /\ ready' = Released(Tail(ready), ReleasedBy(id))
  /\ UNCHANGED <<declared, dependsOn, verdict>>

Conclude ==
  /\ verdict = "sorting"
  /\ ready = << >>
  /\ verdict' = IF Len(result) = Len(declared) THEN "accepted" ELSE "cycle"
  /\ UNCHANGED <<declared, dependsOn, indegree, ready, result>>

DefinitionNext == Refuse \/ Begin \/ Place \/ Conclude

DefinitionSpec == DefinitionInit /\ [][DefinitionNext]_defVars

-----------------------------------------------------------------------------
Placed(n) == {result[i] : i \in 1..n}

(* The sorted order is a topological order of the declared nodes: the planner walks definition.nodes once per round and counts on
   meeting a dependency before its dependents. *)
DependenciesFirst ==
  /\ \A n \in 1..Len(result) : dependsOn[result[n]] \subseteq Placed(n - 1)
  /\ verdict = "accepted" => Placed(Len(result)) = IDs /\ Len(result) = Cardinality(IDs)

(* A declaration is refused as circular exactly when some set of nodes waits
   for each other, and never otherwise: topologicalWorkflowNodes only
   compares two lengths to find out. *)
Circular ==
  \E S \in SUBSET IDs \ {{}} : \A id \in S : dependsOn[id] \cap S # {}

CycleDetected ==
  /\ verdict = "cycle" => Circular
  /\ verdict = "accepted" => ~Circular /\ DependenciesValid

(* The order depends on the graph alone, not on the order of declaration:
   each place goes to the smallest node whose dependencies are all placed.
   Snapshots of one definition version are reconciled by executors that may
   have declared it differently, with the same fingerprint. *)
Canonical ==
  \A n \in 1..Len(result) :
     \A id \in IDs \ Placed(n - 1) :
        dependsOn[id] \subseteq Placed(n - 1) => result[n] <= id

(* What the topological sort has established at every moment of it. *)
DefinitionInv == TypeOKDefinition /\ DependenciesFirst /\ CycleDetected
=============================================================================
