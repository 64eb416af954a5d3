------------------------- MODULE TaskDecomposition -------------------------
(***************************************************************************)
(* The hierarchy of tasks, packages/task/src/decomposition.ts.  Each node  *)
(* names its parent and lists its children; tasks are registered one by    *)
(* one, in any order, under a parent that need not be registered (yet, or  *)
(* any more), and removed with their descendants.                          *)
(*                                                                         *)
(* Every operation is synchronous.  A list of children is modelled by the  *)
(* set of its members: ChildrenAreLinked shows that a task not registered  *)
(* is in no list, so that no list ever has it twice.                       *)
(***************************************************************************)
EXTENDS Integers, FiniteSets

CONSTANTS
  Tasks,     (* task ids                                                    *)
  NoTask     (* no parentId                                                 *)

ASSUME ConstantsAssumption == NoTask \notin Tasks

VARIABLES
  nodes,     (* the tasks registered                                        *)
  parent,    (* parent[t]: parentId of t's node                             *)
  children,  (* children[t]: the members of its list of children            *)
  depth      (* depth[t]: its depth                                         *)

vars == <<nodes, parent, children, depth>>

\* What is not registered has no parent, no children and depth 0
TypeOK ==
  /\ nodes \in SUBSET Tasks
  /\ parent \in [Tasks -> Tasks \cup {NoTask}]
  /\ children \in [Tasks -> SUBSET Tasks]
  /\ depth \in [Tasks -> Nat]
  /\ \A t \in Tasks \ nodes :
       parent[t] = NoTask /\ children[t] = {} /\ depth[t] = 0

-----------------------------------------------------------------------------
(* Reading the hierarchy                                                   *)

ChildrenOnly(t) == children[t]

\* getDescendants: the smallest set of nodes that has the children of t and
\* of its members
Descendants(t) ==
  {n \in nodes :
     \A D \in SUBSET nodes :
       children[t] \subseteq D /\ (\A d \in D : children[d] \subseteq D)
         => n \in D}

-----------------------------------------------------------------------------
(* Operations                                                              *)

\* New nodes S with the parent p.  Only a parent that is registered already
\* lists them.
Link(S, p) ==
  /\ nodes' = nodes \cup S
  /\ parent' = [t \in Tasks |-> IF t \in S THEN p ELSE parent[t]]
  /\ depth' = [t \in Tasks |-> IF t \in S /\ p \in nodes THEN depth[p] + 1
                               ELSE depth[t]]
  /\ children' = [t \in Tasks |-> IF t = p /\ p \in nodes
                                  THEN children[t] \cup S ELSE children[t]]

\* A task that is registered already is left where it is.
RegisterTask(t, p) ==
  /\ t \notin nodes
  /\ Link({t}, p)

\* Each subtask is registered under the parent task, which decompose does not
\* register.
Decompose(p, subtasks) == Link(subtasks \ nodes, p)

\* A task is taken off its parent's list and goes with its descendants.
Remove(t) ==
  LET removed == {t} \cup Descendants(t)
  IN  /\ t \in nodes
      /\ nodes' = nodes \ removed
      /\ parent' = [n \in Tasks |-> IF n \in removed THEN NoTask
                                    ELSE parent[n]]
      /\ depth' = [n \in Tasks |-> IF n \in removed THEN 0 ELSE depth[n]]
      /\ children' = [n \in Tasks |->
                        IF n \in removed THEN {}
                        ELSE IF n = parent[t] THEN children[n] \ {t}
                        ELSE children[n]]

-----------------------------------------------------------------------------
Init ==
  /\ nodes = {}
  /\ parent = [t \in Tasks |-> NoTask]
  /\ children = [t \in Tasks |-> {}]
  /\ depth = [t \in Tasks |-> 0]

Next ==
  \/ \E t \in Tasks, p \in Tasks \cup {NoTask} : RegisterTask(t, p)
  \/ \E p \in Tasks : \E subtasks \in SUBSET (Tasks \ {p}) :
       Decompose(p, subtasks)
  \/ \E t \in Tasks : Remove(t)

Spec == Init /\ [][Next]_vars

-----------------------------------------------------------------------------
(* Safety                                                                  *)

\* Over any sequence of registrations and removals the lists of children only
\* name registered tasks, whose node names the same parent and is one deeper.
\* So no task is on two lists, and no task is its own descendant: the loops of
\* getDescendants and getTree end.
ChildrenAreLinked ==
  \A p \in nodes : \A c \in children[p] :
    /\ c \in nodes
    /\ parent[c] = p
    /\ depth[c] = depth[p] + 1

\* A removal takes the whole subtree: what is left below depth 0 hangs under a
\* registered parent that lists it.
NoOrphans ==
  \A t \in nodes : depth[t] > 0 =>
    parent[t] \in nodes /\ t \in children[parent[t]]

\* The inductive invariant.
HierarchyInv ==
  /\ TypeOK
  /\ ChildrenAreLinked
  /\ NoOrphans
=============================================================================
