------------------------------ MODULE CallGraph ------------------------------
(***************************************************************************)
(* The graph an exploration is after: the process states reachable from    *)
(* the start state and the calls between them.  The kernel is Step: what a *)
(* call makes of a state.  A call that fails leaves the state as it was,   *)
(* so it is an edge of the graph too, from the state to itself.            *)
(***************************************************************************)
EXTENDS Integers, FiniteSets

CONSTANTS
  States,   \* the vertices the generator prepared: VertexGenerator
  Calls,    \* the calls to try in each: SetuidEdgeGenerator
  Start,    \* SetuidStateGraph::getStart()
  Step      \* Step[v][c] is the state after call c in state v

ASSUME StatesAssumption == IsFiniteSet(States) /\ Start \in States
ASSUME CallsAssumption  == Calls # {}
ASSUME StepAssumption   == Step \in [States -> [Calls -> States]]

AllEdges == States \X Calls \X States

\* Mutant: the ends of an edge are swapped.
EdgesReversed(v) == {<<Step[v][c], c, v>> : c \in Calls}

\* What the exploration of one state finds.
OutEdges(v) == {<<v, c, Step[v][c]>> : c \in Calls}
Targets(v)  == {Step[v][c] : c \in Calls}

KernelGraph == UNION {OutEdges(v) : v \in States}

(***************************************************************************)
(* getPath finds a path from Start to v in the edges E iff v is in every   *)
(* set that contains Start and that no edge of E leaves.                   *)
(***************************************************************************)
Closed(S, E)  == \A e \in E : e[1] \in S => e[3] \in S
HasPath(E, v) == \A S \in SUBSET States : Start \in S /\ Closed(S, E) => v \in S

Reachable  == {v \in States : HasPath(KernelGraph, v)}
WholeGraph == UNION {OutEdges(v) : v \in Reachable}

ExploredIn(E) == {v \in States : \E c \in Calls, w \in States : <<v, c, w>> \in E}
=============================================================================
