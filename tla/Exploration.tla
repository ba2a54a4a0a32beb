---------------------------- MODULE Exploration -----------------------------
(***************************************************************************)
(* What exploreAll promises, without buffers, processes or a queue: the    *)
(* graph grows by all the edges of one state at a time, a state the graph  *)
(* already leads to; it ends when no such state is left.                   *)
(***************************************************************************)
EXTENDS CallGraph

VARIABLES graph, finished

avars == <<graph, finished>>

Met == {Start} \cup {w \in States : \E v \in States, c \in Calls : <<v, c, w>> \in graph}

AInit == graph = {} /\ finished = FALSE

Explore(v) ==
  /\ ~finished
  /\ v \in Met \ ExploredIn(graph)
  /\ graph' = graph \cup OutEdges(v)
  /\ UNCHANGED finished

Finish ==
  /\ ~finished
  /\ Met \subseteq ExploredIn(graph)
  /\ finished' = TRUE
  /\ UNCHANGED graph

ANext == Finish \/ \E v \in States : Explore(v)

ASpec == AInit /\ [][ANext]_avars
=============================================================================
