----------------------------- MODULE Normalizer -----------------------------
(***************************************************************************)
(* NormalizeGraph: the graph explored with a system's own uids is renamed  *)
(* to small ids, so that graphs of different systems compare and tables    *)
(* can be generated.  Normalizer<Graph> numbers the sorted uids, then is   *)
(* the visitor of a search of the old graph that adds every edge, renamed, *)
(* to the new one.  A step visits the edges of one vertex.                 *)
(***************************************************************************)
EXTENDS SetuidGraph

CONSTANT UidSets          \* what the program may be told: sets of uids, as ints

ASSUME UidSetsAssumption ==
  \A U \in UidSets : IsFiniteSet(U) /\ U \subseteq Int /\ 0 \in U

VARIABLES
  phase,        \* number (generateUIDMap), map (the search), normalized or aborted
  uidSet,       \* the uids of the explored graph
  uidVect,      \* those generateUIDMap has still to number
  uidMap,       \* uid -> normalised id
  counter,      \* the next number
  unvisited,    \* vertices of the old graph the search has not come to
  visited       \* the last one it came to, and its renamed edges

normVars == <<phase, uidSet, uidVect, uidMap, counter, unvisited, visited>>

ExtraParams == {Keep}                   \* extraParams: the "don't care" value

MapState(t, map) == [r |-> map[t.r], e |-> map[t.e], s |-> map[t.s]]

MapFunctionCall(c, map) == [c EXCEPT !.args = [i \in DOMAIN c.args |-> map[c.args[i]]]]

MapEdge(edge, map) ==
  [edge EXCEPT !.from = MapState(@, map), !.to = MapState(@, map), !.call = MapFunctionCall(@, map)]

\* A process never has the id -1: the search from root reaches the other triples.
VisitOrder(users) ==
  LET ids == Triples(Ascending(users \ {Keep}))
  IN  [i \in DOMAIN ids |-> [r |-> ids[i][1], e |-> ids[i][2], s |-> ids[i][3]]]

NewUsers  == {uidMap[u] : u \in DOMAIN uidMap}                       \* generateUIDSet

NormInit ==
  /\ phase = "number"
  /\ uidSet \in UidSets
  /\ uidVect = Ascending(uidSet)
  /\ uidMap = <<>> /\ counter = 1
  /\ unvisited = VisitOrder(uidSet)
  /\ visited = [from |-> AllSame(0), edges |-> {}]

\* Mutant: numbering starts at 0, the super-user's id.
NumberFromZero ==
  /\ phase = "number" /\ uidVect # <<>>
  /\ LET id == Head(uidVect)
     IN  /\ uidMap' = [u \in DOMAIN uidMap \cup {id} |->
                         IF u # id THEN uidMap[u] ELSE IF id <= 0 THEN id ELSE counter - 1]
         /\ counter' = IF id <= 0 THEN counter ELSE counter + 1
  /\ uidVect' = Tail(uidVect)
  /\ UNCHANGED <<phase, uidSet, unvisited, visited>>

\* Mutant: the counter moves on for every uid.
NumberEveryUid ==
  /\ phase = "number" /\ uidVect # <<>>
  /\ LET id == Head(uidVect)
     IN  uidMap' = [u \in DOMAIN uidMap \cup {id} |->
                      IF u # id THEN uidMap[u] ELSE IF id <= 0 THEN id ELSE counter]
  /\ counter' = counter + 1
  /\ uidVect' = Tail(uidVect)
  /\ UNCHANGED <<phase, uidSet, unvisited, visited>>

\* The next uid in ascending order: a negative one and 0 stay what they are.
NumberUid ==
  /\ phase = "number" /\ uidVect # <<>>
  /\ LET id == Head(uidVect)
     IN  /\ uidMap' = [u \in DOMAIN uidMap \cup {id} |->
                         IF u # id THEN uidMap[u] ELSE IF id <= 0 THEN id ELSE counter]
         /\ counter' = IF id <= 0 THEN counter ELSE counter + 1
  /\ uidVect' = Tail(uidVect)
  /\ UNCHANGED <<phase, uidSet, unvisited, visited>>

AllNumbered ==
  /\ phase = "number" /\ uidVect = <<>>
  /\ phase' = "map"
  /\ UNCHANGED <<uidSet, uidVect, uidMap, counter, unvisited, visited>>

\* mapUID asserts that the id is in the map: the program stops at the first
\* call with a "don't care" if -1 is not one of the uids.
VisitEdges ==
  /\ phase = "map" /\ unvisited # <<>>
  /\ LET v == Head(unvisited)
         edges == OutEdges(v, Calls(uidSet, ExtraParams))
     IN  IF ExtraParams \subseteq DOMAIN uidMap
         THEN /\ visited' = [from |-> MapState(v, uidMap),
                             edges |-> {MapEdge(e, uidMap) : e \in edges}]
              /\ unvisited' = Tail(unvisited)
              /\ UNCHANGED phase
         ELSE phase' = "aborted" /\ UNCHANGED <<visited, unvisited>>
  /\ UNCHANGED <<uidSet, uidVect, uidMap, counter>>

AllVisited ==
  /\ phase = "map" /\ unvisited = <<>>
  /\ phase' = "normalized"
  /\ UNCHANGED <<uidSet, uidVect, uidMap, counter, unvisited, visited>>

NormNext == NumberUid \/ AllNumbered \/ VisitEdges \/ AllVisited
-----------------------------------------------------------------------------
\* The renamed graph is the graph an exploration with the normalised ids would
\* yield, vertex by vertex and edge by edge: the kernel treats all ids but 0 and
\* -1 alike, and no two users become one (generateUIDMap, visitEdge).
RenamedIsExplored ==
  phase = "map" /\ visited.edges # {} =>
    visited.edges = OutEdges(visited.from, Calls(NewUsers, ExtraParams))
=============================================================================
