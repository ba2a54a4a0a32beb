--------------------------- MODULE ModuleGenerator ---------------------------
(***************************************************************************)
(* GenerateCode: from the archive of a normalised graph, ModuleGenerator   *)
(* prints the tables c/priv2/priv2_graph.c walks.  StateGraph says what    *)
(* the walker takes these tables to be; here they come out of the edges,   *)
(* a row of the matrices for each vertex in turn.                          *)
(*                                                                         *)
(* A predecessor row is a run of Dijkstra's algorithm on edges that were   *)
(* read without their weights: every distance is 0 once it is known, so    *)
(* after the row's own vertex the queue may yield its vertices in any      *)
(* order.                                                                  *)
(***************************************************************************)
EXTENDS StateGraph, SetuidGraph

VARIABLES
  stage,        \* waiting for a graph, rows, generated, or aborted
  row,          \* the vertex whose row is generated, in the order of the states
  cells,        \* adjacency_matrix[row]: the first call to each vertex, or NoCall
  pred,         \* predecessor_matrix[row]
  found,        \* the vertices that have a distance
  jump          \* priv_jumps[row]

genVars == <<stage, row, cells, pred, found, jump>>

NoCall == SetIdCall("NULL", <<>>)
NoJump == -1                            \* a NULL state in priv_jumps

\* The normalised graph: users 0..MaxNormalizedIds, -1 given too.
GraphCalls == Calls((0 .. MaxNormalizedIds) \cup {Keep}, {Keep})

\* The list of calls from one state to another is sorted; this is its head.  A
\* refused call is an edge as well, so it may head the list from a state to itself.
FirstOf(v, w) ==
  LET c == SelectInSeq(GraphCalls, LAMBDA x : EdgeOf(StateOf[v], x).to = StateOf[w])
  IN  IF c = 0 THEN NoCall ELSE GraphCalls[c]

\* Every list, once: EdgeMapAccumulator sorts the calls by the pair they join.
CallLists == [v \in Vertices |-> [w \in Vertices |-> FirstOf(v, w)]]

Successors == [v \in Vertices |-> {w \in Vertices : CallLists[v][w] # NoCall}]

\* SetuidState::operator<, and the number of a state in that order.
Before(t, u) ==
  \/ t.r < u.r
  \/ t.r = u.r /\ t.e < u.e
  \/ t.r = u.r /\ t.e = u.e /\ t.s < u.s

StateIdx == [t \in IdTriples(0 .. MaxNormalizedIds) |->
               Cardinality({u \in IdTriples(0 .. MaxNormalizedIds) : Before(u, t)})]

(***************************************************************************)
(* PrivJumpAccumulator: a state that can regain effective uid 0 jumps to   *)
(* the first candidate with a way back; the candidates come in the order   *)
(* the explorer happened to add the edges.  If none has one, the           *)
(* accumulator's assertion fails and no table is printed.                  *)
(***************************************************************************)
\* Mutant: the real and the saved id are not looked at.
CanRegainAny(v) == StateOf[v].e # 0

CanRegain(v) == StateOf[v].e # 0 /\ 0 \in {StateOf[v].r, StateOf[v].s}

Jumps(v) == {w \in Successors[v] : StateOf[w].e = 0 /\ v \in Successors[w]}

GenInit ==
  /\ stage = "waiting"
  /\ row = 0 /\ cells = [w \in Vertices |-> NoCall]
  /\ pred = [w \in Vertices |-> w] /\ found = {} /\ jump = NoJump

\* The rows of the adjacency matrix and of the jumps, and a new search.
StartRow ==
  /\ stage = "rows" /\ found = {} /\ row \in Vertices
  /\ cells' = CallLists[row]
  /\ jump'  \in IF CanRegain(row) /\ Jumps(row) # {} THEN Jumps(row) ELSE {NoJump}
  /\ stage' = IF CanRegain(row) /\ Jumps(row) = {} THEN "aborted" ELSE "rows"
  /\ pred'  = [w \in Vertices |-> w]
  /\ found' = {row}
  /\ UNCHANGED row

\* The search takes u from its queue and gives its unknown successors a
\* distance and u as predecessor.  Taking one without any changes nothing.
Unknown(u) == Successors[u] \ found

\* Mutant: a vertex is given the predecessor met last.
ExpandAgain(u) ==
  /\ stage = "rows" /\ u \in found /\ Unknown(u) # {}
  /\ pred'  = [w \in Vertices |-> IF w \in Successors[u] \ {row} THEN u ELSE pred[w]]
  /\ found' = found \cup Unknown(u)
  /\ UNCHANGED <<stage, row, cells, jump>>

Expand(u) ==
  /\ stage = "rows" /\ u \in found /\ Unknown(u) # {}
  /\ pred'  = [w \in Vertices |-> IF w \in Unknown(u) THEN u ELSE pred[w]]
  /\ found' = found \cup Unknown(u)
  /\ UNCHANGED <<stage, row, cells, jump>>

RowSearched == found # {} /\ \A u \in found : Unknown(u) = {}

EndRow ==
  /\ stage = "rows" /\ RowSearched
  /\ row' = row + 1 /\ found' = {}
  /\ cells' = [w \in Vertices |-> NoCall] /\ pred' = [w \in Vertices |-> w] /\ jump' = NoJump
  /\ stage' = IF row' \in Vertices THEN "rows" ELSE "generated"

GenNext == StartRow \/ (\E u \in Vertices : Expand(u)) \/ EndRow
-----------------------------------------------------------------------------
\* The adjacency matrix holds what the walker takes from it: from one state to
\* another the first call of the list is StateGraph's, and there is none where
\* it has none; a state is found under the number the lookup gives it
\* (generateCallLists, generateAdjMatrix, streamStateIdxLookup).
AdjacencyAgrees ==
  found # {} =>
    /\ StateIdx[StateOf[row]] = Lookup(StateOf[row])
    /\ \A w \in Vertices \ {row} :
         cells[w] = IF Edge(row, w) THEN FirstCall(row, w) ELSE NoCall

\* Whatever order equal distances are taken in, a finished predecessor row leads
\* from the row's vertex to every vertex StateGraph calls reachable, and only to
\* these, by one of the walks it allows (generatePredecessors, getPredecessor).
WalkTo(w) ==
  IF w = row THEN <<>>
  ELSE IF pred[w] = row THEN <<cells[w]>>
  ELSE <<cells[pred[w]], CallLists[pred[w]][w]>>

RowsAreWalks ==
  stage = "rows" /\ RowSearched =>
    \A w \in Vertices :
      /\ CanSet(row, w) <=> w = row \/ pred[w] # w
      /\ CanSet(row, w) => pred[pred[w]] = row /\ WalkTo(w) \in Walks(row, w)

\* The generator's assertion that a jump was found never fails, and its table says
\* what suid_privilege_is_attainable finds by searching: from a state without
\* effective uid 0, a target can be reached by way of a privileged state exactly if
\* the state has a jump that is such a way (VisitorAccumulatorImpl.h:96;
\* priv2_graph.c:475).
JumpsAreStops ==
  /\ stage # "aborted"
  /\ found # {} /\ StateOf[row].e # 0 =>
       \A w \in Vertices : Attainable(row, w) <=> jump \in Stops(row, w)
=============================================================================
