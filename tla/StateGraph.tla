----------------------------- MODULE StateGraph -----------------------------
(***************************************************************************)
(* The id state graph that c/priv2/priv2_graph.c walks: the tables that    *)
(* src/ModuleCodeGen.h prints from a normalised exploration of the kernel  *)
(* (adjacency_matrix, predecessor_matrix, effective_privileged_states),    *)
(* the renaming of a process's ids into the graph's small ids and back,    *)
(* and the questions and walks built on them.                              *)
(*                                                                         *)
(* A vertex is a triple over 0..MaxNormalizedIds: 0 is the super-user, the *)
(* others stand for "some other user".  The exploration starts as root,    *)
(* which reaches every triple, so every triple is a vertex.                *)
(***************************************************************************)
EXTENDS SetIds, SequencesExt

CONSTANT MaxNormalizedIds         \* MAX_NORMALIZED_IDS of the generated header

ASSUME MaxIdsAssumption == MaxNormalizedIds \in Nat \ {0}

GidMapLimit == 3                  \* the 3 of assert(map->counter < 3)

(***************************************************************************)
(* Vertices are numbered in the order the generator sorts them; the tables *)
(* are indexed by these numbers (state_idx_lookup).                        *)
(***************************************************************************)
Base      == MaxNormalizedIds + 1
Vertices  == 0 .. Base * Base * Base - 1
Lookup(t) == (t.r * Base + t.e) * Base + t.s
StateOf   == [v \in Vertices |-> [r |-> v \div (Base * Base),
                                  e |-> (v \div Base) % Base,
                                  s |-> v % Base]]

(***************************************************************************)
(* The calls that may lead to t, in the order the generator sorts them: by *)
(* function, then by parameters, Keep (-1, a signed parameter) first.  A   *)
(* call with a parameter outside t and Keep cannot lead to t.              *)
(***************************************************************************)
CallsTo(t) ==
  << SetIdCall("setuid",    <<t.e>>),
     SetIdCall("seteuid",   <<t.e>>),
     SetIdCall("setreuid",  <<Keep, t.e>>),
     SetIdCall("setreuid",  <<t.r, Keep>>),
     SetIdCall("setreuid",  <<t.r, t.e>>),
     SetIdCall("setresuid", <<Keep, Keep, t.s>>),
     SetIdCall("setresuid", <<Keep, t.e, Keep>>),
     SetIdCall("setresuid", <<Keep, t.e, t.s>>),
     SetIdCall("setresuid", <<t.r, Keep, Keep>>),
     SetIdCall("setresuid", <<t.r, Keep, t.s>>),
     SetIdCall("setresuid", <<t.r, t.e, Keep>>),
     SetIdCall("setresuid", <<t.r, t.e, t.s>>) >>

LeadsTo(c, s, t) == Allowed(c, s, s.e = 0) /\ After(c, s, s.e = 0) = t

\* adjacency_matrix[v][w][0]: the index in CallsTo of the first call from v to
\* w, 0 (the NULL list) if no call leads there.
Adjacent == [v \in Vertices |-> [w \in Vertices |->
  SelectInSeq(CallsTo(StateOf[w]), LAMBDA c : LeadsTo(c, StateOf[v], StateOf[w]))]]

Edge(v, w)      == Adjacent[v][w] # 0
FirstCall(v, w) == CallsTo(StateOf[w])[Adjacent[v][w]]

(***************************************************************************)
(* The walks predecessor_matrix[v] may describe.  Each row is a search     *)
(* tree whose source is expanded first: a neighbour of v has v as its      *)
(* predecessor, any other vertex one of the neighbours of v that leads to  *)
(* it.  Which one is left open: the edges are read back without weights,   *)
(* so the tree is whatever order equal distances happened to be taken in.  *)
(***************************************************************************)
OwnStates == [v \in Vertices |-> {Lookup(t) : t \in IdTriples(Own(StateOf[v]))}]

Middles(v, w) == {m \in OwnStates[v] : Edge(v, m) /\ Edge(m, w)}

Walks(v, w) ==
  IF v = w THEN {<<>>}
  ELSE IF Edge(v, w) THEN {<<FirstCall(v, w)>>}
  ELSE {<<FirstCall(v, m), FirstCall(m, w)>> : m \in Middles(v, w)}

Reached == [v \in Vertices |-> [w \in Vertices |->
              v = w \/ Edge(v, w) \/ \E m \in OwnStates[v] : Edge(v, m) /\ Edge(m, w)]]

CanSet(v, w) == Reached[v][w]

(***************************************************************************)
(* Privileged states that serve as a stop between two others.              *)
(***************************************************************************)
EffectivePrivileged == {v \in Vertices : StateOf[v].e = 0}

Stops(v, w) == {p \in EffectivePrivileged : Reached[v][p] /\ Reached[p][w]}

AttainableFrom == [v \in Vertices |-> [w \in Vertices |-> Stops(v, w) # {}]]

Attainable(v, w) == AttainableFrom[v][w]

\* The first of them in the order of the generated list.
SuidFor(v, w) == StateOf[Min(Stops(v, w))]
-----------------------------------------------------------------------------
(***************************************************************************)
(* Normalisation: the ids of the pair <prev, next> are numbered from 1 in  *)
(* the order they are met, 0 keeping its number for uids but not for gids. *)
(* The result has the vertices of the pair; ids that do not fit the map    *)
(* fail an assertion and the rest is not used.                             *)
(***************************************************************************)
IdMap(ids, skipped) ==
  LET new     == {i \in DOMAIN ids : ids[i] \notin skipped /\ \A j \in 1 .. i - 1 : ids[j] # ids[i]}
      Rank(i) == Cardinality({j \in new : j <= i})
  IN  [k \in 1 .. Cardinality(new) |-> ids[CHOOSE i \in new : Rank(i) = k]]

Number(map, id) == CHOOSE i \in DOMAIN map : map[i] = id

Flat(t) == <<t.r, t.e, t.s>>

Renamed(t, num) == [r |-> num[t.r], e |-> num[t.e], s |-> num[t.s]]

NormalizeUids(prev, next) ==
  LET map   == IdMap(Flat(prev) \o Flat(next), {0})
      num   == [id \in ToSet(map) \cup {0} |-> IF id = 0 THEN 0 ELSE Number(map, id)]
  IN  [prev |-> Lookup(Renamed(prev, num)), next |-> Lookup(Renamed(next, num)), map |-> map,
       fits |-> Len(map) < MaxNormalizedIds]

\* Mutant: gids are numbered like uids, 0 keeping its number.
ZeroGidKept(prev, next, forcePrivileged) ==
  LET map   == IdMap(Flat(prev) \o Flat(next), {0})
      num   == [id \in ToSet(map) \cup {0} |-> IF id = 0 THEN 0 ELSE Number(map, id)]
  IN  [prev |-> Lookup(Renamed(prev, num)), next |-> Lookup(Renamed(next, num)), map |-> map,
       fits |-> Len(map) < GidMapLimit]

(***************************************************************************)
(* A process that can become privileged walks the graph as if its          *)
(* effective gid were the super-user's: the gid itself gets no number.     *)
(***************************************************************************)
NormalizeGids(prev, next, forcePrivileged) ==
  LET first == IF forcePrivileged THEN <<prev.r, prev.s>> ELSE Flat(prev)
      map   == IdMap(first \o Flat(next), {})
      num   == [id \in ToSet(map) |-> Number(map, id)]
      from  == [r |-> num[prev.r],
                e |-> IF forcePrivileged THEN 0 ELSE num[prev.e],
                s |-> num[prev.s]]
  IN  [prev |-> Lookup(from), next |-> Lookup(Renamed(next, num)), map |-> map,
       fits |-> Len(map) < GidMapLimit]

\* The actual parameters of a call of the graph.
MapParams(map, c) ==
  [c EXCEPT !.args = [i \in DOMAIN c.args |->
     IF c.args[i] \in {Keep, 0} THEN c.args[i] ELSE map[c.args[i]]]]

\* Every parameter has a number in the map.  0 has none among the gids.
Mapped(map, c, zeroPasses) ==
  \A i \in DOMAIN c.args :
    c.args[i] \in DOMAIN map \cup {Keep} \cup (IF zeroPasses THEN {0} ELSE {})
=============================================================================
