--------------------------- MODULE StateGraphProofs ---------------------------
(***************************************************************************)
(* Facts about StateGraph, for every number of normalised ids: what the    *)
(* numbering of the vertices and of the ids of a pair keeps, which         *)
(* vertices reach which, and that a process that makes the calls of a walk *)
(* goes where the graph says.                                              *)
(***************************************************************************)
EXTENDS StateGraph, FiniteSetTheorems, SequenceTheorems, WellFoundedInduction, TLAPS

(***************************************************************************)
(* The vertices.                                                           *)
(***************************************************************************)
Normals == 0 .. MaxNormalizedIds

\* A number written with two digits to the base B is taken apart again.
LEMMA Digits ==
  ASSUME NEW B \in Nat \ {0}, NEW q \in Nat, NEW d \in 0 .. B - 1
  PROVE  (q * B + d) \div B = q /\ (q * B + d) % B = d
<1> DEFINE n == q * B + d
           m == n \div B
           x == n % B
<1>0. n \in Nat
  OBVIOUS
<1>1. m \in Int /\ x \in 0 .. B - 1 /\ n = B * m + x
  BY <1>0
<1>2. B * (m - q) = d - x /\ d - x < B /\ d - x > -B
  BY <1>1
<1>3. m - q < 1
  BY <1>1, <1>2
<1>4. m - q > -1
  BY <1>1, <1>2
<1>5. m = q
  BY <1>1, <1>3, <1>4
<1> QED
  BY <1>1, <1>5

\* A vertex has a number of its own.
LEMMA LookupInverse ==
  ASSUME NEW t \in IdTriples(Normals)
  PROVE  Lookup(t) \in Vertices /\ StateOf[Lookup(t)] = t
<1>1. /\ t.r \in 0 .. Base - 1 /\ t.e \in 0 .. Base - 1 /\ t.s \in 0 .. Base - 1
      /\ Base \in Nat \ {0} /\ t = [r |-> t.r, e |-> t.e, s |-> t.s]
  BY MaxIdsAssumption DEF IdTriples, Normals, Base
<1> DEFINE hi == t.r * Base + t.e
           v  == hi * Base + t.s
<1>2. hi \in Nat /\ v \in Nat /\ Lookup(t) = v
  BY <1>1 DEF Lookup
<1>3. v \div Base = hi /\ v % Base = t.s
  BY <1>1, <1>2, Digits
<1>4. hi \div Base = t.r /\ hi % Base = t.e
  BY <1>1, Digits
<1>5. v \div (Base * Base) = t.r /\ v <= Base * Base * Base - 1
  <2> DEFINE B2 == Base * Base
             lo == t.e * Base + t.s
  <2>1. B2 \in Nat \ {0} /\ lo \in Nat
    BY <1>1
  <2>2. t.e * Base <= (Base - 1) * Base /\ (Base - 1) * Base = B2 - Base
    BY <1>1
  <2>3. lo \in 0 .. B2 - 1
    BY <1>1, <2>1, <2>2
  <2>4. hi * Base = t.r * B2 + t.e * Base
    BY <1>1
  <2>5. v = t.r * B2 + lo
    BY <1>1, <2>1, <2>4
  <2>6. t.r * B2 <= (Base - 1) * B2 /\ (Base - 1) * B2 = Base * Base * Base - B2
    BY <1>1, <2>1
  <2>7. (t.r * B2 + lo) \div B2 = t.r
    <3> HIDE DEF B2, lo
    <3> QED
      BY <1>1, <2>1, <2>3, Digits
  <2> QED
    BY <1>1, <2>1, <2>3, <2>5, <2>6, <2>7
<1> QED
  BY <1>1, <1>2, <1>3, <1>4, <1>5 DEF StateOf, Vertices

\* Every vertex is the number of some state.
LEMMA VertexIsLookup ==
  ASSUME NEW v \in Vertices
  PROVE  StateOf[v] \in IdTriples(Normals) /\ Lookup(StateOf[v]) = v
<1> DEFINE B  == Base
           hi == v \div B
           s  == v % B
           r  == hi \div B
           e  == hi % B
           B2 == B * B
<1>1. B \in Nat \ {0} /\ v \in Nat /\ v <= B * B * B - 1 /\ B2 \in Nat \ {0}
      /\ Normals = 0 .. B - 1
  BY MaxIdsAssumption DEF Base, Vertices, Normals
<1>2. hi \in Nat /\ s \in 0 .. B - 1 /\ v = hi * B + s
  BY <1>1
<1>3. r \in Nat /\ e \in 0 .. B - 1 /\ hi = r * B + e
  BY <1>1, <1>2
<1> DEFINE lo == e * B + s
<1>4. v = r * B2 + lo
  <2>1. hi * B = r * B2 + e * B
    BY <1>1, <1>3
  <2> QED
    BY <1>1, <1>2, <1>3, <2>1
<1>5. lo \in 0 .. B2 - 1
  <2>1. e * B <= (B - 1) * B /\ (B - 1) * B = B2 - B /\ e * B \in Nat
    BY <1>1, <1>3
  <2> QED
    BY <1>1, <1>2, <2>1
<1>6. v \div B2 = r
  <2> HIDE DEF B2, lo, r
  <2> QED
    BY <1>1, <1>3, <1>4, <1>5, Digits
<1>7. r < B
  <2>1. r * B2 < B * B2 /\ B * B2 = B * B * B
    BY <1>1, <1>2, <1>3, <1>4, <1>5
  <2> HIDE DEF B2, lo, r
  <2> QED
    BY <1>1, <1>3, <2>1
<1>8. StateOf[v] = [r |-> r, e |-> e, s |-> s]
  BY <1>6 DEF StateOf
<1> QED
  BY <1>1, <1>2, <1>3, <1>7, <1>8 DEF IdTriples, Lookup

(***************************************************************************)
(* The edges.  A vertex has an edge to another if it is privileged or the  *)
(* ids of the other are its own; it is reached if one of the ids is 0,     *)
(* which setuid or seteuid make the effective one first.                   *)
(***************************************************************************)
\* A set of positions has a first one.
LEMMA FirstExists ==
  ASSUME NEW I \in SUBSET Nat, I # {}
  PROVE  \E i \in I : \A j \in I : i <= j
<1>1. \E R : IsWellFoundedOn(R, Nat) /\ \A a, b \in Nat : a < b => <<a, b>> \in R
  BY NatLessThanWellFounded DEF OpToRel
<1>2. PICK R : IsWellFoundedOn(R, Nat) /\ \A a, b \in Nat : a < b => <<a, b>> \in R
  BY <1>1
<1>3. \E i \in I : \A j \in I : ~(<<j, i>> \in R)
  <2>1. IsWellFoundedOn(R, Nat)
    BY <1>2
  <2> QED
    BY <2>1, WFMin
<1>4. PICK i \in I : \A j \in I : ~(<<j, i>> \in R)
  BY <1>3
<1>5. ASSUME NEW j \in I PROVE i <= j
  <2>1. i \in Nat /\ j \in Nat /\ ~(<<j, i>> \in R)
    BY <1>4
  <2>2. ~(j < i)
    BY <1>2, <2>1
  <2> QED
    BY <2>1, <2>2
<1> QED
  BY <1>5

\* The first call of a cell leads from the one vertex to the other.
LEMMA FirstCallLeads ==
  ASSUME NEW s \in IdTriples(Normals), NEW t \in IdTriples(Normals)
  PROVE  /\ Edge(Lookup(s), Lookup(t)) <=> \E i \in 1 .. 12 : LeadsTo(CallsTo(t)[i], s, t)
         /\ Edge(Lookup(s), Lookup(t)) =>
              \E i \in 1 .. 12 : /\ FirstCall(Lookup(s), Lookup(t)) = CallsTo(t)[i]
                                 /\ LeadsTo(CallsTo(t)[i], s, t)
<1> DEFINE I == {i \in 1 .. 12 : LeadsTo(CallsTo(t)[i], s, t)}
           n == Adjacent[Lookup(s)][Lookup(t)]
<1>1. Len(CallsTo(t)) = 12
  BY DEF CallsTo
<1>2. /\ Lookup(s) \in Vertices /\ Lookup(t) \in Vertices
      /\ StateOf[Lookup(s)] = s /\ StateOf[Lookup(t)] = t
  BY LookupInverse
<1>3. n = IF I # {} THEN Min(I) ELSE 0
  BY <1>1, <1>2 DEF Adjacent, SelectInSeq
<1>4. I # {} => Min(I) \in I
  BY FirstExists DEF Min
<1> HIDE DEF n
<1>5. n # 0 <=> I # {}
  BY <1>3, <1>4
<1>6. I # {} => n \in I
  BY <1>3, <1>4
<1> QED
  BY <1>2, <1>5, <1>6 DEF Edge, FirstCall, n

\* The calls that may lead to a vertex: each id is the vertex's or is left alone.
CallTo(c, t) ==
  \/ c = SetIdCall("setuid", <<t.e>>)
  \/ c = SetIdCall("seteuid", <<t.e>>)
  \/ \E a \in {Keep, t.r}, b \in {Keep, t.e} : c = SetIdCall("setreuid", <<a, b>>)
  \/ \E a \in {Keep, t.r}, b \in {Keep, t.e}, d \in {Keep, t.s} :
       c = SetIdCall("setresuid", <<a, b, d>>)

\* CallsTo lists no others.
LEMMA CallsToAre ==
  ASSUME NEW t, NEW i \in 1 .. 12
  PROVE  CallTo(CallsTo(t)[i], t)
<1>1. CASE i \in 1 .. 2
  BY <1>1 DEF CallsTo, CallTo
<1>2. CASE i \in 3 .. 5
  BY <1>2 DEF CallsTo, CallTo
<1>3. CASE i \in 6 .. 12
  BY <1>3 DEF CallsTo, CallTo
<1> QED
  BY <1>1, <1>2, <1>3

\* A process without privileges gets no id it does not have.
LEMMA UnprivilegedKeepsOwn ==
  ASSUME NEW S, Keep \notin S, NEW s \in IdTriples(S), NEW t \in IdTriples(S), NEW c, CallTo(c, t),
         Allowed(c, s, FALSE)
  PROVE  Own(After(c, s, FALSE)) \subseteq Own(s)
<1>0. CASE c = SetIdCall("setuid", <<t.e>>)
  <2>1. c.fn = "setuid" /\ c.args[1] = t.e
    BY <1>0 DEF SetIdCall
  <2>2. t.e \in {s.r, s.s} /\ After(c, s, FALSE) = [s EXCEPT !.e = t.e]
    BY <2>1 DEF Allowed, After
  <2> QED
    BY <2>2 DEF Own, IdTriples
<1>1. CASE c = SetIdCall("seteuid", <<t.e>>)
  <2>1. c.fn = "seteuid" /\ c.args[1] = t.e
    BY <1>1 DEF SetIdCall
  <2>2. t.e \in Own(s) /\ After(c, s, FALSE) = [s EXCEPT !.e = t.e]
    BY <2>1 DEF Allowed, After
  <2> QED
    BY <2>2 DEF Own, IdTriples
<1>2. ASSUME NEW a \in {Keep, t.r}, NEW b \in {Keep, t.e}, c = SetIdCall("setreuid", <<a, b>>)
      PROVE  Own(After(c, s, FALSE)) \subseteq Own(s)
  BY <1>2 DEF SetIdCall, Allowed, After, Own, IdTriples, New
<1>3. ASSUME NEW a \in {Keep, t.r}, NEW b \in {Keep, t.e}, NEW d \in {Keep, t.s},
             c = SetIdCall("setresuid", <<a, b, d>>)
      PROVE  Own(After(c, s, FALSE)) \subseteq Own(s)
  <2>1. {a, b, d} \subseteq Own(s) \cup {Keep}
    BY <1>3 DEF SetIdCall, Allowed
  <2> QED
    BY <1>3, <2>1 DEF SetIdCall, After, Own, IdTriples, New
<1> QED
  BY <1>0, <1>1, <1>2, <1>3 DEF CallTo

\* setresuid with all three ids leads to any vertex that may be reached in one step.
LEMMA EdgeIff ==
  ASSUME NEW s \in IdTriples(Normals), NEW t \in IdTriples(Normals)
  PROVE  Edge(Lookup(s), Lookup(t)) <=> s.e = 0 \/ Own(t) \subseteq Own(s)
<1>0. Keep \notin Normals /\ t = [r |-> t.r, e |-> t.e, s |-> t.s]
      /\ t.r \in Normals /\ t.e \in Normals /\ t.s \in Normals
  BY MaxIdsAssumption DEF Normals, Keep, IdTriples
<1>1. ASSUME s.e = 0 \/ Own(t) \subseteq Own(s)
      PROVE  Edge(Lookup(s), Lookup(t))
  <2>1. CallsTo(t)[12] = SetIdCall("setresuid", <<t.r, t.e, t.s>>)
    BY DEF CallsTo
  <2>2. LeadsTo(SetIdCall("setresuid", <<t.r, t.e, t.s>>), s, t)
    BY <1>0, <1>1 DEF LeadsTo, SetIdCall, Allowed, After, New, Own
  <2>3. 12 \in 1 .. 12
    OBVIOUS
  <2> QED
    BY <2>1, <2>2, <2>3, FirstCallLeads
<1>2. ASSUME Edge(Lookup(s), Lookup(t)), s.e # 0
      PROVE  Own(t) \subseteq Own(s)
  <2>1. PICK i \in 1 .. 12 : LeadsTo(CallsTo(t)[i], s, t)
    BY <1>2, FirstCallLeads
  <2>2. CallTo(CallsTo(t)[i], t)
    BY CallsToAre
  <2>3. Allowed(CallsTo(t)[i], s, FALSE) /\ After(CallsTo(t)[i], s, FALSE) = t
    BY <1>2, <2>1 DEF LeadsTo
  <2> QED
    BY <1>0, <2>2, <2>3, UnprivilegedKeepsOwn
<1> QED
  BY <1>1, <1>2

(***************************************************************************)
(* Walks.  The stop of a walk of two calls is privileged.                  *)
(***************************************************************************)
\* The stops between two vertices: the process's own ids, so a step away or privileged.
LEMMA MiddlesAre ==
  ASSUME NEW s \in IdTriples(Normals), NEW t \in IdTriples(Normals),
         NEW k \in OwnStates[Lookup(s)]
  PROVE  \E m \in IdTriples(Own(s)) : m \in IdTriples(Normals) /\ k = Lookup(m)
<1>1. OwnStates[Lookup(s)] = {Lookup(m) : m \in IdTriples(Own(s))}
  BY LookupInverse DEF OwnStates
<1>2. Own(s) \subseteq Normals
  BY DEF Own, IdTriples
<1> QED
  BY <1>1, <1>2 DEF IdTriples

\* can_set_uids: anything that is reached is reached in two calls.
LEMMA ReachedIff ==
  ASSUME NEW s \in IdTriples(Normals), NEW t \in IdTriples(Normals)
  PROVE  CanSet(Lookup(s), Lookup(t)) <=> 0 \in Own(s) \/ Own(t) \subseteq Own(s)
<1>1. CanSet(Lookup(s), Lookup(t)) <=>
        \/ Lookup(s) = Lookup(t)
        \/ Edge(Lookup(s), Lookup(t))
        \/ \E k \in OwnStates[Lookup(s)] : Edge(Lookup(s), k) /\ Edge(k, Lookup(t))
  BY LookupInverse DEF CanSet, Reached
<1>2. Lookup(s) = Lookup(t) => s = t
  BY LookupInverse
<1>3. ASSUME NEW k \in OwnStates[Lookup(s)], Edge(Lookup(s), k), Edge(k, Lookup(t)), 0 \notin Own(s)
      PROVE  Own(t) \subseteq Own(s)
  <2>1. PICK m \in IdTriples(Own(s)) : m \in IdTriples(Normals) /\ k = Lookup(m)
    BY MiddlesAre
  <2>2. Own(m) \subseteq Own(s) /\ m.e # 0
    BY <1>3, <2>1 DEF Own, IdTriples
  <2> QED
    BY <1>3, <2>1, <2>2, EdgeIff
<1>4. ASSUME 0 \in Own(s)
      PROVE  \E k \in OwnStates[Lookup(s)] : Edge(Lookup(s), k) /\ Edge(k, Lookup(t))
  <2> DEFINE m == AllSame(0)
  <2>1. m \in IdTriples(Own(s)) /\ m \in IdTriples(Normals) /\ m.e = 0 /\ Own(m) = {0}
    BY <1>4, MaxIdsAssumption DEF AllSame, IdTriples, Own, Normals
  <2> HIDE DEF m
  <2>2. Lookup(m) \in OwnStates[Lookup(s)]
    BY <2>1, LookupInverse DEF OwnStates
  <2>3. Edge(Lookup(s), Lookup(m)) /\ Edge(Lookup(m), Lookup(t))
    BY <1>4, <2>1, EdgeIff
  <2> QED
    BY <2>2, <2>3
<1>5. 0 \in Own(s) <=> s.r = 0 \/ s.e = 0 \/ s.s = 0
  BY DEF Own
<1> QED
  BY <1>1, <1>2, <1>3, <1>4, <1>5, EdgeIff

\* What a walk looks like.
IsWalk(w, s, t) ==
  \/ w = <<>> /\ s = t
  \/ \E c : w = <<c>> /\ CallTo(c, t) /\ LeadsTo(c, s, t)
  \/ /\ 0 \in Own(s) /\ s.e # 0
     /\ \E m \in IdTriples(Own(s)) : \E c, d :
          /\ w = <<c, d>> /\ m.e = 0
          /\ CallTo(c, m) /\ LeadsTo(c, s, m)
          /\ CallTo(d, t) /\ LeadsTo(d, m, t)

\* predecessor_matrix holds walks, whatever order its distances were taken in.
LEMMA WalksAre ==
  ASSUME NEW s \in IdTriples(Normals), NEW t \in IdTriples(Normals),
         NEW w \in Walks(Lookup(s), Lookup(t))
  PROVE  IsWalk(w, s, t)
<1>1. CASE Lookup(s) = Lookup(t)
  BY <1>1, LookupInverse DEF Walks, IsWalk
<1>2. CASE Lookup(s) # Lookup(t) /\ Edge(Lookup(s), Lookup(t))
  <2>1. w = <<FirstCall(Lookup(s), Lookup(t))>>
    BY <1>2 DEF Walks
  <2>2. CallTo(FirstCall(Lookup(s), Lookup(t)), t) /\ LeadsTo(FirstCall(Lookup(s), Lookup(t)), s, t)
    BY <1>2, FirstCallLeads, CallsToAre
  <2> QED
    BY <2>1, <2>2 DEF IsWalk
<1>3. CASE Lookup(s) # Lookup(t) /\ ~Edge(Lookup(s), Lookup(t))
  <2>1. PICK k \in Middles(Lookup(s), Lookup(t)) :
          w = <<FirstCall(Lookup(s), k), FirstCall(k, Lookup(t))>>
    BY <1>3 DEF Walks
  <2>2. k \in OwnStates[Lookup(s)] /\ Edge(Lookup(s), k) /\ Edge(k, Lookup(t))
    BY DEF Middles
  <2>3. PICK m \in IdTriples(Own(s)) : m \in IdTriples(Normals) /\ k = Lookup(m)
    BY <2>2, MiddlesAre
  <2>4. /\ CallTo(FirstCall(Lookup(s), Lookup(m)), m) /\ LeadsTo(FirstCall(Lookup(s), Lookup(m)), s, m)
        /\ CallTo(FirstCall(Lookup(m), Lookup(t)), t) /\ LeadsTo(FirstCall(Lookup(m), Lookup(t)), m, t)
    BY <2>2, <2>3, FirstCallLeads, CallsToAre
  <2>5. s.e # 0 /\ ~(Own(t) \subseteq Own(s)) /\ Own(m) \subseteq Own(s)
    BY <1>3, EdgeIff DEF Own, IdTriples
  <2>6. m.e = 0
    BY <2>2, <2>3, <2>5, EdgeIff
  <2>7. 0 \in Own(s)
    BY <2>5, <2>6 DEF Own
  <2> QED
    BY <2>1, <2>3, <2>4, <2>5, <2>6, <2>7 DEF IsWalk
<1> QED
  BY <1>1, <1>2, <1>3

(***************************************************************************)
(* Privilege is attainable exactly for who has the id 0, and the stop the  *)
(* table names is then the one whose ids are all 0, the first of all.      *)
(***************************************************************************)
LEMMA AttainableIff ==
  ASSUME NEW s \in IdTriples(Normals), NEW t \in IdTriples(Normals)
  PROVE  /\ Attainable(Lookup(s), Lookup(t)) <=> 0 \in Own(s)
         /\ 0 \in Own(s) => SuidFor(Lookup(s), Lookup(t)) = AllSame(0)
<1> DEFINE v    == Lookup(s)
           w    == Lookup(t)
           root == AllSame(0)
<1>0. v \in Vertices /\ w \in Vertices /\ Vertices \subseteq Nat
  BY LookupInverse DEF Vertices
<1>1. root \in IdTriples(Normals) /\ root.e = 0 /\ Own(root) = {0} /\ Lookup(root) = 0
  BY MaxIdsAssumption DEF AllSame, IdTriples, Own, Normals, Lookup, Base
<1>2. StateOf[0] = root /\ 0 \in Vertices
  BY <1>1, LookupInverse
<1>3. 0 \in EffectivePrivileged
  BY <1>1, <1>2 DEF EffectivePrivileged
<1>4. 0 \in Own(s) => 0 \in Stops(v, w)
  <2> SUFFICES ASSUME 0 \in Own(s) PROVE CanSet(v, 0) /\ CanSet(0, w)
    BY <1>3 DEF Stops, CanSet
  <2> QED
    BY <1>1, ReachedIff
<1>5. ASSUME NEW p \in Stops(v, w) PROVE 0 \in Own(s)
  <2>1. p \in Vertices /\ StateOf[p].e = 0 /\ CanSet(v, p)
    BY DEF Stops, EffectivePrivileged, CanSet
  <2>2. StateOf[p] \in IdTriples(Normals) /\ Lookup(StateOf[p]) = p
    BY <2>1, VertexIsLookup
  <2> QED
    BY <2>1, <2>2, ReachedIff DEF Own
<1>6. Attainable(v, w) <=> Stops(v, w) # {}
  BY <1>0 DEF Attainable, AttainableFrom
<1>7. ASSUME 0 \in Own(s) PROVE Min(Stops(v, w)) = 0
  <2>1. 0 \in Stops(v, w) /\ \A p \in Stops(v, w) : p \in Nat
    BY <1>0, <1>4, <1>7 DEF Stops, EffectivePrivileged
  <2> QED
    BY <2>1 DEF Min
<1> QED
  BY <1>2, <1>4, <1>5, <1>6, <1>7 DEF SuidFor
-----------------------------------------------------------------------------
(***************************************************************************)
(* Normalisation: the map of a pair holds each id of it once, so numbers   *)
(* and ids correspond.                                                     *)
(***************************************************************************)
\* map lists the elements of T, of which S has more, each once.
Enumerates(map, T, S) ==
  /\ map \in Seq(S) /\ Len(map) \in Nat /\ DOMAIN map = 1 .. Len(map)
  /\ \A k, l \in DOMAIN map : map[k] = map[l] => k = l
  /\ ToSet(map) = T /\ Len(map) = Cardinality(T)

\* map_uid and map_gid: ids are numbered without gaps, each once.
LEMMA IdMapIs ==
  ASSUME NEW S, NEW n \in Nat, NEW ids \in [1 .. n -> S], NEW skipped
  PROVE  Enumerates(IdMap(ids, skipped), {ids[i] : i \in 1 .. n} \ skipped, S)
<1> DEFINE new     == {i \in DOMAIN ids : ids[i] \notin skipped /\ \A j \in 1 .. i - 1 : ids[j] # ids[i]}
           Upto(i) == {j \in new : j <= i}
           Rank(i) == Cardinality(Upto(i))
           size    == Cardinality(new)
           map     == IdMap(ids, skipped)
<1>1. new \subseteq 1 .. n /\ IsFiniteSet(new) /\ size \in Nat
  <2>1. new \subseteq 1 .. n
    OBVIOUS
  <2>2. IsFiniteSet(1 .. n)
    BY FS_Interval
  <2> QED
    BY <2>1, <2>2, FS_Subset, FS_CardinalityType
<1>2. \A i, j \in new : ids[i] = ids[j] => i = j
  <2> SUFFICES ASSUME NEW i \in new, NEW j \in new, ids[i] = ids[j], i < j PROVE FALSE
    BY <1>1
  <2> QED
    BY <1>1
<1>3. ASSUME NEW i \in new PROVE Rank(i) \in 1 .. size
  <2>1. Upto(i) \in SUBSET new /\ i \in Upto(i)
    BY <1>1
  <2>2. IsFiniteSet(Upto(i)) /\ Cardinality(Upto(i)) <= size /\ Cardinality(Upto(i)) \in Nat
    BY <1>1, <2>1, FS_Subset, FS_CardinalityType
  <2>3. Cardinality(Upto(i)) # 0
    BY <2>1, <2>2, FS_EmptySet
  <2> QED
    BY <2>2, <2>3
<1>4. ASSUME NEW a \in new, NEW b \in new, a < b PROVE Rank(a) # Rank(b)
  <2>1. Upto(a) \in SUBSET Upto(b) /\ b \in Upto(b) /\ b \notin Upto(a)
    BY <1>1, <1>4
  <2>2. IsFiniteSet(Upto(b))
    BY <1>1, FS_Subset
  <2> QED
    BY <2>1, <2>2, FS_Subset
<1> HIDE DEF new, Rank, size
<1>5. \A k \in 1 .. size : \E i \in new : Rank(i) = k
  <2> DEFINE f == [i \in new |-> Rank(i)]
  <2>1. f \in [new -> 1 .. size] /\ IsInjective(f)
    BY <1>1, <1>3, <1>4 DEF IsInjective
  <2>2. IsFiniteSet(1 .. size) /\ Cardinality(1 .. size) = size /\ Cardinality(new) = size
    BY <1>1, FS_Interval DEF size
  <2> HIDE DEF f
  <2>3. f \in Injection(new, 1 .. size)
    BY <2>1 DEF Injection
  <2>4. f \in Surjection(new, 1 .. size)
    BY <2>2, <2>3, FS_Injection
  <2> QED
    BY <2>4 DEF Surjection, f
<1> DEFINE at == [k \in 1 .. size |-> CHOOSE i \in new : Rank(i) = k]
<1>6. \A k \in 1 .. size : at[k] \in new /\ Rank(at[k]) = k
  BY <1>5
<1>7. \A i \in new : at[Rank(i)] = i
  <2> SUFFICES ASSUME NEW i \in new PROVE at[Rank(i)] = i
    OBVIOUS
  <2> DEFINE j == at[Rank(i)]
  <2>1. j \in new /\ Rank(j) = Rank(i)
    BY <1>3, <1>6
  <2> HIDE DEF j
  <2>2. ~(j < i) /\ ~(i < j) /\ i \in Nat /\ j \in Nat
    BY <1>1, <1>4, <2>1
  <2>3. j = i
    BY <2>2
  <2> QED
    BY <2>3 DEF j
<1>8. map = [k \in 1 .. size |-> ids[at[k]]]
  BY DEF map, IdMap, new, Rank, size
<1> HIDE DEF at, map
<1>9. map \in Seq(S) /\ Len(map) = size /\ DOMAIN map = 1 .. size
  <2>1. \A k \in 1 .. size : ids[at[k]] \in S
    BY <1>1, <1>6
  <2>2. map \in [1 .. size -> S]
    BY <1>8, <2>1
  <2> QED
    BY <1>1, <2>2
<1>10. \A k, l \in DOMAIN map : map[k] = map[l] => k = l
  BY <1>2, <1>6, <1>8, <1>9
<1>11. ToSet(map) = {ids[i] : i \in new}
  <2>1. \A k \in 1 .. size : at[k] \in new /\ map[k] = ids[at[k]]
    BY <1>6, <1>8
  <2>2. \A i \in new : Rank(i) \in 1 .. size /\ map[Rank(i)] = ids[i]
    BY <1>3, <1>7, <1>8
  <2> QED
    BY <1>9, <2>1, <2>2 DEF ToSet
<1>12. {ids[i] : i \in new} = {ids[i] : i \in 1 .. n} \ skipped
  <2>1. ASSUME NEW i \in 1 .. n, ids[i] \notin skipped
        PROVE  \E j \in new : ids[j] = ids[i]
    <3> DEFINE same == {j \in 1 .. n : ids[j] = ids[i]}
    <3>1. same \in SUBSET Nat /\ i \in same
      OBVIOUS
    <3>2. PICK j \in same : \A l \in same : j <= l
      BY <3>1, FirstExists
    <3> QED
      BY <2>1, <3>2 DEF new
  <2> QED
    BY <1>1, <2>1 DEF new
<1>13. Cardinality(ToSet(map)) = size /\ IsFiniteSet(ToSet(map))
  <2>1. map \in Surjection(1 .. size, ToSet(map)) /\ map \in Injection(1 .. size, ToSet(map))
    BY <1>9, <1>10 DEF Surjection, Injection, IsInjective, ToSet
  <2>2. IsFiniteSet(1 .. size) /\ Cardinality(1 .. size) = size
    BY <1>1, FS_Interval DEF size
  <2> QED
    BY <2>1, <2>2, FS_Surjection
<1> QED
  BY <1>1, <1>9, <1>10, <1>11, <1>12, <1>13 DEF map, size, Enumerates
-----------------------------------------------------------------------------
(***************************************************************************)
(* Renaming.  f names the real id of each number in D.  A call of the      *)
(* graph, with its parameters renamed, does to the real ids what the graph *)
(* says; the effective id may be one without a number if the call replaces *)
(* it, which privilege allows.                                             *)
(***************************************************************************)
Image(f, t) == [r |-> f[t.r], e |-> f[t.e], s |-> f[t.s]]

Real(f, param) == IF param = Keep THEN Keep ELSE f[param]

RealCall(f, c) == [fn |-> c.fn, args |-> [i \in DOMAIN c.args |-> Real(f, c.args[i])]]

\* One renaming is as good as another.
LEMMA CallFollows ==
  ASSUME NEW D, Keep \notin D, NEW f \in [D -> Nat], \A x, y \in D : f[x] = f[y] => x = y,
         NEW s, NEW t \in IdTriples(D), s = [r |-> s.r, e |-> s.e, s |-> s.s], s.r \in D, s.s \in D,
         NEW g, g = [r |-> f[s.r], e |-> g.e, s |-> f[s.s]],
         NEW priv \in BOOLEAN, NEW c, CallTo(c, t), Allowed(c, s, priv), After(c, s, priv) = t,
         \/ s.e \in D /\ g.e = f[s.e]
         \/ priv /\ s.e \notin D
  PROVE  /\ Allowed(RealCall(f, c), g, priv)
         /\ After(RealCall(f, c), g, priv) = Image(f, t)
         /\ \A i \in DOMAIN c.args : c.args[i] \in D \cup {Keep}
<1>0. /\ t.r \in D /\ t.e \in D /\ t.s \in D /\ t = [r |-> t.r, e |-> t.e, s |-> t.s]
      /\ f[t.r] # Keep /\ f[t.e] # Keep /\ f[t.s] # Keep
      /\ t.r # Keep /\ t.e # Keep /\ t.s # Keep
  BY DEF IdTriples, Keep
<1>1. CASE c = SetIdCall("setuid", <<t.e>>)
  <2>1. c.fn = "setuid" /\ c.args = <<t.e>> /\ c.args[1] = t.e /\ DOMAIN c.args = {1}
    BY <1>1 DEF SetIdCall
  <2>2. RealCall(f, c) = [fn |-> "setuid", args |-> [i \in {1} |-> f[t.e]]]
    BY <1>0, <2>1 DEF RealCall, Real
  <2>3. priv \/ t.e \in {s.r, s.s}
    BY <2>1 DEF Allowed
  <2>4. t = IF priv THEN AllSame(t.e) ELSE [s EXCEPT !.e = t.e]
    BY <2>1 DEF After
  <2> QED
    BY <1>0, <2>1, <2>2, <2>3, <2>4 DEF Allowed, After, Image, AllSame
<1>2. CASE c = SetIdCall("seteuid", <<t.e>>)
  <2>1. c.fn = "seteuid" /\ c.args = <<t.e>> /\ c.args[1] = t.e /\ DOMAIN c.args = {1}
    BY <1>2 DEF SetIdCall
  <2>2. RealCall(f, c) = [fn |-> "seteuid", args |-> [i \in {1} |-> f[t.e]]]
    BY <1>0, <2>1 DEF RealCall, Real
  <2>3. priv \/ t.e \in Own(s)
    BY <2>1 DEF Allowed
  <2>4. t = [s EXCEPT !.e = t.e]
    BY <2>1 DEF After
  <2> QED
    BY <1>0, <2>1, <2>2, <2>3, <2>4 DEF Allowed, After, Image, Own
<1>3. ASSUME NEW a \in {Keep, t.r}, NEW b \in {Keep, t.e}, c = SetIdCall("setreuid", <<a, b>>)
      PROVE  /\ Allowed(RealCall(f, c), g, priv)
             /\ After(RealCall(f, c), g, priv) = Image(f, t)
             /\ \A i \in DOMAIN c.args : c.args[i] \in D \cup {Keep}
  <2>1. c.fn = "setreuid" /\ c.args[1] = a /\ c.args[2] = b /\ DOMAIN c.args = 1 .. 2
    BY <1>3 DEF SetIdCall
  <2> DEFINE x == Real(f, a)
             y == Real(f, b)
             d == RealCall(f, c)
  <2>2. d.fn = "setreuid" /\ d.args[1] = x /\ d.args[2] = y
    BY <2>1 DEF RealCall
  <2>3. /\ a = Keep <=> x = Keep
        /\ b = Keep <=> y = Keep
        /\ a # Keep => x = f[a]
        /\ b # Keep => y = f[b]
    BY <1>0 DEF Real
  <2>4. priv \/ (a \in {Keep, s.r, s.e} /\ b \in Own(s) \cup {Keep})
    BY <2>1 DEF Allowed
  <2>5. /\ t.r = New(a, s.r) /\ t.e = New(b, s.e)
        /\ t.s = IF a # Keep \/ b \notin {Keep, s.r} THEN t.e ELSE s.s
    BY <2>1 DEF After
  <2>6. b # Keep => (b = s.r <=> y = f[s.r])
    BY <1>0, <2>3
  <2> HIDE DEF x, y, d
  <2>7. /\ New(x, g.r) = f[t.r]
        /\ New(y, g.e) = f[t.e]
        /\ f[t.s] = IF x # Keep \/ y \notin {Keep, g.r} THEN f[t.e] ELSE g.s
    BY <1>0, <2>3, <2>5, <2>6 DEF New
  <2>8. After(d, g, priv) = Image(f, t)
    BY <2>2, <2>7 DEF After, Image
  <2>9. priv \/ (x \in {Keep, g.r, g.e} /\ y \in Own(g) \cup {Keep})
    BY <1>0, <2>3, <2>4 DEF Own
  <2>10. Allowed(d, g, priv)
    BY <2>2, <2>9 DEF Allowed
  <2> QED
    BY <1>0, <2>1, <2>8, <2>10 DEF d
<1>4. ASSUME NEW a \in {Keep, t.r}, NEW b \in {Keep, t.e}, NEW k \in {Keep, t.s},
             c = SetIdCall("setresuid", <<a, b, k>>)
      PROVE  /\ Allowed(RealCall(f, c), g, priv)
             /\ After(RealCall(f, c), g, priv) = Image(f, t)
             /\ \A i \in DOMAIN c.args : c.args[i] \in D \cup {Keep}
  <2>1. c.fn = "setresuid" /\ c.args[1] = a /\ c.args[2] = b /\ c.args[3] = k /\ DOMAIN c.args = 1 .. 3
    BY <1>4 DEF SetIdCall
  <2> DEFINE x == Real(f, a)
             y == Real(f, b)
             z == Real(f, k)
             d == RealCall(f, c)
  <2>2. d.fn = "setresuid" /\ d.args[1] = x /\ d.args[2] = y /\ d.args[3] = z
    BY <2>1 DEF RealCall
  <2>3. /\ x = IF a = Keep THEN Keep ELSE f[a]
        /\ y = IF b = Keep THEN Keep ELSE f[b]
        /\ z = IF k = Keep THEN Keep ELSE f[k]
    BY <1>0 DEF Real
  <2>4. priv \/ {a, b, k} \subseteq Own(s) \cup {Keep}
    BY <2>1 DEF Allowed
  <2>5. t.r = New(a, s.r) /\ t.e = New(b, s.e) /\ t.s = New(k, s.s)
    BY <2>1 DEF After
  <2> HIDE DEF x, y, z, d
  <2>7. New(x, g.r) = f[t.r] /\ New(y, g.e) = f[t.e] /\ New(z, g.s) = f[t.s]
    BY <1>0, <2>3, <2>5 DEF New
  <2>8. After(d, g, priv) = Image(f, t)
    BY <2>2, <2>7 DEF After, Image
  <2>9. priv \/ {x, y, z} \subseteq Own(g) \cup {Keep}
    BY <1>0, <2>3, <2>4 DEF Own
  <2>10. Allowed(d, g, priv)
    BY <2>2, <2>9 DEF Allowed
  <2> QED
    BY <1>0, <2>1, <2>8, <2>10 DEF d
<1> QED
  BY <1>1, <1>2, <1>3, <1>4 DEF CallTo

(***************************************************************************)
(* What the two normalisations leave to the walker.  f is the way back     *)
(* from numbers to ids, as map_uids_params and map_gids_params take it.    *)
(***************************************************************************)
Named(map)    == DOMAIN map \cup {0}
UidsBack(map) == [x \in Named(map) |-> IF x = 0 THEN 0 ELSE map[x]]

\* The ids of a pair, one after another.
LEMMA SixIds ==
  ASSUME NEW S, NEW t \in IdTriples(S), NEW u \in IdTriples(S)
  PROVE  /\ Flat(t) \o Flat(u) \in [1 .. 6 -> S]
         /\ {(Flat(t) \o Flat(u))[i] : i \in 1 .. 6} = Own(t) \cup Own(u)
<1> DEFINE ids == Flat(t) \o Flat(u)
<1>1. /\ t.r \in S /\ t.e \in S /\ t.s \in S /\ u.r \in S /\ u.e \in S /\ u.s \in S
      /\ Flat(t) = <<t.r, t.e, t.s>> /\ Flat(u) = <<u.r, u.e, u.s>>
  BY DEF Flat, IdTriples
<1>2. Flat(t) \in Seq(S) /\ Flat(u) \in Seq(S) /\ Len(Flat(t)) = 3 /\ Len(Flat(u)) = 3
  BY <1>1
<1>3. /\ ids \in Seq(S) /\ Len(ids) = 6
      /\ \A i \in 1 .. 6 : ids[i] = IF i <= 3 THEN Flat(t)[i] ELSE Flat(u)[i - 3]
  <2>1. /\ ids \in Seq(S) /\ Len(ids) = Len(Flat(t)) + Len(Flat(u))
        /\ \A i \in 1 .. Len(Flat(t)) + Len(Flat(u)) :
             ids[i] = IF i <= Len(Flat(t)) THEN Flat(t)[i] ELSE Flat(u)[i - Len(Flat(t))]
    BY <1>2, ConcatProperties
  <2> HIDE DEF ids
  <2> QED
    BY <1>2, <2>1
<1> HIDE DEF ids
<1>4. /\ ids[1] = t.r /\ ids[2] = t.e /\ ids[3] = t.s
      /\ ids[4] = u.r /\ ids[5] = u.e /\ ids[6] = u.s
  BY <1>1, <1>3
<1>5. ids \in [1 .. 6 -> S]
  BY <1>3, LenProperties
<1>6. {ids[i] : i \in 1 .. 6} = Own(t) \cup Own(u)
  BY <1>4 DEF Own
<1> QED
  BY <1>5, <1>6 DEF ids

\* The same where the walk does not begin at the effective id.
LEMMA FiveIds ==
  ASSUME NEW S, NEW t \in IdTriples(S), NEW u \in IdTriples(S)
  PROVE  /\ <<t.r, t.s>> \o Flat(u) \in [1 .. 5 -> S]
         /\ {(<<t.r, t.s>> \o Flat(u))[i] : i \in 1 .. 5} = Own(u) \cup {t.r, t.s}
<1> DEFINE two == <<t.r, t.s>>
           ids == two \o Flat(u)
<1>1. /\ t.r \in S /\ t.s \in S /\ u.r \in S /\ u.e \in S /\ u.s \in S
      /\ two = <<t.r, t.s>> /\ Flat(u) = <<u.r, u.e, u.s>>
  BY DEF Flat, IdTriples
<1>2. two \in Seq(S) /\ Flat(u) \in Seq(S) /\ Len(two) = 2 /\ Len(Flat(u)) = 3
  BY <1>1
<1> HIDE DEF two
<1>3. /\ ids \in Seq(S) /\ Len(ids) = 5
      /\ \A i \in 1 .. 5 : ids[i] = IF i <= 2 THEN two[i] ELSE Flat(u)[i - 2]
  <2>1. /\ ids \in Seq(S) /\ Len(ids) = Len(two) + Len(Flat(u))
        /\ \A i \in 1 .. Len(two) + Len(Flat(u)) :
             ids[i] = IF i <= Len(two) THEN two[i] ELSE Flat(u)[i - Len(two)]
    BY <1>2, ConcatProperties
  <2> HIDE DEF ids
  <2> QED
    BY <1>2, <2>1
<1> HIDE DEF ids
<1>4. ids[1] = t.r /\ ids[2] = t.s /\ ids[3] = u.r /\ ids[4] = u.e /\ ids[5] = u.s
  BY <1>1, <1>3
<1>5. ids \in [1 .. 5 -> S]
  BY <1>3, LenProperties
<1>6. {ids[i] : i \in 1 .. 5} = Own(u) \cup {t.r, t.s}
  BY <1>4 DEF Own
<1> QED
  BY <1>5, <1>6 DEF ids, two

\* A number is that of the id it was given to.
LEMMA NumberInverse ==
  ASSUME NEW map, NEW id \in ToSet(map)
  PROVE  Number(map, id) \in DOMAIN map /\ map[Number(map, id)] = id
BY DEF ToSet, Number

\* A pair of uids in the graph's numbers: p and q are the two vertices.
UidsNormalized(prev, next, np, p, q) ==
  LET f == UidsBack(np.map)
  IN  /\ Named(np.map) \subseteq Normals
      /\ f \in [Named(np.map) -> Nat] /\ \A x, y \in Named(np.map) : f[x] = f[y] => x = y
      /\ p \in IdTriples(Named(np.map)) /\ q \in IdTriples(Named(np.map))
      /\ np.prev = Lookup(p) /\ np.next = Lookup(q)
      /\ prev = Image(f, p) /\ next = Image(f, q)

\* A map that fits has numbers that vertices have room for, and gives them back.
LEMMA UidsNormalize ==
  ASSUME NEW U \in SUBSET Nat, NEW prev \in IdTriples(U), NEW next \in IdTriples(U)
  PROVE  LET np == NormalizeUids(prev, next)
         IN  /\ np.fits <=> Cardinality((Own(prev) \cup Own(next)) \ {0}) < MaxNormalizedIds
             /\ np.fits => \E p, q : UidsNormalized(prev, next, np, p, q)
<1> DEFINE np  == NormalizeUids(prev, next)
           ids == Flat(prev) \o Flat(next)
           map == IdMap(ids, {0})
           num == [id \in ToSet(map) \cup {0} |-> IF id = 0 THEN 0 ELSE Number(map, id)]
           f   == UidsBack(map)
           p   == Renamed(prev, num)
           q   == Renamed(next, num)
<1>1. /\ np.map = map /\ np.prev = Lookup(p) /\ np.next = Lookup(q)
      /\ np.fits = (Len(map) < MaxNormalizedIds)
  BY DEF NormalizeUids
<1>2. /\ map \in Seq(U) /\ Len(map) \in Nat /\ DOMAIN map = 1 .. Len(map)
      /\ \A k, l \in DOMAIN map : map[k] = map[l] => k = l
      /\ ToSet(map) = (Own(prev) \cup Own(next)) \ {0}
      /\ Len(map) = Cardinality(ToSet(map))
  <2>1. ids \in [1 .. 6 -> U] /\ {ids[i] : i \in 1 .. 6} = Own(prev) \cup Own(next)
    BY SixIds
  <2> HIDE DEF ids
  <2>2. Enumerates(map, {ids[i] : i \in 1 .. 6} \ {0}, U)
    BY <2>1, IdMapIs
  <2> QED
    BY <2>1, <2>2 DEF Enumerates
<1> HIDE DEF np, map
<1>3. \A id \in ToSet(map) : Number(map, id) \in DOMAIN map /\ map[Number(map, id)] = id
  BY NumberInverse
<1>4. \A k \in DOMAIN map : map[k] \in Nat /\ map[k] # 0
  <2> SUFFICES ASSUME NEW k \in DOMAIN map PROVE map[k] \in Nat /\ map[k] # 0
    OBVIOUS
  <2>1. map[k] \in U
    BY <1>2, ElementOfSeq
  <2>2. map[k] \in ToSet(map)
    BY DEF ToSet
  <2> QED
    BY <1>2, <2>1, <2>2
<1>5. \A x \in Named(map) : f[x] = (IF x = 0 THEN 0 ELSE map[x])
  BY DEF UidsBack
<1>6. f \in [Named(map) -> Nat] /\ \A x, y \in Named(map) : f[x] = f[y] => x = y
  BY <1>2, <1>4 DEF UidsBack, Named
<1>7. \A id \in Own(prev) \cup Own(next) : num[id] \in Named(map) /\ f[num[id]] = id
  <2> SUFFICES ASSUME NEW id \in Own(prev) \cup Own(next)
               PROVE  num[id] \in Named(map) /\ f[num[id]] = id
    OBVIOUS
  <2> HIDE DEF f
  <2>1. id \in ToSet(map) \cup {0}
    BY <1>2
  <2>2. num[id] = IF id = 0 THEN 0 ELSE Number(map, id)
    BY <2>1
  <2> HIDE DEF num
  <2>3. id # 0 => Number(map, id) \in DOMAIN map /\ map[Number(map, id)] = id
    BY <1>3, <2>1
  <2>4. id # 0 => Number(map, id) # 0
    BY <1>2, <2>3
  <2> QED
    BY <1>5, <2>2, <2>3, <2>4 DEF Named
<1> HIDE DEF num, f
<1>8. /\ p \in IdTriples(Named(map)) /\ q \in IdTriples(Named(map))
      /\ prev = Image(f, p) /\ next = Image(f, q)
  BY <1>7 DEF Own, IdTriples, Image, Renamed
<1>9. Len(map) < MaxNormalizedIds => Named(map) \subseteq Normals
  BY <1>2, MaxIdsAssumption DEF Named, Normals
<1> HIDE DEF p, q
<1>10. np.fits => UidsNormalized(prev, next, np, p, q)
  BY <1>1, <1>6, <1>8, <1>9 DEF UidsNormalized, f
<1>11. np.fits <=> Cardinality((Own(prev) \cup Own(next)) \ {0}) < MaxNormalizedIds
  BY <1>1, <1>2
<1> QED
  BY <1>10, <1>11 DEF np

\* A pair of gids.  A process that can become privileged has no number for its
\* effective gid, the walk begins at that of the super-user.
GidsNormalized(prev, next, forced, np, p, q) ==
  /\ DOMAIN np.map \subseteq Normals \ {0}
  /\ np.map \in [DOMAIN np.map -> Nat]
  /\ \A x, y \in DOMAIN np.map : np.map[x] = np.map[y] => x = y
  /\ p = [r |-> p.r, e |-> p.e, s |-> p.s] /\ p.r \in DOMAIN np.map /\ p.s \in DOMAIN np.map
  /\ prev.r = np.map[p.r] /\ prev.s = np.map[p.s]
  /\ IF forced THEN p.e = 0 ELSE p.e \in DOMAIN np.map /\ prev.e = np.map[p.e]
  /\ q \in IdTriples(DOMAIN np.map) /\ next = Image(np.map, q)
  /\ np.prev = Lookup(p) /\ np.next = Lookup(q)

\* The same for gids, of which a map holds two at most.
LEMMA GidsNormalize ==
  ASSUME NEW G \in SUBSET Nat, NEW prev \in IdTriples(G), NEW next \in IdTriples(G),
         NEW forced \in BOOLEAN, MaxNormalizedIds >= 2
  PROVE  LET np == NormalizeGids(prev, next, forced)
         IN  /\ Cardinality(Own(prev) \cup Own(next)) < GidMapLimit => np.fits
             /\ np.fits => \E p, q : GidsNormalized(prev, next, forced, np, p, q)
<1> DEFINE np    == NormalizeGids(prev, next, forced)
           first == IF forced THEN <<prev.r, prev.s>> ELSE Flat(prev)
           ids   == first \o Flat(next)
           met   == (IF forced THEN {prev.r, prev.s} ELSE Own(prev)) \cup Own(next)
           map   == IdMap(ids, {})
           num   == [id \in ToSet(map) |-> Number(map, id)]
           p     == [r |-> num[prev.r], e |-> IF forced THEN 0 ELSE num[prev.e], s |-> num[prev.s]]
           q     == Renamed(next, num)
<1>1. /\ np.map = map /\ np.prev = Lookup(p) /\ np.next = Lookup(q)
      /\ np.fits = (Len(map) < GidMapLimit)
  BY DEF NormalizeGids
<1>2. /\ map \in Seq(G) /\ Len(map) \in Nat /\ DOMAIN map = 1 .. Len(map)
      /\ \A k, l \in DOMAIN map : map[k] = map[l] => k = l
      /\ ToSet(map) = met
      /\ Len(map) = Cardinality(ToSet(map))
  <2>1. CASE forced
    <3>1. ids \in [1 .. 5 -> G] /\ {ids[i] : i \in 1 .. 5} = Own(next) \cup {prev.r, prev.s}
      BY <2>1, FiveIds
    <3>3. ids \in [1 .. 5 -> G] /\ {ids[i] : i \in 1 .. 5} = met
      BY <2>1, <3>1
    <3> HIDE DEF ids
    <3>4. Enumerates(map, {ids[i] : i \in 1 .. 5} \ {}, G)
      BY <3>3, IdMapIs
    <3> QED
      BY <3>3, <3>4 DEF Enumerates
  <2>2. CASE ~forced
    <3>1. ids \in [1 .. 6 -> G] /\ {ids[i] : i \in 1 .. 6} = met
      BY <2>2, SixIds
    <3> HIDE DEF ids
    <3>2. Enumerates(map, {ids[i] : i \in 1 .. 6} \ {}, G)
      BY <3>1, IdMapIs
    <3> QED
      BY <3>1, <3>2 DEF Enumerates
  <2> QED
    BY <2>1, <2>2
<1> HIDE DEF np, map
<1>3. \A id \in met : num[id] \in DOMAIN map /\ map[num[id]] = id
  BY <1>2, NumberInverse
<1>4. map \in [DOMAIN map -> Nat]
  BY <1>2
<1> HIDE DEF num
<1>5. /\ p.r \in DOMAIN map /\ p.s \in DOMAIN map
      /\ prev.r = map[p.r] /\ prev.s = map[p.s]
      /\ IF forced THEN p.e = 0 ELSE p.e \in DOMAIN map /\ prev.e = map[p.e]
  BY <1>3 DEF Own
<1>6. q \in IdTriples(DOMAIN map) /\ next = Image(map, q)
  BY <1>3 DEF Own, IdTriples, Image, Renamed
<1>7. Len(map) < GidMapLimit => DOMAIN map \subseteq Normals \ {0}
  BY <1>2, MaxIdsAssumption DEF GidMapLimit, Normals
<1>8. Cardinality(Own(prev) \cup Own(next)) < GidMapLimit => Len(map) < GidMapLimit
  <2>1. met \in SUBSET (Own(prev) \cup Own(next))
    BY DEF Own
  <2>2. IsFiniteSet(Own(prev) \cup Own(next))
    <3>1. IsFiniteSet({prev.r} \cup {prev.e} \cup {prev.s} \cup {next.r} \cup {next.e} \cup {next.s})
      <4>1. IsFiniteSet({prev.r})
        BY FS_Singleton
      <4>2. IsFiniteSet({prev.r} \cup {prev.e})
        BY <4>1, FS_AddElement, Zenon
      <4>3. IsFiniteSet({prev.r} \cup {prev.e} \cup {prev.s})
        BY <4>2, FS_AddElement, Zenon
      <4>4. IsFiniteSet({prev.r} \cup {prev.e} \cup {prev.s} \cup {next.r})
        BY <4>3, FS_AddElement, Zenon
      <4>5. IsFiniteSet({prev.r} \cup {prev.e} \cup {prev.s} \cup {next.r} \cup {next.e})
        BY <4>4, FS_AddElement, Zenon
      <4> QED
        BY <4>5, FS_AddElement, Zenon
    <3>2. Own(prev) \cup Own(next)
          = {prev.r} \cup {prev.e} \cup {prev.s} \cup {next.r} \cup {next.e} \cup {next.s}
      BY DEF Own
    <3> QED
      BY <3>1, <3>2
  <2>3. Cardinality(met) <= Cardinality(Own(prev) \cup Own(next))
    BY <2>1, <2>2, FS_Subset
  <2>4. Cardinality(Own(prev) \cup Own(next)) \in Nat
    BY <2>2, FS_CardinalityType
  <2> QED
    BY <1>2, <2>3, <2>4 DEF GidMapLimit
<1>9. p = [r |-> p.r, e |-> p.e, s |-> p.s]
  OBVIOUS
<1> HIDE DEF p, q
<1>10. np.fits => GidsNormalized(prev, next, forced, np, p, q)
  BY <1>1, <1>2, <1>4, <1>5, <1>6, <1>7, <1>9 DEF GidsNormalized
<1>11. Cardinality(Own(prev) \cup Own(next)) < GidMapLimit => np.fits
  BY <1>1, <1>8
<1> QED
  BY <1>10, <1>11 DEF np
=============================================================================
