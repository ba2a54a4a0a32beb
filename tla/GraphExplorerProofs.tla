-------------------------- MODULE GraphExplorerProofs --------------------------
(***************************************************************************)
(* Theorems about GraphExplorer, for every kernel graph, every limit and   *)
(* every number of failures.                                               *)
(***************************************************************************)
EXTENDS GraphExplorer, SequenceTheorems, FiniteSetTheorems, TLAPS

(***************************************************************************)
(* Facts about paths and edges, for every graph of calls: no state of the  *)
(* explorer occurs in them.                                                *)
(***************************************************************************)
\* Every call leads to a state that was prepared.
LEMMA EdgeTypes ==
  ASSUME NEW v \in States
  PROVE  OutEdges(v) \subseteq AllEdges /\ Targets(v) \subseteq States
<1>1. \A c \in Calls : Step[v][c] \in States
  BY StepAssumption
<1> QED
  BY <1>1 DEF OutEdges, Targets, AllEdges

\* Adding the edges of one state adds that one to the explored states.
LEMMA ExploredAfter ==
  ASSUME NEW v \in States, NEW E
  PROVE  ExploredIn(E \cup OutEdges(v)) = ExploredIn(E) \cup {v}
<1>1. \A c \in Calls : Step[v][c] \in States
  BY StepAssumption
<1>2. PICK c \in Calls : TRUE
  BY CallsAssumption
<1>3. v \in ExploredIn(OutEdges(v))
  BY <1>1, <1>2 DEF ExploredIn, OutEdges
<1>4. \A u \in ExploredIn(OutEdges(v)) : u = v
  BY DEF ExploredIn, OutEdges
<1>5. ExploredIn(E \cup OutEdges(v)) = ExploredIn(E) \cup ExploredIn(OutEdges(v))
  BY DEF ExploredIn
<1> QED
  BY <1>3, <1>4, <1>5

\* The states the edges E lead to.
LeadsTo(E) == {w \in States : \E v \in States, c \in Calls : <<v, c, w>> \in E}

\* Adding the edges of one state makes its targets the only new ones.
LEMMA LeadsToAfter ==
  ASSUME NEW v \in States, NEW E
  PROVE  LeadsTo(E \cup OutEdges(v)) = LeadsTo(E) \cup Targets(v)
<1>1. LeadsTo(OutEdges(v)) = Targets(v)
  BY StepAssumption DEF LeadsTo, OutEdges, Targets
<1>2. LeadsTo(E \cup OutEdges(v)) = LeadsTo(E) \cup LeadsTo(OutEdges(v))
  BY DEF LeadsTo
<1> QED
  BY <1>1, <1>2

\* A path stays one when edges are added: the copies of a growing graph that
\* the forked processes hold can only lack paths.
LEMMA PathMonotone ==
  ASSUME NEW E, NEW F, E \subseteq F, NEW v, HasPath(E, v)
  PROVE  HasPath(F, v)
BY DEF HasPath, Closed

\* The start has a path, the empty one.
LEMMA PathStart == ASSUME NEW E PROVE HasPath(E, Start)
BY DEF HasPath

\* What a call leads to from a state with a path has one.
LEMMA PathExtends ==
  ASSUME NEW E, NEW v \in States, NEW c \in Calls, NEW w \in States,
         HasPath(E, v), <<v, c, w>> \in E
  PROVE  HasPath(E, w)
BY DEF HasPath, Closed

(***************************************************************************)
(* An exploration that is over: all the edges of the explored states are   *)
(* known and they lead to nothing else.  Then the explored states are      *)
(* exactly the reachable ones.                                             *)
(***************************************************************************)
LEMMA ExploredIsReachable ==
  ASSUME NEW D \in SUBSET States, Start \in D,
         \A v \in D : Targets(v) \subseteq D,
         \A v \in D : HasPath(UNION {OutEdges(u) : u \in D}, v)
  PROVE  D = Reachable
<1>1. Closed(D, KernelGraph)
  BY DEF Closed, KernelGraph, OutEdges, Targets
<1>2. Reachable \subseteq D
  BY <1>1 DEF Reachable, HasPath
<1>3. UNION {OutEdges(u) : u \in D} \subseteq KernelGraph
  BY DEF KernelGraph
<1>4. D \subseteq Reachable
  BY <1>3, PathMonotone DEF Reachable
<1> QED
  BY <1>2, <1>4
-----------------------------------------------------------------------------
(***************************************************************************)
(* Lemmas on the queue and the buffers: what taking the first element,     *)
(* appending one and appending several do to the elements held.            *)
(***************************************************************************)
\* Popping the front, vertexQueue.pop().
LEMMA TailRange ==
  ASSUME NEW S, NEW q \in Seq(S), q # <<>>
  PROVE  /\ Head(q) \in S
         /\ Tail(q) \in Seq(S)
         /\ Len(Tail(q)) = Len(q) - 1
         /\ Range(q) = {Head(q)} \cup Range(Tail(q))
         /\ IsInjective(q) => IsInjective(Tail(q)) /\ Head(q) \notin Range(Tail(q))
<1>1. /\ Head(q) \in S /\ Head(q) = q[1]
      /\ Tail(q) \in Seq(S)
      /\ Len(Tail(q)) = Len(q) - 1
      /\ \A i \in 1 .. Len(Tail(q)) : Tail(q)[i] = q[i + 1]
  BY HeadTailProperties
<1>2. /\ Len(q) \in Nat \ {0}
      /\ DOMAIN q = 1 .. Len(q)
      /\ DOMAIN Tail(q) = 1 .. Len(Tail(q))
  BY <1>1, EmptySeq, LenProperties
<1>3. Range(q) = {Head(q)} \cup Range(Tail(q))
  <2>1. ASSUME NEW i \in DOMAIN q
        PROVE  q[i] = Head(q) \/ \E j \in DOMAIN Tail(q) : Tail(q)[j] = q[i]
    <3>1. CASE i = 1
      BY <1>1, <3>1
    <3>2. CASE i # 1
      <4>1. i - 1 \in DOMAIN Tail(q) /\ (i - 1) + 1 = i
        BY <1>1, <1>2, <3>2
      <4> QED
        BY <1>1, <1>2, <4>1
    <3> QED
      BY <3>1, <3>2
  <2>2. ASSUME NEW j \in DOMAIN Tail(q)
        PROVE  \E i \in DOMAIN q : q[i] = Tail(q)[j]
    <3>1. j + 1 \in DOMAIN q
      BY <1>1, <1>2
    <3> QED
      BY <1>1, <1>2, <3>1
  <2>3. 1 \in DOMAIN q
    BY <1>2
  <2> QED
    BY <1>1, <2>1, <2>2, <2>3 DEF Range
<1>4. ASSUME IsInjective(q)
      PROVE  IsInjective(Tail(q)) /\ Head(q) \notin Range(Tail(q))
  <2>1. ASSUME NEW i \in DOMAIN Tail(q), NEW j \in DOMAIN Tail(q), Tail(q)[i] = Tail(q)[j]
        PROVE  i = j
    <3>1. i + 1 \in DOMAIN q /\ j + 1 \in DOMAIN q /\ q[i + 1] = q[j + 1]
      BY <1>1, <1>2, <2>1
    <3>2. i + 1 = j + 1
      BY <1>4, <3>1 DEF IsInjective
    <3> QED
      BY <1>2, <3>2
  <2>2. ASSUME NEW i \in DOMAIN Tail(q), Tail(q)[i] = Head(q)
        PROVE  FALSE
    <3>1. 1 \in DOMAIN q /\ i + 1 \in DOMAIN q /\ q[i + 1] = q[1]
      BY <1>1, <1>2, <2>2
    <3>2. i + 1 = 1
      BY <1>4, <3>1 DEF IsInjective
    <3> QED
      BY <1>2, <3>2
  <2> QED
    BY <2>1, <2>2 DEF IsInjective, Range
<1> QED
  BY <1>1, <1>3, <1>4

\* Concatenation: vertexQueue.push() of several states.
LEMMA ConcatRange ==
  ASSUME NEW S, NEW p \in Seq(S), NEW q \in Seq(S)
  PROVE  /\ p \o q \in Seq(S)
         /\ Len(p \o q) = Len(p) + Len(q)
         /\ Range(p \o q) = Range(p) \cup Range(q)
         /\ IsInjective(p) /\ IsInjective(q) /\ Range(p) \cap Range(q) = {}
              => IsInjective(p \o q)
<1>1. /\ p \o q \in Seq(S)
      /\ Len(p \o q) = Len(p) + Len(q)
      /\ \A i \in 1 .. Len(p) + Len(q) :
           (p \o q)[i] = IF i <= Len(p) THEN p[i] ELSE q[i - Len(p)]
  BY ConcatProperties
<1>2. /\ Len(p) \in Nat /\ Len(q) \in Nat
      /\ DOMAIN p = 1 .. Len(p) /\ DOMAIN q = 1 .. Len(q)
      /\ DOMAIN (p \o q) = 1 .. Len(p) + Len(q)
  BY <1>1, LenProperties
<1>3. Range(p \o q) = Range(p) \cup Range(q)
  BY RangeConcatenation
<1>4. ASSUME IsInjective(p), IsInjective(q), Range(p) \cap Range(q) = {},
             NEW i \in DOMAIN (p \o q), NEW j \in DOMAIN (p \o q),
             (p \o q)[i] = (p \o q)[j]
      PROVE  i = j
  <2>1. CASE i <= Len(p) /\ j <= Len(p)
    <3>1. i \in DOMAIN p /\ j \in DOMAIN p /\ p[i] = p[j]
      BY <1>1, <1>2, <1>4, <2>1
    <3> QED
      BY <3>1, <1>4 DEF IsInjective
  <2>2. CASE i > Len(p) /\ j > Len(p)
    <3>1. i - Len(p) \in DOMAIN q /\ j - Len(p) \in DOMAIN q /\ q[i - Len(p)] = q[j - Len(p)]
      BY <1>1, <1>2, <1>4, <2>2
    <3>2. i - Len(p) = j - Len(p)
      BY <3>1, <1>4 DEF IsInjective
    <3> QED
      BY <3>2, <1>2
  <2>3. CASE i <= Len(p) /\ j > Len(p)
    <3>1. i \in DOMAIN p /\ j - Len(p) \in DOMAIN q /\ p[i] = q[j - Len(p)]
      BY <1>1, <1>2, <1>4, <2>3
    <3>2. p[i] \in Range(p) \cap Range(q)
      BY <3>1 DEF Range
    <3> QED
      BY <3>2, <1>4
  <2>4. CASE i > Len(p) /\ j <= Len(p)
    <3>1. j \in DOMAIN p /\ i - Len(p) \in DOMAIN q /\ p[j] = q[i - Len(p)]
      BY <1>1, <1>2, <1>4, <2>4
    <3>2. p[j] \in Range(p) \cap Range(q)
      BY <3>1 DEF Range
    <3> QED
      BY <3>2, <1>4
  <2> QED
    BY <2>1, <2>2, <2>3, <2>4, <1>2
<1> QED
  BY <1>1, <1>3, <1>4 DEF IsInjective

\* push() of one element.
LEMMA AppendRange ==
  ASSUME NEW S, NEW q \in Seq(S), NEW v \in S
  PROVE  /\ Append(q, v) \in Seq(S)
         /\ Len(Append(q, v)) = Len(q) + 1
         /\ Range(Append(q, v)) = Range(q) \cup {v}
         /\ IsInjective(q) /\ v \notin Range(q) => IsInjective(Append(q, v))
<1>1. <<v>> \in Seq(S) /\ Range(<<v>>) = {v} /\ IsInjective(<<v>>) /\ Len(<<v>>) = 1
  BY DEF Range, IsInjective
<1>2. Append(q, v) = q \o <<v>>
  BY AppendIsConcat
<1>3. /\ q \o <<v>> \in Seq(S)
      /\ Len(q \o <<v>>) = Len(q) + Len(<<v>>)
      /\ Range(q \o <<v>>) = Range(q) \cup Range(<<v>>)
      /\ IsInjective(q) /\ IsInjective(<<v>>) /\ Range(q) \cap Range(<<v>>) = {}
           => IsInjective(q \o <<v>>)
  BY <1>1, ConcatRange
<1> HIDE DEF Range, IsInjective
<1> QED
  BY <1>1, <1>2, <1>3

\* The states a read adds to the queue, in whatever order, are the new ones.
LEMMA OrdersRange ==
  ASSUME NEW T \in SUBSET States, NEW q \in Orders(T)
  PROVE  q \in Seq(States) /\ Range(q) = T /\ IsInjective(q)
<1>1. IsFiniteSet(T)
  BY StatesAssumption, FS_Subset
<1>2. Cardinality(T) \in Nat
  BY <1>1, FS_CardinalityType
<1>3. q \in [1 .. Cardinality(T) -> T] /\ IsInjective(q)
      /\ \A v \in T : \E i \in DOMAIN q : q[i] = v
  BY DEF Orders
<1>4. q \in Seq(T)
  BY <1>2, <1>3, IsASeq
<1> QED
  BY <1>3, <1>4, SeqMonotonic DEF Range
-----------------------------------------------------------------------------
(***************************************************************************)
(* Type correctness.                                                       *)
(***************************************************************************)
USE DEF Buffers, Other

\* An explorer that counts its forks down never counts below the ones in its
\* buffers: needed for the type of numStateForks.
Counted == numStateForks = Len(forkStates[1]) + Len(forkStates[2])

TypeInv == TypeOK /\ Counted

\* The explorer begins with the right types, its counter 0.
LEMMA TypeInit == Init => TypeInv
<1> SUFFICES ASSUME Init PROVE TypeInv
  OBVIOUS
<1>1. <<>> \in Seq(States) /\ Len(<<>>) = 0 /\ <<Start>> \in Seq(States)
  BY StatesAssumption
<1>2. forkStates[1] = <<>> /\ forkStates[2] = <<>>
  BY DEF Init
<1>3. Counted
  BY <1>1, <1>2 DEF Init, Counted
<1> QED
  BY <1>1, <1>3, StatesAssumption, LimitAssumption, FaultsAssumption DEF Init, TypeInv, TypeOK

\* Every action keeps the types and the counter equal to the forks in both buffers.
LEMMA TypeStep == TypeInv /\ [Next]_vars => TypeInv'
<1> SUFFICES ASSUME TypeInv, [Next]_vars PROVE TypeInv'
  OBVIOUS
<1> USE DEF TypeInv, TypeOK, Counted
<1>0. /\ forkStates[1] \in Seq(States) /\ forkStates[2] \in Seq(States)
      /\ Len(forkStates[1]) \in Nat /\ Len(forkStates[2]) \in Nat
      /\ StateForkLimit \in Nat /\ MaxFaults \in Nat
      /\ numStateForks \in Nat /\ numStateForks <= StateForkLimit
  BY LenProperties, LimitAssumption, FaultsAssumption
<1>1. CASE Fork
  <2> DEFINE v == Head(vertexQueue)
             b == Other(reading)
  <2>1. v \in States /\ vertexQueue' \in Seq(States)
    BY <1>1, TailRange DEF Fork, MoreToDispatch
  <2>2. b \in {1, 2} /\ forkStates' = [forkStates EXCEPT ![b] = Append(@, v)]
    BY <1>1 DEF Fork
  <2>3. Append(forkStates[b], v) \in Seq(States)
        /\ Len(Append(forkStates[b], v)) = Len(forkStates[b]) + 1
    BY <1>0, <2>1, <2>2, AppendRange
  <2> HIDE DEF v, b
  <2>4. forkStates' \in [{1, 2} -> Seq(States)]
    BY <2>2, <2>3
  <2>5. numStateForks' = numStateForks + 1 /\ numStateForks < StateForkLimit
    BY <1>1 DEF Fork, MoreToDispatch
  <2>6. numStateForks' = Len(forkStates'[1]) + Len(forkStates'[2])
    <3>1. CASE b = 1
      <4>1. forkStates'[1] = Append(forkStates[1], v) /\ forkStates'[2] = forkStates[2]
        BY <2>2, <3>1
      <4> QED
        BY <1>0, <2>3, <2>5, <3>1, <4>1
    <3>2. CASE b = 2
      <4>1. forkStates'[2] = Append(forkStates[2], v) /\ forkStates'[1] = forkStates[1]
        BY <2>2, <3>2
      <4> QED
        BY <1>0, <2>3, <2>5, <3>2, <4>1
    <3> QED
      BY <2>2, <3>1, <3>2
  <2>7. seen' \in [States -> SUBSET AllEdges] /\ status' \in [States -> {"none", "running", "written", "dead", "read"}]
    BY <1>1, <2>1 DEF Fork, v
  <2>8. numStateForks' \in 0 .. StateForkLimit
    BY <1>0, <2>5
  <2>9. UNCHANGED <<graph, vertexSet, phase, reading, faults>>
    BY <1>1 DEF Fork
  <2> QED
    BY <2>1, <2>4, <2>6, <2>7, <2>8, <2>9
<1>2. CASE ForkFails
  BY <1>0, <1>2 DEF ForkFails, forks
<1>3. CASE EndDispatch
  BY <1>3 DEF EndDispatch, forks
<1>4. CASE Read
  <2> DEFINE v   == Head(forkStates[reading])
             new == Targets(v) \ vertexSet
  <2>1. PICK q \in Orders(new) : vertexQueue' = vertexQueue \o q
    BY <1>4 DEF Read
  <2>2. /\ v \in States
        /\ Tail(forkStates[reading]) \in Seq(States)
        /\ Len(Tail(forkStates[reading])) = Len(forkStates[reading]) - 1
    BY <1>0, <1>4, TailRange DEF Read, AtHead
  <2>3. OutEdges(v) \subseteq AllEdges /\ new \subseteq States
    BY <2>2, EdgeTypes
  <2>4. vertexQueue' \in Seq(States)
    BY <2>1, <2>3, OrdersRange, ConcatRange
  <2>5. /\ graph' = graph \cup OutEdges(v)
        /\ vertexSet' = vertexSet \cup new
        /\ status' = [status EXCEPT ![v] = "read"]
        /\ forkStates' = [forkStates EXCEPT ![reading] = Tail(@)]
        /\ numStateForks' = numStateForks - 1
        /\ phase' = "dispatch"
        /\ UNCHANGED <<reading, seen, faults>>
    BY <1>4 DEF Read
  <2> HIDE DEF v, new
  <2>6. forkStates' \in [{1, 2} -> Seq(States)]
    BY <2>2, <2>5
  <2>7. numStateForks' = Len(forkStates'[1]) + Len(forkStates'[2])
    <3>1. CASE reading = 1
      <4>1. forkStates'[1] = Tail(forkStates[1]) /\ forkStates'[2] = forkStates[2]
        BY <2>5, <3>1
      <4> QED
        BY <1>0, <2>2, <2>5, <3>1, <4>1
    <3>2. CASE reading = 2
      <4>1. forkStates'[2] = Tail(forkStates[2]) /\ forkStates'[1] = forkStates[1]
        BY <2>5, <3>2
      <4> QED
        BY <1>0, <2>2, <2>5, <3>2, <4>1
    <3> QED
      BY <3>1, <3>2
  <2>8. Len(forkStates'[1]) \in Nat /\ Len(forkStates'[2]) \in Nat
    BY <2>6, LenProperties
  <2>9. numStateForks' \in 0 .. StateForkLimit
    <3> HIDE DEF TypeInv, TypeOK, Counted
    <3>1. \A m, n \in Nat : m + n \in Nat
      OBVIOUS
    <3>2. numStateForks' \in Nat
      BY <2>7, <2>8, <3>1
    <3>3. numStateForks' = numStateForks - 1
      BY <2>5
    <3> QED
      BY <1>0, <3>2, <3>3
  <2> QED
    BY <2>2, <2>3, <2>4, <2>5, <2>6, <2>7, <2>9
<1>5. CASE ReadFails
  BY <1>5 DEF ReadFails, forks
<1>6. CASE SwitchBuffer
  BY <1>6 DEF SwitchBuffer, forks
<1>7. CASE Finish
  BY <1>7 DEF Finish, forks
<1>8. ASSUME NEW v \in States, ExploreState(v) PROVE TypeInv'
  BY <1>8 DEF ExploreState
<1>9. ASSUME NEW v \in States, ExploreFails(v) PROVE TypeInv'
  BY <1>0, <1>9 DEF ExploreFails
<1>10. CASE UNCHANGED vars
  BY <1>10 DEF vars, forks
<1> QED
  BY <1>1, <1>2, <1>3, <1>4, <1>5, <1>6, <1>7, <1>8, <1>9, <1>10 DEF Next, Explorer

\* Type correctness of the explorer: its counter of forks stays between 0 and the
\* limit, its queue and buffers hold states of the graph.
THEOREM TypeCorrect == Spec => []TypeOK
<1>1. Spec => []TypeInv
  BY TypeInit, TypeStep, PTL DEF Spec
<1>2. TypeInv => TypeOK
  BY DEF TypeInv
<1> QED
  BY <1>1, <1>2, PTL

\* The explorer never has more forks at work or unread than stateForkLimit, and
\* its counter is their number (dispatchForkStates and bufferForkStates).
THEOREM ForksBounded == Spec => []ForkBound
<1>1. Spec => []TypeInv
  BY TypeInit, TypeStep, PTL DEF Spec
<1>2. TypeInv => ForkBound
  BY LimitAssumption DEF TypeInv, TypeOK, Counted, ForkBound
<1> QED
  BY <1>1, <1>2, PTL
-----------------------------------------------------------------------------
(***************************************************************************)
(* No state is lost or explored twice.  The invariant is inductive given   *)
(* the types: a fork moves the front of the queue to a buffer, a read      *)
(* moves the front of a buffer to the explored states and puts nothing     *)
(* but unmet states in the queue.                                          *)
(***************************************************************************)
LEMMA OnceInit == Init => EachStateOnce
<1> SUFFICES ASSUME Init PROVE EachStateOnce
  OBVIOUS
<1>1. Range(<<Start>>) = {Start} /\ IsInjective(<<Start>>)
      /\ Range(<<>>) = {} /\ IsInjective(<<>>)
  BY DEF Range, IsInjective
<1>2. forkStates[1] = <<>> /\ forkStates[2] = <<>>
  BY DEF Init
<1>3. Explored = {}
  BY DEF Init, Explored, ExploredIn
<1> HIDE DEF Range, IsInjective
<1> QED
  BY <1>1, <1>2, <1>3 DEF Init, EachStateOnce, InFlight

\* Fork moves a state from the queue to a buffer.
LEMMA OnceFork == TypeOK /\ EachStateOnce /\ Fork => EachStateOnce'
<1> SUFFICES ASSUME TypeOK, EachStateOnce, Fork PROVE EachStateOnce'
  OBVIOUS
<1> DEFINE v == Head(vertexQueue)
           b == Other(reading)
           o == Other(b)
<1>1. b \in {1, 2} /\ o \in {1, 2} /\ b # o
  BY DEF TypeOK
<1>2. /\ forkStates[b] \in Seq(States) /\ forkStates[o] \in Seq(States)
      /\ vertexQueue \in Seq(States) /\ vertexQueue # <<>>
  BY <1>1 DEF TypeOK, Fork, MoreToDispatch
<1>3. /\ v \in States
      /\ Range(vertexQueue) = {v} \cup Range(Tail(vertexQueue))
      /\ IsInjective(Tail(vertexQueue)) /\ v \notin Range(Tail(vertexQueue))
  BY <1>2, TailRange DEF EachStateOnce
<1>4. /\ forkStates' = [forkStates EXCEPT ![b] = Append(@, v)]
      /\ vertexQueue' = Tail(vertexQueue)
      /\ UNCHANGED <<graph, vertexSet>>
  BY DEF Fork
<1>5. InFlight = Range(forkStates[b]) \cup Range(forkStates[o])
      /\ Range(forkStates[b]) \cap Range(forkStates[o]) = {}
      /\ IsInjective(forkStates[b]) /\ IsInjective(forkStates[o])
  BY <1>1 DEF InFlight, EachStateOnce
<1>6. v \notin Range(forkStates[b]) /\ v \notin Range(forkStates[o]) /\ v \notin Explored
  BY <1>3, <1>5 DEF EachStateOnce
<1>7. /\ forkStates'[b] = Append(forkStates[b], v)
      /\ forkStates'[o] = forkStates[o]
  BY <1>1, <1>4 DEF TypeOK
<1>8. /\ Range(forkStates'[b]) = Range(forkStates[b]) \cup {v}
      /\ IsInjective(forkStates'[b])
  BY <1>2, <1>3, <1>5, <1>6, <1>7, AppendRange
<1>9. Explored' = Explored
  BY <1>4 DEF Explored
<1> HIDE DEF v, b, o
<1>10. InFlight' = Range(forkStates'[b]) \cup Range(forkStates'[o])
       /\ (\A x \in Buffers : IsInjective(forkStates'[x]))
       /\ Range(forkStates'[1]) \cap Range(forkStates'[2]) = {}
  <2>1. Range(forkStates'[b]) \cap Range(forkStates'[o]) = {}
        /\ IsInjective(forkStates'[b]) /\ IsInjective(forkStates'[o])
    BY <1>5, <1>6, <1>7, <1>8
  <2> QED
    BY <1>1, <2>1 DEF InFlight
<1>11. InFlight' = InFlight \cup {v}
  BY <1>5, <1>7, <1>8, <1>10
<1> QED
  BY <1>3, <1>4, <1>6, <1>9, <1>10, <1>11, <1>5 DEF EachStateOnce

\* Read moves a state out of its buffer and queues the ones met for the first time.
LEMMA OnceRead == TypeOK /\ EachStateOnce /\ Read => EachStateOnce'
<1> SUFFICES ASSUME TypeOK, EachStateOnce, Read PROVE EachStateOnce'
  OBVIOUS
<1> DEFINE b   == reading
           o   == Other(b)
           v   == Head(forkStates[b])
           new == Targets(v) \ vertexSet
<1>1. b \in {1, 2} /\ o \in {1, 2} /\ b # o
  BY DEF TypeOK
<1>2. /\ forkStates[b] \in Seq(States) /\ forkStates[o] \in Seq(States)
      /\ vertexQueue \in Seq(States) /\ forkStates[b] # <<>>
  BY <1>1 DEF TypeOK, Read, AtHead
<1>3. InFlight = Range(forkStates[b]) \cup Range(forkStates[o])
      /\ Range(forkStates[b]) \cap Range(forkStates[o]) = {}
      /\ IsInjective(forkStates[b]) /\ IsInjective(forkStates[o])
  BY <1>1 DEF InFlight, EachStateOnce
<1>4. /\ v \in States
      /\ Range(forkStates[b]) = {v} \cup Range(Tail(forkStates[b]))
      /\ IsInjective(Tail(forkStates[b])) /\ v \notin Range(Tail(forkStates[b]))
  BY <1>2, <1>3, TailRange
<1>5. PICK q \in Orders(new) : vertexQueue' = vertexQueue \o q
  BY DEF Read
<1>6. /\ graph' = graph \cup OutEdges(v)
      /\ vertexSet' = vertexSet \cup new
      /\ forkStates' = [forkStates EXCEPT ![b] = Tail(@)]
  BY DEF Read
<1>7. new \in SUBSET States
  BY <1>4, EdgeTypes
<1>8. q \in Seq(States) /\ Range(q) = new /\ IsInjective(q)
  BY <1>7, OrdersRange
<1>9. Range(vertexQueue) \subseteq vertexSet /\ InFlight \subseteq vertexSet
      /\ Explored \subseteq vertexSet
  BY DEF EachStateOnce
<1>10. Range(vertexQueue') = Range(vertexQueue) \cup new /\ IsInjective(vertexQueue')
  <2>1. IsInjective(vertexQueue) /\ Range(vertexQueue) \cap Range(q) = {}
    BY <1>8, <1>9 DEF EachStateOnce
  <2> QED
    BY <1>2, <1>5, <1>8, <2>1, ConcatRange
<1>11. Explored' = Explored \cup {v}
  BY <1>4, <1>6, ExploredAfter DEF Explored
<1>12. /\ forkStates'[b] = Tail(forkStates[b])
       /\ forkStates'[o] = forkStates[o]
  BY <1>1, <1>6 DEF TypeOK
<1> HIDE DEF v, b, o, new
<1>13. InFlight' = Range(forkStates'[b]) \cup Range(forkStates'[o])
       /\ (\A x \in Buffers : IsInjective(forkStates'[x]))
       /\ Range(forkStates'[1]) \cap Range(forkStates'[2]) = {}
  BY <1>1, <1>3, <1>4, <1>12 DEF InFlight
<1>14. InFlight = InFlight' \cup {v} /\ v \notin InFlight'
  BY <1>3, <1>4, <1>12, <1>13
<1>15. new \cap vertexSet = {}
  BY DEF new
<1> QED
  BY <1>6, <1>9, <1>10, <1>11, <1>13, <1>14, <1>15 DEF EachStateOnce

\* Whatever happens, no state is lost or met twice.
LEMMA OnceStep == TypeOK /\ EachStateOnce /\ [Next]_vars => EachStateOnce'
<1> SUFFICES ASSUME TypeOK, EachStateOnce, [Next]_vars PROVE EachStateOnce'
  OBVIOUS
<1>1. ASSUME UNCHANGED <<graph, vertexSet, vertexQueue, forkStates>> PROVE EachStateOnce'
  BY <1>1 DEF EachStateOnce, InFlight, Explored
<1>2. CASE Fork
  BY <1>2, OnceFork
<1>3. CASE Read
  BY <1>3, OnceRead
<1>4. CASE ForkFails
  BY <1>1, <1>4 DEF ForkFails
<1>5. CASE EndDispatch
  BY <1>1, <1>5 DEF EndDispatch
<1>6. CASE ReadFails
  BY <1>1, <1>6 DEF ReadFails
<1>7. CASE SwitchBuffer
  BY <1>1, <1>7 DEF SwitchBuffer
<1>8. CASE Finish
  BY <1>1, <1>8 DEF Finish
<1>9. ASSUME NEW v \in States, ExploreState(v) \/ ExploreFails(v) PROVE EachStateOnce'
  BY <1>1, <1>9 DEF ExploreState, ExploreFails
<1>10. CASE UNCHANGED vars
  BY <1>1, <1>10 DEF vars
<1> QED
  BY <1>2, <1>3, <1>4, <1>5, <1>6, <1>7, <1>8, <1>9, <1>10 DEF Next, Explorer

\* No state is lost and none is explored twice: every state met is in one place
\* of exploreAll's data, once, whatever forks fail and however late their
\* answers are read.
THEOREM StatesOnce == Spec => []EachStateOnce
<1>1. Spec => []TypeOK
  BY TypeCorrect
<1>2. Spec => []EachStateOnce
  BY <1>1, OnceInit, OnceStep, PTL DEF Spec
<1> QED
  BY <1>2
-----------------------------------------------------------------------------
(***************************************************************************)
(* What GraphExplorer promises its caller: the forked processes find their *)
(* paths, the graph is whole when exploreAll returns, and the exploration  *)
(* with its queue, buffers and forks does what the abstract one does.      *)
(***************************************************************************)
(***************************************************************************)
(* What the explorer knows of the graph at any time.  It has all the edges *)
(* of the states it has read; the states met are the start and what those  *)
(* edges lead to; so each has a path.  A process was forked with the graph *)
(* of that time, for a state met by then.  The explorer returns with       *)
(* nothing left in the queue or the buffers.                               *)
(***************************************************************************)
WholeStates  == graph = UNION {OutEdges(v) : v \in Explored}
MetByEdges   == vertexSet = {Start} \cup LeadsTo(graph)
MetHavePaths == \A v \in vertexSet : HasPath(graph, v)
DoneIsEmpty  == phase = "done" => AllEmpty

PathInv == WholeStates /\ MetByEdges /\ MetHavePaths /\ PathsExist /\ DoneIsEmpty
-----------------------------------------------------------------------------
\* The explorer begins with the start state queued and no copy made.
LEMMA PathInit == Init => PathInv
<1> SUFFICES ASSUME Init PROVE PathInv
  OBVIOUS
<1>1. Explored = {} /\ LeadsTo(graph) = {}
  BY DEF Init, Explored, ExploredIn, LeadsTo
<1>2. WholeStates /\ MetByEdges /\ DoneIsEmpty
  BY <1>1 DEF Init, WholeStates, MetByEdges, DoneIsEmpty
<1>3. MetHavePaths
  BY PathStart DEF Init, MetHavePaths
<1>4. PathsExist
  BY DEF Init, PathsExist
<1> QED
  BY <1>2, <1>3, <1>4 DEF PathInv

\* A fork hands the state at the front, one that has been met, a graph with a
\* path to it; the copies handed out earlier are not touched.
LEMMA PathFork == TypeOK /\ EachStateOnce /\ PathInv /\ Fork => PathInv'
<1> SUFFICES ASSUME TypeOK, EachStateOnce, PathInv, Fork PROVE PathInv'
  OBVIOUS
<1> DEFINE v == Head(vertexQueue)
<1>1. v \in States /\ v \in Range(vertexQueue)
  BY TailRange DEF TypeOK, Fork, MoreToDispatch
<1>2. HasPath(graph, v)
  BY <1>1 DEF EachStateOnce, PathInv, MetHavePaths
<1>3. /\ status' = [status EXCEPT ![v] = "running"]
      /\ seen' = [seen EXCEPT ![v] = graph]
      /\ phase = "dispatch"
      /\ UNCHANGED <<graph, vertexSet, phase>>
  BY DEF Fork
<1> HIDE DEF v
<1>4. PathsExist'
  <2> SUFFICES ASSUME NEW u \in States, status'[u] = "running" PROVE HasPath(seen'[u], u)
    BY DEF PathsExist
  <2>1. CASE u = v
    BY <1>1, <1>2, <1>3, <2>1 DEF TypeOK
  <2>2. CASE u # v
    <3>1. status[u] = "running" /\ seen'[u] = seen[u]
      BY <1>1, <1>3, <2>2 DEF TypeOK
    <3> QED
      BY <3>1 DEF PathInv, PathsExist
  <2> QED
    BY <2>1, <2>2
<1>5. WholeStates' /\ MetByEdges' /\ MetHavePaths' /\ DoneIsEmpty'
  BY <1>3 DEF PathInv, WholeStates, MetByEdges, MetHavePaths, DoneIsEmpty, Explored
<1> QED
  BY <1>4, <1>5 DEF PathInv

\* What a read does to the graph, and where the state it read was.
LEMMA ReadEffect ==
  ASSUME TypeOK, EachStateOnce, Read
  PROVE  \E v \in States :
           /\ v \in vertexSet \ Explored
           /\ graph' = graph \cup OutEdges(v)
           /\ vertexSet' = vertexSet \cup Targets(v)
           /\ status' = [status EXCEPT ![v] = "read"]
           /\ phase = "read" /\ phase' = "dispatch"
           /\ seen' = seen
<1> DEFINE v == Head(forkStates[reading])
<1>1. /\ reading \in {1, 2} /\ forkStates[reading] \in Seq(States)
      /\ forkStates[reading] # <<>>
  BY DEF TypeOK, Read, AtHead
<1>2. v \in States /\ v \in Range(forkStates[reading])
  BY <1>1, TailRange
<1>3. v \in vertexSet \ Explored
  BY <1>1, <1>2 DEF EachStateOnce, InFlight
<1>4. /\ graph' = graph \cup OutEdges(v)
      /\ vertexSet' = vertexSet \cup Targets(v)
      /\ status' = [status EXCEPT ![v] = "read"]
      /\ phase = "read" /\ phase' = "dispatch"
      /\ seen' = seen
  BY DEF Read, AtHead
<1> QED
  BY <1>2, <1>3, <1>4

\* A read adds all the edges of one state that has a path, so what they lead to
\* has one too.
LEMMA PathRead == TypeOK /\ EachStateOnce /\ PathInv /\ Read => PathInv'
<1> SUFFICES ASSUME TypeOK, EachStateOnce, PathInv, Read PROVE PathInv'
  OBVIOUS
<1>1. PICK v \in States :
        /\ v \in vertexSet \ Explored
        /\ graph' = graph \cup OutEdges(v)
        /\ vertexSet' = vertexSet \cup Targets(v)
        /\ status' = [status EXCEPT ![v] = "read"]
        /\ phase = "read" /\ phase' = "dispatch"
        /\ seen' = seen
  BY ReadEffect
<1>2. Explored' = Explored \cup {v}
  BY <1>1, ExploredAfter DEF Explored
<1>3. WholeStates'
  BY <1>1, <1>2 DEF PathInv, WholeStates
<1>4. MetByEdges'
  BY <1>1, LeadsToAfter DEF PathInv, MetByEdges
<1>5. \A u \in vertexSet : HasPath(graph', u)
  BY <1>1, PathMonotone DEF PathInv, MetHavePaths
<1>6. \A u \in Targets(v) : HasPath(graph', u)
  <2> TAKE u \in Targets(v)
  <2>1. PICK c \in Calls : u = Step[v][c]
    BY DEF Targets
  <2>2. u \in States /\ <<v, c, u>> \in graph'
    BY <1>1, <2>1, EdgeTypes DEF OutEdges
  <2> QED
    BY <1>1, <1>5, <2>2, PathExtends
<1>7. MetHavePaths'
  BY <1>1, <1>5, <1>6 DEF MetHavePaths
<1>8. PathsExist'
  BY <1>1 DEF TypeOK, PathInv, PathsExist
<1>9. DoneIsEmpty'
  BY <1>1 DEF DoneIsEmpty
<1> QED
  BY <1>3, <1>4, <1>7, <1>8, <1>9 DEF PathInv

\* Every action keeps that what is met, and what a process was forked with, is led to.
LEMMA PathStep == TypeOK /\ EachStateOnce /\ PathInv /\ [Next]_vars => PathInv'
<1> SUFFICES ASSUME TypeOK, EachStateOnce, PathInv, [Next]_vars PROVE PathInv'
  OBVIOUS
<1>1. ASSUME UNCHANGED <<graph, vertexSet, vertexQueue, forkStates, seen>>,
             \A v \in States : status'[v] = "running" => status[v] = "running",
             phase' = "done" => phase = "done" \/ AllEmpty
      PROVE  PathInv'
  <2>1. PathsExist'
    BY <1>1 DEF PathInv, PathsExist
  <2>2. DoneIsEmpty'
    BY <1>1 DEF PathInv, DoneIsEmpty, AllEmpty
  <2> QED
    BY <1>1, <2>1, <2>2 DEF PathInv, WholeStates, MetByEdges, MetHavePaths, Explored
<1>2. CASE Fork
  BY <1>2, PathFork
<1>3. CASE Read
  BY <1>3, PathRead
<1>4. CASE ForkFails
  BY <1>1, <1>4 DEF ForkFails, forks
<1>5. CASE EndDispatch
  BY <1>1, <1>5 DEF EndDispatch, forks
<1>6. CASE ReadFails
  BY <1>1, <1>6 DEF ReadFails, forks
<1>7. CASE SwitchBuffer
  BY <1>1, <1>7 DEF SwitchBuffer, forks
<1>8. CASE Finish
  BY <1>1, <1>8 DEF Finish, forks
<1>9. ASSUME NEW v \in States, ExploreState(v) \/ ExploreFails(v) PROVE PathInv'
  <2>1. /\ UNCHANGED <<graph, vertexSet, vertexQueue, forkStates, seen, phase>>
        /\ \E st \in {"written", "dead"} : status' = [status EXCEPT ![v] = st]
    BY <1>9 DEF ExploreState, ExploreFails
  <2>2. \A u \in States : status'[u] = "running" => status[u] = "running"
    BY <2>1 DEF TypeOK
  <2> QED
    BY <1>1, <2>1, <2>2
<1>10. CASE UNCHANGED vars
  BY <1>1, <1>10 DEF vars, forks
<1> QED
  BY <1>2, <1>3, <1>4, <1>5, <1>6, <1>7, <1>8, <1>9, <1>10 DEF Next, Explorer

\* Everything the explorer knows of the graph, together with where each state is.
LEMMA PathInvariant == Spec => [](TypeOK /\ EachStateOnce /\ PathInv)
<1>1. Spec => []TypeOK
  BY TypeCorrect
<1>2. Spec => []EachStateOnce
  BY StatesOnce
<1> QED
  BY <1>1, <1>2, PathInit, PathStep, PTL DEF Spec

\* Whatever the delays, a forked process finds a path to its state in the copy
\* of the graph it was forked with: the assertions of getPath hold
\* (GraphImpl.h:406-425).
THEOREM PathsAlwaysExist == Spec => []PathsExist
<1>1. PathInv => PathsExist
  BY DEF PathInv
<1> QED
  BY <1>1, PathInvariant, PTL
-----------------------------------------------------------------------------
\* With nothing in the queue or the buffers every state met is explored, so no
\* edge leads out of the explored states.
LEMMA EmptyIsWhole ==
  ASSUME TypeOK, EachStateOnce, PathInv, AllEmpty
  PROVE  /\ Explored = vertexSet
         /\ graph = WholeGraph
<1>1. Range(vertexQueue) = {} /\ InFlight = {}
  <2>1. Range(<<>>) = {}
    BY DEF Range
  <2> QED
    BY <2>1 DEF AllEmpty, InFlight
<1>2. Explored = vertexSet
  BY <1>1 DEF EachStateOnce
<1>3. Start \in Explored /\ Explored \in SUBSET States
  BY <1>2 DEF PathInv, MetByEdges, Explored, ExploredIn
<1>4. \A v \in Explored : Targets(v) \subseteq Explored
  <2> SUFFICES ASSUME NEW v \in Explored, NEW w \in Targets(v) PROVE w \in Explored
    OBVIOUS
  <2>1. PICK c \in Calls : w = Step[v][c]
    BY DEF Targets
  <2>2. v \in States /\ w \in States
    BY <1>3, EdgeTypes
  <2>3. <<v, c, w>> \in graph
    BY <2>1 DEF PathInv, WholeStates, OutEdges
  <2> QED
    BY <1>2, <2>2, <2>3 DEF PathInv, MetByEdges, LeadsTo
<1>5. \A v \in Explored : HasPath(UNION {OutEdges(u) : u \in Explored}, v)
  BY <1>2 DEF PathInv, MetHavePaths, WholeStates
<1>6. Explored = Reachable
  BY <1>3, <1>4, <1>5, ExploredIsReachable
<1> QED
  BY <1>2, <1>6 DEF PathInv, WholeStates, WholeGraph

\* exploreAll returns only with the whole graph, all the calls of every
\* reachable state, whatever forks failed on the way.
THEOREM ReturnsWhole == Spec => []Complete
<1>1. TypeOK /\ EachStateOnce /\ PathInv => Complete
  BY EmptyIsWhole DEF PathInv, DoneIsEmpty, Complete
<1> QED
  BY <1>1, PathInvariant, PTL
-----------------------------------------------------------------------------
(***************************************************************************)
(* The refinement.  Reading a buffer's first pipe is the abstract step for *)
(* the state that pipe is of, leaving the loop is the abstract end, and    *)
(* every other step leaves the graph as it was.                            *)
(***************************************************************************)
LEMMA MetIsVertexSet == PathInv => Abstract!Met = vertexSet
BY DEF PathInv, MetByEdges, LeadsTo, Abstract!Met

\* Nothing explored, the empty graph.
LEMMA AbstractInit == Init => Abstract!AInit
BY DEF Init, Abstract!AInit

\* Reading an answer is exploring a state, the return is the end; nothing else shows.
LEMMA AbstractStep ==
  TypeOK /\ EachStateOnce /\ PathInv /\ [Next]_vars => [Abstract!ANext]_(Abstract!avars)
<1> SUFFICES ASSUME TypeOK, EachStateOnce, PathInv, [Next]_vars
             PROVE  Abstract!ANext \/ UNCHANGED Abstract!avars
  OBVIOUS
<1>1. ASSUME UNCHANGED graph, phase # "done", phase' # "done" PROVE UNCHANGED Abstract!avars
  BY <1>1 DEF Abstract!avars
<1>2. CASE Fork
  BY <1>1, <1>2 DEF Fork
<1>3. CASE Read
  <2>1. PICK v \in States :
          /\ v \in vertexSet \ Explored
          /\ graph' = graph \cup OutEdges(v)
          /\ phase = "read" /\ phase' = "dispatch"
    BY <1>3, ReadEffect
  <2>2. Abstract!Explore(v)
    BY <2>1, MetIsVertexSet DEF Abstract!Explore, Abstract!OutEdges, Abstract!ExploredIn,
       Explored, OutEdges, ExploredIn
  <2> QED
    BY <2>2 DEF Abstract!ANext
<1>4. CASE ForkFails
  BY <1>1, <1>4 DEF ForkFails
<1>5. CASE EndDispatch
  BY <1>1, <1>5 DEF EndDispatch
<1>6. CASE ReadFails
  BY <1>1, <1>6 DEF ReadFails, AtHead
<1>7. CASE SwitchBuffer
  BY <1>1, <1>7 DEF SwitchBuffer
<1>8. CASE Finish
  <2>1. Abstract!Met \subseteq Explored
    BY <1>8, EmptyIsWhole, MetIsVertexSet DEF Finish
  <2>2. Abstract!Finish
    BY <1>8, <2>1 DEF Finish, Abstract!Finish, Abstract!ExploredIn, Explored, ExploredIn
  <2> QED
    BY <2>2 DEF Abstract!ANext
<1>9. ASSUME NEW v \in States, ExploreState(v) \/ ExploreFails(v) PROVE UNCHANGED Abstract!avars
  BY <1>9 DEF ExploreState, ExploreFails, Abstract!avars
<1>10. CASE UNCHANGED vars
  BY <1>10 DEF vars, Abstract!avars
<1> QED
  BY <1>2, <1>3, <1>4, <1>5, <1>6, <1>7, <1>8, <1>9, <1>10 DEF Next, Explorer

\* exploreAll, with its queue, two buffers and forked processes, implements the
\* exploration that adds the edges of one met state at a time and ends when none
\* is left.
THEOREM ExplorerImplements == Spec => Implements
<1>1. Spec => Abstract!AInit /\ [][Abstract!ANext]_(Abstract!avars)
  BY PathInvariant, AbstractInit, AbstractStep, PTL DEF Spec
<1> QED
  BY <1>1 DEF Implements, Abstract!ASpec
-----------------------------------------------------------------------------
(***************************************************************************)
(* What the abstract exploration promises by itself: the graph is made of  *)
(* whole states, each with a path, and the end comes when nothing is left. *)
(***************************************************************************)
AbstractInv ==
  /\ graph = UNION {OutEdges(v) : v \in ExploredIn(graph)}
  /\ ExploredIn(graph) \subseteq {Start} \cup LeadsTo(graph)
  /\ \A v \in {Start} \cup LeadsTo(graph) : HasPath(graph, v)
  /\ phase = "done" => LeadsTo(graph) \cup {Start} \subseteq ExploredIn(graph)

\* The empty graph leads nowhere.
LEMMA AbstractInvInit == Abstract!AInit => AbstractInv
<1> SUFFICES ASSUME graph = {}, phase # "done" PROVE AbstractInv
  BY DEF Abstract!AInit
<1>1. ExploredIn(graph) = {} /\ LeadsTo(graph) = {}
  BY DEF ExploredIn, LeadsTo
<1> QED
  BY <1>1, PathStart DEF AbstractInv

\* The state explored had a path, so what it leads to has one.
LEMMA AbstractInvStep == AbstractInv /\ [Abstract!ANext]_(Abstract!avars) => AbstractInv'
<1> SUFFICES ASSUME AbstractInv, Abstract!ANext \/ UNCHANGED Abstract!avars PROVE AbstractInv'
  OBVIOUS
<1>0. Abstract!Met = {Start} \cup LeadsTo(graph)
  BY DEF Abstract!Met, LeadsTo
<1>1. ASSUME NEW v \in States, Abstract!Explore(v) PROVE AbstractInv'
  <2>1. /\ v \in {Start} \cup LeadsTo(graph) /\ graph' = graph \cup OutEdges(v)
        /\ phase # "done" /\ phase' # "done"
    BY <1>0, <1>1 DEF Abstract!Explore, Abstract!OutEdges, OutEdges
  <2>2. ExploredIn(graph') = ExploredIn(graph) \cup {v}
    BY <2>1, ExploredAfter
  <2>3. LeadsTo(graph') = LeadsTo(graph) \cup Targets(v)
    BY <2>1, LeadsToAfter
  <2>4. \A u \in {Start} \cup LeadsTo(graph) : HasPath(graph', u)
    BY <2>1, PathMonotone DEF AbstractInv
  <2>5. ASSUME NEW u \in Targets(v) PROVE HasPath(graph', u)
    <3>1. PICK c \in Calls : u = Step[v][c]
      BY <2>5 DEF Targets
    <3>2. u \in States /\ <<v, c, u>> \in graph'
      BY <2>1, <3>1, EdgeTypes DEF OutEdges, Targets
    <3> QED
      BY <2>1, <2>4, <3>2, PathExtends
  <2>6. graph' = UNION {OutEdges(u) : u \in ExploredIn(graph')}
    BY <2>1, <2>2 DEF AbstractInv
  <2>7. ExploredIn(graph') \subseteq {Start} \cup LeadsTo(graph')
    BY <2>1, <2>2, <2>3 DEF AbstractInv
  <2> QED
    BY <2>1, <2>3, <2>4, <2>5, <2>6, <2>7 DEF AbstractInv
<1>2. CASE Abstract!Finish
  BY <1>0, <1>2 DEF Abstract!Finish, Abstract!ExploredIn, ExploredIn, AbstractInv
<1>3. CASE UNCHANGED Abstract!avars
  BY <1>3 DEF Abstract!avars, AbstractInv
<1> QED
  BY <1>1, <1>2, <1>3 DEF Abstract!ANext

\* An exploration that has ended has explored what can be reached, and all of it.
LEMMA AbstractEnd == AbstractInv => Complete
<1> SUFFICES ASSUME AbstractInv, phase = "done" PROVE graph = WholeGraph
  BY DEF Complete
<1> DEFINE S == ExploredIn(graph)
<1>1. S = {Start} \cup LeadsTo(graph) /\ S \in SUBSET States /\ Start \in S
  BY DEF AbstractInv, ExploredIn
<1>2. graph = UNION {OutEdges(u) : u \in S}
  BY DEF AbstractInv
<1>3. \A v \in S : HasPath(UNION {OutEdges(u) : u \in S}, v)
  BY <1>1, <1>2 DEF AbstractInv
<1>4. \A v \in S : Targets(v) \subseteq S
  <2> SUFFICES ASSUME NEW v \in S, NEW w \in Targets(v) PROVE w \in S
    OBVIOUS
  <2>1. PICK c \in Calls : w = Step[v][c]
    BY DEF Targets
  <2>2. v \in States /\ w \in States /\ <<v, c, w>> \in graph
    BY <1>1, <1>2, <2>1, EdgeTypes DEF OutEdges
  <2> QED
    BY <1>1, <2>2 DEF LeadsTo
<1> HIDE DEF S
<1>5. S = Reachable
  BY <1>1, <1>3, <1>4, ExploredIsReachable
<1> QED
  BY <1>2, <1>5 DEF WholeGraph

\* Whatever implements the abstract exploration returns only with the whole graph:
\* Exploration is a specification of exploreAll, and not only of its steps.
THEOREM ExplorationIsWhole == Implements => []Complete
<1>1. Abstract!AInit /\ [][Abstract!ANext]_(Abstract!avars) => []AbstractInv
  BY AbstractInvInit, AbstractInvStep, PTL
<1> QED
  BY <1>1, AbstractEnd, PTL DEF Implements, Abstract!ASpec
=============================================================================
