---------------------------- MODULE GraphExplorer ----------------------------
(***************************************************************************)
(* GraphExplorer::exploreAll of src/GraphExplorerImpl.h.  The explorer     *)
(* keeps a queue of states it has met and forks one process for each; the  *)
(* process goes to its state, makes every call in a process of its own and *)
(* writes the edges it found to a pipe.  Two buffers hold the forks: while *)
(* one is read, in order, the other is filled from the queue.              *)
(*                                                                         *)
(* A forked process works on a copy of the graph as it was when it was     *)
(* forked, so it meets the explorer again only at the end of its pipe: its *)
(* whole work is one step.  pipe() and fork() may fail, MaxFaults times.   *)
(***************************************************************************)
EXTENDS CallGraph, Sequences, Functions

CONSTANTS
  NoJump,          \* states no setresuid call can name (canJumpToVertex)
  StateForkLimit,  \* stateForkLimit, 25 in the code
  MaxFaults        \* bound: failures of pipe() and fork()

ASSUME NoJumpAssumption == NoJump \subseteq States
ASSUME LimitAssumption  == StateForkLimit \in Nat \ {0}
ASSUME FaultsAssumption == MaxFaults \in Nat

VARIABLES
  graph,          \* g: its edges <<v, call, w>>
  vertexSet,      \* states met
  vertexQueue,    \* states still to dispatch
  forkStates,     \* forkStates1 and forkStates2: the states of their forks
  numStateForks,
  phase,          \* what the explorer is at
  reading,        \* the buffer to read; new forks go to the other
  status,         \* the process of each state, and
  seen,           \* the copy of g it was forked with
  faults          \* failures so far

forks   == <<status, seen>>
vars    == <<graph, vertexSet, vertexQueue, forkStates, numStateForks,
             phase, reading, forks, faults>>

Buffers == {1, 2}
Other(b) == 3 - b

Init ==
  /\ graph = {}
  /\ vertexSet = {Start}
  /\ vertexQueue = <<Start>>
  /\ forkStates = [b \in Buffers |-> <<>>]
  /\ numStateForks = 0
  /\ phase = "dispatch"
  /\ reading = 2
  /\ status = [v \in States |-> "none"]
  /\ seen = [v \in States |-> {}]
  /\ faults = 0
-----------------------------------------------------------------------------
(***************************************************************************)
(* dispatchForkStates.                                                     *)
(***************************************************************************)
MoreToDispatch == vertexQueue # <<>> /\ numStateForks < StateForkLimit

\* Mutants of Fork: the limit is not looked at; the state stays in the queue.
ForkAtLimit ==
  /\ phase = "dispatch"
  /\ vertexQueue # <<>>
  /\ LET v == Head(vertexQueue)
     IN  /\ forkStates' = [forkStates EXCEPT ![Other(reading)] = Append(@, v)]
         /\ status' = [status EXCEPT ![v] = "running"]
         /\ seen' = [seen EXCEPT ![v] = graph]
  /\ vertexQueue' = Tail(vertexQueue)
  /\ numStateForks' = numStateForks + 1
  /\ UNCHANGED <<graph, vertexSet, phase, reading, faults>>

ForkWithoutPop ==
  /\ phase = "dispatch"
  /\ MoreToDispatch
  /\ LET v == Head(vertexQueue)
     IN  /\ forkStates' = [forkStates EXCEPT ![Other(reading)] = Append(@, v)]
         /\ status' = [status EXCEPT ![v] = "running"]
         /\ seen' = [seen EXCEPT ![v] = graph]
  /\ numStateForks' = numStateForks + 1
  /\ UNCHANGED <<graph, vertexSet, vertexQueue, phase, reading, faults>>

Fork ==
  /\ phase = "dispatch"
  /\ MoreToDispatch
  /\ LET v == Head(vertexQueue)
     IN  /\ forkStates' = [forkStates EXCEPT ![Other(reading)] = Append(@, v)]
         /\ status' = [status EXCEPT ![v] = "running"]
         /\ seen' = [seen EXCEPT ![v] = graph]
  /\ vertexQueue' = Tail(vertexQueue)
  /\ numStateForks' = numStateForks + 1
  /\ UNCHANGED <<graph, vertexSet, phase, reading, faults>>

\* One failure is the threshold: the state stays in the queue and the explorer
\* sleeps, then goes on reading.
ForkFails ==
  /\ phase = "dispatch"
  /\ MoreToDispatch
  /\ faults < MaxFaults
  /\ faults' = faults + 1
  /\ phase' = "read"
  /\ UNCHANGED <<graph, vertexSet, vertexQueue, forkStates, numStateForks, reading, forks>>

EndDispatch ==
  /\ phase = "dispatch"
  /\ ~MoreToDispatch
  /\ phase' = "read"
  /\ UNCHANGED <<graph, vertexSet, vertexQueue, forkStates, numStateForks,
                 reading, forks, faults>>
-----------------------------------------------------------------------------
(***************************************************************************)
(* The forked process of state v: ExploreState::operator(), with an        *)
(* ExploreCall process for every call, one after the other.  Each of these *)
(* jumps to v or follows a path of the copied graph, and asserts there is  *)
(* one; if one cannot be forked, waiting for it fails an assertion.        *)
(***************************************************************************)
CanGoTo(v) == v \notin NoJump \/ HasPath(seen[v], v)

ExploreState(v) ==
  /\ status[v] = "running"
  /\ status' = [status EXCEPT ![v] = IF CanGoTo(v) THEN "written" ELSE "dead"]
  /\ UNCHANGED <<graph, vertexSet, vertexQueue, forkStates, numStateForks,
                 phase, reading, seen, faults>>

ExploreFails(v) ==
  /\ status[v] = "running"
  /\ faults < MaxFaults
  /\ faults' = faults + 1
  /\ status' = [status EXCEPT ![v] = "dead"]
  /\ UNCHANGED <<graph, vertexSet, vertexQueue, forkStates, numStateForks,
                 phase, reading, seen>>
-----------------------------------------------------------------------------
(***************************************************************************)
(* bufferForkStates: the forks of a buffer are read in order, each read    *)
(* waiting for the end of the pipe, each followed by a dispatch into the   *)
(* other buffer.  The edges come in the order of a std::set, so the states *)
(* met for the first time enter the queue in some order.                   *)
(***************************************************************************)
Orders(S) ==
  {q \in [1 .. Cardinality(S) -> S] :
     IsInjective(q) /\ \A v \in S : \E i \in DOMAIN q : q[i] = v}

AtHead(st) ==
  /\ phase = "read"
  /\ forkStates[reading] # <<>>
  /\ status[Head(forkStates[reading])] = st

\* Mutants of Read: the fork is not taken off the count; only the edges to
\* states not met before are added.
ReadUncounted ==
  /\ AtHead("written")
  /\ LET v   == Head(forkStates[reading])
         new == Targets(v) \ vertexSet
     IN  /\ graph' = graph \cup OutEdges(v)
         /\ vertexSet' = vertexSet \cup new
         /\ \E q \in Orders(new) : vertexQueue' = vertexQueue \o q
         /\ status' = [status EXCEPT ![v] = "read"]
  /\ forkStates' = [forkStates EXCEPT ![reading] = Tail(@)]
  /\ phase' = "dispatch"
  /\ UNCHANGED <<numStateForks, reading, seen, faults>>

ReadNewOnly ==
  /\ AtHead("written")
  /\ LET v   == Head(forkStates[reading])
         new == Targets(v) \ vertexSet
     IN  /\ graph' = graph \cup {e \in OutEdges(v) : e[3] \in new}
         /\ vertexSet' = vertexSet \cup new
         /\ \E q \in Orders(new) : vertexQueue' = vertexQueue \o q
         /\ status' = [status EXCEPT ![v] = "read"]
  /\ forkStates' = [forkStates EXCEPT ![reading] = Tail(@)]
  /\ numStateForks' = numStateForks - 1
  /\ phase' = "dispatch"
  /\ UNCHANGED <<reading, seen, faults>>

Read ==
  /\ AtHead("written")
  /\ LET v   == Head(forkStates[reading])
         new == Targets(v) \ vertexSet
     IN  /\ graph' = graph \cup OutEdges(v)
         /\ vertexSet' = vertexSet \cup new
         /\ \E q \in Orders(new) : vertexQueue' = vertexQueue \o q
         /\ status' = [status EXCEPT ![v] = "read"]
  /\ forkStates' = [forkStates EXCEPT ![reading] = Tail(@)]
  /\ numStateForks' = numStateForks - 1
  /\ phase' = "dispatch"
  /\ UNCHANGED <<reading, seen, faults>>

\* An empty pipe is not an archive: the exception ends the explorer.
ReadFails ==
  /\ AtHead("dead")
  /\ phase' = "crashed"
  /\ UNCHANGED <<graph, vertexSet, vertexQueue, forkStates, numStateForks,
                 reading, forks, faults>>

(***************************************************************************)
(* The loop of exploreAll.  Its condition is looked at after buffer 2.     *)
(***************************************************************************)
AllEmpty == vertexQueue = <<>> /\ \A b \in Buffers : forkStates[b] = <<>>

SwitchBuffer ==
  /\ phase = "read"
  /\ forkStates[reading] = <<>>
  /\ ~(reading = 2 /\ AllEmpty)
  /\ reading' = Other(reading)
  /\ UNCHANGED <<graph, vertexSet, vertexQueue, forkStates, numStateForks,
                 phase, forks, faults>>

\* Mutant: the loop looks at the queue alone.
FinishOnEmptyQueue ==
  /\ phase = "read"
  /\ reading = 2 /\ forkStates[2] = <<>> /\ vertexQueue = <<>>
  /\ phase' = "done"
  /\ UNCHANGED <<graph, vertexSet, vertexQueue, forkStates, numStateForks,
                 reading, forks, faults>>

Finish ==
  /\ phase = "read"
  /\ reading = 2 /\ AllEmpty
  /\ phase' = "done"
  /\ UNCHANGED <<graph, vertexSet, vertexQueue, forkStates, numStateForks,
                 reading, forks, faults>>
-----------------------------------------------------------------------------
Explorer == Fork \/ ForkFails \/ EndDispatch \/ Read \/ ReadFails \/ SwitchBuffer \/ Finish

Next == Explorer \/ \E v \in States : ExploreState(v) \/ ExploreFails(v)

\* The explorer never waits for anything but a pipe, and the kernel runs every
\* process.
Fairness == WF_vars(Explorer) /\ \A v \in States : WF_vars(ExploreState(v))

Spec     == Init /\ [][Next]_vars
FairSpec == Spec /\ Fairness
-----------------------------------------------------------------------------
Explored == ExploredIn(graph)
InFlight == Range(forkStates[1]) \cup Range(forkStates[2])

\* Type correctness, the number of forks within the limit.
TypeOK ==
  /\ graph \subseteq AllEdges
  /\ vertexSet \subseteq States
  /\ vertexQueue \in Seq(States)
  /\ forkStates \in [Buffers -> Seq(States)]
  /\ numStateForks \in 0 .. StateForkLimit
  /\ phase \in {"dispatch", "read", "done", "crashed"}
  /\ reading \in Buffers
  /\ status \in [States -> {"none", "running", "written", "dead", "read"}]
  /\ seen \in [States -> SUBSET AllEdges]
  /\ faults \in 0 .. MaxFaults

\* No state is lost and none explored twice, however forks fail and answers are
\* delayed: a state met is in one place, once: in the queue, in one of the
\* buffers, or explored, its edges in the graph (the pop only after run()
\* succeeded, GraphExplorerImpl.h:98-111; the double buffer, 34-56).
EachStateOnce ==
  /\ vertexSet = Range(vertexQueue) \cup InFlight \cup Explored
  /\ IsInjective(vertexQueue) /\ \A b \in Buffers : IsInjective(forkStates[b])
  /\ Range(forkStates[1]) \cap Range(forkStates[2]) = {}
  /\ Range(vertexQueue) \cap InFlight = {}
  /\ (Range(vertexQueue) \cup InFlight) \cap Explored = {}

\* numStateForks counts the forks not read yet, in both buffers together, and so
\* the limit is never passed (GraphExplorerImpl.h:69, 98-104).
ForkBound ==
  /\ numStateForks = Len(forkStates[1]) + Len(forkStates[2])
  /\ numStateForks <= StateForkLimit

\* A forked process never has to go to a state its own, by now outdated, copy of
\* the graph has no path to (the assertions of getPath, GraphImpl.h:406-425):
\* only a failed fork can kill it.
PathsExist ==
  \A v \in States : status[v] = "running" => HasPath(seen[v], v)

\* exploreAll returns only with the whole graph: every reachable state and every
\* call from it, even when forks have failed on the way.
Complete == phase = "done" => graph = WholeGraph

\* Without a failure of fork() or pipe() exploreAll returns.
Termination == <>(phase = "done" \/ faults > 0)

\* A state whose fork failed is tried again, unless the explorer dies ("If the
\* fork failed, ditch the Fork object; we'll try again",
\* GraphExplorerImpl.h:107; "still trying...", 113).
Retried ==
  \A v \in States :
    v \in Range(vertexQueue) ~> (v \notin Range(vertexQueue) \/ phase = "crashed")

\* The explorer implements the abstract exploration, its queue, buffers and
\* processes hidden.
Abstract   == INSTANCE Exploration WITH finished <- (phase = "done")
Implements == Abstract!ASpec
=============================================================================
