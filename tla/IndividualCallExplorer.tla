------------------------ MODULE IndividualCallExplorer ------------------------
(***************************************************************************)
(* IndividualCallExplorer::exploreOne: the verification of the             *)
(* users-and-groups interface makes every call in a process of its own     *)
(* (Fork<ExplorePriv2Call>), reads its result at once, and waits for the   *)
(* processes themselves, the oldest first, only when forkLimit of them     *)
(* have piled up.  Until it is waited for a process takes up one of the    *)
(* user's process slots.                                                   *)
(*                                                                         *)
(* Fork closes the ends of the pipe it does not need inside ASSERT, so a   *)
(* build with DISABLE_ASSERTIONS=1 leaves them open: in the explorer they  *)
(* use up descriptors, and the pipe of a dead process never ends.          *)
(***************************************************************************)
EXTENDS Integers, Sequences, FiniteSets

CONSTANTS
  NumCalls,         \* calls the visitor makes
  ForkLimit,        \* forkLimit, 8 in the code
  MaxFiles,         \* descriptors the explorer may have open for pipes
  ProcessSlots      \* how many processes the user may have: a set of limits

ASSUME CallExplorerAssumption ==
  /\ NumCalls \in Nat \ {0} /\ ForkLimit \in Nat \ {0}
  /\ MaxFiles \in Nat /\ MaxFiles >= 2
  /\ ProcessSlots \subseteq Nat

VARIABLES
  loop,         \* waiting to begin, run, asleep, read, trim, done or crashed
  call,         \* the call being made
  child,        \* call -> its process: none, running, written, zombie, dead or reaped
  functorQueue, \* calls whose processes are still to be waited for, oldest first
  openFiles,    \* pipe ends open in the explorer
  assertions,   \* does this build evaluate its assertions?
  slots         \* the limit in force

callVars == <<loop, call, child, functorQueue, openFiles, assertions, slots>>

CallNumbers == 1 .. NumCalls
Unreaped    == {i \in CallNumbers : child[i] \notin {"none", "reaped"}}

CallInit ==
  /\ loop = "waiting" /\ call = 1
  /\ child = [i \in CallNumbers |-> "none"]
  /\ functorQueue = <<>>
  /\ openFiles = 0
  /\ assertions = TRUE /\ slots = 0

BeginCalls ==
  /\ loop = "waiting"
  /\ loop' = "run"
  /\ assertions' \in BOOLEAN /\ slots' \in ProcessSlots
  /\ UNCHANGED <<call, child, functorQueue, openFiles>>
-----------------------------------------------------------------------------
(***************************************************************************)
(* Fork::run.  pipe() takes two descriptors and fork() a process slot.     *)
(***************************************************************************)
PipeFits == openFiles + 2 <= MaxFiles
ForkFits == Cardinality(Unreaped) < slots

\* Mutant: the explorer keeps the write end whatever the build.
RunLeaking ==
  /\ loop = "run" /\ PipeFits /\ ForkFits
  /\ child' = [child EXCEPT ![call] = "running"]
  /\ openFiles' = openFiles + 2
  /\ loop' = "read"
  /\ UNCHANGED <<call, functorQueue, assertions, slots>>

Run ==
  /\ loop = "run" /\ PipeFits /\ ForkFits
  /\ child' = [child EXCEPT ![call] = "running"]
  /\ openFiles' = openFiles + (IF assertions THEN 1 ELSE 2)
  /\ loop' = "read"
  /\ UNCHANGED <<call, functorQueue, assertions, slots>>

PipeFails ==
  /\ loop = "run" /\ ~PipeFits
  /\ loop' = "asleep"
  /\ UNCHANGED <<call, child, functorQueue, openFiles, assertions, slots>>

ForkFails ==
  /\ loop = "run" /\ PipeFits /\ ~ForkFits
  /\ loop' = "asleep"
  /\ openFiles' = openFiles + (IF assertions THEN 0 ELSE 2)
  /\ UNCHANGED <<call, child, functorQueue, assertions, slots>>

\* The loop of exploreOne tries again after a second, and waits for nobody.
Retry ==
  /\ loop = "asleep"
  /\ loop' = "run"
  /\ UNCHANGED <<call, child, functorQueue, openFiles, assertions, slots>>
-----------------------------------------------------------------------------
(***************************************************************************)
(* The processes: ExplorePriv2Call goes to the state, makes the call and   *)
(* writes the answer, unless an assertion of the interface kills it first. *)
(***************************************************************************)
ChildWrites(i) ==
  /\ child[i] = "running"
  /\ child' = [child EXCEPT ![i] = "written"]
  /\ UNCHANGED <<loop, call, functorQueue, openFiles, assertions, slots>>

ChildDies(i) ==
  /\ child[i] = "running"
  /\ child' = [child EXCEPT ![i] = "dead"]
  /\ UNCHANGED <<loop, call, functorQueue, openFiles, assertions, slots>>

ChildExits(i) ==
  /\ child[i] = "written"
  /\ child' = [child EXCEPT ![i] = "zombie"]
  /\ UNCHANGED <<loop, call, functorQueue, openFiles, assertions, slots>>
-----------------------------------------------------------------------------
(***************************************************************************)
(* Fork::read returns when the answer is complete; the process may live    *)
(* on.  At the end of an empty pipe the archive throws and nobody catches. *)
(***************************************************************************)
Read ==
  /\ loop = "read" /\ child[call] \in {"written", "zombie"}
  /\ functorQueue' = Append(functorQueue, call)
  /\ openFiles' = openFiles - 1
  /\ loop' = "trim"
  /\ UNCHANGED <<call, child, assertions, slots>>

ReadNothing ==
  /\ loop = "read" /\ child[call] = "dead" /\ assertions
  /\ loop' = "crashed"
  /\ UNCHANGED <<call, child, functorQueue, openFiles, assertions, slots>>

\* A pipe whose write end the reader holds itself never ends.
ReadsForEver == loop = "read" /\ child[call] = "dead" /\ ~assertions

\* Mutant: one process too many may pile up.
MoreThanEnough == Len(functorQueue) > ForkLimit

\* Mutant: one too few.
OneLessPiledUp == Len(functorQueue) >= ForkLimit - 1

EnoughPiledUp == Len(functorQueue) >= ForkLimit

Trim ==
  /\ loop = "trim" /\ EnoughPiledUp
  /\ child[Head(functorQueue)] = "zombie"
  /\ child' = [child EXCEPT ![Head(functorQueue)] = "reaped"]
  /\ functorQueue' = Tail(functorQueue)
  /\ UNCHANGED <<loop, call, openFiles, assertions, slots>>

\* Mutant: the loop looks for its end one call too late.
NextCallPastEnd ==
  /\ loop = "trim" /\ ~EnoughPiledUp
  /\ IF call > NumCalls
     THEN loop' = "done" /\ UNCHANGED call
     ELSE loop' = "run" /\ call' = call + 1
  /\ UNCHANGED <<child, functorQueue, openFiles, assertions, slots>>

NextCallOrDone ==
  /\ loop = "trim" /\ ~EnoughPiledUp
  /\ IF call = NumCalls
     THEN loop' = "done" /\ UNCHANGED call
     ELSE loop' = "run" /\ call' = call + 1
  /\ UNCHANGED <<child, functorQueue, openFiles, assertions, slots>>

Explores == Run \/ PipeFails \/ ForkFails \/ Retry \/ Read \/ ReadNothing \/ Trim \/ NextCallOrDone

ChildStep(i) == ChildWrites(i) \/ ChildDies(i) \/ ChildExits(i)

CallNext == BeginCalls \/ Explores \/ \E i \in CallNumbers : ChildStep(i)

\* The scheduler lets the explorer and every process it forks go on.
CallFairness ==
  /\ WF_callVars(Explores)
  /\ \A i \in CallNumbers : WF_callVars(ChildStep(i))

CallSpec == CallInit /\ [][CallNext]_callVars /\ CallFairness
-----------------------------------------------------------------------------
CallTypeOK ==
  /\ loop \in {"waiting", "run", "asleep", "read", "trim", "done", "crashed"}
  /\ call \in CallNumbers
  /\ child \in [CallNumbers -> {"none", "running", "written", "zombie", "dead", "reaped"}]
  /\ functorQueue \in Seq(CallNumbers)
  /\ openFiles \in Nat
  /\ assertions \in BOOLEAN /\ slots \in Nat

\* However the processes' ends interleave with the loop, no more than ForkLimit
\* of them exist at a time, running ones and zombies (exploreOne,
\* GraphExplorerImpl.h:343).
ZombiesBounded == Cardinality(Unreaped) <= ForkLimit

\* The loop waits for a process only when ForkLimit have piled up, so it needs a
\* slot for each of these; with fewer, or in a build whose descriptors run out,
\* it retries for ever.  With enough, it comes to an end (GraphExplorerImpl.h:336).
VerifierFinishes ==
  loop = "run" /\ call = 1 /\ assertions /\ slots >= ForkLimit ~> loop \in {"done", "crashed"}

\* It never ends when the limit is below what it lets pile up.
NeedsItsSlots ==
  loop = "done" => slots >= ForkLimit \/ slots >= NumCalls
=============================================================================
