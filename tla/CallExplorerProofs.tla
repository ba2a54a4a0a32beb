-------------------------- MODULE CallExplorerProofs --------------------------
(***************************************************************************)
(* Theorems about IndividualCallExplorer, for any number of calls, any     *)
(* forkLimit and any limits on processes and descriptors.                  *)
(***************************************************************************)
EXTENDS IndividualCallExplorer, SequenceTheorems, FiniteSetTheorems, TLAPS

(***************************************************************************)
(* The queue holds the youngest calls that were answered, in the order of  *)
(* the calls; the processes of all older ones are waited for, those of     *)
(* later calls do not exist, and only the call being made is neither.      *)
(***************************************************************************)
Answered == IF loop \in {"trim", "done"} THEN call ELSE call - 1
Oldest   == Answered - Len(functorQueue)

MayHaveProcess == {"read", "crashed"}

QueueInOrder ==
  /\ Len(functorQueue) <= Answered
  /\ \A k \in 1 .. Len(functorQueue) : functorQueue[k] = Oldest + k

ChildrenInOrder ==
  \A i \in CallNumbers :
    /\ i <= Oldest => child[i] = "reaped"
    /\ i > Answered => child[i] = "none" \/ (i = call /\ loop \in MayHaveProcess)

QueueBounded == Len(functorQueue) < ForkLimit \/ (loop = "trim" /\ Len(functorQueue) = ForkLimit)

ReadEndOpen == loop = "read" => openFiles >= 1

CallInv ==
  /\ CallTypeOK
  /\ QueueInOrder /\ ChildrenInOrder /\ QueueBounded /\ ReadEndOpen

(***************************************************************************)
(* With fewer slots than ForkLimit nothing is ever waited for, so the call *)
(* after the last slot is never made.                                      *)
(***************************************************************************)
Untouched == loop = "waiting" => call = 1 /\ \A i \in CallNumbers : child[i] = "none"

NothingReaped ==
  loop # "waiting" /\ slots < ForkLimit =>
    /\ call <= slots + 1
    /\ loop \notin {"run", "asleep"} => call <= slots
    /\ \A i \in CallNumbers : child[i] # "reaped" /\ (i <= Answered => child[i] # "none")
-----------------------------------------------------------------------------
USE CallExplorerAssumption DEF CallNumbers

\* functorQueue.pop() of a queue of calls.
LEMMA PopQueue ==
  ASSUME NEW S, NEW q \in Seq(S), Len(q) >= 1
  PROVE  /\ Head(q) = q[1] /\ q[1] \in S
         /\ Tail(q) \in Seq(S) /\ Len(Tail(q)) = Len(q) - 1
         /\ \A k \in 1 .. Len(q) - 1 : Tail(q)[k] = q[k + 1]
<1>1. q # <<>>
  BY EmptySeq, LenProperties
<1>2. Len(q) \in Nat /\ q[1] \in S
  BY ElementOfSeq, LenProperties
<1>3. QED
  BY <1>1, <1>2, HeadTailProperties

\* functorQueue.push() of the answered call.
LEMMA PushQueue ==
  ASSUME NEW S, NEW q \in Seq(S), NEW x \in S
  PROVE  /\ Append(q, x) \in Seq(S) /\ Len(Append(q, x)) = Len(q) + 1
         /\ \A k \in 1 .. Len(q) : Append(q, x)[k] = q[k]
         /\ Append(q, x)[Len(q) + 1] = x
BY AppendProperties, LenProperties

\* Before the first call nothing is queued.
LEMMA CallInitInv == CallInit => CallInv
<1> SUFFICES ASSUME CallInit PROVE CallInv
  OBVIOUS
<1>1. functorQueue \in Seq(CallNumbers) /\ Len(functorQueue) = 0
  BY EmptySeq DEF CallInit
<1>2. CallTypeOK
  BY <1>1 DEF CallInit, CallTypeOK
<1>3. QED
  BY <1>1, <1>2 DEF CallInit, CallInv, QueueInOrder, ChildrenInOrder, QueueBounded,
                    ReadEndOpen, Answered, Oldest

\* A process that writes, dies or exits stays one that is to be waited for.
LEMMA ChildStepInv ==
  ASSUME CallInv, NEW i \in CallNumbers, ChildStep(i)
  PROVE  CallInv'
<1>1. PICK st \in {"written", "dead", "zombie"} : child' = [child EXCEPT ![i] = st]
  BY DEF ChildStep, ChildWrites, ChildDies, ChildExits
<1>2. /\ child[i] \in {"running", "written"}
      /\ UNCHANGED <<loop, call, functorQueue, openFiles, assertions, slots>>
  BY DEF ChildStep, ChildWrites, ChildDies, ChildExits
<1>3. CallTypeOK'
  BY <1>1, <1>2 DEF CallInv, CallTypeOK
<1>4. ChildrenInOrder'
  BY <1>1, <1>2 DEF CallInv, CallTypeOK, ChildrenInOrder, Answered, Oldest
<1>5. QueueInOrder' /\ QueueBounded' /\ ReadEndOpen'
  BY <1>2 DEF CallInv, QueueInOrder, QueueBounded, ReadEndOpen, Answered, Oldest
<1>6. QED
  BY <1>3, <1>4, <1>5 DEF CallInv

\* The explorer's own steps, one by one.
LEMMA CallNextInv == CallInv /\ [CallNext]_callVars => CallInv'
<1> SUFFICES ASSUME CallInv, [CallNext]_callVars PROVE CallInv'
  OBVIOUS
<1> USE DEF MayHaveProcess
<1>0. /\ call \in 1 .. NumCalls /\ Len(functorQueue) \in Nat /\ openFiles \in Nat
      /\ slots \in Nat /\ functorQueue \in Seq(CallNumbers)
  BY LenProperties DEF CallInv, CallTypeOK
<1>a. Answered \in Int /\ Oldest \in Int
  BY <1>0 DEF Answered, Oldest
<1>1. CASE BeginCalls
  <2>1. CallTypeOK'
    BY <1>1 DEF CallInv, CallTypeOK, BeginCalls
  <2>2. QED
    BY <1>0, <1>1, <2>1 DEF CallInv, CallTypeOK, BeginCalls, QueueInOrder, ChildrenInOrder,
                       QueueBounded, ReadEndOpen, Answered, Oldest
<1>2. CASE Run
  <2>1. CallTypeOK' /\ openFiles' >= 1
    BY <1>0, <1>2 DEF CallInv, CallTypeOK, Run
  <2>2. ChildrenInOrder'
    BY <1>0, <1>2 DEF CallInv, CallTypeOK, Run, ChildrenInOrder, Answered, Oldest
  <2>3. QueueInOrder' /\ QueueBounded'
    BY <1>0, <1>2 DEF CallInv, Run, QueueInOrder, QueueBounded, Answered, Oldest
  <2>4. QED
    BY <2>1, <2>2, <2>3 DEF CallInv, ReadEndOpen
<1>3. CASE PipeFails \/ ForkFails \/ Retry \/ ReadNothing
  <2>1. /\ loop \in {"run", "asleep", "read"} /\ loop' \in {"run", "asleep", "crashed"}
        /\ loop = "read" => loop' = "crashed"
        /\ UNCHANGED <<call, child, functorQueue, assertions, slots>>
        /\ openFiles' \in Nat
    BY <1>0, <1>3 DEF PipeFails, ForkFails, Retry, ReadNothing
  <2>2. CallTypeOK'
    BY <2>1 DEF CallInv, CallTypeOK
  <2>3. loop # "trim" /\ Answered' = Answered /\ Oldest' = Oldest
    BY <2>1 DEF Answered, Oldest
  <2>4. QueueInOrder' /\ QueueBounded' /\ ReadEndOpen'
    BY <2>1, <2>3 DEF CallInv, QueueInOrder, QueueBounded, ReadEndOpen
  <2>5. ChildrenInOrder'
    <3>1. loop \in MayHaveProcess => loop' \in MayHaveProcess
      BY <2>1
    <3>2. QED
      BY <1>a, <2>1, <2>3, <3>1 DEF CallInv, ChildrenInOrder, MayHaveProcess
  <2>6. QED
    BY <2>2, <2>4, <2>5 DEF CallInv
<1>4. CASE Read
  <2>1. /\ functorQueue' \in Seq(CallNumbers)
        /\ Len(functorQueue') = Len(functorQueue) + 1
        /\ \A k \in 1 .. Len(functorQueue) : functorQueue'[k] = functorQueue[k]
        /\ functorQueue'[Len(functorQueue) + 1] = call
    BY <1>0, <1>4, PushQueue DEF Read
  <2>2. CallTypeOK'
    BY <1>0, <1>4, <2>1 DEF CallInv, CallTypeOK, Read, ReadEndOpen
  <2>3. Answered' = Answered + 1 /\ Answered' = call /\ Oldest' = Oldest
    BY <1>0, <1>4, <2>1 DEF Read, Answered, Oldest
  <2>4. QueueInOrder' /\ QueueBounded'
    <3>1. \A k \in 1 .. Len(functorQueue') : functorQueue'[k] = Oldest' + k
      <4> TAKE k \in 1 .. Len(functorQueue')
      <4>1. CASE k = Len(functorQueue) + 1
        BY <1>0, <2>1, <2>3, <4>1 DEF Answered, Oldest
      <4>2. CASE k \in 1 .. Len(functorQueue)
        BY <2>1, <2>3, <4>2 DEF CallInv, QueueInOrder
      <4>3. QED
        BY <1>0, <2>1, <4>1, <4>2
    <3>2. Len(functorQueue') <= Answered'
      BY <1>0, <1>a, <2>1, <2>3 DEF CallInv, QueueInOrder
    <3>3. Len(functorQueue) < ForkLimit /\ loop' = "trim"
      BY <1>4 DEF CallInv, QueueBounded, Read
    <3>4. QueueBounded'
      <4>1. Len(functorQueue') = ForkLimit \/ Len(functorQueue') < ForkLimit
        BY <1>0, <2>1, <3>3
      <4>2. QED
        BY <3>3, <4>1 DEF QueueBounded
    <3>5. QED
      BY <3>1, <3>2, <3>4 DEF QueueInOrder
  <2>5. ChildrenInOrder'
    BY <1>0, <1>4, <2>3 DEF CallInv, ChildrenInOrder, Read, Answered, Oldest
  <2>6. QED
    BY <1>4, <2>2, <2>4, <2>5 DEF CallInv, ReadEndOpen, Read
<1>5. CASE Trim
  <2>1. Len(functorQueue) >= 1 /\ Len(functorQueue) >= ForkLimit
    BY <1>0, <1>5 DEF Trim, EnoughPiledUp
  <2>2. /\ Head(functorQueue) = functorQueue[1] /\ functorQueue[1] \in CallNumbers
        /\ functorQueue' \in Seq(CallNumbers)
        /\ Len(functorQueue') = Len(functorQueue) - 1
        /\ \A k \in 1 .. Len(functorQueue) - 1 : functorQueue'[k] = functorQueue[k + 1]
    BY <1>0, <1>5, <2>1, PopQueue DEF Trim
  <2>3. functorQueue[1] = Oldest + 1 /\ Answered' = Answered /\ Oldest' = Oldest + 1
    BY <1>0, <1>5, <2>1, <2>2 DEF CallInv, QueueInOrder, Trim, Answered, Oldest
  <2>4. CallTypeOK'
    BY <1>5, <2>2 DEF CallInv, CallTypeOK, Trim
  <2>5. QueueInOrder'
    <3>1. \A k \in 1 .. Len(functorQueue') : functorQueue'[k] = Oldest' + k
      <4> TAKE k \in 1 .. Len(functorQueue')
      <4>1. k + 1 \in 1 .. Len(functorQueue) /\ functorQueue'[k] = functorQueue[k + 1]
        BY <1>0, <2>2
      <4>2. functorQueue[k + 1] = Oldest + (k + 1)
        BY <4>1 DEF CallInv, QueueInOrder
      <4>3. QED
        BY <1>0, <1>a, <2>2, <2>3, <4>1, <4>2
    <3>2. Len(functorQueue') <= Answered'
      BY <1>0, <1>a, <2>2, <2>3 DEF CallInv, QueueInOrder
    <3>3. QED
      BY <3>1, <3>2 DEF QueueInOrder
  <2>6. ChildrenInOrder'
    BY <1>0, <1>5, <2>2, <2>3 DEF CallInv, CallTypeOK, ChildrenInOrder, Trim, Answered, Oldest
  <2>7. QueueBounded'
    <3>1. Len(functorQueue) <= ForkLimit
      BY <1>0 DEF CallInv, QueueBounded
    <3>2. Len(functorQueue') < ForkLimit
      BY <1>0, <2>2, <3>1
    <3>3. QED
      BY <3>2 DEF QueueBounded
  <2>8. ReadEndOpen'
    BY <1>5 DEF ReadEndOpen, Trim
  <2>9. QED
    BY <2>4, <2>5, <2>6, <2>7, <2>8 DEF CallInv
<1>6. CASE NextCallOrDone
  <2>1. CallTypeOK'
    BY <1>0, <1>6 DEF CallInv, CallTypeOK, NextCallOrDone
  <2>2. Answered' = Answered /\ Answered = call /\ Oldest' = Oldest
    BY <1>0, <1>6 DEF NextCallOrDone, Answered, Oldest
  <2>3. QED
    BY <1>0, <1>6, <2>1, <2>2 DEF CallInv, QueueInOrder, ChildrenInOrder, QueueBounded,
                                  ReadEndOpen, NextCallOrDone, EnoughPiledUp
<1>7. CASE \E i \in CallNumbers : ChildStep(i)
  BY <1>7, ChildStepInv
<1>8. CASE UNCHANGED callVars
  BY <1>8 DEF callVars, CallInv, CallTypeOK, QueueInOrder, ChildrenInOrder, QueueBounded,
              ReadEndOpen, Answered, Oldest
<1>9. QED
  BY <1>1, <1>2, <1>3, <1>4, <1>5, <1>6, <1>7, <1>8 DEF CallNext, Explores

\* Type correctness, and the order of the queue and the processes, for every
\* interleaving of exploreOne with the processes it forks.
THEOREM CallInvariant == CallSpec => []CallInv
BY CallInitInv, CallNextInv, PTL DEF CallSpec
-----------------------------------------------------------------------------
\* What may be waited for is an interval of calls no longer than ForkLimit.
LEMMA CallInvBounds == CallInv => ZombiesBounded
<1> SUFFICES ASSUME CallInv PROVE ZombiesBounded
  OBVIOUS
<1>0. call \in 1 .. NumCalls /\ Len(functorQueue) \in Nat
  BY LenProperties DEF CallInv, CallTypeOK
<1> DEFINE newest == IF loop \in MayHaveProcess THEN call ELSE Answered
<1>1. Oldest + 1 \in Int /\ newest \in Int /\ newest - Oldest <= ForkLimit /\ newest - Oldest >= 0
  BY <1>0 DEF CallInv, QueueInOrder, QueueBounded, Answered, Oldest, MayHaveProcess
<1>2. Unreaped \subseteq (Oldest + 1) .. newest
  <2> SUFFICES ASSUME NEW i \in Unreaped PROVE i \in (Oldest + 1) .. newest
    OBVIOUS
  <2>1. i \in 1 .. NumCalls /\ child[i] \notin {"none", "reaped"}
    BY DEF Unreaped
  <2>2. ~(i <= Oldest) /\ (i > Answered => i = call /\ loop \in MayHaveProcess)
    BY <2>1 DEF CallInv, ChildrenInOrder
  <2>3. QED
    BY <1>0, <1>1, <2>1, <2>2 DEF Oldest, Answered, MayHaveProcess
<1>3. /\ IsFiniteSet((Oldest + 1) .. newest)
      /\ Cardinality((Oldest + 1) .. newest) <= ForkLimit
  <2> HIDE DEF newest
  <2>1. Oldest \in Int
    BY <1>0 DEF Oldest, Answered
  <2>2. Cardinality((Oldest + 1) .. newest) = IF Oldest + 1 > newest THEN 0 ELSE newest - (Oldest + 1) + 1
    BY <1>1, FS_Interval
  <2>3. IsFiniteSet((Oldest + 1) .. newest)
    BY <1>1, FS_Interval
  <2>4. QED
    BY <1>1, <2>1, <2>2, <2>3
<1>4. /\ IsFiniteSet(Unreaped) /\ Cardinality(Unreaped) <= Cardinality((Oldest + 1) .. newest)
  BY <1>2, <1>3, FS_Subset
<1>5. QED
  BY <1>3, <1>4, FS_CardinalityType DEF ZombiesBounded

\* Running processes and zombies together never exceed forkLimit
\* (GraphExplorerImpl.h:343).
THEOREM ZombiesAreBounded == CallSpec => []ZombiesBounded
BY CallInvariant, CallInvBounds, PTL
-----------------------------------------------------------------------------
SlotsInv == CallInv /\ Untouched /\ NothingReaped /\ NeedsItsSlots

\* When every process of the calls so far takes up a slot, fork() succeeds only
\* below the limit.
LEMMA ForkNeedsSlot ==
  ASSUME CallInv, NothingReaped, loop = "run", slots < ForkLimit, ForkFits
  PROVE  call <= slots
<1>0. call \in 1 .. NumCalls /\ slots \in Nat
  BY DEF CallInv, CallTypeOK
<1>1. Unreaped = 1 .. call - 1
  <2>1. \A i \in 1 .. call - 1 : i \in Unreaped
    BY <1>0 DEF NothingReaped, Unreaped, Answered
  <2>2. \A i \in Unreaped : i \in 1 .. call - 1
    BY <1>0 DEF CallInv, ChildrenInOrder, Unreaped, Answered, MayHaveProcess
  <2>3. QED
    BY <2>1, <2>2
<1>2. Cardinality(1 .. call - 1) = IF 1 > call - 1 THEN 0 ELSE (call - 1) - 1 + 1
  BY <1>0, FS_Interval
<1>3. QED
  BY <1>0, <1>1, <1>2 DEF ForkFits

\* Before the first call no slot is taken.
LEMMA SlotsInitInv == CallInit => SlotsInv
BY CallInitInv DEF CallInit, SlotsInv, Untouched, NothingReaped, NeedsItsSlots

\* While nothing was waited for, each call made keeps its slot.
LEMMA SlotsNextInv == SlotsInv /\ [CallNext]_callVars => SlotsInv'
<1> SUFFICES ASSUME SlotsInv, [CallNext]_callVars PROVE SlotsInv'
  OBVIOUS
<1>0. /\ call \in 1 .. NumCalls /\ slots \in Nat /\ Len(functorQueue) \in Nat
      /\ child \in [CallNumbers -> {"none", "running", "written", "zombie", "dead", "reaped"}]
  BY LenProperties DEF SlotsInv, CallInv, CallTypeOK
<1>1. CallInv'
  BY CallNextInv DEF SlotsInv
<1>2. Untouched' /\ NothingReaped' /\ NeedsItsSlots'
  <2>1. CASE BeginCalls
    <3>1. /\ call' = 1 /\ child' = child /\ loop' = "run"
          /\ \A i \in CallNumbers : child'[i] = "none" /\ ~(i <= 0)
      BY <2>1 DEF SlotsInv, Untouched, BeginCalls
    <3>2. slots' \in Nat
      BY <2>1 DEF BeginCalls
    <3>3. Answered' = 0
      <4>1. call' = 1 /\ loop' = "run"
        BY <3>1
      <4>2. QED
        BY <4>1 DEF Answered
    <3>4. Untouched' /\ NeedsItsSlots'
      BY <3>1 DEF Untouched, NeedsItsSlots
    <3>5. NothingReaped'
      <4>1. 1 <= slots' + 1
        <5>1. \A n \in Nat : 1 <= n + 1
          OBVIOUS
        <5>2. QED
          BY <3>2, <5>1
      <4>2. \A i \in CallNumbers : ~(i <= Answered') /\ child'[i] # "reaped"
        BY <3>1, <3>3
      <4>3. QED
        BY <3>1, <4>1, <4>2 DEF NothingReaped
    <3>6. QED
      BY <3>4, <3>5
  <2>2. CASE Run
    <3>1. slots < ForkLimit => call <= slots
      BY <2>2, ForkNeedsSlot DEF SlotsInv, Run
    <3>2. QED
      BY <1>0, <2>2, <3>1 DEF SlotsInv, Untouched, NothingReaped, NeedsItsSlots, Run, Answered
  <2>3. CASE PipeFails \/ ForkFails \/ Retry \/ ReadNothing \/ UNCHANGED callVars
    <3>1. /\ UNCHANGED <<call, child, slots>>
          /\ \/ loop' = loop
             \/ /\ loop \in {"run", "asleep", "read"} /\ loop' \in {"run", "asleep", "crashed"}
                /\ loop = "read" => loop' = "crashed"
                /\ loop # "read" => loop' # "crashed"
      BY <2>3 DEF PipeFails, ForkFails, Retry, ReadNothing, callVars
    <3>2. QED
      BY <1>0, <3>1 DEF SlotsInv, Untouched, NothingReaped, NeedsItsSlots, Answered
  <2>4. CASE Read
    <3>1. child[call] # "none" /\ child[call] # "reaped"
      BY <2>4 DEF Read
    <3>2. \A i \in CallNumbers : i <= call => i = call \/ i <= call - 1
      BY <1>0
    <3>3. QED
      BY <1>0, <2>4, <3>1, <3>2 DEF SlotsInv, Untouched, NothingReaped, NeedsItsSlots, Read, Answered
  <2>5. CASE Trim
    <3>1. Len(functorQueue) <= call /\ Len(functorQueue) >= ForkLimit
      BY <1>0, <2>5 DEF SlotsInv, CallInv, QueueInOrder, Trim, EnoughPiledUp, Answered
    <3>2. ~(slots < ForkLimit)
      BY <1>0, <2>5, <3>1 DEF SlotsInv, NothingReaped, Trim
    <3>3. QED
      BY <2>5, <3>2 DEF Untouched, NothingReaped, NeedsItsSlots, Trim
  <2>6. CASE NextCallOrDone
    BY <1>0, <2>6 DEF SlotsInv, Untouched, NothingReaped, NeedsItsSlots, NextCallOrDone, Answered
  <2>7. CASE \E i \in CallNumbers : ChildStep(i)
    <3>1. PICK i \in CallNumbers : ChildStep(i)
      BY <2>7
    <3>2. PICK st \in {"written", "dead", "zombie"} : child' = [child EXCEPT ![i] = st]
      BY <3>1 DEF ChildStep, ChildWrites, ChildDies, ChildExits
    <3>3. /\ child[i] \in {"running", "written"}
          /\ UNCHANGED <<loop, call, functorQueue, openFiles, assertions, slots>>
      BY <3>1 DEF ChildStep, ChildWrites, ChildDies, ChildExits
    <3>4. QED
      BY <1>0, <3>2, <3>3 DEF SlotsInv, Untouched, NothingReaped, NeedsItsSlots, Answered
  <2>8. QED
    BY <2>1, <2>2, <2>3, <2>4, <2>5, <2>6, <2>7 DEF CallNext, Explores
<1>3. QED
  BY <1>1, <1>2 DEF SlotsInv

\* With fewer process slots than forkLimit the verifier never ends, unless it has
\* no more calls to make than there are slots (GraphExplorerImpl.h:336-347).
THEOREM SlotsAreNeeded == CallSpec => []NeedsItsSlots
<1>1. SlotsInv => NeedsItsSlots
  BY DEF SlotsInv
<1>2. QED
  BY SlotsInitInv, SlotsNextInv, <1>1, PTL DEF CallSpec
=============================================================================
