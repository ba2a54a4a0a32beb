--------------------------- MODULE ChangeUidProofs ---------------------------
(***************************************************************************)
(* What the user-ids-only interface promises to any number of threads,     *)
(* where no process has capabilities but root's.                           *)
(*                                                                         *)
(* A thread inside the mutex is one of ChangeIdentityProofs; those outside *)
(* it hold at most a ucred_t.  That stays true to the process because the  *)
(* thread inside asks for the effective gid and the groups the process     *)
(* has, read by the same fill_ucred.                                       *)
(***************************************************************************)
EXTENDS ChangeUid, ChangeIdentityProofs

\* A ucred_t of fill_ucred that names the effective gid and the groups given.
Names(u, egid, groups) ==
  /\ u \in Requests /\ u.sane
  /\ u.gid = egid /\ ListOf(u) = groups

UThread(t) ==
  /\ ThreadInv(t)
  /\ at[t] = "in" <=> mutex = t
  /\ at[t] # "in" => pc[t] = "idle" /\ todo[t] = <<>>
  /\ at[t] = "in" => req[t] = ucred[t]
  /\ at[t] # "out" => Names(ucred[t], gids.e, sups)

UTables ==
  /\ Tables
  /\ mutex \in Threads \cup {Nobody}
  /\ at \in [Threads -> {"out", "filled", "in"}] /\ DOMAIN ucred = Threads

UInv == KernelInv /\ UTables /\ \A t \in Threads : UThread(t)
-----------------------------------------------------------------------------
\* A step of a thread changes the entries of that thread only, and only a
\* system call of a plan changes the credentials.
LEMMA StepIsLocal ==
  ASSUME Tables, NEW t \in Threads, Step(t)
  PROVE  /\ \A u \in Threads \ {t} :
              /\ pc'[u] = pc[u] /\ req'[u] = req[u] /\ todo'[u] = todo[u]
              /\ pair'[u] = pair[u] /\ start'[u] = start[u]
         /\ pc[t] # "run" => UNCHANGED kernel
         /\ UNCHANGED <<req, start>>
<1>1. DOMAIN pc = Threads /\ DOMAIN todo = Threads /\ DOMAIN pair = Threads
  BY DEF Tables
<1>2. ASSUME UNCHANGED pc \/ \E w : pc' = [pc EXCEPT ![t] = w],
             UNCHANGED todo \/ \E w : todo' = [todo EXCEPT ![t] = w],
             UNCHANGED pair \/ \E p : pair' = [pair EXCEPT ![t] = p],
             UNCHANGED <<req, start>>
      PROVE  \A u \in Threads \ {t} :
              /\ pc'[u] = pc[u] /\ req'[u] = req[u] /\ todo'[u] = todo[u]
              /\ pair'[u] = pair[u] /\ start'[u] = start[u]
  BY <1>1, <1>2
<1>3. CASE Basic(t)
  <2>1. UNCHANGED <<kernel, req, todo, start>> /\ \E w : pc' = [pc EXCEPT ![t] = w]
    BY <1>3 DEF Basic, Goto
  <2>2. UNCHANGED pair \/ \E p : pair' = [pair EXCEPT ![t] = p]
    BY <1>3 DEF Basic
  <2> QED
    BY <1>2, <2>1, <2>2
<1>4. CASE Timing(t)
  BY <1>2, <1>4 DEF Timing, Goto
<1>5. CASE Fallback(t)
  <2>1. UNCHANGED <<kernel, req, todo, start>> /\ \E w : pc' = [pc EXCEPT ![t] = w]
    BY <1>5 DEF Fallback, Goto
  <2>2. UNCHANGED pair \/ \E p : pair' = [pair EXCEPT ![t] = p]
    BY <1>5 DEF Fallback
  <2> QED
    BY <1>2, <2>1, <2>2
<1>6. CASE Forced(t)
  BY <1>2, <1>6 DEF Forced, Goto
<1>7. CASE SetUids(t) \/ SetGids(t) \/ SetSupplementary(t)
  <2>1. pc[t] = "run" /\ UNCHANGED <<pc, req, pair, start>> /\ \E w : todo' = [todo EXCEPT ![t] = w]
    BY <1>7 DEF SetUids, SetGids, SetSupplementary, Next1, Done
  <2> QED
    BY <1>2, <2>1
<1>8. CASE ElevatedPlan(t)
  <2>1. pc[t] = "run" /\ UNCHANGED <<kernel, req, pair, start>>
    BY <1>8 DEF ElevatedPlan, Next1
  <2>2. /\ UNCHANGED pc \/ \E w : pc' = [pc EXCEPT ![t] = w]
        /\ UNCHANGED todo \/ \E w : todo' = [todo EXCEPT ![t] = w]
    BY <1>8 DEF ElevatedPlan, Goto
  <2> QED
    BY <1>2, <2>1, <2>2
<1>9. CASE Abort(t)
  BY <1>2, <1>9 DEF Abort, Goto
<1>10. CASE Return(t)
  BY <1>2, <1>10 DEF Return, Goto
<1> QED
  BY <1>3, <1>4, <1>5, <1>6, <1>7, <1>8, <1>9, <1>10 DEF Step

\* A thread that is not the one that moves.
LEMMA OthersStay ==
  ASSUME NEW u, UThread(u),
         pc'[u] = pc[u], req'[u] = req[u], todo'[u] = todo[u],
         pair'[u] = pair[u], start'[u] = start[u],
         at'[u] = at[u], ucred'[u] = ucred[u], mutex' = u <=> mutex = u,
         gids'.e = gids.e, sups' = sups,
         at[u] # "in" \/ UNCHANGED <<uids, gids, sups>>
  PROVE  UThread(u)'
<1>1. ThreadInv(u)'
  <2>1. CASE at[u] # "in"
    BY <2>1 DEF UThread, ThreadInv, ThreadIs
  <2>2. CASE UNCHANGED <<uids, gids, sups>>
    <3>1. Creds' = Creds
      BY <2>2 DEF Creds
    <3> QED
      BY <3>1 DEF UThread, ThreadInv
  <2> QED
    BY <2>1, <2>2
<1>2. at[u] # "out" => Names(ucred'[u], gids'.e, sups')
  BY DEF UThread, Names
<1> QED
  BY <1>1, <1>2 DEF UThread

\* The start.
LEMMA UInvInit ==
  ASSUME Unaided, UInit
  PROVE  UInv
<1>1. Inv
  BY InvInit DEF UInit
<1>2. ASSUME NEW t \in Threads PROVE UThread(t)
  <2>1. at[t] = "out" /\ mutex # t /\ pc[t] = "idle" /\ todo[t] = <<>>
    BY NobodyAssumption DEF UInit, Init, InitLocal
  <2> QED
    BY <1>1, <2>1 DEF Inv, UThread
<1> QED
  BY <1>1, <1>2 DEF Inv, UInv, UTables, UInit

\* fill_ucred names what the process has when it reads.
LEMMA FillKeeps ==
  ASSUME UInv, NEW t \in Threads, NEW uid \in UIDs, NEW permanent \in BOOLEAN, Fill(t, uid, permanent)
  PROVE  UInv'
<1> DEFINE new == [uid |-> uid, gid |-> gids.e, sups |-> SupsRead, permanent |-> permanent, sane |-> TRUE]
<1>1. /\ at[t] = "out" /\ at' = [at EXCEPT ![t] = "filled"]
      /\ ucred' = [ucred EXCEPT ![t] = new] /\ UNCHANGED mutex
      /\ UNCHANGED <<uids, gids, sups, permitted, effective, pc, req, todo, pair, start>>
  BY DEF Fill, vars, kernel, local
<1>2. KernelInv' /\ Tables' /\ Creds' = Creds
  BY <1>1 DEF UInv, UTables, KernelInv, CapsFollow, Creds, Tables
<1>3. Names(new, gids.e, sups)
  <2>1. gids.e \in GIDs /\ sups \in SupLists
    BY DEF UInv, KernelInv, Creds, CredSet, IdTriples
  <2>2. SupsRead \in SupLists \cup {DontChange}
    BY <2>1 DEF SupsRead
  <2>3. new \in Requests
    BY <2>1, <2>2 DEF Requests
  <2>4. ListOf(new) = sups
    BY <2>1, SupsAssumption DEF ListOf, SupsRead
  <2> QED
    BY <2>3, <2>4 DEF Names
<1> HIDE DEF new
<1>4. UTables'
  BY <1>1, <1>2 DEF UInv, UTables
<1>5. UThread(t)'
  <2>1. at'[t] = "filled" /\ ucred'[t] = new
    BY <1>1 DEF UInv, UTables
  <2>2. UThread(t)
    BY DEF UInv
  <2>3. Names(new, gids'.e, sups')
    BY <1>1, <1>3 DEF Names, ListOf
  <2>4. ThreadInv(t)'
    BY <1>1, <1>2, <2>2 DEF UThread, ThreadInv
  <2> QED
    BY <1>1, <2>1, <2>2, <2>3, <2>4 DEF UThread
<1>6. ASSUME NEW u \in Threads \ {t} PROVE UThread(u)'
  <2>1. at'[u] = at[u] /\ ucred'[u] = ucred[u]
    BY <1>1 DEF UInv, UTables
  <2>2. UThread(u)
    BY DEF UInv
  <2> QED
    BY <1>1, <2>1, <2>2, OthersStay
<1> QED
  BY <1>2, <1>4, <1>5, <1>6 DEF UInv

\* A thread that gets the mutex calls the interface with its ucred_t.
LEMMA LockKeeps ==
  ASSUME UInv, NEW t \in Threads, Lock(t)
  PROVE  UInv'
<1>1. /\ at[t] = "filled" /\ mutex = Nobody /\ mutex' = t
      /\ at' = [at EXCEPT ![t] = "in"] /\ UNCHANGED ucred /\ Call(t, ucred[t])
  BY DEF Lock
<1>2. UThread(t) /\ KernelInv /\ Tables
  BY DEF UInv, UTables
<1>3. Names(ucred[t], gids.e, sups)
  BY <1>1, <1>2 DEF UThread
<1>4. ThreadInv(t)' /\ Tables'
  BY <1>1, <1>2, <1>3, CallKeeps DEF UThread, Names
<1>5. UNCHANGED <<uids, gids, sups, permitted, effective>>
  BY <1>1 DEF Call, kernel
<1>6. KernelInv'
  BY <1>2, <1>5 DEF KernelInv, CapsFollow, Creds
<1>7. UTables'
  BY <1>1, <1>4 DEF UInv, UTables
<1>8. UThread(t)'
  <2>1. at'[t] = "in" /\ req'[t] = ucred[t] /\ ucred'[t] = ucred[t]
    BY <1>1, <1>2 DEF UInv, UTables, Call, Tables
  <2>2. Names(ucred'[t], gids'.e, sups')
    BY <1>3, <1>5, <2>1 DEF Names, ListOf
  <2> QED
    BY <1>1, <1>4, <2>1, <2>2 DEF UThread
<1>9. ASSUME NEW u \in Threads \ {t} PROVE UThread(u)'
  <2>1. /\ pc'[u] = pc[u] /\ req'[u] = req[u] /\ todo'[u] = todo[u]
        /\ pair'[u] = pair[u] /\ start'[u] = start[u]
    BY <1>1, <1>2 DEF Call, Goto, Tables
  <2>2. at'[u] = at[u] /\ ucred'[u] = ucred[u] /\ (mutex' = u <=> mutex = u)
    BY <1>1, NobodyAssumption DEF UInv, UTables
  <2>3. UThread(u)
    BY DEF UInv
  <2> QED
    BY <1>5, <2>1, <2>2, <2>3, OthersStay
<1> QED
  BY <1>6, <1>7, <1>8, <1>9 DEF UInv

\* A step inside moves neither the effective gid nor the groups.
LEMMA InsideKeeps ==
  ASSUME Wide, UInv, NEW t \in Threads, Inside(t)
  PROVE  UInv'
<1>1. at[t] = "in" /\ Step(t) /\ UNCHANGED <<mutex, at, ucred>>
  BY DEF Inside
<1>2. UThread(t) /\ KernelInv /\ Tables
  BY DEF UInv, UTables
<1>3. ThreadInv(t)' /\ Tables' /\ KernelInv' /\ Moves(t)
  BY <1>1, <1>2, StepKeeps DEF UThread
<1>4. req[t] = ucred[t] /\ Names(ucred[t], gids.e, sups) /\ mutex = t
  BY <1>1, <1>2 DEF UThread
<1>5. gids'.e = gids.e /\ sups' = sups
  <2>1. CASE pc[t] # "run"
    BY <1>1, <1>2, <2>1, StepIsLocal DEF kernel
  <2>2. CASE pc[t] = "run"
    <3>1. Chosen(start[t], req[t], pair[t].np.to)
      BY <1>2, <2>2 DEF UThread, ThreadInv, ThreadIs
    <3>2. pair[t].np.to.gids.e = req[t].gid
      BY <3>1 DEF Chosen, Promised, AllSame
    <3> QED
      BY <1>3, <1>4, <3>2 DEF Moves, Names
  <2> QED
    BY <2>1, <2>2
<1>6. UTables'
  BY <1>1, <1>3 DEF UInv, UTables
<1>7. UThread(t)'
  <2>1. req'[t] = req[t]
    BY <1>1, <1>2, StepIsLocal
  <2>2. Names(ucred'[t], gids'.e, sups')
    BY <1>1, <1>4, <1>5 DEF Names, ListOf
  <2> QED
    BY <1>1, <1>3, <1>4, <2>1, <2>2 DEF UThread
<1>8. ASSUME NEW u \in Threads \ {t} PROVE UThread(u)'
  <2>1. /\ pc'[u] = pc[u] /\ req'[u] = req[u] /\ todo'[u] = todo[u]
        /\ pair'[u] = pair[u] /\ start'[u] = start[u]
    BY <1>1, <1>2, StepIsLocal
  <2>2. UThread(u)
    BY DEF UInv
  <2>3. at[u] # "in"
    BY <1>4, <2>2 DEF UThread
  <2> QED
    BY <1>1, <1>5, <2>1, <2>2, <2>3, OthersStay
<1> QED
  BY <1>3, <1>6, <1>7, <1>8 DEF UInv

\* The mutex is given back.
LEMMA UnlockKeeps ==
  ASSUME UInv, NEW t \in Threads, Unlock(t)
  PROVE  UInv'
<1>1. /\ at[t] = "in" /\ pc[t] \in Returned /\ mutex' = Nobody
      /\ at' = [at EXCEPT ![t] = "out"] /\ pc' = [pc EXCEPT ![t] = "idle"]
      /\ req' = [req EXCEPT ![t] = Insane] /\ pair' = [pair EXCEPT ![t] = NoPair]
      /\ start' = [start EXCEPT ![t] = NoCreds] /\ ucred' = [ucred EXCEPT ![t] = Insane]
      /\ UNCHANGED <<uids, gids, sups, permitted, effective, todo>>
  BY DEF Unlock, Goto, kernel
<1>2. UThread(t) /\ KernelInv /\ Tables
  BY DEF UInv, UTables
<1>3. KernelInv' /\ Creds' = Creds
  BY <1>1, <1>2 DEF KernelInv, CapsFollow, Creds
<1>4. Tables'
  <2>1. Insane \in Requests /\ "idle" \in Places
    BY DEF Requests, Places
  <2> QED
    BY <1>1, <1>2, <2>1 DEF Tables
<1>5. UTables'
  BY <1>1, <1>4 DEF UInv, UTables
<1>6. todo[t] = <<>>
  BY <1>1, <1>2 DEF UThread, ThreadInv, ThreadIs, Returned
<1>7. UThread(t)'
  <2>1. at'[t] = "out" /\ pc'[t] = "idle" /\ todo'[t] = <<>> /\ mutex' # t
    BY <1>1, <1>2, <1>6, NobodyAssumption DEF UInv, UTables, Tables
  <2>2. ThreadInv(t)'
    BY <2>1 DEF ThreadInv, ThreadIs
  <2> QED
    BY <2>1, <2>2 DEF UThread
<1>8. ASSUME NEW u \in Threads \ {t} PROVE UThread(u)'
  <2>1. /\ pc'[u] = pc[u] /\ req'[u] = req[u] /\ todo'[u] = todo[u]
        /\ pair'[u] = pair[u] /\ start'[u] = start[u]
    BY <1>1, <1>2 DEF Tables
  <2>2. at'[u] = at[u] /\ ucred'[u] = ucred[u] /\ UThread(u)
    BY <1>1 DEF UInv, UTables
  <2>3. mutex' = u <=> mutex = u
    BY <1>1, <1>2, NobodyAssumption DEF UThread
  <2> QED
    BY <1>1, <2>1, <2>2, <2>3, OthersStay
<1> QED
  BY <1>3, <1>5, <1>7, <1>8 DEF UInv

\* Every step keeps the invariant.
LEMMA UInvNext ==
  ASSUME Wide, UInv, [UNext]_uvars
  PROVE  UInv'
<1>1. CASE UNCHANGED uvars
  <2>1. /\ UNCHANGED <<uids, gids, sups, permitted, effective, pc, req, todo, pair, start>>
        /\ UNCHANGED <<mutex, at, ucred>>
    BY <1>1 DEF uvars, vars, kernel, local
  <2>2. KernelInv' /\ UTables'
    BY <2>1 DEF UInv, UTables, KernelInv, CapsFollow, Creds, Tables
  <2>3. ASSUME NEW u \in Threads PROVE UThread(u)'
    BY <2>1, OthersStay DEF UInv
  <2> QED
    BY <2>2, <2>3 DEF UInv
<1>2. CASE UNext
  <2>1. PICK t \in Threads : \/ \E uid \in UIDs, permanent \in BOOLEAN : Fill(t, uid, permanent)
                             \/ Progress(t)
    BY <1>2 DEF UNext
  <2> QED
    BY <2>1, FillKeeps, LockKeeps, InsideKeeps, UnlockKeeps DEF Progress
<1> QED
  BY <1>1, <1>2

\* The invariant of the program.
THEOREM UInvariant ==
  ASSUME Wide, Unaided
  PROVE  USpec => []UInv
<1>1. UInit => UInv
  BY UInvInit
<1>2. UInv /\ [UNext]_uvars => UInv'
  BY UInvNext
<1> QED
  BY <1>1, <1>2, PTL DEF USpec
-----------------------------------------------------------------------------
(***************************************************************************)
(* Types, and mutual exclusion: the thread inside is the one that holds    *)
(* the mutex.                                                              *)
(***************************************************************************)
THEOREM UChangeTypes ==
  ASSUME Wide, Unaided
  PROVE  USpec => []UTypeOK
<1>1. UInv => UTypeOK
  <2> SUFFICES ASSUME UInv PROVE UTypeOK
    OBVIOUS
  <2>1. KernelInv /\ UTables
    BY DEF UInv
  <2>2. uids \in IdTriples(UIDs) /\ gids \in IdTriples(GIDs) /\ sups \in SupLists
    BY <2>1, ReadIsCreds DEF KernelInv
  <2>3. uids.e = 0 => 0 \in Own(uids)
    BY DEF Own
  <2>4. effective \subseteq permitted /\ permitted \subseteq AllCaps
    BY <2>1, <2>3 DEF KernelInv, CapsFollow
  <2>5. \A t \in Threads : todo[t] # <<>> => pc[t] \in {"run", "aborted"}
    BY DEF UInv, UThread, ThreadInv, ThreadIs
  <2>6. TypeOK
    BY <2>1, <2>2, <2>4, <2>5 DEF TypeOK, UTables, Tables, Places
  <2> QED
    BY <2>1, <2>6 DEF UTypeOK, UInv, UTables, UThread
<1> QED
  BY <1>1, UInvariant, PTL

(***************************************************************************)
(* What fill_ucred read before the lock still holds when it is used,       *)
(* however many threads changed the user in between.                       *)
(***************************************************************************)
THEOREM UcredsHold ==
  ASSUME Wide, Unaided
  PROVE  USpec => []UcredStillHolds
<1>1. UInv => UcredStillHolds
  BY DEF UInv, UThread, Names, UcredStillHolds
<1> QED
  BY <1>1, UInvariant, PTL

(***************************************************************************)
(* Every call that succeeds has done what README.md:81-90 promises.        *)
(***************************************************************************)
THEOREM PromisesAreKept ==
  ASSUME Wide, Unaided
  PROVE  USpec => []PromiseKept
<1>1. UInv => PromiseKept
  <2> SUFFICES ASSUME UInv, NEW t \in Threads, at[t] = "in", pc[t] = "ok"
               PROVE  IF ucred[t].permanent
                      THEN uids = AllSame(ucred[t].uid)
                      ELSE uids.e = ucred[t].uid /\ start[t].uids.e \in {uids.r, uids.s}
    BY DEF PromiseKept
  <2>1. UThread(t)
    BY DEF UInv
  <2>2. PICK to : Chosen(start[t], ucred[t], to) /\ Reaches(start[t], ucred[t], to, Creds)
    BY <2>1 DEF UThread, ThreadInv, ThreadIs
  <2>3. Creds.uids = uids
    BY DEF Creds
  <2> QED
    BY <2>2, <2>3 DEF Chosen, Promised, Reaches
<1> QED
  BY <1>1, UInvariant, PTL

(***************************************************************************)
(* No thread's assertion fails, whoever ran before it.                     *)
(***************************************************************************)
THEOREM NoThreadAborts ==
  ASSUME Wide, Unaided, Roomy
  PROVE  USpec => []AssertionsHold
<1>1. UInv => AssertionsHold
  BY DEF UInv, UThread, ThreadInv, ThreadIs, AssertionsHold
<1> QED
  BY <1>1, UInvariant, PTL
=============================================================================
