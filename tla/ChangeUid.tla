------------------------------ MODULE ChangeUid ------------------------------
(***************************************************************************)
(* c/priv2/priv2_setuid.c: the user-ids-only interface, built with         *)
(* MULTITHREADED.  A thread reads the groups of the process into a ucred_t *)
(* and only then takes the mutex and calls the interface of ChangeIdentity *)
(* with it: what it passes may have been read before another thread's      *)
(* change.  The credentials are the process's, as glibc makes them.        *)
(***************************************************************************)
EXTENDS ChangeIdentity

CONSTANT Nobody     \* no thread: the mutex is free
ASSUME NobodyAssumption == Nobody \notin Threads

VARIABLES
  mutex,    \* setuid_mutex: who holds it
  at,       \* where each thread is in change_uid
  ucred     \* what fill_ucred left it

uvars == <<vars, mutex, at, ucred>>
-----------------------------------------------------------------------------
\* get_sups: an empty list is {0, NULL}.
SupsRead == IF sups = {} THEN DontChange ELSE sups

\* Mutant: the real gid.
FillRealGid(t, uid, permanent) ==
  /\ Alive
  /\ at[t] = "out"
  /\ at' = [at EXCEPT ![t] = "filled"]
  /\ ucred' = [ucred EXCEPT ![t] = [uid |-> uid, gid |-> gids.r, sups |-> SupsRead,
                                    permanent |-> permanent, sane |-> TRUE]]
  /\ UNCHANGED <<vars, mutex>>

\* change_uid up to the lock: fill_ucred.
Fill(t, uid, permanent) ==
  /\ Alive
  /\ at[t] = "out"
  /\ at' = [at EXCEPT ![t] = "filled"]
  /\ ucred' = [ucred EXCEPT ![t] = [uid |-> uid, gid |-> gids.e, sups |-> SupsRead,
                                    permanent |-> permanent, sane |-> TRUE]]
  /\ UNCHANGED <<vars, mutex>>

\* Mutant: no mutex, as in a build without MULTITHREADED.
LockNothing(t) ==
  /\ at[t] = "filled"
  /\ mutex' = t
  /\ at' = [at EXCEPT ![t] = "in"]
  /\ Call(t, ucred[t])
  /\ UNCHANGED ucred

Lock(t) ==
  /\ at[t] = "filled"
  /\ mutex = Nobody
  /\ mutex' = t
  /\ at' = [at EXCEPT ![t] = "in"]
  /\ Call(t, ucred[t])
  /\ UNCHANGED ucred

Inside(t) ==
  /\ at[t] = "in"
  /\ Step(t)
  /\ UNCHANGED <<mutex, at, ucred>>

\* Mutant: a refused change returns with the mutex held.
UnlockOnSuccess(t) ==
  /\ Alive
  /\ at[t] = "in" /\ pc[t] \in Returned
  /\ mutex' = IF pc[t] = "ok" THEN Nobody ELSE mutex
  /\ at' = [at EXCEPT ![t] = "out"]
  /\ Goto(t, "idle")
  /\ req'   = [req EXCEPT ![t] = Insane]
  /\ pair'  = [pair EXCEPT ![t] = NoPair]
  /\ start' = [start EXCEPT ![t] = NoCreds]
  /\ ucred' = [ucred EXCEPT ![t] = Insane]
  /\ UNCHANGED <<kernel, todo>>

\* The call is over, and with it its local variables.
Unlock(t) ==
  /\ Alive
  /\ at[t] = "in" /\ pc[t] \in Returned
  /\ mutex' = Nobody
  /\ at' = [at EXCEPT ![t] = "out"]
  /\ Goto(t, "idle")
  /\ req'   = [req EXCEPT ![t] = Insane]
  /\ pair'  = [pair EXCEPT ![t] = NoPair]
  /\ start' = [start EXCEPT ![t] = NoCreds]
  /\ ucred' = [ucred EXCEPT ![t] = Insane]
  /\ UNCHANGED <<kernel, todo>>

Progress(t) == Lock(t) \/ Inside(t) \/ Unlock(t)

UInit ==
  /\ Init
  /\ mutex = Nobody
  /\ at    = [t \in Threads |-> "out"]
  /\ ucred = [t \in Threads |-> Insane]

UNext == \E t \in Threads :
           \/ \E uid \in UIDs, permanent \in BOOLEAN : Fill(t, uid, permanent)
           \/ Progress(t)

(***************************************************************************)
(* A thread that holds the mutex is scheduled again; nothing says which of *)
(* the waiting ones gets it next.  Inside the mutex a thread can always    *)
(* move on, and every move shows in its place or its plan: this is         *)
(* WF_uvars(Inside(t) \/ Unlock(t)) written out.                           *)
(***************************************************************************)
Holding(t)   == Alive /\ at[t] = "in"
Scheduled(t) == []<>~Holding(t) \/ []<><<TRUE>>_<<at[t], pc[t], todo[t]>>

USpec == UInit /\ [][UNext]_uvars /\ \A t \in Threads : Scheduled(t)
-----------------------------------------------------------------------------
\* Type correctness: only the holder of the mutex is inside.
UTypeOK ==
  /\ TypeOK
  /\ mutex \in Threads \cup {Nobody}
  /\ at \in [Threads -> {"out", "filled", "in"}]
  /\ \A t \in Threads : at[t] = "in" <=> mutex = t

\* What fill_ucred read before the lock is still so when it is used, whatever
\* other threads changed in between: no change of the user moves the effective
\* gid or the supplementary groups (priv2_setuid.c:49-58, 62-68).
UcredStillHolds ==
  \A t \in Threads : at[t] # "out" => ucred[t].gid = gids.e /\ ListOf(ucred[t]) = sups

\* Every call that succeeds does what README.md:81-90 promises, seen from inside
\* the mutex, in the face of other threads' calls.
PromiseKept ==
  \A t \in Threads : at[t] = "in" /\ pc[t] = "ok" =>
    IF ucred[t].permanent
    THEN uids = AllSame(ucred[t].uid)
    ELSE uids.e = ucred[t].uid /\ start[t].uids.e \in {uids.r, uids.s}

\* Whatever change_identity returns, the mutex is given back.
LockReleased == \A t \in Threads : mutex = t ~> mutex # t

\* "Leave groups as-is." (priv2_setuid.c:54)
GroupsAsIs == [][gids' = gids]_uvars
=============================================================================
