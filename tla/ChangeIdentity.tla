--------------------------- MODULE ChangeIdentity ---------------------------
(***************************************************************************)
(* change_identity_permanently and change_identity_temporarily of          *)
(* c/priv2/priv2.c on Linux: read the credentials of the process, choose   *)
(* the credentials to go to, walk the state graph there, and fall back on  *)
(* capabilities when the graph offers no way.                              *)
(*                                                                         *)
(* The decisions between two system calls depend on nothing but what the   *)
(* last get_pcred() read, so fill_pair is one action, and the planning     *)
(* that leaves in todo[t] the calls settled on another; then every system  *)
(* call is a step of its own.  The credentials belong to the process, all  *)
(* else to a thread.                                                       *)
(* Side effects sit inside assert(), and NDEBUG is never defined: a failed *)
(* assertion kills the process.                                            *)
(***************************************************************************)
EXTENDS StateGraph, FiniteSets

CONSTANTS
  Threads,      \* threads that call the interface
  UIDs, GIDs,   \* the ids that occur, both with 0 for uid and gid 0 if wanted
  SupLists,     \* supplementary lists that occur: sets of gids
  DontChange,   \* the list {0, NULL}: leave the supplementary groups alone
  FileCaps,     \* capabilities a process without a 0 uid may have been given:
                \* a set of [permitted, effective] records
  Gid0s         \* gids triples a process may start with

ASSUME UidsAssumption == 0 \in UIDs /\ UIDs \subseteq Nat
ASSUME GidsAssumption == GIDs \subseteq Nat /\ Gid0s \subseteq IdTriples(GIDs)
ASSUME SupsAssumption ==          \* DontChange stands for the empty list too
  SupLists \subseteq SUBSET GIDs /\ {} \in SupLists /\ DontChange \notin SupLists
ASSUME CapsAssumption ==
  \A c \in FileCaps : c.effective \subseteq c.permitted /\ c.permitted \subseteq {"setuid", "setgid"}

VARIABLES
  uids, gids, sups,     \* credentials of the process
  permitted, effective, \* its capability sets
  pc,                   \* where each thread is; the return value once it has one
  req,                  \* the ucred_t and the kind of change it asked for
  todo,                 \* the system calls it has still to make
  pair,                 \* what fill_pair gave it last: status and pair
  start                 \* history: the credentials when it called

kernel == <<uids, gids, sups, permitted, effective>>
local  == <<pc, req, todo, pair, start>>
vars   == <<kernel, local>>

AllCaps  == {"setuid", "setgid"}
Returned == {"ok", "EINVAL", "EPERM"}
Alive    == \A t \in Threads : pc[t] # "aborted"

\* sane: the verdict of ids_are_sane and sups_are_sane on the ucred_t; what
\* else an insane one says is never looked at.
Insane == [uid |-> 0, gid |-> 0, sups |-> DontChange, permanent |-> TRUE, sane |-> FALSE]

Requests == {Insane} \cup
            [uid : UIDs, gid : GIDs, sups : SupLists \cup {DontChange},
             permanent : BOOLEAN, sane : {TRUE}]

V == INSTANCE Verification              \* what the explorer's visitors expect

Creds == [uids |-> uids, gids |-> gids, sups |-> sups]

NoPair  == [status |-> "invalid"]
NoCreds == [uids |-> AllSame(0), gids |-> AllSame(0), sups |-> {}]
-----------------------------------------------------------------------------
(***************************************************************************)
(* fill_pair: the candidates for the next ids and the first of those the   *)
(* graph says will fail least.                                             *)
(***************************************************************************)
\* get_pcred, with the effective uid spoofed for a process that will use
\* capabilities.
ReadCreds(forcePrivileged) ==
  [Creds EXCEPT !.uids.e = IF forcePrivileged THEN 0 ELSE @]

\* Mutant: always leaves the effective gid out of the current list.
EgidLeftOut(current, target) == current \ {gids.e} = target

\* The lists differ by no more than the effective gid.
EqlSups(current, target) == current = target \/ current \ {gids.e} = target

SupsChangeNeeded(prev, rq)   == rq.sups # DontChange /\ ~EqlSups(prev.sups, rq.sups)
GroupsChangeNeeded(prev, to) == prev.gids # to.gids

\* Mutants: keep the old saved id and lose the effective one; save the new id.
OldSavedKept(prev, id) == [k \in 1..5 |-> [r |-> prev.r, e |-> id, s |-> prev.s]]
NewSaved(prev, id)     == [k \in 1..5 |-> [r |-> prev.r, e |-> id, s |-> id]]

TemporaryIds(prev, id) ==
  << [r |-> prev.r, e |-> id, s |-> prev.e],
     [r |-> prev.e, e |-> id, s |-> prev.e],
     [r |-> prev.s, e |-> id, s |-> prev.e],
     [r |-> prev.e, e |-> id, s |-> prev.r],
     [r |-> prev.e, e |-> id, s |-> prev.s] >>

TemporaryPairs(prev, rq) ==
  [k \in 1..25 |-> [uids |-> TemporaryIds(prev.uids, rq.uid)[((k - 1) \div 5) + 1],
                    gids |-> TemporaryIds(prev.gids, rq.gid)[((k - 1) % 5) + 1]]]

\* Mutants: the permanent pair forgets the saved uid, or the real one.
SavedForgotten(prev, rq) ==
  IF rq.permanent
  THEN << [uids |-> [AllSame(rq.uid) EXCEPT !.s = prev.uids.s], gids |-> AllSame(rq.gid)] >>
  ELSE TemporaryPairs(prev, rq)

RealForgotten(prev, rq) ==
  IF rq.permanent
  THEN << [uids |-> [AllSame(rq.uid) EXCEPT !.r = prev.uids.r], gids |-> AllSame(rq.gid)] >>
  ELSE TemporaryPairs(prev, rq)

Candidates(prev, rq) ==
  IF rq.permanent
  THEN << [uids |-> AllSame(rq.uid), gids |-> AllSame(rq.gid)] >>
  ELSE TemporaryPairs(prev, rq)

\* Normalisation of every pair of ids that occurs, as tables.
NormalUids ==
  [prev \in IdTriples(UIDs) |-> [next \in IdTriples(UIDs) |-> NormalizeUids(prev, next)]]

NormalGids ==
  [prev \in IdTriples(GIDs) |-> [next \in IdTriples(GIDs) |->
     [forced \in BOOLEAN |-> NormalizeGids(prev, next, forced)]]]

Normalized(prev, to) ==
  LET u == NormalUids[prev.uids][to.uids]
  IN  [prev |-> prev, to |-> to, uids |-> u,
       gids |-> NormalGids[prev.gids][to.gids][u.fits /\ Attainable(u.prev, u.prev)]]

Fits(np) == np.uids.fits /\ np.gids.fits

PrivilegeAttainable(np) == Attainable(np.uids.prev, np.uids.next)

\* Normalising ids that do not fit the map fails an assertion.
Judgement(np, rq) ==
  LET priv   == np.prev.uids.e = 0 \/ PrivilegeAttainable(np)
      uidsOk == CanSet(np.uids.prev, np.uids.next)
      gidsOk == /\ SupsChangeNeeded(np.prev, rq) => priv
                /\ GroupsChangeNeeded(np.prev, np.to) =>
                     priv \/ CanSet(np.gids.prev, np.gids.next)
  IN  IF ~Fits(np) THEN "aborted"
      ELSE IF uidsOk THEN (IF gidsOk THEN "success" ELSE "setgid_failed")
      ELSE (IF gidsOk THEN "setuid_failed" ELSE "setuid_setgid_failed")

\* How much would fail.  A failed assertion ends the search as a success does.
Severity == [aborted |-> 0, success |-> 0,
             setgid_failed |-> 1, setuid_failed |-> 2, setuid_setgid_failed |-> 3]

(***************************************************************************)
(* The search stops at the first success (or failed assertion); a failure  *)
(* replaces another only if it is the milder kind.                         *)
(***************************************************************************)
FillPair(prev, rq) ==
  LET pairs == Candidates(prev, rq)
      np    == [k \in DOMAIN pairs |-> Normalized(prev, pairs[k])]
      tried == {[at |-> k, status |-> Judgement(np[k], rq)] : k \in DOMAIN pairs}
      best  == CHOOSE c \in tried : \A d \in tried :
                 \/ Severity[c.status] < Severity[d.status]
                 \/ Severity[c.status] = Severity[d.status] /\ c.at <= d.at
  IN  [status |-> best.status, np |-> np[best.at]]
-----------------------------------------------------------------------------
(***************************************************************************)
(* The calls that set_uids_from_graph and set_gids_from_graph make: the    *)
(* set of the lists the predecessor table may prescribe, a list with a     *)
(* failing assertion if it prescribes none.                                *)
(***************************************************************************)
AssertFails == [op |-> "assert"]
SetSups     == [op |-> "sups"]
Replan      == [op |-> "replan"]

Prescribed(op, norm) ==
  IF ~CanSet(norm.prev, norm.next) THEN {<<AssertFails>>}
  ELSE {[i \in DOMAIN w |-> [op     |-> op,
                             call   |-> MapParams(norm.map, w[i]),
                             mapped |-> Mapped(norm.map, w[i], op = "uids")]]
        : w \in Walks(norm.prev, norm.next)}

UidCalls(np) == Prescribed("uids", np.uids)
GidCalls(np) == Prescribed("gids", np.gids)

If(condition, steps) == IF condition THEN steps ELSE <<>>

\* get_pair_current: the ids of np come from credentials read just now.
NormalizedNow(to) == Normalized(ReadCreds(FALSE), to)

(***************************************************************************)
(* change_identity_elevate_for_sups goes to a privileged state and reads   *)
(* the credentials again before it does anything else.                     *)
(***************************************************************************)
Elevations(np) ==
  LET stop == SuidFor(np.uids.prev, np.uids.next)
      map  == np.uids.map
      name == [id \in DOMAIN map \cup {0} |-> IF id = 0 THEN 0 ELSE map[id]]
      up   == NormalizedNow([uids |-> Renamed(stop, name), gids |-> gids])
  IN  IF Fits(up) THEN {u \o <<Replan>> : u \in UidCalls(up)} ELSE {<<AssertFails>>}

\* Mutant: the groups are always changed last.
GroupsLastPlans(np, rq) ==
  {u \o If(SupsChangeNeeded(np.prev, rq), <<SetSups>>)
     \o If(GroupsChangeNeeded(np.prev, np.to), g)
   : g \in GidCalls(np), u \in UidCalls(np)}

(***************************************************************************)
(* change_identity_basic once a reachable target has been found: when are  *)
(* the groups changed?                                                     *)
(***************************************************************************)
BasicPlans(np, rq) ==
  LET mustSups   == If(SupsChangeNeeded(np.prev, rq), <<SetSups>>)
      mustGroups(g) == If(GroupsChangeNeeded(np.prev, np.to), g)
  IN  IF np.prev.uids.e = 0 \/ ~PrivilegeAttainable(np)         \* groups_first
      THEN {mustGroups(g) \o mustSups \o u : g \in GidCalls(np), u \in UidCalls(np)}
      ELSE IF np.to.uids.e = 0                                  \* groups_last
      THEN {u \o mustSups \o mustGroups(g) : g \in GidCalls(np), u \in UidCalls(np)}
      ELSE Elevations(np)                                       \* groups_elevate

\* The unconditional sequence of the elevated and of the capability path.
FullPlans(np) ==
  {<<SetSups>> \o g \o u : g \in GidCalls(np), u \in UidCalls(np)}
-----------------------------------------------------------------------------
Goto(t, where) == pc' = [pc EXCEPT ![t] = where]

\* A client calls change_identity_permanently or change_identity_temporarily.
Call(t, rq) ==
  /\ Alive
  /\ pc[t] \in {"idle"} \cup Returned
  /\ Goto(t, "basic")
  /\ req'    = [req EXCEPT ![t] = rq]
  /\ todo'   = [todo EXCEPT ![t] = <<>>]
  /\ pair'   = [pair EXCEPT ![t] = NoPair]
  /\ start'  = [start EXCEPT ![t] = Creds]
  /\ UNCHANGED kernel

\* change_identity_basic: the sanity checks and fill_pair.
Basic(t) ==
  /\ Alive
  /\ pc[t] = "basic"
  /\ LET p == FillPair(ReadCreds(FALSE), req[t])
     IN  IF req[t].sane THEN pair' = [pair EXCEPT ![t] = p] ELSE UNCHANGED pair
  /\ Goto(t, IF ~req[t].sane THEN "EINVAL"
             ELSE CASE pair'[t].status = "aborted" -> "aborted"
                    [] pair'[t].status = "success" -> "timing"
                    [] OTHER -> "fallback")
  /\ UNCHANGED <<kernel, req, todo, start>>

\* The rest of it, up to the first system call.
Timing(t) ==
  /\ Alive
  /\ pc[t] = "timing"
  /\ \E plan \in BasicPlans(pair[t].np, req[t]) : todo' = [todo EXCEPT ![t] = plan]
  /\ Goto(t, "run")
  /\ UNCHANGED <<kernel, req, pair, start>>

(***************************************************************************)
(* The rest of change_identity_linux.  set_cap_* and clear_cap_* only edit *)
(* a copy of the capability sets that cap_set_proc is never called on.     *)
(***************************************************************************)
CapsNeeded(s) == (IF s \in {"setuid_failed", "setuid_setgid_failed"} THEN {"setuid"} ELSE {})
            \cup (IF s \in {"setgid_failed", "setuid_setgid_failed"} THEN {"setgid"} ELSE {})

Fallback(t) ==
  /\ Alive
  /\ pc[t] = "fallback"
  /\ IF CapsNeeded(pair[t].status) \subseteq permitted
     THEN /\ pair' = [pair EXCEPT ![t] = FillPair(ReadCreds(TRUE), req[t])]
          /\ Goto(t, IF pair'[t].status = "success" THEN "forced" ELSE "aborted")
     ELSE Goto(t, "EPERM") /\ UNCHANGED pair
  /\ UNCHANGED <<kernel, req, todo, start>>

Forced(t) ==
  /\ Alive
  /\ pc[t] = "forced"
  /\ \E plan \in FullPlans(pair[t].np) : todo' = [todo EXCEPT ![t] = plan]
  /\ Goto(t, "run")
  /\ UNCHANGED <<kernel, req, pair, start>>
-----------------------------------------------------------------------------
(***************************************************************************)
(* The system calls.                                                       *)
(***************************************************************************)
Next1(t, op) ==
  /\ Alive
  /\ pc[t] = "run"
  /\ todo[t] # <<>>
  /\ Head(todo[t]).op = op

Done(t) ==
  /\ todo' = [todo EXCEPT ![t] = Tail(@)]
  /\ UNCHANGED <<pc, req, pair, start>>

SetUids(t) ==
  LET c == Head(todo[t]).call
      priv == "setuid" \in effective
  IN  /\ Next1(t, "uids")
      /\ Head(todo[t]).mapped /\ Allowed(c, uids, priv)
      /\ uids' = After(c, uids, priv)
      /\ permitted' = PermittedAfter(uids, uids', permitted)
      /\ effective' = EffectiveAfter(uids, uids', permitted, effective)
      /\ Done(t)
      /\ UNCHANGED <<gids, sups>>

SetGids(t) ==
  LET c == Head(todo[t]).call
      priv == "setgid" \in effective
  IN  /\ Next1(t, "gids")
      /\ Head(todo[t]).mapped /\ Allowed(c, gids, priv)
      /\ gids' = After(c, gids, priv)
      /\ Done(t)
      /\ UNCHANGED <<uids, sups, permitted, effective>>

\* set_sups of priv.c: root always calls setgroups, others only on a difference.
ListOf(rq)        == IF rq.sups = DontChange THEN {} ELSE rq.sups
CallsSetgroups(t) == uids.e = 0 \/ ~EqlSups(sups, ListOf(req[t]))

SetSupplementary(t) ==
  /\ Next1(t, "sups")
  /\ CallsSetgroups(t) => "setgid" \in effective
  /\ sups' = IF CallsSetgroups(t) THEN ListOf(req[t]) ELSE sups
  /\ Done(t)
  /\ UNCHANGED <<uids, gids, permitted, effective>>

\* The second half of change_identity_elevate_for_sups: the target is that of
\* the pair chosen before the elevation.
ElevatedPlan(t) ==
  LET np == NormalizedNow(pair[t].np.to)
  IN  /\ Next1(t, "replan")
      /\ IF Fits(np)
         THEN /\ \E plan \in FullPlans(np) : todo' = [todo EXCEPT ![t] = plan]
              /\ UNCHANGED pc
         ELSE Goto(t, "aborted") /\ UNCHANGED todo
      /\ UNCHANGED <<kernel, req, pair, start>>

\* Mutant: a setgid refused after other calls were made is an error, not a
\* failed assertion.
ErrorForAssertion(t) ==
  /\ Alive
  /\ pc[t] = "run"
  /\ todo[t] # <<>>
  /\ Head(todo[t]).op = "gids"
  /\ ~Allowed(Head(todo[t]).call, gids, "setgid" \in effective)
  /\ Goto(t, "EPERM")
  /\ UNCHANGED <<kernel, req, todo, pair, start>>

\* assert() around a call the kernel refuses, or that cannot be made.
Abort(t) ==
  /\ Alive
  /\ pc[t] = "run"
  /\ todo[t] # <<>>
  /\ LET step == Head(todo[t])
     IN  CASE step.op = "assert" -> TRUE
           [] step.op = "uids" ->
                ~(step.mapped /\ Allowed(step.call, uids, "setuid" \in effective))
           [] step.op = "gids" ->
                ~(step.mapped /\ Allowed(step.call, gids, "setgid" \in effective))
           [] step.op = "sups"   -> CallsSetgroups(t) /\ "setgid" \notin effective
           [] step.op = "replan" -> FALSE
  /\ Goto(t, "aborted")
  /\ UNCHANGED <<kernel, req, todo, pair, start>>

\* Mutant: returns before the last call was made.
EarlyReturn(t) ==
  /\ Alive
  /\ pc[t] = "run"
  /\ Goto(t, "ok")
  /\ UNCHANGED <<kernel, req, todo, pair, start>>

Return(t) ==
  /\ Alive
  /\ pc[t] = "run"
  /\ todo[t] = <<>>
  /\ Goto(t, "ok")
  /\ UNCHANGED <<kernel, req, todo, pair, start>>

Step(t) ==
  \/ Basic(t)
  \/ Timing(t)
  \/ Fallback(t)
  \/ Forced(t)
  \/ SetUids(t)
  \/ SetGids(t)
  \/ SetSupplementary(t)
  \/ ElevatedPlan(t)
  \/ Abort(t)
  \/ Return(t)
-----------------------------------------------------------------------------
\* The capabilities that go with uids u: root's follow its uids.
CapsOf(u) ==
  IF u.e = 0 THEN {[permitted |-> AllCaps, effective |-> AllCaps]}
  ELSE IF 0 \in Own(u) THEN {[permitted |-> AllCaps, effective |-> {}]}
  ELSE FileCaps

InitKernel ==
  /\ uids \in IdTriples(UIDs)
  /\ gids \in Gid0s
  /\ sups \in SupLists
  /\ \E c \in CapsOf(uids) : permitted = c.permitted /\ effective = c.effective

InitLocal ==
  /\ pc     = [t \in Threads |-> "idle"]
  /\ req    = [t \in Threads |-> Insane]
  /\ todo   = [t \in Threads |-> <<>>]
  /\ pair   = [t \in Threads |-> NoPair]
  /\ start  = [t \in Threads |-> NoCreds]

Init == InitKernel /\ InitLocal

Next == \E t \in Threads : (\E rq \in Requests : Call(t, rq)) \/ Step(t)

Spec == Init /\ [][Next]_vars
-----------------------------------------------------------------------------
(***************************************************************************)
(* Properties.  They speak of a single calling thread, t; ChangeUid has    *)
(* several.                                                                *)
(***************************************************************************)
\* Type correctness: credentials stay ids of the model, the capability sets
\* nested, and every thread at a known place of change_identity_linux.
TypeOK ==
  /\ uids \in IdTriples(UIDs) /\ gids \in IdTriples(GIDs) /\ sups \in SupLists
  /\ effective \subseteq permitted /\ permitted \subseteq AllCaps
  /\ pc \in [Threads -> Returned \cup {"idle", "basic", "timing", "fallback", "forced", "run", "aborted"}]
  /\ \A t \in Threads : todo[t] # <<>> => pc[t] \in {"run", "aborted"}

\* No assertion of priv2.c or priv2_graph.c fails: a walk chosen from the graph
\* before the first system call is one the kernel accepts call by call, and
\* the privilege planned on is still there when setgroups and setgid need it
\* (the assert()s around set_sups, set_gids_from_graph, set_uids_from_graph).
AssertionsHold == \A t \in Threads : pc[t] # "aborted"

\* map_uids_params and map_gids_params find every parameter of a prescribed
\* call in the map of the pair, and never index it with gid 0
\* (priv2_graph.c:852, 876).
ParamsMapped ==
  \A t \in Threads : \A i \in DOMAIN todo[t] :
    todo[t][i].op \in {"uids", "gids"} => todo[t][i].mapped

\* A successful permanent change leaves nothing of the old identity: all three
\* uids and gids are the requested ones, and a requested list of supplementary
\* groups is in place but for the effective gid the comparison ignores
\* (get_pair_permanent, change_identity_basic).
PermanentLeavesNothing ==
  \A t \in Threads : pc[t] = "ok" /\ req[t].permanent =>
    /\ uids = AllSame(req[t].uid)
    /\ gids = AllSame(req[t].gid)
    /\ req[t].sups # DontChange =>
         \/ sups = req[t].sups
         \/ sups \ {start[t].gids.e} = req[t].sups

\* A successful temporary change makes the requested ids effective and keeps
\* the old effective ones as real or saved ids (README.md, "Changing User
\* Identity"; get_pairs_temporary).
TemporaryKeepsOld ==
  \A t \in Threads : pc[t] = "ok" /\ ~req[t].permanent =>
    /\ uids.e = req[t].uid /\ start[t].uids.e \in {uids.r, uids.s}
    /\ gids.e = req[t].gid /\ start[t].gids.e \in {gids.r, gids.s}

\* The user-id half alone, the half the README vouches for: whatever
\* capabilities the process holds, the old effective uid is still its real or
\* saved uid (README.md:81-84).
PrevEuidKept ==
  \A t \in Threads : pc[t] = "ok" /\ ~req[t].permanent =>
    start[t].uids.e \in {uids.r, uids.s}

\* A successful permanent change, by the graph or by capabilities, leaves the
\* requested uid as real, effective and saved one (priv2.h:47, "Permanently change
\* identity of a process"; the assertion of Priv2Sanity,
\* GraphVerificationImpl.h:452-456).
PermanentSetsUids ==
  \A t \in Threads : pc[t] = "ok" /\ req[t].permanent => uids = AllSame(req[t].uid)

\* After a temporary change the way back is open: asked now for the identity it had, the
\* program would find a reachable pair (priv2.h: "maintain the ability to
\* regain the current effective identity").
WayBack(t) == [uid |-> start[t].uids.e, gid |-> start[t].gids.e,
               sups |-> DontChange, permanent |-> FALSE, sane |-> TRUE]

TemporaryCanBeUndone ==
  \A t \in Threads : pc[t] = "ok" /\ ~req[t].permanent =>
    FillPair(ReadCreds(FALSE), WayBack(t)).status = "success"

\* A call that returns -1 has changed no credential: every refusal comes before
\* the first system call, so there is nothing to roll back (priv2.c:191-195,
\* 239-242; Priv2Sanity in GraphVerificationImpl.h).
FailureChangesNothing ==
  \A t \in Threads : pc[t] \in {"EINVAL", "EPERM"} => Creds = start[t]

\* EPERM is honest: it is returned only to a process that holds no uid 0 and
\* asks for an id it does not hold or a change of supplementary groups (root
\* and switches among existing ids succeed, GraphVerificationImpl.h:423-444).
RefusalIsHonest ==
  \A t \in Threads : pc[t] = "EPERM" =>
    /\ 0 \notin Own(start[t].uids)
    /\ \/ req[t].uid \notin Own(start[t].uids)
       \/ req[t].gid \notin Own(start[t].gids)
       \/ req[t].sups # DontChange /\ start[t].sups # req[t].sups

\* After a permanent change to an unprivileged user the uids never change again,
\* whatever is called later (README.md: "impossible to switch to a different
\* effective user ID for the remainder of the process lifetime").
DroppedTo(u) ==
  \E t \in Threads : pc[t] = "ok" /\ req[t].permanent /\ req[t].uid = u

PermanentIsForever ==
  \A u \in UIDs \ {0} : [](DroppedTo(u) => [](uids = AllSame(u)))

\* A caller that asks to leave the supplementary groups alone keeps them
\* (sups_is_dont_change, priv2.c:147 and 708).
DontChangeRespected ==
  \A t \in Threads : pc[t] = "ok" /\ req[t].sups = DontChange => sups = start[t].sups

\* The verification of the interface (RunPriv2Verification) reports one thing:
\* a process that may not set the requested groups is refused even a uid it
\* holds, where the visitor expects success (GraphVerificationImpl.h:433).
Finished(t) ==
  [permanent |-> req[t].permanent, uid |-> req[t].uid, gid |-> req[t].gid, sups |-> req[t].sups,
   v |-> start[t].uids, visitorEgid |-> start[t].gids.e,
   value |-> IF pc[t] = "ok" THEN 0 ELSE -1, err |-> pc[t],
   uids |-> uids, gids |-> gids, newSups |-> sups]

Priv2SanityReports ==
  \A t \in Threads : pc[t] \in Returned /\ req[t].sane /\ req[t].sups # DontChange =>
    /\ V!Priv2Sanity(Finished(t))
    /\ V!ExistingUidSucceeds(Finished(t))
         \/ req[t].gid \notin Own(start[t].gids) \/ req[t].sups # start[t].sups

\* The map of a pair has room for the gids that occur (the assertion of
\* priv2_graph.c:660): no pair is refused for having three.
GidMapFits ==
  \A t \in Threads :
    pc[t] = "aborted" => pair[t].status # "aborted"
=============================================================================
