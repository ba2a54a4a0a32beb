-------------------------------- MODULE Priv --------------------------------
(***************************************************************************)
(* The privilege dropping library, c/priv/priv.c: one process that drops   *)
(* its privileges for good, drops them for a while and restores them, on   *)
(* each of the systems the library has code for.  `build' says which code  *)
(* runs: the system, whether group handling is compiled in (SET_UIDS_ONLY  *)
(* is not defined), and whether /proc is mounted.                          *)
(*                                                                         *)
(* A function works through its stages in order; a stage that must set ids *)
(* makes one or two kernel calls.  Failures return -1 and leave what was   *)
(* done in place (the build defines LIVING_ON_THE_EDGE).  Where the users  *)
(* only graph is collected, the process also calls setuid and its like     *)
(* directly.  `edge' is what the explorer records of the last call.        *)
(***************************************************************************)
EXTENDS Verification, FiniteSets

CONSTANTS
  Users,            \* uids
  Groups,           \* gids
  Starts,           \* [build, uids, gids, sups] of a process to begin with
  UidParams,        \* the uids it asks for, Keep perhaps among them
  GroupParams,      \* [gid, sups, sorted] it asks for where groups are handled
  DirectUids        \* builds whose graph mixes in direct set-uid calls

\* The systems the library has code for.
Systems == {"linux", "aix", "darwin", "solaris"}

ASSUME PrivAssumption ==
  /\ Users \subseteq Nat /\ 0 \in Users
  /\ Groups \subseteq Nat /\ 0 \in Groups
  /\ UidParams \subseteq Users \cup {Keep}
  /\ GroupParams \subseteq [gid : Groups \cup {Keep}, sups : SUBSET Groups, sorted : BOOLEAN]
  /\ \A b \in Starts : /\ b.build \in [os : Systems, full : BOOLEAN, procfs : BOOLEAN]
                       /\ b.uids \in IdTriples(Users) /\ b.gids \in IdTriples(Groups)
                       /\ b.sups \subseteq Groups

ENOENT == "ENOENT"                      \* /proc is not there
EIO    == "EIO"                         \* a write to it failed
Stale  == "stale"                       \* whatever an earlier call left in errno

VARIABLES build, uids, gids, sups,
          stage,    \* stage the running function is in, "end" if none is running
          calls,    \* kernel calls left of the running stage
          uc,       \* what the function was asked for
          old,      \* the identity it was called with
          edge,     \* the call that is running or just finished, if any
          dropped,  \* the identity before the drop that may be undone now
          retired   \* the identity taken on for good by an ordinary user

identity == <<uids, gids, sups>>
vars     == <<build, uids, gids, sups, stage, calls, uc, old, edge, dropped, retired>>

Running == 1                            \* no return value yet
None    == [fn |-> "none", value |-> 0]

Identity == [uids |-> uids, gids |-> gids, sups |-> sups]
Idle     == edge = None
Returned == edge # None /\ edge.value # Running
On(os)   == build.os = os
Root     == uids.e = 0
-----------------------------------------------------------------------------
(***************************************************************************)
(* ucred_is_sane, set_sups, eql_sups.  A list is a set here, and a flag    *)
(* that tells whether it was sorted.                                       *)
(***************************************************************************)
\* Mutant: only the gid is compared with -1.
GidIsSane(u) == u.gid # Keep

IdsAreSane(u) == u.uid # Keep /\ u.gid # Keep

EqlSups(current, target, egid) == current = target \/ current \ {egid} = target

\* Mutant: a real id that equals the effective one is not looked at.
SavedUnlessSaved(t, newE) == IF t.e = t.s THEN t.s ELSE newE

\* drop_privileges_temporarily changes the saved id only if the effective one
\* is held nowhere else.
SavedFor(t, newE) == IF t.e \in {t.r, t.s} THEN t.s ELSE newE

TargetIds(fn, cur, id) ==
  IF fn = "dropprivperm" THEN AllSame(id)
                         ELSE [r |-> cur.r, e |-> id, s |-> SavedFor(cur, id)]

Asked(fn, u) == [ucred |-> u, uid |-> u.uid, gid |-> u.gid, sups |-> u.sups,
                 uids  |-> TargetIds(fn, uids, u.uid),
                 gids  |-> TargetIds(fn, gids, u.gid)]

\* The stages in the code's order: a drop sets the users last, a restoration first.
First(fn) ==
  IF fn = "restorepriv" THEN "seteuid" ELSE IF build.full THEN "sups" ELSE "uids"

Following(fn, s) ==
  CASE s = "sups"    -> IF fn = "restorepriv" THEN "setegid" ELSE "gids"
    [] s = "gids"    -> "uids"
    [] s = "seteuid" -> IF build.full THEN "sups" ELSE "verify"
    [] s \in {"uids", "setegid"} -> "verify"
    [] s = "verify"  -> IF fn = "dropprivperm" /\ On("linux") THEN "fsids" ELSE "end"
    [] s = "fsids"   -> "end"

(***************************************************************************)
(* set_uids and set_gids: the calls that shall make the triple t the       *)
(* process's ids `cur', or the errno of a refusal to try any.              *)
(***************************************************************************)
IdCall(of, fn, args) == [of |-> of, fn |-> fn, args |-> args]

\* Mutant: the saved id is left alone.
SetresKeepingSaved(of, t) == <<IdCall(of, "setresuid", <<t.r, t.e, Keep>>)>>

SetresCalls(of, t) == <<IdCall(of, "setresuid", <<t.r, t.e, t.s>>)>>

\* Mutant: the effective id is passed where the saved one must be.
ReuidOfEffective(of, t) ==
  <<IdCall(of, "setreuid", <<t.r, t.e>>), IdCall(of, "seteuid", <<t.e>>)>>

\* setreuid copies the saved id, then seteuid leaves it where it is.
ReuidCalls(of, t) == <<IdCall(of, "setreuid", <<t.r, t.s>>), IdCall(of, "seteuid", <<t.e>>)>>

ProcCall(of, t) == <<IdCall(of, "PCSCRED", <<t.r, t.e, t.s>>)>>

AixCan(cur, t) == \/ t = cur
                  \/ t.r = cur.r /\ t.s = cur.s
                  \/ t.e = t.r /\ (t.s = cur.s \/ t.r = t.s)

AixCalls(of, cur, t) ==
  CASE t = cur                     -> <<>>
    [] t # cur /\ t.r = cur.r /\ t.s = cur.s -> <<IdCall(of, "ID_EFFECTIVE", <<t.e>>)>>
    [] t.e = t.r /\ t.r # cur.r /\ t.s = cur.s -> <<IdCall(of, "ID_REAL", <<t.e>>)>>
    [] OTHER                       -> <<IdCall(of, "ID_SAVED", <<t.e>>)>>

Refused(of, cur, t) ==
  \/ On("aix") /\ ~AixCan(cur, t)
  \/ On("darwin") /\ Root
  \/ On("solaris") /\ Root /\ ~build.procfs

CallsFor(of, cur, t) ==
  CASE On("linux")   -> SetresCalls(of, t)
    [] On("aix")     -> AixCalls(of, cur, t)
    [] On("darwin")  -> ReuidCalls(of, t)
    [] On("solaris") -> IF Root THEN ProcCall(of, t) ELSE ReuidCalls(of, t)
-----------------------------------------------------------------------------
(***************************************************************************)
(* The kernels.  Darwin's setreuid leaves the saved id alone or moves it   *)
(* to the old or to the new effective id.  AIX lets an ordinary user only  *)
(* set the effective id, to the real or the saved one.                     *)
(***************************************************************************)
KernelAllows(c, t) ==
  CASE c.fn = "PCSCRED"       -> Root
    [] c.fn = "ID_EFFECTIVE"  -> Root \/ c.args[1] \in {t.r, t.s}
    [] c.fn \in {"ID_REAL", "ID_SAVED"} -> Root
    [] OTHER                  -> Allowed(c, t, Root)

KernelResults(c, t) ==
  CASE c.fn = "PCSCRED"      -> {[r |-> c.args[1], e |-> c.args[2], s |-> c.args[3]]}
    [] c.fn = "ID_EFFECTIVE" -> {[t EXCEPT !.e = c.args[1]]}
    [] c.fn = "ID_REAL"      -> {[t EXCEPT !.e = c.args[1], !.r = c.args[1]]}
    [] c.fn = "ID_SAVED"     -> {AllSame(c.args[1])}
    [] c.fn = "setreuid" /\ On("darwin") ->
         LET new == After(c, t, Root)
         IN  {[r |-> new.r, e |-> new.e, s |-> id] : id \in {t.s, t.e, new.e}}
    [] OTHER                 -> {After(c, t, Root)}

KernelErrno(c) ==
  IF c.fn \in {"setuid", "seteuid"} /\ c.args[1] = Keep THEN EINVAL ELSE EPERM
-----------------------------------------------------------------------------
Init ==
  /\ \E b \in Starts : /\ build = b.build /\ uids = b.uids
                       /\ gids = b.gids   /\ sups = b.sups
  /\ stage = "end" /\ calls = <<>> /\ uc = None /\ old = None
  /\ edge = None /\ dropped = None /\ retired = None

\* The explorer's record of a call: errno means nothing after a success.
Record(e, value, err) ==
  [e EXCEPT !.value = value, !.err = IF value = 0 THEN NoErr ELSE err]

\* The running function returns -1.
Fails(err) ==
  /\ edge' = Record(edge, -1, err)
  /\ stage' = "end" /\ calls' = <<>>
  /\ UNCHANGED <<build, uc, old, dropped, retired>>

\* The running stage is over and was the last one, or another follows.
Advance ==
  /\ stage' = Following(edge.fn, stage) /\ calls' = <<>>
  /\ edge' = IF stage' = "end" THEN Record(edge, 0, NoErr) ELSE edge
  /\ retired' = IF stage' = "end" /\ edge.fn = "dropprivperm" /\ uc.uid # 0
                THEN uc.ucred ELSE retired
  /\ UNCHANGED <<build, uc, old, dropped>>

(***************************************************************************)
(* A call of one of the three functions.  The users only wrapper passes    *)
(* the effective gid and the current groups, a program any list it likes.  *)
(***************************************************************************)
UcredsFor(uid) ==
  IF build.full
  THEN {[uid |-> uid, gid |-> g.gid, sups |-> g.sups, sorted |-> g.sorted] : g \in GroupParams}
  ELSE {[uid |-> uid, gid |-> gids.e, sups |-> sups, sorted |-> TRUE]}

Begin(fn, u) ==
  LET called == [fn |-> fn, params |-> <<u.uid>>, value |-> Running, err |-> NoErr]
      noProc == fn = "dropprivtemp" /\ On("solaris") /\ ~build.procfs
  IN
  /\ Idle
  /\ old' = Identity /\ uc' = Asked(fn, u)
  /\ dropped' = IF fn = "restorepriv" THEN dropped ELSE None
  /\ \/ /\ ~u.sorted
        /\ edge' = Record(called, -1, Stale) /\ UNCHANGED stage
     \/ /\ u.sorted /\ ~IdsAreSane(u)
        /\ edge' = Record(called, -1, EINVAL) /\ UNCHANGED stage
     \/ /\ u.sorted /\ IdsAreSane(u) /\ noProc
        /\ edge' = Record(called, -1, ENOENT) /\ UNCHANGED stage
     \/ /\ u.sorted /\ IdsAreSane(u) /\ ~noProc
        /\ edge' = called /\ stage' = First(fn)
  /\ UNCHANGED <<build, identity, calls, retired>>

\* The caller has what the call returned, and may make another.
Return ==
  /\ Returned
  /\ dropped' = IF edge.fn = "dropprivtemp" /\ edge.value = 0 THEN old ELSE None
  /\ edge' = None /\ old' = None /\ uc' = None
  /\ UNCHANGED <<build, identity, stage, calls, retired>>

(***************************************************************************)
(* The stages.                                                             *)
(***************************************************************************)
Stage(s) == stage = s /\ calls = <<>>

SetSups ==
  /\ Stage("sups")
  /\ \/ /\ Root
        /\ sups' = uc.sups /\ Advance
     \/ /\ ~Root /\ EqlSups(sups, uc.sups, gids.e)
        /\ Advance /\ UNCHANGED sups
     \/ /\ ~Root /\ ~EqlSups(sups, uc.sups, gids.e)
        /\ Fails(EPERM) /\ UNCHANGED sups
  /\ UNCHANGED <<uids, gids>>

SetIdsStage(of, cur, t) ==
  /\ Stage(of)
  /\ \/ /\ Refused(of, cur, t)
        /\ Fails(IF On("solaris") THEN ENOENT ELSE Stale)
     \/ /\ ~Refused(of, cur, t) /\ CallsFor(of, cur, t) = <<>>
        /\ Advance
     \/ /\ ~Refused(of, cur, t) /\ CallsFor(of, cur, t) # <<>>
        /\ calls' = CallsFor(of, cur, t)
        /\ UNCHANGED <<build, stage, uc, old, edge, dropped, retired>>
  /\ UNCHANGED identity

SetUids == SetIdsStage("uids", uids, uc.uids)
SetGids == SetIdsStage("gids", gids, uc.gids)

\* restore_privileges asks for one id at a time, if it is not there already.
SetOne(s, of, cur, id) ==
  /\ Stage(s)
  /\ IF id = cur.e THEN Advance
     ELSE /\ calls' = <<IdCall(of, "seteuid", <<id>>)>>
          /\ UNCHANGED <<build, stage, uc, old, edge, dropped, retired>>
  /\ UNCHANGED identity

RestoreEuid == SetOne("seteuid", "uids", uids, uc.uid)
RestoreEgid == SetOne("setegid", "gids", gids, uc.gid)

(***************************************************************************)
(* The next kernel call.  A write to /proc may fail; solaris_set_gids      *)
(* takes the result of a failed write for a good one.                      *)
(***************************************************************************)
NextCall ==
  IF Len(calls) = 1 THEN Advance
  ELSE calls' = Tail(calls) /\ UNCHANGED <<build, stage, uc, old, edge, dropped, retired>>

SetIn(of, t) == IF of = "uids" THEN uids' = t /\ UNCHANGED <<gids, sups>>
                               ELSE gids' = t /\ UNCHANGED <<uids, sups>>

KernelCall ==
  /\ calls # <<>>
  /\ LET c   == Head(calls)
         cur == IF c.of = "uids" THEN uids ELSE gids
     IN  \/ /\ KernelAllows(c, cur)
            /\ \E t \in KernelResults(c, cur) : SetIn(c.of, t)
            /\ NextCall
         \/ /\ ~KernelAllows(c, cur)
            /\ Fails(KernelErrno(c)) /\ UNCHANGED identity
         \/ /\ c.fn = "PCSCRED" /\ c.of = "uids"
            /\ Fails(EIO) /\ UNCHANGED identity
         \/ /\ c.fn = "PCSCRED" /\ c.of = "gids"
            /\ NextCall /\ UNCHANGED identity

(***************************************************************************)
(* The function looks at what it has become.                               *)
(***************************************************************************)
GroupsAsAsked ==
  /\ EqlSups(sups, uc.sups, gids.e)
  /\ IF edge.fn = "restorepriv" THEN gids.e = uc.gid ELSE gids = uc.gids

\* Mutant: the saved uid is not looked at.
UidsLookRight == uids.e = uc.uid /\ (edge.fn # "restorepriv" => uids.r = uc.uids.r)

UidsAsAsked == IF edge.fn = "restorepriv" THEN uids.e = uc.uid ELSE uids = uc.uids

Verify ==
  /\ Stage("verify")
  /\ IF On("solaris") /\ ~build.procfs THEN Fails(ENOENT)
     ELSE IF UidsAsAsked /\ (build.full => GroupsAsAsked) THEN Advance
     ELSE Fails(Stale)
  /\ UNCHANGED identity

\* Linux: the filesystem ids, read from /proc, follow the effective ones.
VerifyFsIds ==
  /\ Stage("fsids")
  /\ IF ~build.procfs THEN Fails(ENOENT)
     ELSE IF uids.e = uc.uid /\ (build.full => gids.e = uc.gid) THEN Advance
     ELSE Fails(Stale)
  /\ UNCHANGED identity

(***************************************************************************)
(* A direct call of the set-uid family, an edge of its own.                *)
(***************************************************************************)
DirectFns == {"setuid", "seteuid", "setreuid"}
               \cup (IF On("linux") THEN {"setresuid"} ELSE {})

DirectCall(fn, args) ==
  LET c == SetIdCall(fn, args)
      e == [fn |-> fn, params |-> args, value |-> Running, err |-> NoErr]
  IN
  /\ Idle /\ build \in DirectUids
  /\ old' = Identity
  /\ \/ /\ KernelAllows(c, uids)
        /\ uids' \in KernelResults(c, uids)
        /\ edge' = Record(e, 0, NoErr)
     \/ /\ ~KernelAllows(c, uids)
        /\ edge' = Record(e, -1, KernelErrno(c)) /\ UNCHANGED uids
  /\ dropped' = None
  /\ UNCHANGED <<build, gids, sups, stage, calls, uc, retired>>

Next ==
  \/ \E fn \in PrivFns, uid \in UidParams : \E u \in UcredsFor(uid) : Begin(fn, u)
  \/ \E fn \in DirectFns : \E args \in [1..Arity(fn) -> UidParams] : DirectCall(fn, args)
  \/ SetSups \/ SetUids \/ SetGids \/ RestoreEuid \/ RestoreEgid
  \/ KernelCall \/ Verify \/ VerifyFsIds \/ Return

Spec == Init /\ [][Next]_vars
-----------------------------------------------------------------------------
Ucreds == [uid : UidParams, gid : Groups \cup {Keep}, sups : SUBSET Groups, sorted : BOOLEAN]

Identities == [uids : IdTriples(Users), gids : IdTriples(Groups), sups : SUBSET Groups]

\* Type correctness: every variable holds a value the process can hold, and
\* kernel calls are pending only in a stage that makes them.
PTypeOK ==
  /\ Identity \in Identities
  /\ stage \in {"sups", "gids", "uids", "verify", "fsids", "seteuid", "setegid", "end"}
  /\ calls # <<>> => stage \in {"gids", "uids", "seteuid", "setegid"} /\ Len(calls) <= 2
  /\ uc # None => uc.ucred \in Ucreds
  /\ old # None => old \in Identities
  /\ dropped # None => dropped \in Identities
  /\ retired # None => retired \in Ucreds
  /\ edge # None => edge.err \in {NoErr, EPERM, EINVAL, ENOENT, EIO, Stale}
  /\ edge.value \in {0, -1, Running}
  /\ edge.value = Running <=> stage # "end"

(***************************************************************************)
(* An ordinary user's identity taken on for good stays: whatever the       *)
(* process calls afterwards, no uid changes, and where groups are handled  *)
(* no gid and no group of its list.  It rests on the last look at the ids  *)
(* (drop_privileges_permanently), since some systems move the saved id or  *)
(* ignore a failed write.                                                  *)
(***************************************************************************)
PermanentIsForever ==
  retired # None =>
    /\ uids = AllSame(retired.uid)
    /\ build.full => /\ gids = AllSame(retired.gid)
                      /\ EqlSups(sups, retired.sups, retired.gid)

(***************************************************************************)
(* Dropping for a while and restoring what there was gives back exactly    *)
(* that, on every system: all three uids and gids and the group list.  The *)
(* effective ids must be held elsewhere too, or nothing keeps them.        *)
(***************************************************************************)
Held(t) == t.e \in {t.r, t.s}

RoundTrip ==
  /\ Returned /\ edge.fn = "restorepriv" /\ dropped # None
  /\ Held(dropped.uids) /\ uc.uid = dropped.uids.e
  /\ build.full => /\ Held(dropped.gids) /\ uc.gid = dropped.gids.e
                    /\ uc.sups = dropped.sups /\ uc.ucred.sorted
  => edge.value = 0 /\ Identity = dropped

(***************************************************************************)
(* A failed temporary drop does not lose the effective uid, although on    *)
(* Solaris and Darwin it may fail between its two calls: some id of the    *)
(* process still holds the old one.                                        *)
(***************************************************************************)
FailedDropKeepsOld ==
  /\ Returned /\ edge.fn = "dropprivtemp" /\ edge.value = -1
  /\ Held(old.uids)
  => old.uids.e \in Own(uids)

(***************************************************************************)
(* The sanity passes over the Linux graphs report one thing: permanent     *)
(* drops to root, which DropPrivPermSanity takes for a failure to drop.    *)
(* In particular no final look fails after all ids were changed, which     *)
(* would return -1 with changed ids or an errno of an earlier call.        *)
(***************************************************************************)
LinuxGraph == On("linux") /\ ~build.full /\ build.procfs

SanityReports ==
  LinuxGraph /\ Returned =>
    /\ SaneSetuidEdge(edge, old.uids, uids)
    /\ SanePrivEdge(edge, old.uids, uids)
    /\ DropPrivPermSanity(edge, old.uids, uids)
         <=> ~(edge.fn = "dropprivperm" /\ edge.value = 0 /\ uc.uid = 0)

(***************************************************************************)
(* The clean passes report nothing, on Linux and on Darwin with its        *)
(* unusual saved ids (RunAPVerification: "should report no errors").       *)
(***************************************************************************)
CleanPassesReportNothing == Returned => CleanEdge(edge, old.uids, uids)

(***************************************************************************)
(* The debug passes on Linux: root always has appropriate privileges, the  *)
(* strict reading of setreuid holds, and an ordinary user seems to have    *)
(* privileges in one case only, seteuid to an effective uid that is        *)
(* neither real nor saved.                                                 *)
(***************************************************************************)
LinuxIrregularities ==
  On("linux") /\ Returned =>
    /\ RootHasAP(edge, old.uids, uids)
    /\ edge.fn = "setreuid" => /\ SetreuidTautology(edge, old.uids, uids)
                               /\ SetreuidForDropPrivPerm(edge, old.uids, uids)
    /\ NonRootHasNoAP(edge, old.uids, uids)
         <=> ~(/\ edge.fn = "seteuid" /\ old.uids.e # 0
               /\ ~Held(old.uids) /\ edge.params[1] = old.uids.e)
=============================================================================
