---------------------------- MODULE Verification ----------------------------
(***************************************************************************)
(* What the repository's verification visitors say of one edge of an       *)
(* explored graph: the call e (its function, its parameters, its return    *)
(* value and errno) that took a process with the uids v1 to the uids v2.   *)
(* GraphVerificationImpl.h holds the sanity checks, APFunctorImpl.h the    *)
(* POSIX clauses: each set-uid function of the standard is described for a *)
(* caller with and for a caller without "appropriate privileges" (AP), and *)
(* an edge that agrees with neither description refutes the standard.      *)
(***************************************************************************)
EXTENDS SetIds

EPERM  == "EPERM"
EINVAL == "EINVAL"
NoErr  == "none"                        \* errNumber 0

PrivFns   == {"dropprivperm", "dropprivtemp", "restorepriv"}
Functions == {"setuid", "seteuid", "setreuid", "setresuid"} \cup PrivFns

Arity(fn) == CASE fn = "setreuid" -> 2 [] fn = "setresuid" -> 3 [] OTHER -> 1

Succeeded(e) == e.value = 0
SomewhatPrivileged(t) == 0 \in Own(t)

\* The parameter p set the id that was `old' and is `new'.
SetTo(p, old, new) == new = New(p, old)
-----------------------------------------------------------------------------
(***************************************************************************)
(* The sanity visitors.                                                    *)
(***************************************************************************)
GeneralSanity(e, v1, v2) ==
  /\ e.fn \in Functions /\ Len(e.params) = Arity(e.fn)
  /\ e.value \in {0, -1}
  /\ Succeeded(e) => e.err = NoErr
  /\ ~Succeeded(e) => e.err \in {EPERM, EINVAL} /\ v1 = v2
  /\ Keep \notin Own(v1) \cup Own(v2)
  /\ SomewhatPrivileged(v2) => SomewhatPrivileged(v1)
  /\ v1.e = 0 /\ ~Succeeded(e) => e.err = EINVAL

SetuidSanity(e, v1, v2) ==
  e.fn = "setuid" /\ Succeeded(e) => v2.e = e.params[1]

SeteuidSanity(e, v1, v2) ==
  e.fn = "seteuid" => /\ Succeeded(e) => v2.e = e.params[1]
                      /\ v1.r = v2.r /\ v1.s = v2.s

SetreuidSanity(e, v1, v2) ==
  e.fn = "setreuid" =>
    /\ Succeeded(e) => /\ SetTo(e.params[1], v1.r, v2.r)
                       /\ SetTo(e.params[2], v1.e, v2.e)
    /\ v1.e = 0 => Succeeded(e)

SetresuidSanity(e, v1, v2) ==
  e.fn = "setresuid" =>
    /\ Succeeded(e) => /\ SetTo(e.params[1], v1.r, v2.r)
                       /\ SetTo(e.params[2], v1.e, v2.e)
                       /\ SetTo(e.params[3], v1.s, v2.s)
    /\ v1.e = 0 => Succeeded(e)

PrivSanity(e, v1, v2) ==
  e.fn \in PrivFns /\ Succeeded(e) => v2.e = e.params[1]

DropPrivPermSanity(e, v1, v2) ==
  e.fn = "dropprivperm" /\ Succeeded(e) => 0 \notin Own(v2)

DropPrivTempSanity(e, v1, v2) ==
  e.fn = "dropprivtemp" /\ Succeeded(e) => v2.e = e.params[1]

RestorePrivSanity(e, v1, v2) ==
  e.fn = "restorepriv" /\ Succeeded(e) => v2.e = e.params[1]
-----------------------------------------------------------------------------
(***************************************************************************)
(* The standard, clause by clause.  Fail and Einval are the two ways a     *)
(* call may be refused.                                                    *)
(***************************************************************************)
Fail(e, v1, v2) == e.value = -1 /\ v1 = v2
Einval(e)       == e.value = -1 /\ e.err = EINVAL

\* A description is ruled out if the parameters fit it and the call did not
\* do as it says, or if they do not fit and the call was not refused.
WithoutAP(valid, asSaid, e, v1, v2) ==
  IF valid THEN ~asSaid ELSE ~Einval(e) /\ ~Fail(e, v1, v2)

WithAP(valid, asSaid, e, v1, v2) ==
  ~Einval(e) /\ (~asSaid \/ (~valid /\ Fail(e, v1, v2)))

\* setuid
SetuidSuccessAP(e, v2)      == Succeeded(e) /\ v2 = AllSame(e.params[1])
SetuidSuccessNAP(e, v1, v2) == Succeeded(e) /\ v2 = [v1 EXCEPT !.e = e.params[1]]

\* Mutant: the effective id is a valid parameter too.
OwnIdIsValid(e, v1) == e.params[1] \in Own(v1)

NAPUIDIsValid(e, v1) == e.params[1] \in {v1.r, v1.s}

SetuidImpliesAP(e, v1, v2) ==
  WithoutAP(NAPUIDIsValid(e, v1), SetuidSuccessNAP(e, v1, v2), e, v1, v2)
SetuidImpliesNAP(e, v1, v2) ==
  WithAP(NAPUIDIsValid(e, v1), SetuidSuccessAP(e, v2), e, v1, v2)

SetuidTautology(e, v1, v2) == ~(SetuidImpliesAP(e, v1, v2) /\ SetuidImpliesNAP(e, v1, v2))
SetuidRootAP(e, v1, v2)    == v1.e = 0 => ~SetuidImpliesNAP(e, v1, v2)
SetuidNonRootNAP(e, v1, v2) == v1.e # 0 => ~SetuidImpliesAP(e, v1, v2)

\* seteuid: one outcome for both callers.
SeteuidSuccess(e, v1, v2) == SetuidSuccessNAP(e, v1, v2)

SeteuidImpliesAP(e, v1, v2) ==
  WithoutAP(NAPUIDIsValid(e, v1), SeteuidSuccess(e, v1, v2), e, v1, v2)
SeteuidImpliesNAP(e, v1, v2) ==
  WithAP(NAPUIDIsValid(e, v1), SeteuidSuccess(e, v1, v2), e, v1, v2)

SeteuidTautology(e, v1, v2) == ~(SeteuidImpliesAP(e, v1, v2) /\ SeteuidImpliesNAP(e, v1, v2))
SeteuidRootAP(e, v1, v2)    == v1.e = 0 => ~SeteuidImpliesNAP(e, v1, v2)
SeteuidNonRootNAP(e, v1, v2) == v1.e # 0 => ~SeteuidImpliesAP(e, v1, v2)

(***************************************************************************)
(* setreuid.  The standard leaves open whether an unprivileged process may *)
(* set its real id, so a description is ruled out only if it is whichever  *)
(* way that is answered.                                                   *)
(***************************************************************************)
SetreuidRuidSuccess(e, v1, v2) == SetTo(e.params[1], v1.r, v2.r)
SetreuidEuidSuccess(e, v1, v2) == SetTo(e.params[2], v1.e, v2.e)

SetreuidSetSvuid(e, v1) == e.params[1] # Keep \/ e.params[2] \notin {Keep, v1.r}

SetreuidSvuidSuccess(e, v1, v2) == SetreuidSetSvuid(e, v1) => v2.s = v2.e

\* Mutant: Darwin's old effective id is forgotten.
SvuidKeptOrReal(e, v1, v2) ==
  v2.s \in {v1.s, v2.r} \/ SetreuidSvuidSuccess(e, v1, v2)

\* Darwin and OpenBSD leave the saved id, or move it elsewhere.
SetreuidCleanSvuidSuccess(e, v1, v2) ==
  v2.s \in {v1.s, v1.e, v2.r} \/ SetreuidSvuidSuccess(e, v1, v2)

ReuidSet(e, v1, v2) ==
  /\ Succeeded(e)
  /\ SetreuidRuidSuccess(e, v1, v2)
  /\ SetreuidEuidSuccess(e, v1, v2)

SetreuidSuccess(e, v1, v2)      == ReuidSet(e, v1, v2) /\ SetreuidSvuidSuccess(e, v1, v2)
SetreuidCleanSuccess(e, v1, v2) == ReuidSet(e, v1, v2) /\ SetreuidCleanSvuidSuccess(e, v1, v2)

ParamEuidIsValid(e, v1) == e.params[2] \in Own(v1) \cup {Keep}

ReuidImpliesAP(success, e, v1, v2) ==
  \A ruidIsValid \in BOOLEAN :
    WithoutAP(ruidIsValid /\ ParamEuidIsValid(e, v1), success, e, v1, v2)
ReuidImpliesNAP(success, e, v1, v2) ==
  \A ruidIsValid \in BOOLEAN :
    WithAP(ruidIsValid /\ ParamEuidIsValid(e, v1), success, e, v1, v2)

SetreuidImpliesAP(e, v1, v2)  == ReuidImpliesAP(SetreuidSuccess(e, v1, v2), e, v1, v2)
SetreuidImpliesNAP(e, v1, v2) == ReuidImpliesNAP(SetreuidSuccess(e, v1, v2), e, v1, v2)
SetreuidTautology(e, v1, v2)  == ~(SetreuidImpliesAP(e, v1, v2) /\ SetreuidImpliesNAP(e, v1, v2))

SetreuidCleanImpliesAP(e, v1, v2) ==
  ReuidImpliesAP(SetreuidCleanSuccess(e, v1, v2), e, v1, v2)
SetreuidCleanImpliesNAP(e, v1, v2) ==
  ReuidImpliesNAP(SetreuidCleanSuccess(e, v1, v2), e, v1, v2)
SetreuidCleanTautology(e, v1, v2) ==
  ~(SetreuidCleanImpliesAP(e, v1, v2) /\ SetreuidCleanImpliesNAP(e, v1, v2))

\* setresuid
SetresuidParamsAreValid(e, v1) == \A i \in 1..3 : e.params[i] \in Own(v1) \cup {Keep}

SetresuidSuccess(e, v1, v2) == ReuidSet(e, v1, v2) /\ SetTo(e.params[3], v1.s, v2.s)

SetresuidTautology(e, v1, v2) ==
  \/ SetresuidSuccess(e, v1, v2)
  \/ IF SetresuidParamsAreValid(e, v1) THEN ~Einval(e)
                                       ELSE Einval(e) \/ Fail(e, v1, v2)

\* setreuid(u, u) does what setresuid(u, u, u) would.
SetreuidForDropPrivPerm(e, v1, v2) ==
  e.params[1] = e.params[2] =>
    (SetreuidSuccess(e, v1, v2)
       = SetresuidSuccess([e EXCEPT !.params = Append(@, e.params[1])], v1, v2))
-----------------------------------------------------------------------------
(***************************************************************************)
(* Priv2SanityVisitor makes calls of the users-and-groups interface from   *)
(* every vertex and looks at each: c has the request (permanent, uid, gid, *)
(* sups), the vertex v, the result (value, err) and the credentials after  *)
(* it.  Group lists are compared with eql_sups, which leaves out the       *)
(* effective gid of the process that compares: the visitor's, not that of  *)
(* the process that made the call.                                         *)
(***************************************************************************)
NamesNoId(c) == Keep \in {c.uid, c.gid}

SupsConfirmed(c) == c.newSups = c.sups \/ c.newSups \ {c.visitorEgid} = c.sups

Priv2Sanity(c) ==
  /\ c.v.e = 0 => \/ c.value = 0
                  \/ c.value = -1 /\ c.err = EINVAL /\ NamesNoId(c)
  /\ c.value = 0 /\ c.permanent =>
       c.uids = AllSame(c.uid) /\ c.gids = AllSame(c.gid) /\ SupsConfirmed(c)
  /\ c.value = 0 /\ ~c.permanent =>
       /\ c.uids.e = c.uid /\ c.v.e \in {c.uids.r, c.uids.s}
       /\ c.gids.e = c.gid /\ SupsConfirmed(c)
  /\ c.value # 0 => c.value = -1 /\ c.uids = c.v

ExistingUidSucceeds(c) == ~NamesNoId(c) /\ c.uid \in Own(c.v) => c.value = 0
-----------------------------------------------------------------------------
(***************************************************************************)
(* The passes the drivers make over a graph: each visitor looks at the     *)
(* edges of its function, and what it does not confirm it reports.         *)
(* RunPrivVerification runs DropPrivPermSanity among those of SanePrivEdge *)
(* too; it is kept apart here because it alone has something to report.    *)
(***************************************************************************)
SaneSetuidEdge(e, v1, v2) ==
  /\ GeneralSanity(e, v1, v2)
  /\ SetuidSanity(e, v1, v2)
  /\ SeteuidSanity(e, v1, v2)
  /\ SetreuidSanity(e, v1, v2)
  /\ SetresuidSanity(e, v1, v2)

SanePrivEdge(e, v1, v2) ==
  /\ GeneralSanity(e, v1, v2)
  /\ PrivSanity(e, v1, v2)
  /\ DropPrivTempSanity(e, v1, v2)
  /\ RestorePrivSanity(e, v1, v2)

CleanEdge(e, v1, v2) ==
  CASE e.fn = "setuid"    -> SetuidTautology(e, v1, v2)
    [] e.fn = "seteuid"   -> SeteuidTautology(e, v1, v2)
    [] e.fn = "setreuid"  -> SetreuidCleanTautology(e, v1, v2)
    [] e.fn = "setresuid" -> SetresuidTautology(e, v1, v2)
    [] OTHER              -> TRUE

\* The driver's debug passes, by function.
RootHasAP(e, v1, v2) ==
  /\ e.fn = "setuid"  => SetuidRootAP(e, v1, v2)
  /\ e.fn = "seteuid" => SeteuidRootAP(e, v1, v2)

NonRootHasNoAP(e, v1, v2) ==
  /\ e.fn = "setuid"  => SetuidNonRootNAP(e, v1, v2)
  /\ e.fn = "seteuid" => SeteuidNonRootNAP(e, v1, v2)

\* An edge to a state of effective uid 0 and one back, if v could regain it.
SomewhatReversible(v, out) ==
  v.e # 0 /\ 0 \in {v.r, v.s} => \E w \in out[v] : w.e = 0 /\ v \in out[w]

\* A process that has just started a program has somewhere to go.
StartStateHasEdges(v, out) == v.e = v.s => out[v] # {}
=============================================================================
