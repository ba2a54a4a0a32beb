------------------------------ MODULE PrivProofs ------------------------------
(***************************************************************************)
(* Theorems about Priv, for all sets of users and groups, every build and  *)
(* every identity a process may start with.                                *)
(***************************************************************************)
EXTENDS Priv, SequenceTheorems, TLAPS

(***************************************************************************)
(* What the verification visitors say of the kernel rules: for all ids, an *)
(* edge that records what the kernel of SetIds does with a set-uid call.   *)
(***************************************************************************)
SetUidFns == {"setuid", "seteuid", "setreuid", "setresuid"}

NatIds == IdTriples(Nat)

\* The edge of one such call: it is made with and only with the permission of
\* the kernel, and the errno tells a refusal from an invalid -1.
Refusal(fn, args) ==
  IF fn \in {"setuid", "seteuid"} /\ args[1] = Keep THEN EINVAL ELSE EPERM

Recorded(e, v1) ==
  LET c == SetIdCall(e.fn, e.params)
      allowed == Allowed(c, v1, v1.e = 0)
  IN  /\ e.fn \in SetUidFns
      /\ e.params \in [1 .. Arity(e.fn) -> Nat \cup {Keep}]
      /\ e.value = IF allowed THEN 0 ELSE -1
      /\ e.err = IF allowed THEN NoErr ELSE Refusal(e.fn, e.params)

KernelEdge(e, v1, v2) ==
  /\ Recorded(e, v1)
  /\ v2 = IF Succeeded(e) THEN After(SetIdCall(e.fn, e.params), v1, v1.e = 0) ELSE v1

\* Darwin may leave the saved id of a setreuid, or move it to the old effective id.
UnusualSaved(e, v1, v2) ==
  /\ Recorded(e, v1) /\ e.fn = "setreuid" /\ Succeeded(e)
  /\ LET usual == After(SetIdCall(e.fn, e.params), v1, v1.e = 0)
     IN  \E s \in {v1.s, v1.e, usual.e} : v2 = [r |-> usual.r, e |-> usual.e, s |-> s]
-----------------------------------------------------------------------------
\* The four calls, one by one: their parameters, and their effect written out.
LEMMA SetuidEdge ==
  ASSUME NEW v1 \in NatIds, NEW v2, NEW e, KernelEdge(e, v1, v2), e.fn = "setuid"
  PROVE  /\ e.params[1] \in Nat \cup {Keep}
         /\ e.value \in {0, -1}
         /\ e.value = 0 => /\ e.err = NoErr /\ e.params[1] # Keep
                           /\ v1.e = 0 \/ e.params[1] \in {v1.r, v1.s}
                           /\ v2 = IF v1.e = 0 THEN AllSame(e.params[1])
                                   ELSE [r |-> v1.r, e |-> e.params[1], s |-> v1.s]
         /\ e.value = -1 => /\ v2 = v1
                            /\ e.params[1] = Keep \/ (v1.e # 0 /\ e.params[1] \notin {v1.r, v1.s})
                            /\ e.err = IF e.params[1] = Keep THEN EINVAL ELSE EPERM
<1>1. e.params \in [1 .. 1 -> Nat \cup {Keep}]
  BY DEF KernelEdge, Recorded, Arity
<1> QED
  BY <1>1 DEF KernelEdge, Recorded, Succeeded, Allowed, After, SetIdCall, Refusal, NatIds, IdTriples

\* The same for seteuid.
LEMMA SeteuidEdge ==
  ASSUME NEW v1 \in NatIds, NEW v2, NEW e, KernelEdge(e, v1, v2), e.fn = "seteuid"
  PROVE  /\ e.params[1] \in Nat \cup {Keep}
         /\ e.value \in {0, -1}
         /\ e.value = 0 => /\ e.err = NoErr /\ e.params[1] # Keep
                           /\ v1.e = 0 \/ e.params[1] \in Own(v1)
                           /\ v2 = [r |-> v1.r, e |-> e.params[1], s |-> v1.s]
         /\ e.value = -1 => /\ v2 = v1
                            /\ e.params[1] = Keep \/ (v1.e # 0 /\ e.params[1] \notin Own(v1))
                            /\ e.err = IF e.params[1] = Keep THEN EINVAL ELSE EPERM
<1>1. e.params \in [1 .. 1 -> Nat \cup {Keep}]
  BY DEF KernelEdge, Recorded, Arity
<1> QED
  BY <1>1 DEF KernelEdge, Recorded, Succeeded, Allowed, After, SetIdCall, Refusal, NatIds, IdTriples

\* The same for setreuid: the real and the effective id, and what a system does to the saved one.
LEMMA SetreuidEdge ==
  ASSUME NEW v1 \in NatIds, NEW v2, NEW e,
         KernelEdge(e, v1, v2) \/ UnusualSaved(e, v1, v2), e.fn = "setreuid"
  PROVE  /\ e.params \in [1 .. 2 -> Nat \cup {Keep}]
         /\ e.value \in {0, -1}
         /\ e.value = 0 => /\ e.err = NoErr
                           /\ \/ v1.e = 0
                              \/ e.params[1] \in {Keep, v1.r, v1.e} /\ e.params[2] \in Own(v1) \cup {Keep}
                           /\ v2.r = New(e.params[1], v1.r) /\ v2.e = New(e.params[2], v1.e)
                           /\ v2 = [r |-> v2.r, e |-> v2.e, s |-> v2.s]
                           /\ KernelEdge(e, v1, v2) => v2.s = IF SetreuidSetSvuid(e, v1) THEN v2.e ELSE v1.s
                           /\ UnusualSaved(e, v1, v2) => v2.s \in {v1.s, v1.e, v2.e}
         /\ e.value = -1 => /\ v2 = v1 /\ v1.e # 0 /\ e.err = EPERM
                            /\ \/ e.params[1] \notin {Keep, v1.r, v1.e}
                               \/ e.params[2] \notin Own(v1) \cup {Keep}
<1>1. e.params \in [1 .. 2 -> Nat \cup {Keep}]
  BY DEF KernelEdge, UnusualSaved, Recorded, Arity
<1> QED
  BY <1>1 DEF KernelEdge, UnusualSaved, Recorded, Succeeded, Allowed, After, SetIdCall, Refusal,
              NatIds, IdTriples, SetreuidSetSvuid

\* The same for setresuid.
LEMMA SetresuidEdge ==
  ASSUME NEW v1 \in NatIds, NEW v2, NEW e, KernelEdge(e, v1, v2), e.fn = "setresuid"
  PROVE  /\ e.params \in [1 .. 3 -> Nat \cup {Keep}]
         /\ e.value \in {0, -1}
         /\ e.value = 0 => /\ e.err = NoErr
                           /\ v1.e = 0 \/ \A i \in 1..3 : e.params[i] \in Own(v1) \cup {Keep}
                           /\ v2 = [r |-> New(e.params[1], v1.r), e |-> New(e.params[2], v1.e),
                                    s |-> New(e.params[3], v1.s)]
         /\ e.value = -1 => /\ v2 = v1 /\ v1.e # 0 /\ e.err = EPERM
                            /\ \E i \in 1..3 : e.params[i] \notin Own(v1) \cup {Keep}
<1>1. e.params \in [1 .. 3 -> Nat \cup {Keep}]
  BY DEF KernelEdge, Recorded, Arity
<1> QED
  BY <1>1 DEF KernelEdge, Recorded, Succeeded, Allowed, After, SetIdCall, Refusal, NatIds, IdTriples
-----------------------------------------------------------------------------
(***************************************************************************)
(* The clean passes confirm every edge of the kernel, Darwin's among them. *)
(***************************************************************************)
LEMMA KernelIsClean ==
  ASSUME NEW v1 \in NatIds, NEW v2, NEW e, KernelEdge(e, v1, v2) \/ UnusualSaved(e, v1, v2)
  PROVE  CleanEdge(e, v1, v2)
<1>1. CASE e.fn = "setuid"
  <2>1. KernelEdge(e, v1, v2)
    BY <1>1 DEF UnusualSaved
  <2>2. SetuidTautology(e, v1, v2)
    BY <1>1, <2>1, SetuidEdge
    DEF SetuidTautology, SetuidImpliesAP, SetuidImpliesNAP, WithoutAP, WithAP, NAPUIDIsValid,
        SetuidSuccessAP, SetuidSuccessNAP, Succeeded, Einval, Fail, NatIds, IdTriples, EPERM, EINVAL
  <2> QED
    BY <1>1, <2>2 DEF CleanEdge
<1>2. CASE e.fn = "seteuid"
  <2>1. KernelEdge(e, v1, v2)
    BY <1>2 DEF UnusualSaved
  <2>2. SeteuidTautology(e, v1, v2)
    BY <1>2, <2>1, SeteuidEdge
    DEF SeteuidTautology, SeteuidImpliesAP, SeteuidImpliesNAP, WithoutAP, WithAP, NAPUIDIsValid,
        SeteuidSuccess, SetuidSuccessNAP, Succeeded, Einval, Fail, NatIds, IdTriples, EPERM, EINVAL, Own
  <2> QED
    BY <1>2, <2>2 DEF CleanEdge
<1>3. CASE e.fn = "setreuid"
  <2>1. CASE e.value = 0
    <3>1. SetreuidCleanSuccess(e, v1, v2)
      BY <1>3, <2>1, SetreuidEdge
      DEF SetreuidCleanSuccess, ReuidSet, SetreuidRuidSuccess, SetreuidEuidSuccess, SetTo, Succeeded,
          SetreuidCleanSvuidSuccess, SetreuidSvuidSuccess
    <3>2. ~SetreuidCleanImpliesNAP(e, v1, v2)
      <4>1. \A valid \in BOOLEAN : ~WithAP(valid, SetreuidCleanSuccess(e, v1, v2), e, v1, v2)
        BY <2>1, <3>1 DEF WithAP, Fail
      <4> HIDE DEF SetreuidCleanSuccess
      <4> QED
        BY <4>1, Zenon DEF SetreuidCleanImpliesNAP, ReuidImpliesNAP
    <3> QED
      BY <1>3, <3>2 DEF CleanEdge, SetreuidCleanTautology
  <2>2. CASE e.value = -1
    <3>1. Fail(e, v1, v2)
      BY <1>3, <2>2, SetreuidEdge DEF Fail
    <3>2. ~SetreuidCleanImpliesAP(e, v1, v2)
      BY <3>1 DEF SetreuidCleanImpliesAP, ReuidImpliesAP, WithoutAP
    <3> QED
      BY <1>3, <3>2 DEF CleanEdge, SetreuidCleanTautology
  <2> QED
    BY <1>3, <2>1, <2>2, SetreuidEdge
<1>4. CASE e.fn = "setresuid"
  <2>1. KernelEdge(e, v1, v2)
    BY <1>4 DEF UnusualSaved
  <2>2. SetresuidTautology(e, v1, v2)
    BY <1>4, <2>1, SetresuidEdge
    DEF SetresuidTautology, SetresuidSuccess, SetresuidParamsAreValid, ReuidSet, SetreuidRuidSuccess,
        SetreuidEuidSuccess, SetTo, Succeeded, Einval, Fail, EPERM, EINVAL
  <2> QED
    BY <1>4, <2>2 DEF CleanEdge
<1> QED
  BY <1>1, <1>2, <1>3, <1>4 DEF KernelEdge, UnusualSaved, Recorded, SetUidFns
-----------------------------------------------------------------------------
(***************************************************************************)
(* The sanity passes confirm every edge of SetIds.                         *)
(***************************************************************************)
LEMMA KernelIsSane ==
  ASSUME NEW v1 \in NatIds, NEW v2, NEW e, KernelEdge(e, v1, v2)
  PROVE  SaneSetuidEdge(e, v1, v2) /\ v2 \in NatIds
<1>0. \A id \in Nat : id # Keep
  BY DEF Keep
<1>1. Len(e.params) = Arity(e.fn)
  <2>1. Arity(e.fn) \in Nat
    BY DEF Arity
  <2>2. e.params \in [1 .. Arity(e.fn) -> Nat \cup {Keep}]
    BY DEF KernelEdge, Recorded
  <2> HIDE DEF Arity
  <2>3. e.params \in Seq(Nat \cup {Keep}) /\ DOMAIN e.params = 1 .. Arity(e.fn)
    BY <2>1, <2>2, IsASeq
  <2> QED
    BY <2>1, <2>3, LenProperties
<1>2. /\ v2 \in NatIds /\ e.value \in {0, -1}
      /\ Succeeded(e) => e.err = NoErr
      /\ ~Succeeded(e) => e.err \in {EPERM, EINVAL} /\ v1 = v2
      /\ SomewhatPrivileged(v2) => SomewhatPrivileged(v1)
      /\ v1.e = 0 /\ ~Succeeded(e) => e.err = EINVAL
  <2>1. CASE e.fn = "setuid"
    BY <1>0, <2>1, SetuidEdge DEF Succeeded, SomewhatPrivileged, Own, AllSame, NatIds, IdTriples
  <2>2. CASE e.fn = "seteuid"
    BY <1>0, <2>2, SeteuidEdge DEF Succeeded, SomewhatPrivileged, Own, NatIds, IdTriples
  <2>3. CASE e.fn = "setreuid"
    <3>1. CASE e.value = -1
      BY <2>3, <3>1, SetreuidEdge DEF Succeeded
    <3>2. CASE e.value = 0
      <4>1. v2 \in NatIds
        BY <2>3, <3>2, SetreuidEdge DEF New, NatIds, IdTriples
      <4>2. v1.e # 0 => \A id \in Own(v2) : id \in Own(v1)
        BY <1>0, <2>3, <3>2, SetreuidEdge DEF New, Own, NatIds, IdTriples
      <4> QED
        BY <2>3, <3>2, <4>1, <4>2, SetreuidEdge DEF Succeeded, SomewhatPrivileged, Own
    <3> QED
      BY <2>3, <3>1, <3>2, SetreuidEdge
  <2>4. CASE e.fn = "setresuid"
    <3>1. CASE e.value = -1
      BY <2>4, <3>1, SetresuidEdge DEF Succeeded
    <3>2. CASE e.value = 0
      <4>0. /\ e.params[1] \in Nat \cup {Keep} /\ e.params[2] \in Nat \cup {Keep}
            /\ e.params[3] \in Nat \cup {Keep}
            /\ v1.e # 0 => /\ e.params[1] \in Own(v1) \cup {Keep}
                           /\ e.params[2] \in Own(v1) \cup {Keep}
                           /\ e.params[3] \in Own(v1) \cup {Keep}
        BY <2>4, <3>2, SetresuidEdge
      <4>1. v2 \in NatIds
        BY <2>4, <3>2, <4>0, SetresuidEdge DEF New, NatIds, IdTriples
      <4>2. v1.e # 0 => \A id \in Own(v2) : id \in Own(v1)
        BY <1>0, <2>4, <3>2, <4>0, SetresuidEdge DEF New, Own, NatIds, IdTriples
      <4> QED
        BY <2>4, <3>2, <4>1, <4>2, SetresuidEdge DEF Succeeded, SomewhatPrivileged, Own
    <3> QED
      BY <2>4, <3>1, <3>2, SetresuidEdge
  <2> QED
    BY <2>1, <2>2, <2>3, <2>4 DEF KernelEdge, Recorded, SetUidFns
<1>3. GeneralSanity(e, v1, v2)
  <2>1. Keep \notin Own(v1) \cup Own(v2)
    BY <1>0, <1>2 DEF Own, NatIds, IdTriples
  <2>2. e.fn \in Functions
    BY DEF KernelEdge, Recorded, SetUidFns, Functions
  <2> QED
    BY <1>1, <1>2, <2>1, <2>2 DEF GeneralSanity
<1>4. SetuidSanity(e, v1, v2)
  BY SetuidEdge DEF SetuidSanity, Succeeded, AllSame
<1>5. SeteuidSanity(e, v1, v2)
  BY SeteuidEdge DEF SeteuidSanity, Succeeded
<1>6. SetreuidSanity(e, v1, v2)
  BY SetreuidEdge DEF SetreuidSanity, Succeeded, SetTo
<1>7. SetresuidSanity(e, v1, v2)
  BY SetresuidEdge DEF SetresuidSanity, Succeeded, SetTo
<1> QED
  BY <1>2, <1>3, <1>4, <1>5, <1>6, <1>7 DEF SaneSetuidEdge
-----------------------------------------------------------------------------
(***************************************************************************)
(* The debug passes: root shows appropriate privileges in every setuid and *)
(* seteuid, another process in one seteuid only, to the effective uid it   *)
(* has and holds nowhere else.                                             *)
(***************************************************************************)
LEMMA RootShowsAP ==
  ASSUME NEW v1 \in NatIds, NEW v2, NEW e, KernelEdge(e, v1, v2)
  PROVE  RootHasAP(e, v1, v2)
<1>1. e.fn = "setuid" => SetuidRootAP(e, v1, v2)
  <2> SUFFICES ASSUME e.fn = "setuid", v1.e = 0 PROVE ~SetuidImpliesNAP(e, v1, v2)
    BY DEF SetuidRootAP
  <2>1. CASE e.value = 0
    <3>1. SetuidSuccessAP(e, v2)
      BY <2>1, SetuidEdge DEF SetuidSuccessAP, Succeeded
    <3> QED
      BY <2>1, <3>1 DEF SetuidImpliesNAP, WithAP, Fail
  <2>2. CASE e.value = -1
    BY <2>2, SetuidEdge DEF SetuidImpliesNAP, WithAP, Einval
  <2> QED
    BY <2>1, <2>2, SetuidEdge
<1>2. e.fn = "seteuid" => SeteuidRootAP(e, v1, v2)
  BY SeteuidEdge
  DEF SeteuidRootAP, SeteuidImpliesNAP, WithAP, NAPUIDIsValid, SeteuidSuccess, SetuidSuccessNAP,
      Succeeded, Einval, Fail, Own, NatIds, IdTriples
<1> QED
  BY <1>1, <1>2 DEF RootHasAP

\* The one edge that looks privileged though an ordinary user's.
LEMMA OneIrregularity ==
  ASSUME NEW v1 \in NatIds, NEW v2, NEW e, KernelEdge(e, v1, v2)
  PROVE  NonRootHasNoAP(e, v1, v2)
           <=> ~(/\ e.fn = "seteuid" /\ v1.e # 0
                 /\ v1.e \notin {v1.r, v1.s} /\ e.params[1] = v1.e)
<1>1. e.fn = "setuid" => SetuidNonRootNAP(e, v1, v2)
  <2> SUFFICES ASSUME e.fn = "setuid", v1.e # 0 PROVE ~SetuidImpliesAP(e, v1, v2)
    BY DEF SetuidNonRootNAP
  <2>1. CASE e.value = 0
    <3>1. SetuidSuccessNAP(e, v1, v2) /\ NAPUIDIsValid(e, v1)
      BY <2>1, SetuidEdge DEF SetuidSuccessNAP, NAPUIDIsValid, Succeeded, NatIds, IdTriples
    <3> QED
      BY <3>1 DEF SetuidImpliesAP, WithoutAP
  <2>2. CASE e.value = -1
    <3>1. ~NAPUIDIsValid(e, v1) /\ Fail(e, v1, v2)
      BY <2>2, SetuidEdge DEF NAPUIDIsValid, Fail, NatIds, IdTriples, Keep
    <3> QED
      BY <3>1 DEF SetuidImpliesAP, WithoutAP
  <2> QED
    BY <2>1, <2>2, SetuidEdge
<1>2. e.fn = "seteuid" =>
        (SeteuidNonRootNAP(e, v1, v2) <=> ~(/\ v1.e # 0 /\ v1.e \notin {v1.r, v1.s}
                                            /\ e.params[1] = v1.e))
  <2>1. \A id \in Nat : id # Keep
    BY DEF Keep
  <2> QED
    BY <2>1, SeteuidEdge
    DEF SeteuidNonRootNAP, SeteuidImpliesAP, WithoutAP, NAPUIDIsValid, SeteuidSuccess,
        SetuidSuccessNAP, Succeeded, Einval, Fail, Own, NatIds, IdTriples
<1> QED
  BY <1>1, <1>2 DEF NonRootHasNoAP

\* The strict reading of setreuid holds of SetIds, and setreuid(u, u) is
\* setresuid(u, u, u).
LEMMA StrictSetreuid ==
  ASSUME NEW v1 \in NatIds, NEW v2, NEW e, KernelEdge(e, v1, v2), e.fn = "setreuid"
  PROVE  SetreuidTautology(e, v1, v2) /\ SetreuidForDropPrivPerm(e, v1, v2)
<1>1. CASE e.value = 0
  <2>1. SetreuidSuccess(e, v1, v2)
    BY <1>1, SetreuidEdge
    DEF SetreuidSuccess, ReuidSet, SetreuidRuidSuccess, SetreuidEuidSuccess, SetTo, Succeeded,
        SetreuidSvuidSuccess
  <2>2. \A valid \in BOOLEAN : ~WithAP(valid, SetreuidSuccess(e, v1, v2), e, v1, v2)
    BY <1>1, <2>1 DEF WithAP, Fail
  <2>3. SetreuidTautology(e, v1, v2)
    <3> HIDE DEF SetreuidSuccess
    <3> QED
      BY <2>2, Zenon DEF SetreuidTautology, SetreuidImpliesNAP, ReuidImpliesNAP
  <2>4. ASSUME e.params[1] = e.params[2]
        PROVE  SetresuidSuccess([e EXCEPT !.params = Append(@, e.params[1])], v1, v2)
    <3> DEFINE p == e.params
               f == [e EXCEPT !.params = Append(@, e.params[1])]
    <3>1. p \in Seq(Nat \cup {Keep}) /\ Len(p) = 2
      <4>1. p \in [1 .. 2 -> Nat \cup {Keep}] /\ DOMAIN p = 1 .. 2
        BY SetreuidEdge
      <4> HIDE DEF p
      <4>2. \A n \in Nat : \A q \in [1 .. n -> Nat \cup {Keep}] : q \in Seq(Nat \cup {Keep})
        BY IsASeq
      <4>3. p \in Seq(Nat \cup {Keep})
        BY <4>1, <4>2
      <4> QED
        BY <4>1, <4>3, LenProperties
    <3>2. Append(p, p[1])[1] = p[1] /\ Append(p, p[1])[2] = p[2] /\ Append(p, p[1])[3] = p[1]
      BY <3>1, AppendProperties, ElementOfSeq
    <3>3. f.params = Append(p, p[1]) /\ f.value = e.value
      OBVIOUS
    <3>4. v2.s = New(p[1], v1.s)
      BY <1>1, <2>4, SetreuidEdge DEF SetreuidSetSvuid, New
    <3>5. v2.r = New(p[1], v1.r) /\ v2.e = New(p[2], v1.e)
      BY <1>1, SetreuidEdge
    <3> HIDE DEF f, p
    <3>6. SetresuidSuccess(f, v1, v2)
      BY <1>1, <3>2, <3>3, <3>4, <3>5
      DEF SetresuidSuccess, ReuidSet, SetreuidRuidSuccess, SetreuidEuidSuccess, SetTo, Succeeded
    <3> QED
      BY <3>6 DEF f
  <2> QED
    BY <2>1, <2>3, <2>4 DEF SetreuidForDropPrivPerm
<1>2. CASE e.value = -1
  <2>1. ~SetreuidSuccess(e, v1, v2) /\ Fail(e, v1, v2)
    BY <1>2, SetreuidEdge DEF SetreuidSuccess, ReuidSet, Succeeded, Fail
  <2>2. SetreuidTautology(e, v1, v2)
    BY <2>1 DEF SetreuidTautology, SetreuidImpliesAP, ReuidImpliesAP, WithoutAP
  <2>3. \A p : ~SetresuidSuccess([e EXCEPT !.params = p], v1, v2)
    <3> TAKE p
    <3>1. [e EXCEPT !.params = p].value = e.value
      OBVIOUS
    <3> QED
      BY <1>2, <3>1 DEF SetresuidSuccess, ReuidSet, Succeeded
  <2>4. ~SetresuidSuccess([e EXCEPT !.params = Append(@, e.params[1])], v1, v2)
    BY <2>3
  <2>5. /\ SetreuidSuccess(e, v1, v2) \in BOOLEAN
        /\ SetresuidSuccess([e EXCEPT !.params = Append(@, e.params[1])], v1, v2) \in BOOLEAN
    BY DEF SetreuidSuccess, SetresuidSuccess, ReuidSet
  <2> HIDE DEF SetreuidSuccess, SetresuidSuccess
  <2> QED
    BY <2>1, <2>2, <2>4, <2>5 DEF SetreuidForDropPrivPerm
<1> QED
  BY <1>1, <1>2, SetreuidEdge
-----------------------------------------------------------------------------
(***************************************************************************)
(* What a process between two steps of a function looks like.              *)
(***************************************************************************)
Errnos     == {NoErr, EPERM, EINVAL, ENOENT, EIO, Stale}
ParamLists == UNION {[1 .. n -> UidParams] : n \in 1 .. 3}

Edges == [fn : PrivFns \cup SetUidFns, params : ParamLists, value : {0, -1, Running},
          err : Errnos]

TypesFit ==
  /\ build \in [os : Systems, full : BOOLEAN, procfs : BOOLEAN]
  /\ uids \in IdTriples(Users) /\ gids \in IdTriples(Groups) /\ sups \subseteq Groups
  /\ edge = None \/ edge \in Edges
  /\ dropped = None \/ dropped \in Identities
  /\ retired = None \/ retired \in Ucreds

\* Which stage a function is in, and what it was asked for.
StageFits ==
  /\ stage \in {"sups", "gids", "uids", "verify", "fsids", "seteuid", "setegid", "end"}
  /\ edge.value = Running <=> stage # "end"
  /\ stage # "end" => edge.fn \in PrivFns /\ IdsAreSane(uc)
  /\ stage \in {"sups", "gids", "setegid"} => build.full
  /\ stage \in {"gids", "uids"} => edge.fn # "restorepriv"
  /\ stage \in {"seteuid", "setegid"} => edge.fn = "restorepriv"
  /\ stage = "fsids" => edge.fn = "dropprivperm" /\ On("linux")

AskedFits ==
  /\ edge = None => old = None
  /\ edge # None => old \in Identities
  /\ edge.fn \notin PrivFns => uc = None
  /\ edge.fn \in PrivFns =>
       /\ uc.ucred \in Ucreds
       /\ uc = [ucred |-> uc.ucred, uid |-> uc.ucred.uid, gid |-> uc.ucred.gid,
                sups |-> uc.ucred.sups,
                uids |-> TargetIds(edge.fn, old.uids, uc.ucred.uid),
                gids |-> TargetIds(edge.fn, old.gids, uc.ucred.gid)]

(***************************************************************************)
(* The pending kernel calls.  Between setreuid and seteuid the real id is  *)
(* as asked, the effective one is the saved one to be, and Darwin may have *)
(* put the old saved or effective id where the saved one is.               *)
(***************************************************************************)
Halfway(start, t) == {[r |-> t.r, e |-> t.s, s |-> id] : id \in {start.s, start.e, t.s}}

Setting(of, cur, start, t) ==
  \/ calls = <<>> /\ cur = start
  \/ /\ calls = CallsFor(of, start, t) /\ calls # <<>>
     /\ ~Refused(of, start, t) /\ cur = start
  \/ /\ On("darwin") \/ On("solaris")
     /\ calls = <<IdCall(of, "seteuid", <<t.e>>)>> /\ cur \in Halfway(start, t)

CallsFit ==
  /\ stage \notin {"gids", "uids", "seteuid", "setegid"} => calls = <<>>
  /\ stage = "uids" => Setting("uids", uids, old.uids, uc.uids)
  /\ stage = "gids" => Setting("gids", gids, old.gids, uc.gids)
  /\ stage = "seteuid" => calls \in {<<>>, <<IdCall("uids", "seteuid", <<uc.uid>>)>>}
  /\ stage = "setegid" => calls \in {<<>>, <<IdCall("gids", "seteuid", <<uc.gid>>)>>}

\* What was not set yet is as it was when the function was called.
UntouchedFits ==
  /\ stage \in {"sups", "gids"} /\ edge.fn # "restorepriv" => uids = old.uids
  /\ stage = "sups" /\ edge.fn # "restorepriv" => gids = old.gids

TypeInv == TypesFit /\ StageFits /\ AskedFits /\ CallsFit /\ UntouchedFits

(***************************************************************************)
(* PermanentIsForever as an inductive invariant: the look at the ids makes *)
(* it true, and where the filesystem ids are looked at later it stays.     *)
(***************************************************************************)
TakenOn(u) ==
  /\ uids = AllSame(u.uid)
  /\ build.full => gids = AllSame(u.gid) /\ EqlSups(sups, u.sups, u.gid)

PermanentInv ==
  /\ stage = "fsids" => TakenOn(uc.ucred)
  /\ retired # None => retired.uid # 0 /\ TakenOn(retired)

(***************************************************************************)
(* Every direct call's edge is one of the kernel's.                        *)
(***************************************************************************)
DirectInv ==
  edge.fn \in SetUidFns =>
    \/ KernelEdge(edge, old.uids, uids)
    \/ On("darwin") /\ UnusualSaved(edge, old.uids, uids)
-----------------------------------------------------------------------------
(***************************************************************************)
(* What each kernel call of the library does, written out.                 *)
(***************************************************************************)
LEMMA SetresCall ==
  ASSUME NEW of, NEW a, NEW b, NEW c, NEW t
  PROVE  LET call == IdCall(of, "setresuid", <<a, b, c>>)
         IN  /\ call.of = of /\ call.fn = "setresuid"
             /\ KernelAllows(call, t) <=> Root \/ {a, b, c} \subseteq Own(t) \cup {Keep}
             /\ KernelResults(call, t) = {[r |-> New(a, t.r), e |-> New(b, t.e), s |-> New(c, t.s)]}
             /\ KernelErrno(call) = EPERM
<1>1. \A T : (\A i \in 1..3 : <<a, b, c>>[i] \in T) <=> {a, b, c} \subseteq T
  OBVIOUS
<1> QED
  BY <1>1 DEF IdCall, KernelAllows, KernelResults, KernelErrno, Allowed, After

\* A call of seteuid (or setegid), written out.
LEMMA SeteuidCall ==
  ASSUME NEW of, NEW a, NEW t
  PROVE  LET call == IdCall(of, "seteuid", <<a>>)
         IN  /\ call.of = of /\ call.fn = "seteuid"
             /\ KernelAllows(call, t) <=> a # Keep /\ (Root \/ a \in Own(t))
             /\ KernelResults(call, t) = {[t EXCEPT !.e = a]}
             /\ KernelErrno(call) = IF a = Keep THEN EINVAL ELSE EPERM
BY DEF IdCall, KernelAllows, KernelResults, KernelErrno, Allowed, After

\* A call of setreuid (or setregid), written out.
LEMMA SetreuidCall ==
  ASSUME NEW of, NEW start, NEW t, t.r # Keep, t.s # Keep,
         NEW c, c = IdCall(of, "setreuid", <<t.r, t.s>>)
  PROVE  /\ c.of = of /\ c.fn = "setreuid"
         /\ Root => KernelAllows(c, start)
         /\ KernelAllows(c, start) => Root \/ {t.r, t.s} \subseteq Own(start)
         /\ KernelResults(c, start) \subseteq Halfway(start, t)
         /\ KernelErrno(c) = EPERM
<1> DEFINE t1 == [r |-> t.r, e |-> t.s, s |-> t.s]
<1>1. /\ c.of = of /\ c.fn = "setreuid" /\ c.args[1] = t.r /\ c.args[2] = t.s
      /\ KernelErrno(c) = EPERM
  BY DEF IdCall, KernelErrno
<1>2. After(c, start, Root) = t1
  BY <1>1 DEF After, New
<1>3. /\ Root => KernelAllows(c, start)
      /\ KernelAllows(c, start) => Root \/ {t.r, t.s} \subseteq Own(start)
  BY <1>1 DEF KernelAllows, Allowed, Own
<1>4. t1 \in Halfway(start, t)
  BY DEF Halfway
<1>5. t1.r = t.r /\ t1.e = t.s
  OBVIOUS
<1> HIDE DEF t1
<1>6. KernelResults(c, start) = IF On("darwin") THEN Halfway(start, t) ELSE {t1}
  BY <1>1, <1>2, <1>5 DEF KernelResults, Halfway
<1> QED
  BY <1>1, <1>3, <1>4, <1>6

(***************************************************************************)
(* set_uids and set_gids: one call that gives exactly the ids asked for,   *)
(* or setreuid and seteuid; and without privileges no id the process does  *)
(* not hold.                                                               *)
(***************************************************************************)
OneCall(of, start, t) ==
  \E c : /\ CallsFor(of, start, t) = <<c>> /\ c.of = of
         /\ KernelResults(c, start) = {t} /\ KernelErrno(c) = EPERM
         /\ Root => KernelAllows(c, start)
         /\ KernelAllows(c, start) => Root \/ Own(t) \subseteq Own(start)
         /\ c.fn = "PCSCRED" => On("solaris")

TwoCalls(of, start, t) ==
  LET c == IdCall(of, "setreuid", <<t.r, t.s>>)
  IN  /\ On("darwin") \/ On("solaris")
      /\ CallsFor(of, start, t) = <<c, IdCall(of, "seteuid", <<t.e>>)>>
      /\ c.of = of /\ c.fn # "PCSCRED"
      /\ KernelResults(c, start) \subseteq Halfway(start, t) /\ KernelErrno(c) = EPERM
      /\ Root => KernelAllows(c, start)
      /\ KernelAllows(c, start) => Root \/ {t.r, t.s} \subseteq Own(start)

\* The calls that a stage settles on, from where they start to the triple asked for.
LEMMA CallShapes ==
  ASSUME build.os \in Systems, NEW S, Keep \notin S, NEW of,
         NEW start \in IdTriples(S), NEW t \in IdTriples(S), ~Refused(of, start, t)
  PROVE  \/ CallsFor(of, start, t) = <<>> /\ t = start
         \/ OneCall(of, start, t)
         \/ TwoCalls(of, start, t)
<1>0. /\ t.r # Keep /\ t.e # Keep /\ t.s # Keep
      /\ t = [r |-> t.r, e |-> t.e, s |-> t.s] /\ start = [r |-> start.r, e |-> start.e, s |-> start.s]
  BY DEF IdTriples
<1>1. CASE On("linux")
  <2> DEFINE c == IdCall(of, "setresuid", <<t.r, t.e, t.s>>)
  <2>1. CallsFor(of, start, t) = <<c>>
    BY <1>1 DEF CallsFor, SetresCalls, On
  <2>2. /\ c.of = of /\ c.fn = "setresuid" /\ KernelErrno(c) = EPERM
        /\ KernelAllows(c, start) <=> Root \/ {t.r, t.e, t.s} \subseteq Own(start) \cup {Keep}
        /\ KernelResults(c, start) =
             {[r |-> New(t.r, start.r), e |-> New(t.e, start.e), s |-> New(t.s, start.s)]}
    BY SetresCall
  <2> HIDE DEF c
  <2>3. OneCall(of, start, t)
    <3>1. KernelResults(c, start) = {t}
      BY <1>0, <2>2 DEF New
    <3>2. KernelAllows(c, start) => Root \/ Own(t) \subseteq Own(start)
      BY <1>0, <2>2 DEF Own
    <3> QED
      BY <2>1, <2>2, <3>1, <3>2 DEF OneCall
  <2> QED
    BY <2>3
<1>2. CASE On("aix")
  <2>0. CallsFor(of, start, t) = AixCalls(of, start, t) /\ AixCan(start, t)
    BY <1>2 DEF CallsFor, On, Refused
  <2>1. CASE t = start
    BY <2>0, <2>1 DEF AixCalls
  <2>2. CASE t # start /\ t.r = start.r /\ t.s = start.s
    <3> DEFINE c == IdCall(of, "ID_EFFECTIVE", <<t.e>>)
    <3>1. CallsFor(of, start, t) = <<c>>
      BY <2>0, <2>2 DEF AixCalls
    <3>2. /\ c.of = of /\ c.fn = "ID_EFFECTIVE" /\ KernelErrno(c) = EPERM
          /\ KernelAllows(c, start) <=> Root \/ t.e \in {start.r, start.s}
          /\ KernelResults(c, start) = {[start EXCEPT !.e = t.e]}
      BY DEF IdCall, KernelAllows, KernelResults, KernelErrno
    <3> HIDE DEF c
    <3>3. [start EXCEPT !.e = t.e] = t
      BY <1>0, <2>2
    <3>4. KernelAllows(c, start) => Root \/ Own(t) \subseteq Own(start)
      BY <2>2, <3>2 DEF Own
    <3> QED
      BY <3>1, <3>2, <3>3, <3>4 DEF OneCall
  <2>3. CASE t.e = t.r /\ t.r # start.r /\ t.s = start.s
    <3> DEFINE c == IdCall(of, "ID_REAL", <<t.e>>)
    <3>1. CallsFor(of, start, t) = <<c>>
      BY <2>0, <2>3 DEF AixCalls
    <3>2. /\ c.of = of /\ c.fn = "ID_REAL" /\ KernelErrno(c) = EPERM
          /\ KernelAllows(c, start) <=> Root
          /\ KernelResults(c, start) = {[start EXCEPT !.e = t.e, !.r = t.e]}
      BY DEF IdCall, KernelAllows, KernelResults, KernelErrno
    <3> HIDE DEF c
    <3>3. [start EXCEPT !.e = t.e, !.r = t.e] = t
      BY <1>0, <2>3
    <3> QED
      BY <3>1, <3>2, <3>3 DEF OneCall
  <2>4. CASE t # start /\ ~(t.r = start.r /\ t.s = start.s) /\ ~(t.e = t.r /\ t.r # start.r /\ t.s = start.s)
    <3> DEFINE c == IdCall(of, "ID_SAVED", <<t.e>>)
    <3>1. CallsFor(of, start, t) = <<c>>
      BY <2>0, <2>4 DEF AixCalls
    <3>2. /\ c.of = of /\ c.fn = "ID_SAVED" /\ KernelErrno(c) = EPERM
          /\ KernelAllows(c, start) <=> Root
          /\ KernelResults(c, start) = {AllSame(t.e)}
      BY DEF IdCall, KernelAllows, KernelResults, KernelErrno
    <3> HIDE DEF c
    <3>3. AllSame(t.e) = t
      BY <1>0, <2>0, <2>4 DEF AixCan, AllSame
    <3> QED
      BY <3>1, <3>2, <3>3 DEF OneCall
  <2> QED
    BY <2>1, <2>2, <2>3, <2>4
<1>3. ASSUME On("darwin") \/ On("solaris"), CallsFor(of, start, t) = ReuidCalls(of, t)
      PROVE  TwoCalls(of, start, t)
  <2> DEFINE c == IdCall(of, "setreuid", <<t.r, t.s>>)
  <2>1. CallsFor(of, start, t) = <<c, IdCall(of, "seteuid", <<t.e>>)>>
    BY <1>3 DEF ReuidCalls
  <2> HIDE DEF c
  <2>2. c = IdCall(of, "setreuid", <<t.r, t.s>>)
    BY DEF c
  <2>3. /\ c.of = of /\ c.fn = "setreuid" /\ KernelErrno(c) = EPERM
        /\ Root => KernelAllows(c, start)
        /\ KernelAllows(c, start) => Root \/ {t.r, t.s} \subseteq Own(start)
        /\ KernelResults(c, start) \subseteq Halfway(start, t)
    BY <1>0, <2>2, SetreuidCall DEF Root, Own
  <2> QED
    BY <1>3, <2>1, <2>3 DEF TwoCalls, c
<1>4. CASE On("darwin")
  BY <1>3, <1>4 DEF CallsFor, On
<1>5. CASE On("solaris") /\ ~Root
  BY <1>3, <1>5 DEF CallsFor, On
<1>6. CASE On("solaris") /\ Root
  <2> DEFINE c == IdCall(of, "PCSCRED", <<t.r, t.e, t.s>>)
  <2>1. CallsFor(of, start, t) = <<c>>
    BY <1>6 DEF CallsFor, On, ProcCall
  <2>2. /\ c.of = of /\ c.fn = "PCSCRED" /\ KernelErrno(c) = EPERM
        /\ KernelAllows(c, start) <=> Root
        /\ KernelResults(c, start) = {t}
    BY <1>0 DEF IdCall, KernelAllows, KernelResults, KernelErrno
  <2> HIDE DEF c
  <2> QED
    BY <1>6, <2>1, <2>2 DEF OneCall
<1> QED
  BY <1>1, <1>2, <1>4, <1>5, <1>6 DEF On, Systems

(***************************************************************************)
(* The identity a function asks for, once its ids were found sane.         *)
(***************************************************************************)
LEMMA AskedTypes ==
  ASSUME TypeInv, stage # "end"
  PROVE  /\ uc.uid \in Users /\ uc.gid \in Groups
         /\ uc.uid = uc.ucred.uid /\ uc.gid = uc.ucred.gid /\ uc.sups = uc.ucred.sups
         /\ uc.uids = TargetIds(edge.fn, old.uids, uc.uid)
         /\ uc.gids = TargetIds(edge.fn, old.gids, uc.gid)
         /\ uc.uids \in IdTriples(Users) /\ uc.gids \in IdTriples(Groups)
         /\ uc.ucred \in Ucreds /\ uc.sups \subseteq Groups
         /\ old.uids \in IdTriples(Users) /\ old.gids \in IdTriples(Groups)
         /\ old.sups \subseteq Groups
         /\ edge \in Edges /\ edge # None /\ edge.fn \in PrivFns
<1>1. edge.fn \in PrivFns /\ IdsAreSane(uc)
  BY DEF TypeInv, StageFits
<1>2. edge # None /\ edge \in Edges
  BY <1>1 DEF TypeInv, TypesFit, None, PrivFns
<1>3. /\ uc.ucred \in Ucreds /\ old \in Identities
      /\ uc.uid = uc.ucred.uid /\ uc.gid = uc.ucred.gid /\ uc.sups = uc.ucred.sups
      /\ uc.uids = TargetIds(edge.fn, old.uids, uc.ucred.uid)
      /\ uc.gids = TargetIds(edge.fn, old.gids, uc.ucred.gid)
  BY <1>1, <1>2 DEF TypeInv, AskedFits
<1>4. uc.uid \in Users /\ uc.gid \in Groups /\ uc.sups \subseteq Groups
  BY <1>1, <1>3, PrivAssumption DEF Ucreds, IdsAreSane
<1>5. old.uids \in IdTriples(Users) /\ old.gids \in IdTriples(Groups) /\ old.sups \subseteq Groups
  BY <1>3 DEF Identities
<1>6. uc.uids \in IdTriples(Users) /\ uc.gids \in IdTriples(Groups)
  BY <1>3, <1>4, <1>5 DEF TargetIds, SavedFor, AllSame, IdTriples
<1> QED
  BY <1>1, <1>2, <1>3, <1>4, <1>5, <1>6

(***************************************************************************)
(* A kernel call while the three ids are set: it is refused, or is the     *)
(* first of two, or leaves the ids asked for in all three places, or in    *)
(* the effective one after a setreuid.                                     *)
(***************************************************************************)
Refusing ==
  /\ UNCHANGED identity
  /\ (Fails(EPERM) /\ ~Root) \/ (Fails(EIO) /\ On("solaris"))

Going == UNCHANGED <<build, stage, uc, old, edge, dropped, retired>>

IdsSet(now, next, start, t) ==
  \/ now = start /\ next = t
  \/ /\ On("darwin") \/ On("solaris")
     /\ now \in Halfway(start, t) /\ next = [now EXCEPT !.e = t.e]

\* What is left of a sequence of two when its head is gone.
LEMMA OneOfTwo ==
  ASSUME NEW a, NEW b
  PROVE  Head(<<a, b>>) = a /\ Len(<<a, b>>) = 2 /\ Tail(<<a, b>>) = <<b>>
<1>1. <<a, b>> \in Seq({a, b}) /\ <<a, b>> # <<>> /\ Len(<<a, b>>) = 2 /\ <<b>> \in Seq({a, b})
      /\ Head(<<a, b>>) = a /\ Len(<<b>>) = 1
  OBVIOUS
<1> DEFINE p == <<a, b>>
           q == <<b>>
<1>2. p[2] = b /\ q[1] = b
  OBVIOUS
<1> HIDE DEF p, q
<1>3. /\ Tail(p) \in Seq({a, b}) /\ Len(Tail(p)) = Len(p) - 1
      /\ \A i \in 1 .. Len(p) - 1 : Tail(p)[i] = p[i + 1]
  BY <1>1, HeadTailProperties DEF p
<1>4. Len(Tail(p)) = Len(q) /\ \A i \in 1 .. Len(Tail(p)) : Tail(p)[i] = q[i]
  BY <1>1, <1>2, <1>3 DEF p, q
<1> QED
  BY <1>1, <1>3, <1>4, SeqEqual DEF p, q

\* The next call, taken apart.
LEMMA CallOfUids ==
  ASSUME NEW c, calls # <<>>, c = Head(calls), c.of = "uids", KernelCall
  PROVE  \/ /\ KernelAllows(c, uids) /\ NextCall
            /\ uids' \in KernelResults(c, uids) /\ UNCHANGED <<gids, sups>>
         \/ /\ ~KernelAllows(c, uids)
            /\ Fails(KernelErrno(c)) /\ UNCHANGED identity
         \/ c.fn = "PCSCRED" /\ Fails(EIO) /\ UNCHANGED identity
BY DEF KernelCall, SetIn

\* The same for a call on the group ids.
LEMMA CallOfGids ==
  ASSUME NEW c, calls # <<>>, c = Head(calls), c.of = "gids", KernelCall
  PROVE  \/ /\ KernelAllows(c, gids) /\ NextCall
            /\ gids' \in KernelResults(c, gids) /\ UNCHANGED <<uids, sups>>
         \/ /\ ~KernelAllows(c, gids)
            /\ Fails(KernelErrno(c)) /\ UNCHANGED identity
         \/ c.fn = "PCSCRED" /\ NextCall /\ UNCHANGED identity
BY DEF KernelCall, SetIn

\* What a kernel call of the uids stage leaves: the triple asked for, or half of it.
LEMMA UidsCall ==
  ASSUME TypeInv, stage = "uids", KernelCall
  PROVE  \/ Refusing
         \/ /\ On("darwin") \/ On("solaris")
            /\ Going /\ UNCHANGED <<gids, sups>>
            /\ calls' = <<IdCall("uids", "seteuid", <<uc.uids.e>>)>>
            /\ uids = old.uids /\ uids' \in Halfway(old.uids, uc.uids)
            /\ Root \/ Own(uids') \subseteq Own(uids)
         \/ /\ Advance /\ UNCHANGED <<gids, sups>>
            /\ IdsSet(uids, uids', old.uids, uc.uids)
            /\ Root \/ Own(uids') \subseteq Own(uids)
<1>0. /\ calls # <<>> /\ Setting("uids", uids, old.uids, uc.uids)
      /\ uc.uids \in IdTriples(Users) /\ old.uids \in IdTriples(Users)
      /\ build.os \in Systems /\ Keep \notin Users
  BY AskedTypes, PrivAssumption DEF KernelCall, TypeInv, TypesFit, CallsFit, Keep
<1>1. CASE /\ calls = CallsFor("uids", old.uids, uc.uids) /\ uids = old.uids
           /\ ~Refused("uids", old.uids, uc.uids)
  <2>1. CASE OneCall("uids", old.uids, uc.uids)
    <3> PICK c : /\ calls = <<c>> /\ c.of = "uids"
                 /\ KernelResults(c, uids) = {uc.uids} /\ KernelErrno(c) = EPERM
                 /\ Root => KernelAllows(c, uids)
                 /\ KernelAllows(c, uids) => Root \/ Own(uc.uids) \subseteq Own(uids)
                 /\ c.fn = "PCSCRED" => On("solaris")
      BY <1>1, <2>1 DEF OneCall
    <3>1. Head(calls) = c /\ Len(calls) = 1
      OBVIOUS
    <3> QED
      BY <1>1, <3>1, CallOfUids DEF NextCall, Refusing, IdsSet
  <2>2. CASE TwoCalls("uids", old.uids, uc.uids)
    <3>1. PICK c : /\ calls = <<c, IdCall("uids", "seteuid", <<uc.uids.e>>)>>
                   /\ c.of = "uids" /\ c.fn # "PCSCRED" /\ (On("darwin") \/ On("solaris"))
                   /\ KernelResults(c, uids) \subseteq Halfway(uids, uc.uids)
                   /\ KernelErrno(c) = EPERM /\ (Root => KernelAllows(c, uids))
                   /\ KernelAllows(c, uids) => Root \/ {uc.uids.r, uc.uids.s} \subseteq Own(uids)
      BY <1>1, <2>2 DEF TwoCalls
    <3> DEFINE d == IdCall("uids", "seteuid", <<uc.uids.e>>)
    <3>2. calls = <<c, d>>
      BY <3>1
    <3> HIDE DEF d
    <3>3. Head(calls) = c /\ Len(calls) = 2 /\ Tail(calls) = <<d>>
      <4>1. Head(<<c, d>>) = c /\ Len(<<c, d>>) = 2 /\ Tail(<<c, d>>) = <<d>>
        BY OneOfTwo, Zenon
      <4> QED
        BY <3>2, <4>1, Zenon
    <3>4. ASSUME UNCHANGED <<gids, sups>>, uids' \in KernelResults(c, uids), KernelAllows(c, uids),
                 NextCall
          PROVE  /\ Going /\ calls' = <<d>> /\ uids' \in Halfway(old.uids, uc.uids)
                 /\ Root \/ Own(uids') \subseteq Own(uids)
      <4>1. Going /\ calls' = <<d>>
        <5>1. Len(calls) # 1
          BY <3>3
        <5> QED
          BY <3>3, <3>4, <5>1, Zenon DEF NextCall, Going
      <4>2. uids' \in Halfway(old.uids, uc.uids)
        BY <1>1, <3>1, <3>4
      <4>3. Root \/ Own(uids') \subseteq Own(uids)
        BY <1>1, <3>1, <3>4, <4>2 DEF Halfway, Own
      <4> QED
        BY <4>1, <4>2, <4>3
    <3>5. KernelErrno(c) = EPERM /\ c.fn # "PCSCRED" /\ (Root => KernelAllows(c, uids))
      BY <3>1
    <3> QED
      BY <1>0, <1>1, <3>1, <3>3, <3>4, <3>5, CallOfUids DEF Refusing, d
  <2>3. ~(CallsFor("uids", old.uids, uc.uids) = <<>>)
    BY <1>0, <1>1
  <2> QED
    BY <1>0, <1>1, <2>1, <2>2, <2>3, CallShapes
<1>2. CASE /\ On("darwin") \/ On("solaris")
           /\ calls = <<IdCall("uids", "seteuid", <<uc.uids.e>>)>>
           /\ uids \in Halfway(old.uids, uc.uids)
  <2> DEFINE c == IdCall("uids", "seteuid", <<uc.uids.e>>)
  <2>1. /\ c.of = "uids" /\ c.fn = "seteuid"
        /\ KernelAllows(c, uids) <=> uc.uids.e # Keep /\ (Root \/ uc.uids.e \in Own(uids))
        /\ KernelResults(c, uids) = {[uids EXCEPT !.e = uc.uids.e]}
        /\ KernelErrno(c) = IF uc.uids.e = Keep THEN EINVAL ELSE EPERM
    BY SeteuidCall
  <2>2. uc.uids.e # Keep
    BY <1>0 DEF IdTriples
  <2>3. calls = <<c>>
    BY <1>2
  <2> HIDE DEF c
  <2>4. Head(calls) = c /\ Len(calls) = 1
    BY <2>3
  <2>5. uids \in IdTriples(Users)
    BY DEF TypeInv, TypesFit
  <2> QED
    BY <1>2, <2>1, <2>2, <2>4, <2>5, CallOfUids DEF NextCall, Refusing, IdsSet, Own, IdTriples
<1> QED
  BY <1>0, <1>1, <1>2 DEF Setting

\* The same for the groups, where a failed write to /proc goes unnoticed.
LEMMA GidsCall ==
  ASSUME TypeInv, stage = "gids", KernelCall
  PROVE  \/ Refusing
         \/ /\ On("darwin") \/ On("solaris")
            /\ Going /\ UNCHANGED <<uids, sups>>
            /\ calls' = <<IdCall("gids", "seteuid", <<uc.gids.e>>)>>
            /\ gids = old.gids /\ gids' \in Halfway(old.gids, uc.gids)
            /\ Root \/ Own(gids') \subseteq Own(gids)
         \/ /\ Advance /\ UNCHANGED <<uids, sups>>
            /\ IdsSet(gids, gids', old.gids, uc.gids)
            /\ Root \/ Own(gids') \subseteq Own(gids)
         \/ Advance /\ UNCHANGED identity
<1>0. /\ calls # <<>> /\ Setting("gids", gids, old.gids, uc.gids)
      /\ uc.gids \in IdTriples(Groups) /\ old.gids \in IdTriples(Groups)
      /\ build.os \in Systems /\ Keep \notin Groups
  BY AskedTypes, PrivAssumption DEF KernelCall, TypeInv, TypesFit, CallsFit, Keep
<1>1. CASE /\ calls = CallsFor("gids", old.gids, uc.gids) /\ gids = old.gids
           /\ ~Refused("gids", old.gids, uc.gids)
  <2>1. CASE OneCall("gids", old.gids, uc.gids)
    <3> PICK c : /\ calls = <<c>> /\ c.of = "gids"
                 /\ KernelResults(c, gids) = {uc.gids} /\ KernelErrno(c) = EPERM
                 /\ Root => KernelAllows(c, gids)
                 /\ KernelAllows(c, gids) => Root \/ Own(uc.gids) \subseteq Own(gids)
                 /\ c.fn = "PCSCRED" => On("solaris")
      BY <1>1, <2>1 DEF OneCall
    <3>1. Head(calls) = c /\ Len(calls) = 1
      OBVIOUS
    <3> QED
      BY <1>1, <3>1, CallOfGids DEF NextCall, Refusing, IdsSet
  <2>2. CASE TwoCalls("gids", old.gids, uc.gids)
    <3>1. PICK c : /\ calls = <<c, IdCall("gids", "seteuid", <<uc.gids.e>>)>>
                   /\ c.of = "gids" /\ c.fn # "PCSCRED" /\ (On("darwin") \/ On("solaris"))
                   /\ KernelResults(c, gids) \subseteq Halfway(gids, uc.gids)
                   /\ KernelErrno(c) = EPERM /\ (Root => KernelAllows(c, gids))
                   /\ KernelAllows(c, gids) => Root \/ {uc.gids.r, uc.gids.s} \subseteq Own(gids)
      BY <1>1, <2>2 DEF TwoCalls
    <3> DEFINE d == IdCall("gids", "seteuid", <<uc.gids.e>>)
    <3>2. calls = <<c, d>>
      BY <3>1
    <3> HIDE DEF d
    <3>3. Head(calls) = c /\ Len(calls) = 2 /\ Tail(calls) = <<d>>
      <4>1. Head(<<c, d>>) = c /\ Len(<<c, d>>) = 2 /\ Tail(<<c, d>>) = <<d>>
        BY OneOfTwo, Zenon
      <4> QED
        BY <3>2, <4>1, Zenon
    <3>4. ASSUME UNCHANGED <<uids, sups>>, gids' \in KernelResults(c, gids), KernelAllows(c, gids),
                 NextCall
          PROVE  /\ Going /\ calls' = <<d>> /\ gids' \in Halfway(old.gids, uc.gids)
                 /\ Root \/ Own(gids') \subseteq Own(gids)
      <4>1. Going /\ calls' = <<d>>
        <5>1. Len(calls) # 1
          BY <3>3
        <5> QED
          BY <3>3, <3>4, <5>1, Zenon DEF NextCall, Going
      <4>2. gids' \in Halfway(old.gids, uc.gids)
        BY <1>1, <3>1, <3>4
      <4>3. Root \/ Own(gids') \subseteq Own(gids)
        BY <1>1, <3>1, <3>4, <4>2 DEF Halfway, Own
      <4> QED
        BY <4>1, <4>2, <4>3
    <3>5. KernelErrno(c) = EPERM /\ c.fn # "PCSCRED" /\ (Root => KernelAllows(c, gids))
      BY <3>1
    <3> QED
      BY <1>0, <1>1, <3>1, <3>3, <3>4, <3>5, CallOfGids DEF Refusing, d
  <2>3. ~(CallsFor("gids", old.gids, uc.gids) = <<>>)
    BY <1>0, <1>1
  <2> QED
    BY <1>0, <1>1, <2>1, <2>2, <2>3, CallShapes
<1>2. CASE /\ On("darwin") \/ On("solaris")
           /\ calls = <<IdCall("gids", "seteuid", <<uc.gids.e>>)>>
           /\ gids \in Halfway(old.gids, uc.gids)
  <2> DEFINE c == IdCall("gids", "seteuid", <<uc.gids.e>>)
  <2>1. /\ c.of = "gids" /\ c.fn = "seteuid"
        /\ KernelAllows(c, gids) <=> uc.gids.e # Keep /\ (Root \/ uc.gids.e \in Own(gids))
        /\ KernelResults(c, gids) = {[gids EXCEPT !.e = uc.gids.e]}
        /\ KernelErrno(c) = IF uc.gids.e = Keep THEN EINVAL ELSE EPERM
    BY SeteuidCall
  <2>2. uc.gids.e # Keep
    BY <1>0 DEF IdTriples
  <2>3. calls = <<c>>
    BY <1>2
  <2> HIDE DEF c
  <2>4. Head(calls) = c /\ Len(calls) = 1
    BY <2>3
  <2>5. gids \in IdTriples(Groups)
    BY DEF TypeInv, TypesFit
  <2> QED
    BY <1>2, <2>1, <2>2, <2>4, <2>5, CallOfGids DEF NextCall, Refusing, IdsSet, Own, IdTriples
<1> QED
  BY <1>0, <1>1, <1>2 DEF Setting

\* restore_privileges sets one effective id at a time.
LEMMA EuidCall ==
  ASSUME TypeInv, stage = "seteuid", KernelCall
  PROVE  \/ Fails(EPERM) /\ UNCHANGED identity /\ ~Root /\ uc.uid \notin Own(uids)
         \/ /\ Advance /\ UNCHANGED <<gids, sups>>
            /\ uids' = [uids EXCEPT !.e = uc.uid] /\ (Root \/ uc.uid \in Own(uids))
<1> DEFINE c == IdCall("uids", "seteuid", <<uc.uid>>)
<1>1. /\ c.of = "uids" /\ c.fn = "seteuid"
      /\ KernelAllows(c, uids) <=> uc.uid # Keep /\ (Root \/ uc.uid \in Own(uids))
      /\ KernelResults(c, uids) = {[uids EXCEPT !.e = uc.uid]}
      /\ KernelErrno(c) = IF uc.uid = Keep THEN EINVAL ELSE EPERM
  BY SeteuidCall
<1>2. calls # <<>> /\ calls = <<c>> /\ uc.uid # Keep
  BY DEF KernelCall, TypeInv, CallsFit, StageFits, IdsAreSane
<1> HIDE DEF c
<1>3. Head(calls) = c /\ Len(calls) = 1
  BY <1>2
<1> QED
  BY <1>1, <1>2, <1>3, CallOfUids DEF NextCall, Root

\* The same for the effective gid.
LEMMA EgidCall ==
  ASSUME TypeInv, stage = "setegid", KernelCall
  PROVE  \/ Fails(EPERM) /\ UNCHANGED identity /\ ~Root /\ uc.gid \notin Own(gids)
         \/ /\ Advance /\ UNCHANGED <<uids, sups>>
            /\ gids' = [gids EXCEPT !.e = uc.gid] /\ (Root \/ uc.gid \in Own(gids))
<1> DEFINE c == IdCall("gids", "seteuid", <<uc.gid>>)
<1>1. /\ c.of = "gids" /\ c.fn = "seteuid"
      /\ KernelAllows(c, gids) <=> uc.gid # Keep /\ (Root \/ uc.gid \in Own(gids))
      /\ KernelResults(c, gids) = {[gids EXCEPT !.e = uc.gid]}
      /\ KernelErrno(c) = IF uc.gid = Keep THEN EINVAL ELSE EPERM
  BY SeteuidCall
<1>2. calls # <<>> /\ calls = <<c>> /\ uc.gid # Keep
  BY DEF KernelCall, TypeInv, CallsFit, StageFits, IdsAreSane
<1> HIDE DEF c
<1>3. Head(calls) = c /\ Len(calls) = 1
  BY <1>2
<1> QED
  BY <1>1, <1>2, <1>3, CallOfGids DEF NextCall, Root
-----------------------------------------------------------------------------
(***************************************************************************)
(* Type correctness.  A function that fails, or goes on to its next stage, *)
(* leaves what TypeInv says true, provided a stage touched only its ids.   *)
(***************************************************************************)
IdentityTypes ==
  /\ uids' \in IdTriples(Users) /\ gids' \in IdTriples(Groups) /\ sups' \subseteq Groups

\* A function that fails leaves the types right, if the stage did.
LEMMA FailsKeepsTypes ==
  ASSUME TypeInv, stage # "end", NEW err \in Errnos, Fails(err), IdentityTypes
  PROVE  TypeInv'
<1>1. edge \in Edges /\ edge # None /\ edge.fn \in PrivFns
  BY AskedTypes
<1>2. /\ edge' = [edge EXCEPT !.value = -1, !.err = err]
      /\ stage' = "end" /\ calls' = <<>>
      /\ UNCHANGED <<build, uc, old, dropped, retired>>
  BY DEF Fails, Record
<1>3. /\ edge' \in Edges /\ edge'.fn = edge.fn /\ edge'.value = -1 /\ edge' # None
  BY <1>1, <1>2 DEF Edges, None, PrivFns
<1>4. TypesFit'
  BY <1>2, <1>3 DEF IdentityTypes, TypeInv, TypesFit
<1>5. StageFits'
  BY <1>2, <1>3 DEF StageFits, Running
<1>6. AskedFits'
  BY <1>1, <1>2, <1>3 DEF TypeInv, AskedFits
<1>7. CallsFit' /\ UntouchedFits'
  BY <1>2 DEF CallsFit, UntouchedFits
<1> QED
  BY <1>4, <1>5, <1>6, <1>7 DEF TypeInv

\* So does a stage that ends well.
LEMMA AdvanceKeepsTypes ==
  ASSUME TypeInv, stage # "end", Advance, IdentityTypes,
         stage \in {"sups", "gids"} => UNCHANGED uids,
         stage = "sups" => UNCHANGED gids
  PROVE  TypeInv'
<1>1. /\ edge \in Edges /\ edge # None /\ edge.fn \in PrivFns /\ uc.ucred \in Ucreds
      /\ IdsAreSane(uc) /\ edge.value = Running
  BY AskedTypes DEF TypeInv, StageFits
<1>2. /\ stage' = Following(edge.fn, stage) /\ calls' = <<>>
      /\ edge' = IF stage' = "end" THEN [edge EXCEPT !.value = 0, !.err = NoErr] ELSE edge
      /\ retired' = IF stage' = "end" /\ edge.fn = "dropprivperm" /\ uc.uid # 0
                    THEN uc.ucred ELSE retired
      /\ UNCHANGED <<build, uc, old, dropped>>
  BY DEF Advance, Record
<1>3. /\ edge' \in Edges /\ edge'.fn = edge.fn /\ edge' # None
      /\ edge'.value = IF stage' = "end" THEN 0 ELSE Running
  BY <1>1, <1>2 DEF Edges, None, PrivFns, Errnos
<1>4. TypesFit'
  BY <1>1, <1>2, <1>3 DEF IdentityTypes, TypeInv, TypesFit
<1>5. StageFits'
  BY <1>1, <1>2, <1>3 DEF TypeInv, StageFits, Running, Following, On
<1>6. AskedFits'
  BY <1>1, <1>2, <1>3 DEF TypeInv, AskedFits
<1>7. CallsFit'
  <2>1. /\ stage' = "uids" => stage = "gids"
        /\ stage' = "gids" => stage = "sups" /\ edge.fn # "restorepriv"
    BY <1>2 DEF TypeInv, StageFits, Following
  <2>2. /\ stage' = "uids" => uids' = old.uids
        /\ stage' = "gids" => gids' = old.gids
    BY <2>1 DEF TypeInv, StageFits, UntouchedFits
  <2> QED
    BY <1>2, <2>2 DEF CallsFit, Setting
<1>8. UntouchedFits'
  BY <1>2, <1>3 DEF TypeInv, StageFits, UntouchedFits, Following
<1> QED
  BY <1>4, <1>5, <1>6, <1>7, <1>8 DEF TypeInv

\* A process begins with the right types and no function running.
LEMMA InitTypes == Init => TypeInv
<1> SUFFICES ASSUME Init PROVE TypeInv
  OBVIOUS
<1>1. PICK b \in Starts : /\ build = b.build /\ uids = b.uids
                          /\ gids = b.gids   /\ sups = b.sups
  BY DEF Init
<1>2. TypesFit
  BY <1>1, PrivAssumption DEF Init, TypesFit
<1>3. edge.fn = "none" /\ edge.value = 0
  BY DEF Init, None
<1> QED
  BY <1>2, <1>3 DEF Init, TypeInv, StageFits, AskedFits, CallsFit, UntouchedFits, PrivFns, Running

\* A function is called.
LEMMA BeginKeepsTypes ==
  ASSUME TypeInv, NEW fn \in PrivFns, NEW uid \in UidParams, NEW u \in UcredsFor(uid), Begin(fn, u)
  PROVE  TypeInv'
<1> DEFINE called == [fn |-> fn, params |-> <<u.uid>>, value |-> Running, err |-> NoErr]
<1>1. u \in Ucreds
  <2>1. CASE build.full
    <3>1. PICK g \in GroupParams :
            u = [uid |-> uid, gid |-> g.gid, sups |-> g.sups, sorted |-> g.sorted]
      BY <2>1 DEF UcredsFor
    <3>2. g \in [gid : Groups \cup {Keep}, sups : SUBSET Groups, sorted : BOOLEAN]
      BY PrivAssumption
    <3> QED
      BY <3>1, <3>2 DEF Ucreds
  <2>2. CASE ~build.full
    <3>1. u = [uid |-> uid, gid |-> gids.e, sups |-> sups, sorted |-> TRUE]
      BY <2>2 DEF UcredsFor
    <3>2. gids.e \in Groups /\ sups \in SUBSET Groups
      BY DEF TypeInv, TypesFit, IdTriples
    <3> QED
      BY <3>1, <3>2 DEF Ucreds
  <2> QED
    BY <2>1, <2>2
<1>2. /\ edge = None /\ old' = Identity /\ uc' = Asked(fn, u)
      /\ dropped' = IF fn = "restorepriv" THEN dropped ELSE None
      /\ UNCHANGED <<build, identity, calls, retired>>
      /\ \/ edge' = Record(called, -1, Stale) /\ UNCHANGED stage
         \/ edge' = Record(called, -1, EINVAL) /\ UNCHANGED stage
         \/ edge' = Record(called, -1, ENOENT) /\ UNCHANGED stage
         \/ edge' = called /\ stage' = First(fn) /\ IdsAreSane(u)
  BY DEF Begin, Idle
<1>3. stage = "end" /\ calls = <<>>
  BY <1>2 DEF TypeInv, StageFits, CallsFit, None, Running
<1>4. <<u.uid>> \in ParamLists
  <2>1. u.uid \in UidParams
    BY <1>1 DEF Ucreds
  <2>2. <<u.uid>> \in [1 .. 1 -> UidParams]
    BY <2>1
  <2> QED
    BY <2>2 DEF ParamLists
<1>5. called \in Edges
  BY <1>4 DEF Edges, Errnos
<1>6. edge' \in Edges /\ edge'.fn = fn /\ (edge'.value = Running <=> stage' # "end")
  <2> HIDE DEF called
  <2>1. called.fn = fn /\ called.value = Running
    BY DEF called
  <2>2. \A err \in Errnos : [called EXCEPT !.value = -1, !.err = err] \in Edges
    BY <1>5 DEF Edges
  <2>3. \A err : /\ [called EXCEPT !.value = -1, !.err = err].fn = fn
                 /\ [called EXCEPT !.value = -1, !.err = err].value = -1
    BY <1>5, <2>1 DEF Edges
  <2>4. CASE stage' = First(fn) /\ edge' = called
    BY <1>5, <2>1, <2>4 DEF First
  <2>5. CASE \E err \in {Stale, EINVAL, ENOENT} : edge' = Record(called, -1, err) /\ UNCHANGED stage
    <3>1. PICK err \in Errnos : edge' = [called EXCEPT !.value = -1, !.err = err] /\ UNCHANGED stage
      BY <2>5 DEF Record, Errnos
    <3>2. edge'.fn = fn /\ edge'.value = -1
      BY <2>3, <3>1
    <3>3. edge' \in Edges
      BY <2>2, <3>1
    <3> QED
      BY <1>3, <3>1, <3>2, <3>3 DEF Running
  <2> QED
    BY <1>2, <2>4, <2>5
<1>7. TypesFit'
  BY <1>2, <1>6 DEF TypeInv, TypesFit, identity
<1>8. AskedFits'
  <2>1. edge' # None /\ edge'.fn \in PrivFns
    BY <1>6 DEF None, PrivFns
  <2>2. old' = Identity /\ Identity \in Identities
    BY <1>2 DEF TypeInv, TypesFit, Identity, Identities
  <2>3. uc' = [ucred |-> u, uid |-> u.uid, gid |-> u.gid, sups |-> u.sups,
               uids |-> TargetIds(edge'.fn, old'.uids, u.uid),
               gids |-> TargetIds(edge'.fn, old'.gids, u.gid)]
    BY <1>2, <1>6 DEF Asked, Identity
  <2> QED
    BY <1>1, <2>1, <2>2, <2>3 DEF AskedFits
<1>9. stage' \in {"end", First(fn)} /\ (stage' # "end" => IdsAreSane(uc'))
  BY <1>2, <1>3 DEF IdsAreSane, Asked
<1>10. StageFits'
  BY <1>2, <1>6, <1>9 DEF StageFits, First, identity
<1>11. CallsFit'
  BY <1>2, <1>3, <1>9 DEF CallsFit, Setting, First, identity, Identity
<1>12. UntouchedFits'
  BY <1>2, <1>9 DEF UntouchedFits, identity, Identity, First
<1> QED
  BY <1>7, <1>8, <1>10, <1>11, <1>12 DEF TypeInv

\* The caller takes a result.
LEMMA ReturnKeepsTypes ==
  ASSUME TypeInv, Return
  PROVE  TypeInv'
<1>1. /\ stage = "end" /\ calls = <<>> /\ edge # None
      /\ stage' = "end" /\ calls' = <<>> /\ edge' = None /\ old' = None /\ uc' = None
      /\ dropped' \in {old, None} /\ UNCHANGED <<build, identity, retired>>
  BY DEF Return, Returned, TypeInv, StageFits, CallsFit
<1>2. edge'.fn = "none" /\ edge'.value = 0
  BY <1>1 DEF None
<1>3. TypesFit'
  BY <1>1 DEF TypeInv, TypesFit, AskedFits, identity
<1> QED
  BY <1>1, <1>2, <1>3 DEF TypeInv, StageFits, AskedFits, CallsFit, UntouchedFits, PrivFns, Running

\* A direct call of the kernel.
LEMMA DirectKeepsTypes ==
  ASSUME TypeInv, NEW fn \in DirectFns, NEW args \in [1 .. Arity(fn) -> UidParams],
         DirectCall(fn, args)
  PROVE  TypeInv'
<1> DEFINE c == SetIdCall(fn, args)
           e == [fn |-> fn, params |-> args, value |-> Running, err |-> NoErr]
<1>1. /\ edge = None /\ old' = Identity /\ dropped' = None
      /\ UNCHANGED <<build, gids, sups, stage, calls, uc, retired>>
      /\ \/ /\ KernelAllows(c, uids) /\ uids' \in KernelResults(c, uids)
            /\ edge' = Record(e, 0, NoErr)
         \/ /\ edge' = Record(e, -1, KernelErrno(c)) /\ UNCHANGED uids
  BY DEF DirectCall, Idle
<1>2. stage = "end" /\ calls = <<>> /\ uc = None
  BY <1>1 DEF TypeInv, StageFits, CallsFit, AskedFits, None, Running, PrivFns
<1>3. fn \in SetUidFns /\ fn \notin PrivFns
  BY DEF DirectFns, SetUidFns, PrivFns
<1>4. edge' \in Edges /\ edge'.fn = fn /\ edge'.value \in {0, -1}
  <2>1. args \in ParamLists
    BY <1>3 DEF ParamLists, Arity, SetUidFns
  <2>2. e \in Edges
    BY <1>3, <2>1 DEF Edges, Errnos
  <2>3. KernelErrno(c) \in Errnos
    BY DEF KernelErrno, Errnos
  <2> HIDE DEF e, c
  <2>4. e.fn = fn
    BY DEF e
  <2> QED
    BY <1>1, <2>2, <2>3, <2>4 DEF Record, Edges, Errnos
<1>5. uids' \in IdTriples(Users)
  <2>0. UidParams \subseteq Users \cup {Keep} /\ uids \in IdTriples(Users)
    BY PrivAssumption DEF TypeInv, TypesFit
  <2>1. CASE UNCHANGED uids
    BY <2>0, <2>1
  <2>2. ASSUME KernelAllows(c, uids), uids' \in KernelResults(c, uids)
        PROVE  uids' \in IdTriples(Users)
    <3>0. c.fn = fn /\ c.args = args
      BY DEF SetIdCall
    <3> HIDE DEF c
    <3>1. CASE fn = "setuid"
      BY <2>0, <2>2, <3>0, <3>1
      DEF KernelAllows, KernelResults, Allowed, After, Arity, IdTriples, AllSame
    <3>2. CASE fn = "seteuid"
      BY <2>0, <2>2, <3>0, <3>2
      DEF KernelAllows, KernelResults, Allowed, After, Arity, IdTriples
    <3>3. CASE fn = "setreuid"
      BY <2>0, <2>2, <3>0, <3>3 DEF KernelResults, After, Arity, IdTriples, New
    <3>4. CASE fn = "setresuid"
      BY <2>0, <2>2, <3>0, <3>4 DEF KernelResults, After, Arity, IdTriples, New
    <3> QED
      BY <1>3, <3>1, <3>2, <3>3, <3>4 DEF SetUidFns
  <2> QED
    BY <1>1, <2>1, <2>2
<1>6. edge' # None /\ edge'.fn \notin PrivFns
  BY <1>3, <1>4 DEF None, SetUidFns
<1>7. old' \in Identities
  BY <1>1 DEF TypeInv, TypesFit, Identity, Identities
<1>8. TypesFit'
  BY <1>1, <1>4, <1>5 DEF TypeInv, TypesFit
<1>9. stage' = "end" /\ calls' = <<>> /\ uc' = None
  BY <1>1, <1>2
<1> HIDE DEF c, e
<1> QED
  BY <1>4, <1>6, <1>7, <1>8, <1>9
  DEF TypeInv, StageFits, AskedFits, CallsFit, UntouchedFits, Running

\* The stages that make no kernel call, or begin to.
LEMMA SupsKeepsTypes ==
  ASSUME TypeInv, SetSups
  PROVE  TypeInv'
<1>1. stage = "sups" /\ uc.sups \subseteq Groups
  BY AskedTypes DEF SetSups, Stage
<1>2. IdentityTypes /\ UNCHANGED <<uids, gids>>
  BY <1>1 DEF SetSups, IdentityTypes, TypeInv, TypesFit
<1>3. Advance \/ Fails(EPERM)
  BY DEF SetSups
<1> QED
  BY <1>1, <1>2, <1>3, FailsKeepsTypes, AdvanceKeepsTypes DEF Errnos

\* The stages that set all three ids of a kind.
LEMMA SettingKeepsTypes ==
  ASSUME TypeInv, SetUids \/ SetGids
  PROVE  TypeInv'
<1>1. stage # "end" /\ calls = <<>> /\ UNCHANGED identity /\ IdentityTypes
  BY DEF SetUids, SetGids, SetIdsStage, Stage, identity, IdentityTypes, TypeInv, TypesFit
<1>2. ASSUME NEW err \in Errnos, Fails(err) PROVE TypeInv'
  BY <1>1, <1>2, FailsKeepsTypes
<1>3. CASE Advance
  BY <1>1, <1>3, AdvanceKeepsTypes DEF identity
<1>4. CASE SetUids /\ ~Refused("uids", uids, uc.uids) /\ calls' # <<>> /\ Going
           /\ calls' = CallsFor("uids", uids, uc.uids)
  <2>1. stage = "uids" /\ uids = old.uids
    BY <1>4 DEF SetUids, SetIdsStage, Stage, TypeInv, CallsFit, Setting
  <2>2. CallsFit'
    BY <1>1, <1>4, <2>1
    DEF CallsFit, Setting, Going, identity, Refused, CallsFor, AixCan, AixCalls, On, Root
  <2> QED
    BY <1>1, <1>4, <2>2
    DEF TypeInv, TypesFit, StageFits, AskedFits, UntouchedFits, Going, identity, On
<1>5. CASE SetGids /\ ~Refused("gids", gids, uc.gids) /\ calls' # <<>> /\ Going
           /\ calls' = CallsFor("gids", gids, uc.gids)
  <2>1. stage = "gids" /\ gids = old.gids
    BY <1>5 DEF SetGids, SetIdsStage, Stage, TypeInv, CallsFit, Setting
  <2>2. CallsFit'
    BY <1>1, <1>5, <2>1
    DEF CallsFit, Setting, Going, identity, Refused, CallsFor, AixCan, AixCalls, On, Root
  <2> QED
    BY <1>1, <1>5, <2>2
    DEF TypeInv, TypesFit, StageFits, AskedFits, UntouchedFits, Going, identity, On
<1> QED
  BY <1>2, <1>3, <1>4, <1>5 DEF SetUids, SetGids, SetIdsStage, Going, Errnos

\* The stages that restore one effective id.
LEMMA RestoringKeepsTypes ==
  ASSUME TypeInv, RestoreEuid \/ RestoreEgid
  PROVE  TypeInv'
<1>1. /\ stage \in {"seteuid", "setegid"} /\ calls = <<>> /\ UNCHANGED identity /\ IdentityTypes
      /\ RestoreEuid => stage = "seteuid"
      /\ RestoreEgid => stage = "setegid"
  BY DEF RestoreEuid, RestoreEgid, SetOne, Stage, identity, IdentityTypes, TypeInv, TypesFit
<1>2. CASE Advance
  BY <1>1, <1>2, AdvanceKeepsTypes DEF identity
<1>3. CASE RestoreEuid /\ Going /\ calls' = <<IdCall("uids", "seteuid", <<uc.uid>>)>>
  <2>1. CallsFit'
    BY <1>1, <1>3 DEF CallsFit, Going, RestoreEuid, SetOne, Stage
  <2> QED
    BY <1>1, <1>3, <2>1
    DEF TypeInv, TypesFit, StageFits, AskedFits, UntouchedFits, Going, identity, On
<1>4. CASE RestoreEgid /\ Going /\ calls' = <<IdCall("gids", "seteuid", <<uc.gid>>)>>
  <2>1. CallsFit'
    BY <1>1, <1>4 DEF CallsFit, Going, RestoreEgid, SetOne, Stage
  <2> QED
    BY <1>1, <1>4, <2>1
    DEF TypeInv, TypesFit, StageFits, AskedFits, UntouchedFits, Going, identity, On
<1> QED
  BY <1>2, <1>3, <1>4 DEF RestoreEuid, RestoreEgid, SetOne, Going

\* The looks at what the process has become.
LEMMA VerifyKeepsTypes ==
  ASSUME TypeInv, Verify \/ VerifyFsIds
  PROVE  TypeInv'
<1>1. stage \in {"verify", "fsids"} /\ UNCHANGED identity /\ IdentityTypes
  BY DEF Verify, VerifyFsIds, Stage, identity, IdentityTypes, TypeInv, TypesFit
<1>2. Advance \/ \E err \in Errnos : Fails(err)
  BY DEF Verify, VerifyFsIds, Errnos
<1> QED
  BY <1>1, <1>2, FailsKeepsTypes, AdvanceKeepsTypes DEF identity

\* A kernel call is made.
LEMMA CallKeepsTypes ==
  ASSUME TypeInv, KernelCall
  PROVE  TypeInv'
<1>1. CASE stage = "uids"
  <2>1. /\ uc.uids \in IdTriples(Users) /\ old.uids \in IdTriples(Users)
        /\ uids \in IdTriples(Users) /\ gids \in IdTriples(Groups) /\ sups \subseteq Groups
    BY <1>1, AskedTypes DEF TypeInv, TypesFit
  <2>2. Halfway(old.uids, uc.uids) \subseteq IdTriples(Users)
    BY <2>1 DEF Halfway, IdTriples
  <2>3. IdsSet(uids, uids', old.uids, uc.uids) => uids' \in IdTriples(Users)
    BY <2>1 DEF IdsSet, IdTriples
  <2>4. CASE Refusing
    BY <1>1, <2>1, <2>4, FailsKeepsTypes DEF Refusing, IdentityTypes, identity, Errnos
  <2>5. CASE /\ On("darwin") \/ On("solaris")
             /\ Going /\ UNCHANGED <<gids, sups>>
             /\ calls' = <<IdCall("uids", "seteuid", <<uc.uids.e>>)>>
             /\ uids' \in Halfway(old.uids, uc.uids)
    <3>1. CallsFit'
      BY <1>1, <2>5 DEF Going, CallsFit, Setting, On, Halfway
    <3>2. TypesFit'
      BY <2>1, <2>2, <2>5 DEF TypeInv, TypesFit, Going
    <3> QED
      BY <1>1, <2>5, <3>1, <3>2 DEF TypeInv, StageFits, AskedFits, UntouchedFits, Going, On
  <2>6. CASE Advance /\ UNCHANGED <<gids, sups>> /\ uids' \in IdTriples(Users)
    BY <1>1, <2>1, <2>6, AdvanceKeepsTypes DEF IdentityTypes
  <2> QED
    BY <1>1, <2>3, <2>4, <2>5, <2>6, UidsCall
<1>2. CASE stage = "gids"
  <2>1. /\ uc.gids \in IdTriples(Groups) /\ old.gids \in IdTriples(Groups)
        /\ gids \in IdTriples(Groups) /\ uids \in IdTriples(Users) /\ sups \subseteq Groups
    BY <1>2, AskedTypes DEF TypeInv, TypesFit
  <2>2. Halfway(old.gids, uc.gids) \subseteq IdTriples(Groups)
    BY <2>1 DEF Halfway, IdTriples
  <2>3. IdsSet(gids, gids', old.gids, uc.gids) => gids' \in IdTriples(Groups)
    BY <2>1 DEF IdsSet, IdTriples
  <2>4. CASE Refusing
    BY <1>2, <2>1, <2>4, FailsKeepsTypes DEF Refusing, IdentityTypes, identity, Errnos
  <2>5. CASE /\ On("darwin") \/ On("solaris")
             /\ Going /\ UNCHANGED <<uids, sups>>
             /\ calls' = <<IdCall("gids", "seteuid", <<uc.gids.e>>)>>
             /\ gids' \in Halfway(old.gids, uc.gids)
    <3>1. CallsFit'
      BY <1>2, <2>5 DEF Going, CallsFit, Setting, On, Halfway
    <3>2. TypesFit'
      BY <2>1, <2>2, <2>5 DEF TypeInv, TypesFit, Going
    <3> QED
      BY <1>2, <2>5, <3>1, <3>2 DEF TypeInv, StageFits, AskedFits, UntouchedFits, Going, On
  <2>6. CASE Advance /\ UNCHANGED <<uids, sups>> /\ gids' \in IdTriples(Groups)
    BY <1>2, <2>1, <2>6, AdvanceKeepsTypes DEF IdentityTypes
  <2>7. CASE Advance /\ UNCHANGED identity
    BY <1>2, <2>1, <2>7, AdvanceKeepsTypes DEF IdentityTypes, identity
  <2> QED
    BY <1>2, <2>3, <2>4, <2>5, <2>6, <2>7, GidsCall
<1>3. CASE stage = "seteuid"
  <2>1. uc.uid \in Users /\ IdentityTypes
    BY <1>3, AskedTypes, EuidCall DEF IdentityTypes, identity, TypeInv, TypesFit, IdTriples
  <2> QED
    BY <1>3, <2>1, EuidCall, FailsKeepsTypes, AdvanceKeepsTypes DEF Errnos
<1>4. CASE stage = "setegid"
  <2>1. uc.gid \in Groups /\ IdentityTypes
    BY <1>4, AskedTypes, EgidCall DEF IdentityTypes, identity, TypeInv, TypesFit, IdTriples
  <2> QED
    BY <1>4, <2>1, EgidCall, FailsKeepsTypes, AdvanceKeepsTypes DEF Errnos
<1> QED
  BY <1>1, <1>2, <1>3, <1>4 DEF KernelCall, TypeInv, CallsFit

\* Every action keeps the types.
LEMMA TypeStep == TypeInv /\ [Next]_vars => TypeInv'
<1> SUFFICES ASSUME TypeInv, [Next]_vars PROVE TypeInv'
  OBVIOUS
<1>1. CASE UNCHANGED vars
  <2>1. /\ UNCHANGED <<build, stage, calls, uc, old, edge, dropped, retired>>
        /\ UNCHANGED <<uids, gids, sups>>
    BY <1>1 DEF vars
  <2>2. TypesFit' /\ StageFits' /\ AskedFits' /\ UntouchedFits'
    BY <2>1 DEF TypeInv, TypesFit, StageFits, AskedFits, UntouchedFits, On
  <2>3. CallsFit'
    BY <2>1 DEF TypeInv, CallsFit, Setting, On, Root, Refused, CallsFor, AixCan, AixCalls
  <2> QED
    BY <2>2, <2>3 DEF TypeInv
<1> QED
  BY <1>1, BeginKeepsTypes, ReturnKeepsTypes, DirectKeepsTypes, SupsKeepsTypes, SettingKeepsTypes,
     RestoringKeepsTypes, VerifyKeepsTypes, CallKeepsTypes
  DEF Next

\* The types, the stages of each function and the calls that are left fit together always.
THEOREM TypeInvariant == Spec => []TypeInv
BY InitTypes, TypeStep, PTL DEF Spec

(***************************************************************************)
(* Every variable holds a value the process can hold, and kernel calls are *)
(* pending only in a stage that makes them.                                *)
(***************************************************************************)
THEOREM TypesAreCorrect == Spec => []PTypeOK
<1>1. TypeInv => PTypeOK
  <2> SUFFICES ASSUME TypeInv PROVE PTypeOK
    OBVIOUS
  <2>1. Identity \in Identities
    BY DEF TypeInv, TypesFit, Identity, Identities
  <2>2. calls # <<>> => stage \in {"gids", "uids", "seteuid", "setegid"} /\ Len(calls) <= 2
    <3> SUFFICES ASSUME calls # <<>>
                 PROVE  stage \in {"gids", "uids", "seteuid", "setegid"} /\ Len(calls) <= 2
      OBVIOUS
    <3>1. stage \in {"gids", "uids", "seteuid", "setegid"}
      BY DEF TypeInv, CallsFit
    <3>2. ASSUME NEW S, Keep \notin S, NEW of, NEW cur, NEW start \in IdTriples(S),
                 NEW t \in IdTriples(S), Setting(of, cur, start, t)
          PROVE  Len(calls) <= 2
      <4>1. CASE OneCall(of, start, t) /\ calls = CallsFor(of, start, t)
        <5> PICK c : calls = <<c>>
          BY <4>1 DEF OneCall
        <5> QED
          OBVIOUS
      <4>2. CASE TwoCalls(of, start, t) /\ calls = CallsFor(of, start, t)
        <5> PICK c, d : calls = <<c, d>>
          BY <4>2 DEF TwoCalls
        <5> QED
          OBVIOUS
      <4> QED
        BY <3>2, <4>1, <4>2, CallShapes DEF Setting, TypeInv, TypesFit
    <3>3. Keep \notin Users /\ Keep \notin Groups
      BY PrivAssumption DEF Keep
    <3>4. CASE stage = "uids"
      <4>1. Setting("uids", uids, old.uids, uc.uids)
        BY <3>4 DEF TypeInv, CallsFit
      <4> QED
        BY <3>2, <3>3, <3>4, <4>1, AskedTypes
    <3>5. CASE stage = "gids"
      <4>1. Setting("gids", gids, old.gids, uc.gids)
        BY <3>5 DEF TypeInv, CallsFit
      <4> QED
        BY <3>2, <3>3, <3>5, <4>1, AskedTypes
    <3>6. CASE stage \in {"seteuid", "setegid"}
      <4> PICK c : calls = <<c>>
        BY <3>6 DEF TypeInv, CallsFit
      <4>1. Len(calls) = 1
        OBVIOUS
      <4> QED
        BY <3>1, <4>1
    <3> QED
      BY <3>1, <3>4, <3>5, <3>6
  <2>3. uc # None => uc.ucred \in Ucreds
    BY DEF TypeInv, AskedFits
  <2>4. old # None => old \in Identities
    BY DEF TypeInv, AskedFits
  <2>5. edge.value \in {0, -1, Running} /\ (edge # None => edge.err \in Errnos)
    BY DEF TypeInv, TypesFit, Edges, None
  <2> QED
    BY <2>1, <2>2, <2>3, <2>4, <2>5 DEF PTypeOK, TypeInv, TypesFit, StageFits, Errnos
<1> QED
  BY <1>1, TypeInvariant, PTL
-----------------------------------------------------------------------------
(***************************************************************************)
(* PermanentIsForever.  An unprivileged process whose three ids are the    *)
(* same gets no other id from the kernel; a process whose ids are not all  *)
(* as asked is not told that its drop succeeded.                           *)
(***************************************************************************)
LEMMA DirectKeepsSame ==
  ASSUME ~Root, NEW id \in Users, NEW fn \in DirectFns, NEW args \in [1 .. Arity(fn) -> UidParams],
         NEW c, c = SetIdCall(fn, args), KernelAllows(c, AllSame(id)),
         NEW t \in KernelResults(c, AllSame(id))
  PROVE  t = AllSame(id)
<1> DEFINE v == AllSame(id)
<1>1. v.r = id /\ v.e = id /\ v.s = id /\ v = [r |-> id, e |-> id, s |-> id] /\ Own(v) = {id}
  BY DEF AllSame, Own
<1>2. c.fn = fn /\ c.args = args
  BY DEF SetIdCall
<1>3. CASE fn = "setuid"
  BY <1>2, <1>3 DEF KernelAllows, KernelResults, Allowed, After, AllSame
<1>4. CASE fn = "seteuid"
  BY <1>2, <1>4 DEF KernelAllows, KernelResults, Allowed, After, AllSame, Own
<1>5. CASE fn = "setreuid"
  <2>1. args[1] \in {Keep, id} /\ args[2] \in {Keep, id}
    BY <1>2, <1>5 DEF KernelAllows, Allowed, AllSame, Own
  <2> QED
    BY <1>2, <1>5, <2>1 DEF KernelResults, After, AllSame, New
<1>6. CASE fn = "setresuid"
  <2>1. args[1] \in {Keep, id} /\ args[2] \in {Keep, id} /\ args[3] \in {Keep, id}
    BY <1>2, <1>6 DEF KernelAllows, Allowed, AllSame, Own
  <2> QED
    BY <1>2, <1>6, <2>1 DEF KernelResults, After, AllSame, New
<1> QED
  BY <1>3, <1>4, <1>5, <1>6 DEF DirectFns

\* Ids that are all the same own one id.
LEMMA OwnIsSame ==
  ASSUME NEW S, NEW t \in IdTriples(S), NEW id, Own(t) \subseteq {id}
  PROVE  t = AllSame(id)
BY DEF IdTriples, Own, AllSame

\* What a step that neither changes the identity nor ends a function leaves alone.
LEMMA NothingTakenOn ==
  ASSUME PermanentInv, UNCHANGED <<build, identity, retired>>, stage' # "fsids"
  PROVE  PermanentInv'
BY DEF PermanentInv, TakenOn, identity

\* No identity is taken on for good at the start.
LEMMA PermanentInit == Init => PermanentInv
BY DEF Init, PermanentInv, None

\* No action moves an identity taken on for good, and none is taken on but as asked.
LEMMA PermanentStep ==
  ASSUME TypeInv, TypeInv', PermanentInv, [Next]_vars
  PROVE  PermanentInv'
<1>0. retired # None => retired.uid # 0 /\ uids = AllSame(retired.uid) /\ uids.e # 0 /\ ~Root
  BY DEF PermanentInv, TakenOn, AllSame, Root
<1>1. CASE UNCHANGED vars
  BY <1>1 DEF vars, PermanentInv, TakenOn
<1>2. ASSUME NEW fn \in PrivFns, NEW uid \in UidParams, NEW u \in UcredsFor(uid), Begin(fn, u)
      PROVE  PermanentInv'
  <2>1. UNCHANGED <<build, identity, retired>> /\ stage' \in {stage, First(fn)} /\ edge = None
    BY <1>2 DEF Begin, Idle
  <2>2. stage' # "fsids"
    BY <2>1 DEF First, TypeInv, StageFits, None, Running
  <2> QED
    BY <2>1, <2>2, NothingTakenOn
<1>3. CASE Return
  <2>1. UNCHANGED <<build, identity, retired>> /\ stage' = "end"
    BY <1>3 DEF Return, Returned, TypeInv, StageFits
  <2> QED
    BY <2>1, NothingTakenOn
<1>4. ASSUME NEW fn \in DirectFns, NEW args \in [1 .. Arity(fn) -> UidParams], DirectCall(fn, args)
      PROVE  PermanentInv'
  <2> DEFINE c == SetIdCall(fn, args)
  <2>1. /\ UNCHANGED <<build, gids, sups, retired, stage>> /\ edge = None
        /\ UNCHANGED uids \/ (KernelAllows(c, uids) /\ uids' \in KernelResults(c, uids))
    BY <1>4 DEF DirectCall, Idle
  <2>2. stage = "end"
    BY <2>1 DEF TypeInv, StageFits, None, Running
  <2>3. ASSUME retired # None PROVE uids' = uids
    <3>1. retired.uid \in Users
      BY <1>0, <2>3 DEF TypeInv, TypesFit, IdTriples, AllSame
    <3> HIDE DEF c
    <3> QED
      BY <1>0, <2>1, <2>3, <3>1, DirectKeepsSame DEF c
  <2> QED
    BY <2>1, <2>2, <2>3 DEF PermanentInv, TakenOn
<1>5. CASE SetSups
  <2>1. /\ UNCHANGED <<build, uids, gids, retired>> /\ stage' # "fsids"
        /\ ~Root => UNCHANGED sups
    BY <1>5 DEF SetSups, Stage, Advance, Fails, Following
  <2> QED
    BY <1>0, <2>1 DEF PermanentInv, TakenOn
<1>6. CASE SetUids \/ SetGids \/ RestoreEuid \/ RestoreEgid
  <2>1. UNCHANGED <<build, identity, retired>> /\ stage' # "fsids"
    BY <1>6 DEF SetUids, SetGids, SetIdsStage, RestoreEuid, RestoreEgid, SetOne, Stage, Advance, Fails,
                Following
  <2> QED
    BY <2>1, NothingTakenOn
<1>7. CASE KernelCall
  <2>1. stage \in {"uids", "gids", "seteuid", "setegid"}
    BY <1>7 DEF KernelCall, TypeInv, CallsFit
  <2>2. UNCHANGED <<build, retired>> /\ stage' # "fsids" /\ UNCHANGED sups
    BY <1>7, <2>1 DEF KernelCall, NextCall, SetIn, Advance, Fails, Following, identity
  <2>3. ~Root => Own(uids') \subseteq Own(uids) /\ Own(gids') \subseteq Own(gids)
    <3>1. CASE stage = "uids"
      BY <1>7, <3>1, UidsCall DEF Refusing, identity, Root
    <3>2. CASE stage = "gids"
      BY <1>7, <3>2, GidsCall DEF Refusing, identity, Root
    <3>3. CASE stage = "seteuid"
      BY <1>7, <3>3, EuidCall DEF Own, identity, TypeInv, TypesFit, IdTriples, Root
    <3>4. CASE stage = "setegid"
      BY <1>7, <3>4, EgidCall DEF Own, identity, TypeInv, TypesFit, IdTriples, Root
    <3> QED
      BY <2>1, <3>1, <3>2, <3>3, <3>4
  <2>4. uids' \in IdTriples(Users) /\ gids' \in IdTriples(Groups)
    BY DEF TypeInv, TypesFit
  <2>5. ASSUME retired # None PROVE TakenOn(retired)'
    <3>1. uids' = AllSame(retired.uid)
      BY <1>0, <2>3, <2>4, <2>5, OwnIsSame DEF Own, AllSame
    <3>2. build.full => gids' = AllSame(retired.gid) /\ EqlSups(sups, retired.sups, retired.gid)
      BY <1>0, <2>3, <2>4, <2>5, OwnIsSame DEF Own, AllSame, PermanentInv, TakenOn
    <3> QED
      BY <2>2, <3>1, <3>2 DEF TakenOn, EqlSups
  <2> QED
    BY <1>0, <2>2, <2>5 DEF PermanentInv
<1>8. CASE Verify
  <2>1. stage = "verify" /\ UNCHANGED <<build, identity, uc>>
    BY <1>8 DEF Verify, Stage, Advance, Fails
  <2>2. CASE Advance /\ edge.fn = "dropprivperm"
    <3>1. UidsAsAsked /\ (build.full => GroupsAsAsked)
      <4>1. ~\E err : Fails(err)
        <5>1. edge \in Edges
          BY <2>1, AskedTypes
        <5>2. \A err : Fails(err) => stage' = "end" /\ edge'.value = -1
          BY <5>1 DEF Fails, Record, Edges
        <5>3. stage' = "end" => edge'.value = 0
          BY <2>2, <5>1 DEF Advance, Record, Edges
        <5> QED
          BY <5>2, <5>3
      <4> QED
        BY <1>8, <4>1 DEF Verify
    <3>2. TakenOn(uc.ucred)
      BY <2>1, <2>2, <3>1, AskedTypes DEF UidsAsAsked, GroupsAsAsked, TargetIds, TakenOn, AllSame
    <3>3. retired' \in {retired, uc.ucred} /\ (retired' # retired => uc.uid # 0)
      BY <2>2 DEF Advance
    <3> QED
      BY <2>1, <3>2, <3>3, AskedTypes DEF PermanentInv, TakenOn, identity
  <2>3. CASE ~(Advance /\ edge.fn = "dropprivperm")
    <3>1. UNCHANGED retired /\ stage' # "fsids"
      BY <1>8, <2>1, <2>3 DEF Verify, Advance, Fails, Following
    <3> QED
      BY <2>1, <3>1, NothingTakenOn
  <2> QED
    BY <2>2, <2>3
<1>9. CASE VerifyFsIds
  <2>1. stage = "fsids" /\ UNCHANGED <<build, identity, uc>> /\ stage' = "end"
    BY <1>9 DEF VerifyFsIds, Stage, Advance, Fails, Following
  <2>2. TakenOn(uc.ucred)
    BY <2>1 DEF PermanentInv
  <2>3. retired' \in {retired, uc.ucred} /\ (retired' # retired => uc.uid # 0)
    BY <1>9 DEF VerifyFsIds, Advance, Fails
  <2> QED
    BY <2>1, <2>2, <2>3, AskedTypes DEF PermanentInv, TakenOn, identity
<1> QED
  BY <1>1, <1>2, <1>3, <1>4, <1>5, <1>6, <1>7, <1>8, <1>9 DEF Next

(***************************************************************************)
(* An ordinary user's identity taken on for good stays, whatever the       *)
(* process calls afterwards and whatever the kernel of its system makes of *)
(* the calls.                                                              *)
(***************************************************************************)
THEOREM PermanentStays == Spec => []PermanentIsForever
<1>1. TypeInv /\ TypeInv' /\ PermanentInv /\ [Next]_vars => PermanentInv'
  BY PermanentStep
<1>2. PermanentInv => PermanentIsForever
  BY DEF PermanentInv, TakenOn, PermanentIsForever
<1> QED
  BY <1>1, <1>2, PermanentInit, TypeInvariant, PTL DEF Spec
-----------------------------------------------------------------------------
(***************************************************************************)
(* The graphs.  A direct call's edge is one of the kernel's, with Darwin's *)
(* unusual saved ids among them.                                           *)
(***************************************************************************)
LEMMA DirectIsKernels ==
  ASSUME TypeInv, NEW fn \in DirectFns, NEW args \in [1 .. Arity(fn) -> UidParams],
         DirectCall(fn, args)
  PROVE  DirectInv'
<1> DEFINE c == SetIdCall(fn, args)
           e == [fn |-> fn, params |-> args, value |-> Running, err |-> NoErr]
<1>1. /\ old' = Identity /\ UNCHANGED build
      /\ \/ /\ KernelAllows(c, uids) /\ uids' \in KernelResults(c, uids)
            /\ edge' = Record(e, 0, NoErr)
         \/ /\ ~KernelAllows(c, uids) /\ UNCHANGED uids
            /\ edge' = Record(e, -1, KernelErrno(c))
  BY DEF DirectCall, Idle
<1>2. c.fn = fn /\ c.args = args /\ fn \in SetUidFns
  BY DEF DirectFns, SetUidFns, SetIdCall
<1>3. \A val, err :
        LET f == Record(e, val, err)
        IN  /\ f.fn = fn /\ f.params = args /\ f.value = val
            /\ f.err = IF val = 0 THEN NoErr ELSE err
  BY DEF Record
<1> HIDE DEF c, e
<1>4. KernelAllows(c, uids) <=> Allowed(c, uids, Root)
  BY <1>2 DEF KernelAllows, SetUidFns
<1>5. KernelErrno(c) = Refusal(fn, args)
  BY <1>2 DEF KernelErrno, Refusal
<1>6. old'.uids = uids /\ (uids.e = 0 <=> Root)
  BY <1>1 DEF Identity, Root
<1>7. args \in [1 .. Arity(fn) -> Nat \cup {Keep}]
  <2>1. \A p \in UidParams : p \in Nat \cup {Keep}
    BY PrivAssumption
  <2> QED
    BY <2>1
<1>8. CASE KernelAllows(c, uids) /\ uids' \in KernelResults(c, uids) /\ edge' = Record(e, 0, NoErr)
  <2>1. edge'.fn = fn /\ edge'.params = args /\ edge'.value = 0 /\ edge'.err = NoErr
    BY <1>3, <1>8
  <2>2. Recorded(edge', uids)
    BY <1>2, <1>4, <1>6, <1>7, <1>8, <2>1 DEF Recorded, c
  <2>3. CASE fn = "setreuid" /\ On("darwin")
    <3>1. UnusualSaved(edge', uids, uids')
      BY <1>2, <1>6, <1>8, <2>1, <2>2, <2>3 DEF UnusualSaved, KernelResults, Succeeded, c, Root
    <3> QED
      BY <1>1, <1>6, <2>3, <3>1 DEF DirectInv, On
  <2>4. CASE ~(fn = "setreuid" /\ On("darwin"))
    <3>1. uids' = After(c, uids, Root)
      BY <1>2, <1>8, <2>4 DEF KernelResults, SetUidFns
    <3>2. KernelEdge(edge', uids, uids')
      BY <1>2, <1>6, <2>1, <2>2, <3>1 DEF KernelEdge, Succeeded, c, Root
    <3> QED
      BY <1>6, <3>2 DEF DirectInv
  <2> QED
    BY <2>3, <2>4
<1>9. CASE ~KernelAllows(c, uids) /\ UNCHANGED uids /\ edge' = Record(e, -1, KernelErrno(c))
  <2>1. edge'.fn = fn /\ edge'.params = args /\ edge'.value = -1 /\ edge'.err = Refusal(fn, args)
    BY <1>3, <1>5, <1>9
  <2>2. Recorded(edge', uids)
    BY <1>2, <1>4, <1>6, <1>7, <1>9, <2>1 DEF Recorded, c
  <2>3. KernelEdge(edge', uids, uids')
    BY <1>9, <2>1, <2>2 DEF KernelEdge, Succeeded
  <2> QED
    BY <1>6, <2>3 DEF DirectInv
<1> QED
  BY <1>1, <1>8, <1>9

\* While one of the library's functions runs, the call is not a direct one.
LEMMA RunningKeepsEdge ==
  ASSUME TypeInv, stage # "end",
         SetSups \/ SetUids \/ SetGids \/ RestoreEuid \/ RestoreEgid \/ KernelCall \/ Verify \/ VerifyFsIds
  PROVE  edge'.fn = edge.fn /\ edge.fn \in PrivFns /\ UNCHANGED <<build, uc, old, dropped>>
<1>1. edge \in Edges /\ edge.fn \in PrivFns
  BY AskedTypes
<1>2. Advance \/ (\E err : Fails(err)) \/ Going
  BY DEF SetSups, SetUids, SetGids, SetIdsStage, RestoreEuid, RestoreEgid, SetOne, KernelCall,
         NextCall, Verify, VerifyFsIds, Going
<1>3. \A val, err : Record(edge, val, err).fn = edge.fn
  BY <1>1 DEF Record, Edges
<1> QED
  BY <1>1, <1>2, <1>3 DEF Advance, Fails, Going

\* Their actions need a running function.
LEMMA StagesRun ==
  ASSUME TypeInv,
         SetSups \/ SetUids \/ SetGids \/ RestoreEuid \/ RestoreEgid \/ KernelCall \/ Verify \/ VerifyFsIds
  PROVE  stage # "end"
BY DEF SetSups, SetUids, SetGids, SetIdsStage, RestoreEuid, RestoreEgid, SetOne, KernelCall,
       Verify, VerifyFsIds, Stage, TypeInv, CallsFit

\* Every action leaves a direct call's edge as the kernel made it.
LEMMA DirectStep ==
  ASSUME TypeInv, TypeInv', DirectInv, [Next]_vars
  PROVE  DirectInv'
<1>0. \A f \in PrivFns : f \notin SetUidFns
  BY DEF PrivFns, SetUidFns
<1>1. CASE UNCHANGED vars
  BY <1>1 DEF vars, DirectInv, On
<1>2. ASSUME NEW fn \in PrivFns, NEW uid \in UidParams, NEW u \in UcredsFor(uid), Begin(fn, u)
      PROVE  DirectInv'
  <2> DEFINE called == [fn |-> fn, params |-> <<u.uid>>, value |-> Running, err |-> NoErr]
  <2>1. edge' = called \/ \E err : edge' = Record(called, -1, err)
    BY <1>2 DEF Begin
  <2>2. called.fn = fn /\ \A err : Record(called, -1, err).fn = fn
    BY DEF Record
  <2> HIDE DEF called
  <2>3. edge'.fn = fn
    BY <2>1, <2>2
  <2> QED
    BY <1>0, <2>3 DEF DirectInv
<1>3. CASE Return
  BY <1>3 DEF Return, DirectInv, None, SetUidFns
<1>4. ASSUME NEW fn \in DirectFns, NEW args \in [1 .. Arity(fn) -> UidParams], DirectCall(fn, args)
      PROVE  DirectInv'
  BY <1>4, DirectIsKernels
<1>5. CASE SetSups \/ SetUids \/ SetGids \/ RestoreEuid \/ RestoreEgid \/ KernelCall \/ Verify
             \/ VerifyFsIds
  BY <1>0, <1>5, RunningKeepsEdge, StagesRun DEF DirectInv
<1> QED
  BY <1>1, <1>2, <1>3, <1>4, <1>5 DEF Next

\* The edge of a direct call is one that some kernel makes, always.
LEMMA DirectInvariant == Spec => []DirectInv
<1>1. Init => DirectInv
  BY DEF Init, DirectInv, None, SetUidFns
<1>2. TypeInv /\ TypeInv' /\ DirectInv /\ [Next]_vars => DirectInv'
  BY DirectStep
<1> QED
  BY <1>1, <1>2, TypeInvariant, PTL DEF Spec

\* The uids on both sides of an edge are triples of users.
LEMMA OldTypes ==
  ASSUME TypeInv, Returned
  PROVE  edge.fn \in PrivFns \cup SetUidFns /\ old.uids \in NatIds
<1>1. edge # None /\ edge \in Edges /\ old \in Identities
  BY DEF Returned, TypeInv, TypesFit, AskedFits
<1>2. old.uids \in IdTriples(Users) /\ Users \subseteq Nat
  BY <1>1, PrivAssumption DEF Identities
<1> QED
  BY <1>1, <1>2 DEF Edges, NatIds, IdTriples

(***************************************************************************)
(* The clean passes over a collected graph report nothing, for any set of  *)
(* users and builds: each function's standard description fits every edge. *)
(***************************************************************************)
THEOREM CleanPasses == Spec => []CleanPassesReportNothing
<1>1. TypeInv /\ DirectInv => CleanPassesReportNothing
  <2> SUFFICES ASSUME TypeInv, DirectInv, Returned PROVE CleanEdge(edge, old.uids, uids)
    BY DEF CleanPassesReportNothing
  <2>1. CASE edge.fn \in SetUidFns
    BY <2>1, OldTypes, KernelIsClean DEF DirectInv
  <2>2. CASE edge.fn \in PrivFns
    BY <2>2 DEF CleanEdge, PrivFns
  <2> QED
    BY <2>1, <2>2, OldTypes
<1> QED
  BY <1>1, TypeInvariant, DirectInvariant, PTL

(***************************************************************************)
(* The debug passes on Linux find root privileged in every call, and an    *)
(* ordinary user in one only: seteuid to the effective uid it holds        *)
(* nowhere else.                                                           *)
(***************************************************************************)
THEOREM DebugPasses == Spec => []LinuxIrregularities
<1>1. TypeInv /\ DirectInv => LinuxIrregularities
  <2> SUFFICES ASSUME TypeInv, DirectInv, On("linux"), Returned
               PROVE  /\ RootHasAP(edge, old.uids, uids)
                      /\ edge.fn = "setreuid" => /\ SetreuidTautology(edge, old.uids, uids)
                                                 /\ SetreuidForDropPrivPerm(edge, old.uids, uids)
                      /\ NonRootHasNoAP(edge, old.uids, uids)
                           <=> ~(/\ edge.fn = "seteuid" /\ old.uids.e # 0
                                 /\ ~Held(old.uids) /\ edge.params[1] = old.uids.e)
    BY DEF LinuxIrregularities
  <2>1. CASE edge.fn \in SetUidFns
    <3>1. KernelEdge(edge, old.uids, uids)
      BY <2>1 DEF DirectInv, On
    <3> QED
      BY <3>1, OldTypes, RootShowsAP, OneIrregularity, StrictSetreuid DEF Held
  <2>2. CASE edge.fn \in PrivFns
    BY <2>2 DEF RootHasAP, NonRootHasNoAP, PrivFns
  <2> QED
    BY <2>1, <2>2, OldTypes
<1> QED
  BY <1>1, TypeInvariant, DirectInvariant, PTL
=============================================================================
