---------------------------- MODULE PrivUndoProofs ----------------------------
(***************************************************************************)
(* More theorems about Priv: what a failed drop leaves, what a restoration *)
(* gives back, and what the sanity passes see of the library on Linux.     *)
(***************************************************************************)
EXTENDS PrivProofs

\* The old effective uid stays among the ids, after every single kernel call.
DropInv ==
  edge.fn = "dropprivtemp" /\ Held(old.uids) => old.uids.e \in Own(uids)

(***************************************************************************)
(* What a drop for a while leaves behind, and what a restoration of it has *)
(* done so far.                                                            *)
(***************************************************************************)
NoProc == On("solaris") /\ ~build.procfs

\* Group handling is compiled in, or no group changes.
GroupsInv ==
  edge # None =>
    /\ ~build.full => gids = old.gids /\ sups = old.sups
    /\ edge.fn = "dropprivtemp" /\ old.uids.e # 0 => sups = old.sups
    /\ edge.fn = "dropprivtemp" /\ edge.value # -1 => ~NoProc
    /\ edge.fn = "dropprivtemp" /\ edge.value = 0 =>
         uids = uc.uids /\ (build.full => gids = uc.gids)

Undoing ==
  /\ edge.fn = "restorepriv" /\ dropped # None
  /\ Held(dropped.uids) /\ uc.uid = dropped.uids.e
  /\ build.full => /\ Held(dropped.gids) /\ uc.gid = dropped.gids.e
                    /\ uc.sups = dropped.sups /\ uc.ucred.sorted

LeftBehind ==
  /\ edge = None \/ edge.fn = "restorepriv"
  /\ ~NoProc
  /\ Held(dropped.uids) => uids.r = dropped.uids.r /\ uids.s = dropped.uids.s
  /\ Held(dropped.gids) => gids.r = dropped.gids.r /\ gids.s = dropped.gids.s
  /\ ~build.full => gids = dropped.gids /\ sups = dropped.sups
  /\ dropped.uids.e # 0 /\ (edge = None \/ stage = "seteuid") => sups = dropped.sups

Restored ==
  /\ edge.value # -1
  /\ stage # "seteuid" => uids = dropped.uids
  /\ stage = "sups" /\ dropped.uids.e # 0 => sups = dropped.sups
  /\ stage \in {"setegid", "verify", "end"} => sups = dropped.sups
  /\ stage \in {"verify", "end"} => gids = dropped.gids

UndoInv ==
  /\ dropped # None => LeftBehind
  /\ Undoing => Restored

(***************************************************************************)
(* The edges of the library on Linux: a failure changes nothing, and once  *)
(* the ids were set they are as asked, so that no look at them fails.      *)
(***************************************************************************)
SetAsAsked ==
  /\ uids = IF edge.fn = "restorepriv" THEN [old.uids EXCEPT !.e = uc.uid] ELSE uc.uids
  /\ old.uids.e = 0 \/ Own(uids) \subseteq Own(old.uids)
  /\ uc.uid # Keep

LinuxInv ==
  LinuxGraph /\ edge.fn \in PrivFns =>
    /\ edge.params = <<uc.uid>>
    /\ edge.value = 0 => edge.err = NoErr
    /\ edge.value = -1 => /\ uids = old.uids /\ edge.err \in {EPERM, EINVAL}
                          /\ old.uids.e = 0 => edge.err = EINVAL
    /\ stage \in {"uids", "seteuid"} => uids = old.uids
    /\ stage \in {"verify", "fsids"} \/ edge.value = 0 => SetAsAsked
-----------------------------------------------------------------------------
\* The functions that are called while none runs.
LEMMA BeginsSo ==
  ASSUME TypeInv, NEW fn \in PrivFns, NEW uid \in UidParams, NEW u \in UcredsFor(uid), Begin(fn, u)
  PROVE  /\ edge = None /\ stage = "end" /\ edge'.fn = fn /\ edge'.params = <<u.uid>>
         /\ old' = Identity /\ uc' = Asked(fn, u)
         /\ dropped' = IF fn = "restorepriv" THEN dropped ELSE None
         /\ UNCHANGED <<build, identity>>
         /\ \/ edge'.value = -1 /\ edge'.err = Stale /\ stage' = "end" /\ ~u.sorted
            \/ /\ edge'.value = -1 /\ edge'.err = EINVAL /\ stage' = "end"
               /\ u.sorted /\ ~IdsAreSane(u)
            \/ /\ edge'.value = -1 /\ edge'.err = ENOENT /\ stage' = "end"
               /\ fn = "dropprivtemp" /\ NoProc
            \/ /\ edge'.value = Running /\ stage' = First(fn) /\ IdsAreSane(u)
               /\ ~(fn = "dropprivtemp" /\ NoProc)
<1> DEFINE called == [fn |-> fn, params |-> <<u.uid>>, value |-> Running, err |-> NoErr]
<1>1. /\ called.fn = fn /\ called.params = <<u.uid>> /\ called.value = Running
      /\ \A err : LET f == Record(called, -1, err)
                  IN  f.fn = fn /\ f.params = <<u.uid>> /\ f.value = -1 /\ f.err = err
  BY DEF Record
<1>2. /\ edge = None /\ old' = Identity /\ uc' = Asked(fn, u)
      /\ dropped' = IF fn = "restorepriv" THEN dropped ELSE None
      /\ UNCHANGED <<build, identity>>
      /\ \/ ~u.sorted /\ edge' = Record(called, -1, Stale) /\ UNCHANGED stage
         \/ /\ u.sorted /\ ~IdsAreSane(u)
            /\ edge' = Record(called, -1, EINVAL) /\ UNCHANGED stage
         \/ /\ fn = "dropprivtemp" /\ NoProc
            /\ edge' = Record(called, -1, ENOENT) /\ UNCHANGED stage
         \/ /\ IdsAreSane(u) /\ ~(fn = "dropprivtemp" /\ NoProc)
            /\ edge' = called /\ stage' = First(fn)
  BY DEF Begin, Idle, NoProc
<1>3. stage = "end"
  BY <1>2 DEF TypeInv, StageFits, None, Running
<1> HIDE DEF called
<1> QED
  BY <1>1, <1>2, <1>3

\* How the edge, the stage and the errno come out of a stage.
LEMMA EndsSo ==
  ASSUME TypeInv, stage # "end"
  PROVE  /\ Advance => /\ stage' = Following(edge.fn, stage)
                       /\ edge'.fn = edge.fn /\ edge'.params = edge.params
                       /\ edge'.value = IF stage' = "end" THEN 0 ELSE Running
                       /\ stage' = "end" => edge'.err = NoErr
                       /\ UNCHANGED <<build, uc, old, dropped>>
         /\ \A err : Fails(err) => /\ stage' = "end" /\ edge'.fn = edge.fn
                                   /\ edge'.params = edge.params
                                   /\ edge'.value = -1 /\ edge'.err = err
                                   /\ UNCHANGED <<build, uc, old, dropped>>
         /\ edge.fn \in PrivFns /\ edge.value = Running
<1>1. edge \in Edges /\ edge.fn \in PrivFns /\ edge.value = Running
  BY AskedTypes DEF TypeInv, StageFits
<1>2. \A val, err : LET f == Record(edge, val, err)
                    IN  /\ f.fn = edge.fn /\ f.params = edge.params /\ f.value = val
                        /\ f.err = IF val = 0 THEN NoErr ELSE err
  BY <1>1 DEF Record, Edges
<1>3. ASSUME Advance
      PROVE  /\ stage' = Following(edge.fn, stage)
             /\ edge'.fn = edge.fn /\ edge'.params = edge.params
             /\ edge'.value = IF stage' = "end" THEN 0 ELSE Running
             /\ stage' = "end" => edge'.err = NoErr
             /\ UNCHANGED <<build, uc, old, dropped>>
  BY <1>1, <1>2, <1>3 DEF Advance
<1>4. ASSUME NEW err, Fails(err)
      PROVE  /\ stage' = "end" /\ edge'.fn = edge.fn /\ edge'.params = edge.params
             /\ edge'.value = -1 /\ edge'.err = err /\ UNCHANGED <<build, uc, old, dropped>>
  BY <1>2, <1>4 DEF Fails
<1> QED
  BY <1>1, <1>3, <1>4

(***************************************************************************)
(* FailedDropKeepsOld.  If the effective id is held elsewhere, the real id *)
(* stays and the saved one too, except that Darwin may put the old         *)
(* effective id there.                                                     *)
(***************************************************************************)
LEMMA DropStep ==
  ASSUME TypeInv, TypeInv', DropInv, [Next]_vars
  PROVE  DropInv'
<1>1. CASE UNCHANGED vars
  BY <1>1 DEF vars, DropInv
<1>2. ASSUME NEW fn \in PrivFns, NEW uid \in UidParams, NEW u \in UcredsFor(uid), Begin(fn, u)
      PROVE  DropInv'
  BY <1>2, BeginsSo DEF DropInv, Identity, identity, Own
<1>3. CASE Return
  BY <1>3 DEF Return, DropInv, None
<1>4. ASSUME NEW fn \in DirectFns, NEW args \in [1 .. Arity(fn) -> UidParams], DirectCall(fn, args)
      PROVE  DropInv'
  BY <1>4 DEF DirectCall, DropInv, DirectFns, Record
<1>5. CASE SetSups \/ SetUids \/ SetGids \/ RestoreEuid \/ RestoreEgid \/ KernelCall \/ Verify
             \/ VerifyFsIds
  <2> SUFFICES ASSUME edge.fn = "dropprivtemp", Held(old.uids)
               PROVE  old.uids.e \in Own(uids')
    BY <1>5, StagesRun, RunningKeepsEdge DEF DropInv
  <2>1. stage # "end" /\ old.uids.e \in Own(uids)
    BY <1>5, StagesRun DEF DropInv
  <2>2. CASE KernelCall /\ stage = "uids"
    <3>1. /\ uc.uids = [r |-> old.uids.r, e |-> uc.uid, s |-> old.uids.s]
          /\ old.uids.e \in {old.uids.r, old.uids.s}
      BY <2>1, AskedTypes DEF TargetIds, SavedFor, Held
    <3>2. \A t \in Halfway(old.uids, uc.uids) :
            t.r = old.uids.r /\ (t.s = old.uids.s \/ t.s = old.uids.e) /\ t.e = old.uids.s
      BY <3>1 DEF Halfway
    <3>3. CASE uids' \in Halfway(old.uids, uc.uids)
      BY <3>1, <3>2, <3>3 DEF Own
    <3>4. CASE IdsSet(uids, uids', old.uids, uc.uids)
      <4>1. uids \in Halfway(old.uids, uc.uids) /\ uids' = [uids EXCEPT !.e = uc.uids.e]
              => uids'.r = uids.r /\ uids'.s = uids.s
        BY DEF TypeInv, TypesFit, IdTriples
      <4> QED
        BY <3>1, <3>2, <3>4, <4>1 DEF Own, IdsSet
    <3> QED
      BY <2>1, <2>2, <3>3, <3>4, UidsCall DEF Refusing, identity
  <2>3. CASE ~(KernelCall /\ stage = "uids")
    <3>1. UNCHANGED uids
      <4>1. CASE KernelCall
        <5>1. stage = "gids"
          BY <2>3, <4>1 DEF KernelCall, TypeInv, CallsFit, StageFits
        <5> QED
          BY <4>1, <5>1, GidsCall DEF Refusing, identity
      <4> QED
        BY <1>5, <4>1 DEF SetSups, SetUids, SetGids, SetIdsStage, RestoreEuid, RestoreEgid, SetOne,
                          Verify, VerifyFsIds, identity
    <3> QED
      BY <2>1, <3>1
  <2> QED
    BY <2>2, <2>3
<1> QED
  BY <1>1, <1>2, <1>3, <1>4, <1>5 DEF Next

(***************************************************************************)
(* A temporary drop that fails between its two kernel calls has not lost   *)
(* the effective uid, if it was held elsewhere.                            *)
(***************************************************************************)
THEOREM FailedDropIsUndoable == Spec => []FailedDropKeepsOld
<1>1. Init => DropInv
  BY DEF Init, DropInv, None
<1>2. TypeInv /\ TypeInv' /\ DropInv /\ [Next]_vars => DropInv'
  BY DropStep
<1>3. DropInv => FailedDropKeepsOld
  BY DEF DropInv, FailedDropKeepsOld
<1> QED
  BY <1>1, <1>2, <1>3, TypeInvariant, PTL DEF Spec
-----------------------------------------------------------------------------
(***************************************************************************)
(* RoundTrip.  First, what a stage does to the groups and to the ids.      *)
(***************************************************************************)
LEMMA StageMoves ==
  ASSUME TypeInv, stage # "end",
         SetSups \/ SetUids \/ SetGids \/ RestoreEuid \/ RestoreEgid \/ KernelCall \/ Verify \/ VerifyFsIds
  PROVE  /\ stage # "uids" /\ stage # "seteuid" => UNCHANGED uids
         /\ stage # "gids" /\ stage # "setegid" => UNCHANGED gids
         /\ stage # "sups" => UNCHANGED sups
         /\ stage = "sups" /\ ~Root => UNCHANGED sups
         /\ Advance \/ (\E err : Fails(err)) \/ (Going /\ stage' = stage)
<1>1. CASE KernelCall
  <2>1. stage \in {"uids", "gids", "seteuid", "setegid"}
    BY <1>1 DEF KernelCall, TypeInv, CallsFit
  <2>2. CASE stage = "uids"
    BY <1>1, <2>2, UidsCall DEF Refusing, identity, Going
  <2>3. CASE stage = "gids"
    BY <1>1, <2>3, GidsCall DEF Refusing, identity, Going
  <2>4. CASE stage = "seteuid"
    BY <1>1, <2>4, EuidCall DEF identity
  <2>5. CASE stage = "setegid"
    BY <1>1, <2>5, EgidCall DEF identity
  <2> QED
    BY <2>1, <2>2, <2>3, <2>4, <2>5
<1>2. CASE SetSups
  BY <1>2 DEF SetSups, Stage
<1>3. CASE SetUids \/ SetGids
  BY <1>3 DEF SetUids, SetGids, SetIdsStage, Stage, identity, Going
<1>4. CASE RestoreEuid \/ RestoreEgid
  BY <1>4 DEF RestoreEuid, RestoreEgid, SetOne, Stage, identity, Going
<1>5. CASE Verify \/ VerifyFsIds
  BY <1>5 DEF Verify, VerifyFsIds, Stage, identity
<1> QED
  BY <1>1, <1>2, <1>3, <1>4, <1>5

\* Only a look at the ids ends a function well.
LEMMA EndsWell ==
  ASSUME TypeInv, stage # "end", edge'.value = 0, edge.fn # "dropprivperm",
         SetSups \/ SetUids \/ SetGids \/ RestoreEuid \/ RestoreEgid \/ KernelCall \/ Verify \/ VerifyFsIds
  PROVE  Verify /\ stage = "verify" /\ UidsAsAsked /\ (build.full => GroupsAsAsked)
<1>1. Advance /\ stage' = "end"
  BY StageMoves, EndsSo DEF Going, Running
<1>2. stage = "verify"
  BY <1>1, EndsSo DEF Following, TypeInv, StageFits
<1>3. Verify
  BY <1>2 DEF SetSups, SetUids, SetGids, SetIdsStage, RestoreEuid, RestoreEgid, SetOne, VerifyFsIds,
              Stage, KernelCall, TypeInv, CallsFit
<1>4. \A err : ~Fails(err)
  BY EndsSo
<1> QED
  BY <1>2, <1>3, <1>4 DEF Verify

\* Every action keeps the groups as far as its function has got.
LEMMA GroupsStep ==
  ASSUME TypeInv, TypeInv', GroupsInv, [Next]_vars
  PROVE  GroupsInv'
<1>1. CASE UNCHANGED vars
  BY <1>1 DEF vars, GroupsInv, NoProc, On
<1>2. ASSUME NEW fn \in PrivFns, NEW uid \in UidParams, NEW u \in UcredsFor(uid), Begin(fn, u)
      PROVE  GroupsInv'
  <2>1. gids' = old'.gids /\ sups' = old'.sups /\ edge'.value # 0
    BY <1>2, BeginsSo DEF Identity, identity, Running
  <2>2. edge'.fn = "dropprivtemp" /\ edge'.value # -1 => ~NoProc'
    BY <1>2, BeginsSo DEF NoProc, On
  <2> QED
    BY <2>1, <2>2 DEF GroupsInv
<1>3. CASE Return
  BY <1>3 DEF Return, GroupsInv
<1>4. ASSUME NEW fn \in DirectFns, NEW args \in [1 .. Arity(fn) -> UidParams], DirectCall(fn, args)
      PROVE  GroupsInv'
  BY <1>4 DEF DirectCall, GroupsInv, DirectFns, Record, Identity
<1>5. CASE SetSups \/ SetUids \/ SetGids \/ RestoreEuid \/ RestoreEgid \/ KernelCall \/ Verify
             \/ VerifyFsIds
  <2>1. stage # "end" /\ edge # None
    BY <1>5, StagesRun, AskedTypes
  <2>2. edge'.fn = edge.fn /\ UNCHANGED <<build, old, uc>>
    BY <1>5, <2>1, RunningKeepsEdge
  <2>3. ~build.full => UNCHANGED <<gids, sups>>
    BY <1>5, <2>1, StageMoves DEF TypeInv, StageFits
  <2>4. edge.fn = "dropprivtemp" /\ old.uids.e # 0 => UNCHANGED sups
    <3>1. stage = "sups" /\ edge.fn = "dropprivtemp" => uids = old.uids
      BY DEF TypeInv, UntouchedFits
    <3> QED
      BY <1>5, <2>1, <3>1, StageMoves DEF Root
  <2>5. edge.value # -1
    BY <2>1, EndsSo DEF Running
  <2>6. edge'.fn = "dropprivtemp" /\ edge'.value = 0 =>
          uids' = uc.uids /\ (build.full => gids' = uc.gids)
    <3> SUFFICES ASSUME edge'.fn = "dropprivtemp", edge'.value = 0
                 PROVE  uids' = uc.uids /\ (build.full => gids' = uc.gids)
      OBVIOUS
    <3>1. stage = "verify" /\ UidsAsAsked /\ (build.full => GroupsAsAsked)
      BY <1>5, <2>1, <2>2, EndsWell
    <3> QED
      BY <1>5, <2>1, <2>2, <3>1, StageMoves DEF UidsAsAsked, GroupsAsAsked
  <2> QED
    BY <2>1, <2>2, <2>3, <2>4, <2>5, <2>6 DEF GroupsInv, NoProc, On
<1> QED
  BY <1>1, <1>2, <1>3, <1>4, <1>5 DEF Next

\* Where groups are not handled none changes; a function that ends well has set them.
LEMMA GroupsInvariant == Spec => []GroupsInv
<1>1. Init => GroupsInv
  BY DEF Init, GroupsInv
<1>2. TypeInv /\ TypeInv' /\ GroupsInv /\ [Next]_vars => GroupsInv'
  BY GroupsStep
<1> QED
  BY <1>1, <1>2, TypeInvariant, PTL DEF Spec

\* A call begins after a drop that may be undone.
LEMMA UndoBegins ==
  ASSUME TypeInv, TypeInv', UndoInv, NEW fn \in PrivFns, NEW uid \in UidParams,
         NEW u \in UcredsFor(uid), Begin(fn, u)
  PROVE  UndoInv'
<1>1. /\ edge = None /\ stage = "end" /\ edge'.fn = fn /\ UNCHANGED <<build, identity>>
      /\ uc'.uid = u.uid /\ uc'.gid = u.gid /\ uc'.sups = u.sups /\ uc'.ucred = u
      /\ dropped' = IF fn = "restorepriv" THEN dropped ELSE None
  BY BeginsSo DEF Asked
<1>2. stage' = "end" \/ (stage' = First(fn) /\ edge'.value = Running)
  BY BeginsSo
<1>3. edge # None => FALSE
  BY <1>1
<1> SUFFICES ASSUME dropped # None, fn = "restorepriv", UNCHANGED dropped
             PROVE  LeftBehind' /\ (Undoing' => Restored')
  BY <1>1 DEF UndoInv, Undoing
<1>4. LeftBehind
  BY DEF UndoInv
<1>5. LeftBehind'
  BY <1>1, <1>4 DEF LeftBehind, NoProc, On, identity
<1>6. ASSUME Undoing' PROVE Restored'
  <2>1. /\ u.uid = dropped.uids.e /\ u.uid \in Users
        /\ u.sorted /\ u.gid \in Groups
    <3>1. dropped \in Identities
      BY DEF TypeInv, TypesFit
    <3>2. u.uid = dropped.uids.e /\ u.uid \in Users
      BY <1>1, <1>6, <3>1 DEF Undoing, Identities, IdTriples
    <3>3. CASE build.full
      BY <1>1, <1>6, <3>1, <3>2, <3>3 DEF Undoing, Identities, IdTriples
    <3>4. CASE ~build.full
      <4>1. u = [uid |-> uid, gid |-> gids.e, sups |-> sups, sorted |-> TRUE]
        BY <3>4 DEF UcredsFor
      <4> QED
        BY <3>2, <4>1 DEF TypeInv, TypesFit, IdTriples
    <3> QED
      BY <3>2, <3>3, <3>4
  <2>2. IdsAreSane(u)
    BY <2>1, PrivAssumption DEF IdsAreSane, Keep
  <2>3. edge'.value = Running /\ stage' = "seteuid"
    BY <2>1, <2>2, BeginsSo DEF First
  <2> QED
    BY <2>3 DEF Restored, Running
<1> QED
  BY <1>5, <1>6

\* A drop for a while returns.
LEMMA UndoReturns ==
  ASSUME TypeInv, GroupsInv, UndoInv, Return
  PROVE  UndoInv'
<1>1. /\ edge # None /\ edge.value # Running /\ edge' = None
      /\ dropped' = IF edge.fn = "dropprivtemp" /\ edge.value = 0 THEN old ELSE None
      /\ UNCHANGED <<build, identity>>
  BY DEF Return, Returned
<1>2. ~Undoing'
  BY <1>1 DEF Undoing, None
<1>3. CASE edge.fn = "dropprivtemp" /\ edge.value = 0
  <2>1. /\ uids = uc.uids /\ (build.full => gids = uc.gids) /\ ~NoProc
        /\ ~build.full => gids = old.gids /\ sups = old.sups
        /\ old.uids.e # 0 => sups = old.sups
    BY <1>1, <1>3 DEF GroupsInv
  <2>2. /\ uc.uids = TargetIds("dropprivtemp", old.uids, uc.uid)
        /\ uc.gids = TargetIds("dropprivtemp", old.gids, uc.gid)
    BY <1>3 DEF TypeInv, AskedFits, PrivFns
  <2>3. Held(old.uids) => uids.r = old.uids.r /\ uids.s = old.uids.s
    BY <2>1, <2>2 DEF TargetIds, SavedFor, Held
  <2>4. Held(old.gids) => gids.r = old.gids.r /\ gids.s = old.gids.s
    BY <2>1, <2>2 DEF TargetIds, SavedFor, Held
  <2> QED
    BY <1>1, <1>2, <1>3, <2>1, <2>3, <2>4 DEF UndoInv, LeftBehind, identity, NoProc, On
<1>4. CASE ~(edge.fn = "dropprivtemp" /\ edge.value = 0)
  BY <1>1, <1>2, <1>4 DEF UndoInv
<1> QED
  BY <1>3, <1>4

\* A stage of the restoration.
LEMMA UndoGoesOn ==
  ASSUME TypeInv, TypeInv', UndoInv,
         SetSups \/ SetUids \/ SetGids \/ RestoreEuid \/ RestoreEgid \/ KernelCall \/ Verify \/ VerifyFsIds
  PROVE  UndoInv'
<1>1. stage # "end" /\ edge # None /\ edge'.fn = edge.fn /\ UNCHANGED <<build, uc, old, dropped>>
  BY StagesRun, AskedTypes, RunningKeepsEdge
<1> SUFFICES ASSUME dropped # None
             PROVE  LeftBehind' /\ (Undoing' => Restored')
  BY <1>1 DEF UndoInv, Undoing
<1>2. LeftBehind /\ edge.fn = "restorepriv" /\ stage \notin {"uids", "gids", "fsids"}
  BY <1>1 DEF UndoInv, LeftBehind, TypeInv, StageFits
<1>3. /\ edge' # None /\ edge.value # -1
      /\ stage' = "seteuid" => stage = "seteuid" /\ UNCHANGED sups
  <2>1. edge' # None
    BY <1>1, <1>2 DEF None
  <2> QED
    BY <1>1, <1>2, <2>1, StageMoves, EndsSo DEF Following, Going, Running, TypeInv, StageFits
<1>4. /\ stage = "seteuid" =>
           \/ UNCHANGED uids
           \/ Advance /\ uids' = [uids EXCEPT !.e = uc.uid]
      /\ stage = "setegid" =>
           \/ UNCHANGED gids
           \/ Advance /\ gids' = [gids EXCEPT !.e = uc.gid]
  BY EuidCall, EgidCall
  DEF SetSups, SetUids, SetGids, SetIdsStage, RestoreEuid, RestoreEgid, SetOne, Stage, Verify,
      VerifyFsIds, identity
<1>5. uids'.r = uids.r /\ uids'.s = uids.s /\ gids'.r = gids.r /\ gids'.s = gids.s
  <2>1. uids \in IdTriples(Users) /\ gids \in IdTriples(Groups)
    BY DEF TypeInv, TypesFit
  <2> QED
    BY <1>1, <1>2, <1>4, <2>1, StageMoves DEF IdTriples
<1>6. LeftBehind'
  <2>1. ~build.full => UNCHANGED <<gids, sups>>
    BY <1>1, <1>2, StageMoves DEF TypeInv, StageFits
  <2> QED
    BY <1>1, <1>2, <1>3, <1>5, <2>1 DEF LeftBehind, NoProc, On
<1>7. ASSUME Undoing' PROVE Restored'
  <2>1. Undoing /\ Restored
    BY <1>1, <1>7 DEF Undoing, UndoInv
  <2>2. /\ dropped.uids \in IdTriples(Users) /\ dropped.gids \in IdTriples(Groups)
        /\ uids \in IdTriples(Users) /\ gids \in IdTriples(Groups)
    BY DEF TypeInv, TypesFit, Identities
  <2>3. [uids EXCEPT !.e = uc.uid] = dropped.uids
    BY <1>2, <2>1, <2>2 DEF Undoing, LeftBehind, IdTriples
  <2>4. CASE stage = "seteuid"
    <3>1. CASE KernelCall
      <4>1. uc.uid \in Own(uids)
        BY <1>2, <2>1 DEF Undoing, LeftBehind, Held, Own
      <4>2. Advance /\ UNCHANGED <<gids, sups>> /\ uids' = dropped.uids
        BY <2>3, <2>4, <3>1, <4>1, EuidCall
      <4>3. stage' \in {"sups", "verify"} /\ (stage' = "verify" => ~build.full)
        BY <2>4, <4>2, EndsSo DEF Following
      <4> QED
        BY <1>1, <1>2, <2>1, <2>4, <4>2, <4>3, EndsSo DEF Restored, LeftBehind, Running
    <3>2. CASE RestoreEuid
      <4>1. CASE uc.uid = uids.e
        <5>1. Advance /\ UNCHANGED <<gids, sups, uids>>
          BY <3>2, <4>1 DEF RestoreEuid, SetOne, identity
        <5>2. uids = dropped.uids
          BY <2>2, <2>3, <4>1 DEF IdTriples
        <5>3. stage' \in {"sups", "verify"} /\ (stage' = "verify" => ~build.full)
          BY <2>4, <5>1, EndsSo DEF Following
        <5> QED
          BY <1>1, <1>2, <2>1, <2>4, <5>1, <5>2, <5>3, EndsSo DEF Restored, LeftBehind, Running
      <4>2. CASE uc.uid # uids.e
        <5>1. Going /\ UNCHANGED <<gids, sups, uids>>
          BY <3>2, <4>2 DEF RestoreEuid, SetOne, identity, Going
        <5> QED
          BY <2>1, <2>4, <5>1 DEF Restored, Going
      <4> QED
        BY <4>1, <4>2
    <3> QED
      BY <2>4, <3>1, <3>2
      DEF SetSups, SetUids, SetGids, SetIdsStage, RestoreEgid, SetOne, Stage, Verify, VerifyFsIds
  <2>5. CASE stage = "sups"
    <3>1. SetSups
      BY <2>5 DEF SetUids, SetGids, SetIdsStage, RestoreEuid, RestoreEgid, SetOne, Stage, Verify,
                  VerifyFsIds, KernelCall, TypeInv, CallsFit
    <3>2. build.full /\ uc.sups = dropped.sups /\ uids = dropped.uids
      BY <2>1, <2>5 DEF TypeInv, StageFits, Undoing, Restored
    <3>3. Advance /\ sups' = dropped.sups /\ UNCHANGED <<uids, gids>>
      BY <2>1, <2>5, <3>1, <3>2 DEF SetSups, Restored, Root, EqlSups
    <3>4. stage' = "setegid"
      BY <1>2, <2>5, <3>3, EndsSo DEF Following
    <3> QED
      BY <1>1, <3>2, <3>3, <3>4, EndsSo DEF Restored, Running
  <2>6. CASE stage = "setegid"
    <3>1. /\ build.full /\ Held(dropped.gids) /\ uc.gid = dropped.gids.e
          /\ uids = dropped.uids /\ sups = dropped.sups
      BY <2>1, <2>6 DEF TypeInv, StageFits, Undoing, Restored
    <3>2. [gids EXCEPT !.e = uc.gid] = dropped.gids
      BY <1>2, <2>2, <3>1 DEF LeftBehind, IdTriples
    <3>3. CASE KernelCall
      <4>1. uc.gid \in Own(gids)
        BY <1>2, <3>1 DEF LeftBehind, Held, Own
      <4>2. Advance /\ UNCHANGED <<uids, sups>> /\ gids' = dropped.gids
        BY <2>6, <3>2, <3>3, <4>1, EgidCall
      <4> QED
        BY <1>1, <2>6, <3>1, <4>2, EndsSo DEF Restored, Running, Following
    <3>4. CASE RestoreEgid
      <4>1. CASE uc.gid = gids.e
        <5>1. Advance /\ UNCHANGED <<gids, sups, uids>>
          BY <3>4, <4>1 DEF RestoreEgid, SetOne, identity
        <5>2. gids = dropped.gids
          BY <2>2, <3>2, <4>1 DEF IdTriples
        <5> QED
          BY <1>1, <2>6, <3>1, <5>1, <5>2, EndsSo DEF Restored, Running, Following
      <4>2. CASE uc.gid # gids.e
        <5>1. Going /\ UNCHANGED <<gids, sups, uids>>
          BY <3>4, <4>2 DEF RestoreEgid, SetOne, identity, Going
        <5> QED
          BY <2>1, <2>6, <5>1 DEF Restored, Going
      <4> QED
        BY <4>1, <4>2
    <3> QED
      BY <2>6, <3>3, <3>4
      DEF SetSups, SetUids, SetGids, SetIdsStage, RestoreEuid, SetOne, Stage, Verify, VerifyFsIds
  <2>7. CASE stage = "verify"
    <3>1. Verify
      BY <2>7 DEF SetSups, SetUids, SetGids, SetIdsStage, RestoreEuid, RestoreEgid, SetOne, Stage,
                  VerifyFsIds, KernelCall, TypeInv, CallsFit
    <3>2. uids = dropped.uids /\ gids = dropped.gids /\ sups = dropped.sups
      BY <2>1, <2>7 DEF Restored
    <3>3. UidsAsAsked /\ (build.full => GroupsAsAsked)
      BY <1>2, <2>1, <3>2 DEF UidsAsAsked, GroupsAsAsked, Undoing, EqlSups
    <3>4. Advance /\ UNCHANGED <<uids, gids, sups>>
      BY <1>2, <3>1, <3>3 DEF Verify, LeftBehind, NoProc, identity
    <3> QED
      BY <1>1, <1>2, <2>7, <3>2, <3>4, EndsSo DEF Restored, Running, Following
  <2> QED
    BY <1>1, <1>2, <2>4, <2>5, <2>6, <2>7 DEF TypeInv, StageFits
<1> QED
  BY <1>6, <1>7

\* Every action keeps what a restoration needs to bring the old identity back.
LEMMA UndoStep ==
  ASSUME TypeInv, TypeInv', GroupsInv, UndoInv, [Next]_vars
  PROVE  UndoInv'
<1>1. CASE UNCHANGED vars
  BY <1>1 DEF vars, UndoInv, LeftBehind, Undoing, Restored, NoProc, On
<1>2. ASSUME NEW fn \in DirectFns, NEW args \in [1 .. Arity(fn) -> UidParams], DirectCall(fn, args)
      PROVE  UndoInv'
  BY <1>2 DEF DirectCall, UndoInv, Undoing
<1> QED
  BY <1>1, <1>2, UndoBegins, UndoReturns, UndoGoesOn DEF Next

(***************************************************************************)
(* Dropping for a while and restoring what there was gives back exactly    *)
(* that: for every identity, every system and every two requests.          *)
(***************************************************************************)
THEOREM DropAndRestore == Spec => []RoundTrip
<1>1. Init => UndoInv
  BY DEF Init, UndoInv, Undoing
<1>2. TypeInv /\ TypeInv' /\ GroupsInv /\ UndoInv /\ [Next]_vars => UndoInv'
  BY UndoStep
<1>3. TypeInv /\ UndoInv => RoundTrip
  <2> SUFFICES ASSUME TypeInv, UndoInv, Returned, Undoing PROVE edge.value = 0 /\ Identity = dropped
    BY DEF RoundTrip, Undoing
  <2>1. edge.value \in {0, -1} /\ stage = "end" /\ Restored
    BY DEF Returned, TypeInv, TypesFit, Edges, StageFits, UndoInv
  <2>2. dropped \in Identities /\ Identity \in Identities
    BY DEF Undoing, TypeInv, TypesFit, Identity, Identities
  <2> QED
    BY <2>1, <2>2 DEF Restored, Identity, Identities
<1> QED
  BY <1>1, <1>2, <1>3, TypeInvariant, GroupsInvariant, PTL DEF Spec
-----------------------------------------------------------------------------
(***************************************************************************)
(* SanityReports.  On Linux one setresuid sets the ids, or is refused and  *)
(* sets none, so that a function fails only before it changed anything.    *)
(***************************************************************************)
LEMMA LinuxSets ==
  ASSUME TypeInv, LinuxGraph, LinuxInv, stage # "end",
         SetSups \/ SetUids \/ SetGids \/ RestoreEuid \/ RestoreEgid \/ KernelCall \/ Verify \/ VerifyFsIds
  PROVE  \/ stage = "uids" /\ Going /\ UNCHANGED uids
         \/ stage = "seteuid" /\ Going /\ UNCHANGED uids
         \/ /\ stage \in {"uids", "seteuid"} /\ old.uids.e # 0
            /\ Fails(EPERM) /\ UNCHANGED uids /\ uids = old.uids
         \/ stage \in {"uids", "seteuid"} /\ Advance /\ SetAsAsked'
         \/ stage \in {"verify", "fsids"} /\ Advance /\ UNCHANGED uids /\ SetAsAsked
<1>0. /\ ~build.full /\ build.procfs /\ build.os = "linux" /\ edge.fn \in PrivFns
      /\ uc.uid # Keep /\ ~On("darwin") /\ ~On("solaris") /\ ~On("aix")
      /\ stage \in {"uids", "seteuid", "verify", "fsids"}
  BY EndsSo DEF LinuxGraph, On, TypeInv, StageFits, IdsAreSane
<1>1. CASE stage = "uids"
  <2>1. uids = old.uids /\ edge.fn # "restorepriv"
    BY <1>0, <1>1 DEF LinuxInv, TypeInv, StageFits
  <2>2. CASE SetUids
    <3>1. CallsFor("uids", uids, uc.uids) # <<>> /\ ~Refused("uids", uids, uc.uids)
      BY <1>0 DEF CallsFor, SetresCalls, Refused, On
    <3> QED
      BY <1>1, <2>2, <3>1 DEF SetUids, SetIdsStage, identity, Going
  <2>3. CASE KernelCall
    <3>1. CASE Refusing
      BY <1>0, <1>1, <2>1, <3>1 DEF Refusing, identity, Root
    <3>2. CASE /\ Advance /\ IdsSet(uids, uids', old.uids, uc.uids)
               /\ Root \/ Own(uids') \subseteq Own(uids)
      <4>1. uids' = uc.uids /\ UNCHANGED <<old, uc>> /\ edge'.fn = edge.fn
        BY <1>0, <1>1, <3>2, EndsSo DEF IdsSet
      <4>2. SetAsAsked'
        BY <1>0, <2>1, <3>2, <4>1 DEF SetAsAsked, Root
      <4> QED
        BY <1>1, <3>2, <4>2
    <3> QED
      BY <1>0, <1>1, <2>3, <3>1, <3>2, UidsCall
  <2> QED
    BY <1>1, <2>2, <2>3
    DEF SetSups, SetGids, SetIdsStage, RestoreEuid, RestoreEgid, SetOne, Stage, Verify, VerifyFsIds
<1>2. CASE stage = "seteuid"
  <2>1. uids = old.uids /\ edge.fn = "restorepriv" /\ uids \in IdTriples(Users)
    BY <1>0, <1>2 DEF LinuxInv, TypeInv, TypesFit, StageFits
  <2>2. ASSUME Advance, uids' = [uids EXCEPT !.e = uc.uid], Root \/ uc.uid \in Own(uids)
        PROVE  SetAsAsked'
    <3>1. UNCHANGED <<old, uc>> /\ edge'.fn = edge.fn
      BY <1>2, <2>2, EndsSo
    <3>2. Own(uids') \subseteq Own(uids) \cup {uc.uid}
      BY <2>1, <2>2 DEF Own, IdTriples
    <3> QED
      BY <1>0, <2>1, <2>2, <3>1, <3>2 DEF SetAsAsked, Root
  <2>3. CASE RestoreEuid
    <3>1. CASE uc.uid = uids.e
      <4>1. Advance /\ UNCHANGED uids
        BY <2>3, <3>1 DEF RestoreEuid, SetOne, identity
      <4>2. uids = [uids EXCEPT !.e = uc.uid] /\ uc.uid \in Own(uids)
        BY <2>1, <3>1 DEF IdTriples, Own
      <4> QED
        BY <1>2, <2>2, <4>1, <4>2
    <3>2. CASE uc.uid # uids.e
      BY <1>2, <2>3, <3>2 DEF RestoreEuid, SetOne, identity, Going
    <3> QED
      BY <3>1, <3>2
  <2>4. CASE KernelCall
    BY <1>2, <2>1, <2>2, <2>4, EuidCall DEF Root, identity
  <2> QED
    BY <1>2, <2>3, <2>4
    DEF SetSups, SetUids, SetGids, SetIdsStage, RestoreEgid, SetOne, Stage, Verify, VerifyFsIds
<1>3. CASE stage \in {"verify", "fsids"}
  <2>1. SetAsAsked
    BY <1>0, <1>3 DEF LinuxInv
  <2>2. uids \in IdTriples(Users) /\ old.uids \in IdTriples(Users)
    BY <1>3, AskedTypes DEF TypeInv, TypesFit
  <2>3. UidsAsAsked /\ uids.e = uc.uid
    BY <1>3, <2>1, <2>2, AskedTypes
    DEF SetAsAsked, UidsAsAsked, IdTriples, TargetIds, AllSame, TypeInv, StageFits
  <2>4. Verify \/ VerifyFsIds
    BY <1>3 DEF SetSups, SetUids, SetGids, SetIdsStage, RestoreEuid, RestoreEgid, SetOne, Stage,
                KernelCall, TypeInv, CallsFit
  <2>5. Advance /\ UNCHANGED uids
    BY <1>0, <2>3, <2>4 DEF Verify, VerifyFsIds, identity
  <2> QED
    BY <1>3, <2>1, <2>5
<1> QED
  BY <1>0, <1>1, <1>2, <1>3

\* Every action keeps what is known of a function that runs on Linux without groups.
LEMMA LinuxStep ==
  ASSUME TypeInv, TypeInv', LinuxInv, [Next]_vars
  PROVE  LinuxInv'
<1>1. CASE UNCHANGED vars
  BY <1>1 DEF vars, LinuxInv, LinuxGraph, SetAsAsked, On
<1>2. ASSUME NEW fn \in PrivFns, NEW uid \in UidParams, NEW u \in UcredsFor(uid), Begin(fn, u)
      PROVE  LinuxInv'
  <2> SUFFICES ASSUME LinuxGraph' PROVE LinuxInv'
    BY DEF LinuxInv
  <2>0. ~build.full /\ ~NoProc
    BY <1>2, BeginsSo DEF LinuxGraph, On, NoProc
  <2>1. u.sorted
    BY <2>0 DEF UcredsFor
  <2>2. /\ uids' = uids /\ old'.uids = uids /\ uc'.uid = u.uid /\ edge'.params = <<u.uid>>
        /\ \/ edge'.value = -1 /\ edge'.err = EINVAL /\ stage' = "end"
           \/ edge'.value = Running /\ stage' = First(fn) /\ build.full' = build.full
    BY <1>2, <2>0, <2>1, BeginsSo DEF Asked, Identity, identity
  <2> QED
    BY <2>0, <2>2 DEF LinuxInv, First, Running
<1>3. CASE Return
  BY <1>3 DEF Return, LinuxInv, None, PrivFns
<1>4. ASSUME NEW fn \in DirectFns, NEW args \in [1 .. Arity(fn) -> UidParams], DirectCall(fn, args)
      PROVE  LinuxInv'
  BY <1>4 DEF DirectCall, LinuxInv, DirectFns, Record, PrivFns
<1>5. CASE SetSups \/ SetUids \/ SetGids \/ RestoreEuid \/ RestoreEgid \/ KernelCall \/ Verify
             \/ VerifyFsIds
  <2>1. stage # "end" /\ edge'.fn = edge.fn /\ edge.fn \in PrivFns
        /\ UNCHANGED <<build, uc, old, dropped>>
    BY <1>5, StagesRun, RunningKeepsEdge
  <2> SUFFICES ASSUME LinuxGraph PROVE LinuxInv'
    BY <2>1 DEF LinuxInv, LinuxGraph, On
  <2>2. edge.params = <<uc.uid>> /\ edge.value = Running
    BY <2>1, EndsSo DEF LinuxInv
  <2>3. CASE stage \in {"uids", "seteuid"} /\ Going /\ UNCHANGED uids
    BY <2>1, <2>2, <2>3 DEF LinuxInv, Going, Running
  <2>4. CASE old.uids.e # 0 /\ Fails(EPERM) /\ UNCHANGED uids /\ uids = old.uids
    BY <2>1, <2>2, <2>4, EndsSo DEF LinuxInv
  <2>5. CASE Advance /\ SetAsAsked'
    <3>1. /\ edge'.value \in {0, Running} /\ edge'.params = edge.params
          /\ edge'.value = 0 => edge'.err = NoErr
          /\ stage' = Following(edge.fn, stage)
      BY <2>1, <2>2, <2>5, EndsSo DEF Running
    <3>2. stage' \notin {"uids", "seteuid"}
      BY <2>1, <3>1 DEF Following, TypeInv, StageFits, LinuxGraph
    <3> QED
      BY <2>1, <2>2, <2>5, <3>1, <3>2 DEF LinuxInv, Running
  <2>6. CASE Advance /\ UNCHANGED uids /\ SetAsAsked
    BY <2>1, <2>5, <2>6 DEF SetAsAsked
  <2> QED
    BY <1>5, <2>1, <2>3, <2>4, <2>5, <2>6, LinuxSets
<1> QED
  BY <1>1, <1>2, <1>3, <1>4, <1>5 DEF Next

(***************************************************************************)
(* The sanity passes over the Linux graphs report one thing only, a        *)
(* permanent drop to root.                                                 *)
(***************************************************************************)
THEOREM SanityPasses == Spec => []SanityReports
<1>1. Init => LinuxInv
  BY DEF Init, LinuxInv, None, PrivFns
<1>2. TypeInv /\ TypeInv' /\ LinuxInv /\ [Next]_vars => LinuxInv'
  BY LinuxStep
<1>3. TypeInv /\ DirectInv /\ LinuxInv => SanityReports
  <2> SUFFICES ASSUME TypeInv, DirectInv, LinuxInv, LinuxGraph, Returned
               PROVE  /\ SaneSetuidEdge(edge, old.uids, uids)
                      /\ SanePrivEdge(edge, old.uids, uids)
                      /\ DropPrivPermSanity(edge, old.uids, uids)
                           <=> ~(edge.fn = "dropprivperm" /\ edge.value = 0 /\ uc.uid = 0)
    BY DEF SanityReports
  <2>1. CASE edge.fn \in SetUidFns
    <3>1. SaneSetuidEdge(edge, old.uids, uids)
      BY <2>1, OldTypes, KernelIsSane DEF DirectInv, LinuxGraph, On
    <3>2. edge.fn \notin PrivFns
      BY <2>1 DEF SetUidFns, PrivFns
    <3> QED
      BY <3>1, <3>2
      DEF SaneSetuidEdge, SanePrivEdge, PrivSanity, DropPrivTempSanity, RestorePrivSanity,
          DropPrivPermSanity, PrivFns
  <2>2. CASE edge.fn \in PrivFns
    <3>1. /\ edge.params = <<uc.uid>> /\ edge.value \in {0, -1}
          /\ edge.value = 0 => edge.err = NoErr /\ SetAsAsked
          /\ edge.value = -1 => /\ uids = old.uids /\ edge.err \in {EPERM, EINVAL}
                                /\ old.uids.e = 0 => edge.err = EINVAL
      BY <2>2 DEF LinuxInv, Returned, TypeInv, TypesFit, Edges
    <3>2. uids \in IdTriples(Users) /\ old.uids \in IdTriples(Users) /\ Keep \notin Users
      BY <2>2, PrivAssumption DEF Returned, TypeInv, TypesFit, AskedFits, Identities, Keep
    <3>3. uc.uids = TargetIds(edge.fn, old.uids, uc.uid)
      BY <2>2 DEF TypeInv, AskedFits
    <3>4. edge.value = 0 => uids.e = uc.uid /\ (edge.fn = "dropprivperm" => uids = AllSame(uc.uid))
      BY <3>1, <3>2, <3>3 DEF SetAsAsked, TargetIds, AllSame, IdTriples
    <3>5. GeneralSanity(edge, old.uids, uids)
      <4>1. edge.fn \in Functions /\ Arity(edge.fn) = 1
        BY <2>2 DEF Functions, PrivFns, Arity
      <4>2. Len(edge.params) = 1
        BY <3>1
      <4>3. Keep \notin Own(old.uids) \cup Own(uids)
        BY <3>2 DEF Own, IdTriples
      <4>4. SomewhatPrivileged(uids) => SomewhatPrivileged(old.uids)
        BY <3>1 DEF SomewhatPrivileged, SetAsAsked, Own
      <4> QED
        BY <3>1, <4>1, <4>2, <4>3, <4>4 DEF GeneralSanity, Succeeded
    <3>6. edge.params[1] = uc.uid
      BY <3>1
    <3>7. SaneSetuidEdge(edge, old.uids, uids) /\ SanePrivEdge(edge, old.uids, uids)
      BY <2>2, <3>4, <3>5, <3>6
      DEF SaneSetuidEdge, SetuidSanity, SeteuidSanity, SetreuidSanity, SetresuidSanity, SanePrivEdge,
          PrivSanity, DropPrivTempSanity, RestorePrivSanity, Succeeded, PrivFns
    <3>8. DropPrivPermSanity(edge, old.uids, uids)
            <=> ~(edge.fn = "dropprivperm" /\ edge.value = 0 /\ uc.uid = 0)
      BY <3>4 DEF DropPrivPermSanity, Succeeded, Own, AllSame
    <3> QED
      BY <3>7, <3>8
  <2> QED
    BY <2>1, <2>2, OldTypes
<1> QED
  BY <1>1, <1>2, <1>3, TypeInvariant, DirectInvariant, PTL DEF Spec
=============================================================================
