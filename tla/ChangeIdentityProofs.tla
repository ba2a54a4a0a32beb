------------------------ MODULE ChangeIdentityProofs ------------------------
(***************************************************************************)
(* What change_identity promises, for every set of ids and every size of   *)
(* the state graph: first where no process has capabilities but root's,    *)
(* then, at the end, what is left of it whatever capabilities it holds.    *)
(*                                                                         *)
(* The argument follows the code.  The plan that a call settles on before  *)
(* its first system call leads, call by call, from the credentials it has  *)
(* read to those it chose, because the graph's walks do; it is the same    *)
(* again after the stop of an elevation.  So the invariant of a thread     *)
(* that makes its calls is that the calls left lead to the target.         *)
(***************************************************************************)
EXTENDS ChangeIdentity, StateGraphProofs

CredSet == [uids : IdTriples(UIDs), gids : IdTriples(GIDs), sups : SupLists]

(***************************************************************************)
(* The system call o takes credentials x to y; l says which gids and which *)
(* supplementary list the change is to end with, and one call is enough    *)
(* for either.  Privilege is that of root: an effective uid of 0.          *)
(***************************************************************************)
StepTo(o, x, y, l) ==
  \/ /\ o.op = "uids" /\ o.mapped
     /\ Allowed(o.call, x.uids, x.uids.e = 0) /\ After(o.call, x.uids, x.uids.e = 0) = y.uids
     /\ x.uids.e = 0 \/ Own(y.uids) \subseteq Own(x.uids)
     /\ y.gids = x.gids /\ y.sups = x.sups
  \/ /\ o.op = "gids" /\ o.mapped
     /\ Allowed(o.call, x.gids, x.uids.e = 0) /\ After(o.call, x.gids, x.uids.e = 0) = y.gids
     /\ y.gids = l.gids /\ y.uids = x.uids /\ y.sups = x.sups
  \/ /\ o.op = "sups" /\ x.uids.e = 0
     /\ y.sups = l.sups /\ y.uids = x.uids /\ y.gids = x.gids

Trace(tr, w, x, y, l) ==
  /\ \A i \in 0 .. Len(w) : tr[i] \in CredSet
  /\ tr[0] = x /\ tr[Len(w)] = y
  /\ \A i \in 1 .. Len(w) : StepTo(w[i], tr[i - 1], tr[i], l)

IsList(w) == \E S : w \in Seq(S)

Leads(w, x, y, l) == IsList(w) /\ \E tr : Trace(tr, w, x, y, l)

\* No call, no change.
LEMMA LeadsNone ==
  ASSUME NEW x \in CredSet, NEW l
  PROVE  Leads(<<>>, x, x, l)
<1>1. Trace([i \in {0} |-> x], <<>>, x, x, l)
  BY DEF Trace
<1>2. <<>> \in Seq({})
  OBVIOUS
<1> QED
  BY <1>1, <1>2 DEF Leads, IsList

\* One call.
LEMMA LeadsOne ==
  ASSUME NEW x \in CredSet, NEW y \in CredSet, NEW l, NEW w, IsList(w), Len(w) = 1,
         StepTo(w[1], x, y, l)
  PROVE  Leads(w, x, y, l)
<1> DEFINE tr == [i \in 0 .. 1 |-> IF i = 0 THEN x ELSE y]
<1>1. tr[0] = x /\ tr[1] = y
  OBVIOUS
<1> HIDE DEF tr
<1>2. \A i \in 1 .. 1 : i = 1 /\ i - 1 = 0
  OBVIOUS
<1>3. \A i \in 1 .. Len(w) : StepTo(w[i], tr[i - 1], tr[i], l)
  BY <1>1, <1>2
<1>4. \A i \in 0 .. Len(w) : tr[i] \in CredSet
  BY <1>1
<1>5. Trace(tr, w, x, y, l)
  BY <1>1, <1>3, <1>4 DEF Trace
<1> QED
  BY <1>5 DEF Leads

\* Two calls.
LEMMA LeadsTwo ==
  ASSUME NEW x \in CredSet, NEW y \in CredSet, NEW z \in CredSet, NEW l,
         NEW w, IsList(w), Len(w) = 2, StepTo(w[1], x, y, l), StepTo(w[2], y, z, l)
  PROVE  Leads(w, x, z, l)
<1> DEFINE tr == [i \in 0 .. 2 |-> IF i = 0 THEN x ELSE IF i = 1 THEN y ELSE z]
<1>1. tr[0] = x /\ tr[1] = y /\ tr[2] = z
  OBVIOUS
<1> HIDE DEF tr
<1>2. \A i \in 1 .. 2 : (i = 1 /\ i - 1 = 0) \/ (i = 2 /\ i - 1 = 1)
  OBVIOUS
<1>3. \A i \in 1 .. Len(w) : StepTo(w[i], tr[i - 1], tr[i], l)
  BY <1>1, <1>2
<1>4. \A i \in 0 .. Len(w) : tr[i] \in CredSet
  BY <1>1
<1>5. Trace(tr, w, x, z, l)
  BY <1>1, <1>3, <1>4 DEF Trace
<1> QED
  BY <1>5 DEF Leads

\* The two lists of a concatenation.
LEMMA ListsJoin ==
  ASSUME NEW v, NEW w, IsList(v), IsList(w)
  PROVE  /\ IsList(v \o w) /\ Len(v) \in Nat /\ Len(w) \in Nat /\ Len(v \o w) = Len(v) + Len(w)
         /\ DOMAIN (v \o w) = 1 .. Len(v) + Len(w)
         /\ \A i \in 1 .. Len(v) + Len(w) : (v \o w)[i] = IF i <= Len(v) THEN v[i] ELSE w[i - Len(v)]
<1>1. PICK S : v \in Seq(S)
  BY DEF IsList
<1>2. PICK T : w \in Seq(T)
  BY DEF IsList
<1>3. v \in Seq(S \cup T) /\ w \in Seq(S \cup T)
  BY <1>1, <1>2, SeqMonotonic
<1> QED
  BY <1>3, ConcatProperties, LenProperties DEF IsList

\* First one list of calls, then the other.
LEMMA LeadsOn ==
  ASSUME NEW v, NEW w, NEW x, NEW y, NEW z, NEW l, Leads(v, x, y, l), Leads(w, y, z, l)
  PROVE  Leads(v \o w, x, z, l)
<1>1. PICK f : Trace(f, v, x, y, l)
  BY DEF Leads
<1>2. PICK g : Trace(g, w, y, z, l)
  BY DEF Leads
<1> DEFINE m  == Len(v)
           n  == Len(w)
           vw == v \o w
           tr == [i \in 0 .. m + n |-> IF i <= m THEN f[i] ELSE g[i - m]]
<1>3. /\ m \in Nat /\ n \in Nat /\ IsList(vw) /\ Len(vw) = m + n
      /\ \A i \in 1 .. m + n : vw[i] = IF i <= m THEN v[i] ELSE w[i - m]
  BY ListsJoin DEF Leads
<1>4. /\ f[0] = x /\ f[m] = y /\ g[0] = y /\ g[n] = z
      /\ \A i \in 0 .. m : f[i] \in CredSet
      /\ \A i \in 0 .. n : g[i] \in CredSet
      /\ \A i \in 1 .. m : StepTo(v[i], f[i - 1], f[i], l)
      /\ \A i \in 1 .. n : StepTo(w[i], g[i - 1], g[i], l)
  BY <1>1, <1>2 DEF Trace
<1> HIDE DEF m, n, vw
<1>5. \A i \in 0 .. m : tr[i] = f[i]
  BY <1>3
<1>6. \A i \in m .. m + n : tr[i] = g[i - m]
  BY <1>3, <1>4
<1> HIDE DEF tr
<1>7. \A i \in 0 .. m + n : tr[i] \in CredSet
  <2> SUFFICES ASSUME NEW i \in 0 .. m + n PROVE tr[i] \in CredSet
    OBVIOUS
  <2>1. CASE i <= m
    BY <1>3, <1>4, <1>5, <2>1
  <2>2. CASE i > m
    <3>1. i \in m .. m + n /\ i - m \in 0 .. n
      BY <1>3, <2>2
    <3> QED
      BY <1>4, <1>6, <3>1
  <2> QED
    BY <1>3, <2>1, <2>2
<1>8. tr[0] = x /\ tr[m + n] = z
  BY <1>3, <1>4, <1>5, <1>6
<1>9. ASSUME NEW i \in 1 .. m + n PROVE StepTo(vw[i], tr[i - 1], tr[i], l)
  <2>1. CASE i <= m
    BY <1>3, <1>4, <1>5, <2>1
  <2>2. CASE i > m
    <3>1. i - m \in 1 .. n /\ i - 1 \in m .. m + n /\ (i - 1) - m = (i - m) - 1 /\ i \in m .. m + n
      BY <1>3, <2>2
    <3>2. tr[i] = g[i - m] /\ tr[i - 1] = g[(i - m) - 1] /\ vw[i] = w[i - m]
      BY <1>3, <1>6, <2>2, <3>1
    <3> QED
      BY <1>4, <3>1, <3>2
  <2> QED
    BY <1>3, <2>1, <2>2
<1>10. Trace(tr, vw, x, z, l)
  BY <1>3, <1>7, <1>8, <1>9 DEF Trace
<1> QED
  BY <1>3, <1>10 DEF Leads, vw

\* The head and the tail of a list.
LEMMA ListTakenApart ==
  ASSUME NEW w, IsList(w), w # <<>>
  PROVE  /\ IsList(Tail(w)) /\ Len(w) \in Nat \ {0} /\ Len(Tail(w)) = Len(w) - 1
         /\ Head(w) = w[1] /\ \A i \in 1 .. Len(w) - 1 : Tail(w)[i] = w[i + 1]
         /\ DOMAIN w = 1 .. Len(w) /\ DOMAIN Tail(w) = 1 .. Len(w) - 1
<1>1. PICK S : w \in Seq(S)
  BY DEF IsList
<1> QED
  BY <1>1 DEF IsList

\* The first call is one the kernel accepts, and the others lead on from there.
LEMMA LeadsHead ==
  ASSUME NEW w, NEW x, NEW z, NEW l, Leads(w, x, z, l), w # <<>>
  PROVE  \E y \in CredSet : StepTo(Head(w), x, y, l) /\ Leads(Tail(w), y, z, l)
<1>1. PICK tr : Trace(tr, w, x, z, l)
  BY DEF Leads
<1> DEFINE n == Len(w)
           v == Tail(w)
           f == [i \in 0 .. n - 1 |-> tr[i + 1]]
<1>2. /\ IsList(v) /\ n \in Nat \ {0} /\ Len(v) = n - 1 /\ Head(w) = w[1]
      /\ \A i \in 1 .. n - 1 : v[i] = w[i + 1]
  BY ListTakenApart DEF Leads
<1>3. /\ tr[0] = x /\ tr[n] = z /\ \A i \in 0 .. n : tr[i] \in CredSet
      /\ \A i \in 1 .. n : StepTo(w[i], tr[i - 1], tr[i], l)
  BY <1>1 DEF Trace
<1> HIDE DEF n, v
<1>4. \A i \in 0 .. n - 1 : f[i] = tr[i + 1]
  OBVIOUS
<1> HIDE DEF f
<1>5. Trace(f, v, tr[1], z, l)
  <2>1. ASSUME NEW i \in 1 .. n - 1 PROVE StepTo(v[i], f[i - 1], f[i], l)
    <3>1. i + 1 \in 1 .. n /\ (i + 1) - 1 = i /\ i - 1 \in 0 .. n - 1 /\ (i - 1) + 1 = i /\ i \in 0 .. n - 1
      BY <1>2
    <3>2. f[i - 1] = tr[(i + 1) - 1] /\ f[i] = tr[i + 1] /\ v[i] = w[i + 1]
      BY <1>2, <1>4, <3>1
    <3> QED
      BY <1>3, <3>1, <3>2
  <2>2. \A i \in 0 .. n - 1 : f[i] \in CredSet
    BY <1>2, <1>3, <1>4
  <2>3. f[0] = tr[1] /\ f[n - 1] = z
    BY <1>2, <1>3, <1>4
  <2> QED
    BY <1>2, <2>1, <2>2, <2>3 DEF Trace
<1>6. tr[1] \in CredSet /\ StepTo(w[1], x, tr[1], l)
  <2>1. 1 \in 1 .. n /\ 1 - 1 = 0 /\ 1 \in 0 .. n
    BY <1>2
  <2> QED
    BY <1>3, <2>1
<1> QED
  BY <1>2, <1>5, <1>6 DEF Leads, v

\* The calls of a plan were all mapped.
LEMMA LeadsMapped ==
  ASSUME NEW w, NEW x, NEW y, NEW l, Leads(w, x, y, l)
  PROVE  \A i \in DOMAIN w : w[i].op \in {"uids", "gids", "sups"} /\ (w[i].op # "sups" => w[i].mapped)
<1>1. PICK S : w \in Seq(S)
  BY DEF Leads, IsList
<1>2. PICK tr : Trace(tr, w, x, y, l)
  BY DEF Leads
<1>3. \A i \in 1 .. Len(w) : StepTo(w[i], tr[i - 1], tr[i], l)
  BY <1>2 DEF Trace
<1> QED
  BY <1>1, <1>3 DEF StepTo
-----------------------------------------------------------------------------
(***************************************************************************)
(* The walks of the graph, back in the ids of the process.                 *)
(***************************************************************************)
\* A renaming keeps which ids are whose.
LEMMA ImageOwn ==
  ASSUME NEW D, NEW f \in [D -> Nat], \A x, y \in D : f[x] = f[y] => x = y,
         NEW p \in IdTriples(D), NEW q \in IdTriples(D)
  PROVE  /\ \A d \in D : f[d] \in Own(Image(f, p)) <=> d \in Own(p)
         /\ Own(Image(f, q)) \subseteq Own(Image(f, p)) <=> Own(q) \subseteq Own(p)
<1>1. \A d \in D : f[d] \in Own(Image(f, p)) <=> d \in Own(p)
  BY DEF Own, Image, IdTriples
<1>2. Own(q) \subseteq D /\ \A k : k \in Own(Image(f, q)) <=> \E d \in Own(q) : k = f[d]
  BY DEF Own, Image, IdTriples
<1>3. ASSUME Own(q) \subseteq Own(p) PROVE Own(Image(f, q)) \subseteq Own(Image(f, p))
  BY <1>1, <1>2, <1>3
<1>4. ASSUME Own(Image(f, q)) \subseteq Own(Image(f, p)) PROVE Own(q) \subseteq Own(p)
  BY <1>1, <1>2, <1>4
<1> QED
  BY <1>1, <1>3, <1>4

\* A call's parameters are renamed as map_uids_params and map_gids_params do.
LEMMA MapParamsIs ==
  ASSUME NEW map, NEW f, NEW t, NEW c, CallTo(c, t), Keep \notin DOMAIN map,
         \A x \in DOMAIN map : x # 0 => f[x] = map[x],
         \/ f[0] = 0
         \/ \A i \in DOMAIN c.args : c.args[i] # 0,
         \A i \in DOMAIN c.args : c.args[i] \in DOMAIN map \cup {0, Keep}
  PROVE  MapParams(map, c) = RealCall(f, c)
<1>1. c = [fn |-> c.fn, args |-> c.args]
  BY DEF CallTo, SetIdCall
<1>2. 0 # Keep
  BY DEF Keep
<1>3. \A i \in DOMAIN c.args :
        (IF c.args[i] \in {Keep, 0} THEN c.args[i] ELSE map[c.args[i]]) = Real(f, c.args[i])
  BY <1>2 DEF Real
<1> QED
  BY <1>1, <1>3 DEF MapParams, RealCall

\* The step that set_uids_from_graph makes of a call c of a walk, and
\* set_gids_from_graph likewise.
OpOf(op, map, c) == [op |-> op, call |-> MapParams(map, c), mapped |-> Mapped(map, c, op = "uids")]

\* A call of a uid walk does what the graph says.
LEMMA UidCallLeads ==
  ASSUME NEW map, NEW D, NEW f, D = Named(map), f = UidsBack(map), D \subseteq Normals,
         f \in [D -> Nat], \A x, y \in D : f[x] = f[y] => x = y,
         NEW p \in IdTriples(D), NEW q \in IdTriples(D), NEW c, CallTo(c, q), LeadsTo(c, p, q),
         NEW x, NEW y, x.uids = Image(f, p), y.uids = Image(f, q), y.gids = x.gids, y.sups = x.sups,
         NEW l
  PROVE  StepTo(OpOf("uids", map, c), x, y, l)
<1>1. Keep \notin D /\ 0 \in D /\ f[0] = 0 /\ Keep \notin Normals
  BY DEF Named, Normals, Keep, UidsBack
<1>2. (p.e = 0) = (x.uids.e = 0)
  BY <1>1 DEF Image, IdTriples
<1> DEFINE priv == p.e = 0
<1>3. Allowed(c, p, priv) /\ After(c, p, priv) = q /\ priv \in BOOLEAN
  BY DEF LeadsTo
<1>4. /\ p = [r |-> p.r, e |-> p.e, s |-> p.s] /\ p.r \in D /\ p.e \in D /\ p.s \in D
      /\ x.uids = [r |-> f[p.r], e |-> x.uids.e, s |-> f[p.s]] /\ x.uids.e = f[p.e]
  BY DEF IdTriples, Image
<1> HIDE DEF priv
<1>5. /\ Allowed(RealCall(f, c), x.uids, priv)
      /\ After(RealCall(f, c), x.uids, priv) = Image(f, q)
      /\ \A i \in DOMAIN c.args : c.args[i] \in D \cup {Keep}
  BY <1>1, <1>3, <1>4, CallFollows
<1>6. MapParams(map, c) = RealCall(f, c)
  <2>1. /\ Keep \notin DOMAIN map /\ \A z \in DOMAIN map : z # 0 => f[z] = map[z]
        /\ \A i \in DOMAIN c.args : c.args[i] \in DOMAIN map \cup {0, Keep}
    BY <1>1, <1>5 DEF Named, UidsBack
  <2> QED
    BY <1>1, <2>1, MapParamsIs
<1>7. Mapped(map, c, TRUE)
  BY <1>5 DEF Mapped, Named
<1>8. priv \/ Own(y.uids) \subseteq Own(x.uids)
  <2>1. p \in IdTriples(Normals) /\ q \in IdTriples(Normals)
    BY DEF IdTriples
  <2>2. CASE ~priv
    <3>1. Allowed(c, p, FALSE) /\ After(c, p, FALSE) = q
      BY <1>3, <2>2
    <3>2. Own(q) \subseteq Own(p)
      BY <1>1, <2>1, <3>1, UnprivilegedKeepsOwn
    <3> QED
      BY <3>2, ImageOwn
  <2> QED
    BY <2>2
<1> DEFINE o == OpOf("uids", map, c)
<1>9. o.op = "uids" /\ o.call = RealCall(f, c) /\ o.mapped
  BY <1>6, <1>7 DEF OpOf
<1> HIDE DEF o
<1>10. priv = (x.uids.e = 0)
  BY <1>2 DEF priv
<1>11. StepTo(o, x, y, l)
  BY <1>5, <1>8, <1>9, <1>10 DEF StepTo
<1> QED
  BY <1>11 DEF o

\* A call of a gid walk does what the graph says.  Where the walk begins at the
\* super-user's gid the process is privileged, and the call replaces the
\* effective gid.
LEMMA GidCallLeads ==
  ASSUME NEW map, NEW D, D = DOMAIN map, D \subseteq Normals \ {0},
         map \in [D -> Nat], \A x, y \in D : map[x] = map[y] => x = y,
         NEW p, p = [r |-> p.r, e |-> p.e, s |-> p.s], p.r \in D, p.s \in D,
         NEW q \in IdTriples(D), NEW c, CallTo(c, q), LeadsTo(c, p, q),
         NEW x, NEW y, x.gids = [r |-> map[p.r], e |-> x.gids.e, s |-> map[p.s]],
         \/ p.e = 0 /\ x.uids.e = 0
         \/ p.e \in D /\ x.gids.e = map[p.e] /\ x.uids.e # 0,
         y.gids = Image(map, q), y.uids = x.uids, y.sups = x.sups,
         NEW l, l.gids = y.gids
  PROVE  StepTo(OpOf("gids", map, c), x, y, l)
<1>1. Keep \notin D /\ 0 \notin D
  BY DEF Normals, Keep
<1> DEFINE priv == p.e = 0
<1>2. Allowed(c, p, priv) /\ After(c, p, priv) = q /\ priv \in BOOLEAN
  BY DEF LeadsTo
<1>3. priv = (x.uids.e = 0)
  BY <1>1
<1>4. \/ p.e \in D /\ x.gids.e = map[p.e]
      \/ priv /\ p.e \notin D
  BY <1>1
<1> HIDE DEF priv
<1>5. /\ Allowed(RealCall(map, c), x.gids, priv)
      /\ After(RealCall(map, c), x.gids, priv) = Image(map, q)
      /\ \A i \in DOMAIN c.args : c.args[i] \in D \cup {Keep}
  BY <1>1, <1>2, <1>4, CallFollows
<1>6. MapParams(map, c) = RealCall(map, c)
  <2>1. /\ \A i \in DOMAIN c.args : c.args[i] # 0
        /\ \A i \in DOMAIN c.args : c.args[i] \in DOMAIN map \cup {0, Keep}
    BY <1>1, <1>5 DEF Keep
  <2> QED
    BY <1>1, <2>1, MapParamsIs
<1>7. Mapped(map, c, FALSE)
  BY <1>5 DEF Mapped
<1> DEFINE o == OpOf("gids", map, c)
<1>8. o.op = "gids" /\ o.call = RealCall(map, c) /\ o.mapped
  <2>1. ("gids" = "uids") = FALSE
    OBVIOUS
  <2> QED
    BY <1>6, <1>7, <2>1 DEF OpOf
<1> HIDE DEF o
<1>9. StepTo(o, x, y, l)
  BY <1>3, <1>5, <1>8 DEF StepTo
<1> QED
  BY <1>9 DEF o

\* What set_uids_from_graph is given by a walk.
LEMMA PrescribedAre ==
  ASSUME NEW op, NEW norm, CanSet(norm.prev, norm.next), NEW u \in Prescribed(op, norm)
  PROVE  \E w \in Walks(norm.prev, norm.next) :
           u = [i \in DOMAIN w |-> OpOf(op, norm.map, w[i])]
BY DEF Prescribed, OpOf

\* The three kinds of walk, call by call.
LEMMA OpsOfWalk ==
  ASSUME NEW op, NEW map, NEW w, NEW u, u = [i \in DOMAIN w |-> OpOf(op, map, w[i])]
  PROVE  /\ w = <<>> => u = <<>>
         /\ \A c : w = <<c>> => IsList(u) /\ Len(u) = 1 /\ u[1] = OpOf(op, map, c)
         /\ \A c, d : w = <<c, d>> =>
              IsList(u) /\ Len(u) = 2 /\ u[1] = OpOf(op, map, c) /\ u[2] = OpOf(op, map, d)
<1>1. ASSUME w = <<>> PROVE u = <<>>
  BY <1>1
<1>2. ASSUME NEW c, w = <<c>> PROVE IsList(u) /\ Len(u) = 1 /\ u[1] = OpOf(op, map, c)
  <2>1. DOMAIN w = 1 .. 1 /\ w[1] = c
    BY <1>2
  <2>2. u \in [1 .. 1 -> {u[1]}] /\ u[1] = OpOf(op, map, c)
    BY <2>1
  <2>3. u \in Seq({u[1]}) /\ Len(u) = 1
    BY <2>2
  <2> QED
    BY <2>2, <2>3 DEF IsList
<1>3. ASSUME NEW c, NEW d, w = <<c, d>>
      PROVE  IsList(u) /\ Len(u) = 2 /\ u[1] = OpOf(op, map, c) /\ u[2] = OpOf(op, map, d)
  <2>1. DOMAIN w = 1 .. 2 /\ w[1] = c /\ w[2] = d
    BY <1>3
  <2>2. u \in [1 .. 2 -> {u[1], u[2]}] /\ u[1] = OpOf(op, map, c) /\ u[2] = OpOf(op, map, d)
    BY <2>1
  <2>3. u \in Seq({u[1], u[2]}) /\ Len(u) = 2
    BY <2>2
  <2> QED
    BY <2>2, <2>3 DEF IsList
<1> QED
  BY <1>1, <1>2, <1>3

\* Renaming stays within the ids of a set.
LEMMA ImageFits ==
  ASSUME NEW U, NEW D, NEW f \in [D -> Nat], NEW p \in IdTriples(D), Image(f, p) \in IdTriples(U),
         NEW m \in IdTriples(Own(p))
  PROVE  m \in IdTriples(D) /\ Image(f, m) \in IdTriples(U)
BY DEF IdTriples, Image, Own

\* set_uids_from_graph takes the process where it was told to.
LEMMA UidWalkLeads ==
  ASSUME NEW x \in CredSet, NEW next \in IdTriples(UIDs), NEW np, NEW p, NEW q,
         UidsNormalized(x.uids, next, np, p, q), CanSet(np.prev, np.next),
         NEW u \in Prescribed("uids", np), NEW l
  PROVE  Leads(u, x, [x EXCEPT !.uids = next], l)
<1> DEFINE map == np.map
           D   == Named(map)
           f   == UidsBack(map)
           y   == [x EXCEPT !.uids = next]
<1>1. /\ D \subseteq Normals /\ f \in [D -> Nat] /\ \A a, b \in D : f[a] = f[b] => a = b
      /\ p \in IdTriples(D) /\ q \in IdTriples(D)
      /\ np.prev = Lookup(p) /\ np.next = Lookup(q)
      /\ x.uids = Image(f, p) /\ next = Image(f, q)
  BY DEF UidsNormalized
<1>2. p \in IdTriples(Normals) /\ q \in IdTriples(Normals)
  BY <1>1 DEF IdTriples
<1>3. y \in CredSet /\ y.uids = next /\ y.gids = x.gids /\ y.sups = x.sups
  BY DEF CredSet
<1>4. PICK w \in Walks(np.prev, np.next) : u = [i \in DOMAIN w |-> OpOf("uids", map, w[i])]
  BY PrescribedAre
<1>5. IsWalk(w, p, q)
  BY <1>1, <1>2, WalksAre
<1> HIDE DEF D, f, y, map
<1>6. CASE w = <<>> /\ p = q
  <2>1. u = <<>> /\ y = x
    BY <1>1, <1>4, <1>6, OpsOfWalk DEF y, CredSet
  <2> QED
    BY <2>1, LeadsNone DEF y
<1>7. CASE \E c : w = <<c>> /\ CallTo(c, q) /\ LeadsTo(c, p, q)
  <2>1. PICK c : w = <<c>> /\ CallTo(c, q) /\ LeadsTo(c, p, q)
    BY <1>7
  <2>2. IsList(u) /\ Len(u) = 1 /\ u[1] = OpOf("uids", map, c)
    BY <1>4, <2>1, OpsOfWalk
  <2>3. StepTo(OpOf("uids", map, c), x, y, l)
    BY <1>1, <1>3, <2>1, UidCallLeads DEF D, f
  <2> QED
    BY <1>3, <2>2, <2>3, LeadsOne DEF y
<1>8. CASE \E m \in IdTriples(Own(p)) : \E c, d : /\ w = <<c, d>> /\ m.e = 0
             /\ CallTo(c, m) /\ LeadsTo(c, p, m) /\ CallTo(d, q) /\ LeadsTo(d, m, q)
  <2>1. PICK m \in IdTriples(Own(p)) : \E c, d : /\ w = <<c, d>> /\ m.e = 0
               /\ CallTo(c, m) /\ LeadsTo(c, p, m) /\ CallTo(d, q) /\ LeadsTo(d, m, q)
    BY <1>8
  <2>2. PICK c, d : /\ w = <<c, d>> /\ m.e = 0
               /\ CallTo(c, m) /\ LeadsTo(c, p, m) /\ CallTo(d, q) /\ LeadsTo(d, m, q)
    BY <2>1
  <2> DEFINE z == [x EXCEPT !.uids = Image(f, m)]
  <2>3. m \in IdTriples(D) /\ Image(f, m) \in IdTriples(UIDs)
    BY <1>1, ImageFits DEF CredSet
  <2>4. /\ z \in CredSet /\ z.uids = Image(f, m) /\ z.gids = x.gids /\ z.sups = x.sups
        /\ y.gids = z.gids /\ y.sups = z.sups
    BY <1>3, <2>3 DEF CredSet
  <2> HIDE DEF z
  <2>5. IsList(u) /\ Len(u) = 2 /\ u[1] = OpOf("uids", map, c) /\ u[2] = OpOf("uids", map, d)
    BY <1>4, <2>2, OpsOfWalk
  <2>6. StepTo(OpOf("uids", map, c), x, z, l)
    BY <1>1, <2>2, <2>3, <2>4, UidCallLeads DEF D, f
  <2>7. StepTo(OpOf("uids", map, d), z, y, l)
    BY <1>1, <1>3, <2>2, <2>3, <2>4, UidCallLeads DEF D, f
  <2> QED
    BY <1>3, <2>4, <2>5, <2>6, <2>7, LeadsTwo DEF y
<1> QED
  BY <1>5, <1>6, <1>7, <1>8 DEF IsWalk

\* set_gids_from_graph does so too.
LEMMA GidWalkLeads ==
  ASSUME NEW x \in CredSet, NEW next \in IdTriples(GIDs), NEW np, NEW p, NEW q,
         GidsNormalized(x.gids, next, x.uids.e = 0, np, p, q),
         CanSet(np.prev, np.next), NEW u \in Prescribed("gids", np), NEW l, l.gids = next
  PROVE  Leads(u, x, [x EXCEPT !.gids = next], l)
<1> DEFINE map == np.map
           D   == DOMAIN map
           y   == [x EXCEPT !.gids = next]
<1>1. /\ D \subseteq Normals \ {0} /\ map \in [D -> Nat] /\ \A a, b \in D : map[a] = map[b] => a = b
      /\ p = [r |-> p.r, e |-> p.e, s |-> p.s] /\ p.r \in D /\ p.s \in D
      /\ x.gids.r = map[p.r] /\ x.gids.s = map[p.s]
      /\ IF x.uids.e = 0 THEN p.e = 0 ELSE p.e \in D /\ x.gids.e = map[p.e]
      /\ q \in IdTriples(D) /\ next = Image(map, q)
      /\ np.prev = Lookup(p) /\ np.next = Lookup(q)
  BY DEF GidsNormalized
<1>2. p \in IdTriples(Normals) /\ q \in IdTriples(Normals)
  <2>1. p.r \in Normals /\ p.e \in Normals /\ p.s \in Normals
    BY <1>1, MaxIdsAssumption DEF Normals
  <2>2. p \in IdTriples(Normals)
    BY <1>1, <2>1 DEF IdTriples
  <2> QED
    BY <1>1, <2>2 DEF IdTriples
<1>3. y \in CredSet /\ y.gids = next /\ y.uids = x.uids /\ y.sups = x.sups
  BY DEF CredSet
<1>4. x.gids = [r |-> map[p.r], e |-> x.gids.e, s |-> map[p.s]]
  BY <1>1 DEF CredSet, IdTriples
<1>5. PICK w \in Walks(np.prev, np.next) : u = [i \in DOMAIN w |-> OpOf("gids", map, w[i])]
  BY PrescribedAre
<1>6. IsWalk(w, p, q)
  BY <1>1, <1>2, WalksAre
<1> HIDE DEF D, y, map
<1>7. CASE w = <<>> /\ p = q
  <2>1. x.uids.e # 0
    BY <1>1, <1>7 DEF IdTriples
  <2>2. x.gids = next
    BY <1>1, <1>4, <1>7, <2>1 DEF Image
  <2>3. u = <<>> /\ y = x
    BY <1>5, <1>7, <2>2, OpsOfWalk DEF y, CredSet
  <2> QED
    BY <2>3, LeadsNone DEF y
<1>8. CASE \E c : w = <<c>> /\ CallTo(c, q) /\ LeadsTo(c, p, q)
  <2>1. PICK c : w = <<c>> /\ CallTo(c, q) /\ LeadsTo(c, p, q)
    BY <1>8
  <2>2. IsList(u) /\ Len(u) = 1 /\ u[1] = OpOf("gids", map, c)
    BY <1>5, <2>1, OpsOfWalk
  <2>3. StepTo(OpOf("gids", map, c), x, y, l)
    BY <1>1, <1>3, <1>4, <2>1, GidCallLeads DEF D
  <2> QED
    BY <1>3, <2>2, <2>3, LeadsOne DEF y
<1>9. ~(0 \in Own(p) /\ p.e # 0)
  BY <1>1 DEF Own
<1> QED
  BY <1>6, <1>7, <1>8, <1>9 DEF IsWalk
-----------------------------------------------------------------------------
(***************************************************************************)
(* What the questions to the graph answer about a pair, in the ids of the  *)
(* process.  The maps of a state graph have room for the two ids a gid map *)
(* may hold.                                                               *)
(***************************************************************************)
Wide == MaxNormalizedIds >= 2

Targets == [uids : IdTriples(UIDs), gids : IdTriples(GIDs)]

\* fill_pair normalises the uids, asks the graph whether they can become
\* privileged, and normalises the gids accordingly.
LEMMA NormalizedIs ==
  ASSUME NEW x \in CredSet, NEW to \in Targets, NEW np, np = Normalized(x, to)
  PROVE  /\ np.prev = x /\ np.to = to
         /\ np.uids = NormalizeUids(x.uids, to.uids)
         /\ np.gids = NormalizeGids(x.gids, to.gids,
                                    np.uids.fits /\ Attainable(np.uids.prev, np.uids.prev))
<1> DEFINE u == NormalizeUids(x.uids, to.uids)
           forced == u.fits /\ Attainable(u.prev, u.prev)
<1>1. /\ x.uids \in IdTriples(UIDs) /\ x.gids \in IdTriples(GIDs)
      /\ to.uids \in IdTriples(UIDs) /\ to.gids \in IdTriples(GIDs)
  BY DEF CredSet, Targets
<1>2. NormalUids[x.uids][to.uids] = u
  BY <1>1 DEF NormalUids
<1>3. forced \in BOOLEAN
  OBVIOUS
<1> HIDE DEF u, forced
<1>4. NormalGids[x.gids][to.gids][forced] = NormalizeGids(x.gids, to.gids, forced)
  BY <1>1, <1>3 DEF NormalGids
<1>5. /\ np.prev = x /\ np.to = to /\ np.uids = u
      /\ np.gids = NormalGids[x.gids][to.gids][forced]
  BY <1>2 DEF Normalized, forced
<1> QED
  BY <1>4, <1>5 DEF u, forced

Understood(x, to, np) ==
  /\ np.prev = x /\ np.to = to
  /\ CanSet(np.uids.prev, np.uids.next) <=> 0 \in Own(x.uids) \/ Own(to.uids) \subseteq Own(x.uids)
  /\ PrivilegeAttainable(np) <=> 0 \in Own(x.uids)
  /\ CanSet(np.gids.prev, np.gids.next) <=> 0 \in Own(x.uids) \/ Own(to.gids) \subseteq Own(x.gids)
  /\ 0 \in Own(x.uids) => SuidFor(np.uids.prev, np.uids.next) = AllSame(0)
  /\ \E p, q : UidsNormalized(x.uids, to.uids, np.uids, p, q)
  /\ \E p, q : GidsNormalized(x.gids, to.gids, 0 \in Own(x.uids), np.gids, p, q)

\* Can_set, the privilege the graph promises and the state it elevates to are
\* what they would be for the real ids.
LEMMA PairUnderstood ==
  ASSUME Wide, NEW x \in CredSet, NEW to \in Targets, NEW np, np = Normalized(x, to), Fits(np)
  PROVE  Understood(x, to, np)
<1> DEFINE root == 0 \in Own(x.uids)
           u    == np.uids
           g    == np.gids
<1>1. /\ np.prev = x /\ np.to = to /\ u = NormalizeUids(x.uids, to.uids) /\ u.fits /\ g.fits
      /\ g = NormalizeGids(x.gids, to.gids, u.fits /\ Attainable(u.prev, u.prev))
  BY NormalizedIs DEF Fits
<1>2. /\ x.uids \in IdTriples(UIDs) /\ x.gids \in IdTriples(GIDs)
      /\ to.uids \in IdTriples(UIDs) /\ to.gids \in IdTriples(GIDs)
      /\ UIDs \in SUBSET Nat /\ GIDs \in SUBSET Nat
  BY UidsAssumption, GidsAssumption DEF CredSet, Targets
<1> HIDE DEF u, g
<1>3. PICK p, q : UidsNormalized(x.uids, to.uids, u, p, q)
  BY <1>1, <1>2, UidsNormalize
<1> DEFINE D == Named(u.map)
           f == UidsBack(u.map)
<1>4. /\ D \subseteq Normals /\ f \in [D -> Nat] /\ \A a, b \in D : f[a] = f[b] => a = b
      /\ p \in IdTriples(D) /\ q \in IdTriples(D)
      /\ u.prev = Lookup(p) /\ u.next = Lookup(q)
      /\ x.uids = Image(f, p) /\ to.uids = Image(f, q) /\ 0 \in D /\ f[0] = 0
  BY <1>3 DEF UidsNormalized, Named, UidsBack
<1> HIDE DEF D, f
<1>5. p \in IdTriples(Normals) /\ q \in IdTriples(Normals)
  BY <1>4 DEF IdTriples
<1>6. /\ root <=> 0 \in Own(p)
      /\ Own(to.uids) \subseteq Own(x.uids) <=> Own(q) \subseteq Own(p)
  BY <1>4, ImageOwn
<1> HIDE DEF root
<1>7. CanSet(u.prev, u.next) <=> root \/ Own(to.uids) \subseteq Own(x.uids)
  BY <1>4, <1>5, <1>6, ReachedIff
<1>8. /\ Attainable(u.prev, u.next) <=> root
      /\ root => SuidFor(u.prev, u.next) = AllSame(0)
      /\ Attainable(u.prev, u.prev) <=> root
  BY <1>4, <1>5, <1>6, AttainableIff
<1>9. root \in BOOLEAN /\ (u.fits /\ Attainable(u.prev, u.prev)) = root
  BY <1>1, <1>8 DEF root
<1>10. PICK a, b : GidsNormalized(x.gids, to.gids, root, g, a, b)
  <2>1. g = NormalizeGids(x.gids, to.gids, root)
    BY <1>1, <1>9
  <2> QED
    <3>1. root \in BOOLEAN /\ MaxNormalizedIds >= 2
      BY <1>9 DEF Wide
    <3>2. NormalizeGids(x.gids, to.gids, root).fits =>
            \E a, b : GidsNormalized(x.gids, to.gids, root, NormalizeGids(x.gids, to.gids, root), a, b)
      BY <1>2, <3>1, GidsNormalize
    <3> QED
      BY <1>1, <2>1, <3>2
<1> DEFINE m == g.map
           N == DOMAIN m
<1>11. /\ N \subseteq Normals \ {0} /\ m \in [N -> Nat] /\ \A i, j \in N : m[i] = m[j] => i = j
       /\ a = [r |-> a.r, e |-> a.e, s |-> a.s] /\ a.r \in N /\ a.s \in N
       /\ x.gids.r = m[a.r] /\ x.gids.s = m[a.s]
       /\ IF root THEN a.e = 0 ELSE a.e \in N /\ x.gids.e = m[a.e]
       /\ b \in IdTriples(N) /\ to.gids = Image(m, b)
       /\ g.prev = Lookup(a) /\ g.next = Lookup(b)
  BY <1>10 DEF GidsNormalized
<1> HIDE DEF m, N
<1>12. a \in IdTriples(Normals) /\ b \in IdTriples(Normals)
  <2>1. a.r \in Normals /\ a.e \in Normals /\ a.s \in Normals
    BY <1>11, MaxIdsAssumption DEF Normals
  <2>2. a \in IdTriples(Normals)
    BY <1>11, <2>1 DEF IdTriples
  <2> QED
    BY <1>11, <2>2 DEF IdTriples
<1>13. CanSet(g.prev, g.next) <=> 0 \in Own(a) \/ Own(b) \subseteq Own(a)
  BY <1>11, <1>12, ReachedIff
<1>14. CASE root
  <2>1. CanSet(g.prev, g.next)
    BY <1>11, <1>13, <1>14 DEF Own
  <2> QED
    BY <1>1, <1>3, <1>7, <1>8, <1>10, <1>14, <2>1 DEF Understood, PrivilegeAttainable, u, g, root
<1>15. CASE ~root
  <2>1. 0 \notin Own(a) /\ a \in IdTriples(N)
    BY <1>11, <1>15 DEF Own, IdTriples
  <2>2. x.gids = Image(m, a)
    BY <1>2, <1>11, <1>15 DEF Image, IdTriples
  <2>3. Own(to.gids) \subseteq Own(x.gids) <=> Own(b) \subseteq Own(a)
    BY <1>11, <2>1, <2>2, ImageOwn
  <2>4. CanSet(g.prev, g.next) <=> Own(to.gids) \subseteq Own(x.gids)
    BY <1>13, <2>1, <2>3
  <2> QED
    BY <1>1, <1>3, <1>7, <1>8, <1>10, <1>15, <2>4 DEF Understood, PrivilegeAttainable, u, g, root
<1> QED
  BY <1>14, <1>15
-----------------------------------------------------------------------------
(***************************************************************************)
(* fill_pair.                                                              *)
(***************************************************************************)
\* What the caller asked for, of the credentials it had.
Promised(x, rq, to) ==
  IF rq.permanent THEN to.uids = AllSame(rq.uid) /\ to.gids = AllSame(rq.gid)
  ELSE /\ to.uids.e = rq.uid /\ x.uids.e \in {to.uids.r, to.uids.s}
       /\ to.gids.e = rq.gid /\ x.gids.e \in {to.gids.r, to.gids.s}

\* get_pairs_temporary: every candidate has the new id as its effective one and
\* keeps the old.
LEMMA TemporaryIdsFit ==
  ASSUME NEW S, NEW prev \in IdTriples(S), NEW id \in S, NEW i \in 1 .. 5
  PROVE  LET T == TemporaryIds(prev, id)[i]
         IN  /\ T \in IdTriples(S) /\ Own(T) \subseteq Own(prev) \cup {id}
             /\ T.e = id /\ prev.e \in {T.r, T.s}
             /\ i = 1 => T = [r |-> prev.r, e |-> id, s |-> prev.e]
<1>1. prev.r \in S /\ prev.e \in S /\ prev.s \in S
  BY DEF IdTriples
<1>2. i = 1 \/ i = 2 \/ i = 3 \/ i = 4 \/ i = 5
  OBVIOUS
<1>3. CASE i = 1
  BY <1>1, <1>3 DEF TemporaryIds, IdTriples, Own
<1>4. CASE i = 2
  BY <1>1, <1>4 DEF TemporaryIds, IdTriples, Own
<1>5. CASE i = 3
  BY <1>1, <1>5 DEF TemporaryIds, IdTriples, Own
<1>6. CASE i = 4
  BY <1>1, <1>6 DEF TemporaryIds, IdTriples, Own
<1>7. CASE i = 5
  BY <1>1, <1>7 DEF TemporaryIds, IdTriples, Own
<1> QED
  BY <1>2, <1>3, <1>4, <1>5, <1>6, <1>7

\* Every candidate would keep the promise; the first asks for no id the process
\* does not hold but the new ones.
LEMMA CandidatesFit ==
  ASSUME NEW x \in CredSet, NEW rq \in Requests, rq.sane
  PROVE  /\ rq.uid \in UIDs /\ rq.gid \in GIDs /\ rq.sups \in SupLists \cup {DontChange}
         /\ rq.permanent \in BOOLEAN
         /\ \E n \in Nat \ {0} : DOMAIN Candidates(x, rq) = 1 .. n
         /\ \A k \in DOMAIN Candidates(x, rq) :
              LET to == Candidates(x, rq)[k]
              IN  /\ to \in Targets /\ Promised(x, rq, to)
                  /\ Own(to.uids) \subseteq Own(x.uids) \cup {rq.uid}
         /\ LET to == Candidates(x, rq)[1]
            IN  /\ rq.uid \in Own(x.uids) => Own(to.uids) \subseteq Own(x.uids)
                /\ rq.gid \in Own(x.gids) => Own(to.gids) \subseteq Own(x.gids)
<1>1. /\ rq.uid \in UIDs /\ rq.gid \in GIDs /\ rq.sups \in SupLists \cup {DontChange}
      /\ rq.permanent \in BOOLEAN
  <2>1. rq # Insane
    BY DEF Insane
  <2>2. rq \in [uid : UIDs, gid : GIDs, sups : SupLists \cup {DontChange},
                permanent : BOOLEAN, sane : {TRUE}]
    BY <2>1 DEF Requests
  <2> QED
    BY <2>2
<1>2. x.uids \in IdTriples(UIDs) /\ x.gids \in IdTriples(GIDs)
  BY DEF CredSet
<1>3. CASE rq.permanent
  <2> DEFINE to == [uids |-> AllSame(rq.uid), gids |-> AllSame(rq.gid)]
             C  == Candidates(x, rq)
  <2>1. DOMAIN C = 1 .. 1 /\ C[1] = to
    BY <1>3 DEF Candidates
  <2>2. to \in Targets /\ Own(to.uids) = {rq.uid} /\ Own(to.gids) = {rq.gid} /\ Promised(x, rq, to)
    BY <1>1, <1>3 DEF Targets, IdTriples, AllSame, Own, Promised
  <2> HIDE DEF to, C
  <2>3. \A k \in DOMAIN C : C[k] = to
    BY <2>1
  <2> QED
    BY <1>1, <2>1, <2>2, <2>3 DEF C
<1>4. CASE ~rq.permanent
  <2> DEFINE C    == Candidates(x, rq)
             I(k) == ((k - 1) \div 5) + 1
             J(k) == ((k - 1) % 5) + 1
             U(k) == TemporaryIds(x.uids, rq.uid)[I(k)]
             G(k) == TemporaryIds(x.gids, rq.gid)[J(k)]
  <2>1. C = [k \in 1 .. 25 |-> [uids |-> U(k), gids |-> G(k)]]
    BY <1>4 DEF Candidates, TemporaryPairs
  <2>2. \A k \in 1 .. 25 : I(k) \in 1 .. 5 /\ J(k) \in 1 .. 5
    OBVIOUS
  <2>3. I(1) = 1 /\ J(1) = 1
    OBVIOUS
  <2> HIDE DEF I, J, C
  <2>4. ASSUME NEW k \in 1 .. 25
        PROVE  /\ U(k) \in IdTriples(UIDs) /\ Own(U(k)) \subseteq Own(x.uids) \cup {rq.uid}
               /\ U(k).e = rq.uid /\ x.uids.e \in {U(k).r, U(k).s}
               /\ I(k) = 1 => U(k) = [r |-> x.uids.r, e |-> rq.uid, s |-> x.uids.e]
    BY <1>1, <1>2, <2>2, TemporaryIdsFit
  <2>5. ASSUME NEW k \in 1 .. 25
        PROVE  /\ G(k) \in IdTriples(GIDs)
               /\ G(k).e = rq.gid /\ x.gids.e \in {G(k).r, G(k).s}
               /\ J(k) = 1 => G(k) = [r |-> x.gids.r, e |-> rq.gid, s |-> x.gids.e]
    BY <1>1, <1>2, <2>2, TemporaryIdsFit
  <2> HIDE DEF U, G
  <2>6. DOMAIN C = 1 .. 25 /\ \A k \in 1 .. 25 : C[k] = [uids |-> U(k), gids |-> G(k)]
    BY <2>1
  <2>7. ASSUME NEW k \in DOMAIN C
        PROVE  /\ C[k] \in Targets /\ Promised(x, rq, C[k])
               /\ Own(C[k].uids) \subseteq Own(x.uids) \cup {rq.uid}
    BY <1>4, <2>4, <2>5, <2>6 DEF Targets, Promised
  <2>8. /\ rq.uid \in Own(x.uids) => Own(C[1].uids) \subseteq Own(x.uids)
        /\ rq.gid \in Own(x.gids) => Own(C[1].gids) \subseteq Own(x.gids)
    <3>1. /\ C[1].uids = [r |-> x.uids.r, e |-> rq.uid, s |-> x.uids.e]
          /\ C[1].gids = [r |-> x.gids.r, e |-> rq.gid, s |-> x.gids.e]
      BY <2>3, <2>4, <2>5, <2>6
    <3> QED
      BY <3>1 DEF Own
  <2>9. 25 \in Nat \ {0}
    OBVIOUS
  <2> QED
    BY <1>1, <2>6, <2>7, <2>8, <2>9 DEF C
<1> QED
  BY <1>1, <1>3, <1>4

Judgements == {"aborted", "success", "setgid_failed", "setuid_failed", "setuid_setgid_failed"}

\* The search ends with a candidate that fails least.
LEMMA FillPairIs ==
  ASSUME NEW x \in CredSet, NEW rq \in Requests, rq.sane
  PROVE  \E k \in DOMAIN Candidates(x, rq) :
           LET np == Normalized(x, Candidates(x, rq)[k])
           IN  /\ FillPair(x, rq) = [status |-> Judgement(np, rq), np |-> np]
               /\ \A j \in DOMAIN Candidates(x, rq) :
                    Severity[Judgement(np, rq)]
                    <= Severity[Judgement(Normalized(x, Candidates(x, rq)[j]), rq)]
<1> DEFINE C == Candidates(x, rq)
           np     == [k \in DOMAIN C |-> Normalized(x, C[k])]
           status == [k \in DOMAIN C |-> Judgement(np[k], rq)]
           sev    == [k \in DOMAIN C |-> Severity[status[k]]]
           tried  == {[at |-> k, status |-> Judgement(np[k], rq)] : k \in DOMAIN C}
           Best(c) == \A d \in tried : \/ Severity[c.status] < Severity[d.status]
                                       \/ Severity[c.status] = Severity[d.status] /\ c.at <= d.at
           best   == CHOOSE c \in tried : Best(c)
<1>1. FillPair(x, rq) = [status |-> best.status, np |-> np[best.at]]
  BY DEF FillPair
<1>2. PICK n \in Nat \ {0} : DOMAIN C = 1 .. n
  BY CandidatesFit
<1>3. \A k \in DOMAIN C : np[k] = Normalized(x, C[k]) /\ status[k] = Judgement(np[k], rq)
  OBVIOUS
<1>4. \A k \in DOMAIN C : status[k] \in Judgements
  BY DEF Judgement, Judgements
<1>5. tried = {[at |-> k, status |-> status[k]] : k \in DOMAIN C}
  OBVIOUS
<1> HIDE DEF np, C, status, tried
<1>6. \A k \in DOMAIN C : sev[k] = Severity[status[k]] /\ sev[k] \in Nat
  BY <1>4 DEF Judgements, Severity
<1> HIDE DEF sev
<1>7. \E c \in tried : Best(c)
  <2> DEFINE all == {sev[k] : k \in DOMAIN C}
  <2>1. all \in SUBSET Nat /\ all # {}
    <3>1. \A k \in DOMAIN C : sev[k] \in Nat
      BY <1>6
    <3>2. 1 \in DOMAIN C
      BY <1>2
    <3> QED
      BY <3>1, <3>2
  <2>2. PICK m \in all : \A j \in all : m <= j
    BY <2>1, FirstExists
  <2> DEFINE least == {k \in DOMAIN C : sev[k] = m}
  <2>3. least \in SUBSET Nat /\ least # {}
    BY <1>2, <2>2
  <2>4. PICK k \in least : \A j \in least : k <= j
    BY <2>3, FirstExists
  <2>5. ASSUME NEW j \in DOMAIN C PROVE sev[k] < sev[j] \/ (sev[k] = sev[j] /\ k <= j)
    <3>1. sev[j] \in all /\ sev[k] = m /\ m <= sev[j] /\ m \in Nat /\ sev[j] \in Nat
      BY <1>6, <2>1, <2>2, <2>4
    <3>2. CASE sev[j] = m
      BY <2>4, <3>1, <3>2
    <3>3. CASE sev[j] # m
      BY <3>1, <3>3
    <3> QED
      BY <3>2, <3>3
  <2> DEFINE c == [at |-> k, status |-> status[k]]
  <2>6. k \in DOMAIN C /\ c \in tried
    BY <1>5, <2>4
  <2>7. Best(c)
    BY <1>5, <1>6, <2>5, <2>6
  <2> QED
    BY <2>6, <2>7
<1>8. best \in tried /\ Best(best)
  BY <1>7
<1> HIDE DEF best
<1>9. PICK k \in DOMAIN C : best = [at |-> k, status |-> status[k]]
  BY <1>5, <1>8
<1>10. ASSUME NEW j \in DOMAIN C PROVE sev[k] <= sev[j]
  <2>1. [at |-> j, status |-> status[j]] \in tried
    BY <1>5
  <2> QED
    BY <1>6, <1>8, <1>9, <2>1
<1>11. FillPair(x, rq) = [status |-> Judgement(np[k], rq), np |-> np[k]]
  BY <1>1, <1>3, <1>9
<1> QED
  BY <1>3, <1>6, <1>10, <1>11 DEF C

\* The verdict on one pair, for a process whose groups are those of x.
LEMMA JudgementIs ==
  ASSUME Wide, NEW x \in CredSet, NEW to \in Targets, NEW np, np = Normalized(x, to), NEW rq
  PROVE  LET j == Judgement(np, rq)
         IN  /\ j \in Judgements /\ (j = "aborted" <=> ~Fits(np))
             /\ j = "success" =>
                  /\ 0 \in Own(x.uids) \/ Own(to.uids) \subseteq Own(x.uids)
                  /\ SupsChangeNeeded(x, rq) => 0 \in Own(x.uids)
                  /\ x.gids # to.gids => 0 \in Own(x.uids) \/ Own(to.gids) \subseteq Own(x.gids)
             /\ Fits(np) /\ 0 \in Own(x.uids) => j = "success"
             /\ /\ Fits(np) /\ Own(to.uids) \subseteq Own(x.uids)
                /\ Own(to.gids) \subseteq Own(x.gids) /\ ~SupsChangeNeeded(x, rq)
                => j = "success"
<1> DEFINE j == Judgement(np, rq)
<1>1. CASE ~Fits(np)
  BY <1>1 DEF Judgement, Judgements
<1>2. CASE Fits(np)
  <2>1. Understood(x, to, np)
    BY <1>2, PairUnderstood
  <2> DEFINE root   == 0 \in Own(x.uids)
             uidsOk == root \/ Own(to.uids) \subseteq Own(x.uids)
             gidsOk == /\ SupsChangeNeeded(x, rq) => root
                       /\ x.gids # to.gids => root \/ Own(to.gids) \subseteq Own(x.gids)
  <2>2. /\ np.prev = x /\ np.to = to
        /\ CanSet(np.uids.prev, np.uids.next) <=> uidsOk
        /\ (np.prev.uids.e = 0 \/ PrivilegeAttainable(np)) <=> root
        /\ CanSet(np.gids.prev, np.gids.next) <=> root \/ Own(to.gids) \subseteq Own(x.gids)
    BY <2>1 DEF Understood, Own
  <2>3. j = IF uidsOk THEN (IF gidsOk THEN "success" ELSE "setgid_failed")
            ELSE (IF gidsOk THEN "setuid_failed" ELSE "setuid_setgid_failed")
    BY <1>2, <2>2 DEF Judgement, GroupsChangeNeeded
  <2> HIDE DEF j, root
  <2>4. j \in Judgements /\ j # "aborted" /\ (j = "success" <=> uidsOk /\ gidsOk)
    BY <2>3 DEF Judgements
  <2> QED
    BY <1>2, <2>4 DEF j, root
<1> QED
  BY <1>1, <1>2

(***************************************************************************)
(* Where the maps have room for the ids of every pair, no pair fails the   *)
(* assertions about them.                                                  *)
(***************************************************************************)
Roomy ==
  /\ \/ MaxNormalizedIds >= 5
     \/ IsFiniteSet(UIDs) /\ Cardinality(UIDs \ {0}) < MaxNormalizedIds
  /\ IsFiniteSet(GIDs) /\ Cardinality(GIDs) < GidMapLimit

\* One element more is one more at most.
LEMMA OneMore ==
  ASSUME NEW S, NEW n \in Nat, IsFiniteSet(S), Cardinality(S) \in Nat, Cardinality(S) <= n, NEW x
  PROVE  IsFiniteSet(S \cup {x}) /\ Cardinality(S \cup {x}) \in Nat /\ Cardinality(S \cup {x}) <= n + 1
<1>1. /\ IsFiniteSet(S \cup {x})
      /\ Cardinality(S \cup {x}) = IF x \in S THEN Cardinality(S) ELSE Cardinality(S) + 1
  BY FS_AddElement
<1> QED
  BY <1>1

\* Four ids are four at most.
LEMMA FourAtMost ==
  ASSUME NEW a, NEW b, NEW c, NEW d, NEW S \in SUBSET {a, b, c, d}
  PROVE  IsFiniteSet(S) /\ Cardinality(S) \in Nat /\ Cardinality(S) <= 4
<1> DEFINE A == {a}
           B == A \cup {b}
           C == B \cup {c}
           D == C \cup {d}
           AtMost(T, n) == IsFiniteSet(T) /\ Cardinality(T) \in Nat /\ Cardinality(T) <= n
<1>1. AtMost(A, 1)
  <2>1. IsFiniteSet(A) /\ Cardinality(A) = 1
    BY FS_Singleton
  <2> QED
    BY <2>1
<1>2. S \in SUBSET D
  OBVIOUS
<1>3. ASSUME NEW T, NEW n \in Nat, NEW m \in Nat, m = n + 1, NEW x, AtMost(T, n)
      PROVE  AtMost(T \cup {x}, m)
  BY <1>3, OneMore
<1> HIDE DEF A, B, C, D, AtMost
<1>4. 1 \in Nat /\ 2 \in Nat /\ 3 \in Nat /\ 4 \in Nat /\ 2 = 1 + 1 /\ 3 = 2 + 1 /\ 4 = 3 + 1
  OBVIOUS
<1>5. AtMost(B, 2)
  BY <1>1, <1>3, <1>4, Zenon DEF B
<1>6. AtMost(C, 3)
  BY <1>3, <1>4, <1>5, Zenon DEF C
<1>7. AtMost(D, 4)
  BY <1>3, <1>4, <1>6, Zenon DEF D
<1>8. IsFiniteSet(D) /\ Cardinality(D) <= 4
  BY <1>7 DEF AtMost
<1> QED
  BY <1>2, <1>8, FS_Subset, FS_CardinalityType

\* The assertions of normalize_single_uid and normalize_single_gid hold.
LEMMA RoomyFits ==
  ASSUME Roomy, Wide, NEW x \in CredSet, NEW to \in Targets, NEW id,
         \/ Own(to.uids) \subseteq Own(x.uids) \cup {id}
         \/ x.uids = AllSame(0)
  PROVE  Fits(Normalized(x, to))
<1> DEFINE np == Normalized(x, to)
           all == (Own(x.uids) \cup Own(to.uids)) \ {0}
           met == Own(x.gids) \cup Own(to.gids)
           forced == np.uids.fits /\ Attainable(np.uids.prev, np.uids.prev)
<1>1. /\ np.uids = NormalizeUids(x.uids, to.uids)
      /\ np.gids = NormalizeGids(x.gids, to.gids, forced)
  BY NormalizedIs
<1>2. /\ x.uids \in IdTriples(UIDs) /\ x.gids \in IdTriples(GIDs)
      /\ to.uids \in IdTriples(UIDs) /\ to.gids \in IdTriples(GIDs)
      /\ UIDs \in SUBSET Nat /\ GIDs \in SUBSET Nat /\ forced \in BOOLEAN
  BY UidsAssumption, GidsAssumption DEF CredSet, Targets
<1> HIDE DEF np, forced, all, met
<1>3. Cardinality(all) < MaxNormalizedIds
  <2>1. CASE MaxNormalizedIds >= 5
    <3>1. \E a, b, c, d : all \in SUBSET {a, b, c, d}
      <4>1. CASE Own(to.uids) \subseteq Own(x.uids) \cup {id}
        <5>1. all \in SUBSET {x.uids.r, x.uids.e, x.uids.s, id}
          BY <4>1 DEF all, Own
        <5> QED
          BY <5>1
      <4>2. CASE x.uids = AllSame(0)
        <5>1. all \in SUBSET {to.uids.r, to.uids.e, to.uids.s, 0}
          BY <4>2 DEF all, Own, AllSame
        <5> QED
          BY <5>1
      <4> QED
        BY <4>1, <4>2
    <3>2. Cardinality(all) \in Nat /\ Cardinality(all) <= 4
      BY <3>1, FourAtMost
    <3> QED
      BY <2>1, <3>2, MaxIdsAssumption
  <2>2. CASE IsFiniteSet(UIDs) /\ Cardinality(UIDs \ {0}) < MaxNormalizedIds
    <3>1. all \in SUBSET (UIDs \ {0})
      BY <1>2 DEF all, Own, IdTriples
    <3>2. IsFiniteSet(UIDs \ {0})
      BY <2>2, FS_Subset
    <3>3. Cardinality(all) <= Cardinality(UIDs \ {0}) /\ IsFiniteSet(all)
      BY <3>1, <3>2, FS_Subset
    <3>4. Cardinality(all) \in Nat /\ Cardinality(UIDs \ {0}) \in Nat
      BY <3>2, <3>3, FS_CardinalityType
    <3> QED
      BY <2>2, <3>3, <3>4, MaxIdsAssumption
  <2> QED
    BY <2>1, <2>2 DEF Roomy
<1>4. Cardinality(met) < GidMapLimit
  <2>1. met \in SUBSET GIDs /\ IsFiniteSet(GIDs) /\ Cardinality(GIDs) < 3
    BY <1>2 DEF met, Own, IdTriples, Roomy, GidMapLimit
  <2>2. Cardinality(met) <= Cardinality(GIDs) /\ IsFiniteSet(met)
    BY <2>1, FS_Subset
  <2>3. Cardinality(met) \in Nat /\ Cardinality(GIDs) \in Nat
    BY <2>1, <2>2, FS_CardinalityType
  <2> QED
    BY <2>1, <2>2, <2>3 DEF GidMapLimit
<1>5. np.uids.fits
  BY <1>1, <1>2, <1>3, UidsNormalize DEF all
<1>6. np.gids.fits
  <2>1. MaxNormalizedIds >= 2 /\ forced \in BOOLEAN
    BY <1>2 DEF Wide
  <2>2. NormalizeGids(x.gids, to.gids, forced).fits
    BY <1>2, <1>4, <2>1, GidsNormalize DEF met
  <2> QED
    BY <1>1, <2>2
<1> QED
  BY <1>5, <1>6 DEF Fits, np
-----------------------------------------------------------------------------
(***************************************************************************)
(* The plans.                                                              *)
(***************************************************************************)
\* The uid calls of a pair, wherever in a plan they are made.
LEMMA UidsPart ==
  ASSUME NEW x \in CredSet, NEW to \in Targets, NEW np, Understood(x, to, np),
         0 \in Own(x.uids) \/ Own(to.uids) \subseteq Own(x.uids),
         NEW z \in CredSet, z.uids = x.uids, NEW u \in UidCalls(np), NEW l
  PROVE  Leads(u, z, [z EXCEPT !.uids = to.uids], l)
<1>1. PICK p, q : UidsNormalized(z.uids, to.uids, np.uids, p, q)
  BY DEF Understood
<1>2. CanSet(np.uids.prev, np.uids.next) /\ to.uids \in IdTriples(UIDs)
  BY DEF Understood, Targets
<1>3. u \in Prescribed("uids", np.uids)
  BY DEF UidCalls
<1> QED
  BY <1>1, <1>2, <1>3, UidWalkLeads

\* The gid calls, made by a process that is privileged by then if it can be.
LEMMA GidsPart ==
  ASSUME NEW x \in CredSet, NEW to \in Targets, NEW np, Understood(x, to, np),
         x.gids # to.gids => 0 \in Own(x.uids) \/ Own(to.gids) \subseteq Own(x.gids),
         NEW z \in CredSet, z.gids = x.gids, z.uids.e = 0 <=> 0 \in Own(x.uids),
         NEW g \in GidCalls(np), NEW l, l.gids = to.gids
  PROVE  /\ Leads(If(GroupsChangeNeeded(np.prev, np.to), g), z, [z EXCEPT !.gids = to.gids], l)
         /\ 0 \in Own(x.uids) => Leads(g, z, [z EXCEPT !.gids = to.gids], l)
<1> DEFINE root == 0 \in Own(x.uids)
           y    == [z EXCEPT !.gids = to.gids]
<1>1. PICK p, q : GidsNormalized(z.gids, to.gids, z.uids.e = 0, np.gids, p, q)
  <2>1. PICK p, q : GidsNormalized(z.gids, to.gids, root, np.gids, p, q)
    BY DEF Understood
  <2>2. GidsNormalized(z.gids, to.gids, z.uids.e = 0, np.gids, p, q)
    BY <2>1 DEF GidsNormalized
  <2> QED
    BY <2>2
<1>2. /\ to.gids \in IdTriples(GIDs)
      /\ g \in Prescribed("gids", np.gids)
      /\ CanSet(np.gids.prev, np.gids.next) <=> root \/ Own(to.gids) \subseteq Own(x.gids)
      /\ np.prev = x /\ np.to = to
  BY DEF Targets, GidCalls, Understood
<1> HIDE DEF root
<1>3. ASSUME CanSet(np.gids.prev, np.gids.next) PROVE Leads(g, z, y, l)
  <2>1. Leads(g, z, [z EXCEPT !.gids = to.gids], l)
    BY <1>1, <1>2, <1>3, GidWalkLeads
  <2> QED
    BY <2>1
<1>4. GroupsChangeNeeded(np.prev, np.to) <=> x.gids # to.gids
  BY <1>2 DEF GroupsChangeNeeded
<1>5. CASE x.gids # to.gids
  <2>1. CanSet(np.gids.prev, np.gids.next)
    BY <1>2, <1>5 DEF root
  <2>2. If(GroupsChangeNeeded(np.prev, np.to), g) = g
    BY <1>4, <1>5 DEF If
  <2> QED
    BY <1>3, <2>1, <2>2
<1>6. CASE x.gids = to.gids
  <2>1. If(GroupsChangeNeeded(np.prev, np.to), g) = <<>>
    BY <1>4, <1>6 DEF If
  <2>2. y = z
    BY <1>6 DEF CredSet
  <2>3. Leads(<<>>, z, y, l)
    BY <2>2, LeadsNone
  <2> QED
    BY <1>2, <1>3, <2>1, <2>3 DEF root
<1> QED
  BY <1>5, <1>6

\* setgroups, made by root.
LEMMA SupsPart ==
  ASSUME NEW z \in CredSet, z.uids.e = 0, NEW l, l.sups \in SupLists
  PROVE  Leads(<<SetSups>>, z, [z EXCEPT !.sups = l.sups], l)
<1> DEFINE y == [z EXCEPT !.sups = l.sups]
           w == <<SetSups>>
<1>1. y \in CredSet /\ y.uids = z.uids /\ y.gids = z.gids /\ y.sups = l.sups
  BY DEF CredSet
<1>2. w \in Seq({SetSups}) /\ Len(w) = 1 /\ w[1].op = "sups"
  BY DEF SetSups
<1> HIDE DEF y, w
<1>3. StepTo(w[1], z, y, l) /\ IsList(w)
  BY <1>1, <1>2 DEF StepTo, IsList
<1>4. Leads(w, z, y, l)
  BY <1>1, <1>2, <1>3, LeadsOne
<1> QED
  BY <1>4 DEF y, w

\* What a request leaves of the supplementary groups: the list that was asked
\* for or, where nothing had to be changed, the old one.
SupsAsAsked(x, rq) ==
  rq.sups = DontChange \/ x.sups = rq.sups \/ x.sups \ {x.gids.e} = rq.sups

\* The graph has a way for every change that is needed.
Suited(x, rq, to) ==
  /\ 0 \in Own(x.uids) \/ Own(to.uids) \subseteq Own(x.uids)
  /\ SupsAsAsked(x, rq) \/ 0 \in Own(x.uids)
  /\ x.gids # to.gids => 0 \in Own(x.uids) \/ Own(to.gids) \subseteq Own(x.gids)

\* What the gid and setgroups calls of a plan aim at.
Aim(rq, to) == [gids |-> to.gids, sups |-> ListOf(rq)]

Reaches(x, rq, to, y) ==
  /\ y \in CredSet /\ y.uids = to.uids /\ y.gids = to.gids
  /\ y.sups = ListOf(rq) \/ (y.sups = x.sups /\ SupsAsAsked(x, rq))

\* The list given to set_sups is one of the model's.
LEMMA ListFits ==
  ASSUME NEW rq, rq.sups \in SupLists \cup {DontChange}
  PROVE  ListOf(rq) \in SupLists
BY SupsAssumption DEF ListOf

\* get_pcred reads what the process has.
LEMMA ReadIsCreds ==
  ASSUME Creds \in CredSet
  PROVE  /\ ReadCreds(FALSE) = Creds
         /\ Creds.uids = uids /\ Creds.gids = gids /\ Creds.sups = sups
         /\ uids \in IdTriples(UIDs) /\ gids \in IdTriples(GIDs) /\ sups \in SupLists
         /\ \A rq : SupsChangeNeeded(Creds, rq) <=> ~SupsAsAsked(Creds, rq)
<1>1. /\ Creds.uids = uids /\ Creds.gids = gids /\ Creds.sups = sups
      /\ uids \in IdTriples(UIDs) /\ gids \in IdTriples(GIDs) /\ sups \in SupLists
  BY DEF Creds, CredSet
<1>2. [uids EXCEPT !.e = uids.e] = uids
  BY <1>1 DEF IdTriples
<1>3. ReadCreds(FALSE) = Creds
  BY <1>2 DEF ReadCreds, Creds
<1>4. \A rq : SupsChangeNeeded(Creds, rq) <=> ~SupsAsAsked(Creds, rq)
  BY <1>1 DEF SupsChangeNeeded, EqlSups, SupsAsAsked
<1> QED
  BY <1>1, <1>3, <1>4

\* The calls after an elevation, and what they leave.
LEMMA FullPlansLead ==
  ASSUME Wide, Creds \in CredSet, uids = AllSame(0), NEW to \in Targets, NEW np,
         np = Normalized(Creds, to), Fits(np), NEW rq, rq.sups \in SupLists \cup {DontChange},
         NEW x \in CredSet, NEW plan \in FullPlans(np)
  PROVE  \E y : Leads(plan, Creds, y, Aim(rq, to)) /\ Reaches(x, rq, to, y)
<1> DEFINE c  == Creds
           l  == Aim(rq, to)
           c1 == [c EXCEPT !.sups = l.sups]
           c2 == [c1 EXCEPT !.gids = to.gids]
           c3 == [c2 EXCEPT !.uids = to.uids]
<1>1. Understood(c, to, np)
  BY PairUnderstood
<1>2. PICK g \in GidCalls(np), u \in UidCalls(np) : plan = <<SetSups>> \o g \o u
  BY DEF FullPlans
<1>3. /\ l.sups = ListOf(rq) /\ l.sups \in SupLists /\ l.gids = to.gids
      /\ c.uids.e = 0 /\ 0 \in Own(c.uids) /\ c \in CredSet
  BY ListFits, ReadIsCreds DEF AllSame, Own, Aim
<1> HIDE DEF c, l
<1>4. c1 \in CredSet /\ c1.uids = c.uids /\ c1.gids = c.gids /\ c1.sups = l.sups
  BY <1>3 DEF CredSet
<1>5. Leads(<<SetSups>>, c, c1, l)
  BY <1>3, SupsPart
<1> HIDE DEF c1
<1>6. c2 \in CredSet /\ c2.uids = c.uids /\ c2.gids = to.gids /\ c2.sups = l.sups
  BY <1>4 DEF CredSet, Targets
<1>7. Leads(g, c1, c2, l)
  BY <1>1, <1>2, <1>3, <1>4, GidsPart
<1> HIDE DEF c2
<1>8. c3 \in CredSet /\ c3.uids = to.uids /\ c3.gids = to.gids /\ c3.sups = l.sups
  BY <1>6 DEF CredSet, Targets
<1>9. Leads(u, c2, c3, l)
  BY <1>1, <1>2, <1>3, <1>6, UidsPart
<1> HIDE DEF c3
<1>10. Leads(<<SetSups>> \o g, c, c2, l)
  BY <1>5, <1>7, LeadsOn
<1>11. Leads(plan, c, c3, l)
  BY <1>2, <1>9, <1>10, LeadsOn
<1> QED
  BY <1>3, <1>8, <1>11 DEF Reaches, c, l

\* A plan to become root, x being the credentials now, and then to read the
\* credentials again.
Elevates(plan, x, l) ==
  \E w, y : plan = w \o <<Replan>> /\ Leads(w, x, y, l) /\ y.uids = AllSame(0)

\* change_identity_elevate_for_sups, up to where it reads the credentials again.
LEMMA ElevationsLead ==
  ASSUME Wide, Creds \in CredSet, 0 \in Own(uids), NEW to \in Targets, NEW np,
         np = Normalized(Creds, to), Fits(np), NEW l, NEW plan \in Elevations(np)
  PROVE  \/ Elevates(plan, Creds, l)
         \/ ~Roomy /\ plan = <<AssertFails>>
<1> DEFINE stop == SuidFor(np.uids.prev, np.uids.next)
           map  == np.uids.map
           name == [id \in DOMAIN map \cup {0} |-> IF id = 0 THEN 0 ELSE map[id]]
           aim  == [uids |-> Renamed(stop, name), gids |-> gids]
           up   == NormalizedNow(aim)
<1>1. Understood(Creds, to, np) /\ Creds.uids = uids /\ Creds.gids = gids
  BY PairUnderstood, ReadIsCreds
<1>2. stop = AllSame(0)
  BY <1>1 DEF Understood
<1>3. name[0] = 0
  OBVIOUS
<1> HIDE DEF stop, name
<1>4. aim = [uids |-> AllSame(0), gids |-> gids] /\ aim.uids = AllSame(0) /\ aim.gids = gids
  BY <1>2, <1>3 DEF Renamed, AllSame
<1> HIDE DEF aim
<1>5. aim \in Targets
  BY <1>4, ReadIsCreds, UidsAssumption DEF Targets, IdTriples, AllSame
<1>6. up = Normalized(Creds, aim)
  BY ReadIsCreds DEF NormalizedNow
<1>7. plan \in IF Fits(up) THEN {u \o <<Replan>> : u \in UidCalls(up)} ELSE {<<AssertFails>>}
  BY DEF Elevations, aim, name, stop
<1> HIDE DEF up
<1>8. CASE Fits(up)
  <2>1. Understood(Creds, aim, up)
    BY <1>5, <1>6, <1>8, PairUnderstood
  <2>2. PICK u \in UidCalls(up) : plan = u \o <<Replan>>
    BY <1>7, <1>8
  <2>3. Leads(u, Creds, [Creds EXCEPT !.uids = aim.uids], l)
    BY <1>1, <1>5, <2>1, <2>2, UidsPart
  <2>4. [Creds EXCEPT !.uids = aim.uids].uids = AllSame(0)
    BY <1>4 DEF CredSet
  <2> QED
    BY <2>2, <2>3, <2>4 DEF Elevates
<1>9. CASE ~Fits(up)
  <2>1. Own(aim.uids) \subseteq Own(Creds.uids) \cup {0}
    BY <1>4 DEF Own, AllSame
  <2>2. ~Roomy
    BY <1>5, <1>6, <1>9, <2>1, RoomyFits
  <2> QED
    BY <1>7, <1>9, <2>2
<1> QED
  BY <1>8, <1>9

\* change_identity_basic: in each of its three orders the groups are changed
\* while the process is privileged, or need no privilege.
LEMMA BasicPlansLead ==
  ASSUME Wide, Creds \in CredSet, NEW to \in Targets, NEW np, np = Normalized(Creds, to),
         NEW rq, rq.sups \in SupLists \cup {DontChange}, Fits(np), Suited(Creds, rq, to),
         NEW plan \in BasicPlans(np, rq)
  PROVE  \/ \E y : Leads(plan, Creds, y, Aim(rq, to)) /\ Reaches(Creds, rq, to, y)
         \/ Elevates(plan, Creds, Aim(rq, to))
         \/ ~Roomy /\ plan = <<AssertFails>>
<1> DEFINE c     == Creds
           root  == 0 \in Own(c.uids)
           needs == SupsChangeNeeded(c, rq)
           l     == Aim(rq, to)
           ms    == If(SupsChangeNeeded(np.prev, rq), <<SetSups>>)
           mg(g) == If(GroupsChangeNeeded(np.prev, np.to), g)
           list  == IF needs THEN l.sups ELSE c.sups
<1>1. /\ Fits(np) /\ Understood(c, to, np)
      /\ root \/ Own(to.uids) \subseteq Own(c.uids)
      /\ needs => root
      /\ c.gids # to.gids => root \/ Own(to.gids) \subseteq Own(c.gids)
  <2>1. Understood(c, to, np)
    BY PairUnderstood
  <2> QED
    BY <2>1, ReadIsCreds DEF Suited
<1>2. /\ np.prev = c /\ np.to = to /\ (PrivilegeAttainable(np) <=> root) /\ c.uids = uids
      /\ l.sups = ListOf(rq) /\ l.sups \in SupLists /\ l.gids = to.gids
      /\ list \in SupLists /\ (~needs => SupsAsAsked(c, rq))
      /\ c \in CredSet /\ (list = l.sups \/ (list = c.sups /\ ~needs))
  BY <1>1, ListFits, ReadIsCreds DEF Understood, Aim
<1>3. ASSUME NEW z \in CredSet, z.sups = c.sups, needs => z.uids.e = 0
      PROVE  Leads(ms, z, [z EXCEPT !.sups = list], l)
  <2>1. CASE needs
    <3>1. ms = <<SetSups>> /\ list = l.sups
      BY <1>2, <2>1 DEF If
    <3> QED
      BY <1>2, <1>3, <2>1, <3>1, SupsPart
  <2>2. CASE ~needs
    <3>1. ms = <<>> /\ list = c.sups
      BY <1>2, <2>2 DEF If
    <3>2. [z EXCEPT !.sups = list] = z
      BY <1>3, <3>1 DEF CredSet
    <3> QED
      BY <3>1, <3>2, LeadsNone
  <2> QED
    BY <2>1, <2>2
<1> HIDE DEF c, root, needs, l, ms, mg, list
<1>4. ASSUME NEW g \in GidCalls(np), NEW z \in CredSet, z.gids = c.gids, z.uids.e = 0 <=> root
      PROVE  Leads(mg(g), z, [z EXCEPT !.gids = to.gids], l)
  BY <1>1, <1>2, <1>4, GidsPart DEF mg, root
<1>5. ASSUME NEW u \in UidCalls(np), NEW z \in CredSet, z.uids = c.uids
      PROVE  Leads(u, z, [z EXCEPT !.uids = to.uids], l)
  BY <1>1, <1>2, <1>5, UidsPart DEF root
<1> DEFINE y == [uids |-> to.uids, gids |-> to.gids, sups |-> list]
<1>6. y \in CredSet /\ Reaches(c, rq, to, y)
  BY <1>2 DEF CredSet, Targets, Reaches
<1> DEFINE S1 == {mg(g) \o ms \o u : g \in GidCalls(np), u \in UidCalls(np)}
           S2 == {u \o ms \o mg(g) : g \in GidCalls(np), u \in UidCalls(np)}
<1>7. BasicPlans(np, rq) = IF np.prev.uids.e = 0 \/ ~PrivilegeAttainable(np) THEN S1
                            ELSE IF np.to.uids.e = 0 THEN S2 ELSE Elevations(np)
  BY DEF BasicPlans, mg, ms
<1> HIDE DEF S1, S2
<1>8. CASE np.prev.uids.e = 0 \/ ~PrivilegeAttainable(np)
  <2>1. PICK g \in GidCalls(np), u \in UidCalls(np) : plan = mg(g) \o ms \o u
    <3>1. plan \in S1
      BY <1>8, <1>7
    <3> QED
      BY <3>1, SMTT(30) DEF S1
  <2>2. c.uids.e = 0 <=> root
    BY <1>2, <1>8 DEF root, Own
  <2> DEFINE c1 == [c EXCEPT !.gids = to.gids]
             c2 == [c1 EXCEPT !.sups = list]
  <2>3. Leads(mg(g), c, c1, l)
    BY <1>2, <1>4, <2>2
  <2>4. c1 \in CredSet /\ c1.uids = c.uids /\ c1.gids = to.gids /\ c1.sups = c.sups
    BY <1>2 DEF CredSet, Targets
  <2> HIDE DEF c1
  <2>5. Leads(ms, c1, c2, l)
    BY <1>1, <1>3, <2>2, <2>4
  <2>6. c2 \in CredSet /\ c2.uids = c.uids /\ c2.gids = to.gids /\ c2.sups = list
    BY <1>2, <2>4 DEF CredSet
  <2> HIDE DEF c2
  <2>7. [c2 EXCEPT !.uids = to.uids] = y
    BY <2>6 DEF CredSet
  <2>8. Leads(u, c2, y, l)
    BY <1>5, <2>6, <2>7
  <2>9. Leads(mg(g) \o ms, c, c2, l)
    BY <2>3, <2>5, LeadsOn
  <2>10. Leads(plan, c, y, l)
    BY <2>1, <2>8, <2>9, LeadsOn
  <2> HIDE DEF y
  <2> QED
    BY <1>6, <2>10 DEF c, l
<1>9. CASE ~(np.prev.uids.e = 0 \/ ~PrivilegeAttainable(np)) /\ np.to.uids.e = 0
  <2>1. PICK g \in GidCalls(np), u \in UidCalls(np) : plan = u \o ms \o mg(g)
    <3>1. plan \in S2
      BY <1>9, <1>7
    <3> QED
      BY <3>1, SMTT(30) DEF S2
  <2>2. root /\ to.uids.e = 0
    BY <1>2, <1>9
  <2> DEFINE c1 == [c EXCEPT !.uids = to.uids]
             c2 == [c1 EXCEPT !.sups = list]
  <2>3. Leads(u, c, c1, l)
    BY <1>2, <1>5
  <2>4. c1 \in CredSet /\ c1.uids = to.uids /\ c1.gids = c.gids /\ c1.sups = c.sups
    BY <1>2 DEF CredSet, Targets
  <2> HIDE DEF c1
  <2>5. Leads(ms, c1, c2, l)
    BY <1>3, <2>2, <2>4
  <2>6. c2 \in CredSet /\ c2.uids = to.uids /\ c2.gids = c.gids /\ c2.sups = list
    BY <1>2, <2>4 DEF CredSet
  <2> HIDE DEF c2
  <2>7. [c2 EXCEPT !.gids = to.gids] = y
    BY <2>6 DEF CredSet
  <2>8. Leads(mg(g), c2, y, l)
    BY <1>4, <2>2, <2>6, <2>7
  <2>9. Leads(u \o ms, c, c2, l)
    BY <2>3, <2>5, LeadsOn
  <2>10. Leads(plan, c, y, l)
    BY <2>1, <2>8, <2>9, LeadsOn
  <2> HIDE DEF y
  <2> QED
    BY <1>6, <2>10 DEF c, l
<1>10. CASE ~(np.prev.uids.e = 0 \/ ~PrivilegeAttainable(np)) /\ np.to.uids.e # 0
  <2>1. plan \in Elevations(np)
    BY <1>7, <1>10
  <2>2. 0 \in Own(uids)
    BY <1>2, <1>10 DEF root
  <2>3. \/ Elevates(plan, Creds, l)
        \/ ~Roomy /\ plan = <<AssertFails>>
    <3>1. Fits(np)
      BY <1>1
    <3> QED
      BY <2>1, <2>2, <3>1, ElevationsLead
  <2> QED
    BY <2>3 DEF l
<1> QED
  BY <1>8, <1>9, <1>10
-----------------------------------------------------------------------------
(***************************************************************************)
(* A plan that is being carried out.                                       *)
(***************************************************************************)
\* The calls w, made from credentials x, end the change as promised or go to
\* the stop from where that is planned again; first is what it began with.
Settled(w, x, first, rq, to) ==
  \/ \E y : Leads(w, x, y, Aim(rq, to)) /\ Reaches(first, rq, to, y)
  \/ Elevates(w, x, Aim(rq, to))

\* The first call of a concatenation, and the others.
LEMMA JoinTakenApart ==
  ASSUME NEW v, NEW w, IsList(v), IsList(w), v # <<>>
  PROVE  Head(v \o w) = Head(v) /\ Tail(v \o w) = Tail(v) \o w
<1> DEFINE m  == Len(v)
           n  == Len(w)
           vw == v \o w
           tv == Tail(v)
           a  == Tail(vw)
           b  == tv \o w
<1>1. /\ m \in Nat \ {0} /\ IsList(tv) /\ Len(tv) = m - 1 /\ Head(v) = v[1]
      /\ \A i \in 1 .. m - 1 : tv[i] = v[i + 1]
  BY ListTakenApart
<1>2. /\ n \in Nat /\ IsList(vw) /\ Len(vw) = m + n
      /\ \A i \in 1 .. m + n : vw[i] = IF i <= m THEN v[i] ELSE w[i - m]
  BY ListsJoin
<1>3. /\ IsList(b) /\ Len(b) = (m - 1) + n /\ DOMAIN b = 1 .. (m - 1) + n
      /\ \A i \in 1 .. (m - 1) + n : b[i] = IF i <= m - 1 THEN tv[i] ELSE w[i - (m - 1)]
  <2> HIDE DEF tv
  <2>1. /\ IsList(b) /\ Len(b) = Len(tv) + Len(w) /\ DOMAIN b = 1 .. Len(tv) + Len(w)
        /\ \A i \in 1 .. Len(tv) + Len(w) : b[i] = IF i <= Len(tv) THEN tv[i] ELSE w[i - Len(tv)]
    BY <1>1, ListsJoin
  <2>2. Len(tv) = m - 1 /\ Len(w) = n
    BY <1>1
  <2> HIDE DEF b, m, n
  <2> QED
    BY <2>1, <2>2
<1> HIDE DEF m, n, vw, tv, b
<1>4. vw # <<>>
  BY <1>1, <1>2
<1>5. /\ IsList(a) /\ Len(a) = m + n - 1 /\ Head(vw) = vw[1] /\ DOMAIN a = 1 .. m + n - 1
      /\ \A i \in 1 .. m + n - 1 : a[i] = vw[i + 1]
  <2>1. /\ IsList(a) /\ Len(a) = Len(vw) - 1 /\ Head(vw) = vw[1] /\ DOMAIN a = 1 .. Len(vw) - 1
        /\ \A i \in 1 .. Len(vw) - 1 : a[i] = vw[i + 1]
    BY <1>2, <1>4, ListTakenApart
  <2>2. Len(vw) = m + n /\ m \in Nat /\ n \in Nat
    BY <1>1, <1>2
  <2> HIDE DEF a
  <2> QED
    BY <2>1, <2>2
<1> HIDE DEF a
<1>6. Head(vw) = Head(v)
  BY <1>1, <1>2, <1>5
<1>7. \A i \in 1 .. m + n - 1 : a[i] = b[i]
  <2> SUFFICES ASSUME NEW i \in 1 .. m + n - 1 PROVE a[i] = b[i]
    OBVIOUS
  <2>1. CASE i <= m - 1
    <3>1. i + 1 \in 1 .. m + n /\ i + 1 <= m /\ i \in 1 .. m - 1 /\ i \in 1 .. (m - 1) + n
      BY <1>1, <1>2, <2>1
    <3> QED
      BY <1>1, <1>2, <1>3, <1>5, <2>1, <3>1
  <2>2. CASE i > m - 1
    <3>1. i + 1 \in 1 .. m + n /\ ~(i + 1 <= m) /\ ~(i <= m - 1) /\ i \in 1 .. (m - 1) + n
          /\ (i + 1) - m = i - (m - 1)
      BY <1>1, <1>2, <2>2
    <3> QED
      BY <1>2, <1>3, <1>5, <3>1
  <2> QED
    BY <1>1, <2>1, <2>2
<1>8. a = b
  <2>1. PICK S : a \in Seq(S)
    BY <1>5 DEF IsList
  <2>2. PICK T : b \in Seq(T)
    BY <1>3 DEF IsList
  <2>3. a = [i \in DOMAIN a |-> a[i]] /\ b = [i \in DOMAIN b |-> b[i]]
    BY <2>1, <2>2
  <2>4. DOMAIN a = DOMAIN b
    BY <1>1, <1>2, <1>3, <1>5
  <2> QED
    BY <1>5, <1>7, <2>3, <2>4
<1> QED
  BY <1>6, <1>8 DEF vw, a, b, tv

\* No calls lead nowhere.
LEMMA LeadsNowhere ==
  ASSUME NEW x, NEW y, NEW l, Leads(<<>>, x, y, l)
  PROVE  x = y
<1>1. PICK tr : Trace(tr, <<>>, x, y, l)
  BY DEF Leads
<1>2. Len(<<>>) = 0
  OBVIOUS
<1> QED
  BY <1>1, <1>2 DEF Trace

\* The mark at the end of an elevation.
LEMMA ReplanIs == IsList(<<Replan>>) /\ <<Replan>> # <<>> /\ Len(<<Replan>>) = 1
                  /\ <<Replan>>[1] = Replan /\ Replan.op = "replan"
<1>1. <<Replan>> \in Seq({Replan})
  OBVIOUS
<1> QED
  BY <1>1 DEF IsList, Replan

\* With a plan's last call made, the change is as promised.
LEMMA SettledDone ==
  ASSUME NEW x, NEW first, NEW rq, NEW to, Settled(<<>>, x, first, rq, to)
  PROVE  Reaches(first, rq, to, x)
<1>1. ~Elevates(<<>>, x, Aim(rq, to))
  <2> SUFFICES ASSUME NEW w, NEW y, <<>> = w \o <<Replan>>, Leads(w, x, y, Aim(rq, to)) PROVE FALSE
    BY DEF Elevates
  <2> DEFINE r == <<Replan>>
  <2>1. IsList(w) /\ IsList(r) /\ Len(r) = 1
    BY ReplanIs DEF Leads
  <2> HIDE DEF r
  <2>2. Len(w \o r) = Len(w) + 1 /\ Len(w) \in Nat
    BY <2>1, ListsJoin
  <2> QED
    BY <2>2 DEF r
<1>2. PICK y : Leads(<<>>, x, y, Aim(rq, to)) /\ Reaches(first, rq, to, y)
  BY <1>1 DEF Settled
<1> QED
  BY <1>2, LeadsNowhere

\* The next call of a plan is one the kernel accepts, and leaves a plan.
LEMMA SettledStep ==
  ASSUME NEW w, NEW x, NEW first, NEW rq, NEW to, Settled(w, x, first, rq, to), w # <<>>,
         Head(w).op # "replan"
  PROVE  \E y \in CredSet : StepTo(Head(w), x, y, Aim(rq, to)) /\ Settled(Tail(w), y, first, rq, to)
<1> DEFINE l == Aim(rq, to)
<1>1. CASE \E z : Leads(w, x, z, l) /\ Reaches(first, rq, to, z)
  <2>1. PICK z : Leads(w, x, z, l) /\ Reaches(first, rq, to, z)
    BY <1>1
  <2>2. PICK y \in CredSet : StepTo(Head(w), x, y, l) /\ Leads(Tail(w), y, z, l)
    BY <2>1, LeadsHead
  <2>3. Settled(Tail(w), y, first, rq, to)
    BY <2>1, <2>2 DEF Settled
  <2> QED
    BY <2>2, <2>3
<1>2. CASE Elevates(w, x, l)
  <2> DEFINE r == <<Replan>>
  <2>1. PICK v, z : w = v \o r /\ Leads(v, x, z, l) /\ z.uids = AllSame(0)
    BY <1>2 DEF Elevates
  <2>2. IsList(v) /\ IsList(r) /\ r # <<>> /\ Len(r) = 1 /\ r[1].op = "replan"
    BY <2>1, ReplanIs DEF Leads
  <2> HIDE DEF r
  <2>3. v # <<>>
    <3> SUFFICES ASSUME v = <<>> PROVE FALSE
      OBVIOUS
    <3>1. w = r
      <4>1. PICK S : r \in Seq(S)
        BY <2>2 DEF IsList
      <4> QED
        BY <2>1, <4>1, ConcatEmptySeq
    <3>2. Head(w) = r[1]
      BY <2>2, <3>1, ListTakenApart
    <3> QED
      BY <2>2, <3>2
  <2>4. Head(w) = Head(v) /\ Tail(w) = Tail(v) \o r
    BY <2>1, <2>2, <2>3, JoinTakenApart
  <2>5. PICK y \in CredSet : StepTo(Head(v), x, y, l) /\ Leads(Tail(v), y, z, l)
    BY <2>1, <2>3, LeadsHead
  <2>6. Elevates(Tail(w), y, l)
    BY <2>1, <2>4, <2>5 DEF Elevates, r
  <2>7. Settled(Tail(w), y, first, rq, to)
    BY <2>6 DEF Settled
  <2> QED
    BY <2>4, <2>5, <2>7
<1> QED
  BY <1>1, <1>2 DEF Settled

\* When the credentials are read again the process is root.
LEMMA SettledReplan ==
  ASSUME NEW w, NEW x, NEW first, NEW rq, NEW to, Settled(w, x, first, rq, to), w # <<>>,
         Head(w).op = "replan"
  PROVE  x.uids = AllSame(0)
<1> DEFINE l == Aim(rq, to)
<1>1. ASSUME NEW v, NEW z, Leads(v, x, z, l), v # <<>> PROVE Head(v).op # "replan"
  <2>1. DOMAIN v = 1 .. Len(v) /\ Len(v) \in Nat \ {0} /\ Head(v) = v[1]
    BY <1>1, ListTakenApart DEF Leads
  <2>2. 1 \in DOMAIN v
    BY <2>1
  <2>3. v[1].op \in {"uids", "gids", "sups"}
    BY <1>1, <2>2, LeadsMapped
  <2> QED
    BY <2>1, <2>3
<1>2. Elevates(w, x, l)
  BY <1>1 DEF Settled
<1> DEFINE r == <<Replan>>
<1>3. PICK v, z : w = v \o r /\ Leads(v, x, z, l) /\ z.uids = AllSame(0)
  BY <1>2 DEF Elevates
<1>4. IsList(v) /\ IsList(r)
  BY <1>3, ReplanIs DEF Leads
<1> HIDE DEF r
<1>5. v = <<>>
  <2> SUFFICES ASSUME v # <<>> PROVE FALSE
    OBVIOUS
  <2>1. Head(w) = Head(v)
    BY <1>3, <1>4, JoinTakenApart
  <2> QED
    BY <1>1, <1>3, <2>1
<1> QED
  BY <1>3, <1>5, LeadsNowhere

\* Every parameter of a plan's calls was found in the map.
LEMMA SettledMapped ==
  ASSUME NEW w, NEW x, NEW first, NEW rq, NEW to, Settled(w, x, first, rq, to)
  PROVE  \A i \in DOMAIN w : w[i].op \in {"uids", "gids"} => w[i].mapped
<1>1. CASE \E y : Leads(w, x, y, Aim(rq, to))
  BY <1>1, LeadsMapped
<1>2. CASE Elevates(w, x, Aim(rq, to))
  <2> DEFINE r == <<Replan>>
  <2>1. PICK v, z : w = v \o r /\ Leads(v, x, z, Aim(rq, to))
    BY <1>2 DEF Elevates
  <2>2. IsList(v) /\ IsList(r) /\ Len(r) = 1 /\ r[1].op = "replan"
    BY <2>1, ReplanIs DEF Leads
  <2> HIDE DEF r
  <2>3. /\ Len(v) \in Nat /\ DOMAIN w = 1 .. Len(v) + 1
        /\ \A i \in 1 .. Len(v) + 1 : w[i] = IF i <= Len(v) THEN v[i] ELSE r[i - Len(v)]
    BY <2>1, <2>2, ListsJoin
  <2>4. DOMAIN v = 1 .. Len(v)
    <3>1. PICK S : v \in Seq(S)
      BY <2>2 DEF IsList
    <3> QED
      BY <3>1
  <2> SUFFICES ASSUME NEW i \in DOMAIN w, w[i].op \in {"uids", "gids"} PROVE w[i].mapped
    OBVIOUS
  <2>5. CASE i <= Len(v)
    <3>1. i \in DOMAIN v /\ w[i] = v[i]
      BY <2>3, <2>4, <2>5
    <3> QED
      BY <2>1, <3>1, LeadsMapped
  <2>6. CASE ~(i <= Len(v))
    <3>1. i - Len(v) = 1 /\ w[i] = r[i - Len(v)]
      BY <2>3, <2>6
    <3> QED
      BY <2>2, <3>1
  <2> QED
    BY <2>5, <2>6
<1> QED
  BY <1>1, <1>2 DEF Settled
-----------------------------------------------------------------------------
(***************************************************************************)
(* The invariant of a thread, as a predicate on where it is (at), the      *)
(* request, the calls left (w), what fill_pair gave (pr), the credentials  *)
(* at the call (first) and those now (x).                                  *)
(***************************************************************************)
Failures == {"setgid_failed", "setuid_failed", "setuid_setgid_failed"}

Chosen(first, rq, to) ==
  rq \in Requests /\ rq.sane /\ to \in Targets /\ Promised(first, rq, to)

Refused(first, rq) ==
  /\ 0 \notin Own(first.uids)
  /\ rq.uid \notin Own(first.uids) \/ rq.gid \notin Own(first.gids) \/ ~SupsAsAsked(first, rq)

ThreadIs(at, rq, w, pr, first, x) ==
  /\ at \notin {"run", "aborted"} => w = <<>>
  /\ at # "idle" => first \in CredSet
  /\ at \in {"basic", "timing", "fallback", "EINVAL", "EPERM"} => first = x
  /\ at \in {"timing", "run"} => Chosen(first, rq, pr.np.to)
  /\ at = "timing" => pr.np = Normalized(x, pr.np.to) /\ Fits(pr.np) /\ Suited(x, rq, pr.np.to)
  /\ at = "fallback" => pr.status \in Failures
  /\ at \in {"fallback", "EPERM"} => Refused(first, rq)
  /\ at # "forced"
  /\ at = "run" => \/ Settled(w, x, first, rq, pr.np.to)
                   \/ ~Roomy /\ w = <<AssertFails>>
  /\ at = "ok" => \E to : Chosen(first, rq, to) /\ Reaches(first, rq, to, x)
  /\ at = "aborted" => ~Roomy
  /\ \A i \in DOMAIN w : w[i].op \in {"uids", "gids"} => w[i].mapped

Places == Returned \cup {"idle", "basic", "timing", "fallback", "forced", "run", "aborted"}

Tables ==
  /\ pc \in [Threads -> Places] /\ req \in [Threads -> Requests]
  /\ DOMAIN todo = Threads /\ DOMAIN pair = Threads /\ DOMAIN start = Threads

ThreadInv(t) == ThreadIs(pc[t], req[t], todo[t], pair[t], start[t], Creds)

\* The capabilities are root's.
CapsFollow ==
  /\ permitted = IF 0 \in Own(uids) THEN AllCaps ELSE {}
  /\ effective = IF uids.e = 0 THEN AllCaps ELSE {}

KernelInv == Creds \in CredSet /\ CapsFollow

\* What fill_pair gives: a pair to go to, a refusal that is honest, or an id too many.
LEMMA FillPairGives ==
  ASSUME Wide, Creds \in CredSet, NEW rq \in Requests, rq.sane, NEW pr, pr = FillPair(Creds, rq)
  PROVE  /\ pr.status \in Judgements
         /\ pr.status = "aborted" => ~Roomy
         /\ pr.status = "success" =>
              /\ Chosen(Creds, rq, pr.np.to) /\ Suited(Creds, rq, pr.np.to)
              /\ pr.np = Normalized(Creds, pr.np.to) /\ Fits(pr.np)
         /\ pr.status \in Failures => Refused(Creds, rq)
<1> DEFINE x == Creds
           C == Candidates(x, rq)
<1>1. PICK k \in DOMAIN C :
        LET np == Normalized(x, C[k])
        IN  /\ pr = [status |-> Judgement(np, rq), np |-> np]
            /\ \A j \in DOMAIN C : Severity[Judgement(np, rq)] <= Severity[Judgement(Normalized(x, C[j]), rq)]
  BY FillPairIs
<1> DEFINE np == Normalized(x, C[k])
<1>2. /\ pr.status = Judgement(np, rq) /\ pr.np = np
      /\ \A j \in DOMAIN C : Severity[pr.status] <= Severity[Judgement(Normalized(x, C[j]), rq)]
  BY <1>1
<1> HIDE DEF np
<1>3. /\ C[k] \in Targets /\ Promised(x, rq, C[k])
      /\ Own(C[k].uids) \subseteq Own(x.uids) \cup {rq.uid}
      /\ 1 \in DOMAIN C /\ C[1] \in Targets
      /\ rq.uid \in Own(x.uids) => Own(C[1].uids) \subseteq Own(x.uids)
      /\ rq.gid \in Own(x.gids) => Own(C[1].gids) \subseteq Own(x.gids)
  <2>1. \A n \in Nat \ {0} : 1 \in 1 .. n
    OBVIOUS
  <2>2. \E n \in Nat \ {0} : DOMAIN C = 1 .. n
    BY CandidatesFit
  <2>3. 1 \in DOMAIN C
    BY <2>1, <2>2
  <2> HIDE DEF C
  <2>4. /\ C[k] \in Targets /\ Promised(x, rq, C[k])
        /\ Own(C[k].uids) \subseteq Own(x.uids) \cup {rq.uid}
    BY CandidatesFit DEF C
  <2>5. /\ C[1] \in Targets
        /\ rq.uid \in Own(x.uids) => Own(C[1].uids) \subseteq Own(x.uids)
        /\ rq.gid \in Own(x.gids) => Own(C[1].gids) \subseteq Own(x.gids)
    BY <2>3, CandidatesFit DEF C
  <2> QED
    BY <2>3, <2>4, <2>5
<1>4. np.to = C[k] /\ np = Normalized(x, C[k])
  BY <1>3, NormalizedIs DEF np
<1> HIDE DEF C
<1>5. \A q : SupsChangeNeeded(x, q) <=> ~SupsAsAsked(x, q)
  BY ReadIsCreds
<1>6. /\ pr.status \in Judgements /\ (pr.status = "aborted" <=> ~Fits(np))
      /\ pr.status = "success" => Suited(x, rq, C[k])
      /\ Fits(np) /\ 0 \in Own(x.uids) => pr.status = "success"
  <2> HIDE DEF x
  <2> QED
    BY <1>2, <1>3, <1>4, <1>5, JudgementIs DEF Suited, x
<1>7. ASSUME pr.status = "aborted" PROVE ~Roomy
  BY <1>3, <1>4, <1>6, <1>7, RoomyFits
<1>8. ASSUME pr.status = "success"
      PROVE  /\ Chosen(Creds, rq, pr.np.to) /\ Suited(Creds, rq, pr.np.to)
             /\ pr.np = Normalized(Creds, pr.np.to) /\ Fits(pr.np)
  BY <1>2, <1>3, <1>4, <1>6, <1>8 DEF Chosen
<1>9. ASSUME pr.status \in Failures PROVE Refused(Creds, rq)
  <2>1. 0 \notin Own(x.uids)
    BY <1>6, <1>9 DEF Failures
  <2>2. ASSUME rq.uid \in Own(x.uids), rq.gid \in Own(x.gids), SupsAsAsked(x, rq) PROVE FALSE
    <3> DEFINE np1 == Normalized(x, C[1])
               j1  == Judgement(np1, rq)
    <3>1. j1 \in {"aborted", "success"}
      <4> HIDE DEF np1
      <4>1. np1 = Normalized(x, C[1])
        BY DEF np1
      <4> HIDE DEF x
      <4> QED
        BY <1>3, <1>5, <2>2, <4>1, JudgementIs DEF x
    <3>2. Severity[pr.status] <= Severity[j1]
      BY <1>2, <1>3
    <3> HIDE DEF j1
    <3>3. Severity[j1] = 0 /\ Severity[pr.status] \in {1, 2, 3}
      BY <1>9, <3>1 DEF Severity, Failures
    <3> QED
      BY <3>2, <3>3
  <2> QED
    BY <2>1, <2>2 DEF Refused
<1> QED
  BY <1>6, <1>7, <1>8, <1>9
-----------------------------------------------------------------------------
(***************************************************************************)
(* The steps of a thread.                                                  *)
(***************************************************************************)
\* A call begins.
LEMMA CallKeeps ==
  ASSUME KernelInv, Tables, NEW t \in Threads, ThreadInv(t), NEW rq \in Requests, Call(t, rq)
  PROVE  ThreadInv(t)' /\ Tables'
<1>1. /\ pc' = [pc EXCEPT ![t] = "basic"] /\ req' = [req EXCEPT ![t] = rq]
      /\ todo' = [todo EXCEPT ![t] = <<>>] /\ start' = [start EXCEPT ![t] = Creds]
      /\ pair' = [pair EXCEPT ![t] = NoPair] /\ UNCHANGED <<uids, gids, sups>>
  BY DEF Call, Goto, kernel
<1>2. pc'[t] = "basic" /\ req'[t] = rq /\ todo'[t] = <<>> /\ start'[t] = Creds
  BY <1>1 DEF Tables
<1>3. Creds' = Creds
  BY <1>1 DEF Creds
<1>4. ThreadIs("basic", rq, <<>>, pair'[t], Creds, Creds)
  BY DEF ThreadIs, KernelInv
<1>5. Tables'
  <2>1. pc' \in [Threads -> Places] /\ req' \in [Threads -> Requests]
    BY <1>1 DEF Tables, Places
  <2> QED
    BY <1>1, <2>1 DEF Tables
<1>6. ThreadInv(t)'
  BY <1>2, <1>3, <1>4 DEF ThreadInv
<1> QED
  BY <1>5, <1>6

\* change_identity_basic, up to fill_pair.
LEMMA BasicKeeps ==
  ASSUME Wide, KernelInv, Tables, NEW t \in Threads, ThreadInv(t), Basic(t)
  PROVE  ThreadInv(t)' /\ Tables'
<1> DEFINE pr == FillPair(ReadCreds(FALSE), req[t])
<1>1. /\ pc[t] = "basic" /\ start[t] = Creds /\ todo[t] = <<>> /\ Creds \in CredSet
      /\ req[t] \in Requests
  BY DEF Basic, ThreadInv, ThreadIs, KernelInv, Tables
<1>2. pr = FillPair(Creds, req[t])
  BY <1>1, ReadIsCreds
<1> HIDE DEF pr
<1>3. /\ UNCHANGED <<req, todo, start>> /\ Creds' = Creds
      /\ IF req[t].sane THEN pair' = [pair EXCEPT ![t] = pr] ELSE UNCHANGED pair
      /\ pc' = [pc EXCEPT ![t] = IF ~req[t].sane THEN "EINVAL"
                                 ELSE CASE pair'[t].status = "aborted" -> "aborted"
                                        [] pair'[t].status = "success" -> "timing"
                                        [] OTHER -> "fallback"]
  BY DEF Basic, Goto, kernel, Creds, pr
<1>4. /\ req'[t] = req[t] /\ todo'[t] = <<>> /\ start'[t] = Creds
      /\ UNCHANGED <<req, todo, start>>
  BY <1>1, <1>3
<1>5. CASE ~req[t].sane
  <2>1. pc'[t] = "EINVAL" /\ pc' = [pc EXCEPT ![t] = "EINVAL"]
    BY <1>3, <1>5 DEF Tables
  <2>2. ThreadIs("EINVAL", req[t], <<>>, pair'[t], Creds, Creds)
    BY <1>1 DEF ThreadIs
  <2>3. Tables'
    BY <1>3, <1>4, <1>5, <2>1 DEF Tables, Places, Returned
  <2> QED
    BY <1>3, <1>4, <2>1, <2>2, <2>3 DEF ThreadInv
<1>6. CASE req[t].sane
  <2>1. pair' = [pair EXCEPT ![t] = pr] /\ pair'[t] = pr
    BY <1>3, <1>6 DEF Tables
  <2>2. /\ pr.status \in Judgements
        /\ pr.status = "aborted" => ~Roomy
        /\ pr.status = "success" =>
             /\ Chosen(Creds, req[t], pr.np.to) /\ Suited(Creds, req[t], pr.np.to)
             /\ pr.np = Normalized(Creds, pr.np.to) /\ Fits(pr.np)
        /\ pr.status \in Failures => Refused(Creds, req[t])
    BY <1>1, <1>2, <1>6, FillPairGives
  <2> DEFINE at == IF pr.status = "aborted" THEN "aborted"
                   ELSE IF pr.status = "success" THEN "timing" ELSE "fallback"
  <2>3. pc' = [pc EXCEPT ![t] = at]
    <3>1. CASE pr.status = "aborted"
      BY <1>3, <1>6, <2>1, <3>1
    <3>2. CASE pr.status = "success"
      BY <1>3, <1>6, <2>1, <3>2
    <3>3. CASE pr.status \notin {"aborted", "success"}
      BY <1>3, <1>6, <2>1, <3>3
    <3> QED
      BY <3>1, <3>2, <3>3
  <2>4. at \in Places /\ pc'[t] = at
    BY <2>3 DEF Tables, Places
  <2>5. ThreadIs(at, req[t], <<>>, pr, Creds, Creds)
    <3>1. CASE pr.status = "aborted"
      BY <1>1, <2>2, <3>1 DEF ThreadIs
    <3>2. CASE pr.status = "success"
      BY <1>1, <2>2, <3>2 DEF ThreadIs
    <3>3. CASE pr.status \in Failures
      BY <1>1, <2>2, <3>3 DEF ThreadIs, Failures
    <3> QED
      BY <2>2, <3>1, <3>2, <3>3 DEF Judgements, Failures
  <2> HIDE DEF at
  <2>6. Tables'
    BY <1>4, <2>1, <2>3, <2>4 DEF Tables
  <2> QED
    BY <1>3, <1>4, <2>1, <2>4, <2>5, <2>6 DEF ThreadInv
<1> QED
  BY <1>5, <1>6

\* The rest of it, up to the first system call.
LEMMA TimingKeeps ==
  ASSUME Wide, KernelInv, Tables, NEW t \in Threads, ThreadInv(t), Timing(t)
  PROVE  ThreadInv(t)' /\ Tables'
<1> DEFINE np == pair[t].np
           to == np.to
           rq == req[t]
<1>1. /\ pc[t] = "timing" /\ start[t] = Creds /\ Creds \in CredSet
      /\ Chosen(Creds, rq, to) /\ np = Normalized(Creds, to) /\ Fits(np) /\ Suited(Creds, rq, to)
  BY DEF Timing, ThreadInv, ThreadIs, KernelInv
<1>2. PICK plan \in BasicPlans(np, rq) : todo' = [todo EXCEPT ![t] = plan]
  BY DEF Timing
<1>3. /\ pc' = [pc EXCEPT ![t] = "run"] /\ UNCHANGED <<req, pair, start>> /\ Creds' = Creds
  BY DEF Timing, Goto, kernel, Creds
<1>4. Settled(plan, Creds, Creds, rq, to) \/ (~Roomy /\ plan = <<AssertFails>>)
  <2>1. to \in Targets /\ rq.sups \in SupLists \cup {DontChange}
    BY <1>1, CandidatesFit DEF Chosen
  <2> HIDE DEF np, to, rq
  <2> QED
    BY <1>1, <1>2, <2>1, BasicPlansLead DEF Settled
<1>5. \A i \in DOMAIN plan : plan[i].op \in {"uids", "gids"} => plan[i].mapped
  <2>1. CASE plan = <<AssertFails>>
    BY <2>1 DEF AssertFails
  <2> HIDE DEF np, to, rq
  <2> QED
    BY <1>4, <2>1, SettledMapped
<1>6. /\ pc'[t] = "run" /\ todo'[t] = plan /\ req'[t] = rq /\ pair'[t] = pair[t] /\ start'[t] = Creds
  BY <1>1, <1>2, <1>3 DEF Tables
<1>7. ThreadIs("run", rq, plan, pair[t], Creds, Creds)
  BY <1>1, <1>4, <1>5 DEF ThreadIs
<1>8. Tables'
  BY <1>2, <1>3 DEF Tables, Places
<1> QED
  BY <1>3, <1>6, <1>7, <1>8 DEF ThreadInv

\* Without capabilities the fallback is a refusal.
LEMMA FallbackKeeps ==
  ASSUME KernelInv, Tables, NEW t \in Threads, ThreadInv(t), Fallback(t)
  PROVE  ThreadInv(t)' /\ Tables'
<1>1. /\ pc[t] = "fallback" /\ start[t] = Creds /\ Creds \in CredSet /\ todo[t] = <<>>
      /\ Refused(Creds, req[t]) /\ pair[t].status \in Failures
  BY DEF Fallback, ThreadInv, ThreadIs, KernelInv
<1>2. permitted = {}
  BY <1>1 DEF Refused, KernelInv, CapsFollow, Creds
<1>3. CapsNeeded(pair[t].status) # {}
  BY <1>1 DEF CapsNeeded, Failures
<1>4. ~(CapsNeeded(pair[t].status) \subseteq permitted)
  BY <1>2, <1>3
<1>5. pc' = [pc EXCEPT ![t] = "EPERM"] /\ UNCHANGED <<req, todo, pair, start>> /\ Creds' = Creds
  BY <1>4 DEF Fallback, Goto, kernel, Creds
<1>6. ThreadIs("EPERM", req[t], <<>>, pair[t], Creds, Creds)
  BY <1>1 DEF ThreadIs
<1>7. pc'[t] = "EPERM" /\ Tables'
  BY <1>5 DEF Tables, Places, Returned
<1> QED
  BY <1>1, <1>5, <1>6, <1>7 DEF ThreadInv

\* The return.
LEMMA ReturnKeeps ==
  ASSUME KernelInv, Tables, NEW t \in Threads, ThreadInv(t), Return(t)
  PROVE  ThreadInv(t)' /\ Tables'
<1> DEFINE to == pair[t].np.to
<1>1. /\ todo[t] = <<>> /\ Creds \in CredSet /\ start[t] \in CredSet
      /\ Chosen(start[t], req[t], to)
      /\ Settled(todo[t], Creds, start[t], req[t], to) \/ todo[t] = <<AssertFails>>
  BY DEF Return, ThreadInv, ThreadIs, KernelInv
<1> HIDE DEF to
<1>2. <<>> # <<AssertFails>>
  OBVIOUS
<1>3. Settled(<<>>, Creds, start[t], req[t], to)
  BY <1>1, <1>2
<1>4. Reaches(start[t], req[t], to, Creds)
  BY <1>3, SettledDone
<1>5. pc' = [pc EXCEPT ![t] = "ok"] /\ UNCHANGED <<req, todo, pair, start>> /\ Creds' = Creds
  BY DEF Return, Goto, kernel, Creds
<1>6. ThreadIs("ok", req[t], <<>>, pair[t], start[t], Creds)
  BY <1>1, <1>4 DEF ThreadIs
<1>7. pc'[t] = "ok" /\ Tables'
  BY <1>5 DEF Tables, Places, Returned
<1> QED
  BY <1>1, <1>5, <1>6, <1>7 DEF ThreadInv

\* What a step may do to the credentials.
Moves(t) ==
  /\ uids.e = 0 \/ Own(uids') \subseteq Own(uids)
  /\ gids' = gids \/ gids' = pair[t].np.to.gids
  /\ sups' = sups \/ sups' = ListOf(req[t])

\* Privilege is an effective uid of 0, capability by capability.
LEMMA RootHasCaps ==
  ASSUME KernelInv
  PROVE  /\ ("setuid" \in effective) = (uids.e = 0)
         /\ ("setgid" \in effective) = (uids.e = 0)
BY DEF KernelInv, CapsFollow, AllCaps

\* The next call is the plan's, and the kernel accepts it.
LEMMA NextCall ==
  ASSUME KernelInv, NEW t, ThreadInv(t), pc[t] = "run", todo[t] # <<>>,
         Head(todo[t]).op \in {"uids", "gids", "sups"}
  PROVE  \E y \in CredSet :
           /\ StepTo(Head(todo[t]), Creds, y, Aim(req[t], pair[t].np.to))
           /\ Settled(Tail(todo[t]), y, start[t], req[t], pair[t].np.to)
<1>1. \/ Settled(todo[t], Creds, start[t], req[t], pair[t].np.to)
      \/ todo[t] = <<AssertFails>>
  BY DEF ThreadInv, ThreadIs
<1>2. Head(<<AssertFails>>).op = "assert"
  BY DEF AssertFails
<1>3. Settled(todo[t], Creds, start[t], req[t], pair[t].np.to) /\ Head(todo[t]).op # "replan"
  BY <1>1, <1>2
<1> QED
  BY <1>3, SettledStep

\* A system call.
LEMMA MoveKeeps ==
  ASSUME KernelInv, Tables, NEW t \in Threads, ThreadInv(t),
         SetUids(t) \/ SetGids(t) \/ SetSupplementary(t)
  PROVE  ThreadInv(t)' /\ Tables' /\ KernelInv' /\ Moves(t)
<1> DEFINE o  == Head(todo[t])
           to == pair[t].np.to
           l  == Aim(req[t], to)
<1>1. /\ pc[t] = "run" /\ todo[t] # <<>> /\ o.op \in {"uids", "gids", "sups"}
      /\ todo' = [todo EXCEPT ![t] = Tail(@)] /\ UNCHANGED <<pc, req, pair, start>>
  BY DEF SetUids, SetGids, SetSupplementary, Next1, Done
<1>2. PICK y \in CredSet : StepTo(o, Creds, y, l) /\ Settled(Tail(todo[t]), y, start[t], req[t], to)
  BY <1>1, NextCall
<1>3. /\ Creds.uids = uids /\ Creds.gids = gids /\ Creds.sups = sups /\ Creds \in CredSet
      /\ uids \in IdTriples(UIDs) /\ y = [uids |-> y.uids, gids |-> y.gids, sups |-> y.sups]
      /\ y.uids \in IdTriples(UIDs)
      /\ l.gids = to.gids /\ l.sups = ListOf(req[t])
  BY ReadIsCreds DEF KernelInv, CredSet, Aim
<1> HIDE DEF l, to
<1>4. /\ Creds' = y /\ CapsFollow' /\ Moves(t)
  <2>1. CASE SetUids(t)
    <3>1. /\ o.op = "uids" /\ uids' = After(o.call, uids, "setuid" \in effective)
          /\ permitted' = PermittedAfter(uids, uids', permitted)
          /\ effective' = EffectiveAfter(uids, uids', permitted, effective)
          /\ UNCHANGED <<gids, sups>>
      BY <2>1 DEF SetUids, Next1
    <3>2. /\ y.uids = After(o.call, uids, uids.e = 0) /\ y.gids = gids /\ y.sups = sups
          /\ uids.e = 0 \/ Own(y.uids) \subseteq Own(uids)
      BY <1>2, <1>3, <3>1 DEF StepTo
    <3>3. uids' = y.uids
      <4>1. ("setuid" \in effective) = (uids.e = 0)
        BY RootHasCaps
      <4> QED
        BY <3>1, <3>2, <4>1
    <3>4. Creds' = y
      BY <1>3, <3>1, <3>2, <3>3 DEF Creds
    <3>5. CapsFollow'
      <4> DEFINE u == y.uids
      <4>1. /\ permitted = IF 0 \in Own(uids) THEN AllCaps ELSE {}
            /\ effective = IF uids.e = 0 THEN AllCaps ELSE {}
            /\ uids.e \in Own(uids) /\ u.e \in Own(u)
        BY DEF KernelInv, CapsFollow, Own
      <4> HIDE DEF u
      <4>2. PermittedAfter(uids, u, permitted) = IF 0 \in Own(u) THEN AllCaps ELSE {}
        BY <3>2, <4>1 DEF PermittedAfter, u
      <4>3. EffectiveAfter(uids, u, permitted, effective) = IF u.e = 0 THEN AllCaps ELSE {}
        BY <3>2, <4>1 DEF EffectiveAfter, u
      <4> QED
        BY <3>1, <3>3, <4>2, <4>3 DEF CapsFollow, u
    <3>6. Moves(t)
      BY <3>1, <3>2, <3>3 DEF Moves
    <3> QED
      BY <3>4, <3>5, <3>6
  <2>2. CASE SetGids(t)
    <3>1. /\ o.op = "gids" /\ gids' = After(o.call, gids, "setgid" \in effective)
          /\ UNCHANGED <<uids, sups, permitted, effective>>
      BY <2>2 DEF SetGids, Next1
    <3>2. /\ y.gids = After(o.call, gids, uids.e = 0) /\ y.gids = to.gids
          /\ y.uids = uids /\ y.sups = sups
      BY <1>2, <1>3, <3>1 DEF StepTo
    <3>3. gids' = y.gids
      <4>1. ("setgid" \in effective) = (uids.e = 0)
        BY RootHasCaps
      <4> QED
        BY <3>1, <3>2, <4>1
    <3>4. Creds' = y
      BY <1>3, <3>1, <3>2, <3>3 DEF Creds
    <3>5. CapsFollow'
      BY <3>1 DEF KernelInv, CapsFollow
    <3>6. Moves(t)
      BY <3>1, <3>2, <3>3 DEF Moves, to
    <3> QED
      BY <3>4, <3>5, <3>6
  <2>3. CASE SetSupplementary(t)
    <3>1. /\ o.op = "sups" /\ sups' = IF CallsSetgroups(t) THEN ListOf(req[t]) ELSE sups
          /\ UNCHANGED <<uids, gids, permitted, effective>>
      BY <2>3 DEF SetSupplementary, Next1
    <3>2. uids.e = 0 /\ y.uids = uids /\ y.gids = gids /\ y.sups = ListOf(req[t])
      BY <1>2, <1>3, <3>1 DEF StepTo
    <3>3. sups' = y.sups
      BY <3>1, <3>2 DEF CallsSetgroups
    <3>4. Creds' = y
      BY <1>3, <3>1, <3>2, <3>3 DEF Creds
    <3>5. CapsFollow'
      BY <3>1 DEF KernelInv, CapsFollow
    <3>6. Moves(t)
      BY <3>1, <3>2, <3>3 DEF Moves
    <3> QED
      BY <3>4, <3>5, <3>6
  <2> QED
    BY <2>1, <2>2, <2>3
<1>5. KernelInv'
  BY <1>4 DEF KernelInv
<1>6. Tables'
  BY <1>1 DEF Tables
<1>7. todo'[t] = Tail(todo[t])
  BY <1>1 DEF Tables
<1>8. \A i \in DOMAIN Tail(todo[t]) :
        Tail(todo[t])[i].op \in {"uids", "gids"} => Tail(todo[t])[i].mapped
  BY <1>2, SettledMapped
<1>9. ThreadIs("run", req[t], Tail(todo[t]), pair[t], start[t], y)
  <2>1. Chosen(start[t], req[t], pair[t].np.to) /\ start[t] \in CredSet
    BY <1>1 DEF ThreadInv, ThreadIs
  <2> QED
    BY <1>2, <1>8, <2>1 DEF ThreadIs, to
<1>10. ThreadInv(t)'
  BY <1>1, <1>4, <1>7, <1>9 DEF ThreadInv
<1> QED
  BY <1>4, <1>5, <1>6, <1>10

\* Root plans again, for the target it had.
LEMMA ElevatedPlanKeeps ==
  ASSUME Wide, KernelInv, Tables, NEW t \in Threads, ThreadInv(t), ElevatedPlan(t)
  PROVE  ThreadInv(t)' /\ Tables'
<1> DEFINE to == pair[t].np.to
           np == NormalizedNow(to)
           rq == req[t]
           st == start[t]
<1>1. /\ pc[t] = "run" /\ todo[t] # <<>> /\ Head(todo[t]).op = "replan" /\ Creds \in CredSet
      /\ Chosen(st, rq, to) /\ st \in CredSet
      /\ Settled(todo[t], Creds, st, rq, to) \/ (~Roomy /\ todo[t] = <<AssertFails>>)
      /\ \A i \in DOMAIN todo[t] : todo[t][i].op \in {"uids", "gids"} => todo[t][i].mapped
  BY DEF ElevatedPlan, Next1, ThreadInv, ThreadIs, KernelInv
<1>2. np = Normalized(Creds, to)
  BY <1>1, ReadIsCreds DEF NormalizedNow
<1>3. /\ IF Fits(np)
         THEN /\ \E plan \in FullPlans(np) : todo' = [todo EXCEPT ![t] = plan]
              /\ UNCHANGED pc
         ELSE pc' = [pc EXCEPT ![t] = "aborted"] /\ UNCHANGED todo
      /\ UNCHANGED <<req, pair, start>> /\ Creds' = Creds
  BY DEF ElevatedPlan, kernel, Goto, Creds
<1> HIDE DEF np, to, rq, st
<1>4. Creds.uids = AllSame(0) /\ uids = AllSame(0)
  <2>1. Head(<<AssertFails>>).op = "assert"
    BY DEF AssertFails
  <2>2. Settled(todo[t], Creds, st, rq, to)
    BY <1>1, <2>1
  <2>3. Creds.uids = AllSame(0)
    BY <1>1, <2>2, SettledReplan
  <2> QED
    BY <2>3, <1>1, ReadIsCreds
<1>5. to \in Targets /\ rq.sups \in SupLists \cup {DontChange}
  BY <1>1, CandidatesFit DEF Chosen
<1>6. CASE Fits(np)
  <2>1. PICK plan \in FullPlans(np) : todo' = [todo EXCEPT ![t] = plan]
    BY <1>3, <1>6
  <2>2. \E y : Leads(plan, Creds, y, Aim(rq, to)) /\ Reaches(st, rq, to, y)
    BY <1>1, <1>2, <1>4, <1>5, <1>6, FullPlansLead
  <2>3. Settled(plan, Creds, st, rq, to)
    BY <2>2 DEF Settled
  <2>4. \A i \in DOMAIN plan : plan[i].op \in {"uids", "gids"} => plan[i].mapped
    BY <2>3, SettledMapped
  <2>5. ThreadIs("run", rq, plan, pair[t], st, Creds)
    BY <1>1, <2>3, <2>4 DEF ThreadIs, to
  <2>6. todo'[t] = plan /\ pc'[t] = "run" /\ req'[t] = rq /\ pair'[t] = pair[t] /\ start'[t] = st
    BY <1>1, <1>3, <1>6, <2>1 DEF Tables, rq, st
  <2>7. Tables'
    BY <1>3, <1>6, <2>1 DEF Tables
  <2> QED
    BY <1>3, <2>5, <2>6, <2>7 DEF ThreadInv
<1>7. CASE ~Fits(np)
  <2>1. ~Roomy
    BY <1>1, <1>2, <1>4, <1>5, <1>7, RoomyFits
  <2>2. ThreadIs("aborted", rq, todo[t], pair[t], st, Creds)
    BY <1>1, <2>1 DEF ThreadIs
  <2>3. pc' = [pc EXCEPT ![t] = "aborted"] /\ UNCHANGED todo
    BY <1>3, <1>7
  <2>4. pc'[t] = "aborted" /\ Tables'
    BY <1>3, <2>3 DEF Tables, Places
  <2> QED
    BY <1>3, <2>2, <2>3, <2>4 DEF ThreadInv, rq, st
<1> QED
  BY <1>6, <1>7

\* An assertion that fails is one about an id too many.
LEMMA AbortKeeps ==
  ASSUME KernelInv, Tables, NEW t \in Threads, ThreadInv(t), Abort(t)
  PROVE  ThreadInv(t)' /\ Tables'
<1> DEFINE o == Head(todo[t])
<1>1. /\ pc[t] = "run" /\ todo[t] # <<>>
      /\ pc' = [pc EXCEPT ![t] = "aborted"] /\ UNCHANGED <<req, todo, pair, start>> /\ Creds' = Creds
  BY DEF Abort, Goto, kernel, Creds
<1>2. CASE o.op \in {"uids", "gids", "sups"}
  <2>1. PICK y \in CredSet : StepTo(o, Creds, y, Aim(req[t], pair[t].np.to))
    BY <1>1, <1>2, NextCall
  <2>2. Creds.uids = uids /\ Creds.gids = gids
    BY DEF Creds
  <2>3. CASE o.op = "uids"
    <3>1. ~(o.mapped /\ Allowed(o.call, uids, "setuid" \in effective))
      BY <2>3 DEF Abort
    <3>2. o.mapped /\ Allowed(o.call, uids, uids.e = 0)
      BY <2>1, <2>2, <2>3 DEF StepTo
    <3>3. ("setuid" \in effective) = (uids.e = 0)
      BY RootHasCaps
    <3> QED
      BY <3>1, <3>2, <3>3
  <2>4. CASE o.op = "gids"
    <3>1. ~(o.mapped /\ Allowed(o.call, gids, "setgid" \in effective))
      BY <2>4 DEF Abort
    <3>2. o.mapped /\ Allowed(o.call, gids, uids.e = 0)
      BY <2>1, <2>2, <2>4 DEF StepTo
    <3>3. ("setgid" \in effective) = (uids.e = 0)
      BY RootHasCaps
    <3> QED
      BY <3>1, <3>2, <3>3
  <2>5. CASE o.op = "sups"
    <3>1. "setgid" \notin effective
      BY <2>5 DEF Abort
    <3>2. uids.e = 0
      BY <2>1, <2>2, <2>5 DEF StepTo
    <3> QED
      BY <3>1, <3>2, RootHasCaps
  <2> QED
    BY <1>2, <2>3, <2>4, <2>5
<1>3. CASE o.op \notin {"uids", "gids", "sups"}
  <2>1. \/ Settled(todo[t], Creds, start[t], req[t], pair[t].np.to)
        \/ ~Roomy
    BY <1>1 DEF ThreadInv, ThreadIs
  <2>2. o.op # "replan"
    <3> SUFFICES ASSUME o.op = "replan" PROVE FALSE
      OBVIOUS
    <3> QED
      BY DEF Abort
  <2>3. ~Roomy
    <3> SUFFICES ASSUME Settled(todo[t], Creds, start[t], req[t], pair[t].np.to) PROVE FALSE
      BY <2>1
    <3>1. PICK y \in CredSet : StepTo(o, Creds, y, Aim(req[t], pair[t].np.to))
      BY <1>1, <2>2, SettledStep
    <3> QED
      BY <1>3, <3>1 DEF StepTo
  <2>4. /\ start[t] \in CredSet
        /\ \A i \in DOMAIN todo[t] : todo[t][i].op \in {"uids", "gids"} => todo[t][i].mapped
    BY <1>1 DEF ThreadInv, ThreadIs
  <2>5. ThreadIs("aborted", req[t], todo[t], pair[t], start[t], Creds)
    BY <2>3, <2>4 DEF ThreadIs
  <2>6. pc'[t] = "aborted" /\ Tables'
    BY <1>1 DEF Tables, Places
  <2> QED
    BY <1>1, <2>5, <2>6 DEF ThreadInv
<1> QED
  BY <1>2, <1>3

\* Every step of a thread keeps what the others may rely on.
LEMMA StepKeeps ==
  ASSUME Wide, KernelInv, Tables, NEW t \in Threads, ThreadInv(t), Step(t)
  PROVE  ThreadInv(t)' /\ Tables' /\ KernelInv' /\ Moves(t)
<1>1. ASSUME UNCHANGED kernel PROVE KernelInv' /\ Moves(t)
  BY <1>1 DEF kernel, KernelInv, CapsFollow, Creds, Moves
<1>2. CASE Basic(t)
  <2>1. UNCHANGED kernel
    BY <1>2 DEF Basic
  <2> QED
    BY <1>1, <1>2, <2>1, BasicKeeps
<1>3. CASE Timing(t)
  <2>1. UNCHANGED kernel
    BY <1>3 DEF Timing
  <2> QED
    BY <1>1, <1>3, <2>1, TimingKeeps
<1>4. CASE Fallback(t)
  <2>1. UNCHANGED kernel
    BY <1>4 DEF Fallback
  <2> QED
    BY <1>1, <1>4, <2>1, FallbackKeeps
<1>5. CASE Forced(t)
  BY <1>5 DEF Forced, ThreadInv, ThreadIs
<1>6. CASE SetUids(t) \/ SetGids(t) \/ SetSupplementary(t)
  BY <1>6, MoveKeeps
<1>7. CASE ElevatedPlan(t)
  <2>1. UNCHANGED kernel
    BY <1>7 DEF ElevatedPlan
  <2> QED
    BY <1>1, <1>7, <2>1, ElevatedPlanKeeps
<1>8. CASE Abort(t)
  <2>1. UNCHANGED kernel
    BY <1>8 DEF Abort
  <2> QED
    BY <1>1, <1>8, <2>1, AbortKeeps
<1>9. CASE Return(t)
  <2>1. UNCHANGED kernel
    BY <1>9 DEF Return
  <2> QED
    BY <1>1, <1>9, <2>1, ReturnKeeps
<1> QED
  BY <1>2, <1>3, <1>4, <1>5, <1>6, <1>7, <1>8, <1>9 DEF Step
-----------------------------------------------------------------------------
(***************************************************************************)
(* The program, with one thread.                                           *)
(***************************************************************************)
Alone == \E t : Threads = {t}

\* No process is given capabilities by its file.
Unaided == \A c \in FileCaps : c.permitted = {}

Inv == KernelInv /\ Tables /\ \A t \in Threads : ThreadInv(t)

\* The program is started with credentials of the model and makes no call yet.
LEMMA InvInit ==
  ASSUME Unaided, Init
  PROVE  Inv
<1>1. Creds \in CredSet
  <2>1. uids \in IdTriples(UIDs) /\ gids \in IdTriples(GIDs) /\ sups \in SupLists
    BY GidsAssumption DEF Init, InitKernel
  <2> QED
    BY <2>1 DEF Creds, CredSet
<1>2. CapsFollow
  <2>1. PICK c \in CapsOf(uids) : permitted = c.permitted /\ effective = c.effective
    BY DEF Init, InitKernel
  <2>2. uids.e = 0 => 0 \in Own(uids)
    BY DEF Own
  <2>3. CASE uids.e = 0
    BY <2>1, <2>2, <2>3 DEF CapsOf, CapsFollow
  <2>4. CASE uids.e # 0 /\ 0 \in Own(uids)
    BY <2>1, <2>4 DEF CapsOf, CapsFollow
  <2>5. CASE uids.e # 0 /\ 0 \notin Own(uids)
    BY <2>1, <2>5, CapsAssumption DEF CapsOf, CapsFollow, Unaided
  <2> QED
    BY <2>3, <2>4, <2>5
<1>3. Tables
  BY DEF Init, InitLocal, Tables, Places, Requests
<1>4. ASSUME NEW t \in Threads PROVE ThreadInv(t)
  <2>1. pc[t] = "idle" /\ todo[t] = <<>>
    BY DEF Init, InitLocal
  <2> QED
    BY <2>1 DEF ThreadInv, ThreadIs
<1> QED
  BY <1>1, <1>2, <1>3, <1>4 DEF Inv, KernelInv

\* A step keeps it, and does to the credentials what a step may do.
LEMMA InvNext ==
  ASSUME Alone, Wide, Inv, [Next]_vars
  PROVE  Inv' /\ (UNCHANGED uids \/ \E t \in Threads : Moves(t))
<1>1. PICK t : Threads = {t}
  BY DEF Alone
<1>2. t \in Threads /\ KernelInv /\ Tables /\ ThreadInv(t)
  BY <1>1 DEF Inv
<1>3. ASSUME ThreadInv(t)', Tables', KernelInv' PROVE Inv'
  BY <1>1, <1>3 DEF Inv
<1>4. CASE \E rq \in Requests : Call(t, rq)
  <2>1. PICK rq \in Requests : Call(t, rq)
    BY <1>4
  <2>2. UNCHANGED kernel
    BY <2>1 DEF Call
  <2>3. KernelInv' /\ UNCHANGED uids
    BY <1>2, <2>2 DEF kernel, KernelInv, CapsFollow, Creds
  <2> QED
    BY <1>2, <1>3, <2>1, <2>3, CallKeeps
<1>5. CASE Step(t)
  BY <1>2, <1>3, <1>5, StepKeeps
<1>6. CASE UNCHANGED vars
  <2>1. UNCHANGED <<uids, gids, sups, permitted, effective, pc, req, todo, pair, start>>
    BY <1>6 DEF vars, kernel, local
  <2>2. KernelInv' /\ Tables'
    BY <1>2, <2>1 DEF KernelInv, CapsFollow, Creds, Tables
  <2>3. Creds' = Creds
    BY <2>1 DEF Creds
  <2>4. ThreadInv(t)'
    BY <1>2, <2>1, <2>3 DEF ThreadInv
  <2> QED
    BY <1>3, <2>1, <2>2, <2>4
<1> QED
  BY <1>1, <1>4, <1>5, <1>6 DEF Next

\* The invariant of the program.
THEOREM Invariant ==
  ASSUME Alone, Wide, Unaided
  PROVE  Spec => []Inv
<1>1. Init => Inv
  BY InvInit
<1>2. Inv /\ [Next]_vars => Inv'
  BY InvNext
<1> QED
  BY <1>1, <1>2, PTL DEF Spec

(***************************************************************************)
(* With room for the ids of a pair in the maps, no assertion fails: each   *)
(* call of each plan is accepted, and set_sups and set_gids_from_graph are *)
(* called while the process has the privilege they need.                   *)
(***************************************************************************)
THEOREM NoAssertionFails ==
  ASSUME Alone, Wide, Unaided, Roomy
  PROVE  Spec => []AssertionsHold
<1>1. Inv => AssertionsHold
  BY DEF Inv, ThreadInv, ThreadIs, AssertionsHold
<1> QED
  BY <1>1, Invariant, PTL

(***************************************************************************)
(* A successful permanent change leaves nothing of the old identity.       *)
(***************************************************************************)
THEOREM NothingIsLeft ==
  ASSUME Alone, Wide, Unaided
  PROVE  Spec => []PermanentLeavesNothing
<1>1. Inv => PermanentLeavesNothing
  <2> SUFFICES ASSUME Inv, NEW t \in Threads, pc[t] = "ok", req[t].permanent
               PROVE  /\ uids = AllSame(req[t].uid)
                      /\ gids = AllSame(req[t].gid)
                      /\ req[t].sups # DontChange =>
                           \/ sups = req[t].sups
                           \/ sups \ {start[t].gids.e} = req[t].sups
    BY DEF PermanentLeavesNothing
  <2>1. PICK to : Chosen(start[t], req[t], to) /\ Reaches(start[t], req[t], to, Creds)
    BY DEF Inv, ThreadInv, ThreadIs
  <2>2. Creds.uids = uids /\ Creds.gids = gids /\ Creds.sups = sups
    BY DEF Creds
  <2> QED
    BY <2>1, <2>2 DEF Chosen, Promised, Reaches, SupsAsAsked, ListOf
<1> QED
  BY <1>1, Invariant, PTL

(***************************************************************************)
(* A successful temporary change keeps the old effective ids.              *)
(***************************************************************************)
THEOREM OldIdsAreKept ==
  ASSUME Alone, Wide, Unaided
  PROVE  Spec => []TemporaryKeepsOld
<1>1. Inv => TemporaryKeepsOld
  <2> SUFFICES ASSUME Inv, NEW t \in Threads, pc[t] = "ok", ~req[t].permanent
               PROVE  /\ uids.e = req[t].uid /\ start[t].uids.e \in {uids.r, uids.s}
                      /\ gids.e = req[t].gid /\ start[t].gids.e \in {gids.r, gids.s}
    BY DEF TemporaryKeepsOld
  <2>1. PICK to : Chosen(start[t], req[t], to) /\ Reaches(start[t], req[t], to, Creds)
    BY DEF Inv, ThreadInv, ThreadIs
  <2>2. Creds.uids = uids /\ Creds.gids = gids
    BY DEF Creds
  <2> QED
    BY <2>1, <2>2 DEF Chosen, Promised, Reaches
<1> QED
  BY <1>1, Invariant, PTL

(***************************************************************************)
(* Asked to go back, fill_pair finds a way: the first candidate needs only *)
(* ids the process holds, and a pair that needs no others is reachable.    *)
(***************************************************************************)
THEOREM TheWayBackIsOpen ==
  ASSUME Alone, Wide, Unaided, Roomy
  PROVE  Spec => []TemporaryCanBeUndone
<1>1. Inv => TemporaryCanBeUndone
  <2> SUFFICES ASSUME Inv, NEW t \in Threads, pc[t] = "ok", ~req[t].permanent
               PROVE  FillPair(ReadCreds(FALSE), WayBack(t)).status = "success"
    BY DEF TemporaryCanBeUndone
  <2> DEFINE rq == WayBack(t)
  <2>1. Creds \in CredSet
    BY DEF Inv, KernelInv
  <2>2. /\ start[t].uids.e \in Own(uids) /\ start[t].gids.e \in Own(gids)
        /\ start[t].uids.e \in UIDs /\ start[t].gids.e \in GIDs
    <3>1. start[t] \in CredSet
      BY DEF Inv, ThreadInv, ThreadIs
    <3>2. TemporaryKeepsOld
      <4>1. PICK to : Chosen(start[t], req[t], to) /\ Reaches(start[t], req[t], to, Creds)
        BY DEF Inv, ThreadInv, ThreadIs
      <4>2. Threads = {t}
        BY DEF Alone
      <4>3. Creds.uids = uids /\ Creds.gids = gids
        BY DEF Creds
      <4> QED
        BY <4>1, <4>2, <4>3 DEF Chosen, Promised, Reaches, TemporaryKeepsOld
    <3>3. start[t].uids.e \in {uids.r, uids.s} /\ start[t].gids.e \in {gids.r, gids.s}
      BY <3>2 DEF TemporaryKeepsOld
    <3>4. start[t].uids \in IdTriples(UIDs) /\ start[t].gids \in IdTriples(GIDs)
      BY <3>1 DEF CredSet
    <3> QED
      BY <3>3, <3>4 DEF Own, IdTriples
  <2>3. rq \in Requests /\ rq.sane /\ rq.sups = DontChange
        /\ rq.uid = start[t].uids.e /\ rq.gid = start[t].gids.e
    BY <2>2 DEF WayBack, Requests
  <2>4. ReadCreds(FALSE) = Creds /\ Creds.uids = uids /\ Creds.gids = gids
    BY <2>1, ReadIsCreds
  <2>5. ~SupsChangeNeeded(Creds, rq)
    BY <2>3 DEF SupsChangeNeeded
  <2> HIDE DEF rq
  <2>6. /\ \A k \in DOMAIN Candidates(Creds, rq) :
             LET to == Candidates(Creds, rq)[k]
             IN  to \in Targets /\ Own(to.uids) \subseteq Own(Creds.uids)
        /\ 1 \in DOMAIN Candidates(Creds, rq)
        /\ LET to == Candidates(Creds, rq)[1]
           IN  Own(to.uids) \subseteq Own(Creds.uids) /\ Own(to.gids) \subseteq Own(Creds.gids)
    <3>1. \E n \in Nat \ {0} : DOMAIN Candidates(Creds, rq) = 1 .. n
      BY <2>1, <2>3, CandidatesFit
    <3>2. \A k \in DOMAIN Candidates(Creds, rq) :
             LET to == Candidates(Creds, rq)[k]
             IN  to \in Targets /\ Own(to.uids) \subseteq Own(Creds.uids) \cup {rq.uid}
      BY <2>1, <2>3, CandidatesFit
    <3>3. LET to == Candidates(Creds, rq)[1]
          IN  /\ rq.uid \in Own(Creds.uids) => Own(to.uids) \subseteq Own(Creds.uids)
              /\ rq.gid \in Own(Creds.gids) => Own(to.gids) \subseteq Own(Creds.gids)
      BY <2>1, <2>3, CandidatesFit
    <3>4. rq.uid \in Own(Creds.uids) /\ rq.gid \in Own(Creds.gids)
      BY <2>2, <2>3, <2>4
    <3>5. 1 \in DOMAIN Candidates(Creds, rq)
      BY <3>1
    <3> QED
      BY <3>2, <3>3, <3>4, <3>5
  <2>7. ASSUME NEW k \in DOMAIN Candidates(Creds, rq)
        PROVE  LET np == Normalized(Creds, Candidates(Creds, rq)[k])
               IN  Fits(np) /\ Judgement(np, rq) \in Judgements \ {"aborted"}
    <3> DEFINE to == Candidates(Creds, rq)[k]
    <3>1. to \in Targets /\ Own(to.uids) \subseteq Own(Creds.uids) \cup {rq.uid}
      BY <2>6, <2>7
    <3> HIDE DEF to
    <3>2. Fits(Normalized(Creds, to))
      BY <2>1, <3>1, RoomyFits
    <3>3. Judgement(Normalized(Creds, to), rq) \in Judgements \ {"aborted"}
      BY <2>1, <3>1, <3>2, JudgementIs
    <3> QED
      BY <3>2, <3>3 DEF to
  <2>8. Judgement(Normalized(Creds, Candidates(Creds, rq)[1]), rq) = "success"
    <3> DEFINE to == Candidates(Creds, rq)[1]
    <3>1. /\ to \in Targets /\ Own(to.uids) \subseteq Own(Creds.uids)
          /\ Own(to.gids) \subseteq Own(Creds.gids) /\ Fits(Normalized(Creds, to))
      BY <2>6, <2>7
    <3> HIDE DEF to
    <3>2. Judgement(Normalized(Creds, to), rq) = "success"
      BY <2>1, <2>5, <3>1, JudgementIs
    <3> QED
      BY <3>2 DEF to
  <2>9. PICK k \in DOMAIN Candidates(Creds, rq) :
          LET np == Normalized(Creds, Candidates(Creds, rq)[k])
          IN  /\ FillPair(Creds, rq) = [status |-> Judgement(np, rq), np |-> np]
              /\ \A j \in DOMAIN Candidates(Creds, rq) :
                   Severity[Judgement(np, rq)]
                   <= Severity[Judgement(Normalized(Creds, Candidates(Creds, rq)[j]), rq)]
    BY <2>1, <2>3, FillPairIs
  <2>10. Severity[Judgement(Normalized(Creds, Candidates(Creds, rq)[k]), rq)] <= 0
    BY <2>6, <2>8, <2>9 DEF Severity
  <2>11. Judgement(Normalized(Creds, Candidates(Creds, rq)[k]), rq) = "success"
    BY <2>7, <2>10 DEF Judgements, Severity
  <2>12. FillPair(Creds, rq).status = "success"
    BY <2>9, <2>11
  <2> QED
    BY <2>4, <2>12 DEF rq
<1> QED
  BY <1>1, Invariant, PTL

(***************************************************************************)
(* After a permanent change to a user other than root the uids never       *)
(* change again: no call of an unprivileged process brings an id it does   *)
(* not hold, and it holds but one.                                         *)
(***************************************************************************)
THEOREM PermanentIsPermanent ==
  ASSUME Alone, Wide, Unaided
  PROVE  Spec => PermanentIsForever
<1> SUFFICES ASSUME NEW u \in UIDs \ {0}
             PROVE  Spec => [](DroppedTo(u) => [](uids = AllSame(u)))
  BY DEF PermanentIsForever
<1>1. Inv /\ DroppedTo(u) => uids = AllSame(u)
  <2> SUFFICES ASSUME Inv, NEW t \in Threads, pc[t] = "ok", req[t].permanent, req[t].uid = u
               PROVE  uids = AllSame(u)
    BY DEF DroppedTo
  <2>1. PICK to : Chosen(start[t], req[t], to) /\ Reaches(start[t], req[t], to, Creds)
    BY DEF Inv, ThreadInv, ThreadIs
  <2>2. Creds.uids = uids
    BY DEF Creds
  <2> QED
    BY <2>1, <2>2 DEF Chosen, Promised, Reaches
<1>2. Inv /\ uids = AllSame(u) /\ [Next]_vars => (uids = AllSame(u))'
  <2> SUFFICES ASSUME Inv, uids = AllSame(u), [Next]_vars PROVE uids' = AllSame(u)
    OBVIOUS
  <2>1. Inv' /\ (UNCHANGED uids \/ \E t \in Threads : Moves(t))
    BY InvNext
  <2>2. CASE \E t \in Threads : Moves(t)
    <3>1. uids.e = u /\ Own(uids) = {u}
      BY DEF AllSame, Own
    <3>2. Own(uids') \subseteq {u}
      BY <2>2, <3>1 DEF Moves
    <3>3. uids' \in IdTriples(UIDs)
      BY <2>1 DEF Inv, KernelInv, Creds, CredSet
    <3>4. uids'.r = u /\ uids'.e = u /\ uids'.s = u
      BY <3>2 DEF Own
    <3> QED
      BY <3>3, <3>4 DEF IdTriples, AllSame
  <2> QED
    BY <2>1, <2>2
<1> QED
  BY <1>1, <1>2, Invariant, PTL DEF Spec
-----------------------------------------------------------------------------
(***************************************************************************)
(* Refusals, whatever capabilities the process holds: until its first      *)
(* system call a thread has changed no credential, and it returns -1       *)
(* before that or not at all.                                              *)
(***************************************************************************)
Untouched ==
  /\ DOMAIN pc = Threads /\ DOMAIN req = Threads /\ DOMAIN start = Threads
  /\ \A t \in Threads :
       /\ pc[t] \in {"basic", "timing", "fallback", "forced", "EINVAL", "EPERM"} => Creds = start[t]
       /\ pc[t] = "EINVAL" => ~req[t].sane

\* Every step keeps it.
LEMMA UntouchedNext ==
  ASSUME Alone, Untouched, [Next]_vars
  PROVE  Untouched'
<1>1. PICK t : Threads = {t}
  BY DEF Alone
<1>2. /\ DOMAIN pc = {t} /\ DOMAIN req = {t} /\ DOMAIN start = {t}
      /\ pc[t] \in {"basic", "timing", "fallback", "forced", "EINVAL", "EPERM"} => Creds = start[t]
      /\ pc[t] = "EINVAL" => ~req[t].sane
  BY <1>1 DEF Untouched
<1>3. ASSUME DOMAIN pc' = {t}, UNCHANGED <<req, start>>,
             pc'[t] \in {"run", "ok", "aborted"}
      PROVE  Untouched'
  BY <1>1, <1>2, <1>3 DEF Untouched
<1>4. ASSUME UNCHANGED <<kernel, req, start>>, DOMAIN pc' = {t},
             pc[t] \in {"basic", "fallback"},
             pc'[t] = "EINVAL" => ~req[t].sane
      PROVE  Untouched'
  <2>1. Creds' = Creds
    BY <1>4 DEF kernel, Creds
  <2> QED
    BY <1>1, <1>2, <1>4, <2>1 DEF Untouched
<1>5. CASE \E rq \in Requests : Call(t, rq)
  <2>1. PICK rq \in Requests : Call(t, rq)
    BY <1>5
  <2>2. /\ pc' = [pc EXCEPT ![t] = "basic"] /\ req' = [req EXCEPT ![t] = rq]
        /\ start' = [start EXCEPT ![t] = Creds]
    BY <2>1 DEF Call, Goto
  <2>3. Creds' = Creds
    BY <2>1 DEF Call, kernel, Creds
  <2>4. /\ DOMAIN pc' = {t} /\ DOMAIN req' = {t} /\ DOMAIN start' = {t}
        /\ pc'[t] = "basic" /\ start'[t] = Creds
    BY <1>2, <2>2
  <2> QED
    BY <1>1, <2>3, <2>4 DEF Untouched
<1>6. CASE Basic(t)
  <2>1. pc[t] = "basic" /\ UNCHANGED <<kernel, req, start>>
    BY <1>6 DEF Basic
  <2>2. /\ DOMAIN pc' = {t}
        /\ ~req[t].sane \/ pc'[t] \in {"aborted", "timing", "fallback"}
    <3>1. PICK where : /\ pc' = [pc EXCEPT ![t] = where]
                       /\ where = (IF ~req[t].sane THEN "EINVAL"
                                   ELSE CASE pair'[t].status = "aborted" -> "aborted"
                                          [] pair'[t].status = "success" -> "timing"
                                          [] OTHER -> "fallback")
      BY <1>6 DEF Basic, Goto
    <3>2. DOMAIN pc' = {t} /\ pc'[t] = where
      BY <1>2, <3>1
    <3>3. ~req[t].sane \/ where \in {"aborted", "timing", "fallback"}
      BY <3>1
    <3> QED
      BY <3>2, <3>3
  <2> QED
    BY <1>4, <2>1, <2>2
<1>7. CASE Timing(t) \/ Forced(t)
  BY <1>2, <1>3, <1>7 DEF Timing, Forced, Goto
<1>8. CASE Fallback(t)
  BY <1>2, <1>4, <1>8 DEF Fallback, Goto
<1>9. CASE SetUids(t) \/ SetGids(t) \/ SetSupplementary(t)
  <2>1. pc[t] = "run" /\ UNCHANGED <<pc, req, start>>
    BY <1>9 DEF SetUids, SetGids, SetSupplementary, Next1, Done
  <2> QED
    BY <1>2, <1>3, <2>1
<1>10. CASE ElevatedPlan(t)
  <2>1. pc[t] = "run" /\ UNCHANGED <<req, start>>
    BY <1>10 DEF ElevatedPlan, Next1
  <2>2. UNCHANGED pc \/ pc' = [pc EXCEPT ![t] = "aborted"]
    BY <1>10 DEF ElevatedPlan, Goto
  <2> QED
    BY <1>2, <1>3, <2>1, <2>2
<1>11. CASE Abort(t) \/ Return(t)
  <2>1. UNCHANGED <<req, start>>
    BY <1>11 DEF Abort, Return
  <2>2. pc' = [pc EXCEPT ![t] = "aborted"] \/ pc' = [pc EXCEPT ![t] = "ok"]
    BY <1>11 DEF Abort, Return, Goto
  <2> QED
    BY <1>2, <1>3, <2>1, <2>2
<1>12. CASE UNCHANGED vars
  <2>1. UNCHANGED <<uids, gids, sups, pc, req, start>>
    BY <1>12 DEF vars, kernel, local
  <2> QED
    BY <2>1 DEF Untouched, Creds
<1> QED
  BY <1>1, <1>5, <1>6, <1>7, <1>8, <1>9, <1>10, <1>11, <1>12 DEF Next, Step

\* So it always holds.
LEMMA AlwaysUntouched ==
  ASSUME Alone
  PROVE  Spec => []Untouched
<1>1. Init => Untouched
  BY DEF Init, InitLocal, Untouched
<1>2. Untouched /\ [Next]_vars => Untouched'
  BY UntouchedNext
<1> QED
  BY <1>1, <1>2, PTL DEF Spec

(***************************************************************************)
(* A call that returns -1 has changed nothing, by the graph or by          *)
(* capabilities.                                                           *)
(***************************************************************************)
THEOREM FailuresChangeNothing ==
  ASSUME Alone
  PROVE  Spec => []FailureChangesNothing
<1>1. Untouched => FailureChangesNothing
  BY DEF Untouched, FailureChangesNothing
<1> QED
  BY <1>1, AlwaysUntouched, PTL

(***************************************************************************)
(* What the verification of the interface reports: Priv2SanityVisitor      *)
(* confirms every call, and ExistingUidSucceeds all but those that ask for *)
(* groups the process may not set.                                         *)
(***************************************************************************)
THEOREM VisitorConfirms ==
  ASSUME Alone, Wide, Unaided
  PROVE  Spec => []Priv2SanityReports
<1>1. Inv /\ Untouched => Priv2SanityReports
  <2> SUFFICES ASSUME Inv, Untouched, NEW t \in Threads, pc[t] \in Returned, req[t].sane,
                      req[t].sups # DontChange
               PROVE  /\ V!Priv2Sanity(Finished(t))
                      /\ \/ V!ExistingUidSucceeds(Finished(t))
                         \/ req[t].gid \notin Own(start[t].gids) \/ req[t].sups # start[t].sups
    BY DEF Priv2SanityReports
  <2> DEFINE c == Finished(t)
  <2>1. /\ c.permanent = req[t].permanent /\ c.uid = req[t].uid /\ c.gid = req[t].gid
        /\ c.sups = req[t].sups /\ c.v = start[t].uids /\ c.visitorEgid = start[t].gids.e
        /\ c.value = (IF pc[t] = "ok" THEN 0 ELSE -1) /\ c.err = pc[t]
        /\ c.uids = uids /\ c.gids = gids /\ c.newSups = sups
    BY DEF Finished
  <2>2. Creds.uids = uids /\ Creds.gids = gids /\ Creds.sups = sups
    BY DEF Creds
  <2>3. pc[t] \in {"ok", "EPERM"}
    BY DEF Untouched, Returned
  <2> HIDE DEF c
  <2>4. CASE pc[t] = "ok"
    <3>1. PICK to : Chosen(start[t], req[t], to) /\ Reaches(start[t], req[t], to, Creds)
      BY <2>4 DEF Inv, ThreadInv, ThreadIs
    <3>2. sups = req[t].sups \/ sups \ {start[t].gids.e} = req[t].sups
      BY <2>2, <3>1 DEF Reaches, ListOf, SupsAsAsked
    <3>3. V!SupsConfirmed(c)
      BY <2>1, <3>2 DEF V!SupsConfirmed
    <3>4. c.value = 0
      BY <2>1, <2>4
    <3>5. IF c.permanent
          THEN c.uids = AllSame(c.uid) /\ c.gids = AllSame(c.gid)
          ELSE /\ c.uids.e = c.uid /\ c.v.e \in {c.uids.r, c.uids.s}
               /\ c.gids.e = c.gid
      BY <2>1, <2>2, <3>1 DEF Chosen, Promised, Reaches
    <3>6. \A id : V!AllSame(id) = AllSame(id)
      BY DEF V!AllSame, AllSame
    <3>7. V!Priv2Sanity(c)
      BY <3>3, <3>4, <3>5, <3>6 DEF V!Priv2Sanity
    <3>8. V!ExistingUidSucceeds(c)
      BY <3>4 DEF V!ExistingUidSucceeds
    <3> QED
      BY <3>7, <3>8 DEF c
  <2>5. CASE pc[t] = "EPERM"
    <3>1. Refused(start[t], req[t]) /\ start[t] = Creds
      BY <2>5 DEF Inv, ThreadInv, ThreadIs
    <3>2. c.value = -1 /\ c.uids = c.v
      BY <2>1, <2>2, <2>5, <3>1
    <3>3. c.v.e # 0
      BY <2>1, <3>1 DEF Refused, Own
    <3>4. V!Priv2Sanity(c)
      BY <3>2, <3>3 DEF V!Priv2Sanity
    <3>5. req[t].uid \notin Own(start[t].uids) \/ req[t].gid \notin Own(start[t].gids)
          \/ req[t].sups # start[t].sups
      BY <3>1 DEF Refused, SupsAsAsked
    <3>6. req[t].uid \notin Own(start[t].uids) => V!ExistingUidSucceeds(c)
      BY <2>1 DEF V!ExistingUidSucceeds, V!Own, Own
    <3> QED
      BY <3>4, <3>5, <3>6 DEF c
  <2> QED
    BY <2>3, <2>4, <2>5
<1> QED
  BY <1>1, Invariant, AlwaysUntouched, PTL
-----------------------------------------------------------------------------
(***************************************************************************)
(* Whatever capabilities a process holds.  A plan made on privilege that   *)
(* is not there may fail and may lead elsewhere, but its calls are still   *)
(* calls over the ids of the pair, and all refusals come before them.      *)
(***************************************************************************)
\* A call over S, or with -1.
Within(c, S) ==
  LET P == S \cup {Keep}
  IN  \/ \E a \in P : c = SetIdCall("setuid", <<a>>)
      \/ \E a \in P : c = SetIdCall("seteuid", <<a>>)
      \/ \E a, b \in P : c = SetIdCall("setreuid", <<a, b>>)
      \/ \E a, b, d \in P : c = SetIdCall("setresuid", <<a, b, d>>)

Doable(o) ==
  \/ o.op = "uids" /\ o.mapped /\ Within(o.call, UIDs)
  \/ o.op = "gids" /\ o.mapped /\ Within(o.call, GIDs)
  \/ o.op \in {"sups", "replan", "assert"}

AllDoable(w) == IsList(w) /\ \A i \in DOMAIN w : Doable(w[i])

\* A call over S brings in no other id.
LEMMA AfterWithin ==
  ASSUME NEW S, Keep \notin S, NEW t \in IdTriples(S), NEW c, Within(c, S), NEW priv \in BOOLEAN, Allowed(c, t, priv)
  PROVE  After(c, t, priv) \in IdTriples(S)
<1> DEFINE P == S \cup {Keep}
<1>1. t.r \in S /\ t.e \in S /\ t.s \in S /\ t = [r |-> t.r, e |-> t.e, s |-> t.s]
  BY DEF IdTriples
<1>2. \A a \in P, old \in S : New(a, old) \in S
  BY DEF New
<1>3. ASSUME NEW a \in P, c = SetIdCall("setuid", <<a>>) PROVE After(c, t, priv) \in IdTriples(S)
  <2>1. c.fn = "setuid" /\ c.args[1] = a
    BY <1>3 DEF SetIdCall
  <2>2. a \in S
    BY <2>1 DEF Allowed
  <2> QED
    BY <1>1, <2>1, <2>2 DEF After, AllSame, IdTriples
<1>4. ASSUME NEW a \in P, c = SetIdCall("seteuid", <<a>>) PROVE After(c, t, priv) \in IdTriples(S)
  <2>1. c.fn = "seteuid" /\ c.args[1] = a
    BY <1>4 DEF SetIdCall
  <2>2. a \in S
    BY <2>1 DEF Allowed
  <2> QED
    BY <1>1, <2>1, <2>2 DEF After, IdTriples
<1>5. ASSUME NEW a \in P, NEW b \in P, c = SetIdCall("setreuid", <<a, b>>)
      PROVE  After(c, t, priv) \in IdTriples(S)
  <2>1. c.fn = "setreuid" /\ c.args[1] = a /\ c.args[2] = b
    BY <1>5 DEF SetIdCall
  <2>2. New(a, t.r) \in S /\ New(b, t.e) \in S
    BY <1>1, <1>2
  <2> QED
    BY <1>1, <2>1, <2>2 DEF After, IdTriples
<1>6. ASSUME NEW a \in P, NEW b \in P, NEW d \in P, c = SetIdCall("setresuid", <<a, b, d>>)
      PROVE  After(c, t, priv) \in IdTriples(S)
  <2>1. c.fn = "setresuid" /\ c.args[1] = a /\ c.args[2] = b /\ c.args[3] = d
    BY <1>6 DEF SetIdCall
  <2>2. New(a, t.r) \in S /\ New(b, t.e) \in S /\ New(d, t.s) \in S
    BY <1>1, <1>2
  <2> QED
    BY <2>1, <2>2 DEF After, IdTriples
<1> QED
  BY <1>3, <1>4, <1>5, <1>6 DEF Within

\* A call to a state is over the ids of that state, and stays so when renamed.
LEMMA RenamedWithin ==
  ASSUME NEW S, NEW D, NEW map, NEW op, NEW q \in IdTriples(D), NEW c, CallTo(c, q),
         D \subseteq DOMAIN map \cup (IF op = "uids" THEN {0} ELSE {}),
         op = "uids" => 0 \in S,
         \A d \in Own(q) \ {0} : map[d] \in S,
         op = "uids" \/ 0 \notin Own(q)
  PROVE  Within(MapParams(map, c), S) /\ Mapped(map, c, op = "uids")
<1> DEFINE P == S \cup {Keep}
           Q == Own(q) \cup {Keep}
           Arg(a) == IF a \in {Keep, 0} THEN a ELSE map[a]
           m == MapParams(map, c)
<1>1. q.r \in Q /\ q.e \in Q /\ q.s \in Q /\ Keep \in Q /\ Own(q) \subseteq D
  BY DEF Own, IdTriples
<1>2. \A a \in Q : Arg(a) \in P
  <2> SUFFICES ASSUME NEW a \in Q PROVE Arg(a) \in P
    OBVIOUS
  <2>1. CASE a = Keep
    BY <2>1
  <2>2. CASE a = 0
    BY <2>2 DEF Keep
  <2>3. CASE a \notin {0, Keep}
    BY <2>3
  <2> QED
    BY <2>1, <2>2, <2>3
<1>3. \A a \in Q : a \in DOMAIN map \cup {Keep} \cup (IF op = "uids" THEN {0} ELSE {})
  BY <1>1
<1> HIDE DEF Q, P
<1>4. ASSUME NEW fn, NEW args, c = SetIdCall(fn, args)
      PROVE  m = SetIdCall(fn, [i \in DOMAIN args |-> Arg(args[i])])
  BY <1>4 DEF MapParams, SetIdCall
<1>5. ASSUME NEW fn, NEW a \in Q, c = SetIdCall(fn, <<a>>)
      PROVE  m = SetIdCall(fn, <<Arg(a)>>) /\ Mapped(map, c, op = "uids")
  <2>1. [i \in DOMAIN <<a>> |-> Arg(<<a>>[i])] = <<Arg(a)>>
    OBVIOUS
  <2>2. m = SetIdCall(fn, [i \in DOMAIN <<a>> |-> Arg(<<a>>[i])])
    BY <1>4, <1>5
  <2>3. DOMAIN c.args = {1} /\ c.args[1] = a
    BY <1>5 DEF SetIdCall
  <2> QED
    BY <1>3, <2>1, <2>2, <2>3 DEF Mapped
<1>6. ASSUME NEW fn, NEW a \in Q, NEW b \in Q, c = SetIdCall(fn, <<a, b>>)
      PROVE  m = SetIdCall(fn, <<Arg(a), Arg(b)>>) /\ Mapped(map, c, op = "uids")
  <2>1. [i \in DOMAIN <<a, b>> |-> Arg(<<a, b>>[i])] = <<Arg(a), Arg(b)>>
    OBVIOUS
  <2>2. m = SetIdCall(fn, [i \in DOMAIN <<a, b>> |-> Arg(<<a, b>>[i])])
    BY <1>4, <1>6
  <2>3. DOMAIN c.args = {1, 2} /\ c.args[1] = a /\ c.args[2] = b
    BY <1>6 DEF SetIdCall
  <2> QED
    BY <1>3, <2>1, <2>2, <2>3 DEF Mapped
<1>7. ASSUME NEW fn, NEW a \in Q, NEW b \in Q, NEW d \in Q, c = SetIdCall(fn, <<a, b, d>>)
      PROVE  m = SetIdCall(fn, <<Arg(a), Arg(b), Arg(d)>>) /\ Mapped(map, c, op = "uids")
  <2>1. [i \in DOMAIN <<a, b, d>> |-> Arg(<<a, b, d>>[i])] = <<Arg(a), Arg(b), Arg(d)>>
    OBVIOUS
  <2>2. m = SetIdCall(fn, [i \in DOMAIN <<a, b, d>> |-> Arg(<<a, b, d>>[i])])
    BY <1>4, <1>7
  <2>3. DOMAIN c.args = {1, 2, 3} /\ c.args[1] = a /\ c.args[2] = b /\ c.args[3] = d
    BY <1>7 DEF SetIdCall
  <2> QED
    BY <1>3, <2>1, <2>2, <2>3 DEF Mapped
<1> HIDE DEF m, Arg
<1>8. ASSUME NEW a \in Q, c = SetIdCall("setuid", <<a>>) \/ c = SetIdCall("seteuid", <<a>>)
      PROVE  Within(m, S) /\ Mapped(map, c, op = "uids")
  BY <1>2, <1>5, <1>8 DEF Within, P
<1>9. ASSUME NEW a \in Q, NEW b \in Q, c = SetIdCall("setreuid", <<a, b>>)
      PROVE  Within(m, S) /\ Mapped(map, c, op = "uids")
  BY <1>2, <1>6, <1>9 DEF Within, P
<1>10. ASSUME NEW a \in Q, NEW b \in Q, NEW d \in Q, c = SetIdCall("setresuid", <<a, b, d>>)
       PROVE  Within(m, S) /\ Mapped(map, c, op = "uids")
  <2>1. m = SetIdCall("setresuid", <<Arg(a), Arg(b), Arg(d)>>) /\ Mapped(map, c, op = "uids")
    BY <1>7, <1>10
  <2>2. Arg(a) \in P /\ Arg(b) \in P /\ Arg(d) \in P
    BY <1>2
  <2>3. Within(m, S)
    BY <2>1, <2>2 DEF Within, P
  <2> QED
    BY <2>1, <2>3
<1>11. \/ \E a \in Q : c = SetIdCall("setuid", <<a>>) \/ c = SetIdCall("seteuid", <<a>>)
       \/ \E a, b \in Q : c = SetIdCall("setreuid", <<a, b>>)
       \/ \E a, b, d \in Q : c = SetIdCall("setresuid", <<a, b, d>>)
  BY <1>1 DEF CallTo
<1>12. Within(m, S) /\ Mapped(map, c, op = "uids")
  BY <1>8, <1>9, <1>10, <1>11
<1> QED
  BY <1>12 DEF m

\* Lists of such calls, joined and taken apart.
LEMMA DoableLists ==
  /\ AllDoable(<<>>)
  /\ \A o : Doable(o) => AllDoable(<<o>>)
  /\ \A v, w : AllDoable(v) /\ AllDoable(w) => AllDoable(v \o w)
  /\ \A w : AllDoable(w) /\ w # <<>> => Doable(Head(w)) /\ AllDoable(Tail(w))
<1>1. AllDoable(<<>>)
  <2>1. <<>> \in Seq({})
    OBVIOUS
  <2> QED
    BY <2>1 DEF AllDoable, IsList
<1>2. ASSUME NEW o, Doable(o) PROVE AllDoable(<<o>>)
  <2>1. <<o>> \in Seq({o}) /\ DOMAIN <<o>> = {1} /\ <<o>>[1] = o
    OBVIOUS
  <2>2. IsList(<<o>>)
    BY <2>1 DEF IsList
  <2> QED
    BY <1>2, <2>1, <2>2 DEF AllDoable
<1>3. ASSUME NEW v, NEW w, AllDoable(v), AllDoable(w) PROVE AllDoable(v \o w)
  <2>1. IsList(v) /\ IsList(w) /\ (\A i \in DOMAIN v : Doable(v[i])) /\ (\A i \in DOMAIN w : Doable(w[i]))
    BY <1>3 DEF AllDoable
  <2>2. /\ IsList(v \o w) /\ Len(v) \in Nat /\ Len(w) \in Nat
        /\ DOMAIN (v \o w) = 1 .. Len(v) + Len(w)
        /\ \A i \in 1 .. Len(v) + Len(w) : (v \o w)[i] = IF i <= Len(v) THEN v[i] ELSE w[i - Len(v)]
    BY <2>1, ListsJoin
  <2>3. DOMAIN v = 1 .. Len(v) /\ DOMAIN w = 1 .. Len(w)
    BY <2>1 DEF IsList
  <2>4. ASSUME NEW i \in 1 .. Len(v) + Len(w) PROVE Doable((v \o w)[i])
    <3>1. CASE i <= Len(v)
      BY <2>1, <2>2, <2>3, <3>1
    <3>2. CASE ~(i <= Len(v))
      <4>1. i - Len(v) \in DOMAIN w /\ (v \o w)[i] = w[i - Len(v)]
        BY <2>2, <2>3, <3>2
      <4> QED
        BY <2>1, <4>1
    <3> QED
      BY <3>1, <3>2
  <2> QED
    BY <2>2, <2>4 DEF AllDoable
<1>4. ASSUME NEW w, AllDoable(w), w # <<>> PROVE Doable(Head(w)) /\ AllDoable(Tail(w))
  <2>1. IsList(w) /\ \A i \in DOMAIN w : Doable(w[i])
    BY <1>4 DEF AllDoable
  <2>2. /\ IsList(Tail(w)) /\ Len(w) \in Nat \ {0} /\ Head(w) = w[1]
        /\ \A i \in 1 .. Len(w) - 1 : Tail(w)[i] = w[i + 1]
        /\ DOMAIN w = 1 .. Len(w) /\ DOMAIN Tail(w) = 1 .. Len(w) - 1
    BY <1>4, <2>1, ListTakenApart
  <2>3. 1 \in DOMAIN w /\ \A i \in 1 .. Len(w) - 1 : i + 1 \in DOMAIN w
    BY <2>2
  <2> QED
    BY <2>1, <2>2, <2>3 DEF AllDoable
<1> QED
  BY <1>1, <1>2, <1>3, <1>4

\* One, two or no calls of a walk.
LEMMA WalkDoable ==
  ASSUME NEW op, NEW map, NEW w, NEW p, NEW q, IsWalk(w, p, q), NEW M, q \in M,
         0 \in Own(p) /\ p.e # 0 => IdTriples(Own(p)) \subseteq M,
         \A c : \A m \in M : CallTo(c, m) => Doable(OpOf(op, map, c))
  PROVE  AllDoable([i \in DOMAIN w |-> OpOf(op, map, w[i])])
<1> DEFINE u == [i \in DOMAIN w |-> OpOf(op, map, w[i])]
<1>0. u = [i \in DOMAIN w |-> OpOf(op, map, w[i])]
  OBVIOUS
<1> HIDE DEF u
<1>1. CASE w = <<>>
  BY <1>0, <1>1, OpsOfWalk, DoableLists DEF u
<1>2. ASSUME NEW c, w = <<c>>, CallTo(c, q) PROVE AllDoable(u)
  <2>1. IsList(u) /\ Len(u) = 1 /\ u[1] = OpOf(op, map, c)
    BY <1>0, <1>2, OpsOfWalk
  <2>2. DOMAIN u = {1} /\ Doable(u[1])
    BY <1>2, <2>1 DEF IsList
  <2> QED
    BY <2>1, <2>2 DEF AllDoable
<1>3. ASSUME NEW m \in M, NEW c, NEW d, w = <<c, d>>, CallTo(c, m), CallTo(d, q) PROVE AllDoable(u)
  <2>1. IsList(u) /\ Len(u) = 2 /\ u[1] = OpOf(op, map, c) /\ u[2] = OpOf(op, map, d)
    BY <1>0, <1>3, OpsOfWalk
  <2>2. DOMAIN u = {1, 2} /\ Doable(u[1]) /\ Doable(u[2])
    BY <1>3, <2>1 DEF IsList
  <2> QED
    BY <2>1, <2>2 DEF AllDoable
<1>4. AllDoable(u)
  BY <1>1, <1>2, <1>3 DEF IsWalk, u
<1> QED
  BY <1>4 DEF u

\* What set_uids_from_graph is told to do between two states of the pair.
LEMMA UidsDoable ==
  ASSUME NEW prev \in IdTriples(UIDs), NEW next \in IdTriples(UIDs), NEW np, NEW p, NEW q,
         UidsNormalized(prev, next, np, p, q), NEW u \in Prescribed("uids", np)
  PROVE  AllDoable(u)
<1> DEFINE map == np.map
           D   == Named(map)
           f   == UidsBack(map)
           M   == {p, q} \cup IdTriples(Own(p))
<1>1. /\ D \subseteq Normals /\ f \in [D -> Nat] /\ p \in IdTriples(D) /\ q \in IdTriples(D)
      /\ np.prev = Lookup(p) /\ np.next = Lookup(q) /\ prev = Image(f, p) /\ next = Image(f, q)
  BY DEF UidsNormalized
<1>2. p \in IdTriples(Normals) /\ q \in IdTriples(Normals)
  BY <1>1 DEF IdTriples
<1>3. CASE ~CanSet(np.prev, np.next)
  <2>1. u = <<AssertFails>> /\ Doable(AssertFails)
    BY <1>3 DEF Prescribed, Doable, AssertFails
  <2> QED
    BY <2>1, DoableLists
<1>4. CASE CanSet(np.prev, np.next)
  <2>1. PICK w \in Walks(np.prev, np.next) : u = [i \in DOMAIN w |-> OpOf("uids", map, w[i])]
    BY <1>4, PrescribedAre
  <2>2. IsWalk(w, p, q)
    BY <1>1, <1>2, <2>1, WalksAre
  <2>3. \A d \in Own(p) \cup Own(q) : d \in D /\ f[d] \in UIDs
    BY <1>1 DEF Image, IdTriples, Own
  <2>4. ASSUME NEW m \in M, NEW c, CallTo(c, m) PROVE Doable(OpOf("uids", map, c))
    <3>1. Own(m) \subseteq Own(p) \cup Own(q)
      BY <2>4 DEF Own, IdTriples
    <3>2. m \in IdTriples(D)
      BY <1>1, <2>3 DEF IdTriples
    <3>3. \A d \in Own(m) \ {0} : map[d] \in UIDs
      BY <2>3, <3>1 DEF UidsBack
    <3>4. D \subseteq DOMAIN map \cup {0} /\ 0 \in UIDs
      BY UidsAssumption DEF Named
    <3> HIDE DEF D, map
    <3>5. Within(MapParams(map, c), UIDs) /\ Mapped(map, c, TRUE)
      BY <2>4, <3>2, <3>3, <3>4, RenamedWithin
    <3> QED
      BY <3>5 DEF Doable, OpOf
  <2>5. q \in M /\ IdTriples(Own(p)) \subseteq M
    OBVIOUS
  <2> HIDE DEF M, map
  <2> QED
    BY <2>1, <2>2, <2>4, <2>5, WalkDoable
<1> QED
  BY <1>3, <1>4

\* The same for set_gids_from_graph, whose walks are of one call.
LEMMA GidsDoable ==
  ASSUME NEW prev \in IdTriples(GIDs), NEW next \in IdTriples(GIDs), NEW forced \in BOOLEAN,
         NEW np, NEW p, NEW q,
         GidsNormalized(prev, next, forced, np, p, q), NEW u \in Prescribed("gids", np)
  PROVE  AllDoable(u)
<1> DEFINE map == np.map
           D   == DOMAIN map
<1>1. /\ D \subseteq Normals \ {0} /\ map \in [D -> Nat]
      /\ p = [r |-> p.r, e |-> p.e, s |-> p.s] /\ p.r \in D /\ p.s \in D /\ (p.e = 0 \/ p.e \in D)
      /\ q \in IdTriples(D) /\ next = Image(map, q)
      /\ np.prev = Lookup(p) /\ np.next = Lookup(q)
  BY DEF GidsNormalized
<1>2. p \in IdTriples(Normals) /\ q \in IdTriples(Normals)
  <2>1. p.r \in Normals /\ p.e \in Normals /\ p.s \in Normals
    BY <1>1, MaxIdsAssumption DEF Normals
  <2>2. p \in IdTriples(Normals)
    BY <1>1, <2>1 DEF IdTriples
  <2> QED
    BY <1>1, <2>2 DEF IdTriples
<1>3. CASE ~CanSet(np.prev, np.next)
  <2>1. u = <<AssertFails>> /\ Doable(AssertFails)
    BY <1>3 DEF Prescribed, Doable, AssertFails
  <2> QED
    BY <2>1, DoableLists
<1>4. CASE CanSet(np.prev, np.next)
  <2>1. PICK w \in Walks(np.prev, np.next) : u = [i \in DOMAIN w |-> OpOf("gids", map, w[i])]
    BY <1>4, PrescribedAre
  <2>2. IsWalk(w, p, q)
    BY <1>1, <1>2, <2>1, WalksAre
  <2>3. \A d \in Own(q) : d \in D /\ map[d] \in GIDs
    BY <1>1 DEF Image, IdTriples, Own
  <2>4. ASSUME NEW c, CallTo(c, q) PROVE Doable(OpOf("gids", map, c))
    <3> DEFINE op == "gids"
    <3>1. /\ q \in IdTriples(D) /\ \A d \in Own(q) \ {0} : map[d] \in GIDs
          /\ op = "uids" \/ 0 \notin Own(q)
      BY <1>1, <2>3
    <3>2. op # "uids" /\ D \subseteq DOMAIN map \cup (IF op = "uids" THEN {0} ELSE {})
      OBVIOUS
    <3> HIDE DEF D, map, op
    <3>3. Within(MapParams(map, c), GIDs) /\ Mapped(map, c, op = "uids")
      BY <2>4, <3>1, <3>2, RenamedWithin
    <3> USE DEF op
    <3> QED
      BY <3>3 DEF Doable, OpOf
  <2>5. ~(0 \in Own(p) /\ p.e # 0)
    BY <1>1 DEF Own
  <2> HIDE DEF map
  <2>6. \A c : \A m \in {q} : CallTo(c, m) => Doable(OpOf("gids", map, c))
    BY <2>4
  <2>7. AllDoable([i \in DOMAIN w |-> OpOf("gids", map, w[i])])
    <3> DEFINE M == {q}
    <3>1. q \in M /\ \A c : \A m \in M : CallTo(c, m) => Doable(OpOf("gids", map, c))
      BY <2>6
    <3> HIDE DEF M
    <3> QED
      BY <2>2, <2>5, <3>1, WalkDoable
  <2> QED
    BY <2>1, <2>7
<1> QED
  BY <1>3, <1>4

\* The calls of both halves of a pair.
LEMMA HalvesDoable ==
  ASSUME Wide, NEW x \in CredSet, NEW to \in Targets, NEW np, np = Normalized(x, to), Fits(np)
  PROVE  /\ \A u \in UidCalls(np) : AllDoable(u)
         /\ \A g \in GidCalls(np) : AllDoable(g)
<1>1. Understood(x, to, np)
  BY PairUnderstood
<1>2. /\ x.uids \in IdTriples(UIDs) /\ x.gids \in IdTriples(GIDs)
      /\ to.uids \in IdTriples(UIDs) /\ to.gids \in IdTriples(GIDs)
  BY DEF CredSet, Targets
<1>3. PICK p, q : UidsNormalized(x.uids, to.uids, np.uids, p, q)
  BY <1>1 DEF Understood
<1>4. PICK a, b : GidsNormalized(x.gids, to.gids, 0 \in Own(x.uids), np.gids, a, b)
  BY <1>1 DEF Understood
<1>5. ASSUME NEW u \in UidCalls(np) PROVE AllDoable(u)
  <2>1. u \in Prescribed("uids", np.uids)
    BY DEF UidCalls
  <2> QED
    BY <1>2, <1>3, <2>1, UidsDoable
<1>6. ASSUME NEW g \in GidCalls(np) PROVE AllDoable(g)
  <2> DEFINE forced == 0 \in Own(x.uids)
  <2>1. g \in Prescribed("gids", np.gids) /\ forced \in BOOLEAN
        /\ GidsNormalized(x.gids, to.gids, forced, np.gids, a, b)
    BY <1>4 DEF GidCalls
  <2> HIDE DEF forced
  <2> QED
    BY <1>2, <2>1, GidsDoable
<1> QED
  BY <1>5, <1>6

\* The steps that are no set-id calls.
LEMMA OthersDoable ==
  /\ AllDoable(<<SetSups>>) /\ AllDoable(<<Replan>>) /\ AllDoable(<<AssertFails>>)
  /\ \A condition, steps : AllDoable(steps) => AllDoable(If(condition, steps))
<1>1. Doable(SetSups) /\ Doable(Replan) /\ Doable(AssertFails)
  BY DEF Doable, SetSups, Replan, AssertFails
<1>2. AllDoable(<<SetSups>>) /\ AllDoable(<<Replan>>) /\ AllDoable(<<AssertFails>>)
  BY <1>1, DoableLists
<1>3. ASSUME NEW condition, NEW steps, AllDoable(steps) PROVE AllDoable(If(condition, steps))
  BY <1>3, DoableLists DEF If
<1> QED
  BY <1>2, <1>3

\* The plan of the elevated and of the capability path.
LEMMA FullPlansDoable ==
  ASSUME Wide, NEW x \in CredSet, NEW to \in Targets, NEW np, np = Normalized(x, to), Fits(np),
         NEW plan \in FullPlans(np)
  PROVE  AllDoable(plan)
<1>1. PICK g \in GidCalls(np), u \in UidCalls(np) : plan = <<SetSups>> \o g \o u
  BY DEF FullPlans
<1>2. AllDoable(g) /\ AllDoable(u) /\ AllDoable(<<SetSups>>)
  BY HalvesDoable, OthersDoable
<1>3. AllDoable(<<SetSups>> \o g)
  BY <1>2, DoableLists
<1> QED
  BY <1>1, <1>2, <1>3, DoableLists

\* The plan to become root first.
LEMMA ElevationsDoable ==
  ASSUME Wide, Creds \in CredSet, 0 \in Own(uids), NEW to \in Targets, NEW np,
         np = Normalized(Creds, to), Fits(np), NEW plan \in Elevations(np)
  PROVE  AllDoable(plan)
<1> DEFINE stop == SuidFor(np.uids.prev, np.uids.next)
           map  == np.uids.map
           name == [id \in DOMAIN map \cup {0} |-> IF id = 0 THEN 0 ELSE map[id]]
           aim  == [uids |-> Renamed(stop, name), gids |-> gids]
           up   == NormalizedNow(aim)
<1>1. Understood(Creds, to, np) /\ Creds.uids = uids
  BY PairUnderstood, ReadIsCreds
<1>2. stop = AllSame(0)
  BY <1>1 DEF Understood
<1>3. name[0] = 0
  OBVIOUS
<1> HIDE DEF stop, name
<1>4. aim = [uids |-> AllSame(0), gids |-> gids]
  BY <1>2, <1>3 DEF Renamed, AllSame
<1> HIDE DEF aim
<1>5. aim \in Targets
  BY <1>4, ReadIsCreds, UidsAssumption DEF Targets, IdTriples, AllSame
<1>6. up = Normalized(Creds, aim)
  BY ReadIsCreds DEF NormalizedNow
<1>7. plan \in IF Fits(up) THEN {u \o <<Replan>> : u \in UidCalls(up)} ELSE {<<AssertFails>>}
  BY DEF Elevations, aim, name, stop
<1> HIDE DEF up
<1>8. CASE Fits(up)
  <2>1. PICK u \in UidCalls(up) : plan = u \o <<Replan>>
    BY <1>7, <1>8
  <2>2. AllDoable(u) /\ AllDoable(<<Replan>>)
    BY <1>5, <1>6, <1>8, HalvesDoable, OthersDoable
  <2> QED
    BY <2>1, <2>2, DoableLists
<1>9. CASE ~Fits(up)
  BY <1>7, <1>9, OthersDoable
<1> QED
  BY <1>8, <1>9

\* The plan of change_identity_basic, in each of its orders.
LEMMA BasicPlansDoable ==
  ASSUME Wide, Creds \in CredSet, NEW to \in Targets, NEW np, np = Normalized(Creds, to), Fits(np),
         NEW rq, NEW plan \in BasicPlans(np, rq)
  PROVE  AllDoable(plan)
<1> DEFINE S    == If(SupsChangeNeeded(np.prev, rq), <<SetSups>>)
           G(g) == If(GroupsChangeNeeded(np.prev, np.to), g)
<1>1. Understood(Creds, to, np) /\ Creds.uids = uids
  BY PairUnderstood, ReadIsCreds
<1>2. PrivilegeAttainable(np) <=> 0 \in Own(uids)
  BY <1>1 DEF Understood
<1>4. /\ AllDoable(S) /\ \A u \in UidCalls(np) : AllDoable(u)
      /\ \A g \in GidCalls(np) : AllDoable(G(g))
  BY HalvesDoable, OthersDoable
<1> DEFINE first == {G(g) \o S \o u : g \in GidCalls(np), u \in UidCalls(np)}
           last  == {u \o S \o G(g) : g \in GidCalls(np), u \in UidCalls(np)}
<1>3. BasicPlans(np, rq) = IF np.prev.uids.e = 0 \/ ~PrivilegeAttainable(np) THEN first
                            ELSE IF np.to.uids.e = 0 THEN last ELSE Elevations(np)
  BY DEF BasicPlans
<1> HIDE DEF S, G, first, last
<1>5. CASE plan \in first
  <2>1. PICK g \in GidCalls(np), u \in UidCalls(np) : plan = G(g) \o S \o u
    BY <1>5, SMTT(30) DEF first
  <2>2. AllDoable(G(g) \o S) /\ AllDoable(u)
    BY <1>4, DoableLists
  <2> QED
    BY <2>1, <2>2, DoableLists
<1>6. CASE plan \in last
  <2>1. PICK g \in GidCalls(np), u \in UidCalls(np) : plan = u \o S \o G(g)
    BY <1>6, SMTT(30) DEF last
  <2>2. AllDoable(u \o S) /\ AllDoable(G(g))
    BY <1>4, DoableLists
  <2> QED
    BY <2>1, <2>2, DoableLists
<1>7. CASE PrivilegeAttainable(np) /\ plan \in Elevations(np)
  BY <1>2, <1>7, ElevationsDoable
<1> QED
  BY <1>3, <1>5, <1>6, <1>7

\* What fill_pair gives, whatever credentials it was shown.
LEMMA FillPairFits ==
  ASSUME Wide, NEW x \in CredSet, NEW rq \in Requests, rq.sane, NEW pr, pr = FillPair(x, rq),
         pr.status = "success"
  PROVE  pr.np.to \in Targets /\ pr.np = Normalized(x, pr.np.to) /\ Fits(pr.np)
<1> DEFINE C == Candidates(x, rq)
<1>1. PICK k \in DOMAIN C : pr = [status |-> Judgement(Normalized(x, C[k]), rq), np |-> Normalized(x, C[k])]
  BY FillPairIs
<1>2. C[k] \in Targets
  BY CandidatesFit
<1> HIDE DEF C
<1> DEFINE np == Normalized(x, C[k])
<1>3. pr.np = np /\ Judgement(np, rq) = "success" /\ np = Normalized(x, C[k])
  BY <1>1
<1> HIDE DEF np
<1>4. np.to = C[k]
  BY <1>2, <1>3, NormalizedIs
<1>5. Fits(np)
  BY <1>2, <1>3, JudgementIs
<1> QED
  BY <1>2, <1>3, <1>4, <1>5
-----------------------------------------------------------------------------
(***************************************************************************)
(* The invariant of a process with capabilities: how a thread got where it *)
(* is, and that its calls can be made.  Where the plan leads is not said.  *)
(***************************************************************************)
CapThreadIs(at, rq, w, pr, first, x) ==
  /\ AllDoable(w) /\ (at \notin {"run", "aborted"} => w = <<>>)
  /\ at \in {"basic", "timing", "fallback", "forced", "EINVAL", "EPERM"} => first = x
  /\ at \in {"timing", "fallback", "forced", "run"} => rq.sane
  /\ at \in {"timing", "forced", "run"} => pr.np.to \in Targets
  /\ at = "timing" => pr.np = Normalized(x, pr.np.to) /\ Fits(pr.np)
  /\ at = "forced" => \E y \in CredSet : pr.np = Normalized(y, pr.np.to) /\ Fits(pr.np)
  /\ at \in {"fallback", "EPERM"} => Refused(first, rq)
  /\ at = "EINVAL" => ~rq.sane

CapThread(t) == CapThreadIs(pc[t], req[t], todo[t], pair[t], start[t], Creds)

CapsNested == Creds \in CredSet /\ effective \subseteq permitted /\ permitted \subseteq AllCaps

CapInv == CapsNested /\ Tables /\ \A t \in Threads : CapThread(t)

\* The program is started with nested capability sets and makes no call yet.
LEMMA CapInit == Init => CapInv
<1> SUFFICES ASSUME Init PROVE CapInv
  OBVIOUS
<1>1. Creds \in CredSet
  <2>1. uids \in IdTriples(UIDs) /\ gids \in IdTriples(GIDs) /\ sups \in SupLists
    BY GidsAssumption DEF Init, InitKernel
  <2> QED
    BY <2>1 DEF Creds, CredSet
<1>2. effective \subseteq permitted /\ permitted \subseteq AllCaps
  <2>1. PICK c \in CapsOf(uids) : permitted = c.permitted /\ effective = c.effective
    BY DEF Init, InitKernel
  <2> QED
    BY <2>1, CapsAssumption DEF CapsOf, AllCaps
<1>3. Tables
  BY DEF Init, InitLocal, Tables, Places, Requests
<1>4. ASSUME NEW t \in Threads PROVE CapThread(t)
  <2>1. pc[t] = "idle" /\ todo[t] = <<>>
    BY DEF Init, InitLocal
  <2> QED
    BY <2>1, DoableLists DEF CapThread, CapThreadIs
<1> QED
  BY <1>1, <1>2, <1>3, <1>4 DEF CapInv, CapsNested

\* A thread goes on to another place with the same request.
LEMMA TablesMove ==
  ASSUME Tables, NEW t \in Threads, NEW at \in Places, pc' = [pc EXCEPT ![t] = at],
         UNCHANGED <<req, start>>, DOMAIN todo' = Threads, DOMAIN pair' = Threads
  PROVE  Tables' /\ pc'[t] = at
BY DEF Tables

\* change_identity_basic, up to fill_pair.
LEMMA CapBasic ==
  ASSUME Wide, CapsNested, Tables, NEW t \in Threads, CapThread(t), Basic(t)
  PROVE  CapThread(t)' /\ Tables' /\ CapsNested'
<1> DEFINE pr == FillPair(ReadCreds(FALSE), req[t])
           at == IF ~req[t].sane THEN "EINVAL"
                 ELSE IF pr.status = "aborted" THEN "aborted"
                 ELSE IF pr.status = "success" THEN "timing" ELSE "fallback"
<1>1. /\ pc[t] = "basic" /\ start[t] = Creds /\ todo[t] = <<>> /\ Creds \in CredSet
      /\ req[t] \in Requests
  BY DEF Basic, CapThread, CapThreadIs, CapsNested, Tables
<1>2. pr = FillPair(Creds, req[t])
  BY <1>1, ReadIsCreds
<1>3. UNCHANGED <<kernel, req, todo, start>> /\ Creds' = Creds /\ CapsNested'
  BY DEF Basic, kernel, Creds, CapsNested
<1>4. IF req[t].sane THEN pair' = [pair EXCEPT ![t] = pr] ELSE UNCHANGED pair
  BY DEF Basic
<1>5. pc' = [pc EXCEPT ![t] = IF ~req[t].sane THEN "EINVAL"
                              ELSE CASE pair'[t].status = "aborted" -> "aborted"
                                     [] pair'[t].status = "success" -> "timing"
                                     [] OTHER -> "fallback"]
  BY DEF Basic, Goto
<1> HIDE DEF pr
<1>6. req[t].sane => pair'[t] = pr
  BY <1>4 DEF Tables
<1>7. pc' = [pc EXCEPT ![t] = at]
  <2>1. CASE ~req[t].sane
    BY <1>5, <2>1
  <2>2. CASE req[t].sane /\ pr.status = "aborted"
    BY <1>5, <1>6, <2>2
  <2>3. CASE req[t].sane /\ pr.status = "success"
    BY <1>5, <1>6, <2>3
  <2>4. CASE req[t].sane /\ pr.status \notin {"aborted", "success"}
    BY <1>5, <1>6, <2>4
  <2> QED
    BY <2>1, <2>2, <2>3, <2>4
<1>8. at \in Places /\ DOMAIN todo' = Threads /\ DOMAIN pair' = Threads
  BY <1>3, <1>4 DEF Places, Returned, Tables
<1>9. CapThreadIs(at, req[t], <<>>, pair'[t], Creds, Creds)
  <2>1. CASE ~req[t].sane
    BY <2>1, DoableLists DEF CapThreadIs
  <2>2. CASE req[t].sane
    <3>1. /\ pr.status \in Judgements
          /\ pr.status = "success" =>
               pr.np.to \in Targets /\ pr.np = Normalized(Creds, pr.np.to) /\ Fits(pr.np)
          /\ pr.status \in Failures => Refused(Creds, req[t])
      BY <1>1, <1>2, <2>2, FillPairGives DEF Chosen
    <3>2. CASE pr.status = "aborted"
      BY <2>2, <3>2, DoableLists DEF CapThreadIs
    <3>3. CASE pr.status = "success"
      BY <1>6, <2>2, <3>1, <3>3, DoableLists DEF CapThreadIs
    <3>4. CASE pr.status \in Failures
      BY <2>2, <3>1, <3>4, DoableLists DEF CapThreadIs, Failures
    <3> QED
      BY <3>1, <3>2, <3>3, <3>4 DEF Judgements, Failures
  <2> QED
    BY <2>1, <2>2
<1> HIDE DEF at
<1>10. Tables' /\ pc'[t] = at
  BY <1>3, <1>7, <1>8, TablesMove
<1>11. /\ req'[t] = req[t] /\ todo'[t] = <<>> /\ start'[t] = Creds /\ Creds' = Creds
  BY <1>1, <1>3
<1> QED
  BY <1>3, <1>9, <1>10, <1>11 DEF CapThread

\* A call begins.
LEMMA CapCall ==
  ASSUME CapsNested, Tables, NEW t \in Threads, NEW rq \in Requests, Call(t, rq)
  PROVE  CapThread(t)' /\ Tables' /\ CapsNested'
<1>1. /\ pc' = [pc EXCEPT ![t] = "basic"] /\ req' = [req EXCEPT ![t] = rq]
      /\ todo' = [todo EXCEPT ![t] = <<>>] /\ start' = [start EXCEPT ![t] = Creds]
      /\ pair' = [pair EXCEPT ![t] = NoPair]
      /\ UNCHANGED <<uids, gids, sups, permitted, effective>>
  BY DEF Call, Goto, kernel
<1>2. pc'[t] = "basic" /\ req'[t] = rq /\ todo'[t] = <<>> /\ start'[t] = Creds
  BY <1>1 DEF Tables
<1>3. Creds' = Creds /\ CapsNested'
  BY <1>1 DEF Creds, CapsNested
<1>4. CapThreadIs("basic", rq, <<>>, pair'[t], Creds, Creds)
  BY DoableLists DEF CapThreadIs
<1>5. pc' \in [Threads -> Places] /\ req' \in [Threads -> Requests]
  BY <1>1 DEF Tables, Places
<1>6. Tables'
  BY <1>1, <1>5 DEF Tables
<1>7. CapThread(t)'
  BY <1>2, <1>3, <1>4 DEF CapThread
<1> QED
  BY <1>3, <1>6, <1>7

\* A plan is settled on: by the graph, or on the strength of capabilities.
LEMMA CapPlans ==
  ASSUME Wide, CapsNested, Tables, NEW t \in Threads, CapThread(t), Timing(t) \/ Forced(t)
  PROVE  CapThread(t)' /\ Tables' /\ CapsNested'
<1> DEFINE np == pair[t].np
           to == np.to
<1>1. /\ pc' = [pc EXCEPT ![t] = "run"] /\ UNCHANGED <<kernel, req, pair, start>>
      /\ Creds \in CredSet
  BY DEF Timing, Forced, Goto, CapsNested
<1>2. Creds' = Creds /\ CapsNested'
  BY <1>1 DEF kernel, Creds, CapsNested
<1>3. req[t].sane /\ to \in Targets
  BY DEF Timing, Forced, CapThread, CapThreadIs
<1>4. \E plan : todo' = [todo EXCEPT ![t] = plan] /\ AllDoable(plan)
  <2>1. CASE Timing(t)
    <3>1. np = Normalized(Creds, to) /\ Fits(np)
      BY <2>1 DEF Timing, CapThread, CapThreadIs
    <3>2. PICK plan \in BasicPlans(np, req[t]) : todo' = [todo EXCEPT ![t] = plan]
      BY <2>1 DEF Timing
    <3> HIDE DEF np, to
    <3>3. AllDoable(plan)
      BY <1>1, <1>3, <3>1, <3>2, BasicPlansDoable
    <3> QED
      BY <3>2, <3>3
  <2>2. CASE Forced(t)
    <3>1. PICK x \in CredSet : np = Normalized(x, to) /\ Fits(np)
      BY <2>2 DEF Forced, CapThread, CapThreadIs
    <3>2. PICK plan \in FullPlans(np) : todo' = [todo EXCEPT ![t] = plan]
      BY <2>2 DEF Forced
    <3> HIDE DEF np, to
    <3>3. AllDoable(plan)
      BY <1>3, <3>1, <3>2, FullPlansDoable
    <3> QED
      BY <3>2, <3>3
  <2> QED
    BY <2>1, <2>2
<1>5. PICK plan : todo' = [todo EXCEPT ![t] = plan] /\ AllDoable(plan)
  BY <1>4
<1>6. /\ pc'[t] = "run" /\ todo'[t] = plan /\ req'[t] = req[t] /\ pair'[t] = pair[t]
      /\ start'[t] = start[t]
  BY <1>1, <1>5 DEF Tables
<1>7. CapThreadIs("run", req[t], plan, pair[t], start[t], Creds)
  BY <1>3, <1>5 DEF CapThreadIs
<1>8. Tables'
  BY <1>1, <1>5 DEF Tables, Places
<1>9. CapThread(t)'
  BY <1>2, <1>6, <1>7 DEF CapThread
<1> QED
  BY <1>2, <1>8, <1>9

\* The refusal, or the second search with the effective uid taken for 0.
LEMMA CapFallback ==
  ASSUME Wide, CapsNested, Tables, NEW t \in Threads, CapThread(t), Fallback(t)
  PROVE  CapThread(t)' /\ Tables' /\ CapsNested'
<1> DEFINE x  == ReadCreds(TRUE)
           pr == FillPair(x, req[t])
<1>1. /\ pc[t] = "fallback" /\ start[t] = Creds /\ todo[t] = <<>> /\ Creds \in CredSet
      /\ req[t] \in Requests /\ req[t].sane /\ Refused(Creds, req[t])
  BY DEF Fallback, CapThread, CapThreadIs, CapsNested, Tables
<1>2. UNCHANGED <<kernel, req, todo, start>> /\ Creds' = Creds /\ CapsNested'
  BY DEF Fallback, kernel, Creds, CapsNested
<1>3. x \in CredSet
  <2>1. /\ Creds = [uids |-> uids, gids |-> gids, sups |-> sups]
        /\ uids \in IdTriples(UIDs) /\ gids \in IdTriples(GIDs) /\ sups \in SupLists
    BY <1>1, ReadIsCreds DEF Creds
  <2>2. [uids EXCEPT !.e = 0] \in IdTriples(UIDs)
    BY <2>1, UidsAssumption DEF IdTriples
  <2>3. x = [uids |-> [uids EXCEPT !.e = 0], gids |-> gids, sups |-> sups]
    BY <2>1 DEF ReadCreds
  <2> HIDE DEF x
  <2> QED
    BY <2>1, <2>2, <2>3 DEF CredSet
<1>4. \/ pair' = [pair EXCEPT ![t] = pr]
         /\ pc' = [pc EXCEPT ![t] = IF pair'[t].status = "success" THEN "forced" ELSE "aborted"]
      \/ UNCHANGED pair /\ pc' = [pc EXCEPT ![t] = "EPERM"]
  BY DEF Fallback, Goto
<1> HIDE DEF x
<1>5. \E at \in Places : /\ pc' = [pc EXCEPT ![t] = at] /\ DOMAIN pair' = Threads
                         /\ CapThreadIs(at, req[t], <<>>, pair'[t], Creds, Creds)
  <2>1. CASE UNCHANGED pair /\ pc' = [pc EXCEPT ![t] = "EPERM"]
    <3>1. CapThreadIs("EPERM", req[t], <<>>, pair'[t], Creds, Creds)
      BY <1>1, DoableLists DEF CapThreadIs
    <3> QED
      BY <2>1, <3>1 DEF Places, Returned, Tables
  <2>2. CASE /\ pair' = [pair EXCEPT ![t] = pr]
             /\ pc' = [pc EXCEPT ![t] = IF pair'[t].status = "success" THEN "forced" ELSE "aborted"]
    <3>1. pair'[t] = pr /\ DOMAIN pair' = Threads
      BY <2>2 DEF Tables
    <3>2. CASE pr.status = "success"
      <4>1. pr.np.to \in Targets /\ pr.np = Normalized(x, pr.np.to) /\ Fits(pr.np)
        BY <1>1, <1>3, <3>2, FillPairFits
      <4> HIDE DEF pr
      <4>2. CapThreadIs("forced", req[t], <<>>, pr, Creds, Creds)
        BY <1>1, <1>3, <4>1, DoableLists DEF CapThreadIs
      <4> QED
        BY <2>2, <3>1, <3>2, <4>2 DEF Places
    <3>3. CASE pr.status # "success"
      <4> HIDE DEF pr
      <4>1. CapThreadIs("aborted", req[t], <<>>, pr, Creds, Creds)
        BY DoableLists DEF CapThreadIs
      <4> QED
        BY <2>2, <3>1, <3>3, <4>1 DEF Places
    <3> QED
      BY <3>2, <3>3
  <2> QED
    BY <1>4, <2>1, <2>2
<1>6. PICK at \in Places : /\ pc' = [pc EXCEPT ![t] = at] /\ DOMAIN pair' = Threads
                           /\ CapThreadIs(at, req[t], <<>>, pair'[t], Creds, Creds)
  BY <1>5
<1>7. Tables' /\ pc'[t] = at
  BY <1>2, <1>6, TablesMove DEF Tables
<1>8. req'[t] = req[t] /\ todo'[t] = <<>> /\ start'[t] = Creds
  BY <1>1, <1>2
<1> QED
  BY <1>2, <1>6, <1>7, <1>8 DEF CapThread

\* A system call leaves ids of the model and nested capability sets.
LEMMA CapMove ==
  ASSUME CapsNested, Tables, NEW t \in Threads, CapThread(t),
         SetUids(t) \/ SetGids(t) \/ SetSupplementary(t)
  PROVE  CapThread(t)' /\ Tables' /\ CapsNested'
<1> DEFINE o == Head(todo[t])
<1>1. /\ pc[t] = "run" /\ todo[t] # <<>>
      /\ todo' = [todo EXCEPT ![t] = Tail(@)] /\ UNCHANGED <<pc, req, pair, start>>
  BY DEF SetUids, SetGids, SetSupplementary, Next1, Done
<1>2. Doable(o) /\ AllDoable(Tail(todo[t]))
  BY <1>1, DoableLists DEF CapThread, CapThreadIs
<1>3. /\ uids \in IdTriples(UIDs) /\ gids \in IdTriples(GIDs) /\ sups \in SupLists
      /\ effective \subseteq permitted /\ permitted \subseteq AllCaps
  BY ReadIsCreds DEF CapsNested
<1>4. Keep \notin UIDs /\ Keep \notin GIDs
  BY UidsAssumption, GidsAssumption DEF Keep
<1>5. /\ uids' \in IdTriples(UIDs) /\ gids' \in IdTriples(GIDs) /\ sups' \in SupLists
      /\ effective' \subseteq permitted' /\ permitted' \subseteq AllCaps
  <2>1. CASE SetUids(t)
    <3> DEFINE priv == "setuid" \in effective
    <3>1. /\ o.op = "uids" /\ Allowed(o.call, uids, priv) /\ uids' = After(o.call, uids, priv)
          /\ permitted' = PermittedAfter(uids, uids', permitted)
          /\ effective' = EffectiveAfter(uids, uids', permitted, effective)
          /\ UNCHANGED <<gids, sups>>
      BY <2>1 DEF SetUids, Next1
    <3>2. Within(o.call, UIDs) /\ priv \in BOOLEAN
      BY <1>2, <3>1 DEF Doable
    <3> HIDE DEF o, priv
    <3>3. uids' \in IdTriples(UIDs)
      BY <1>3, <1>4, <3>1, <3>2, AfterWithin
    <3>4. effective' \subseteq permitted' /\ permitted' \subseteq AllCaps
      BY <1>3, <3>1 DEF PermittedAfter, EffectiveAfter
    <3> QED
      BY <1>3, <3>1, <3>3, <3>4
  <2>2. CASE SetGids(t)
    <3> DEFINE priv == "setgid" \in effective
    <3>1. /\ o.op = "gids" /\ Allowed(o.call, gids, priv) /\ gids' = After(o.call, gids, priv)
          /\ UNCHANGED <<uids, sups, permitted, effective>>
      BY <2>2 DEF SetGids, Next1
    <3>2. Within(o.call, GIDs) /\ priv \in BOOLEAN
      BY <1>2, <3>1 DEF Doable
    <3> HIDE DEF o, priv
    <3>3. gids' \in IdTriples(GIDs)
      BY <1>3, <1>4, <3>1, <3>2, AfterWithin
    <3> QED
      BY <1>3, <3>1, <3>3
  <2>3. CASE SetSupplementary(t)
    <3>1. /\ sups' = IF CallsSetgroups(t) THEN ListOf(req[t]) ELSE sups
          /\ UNCHANGED <<uids, gids, permitted, effective>>
      BY <2>3 DEF SetSupplementary
    <3>2. req[t].sups \in SupLists \cup {DontChange}
      <4> DEFINE rq == req[t]
      <4>1. rq \in Requests
        BY DEF Tables
      <4> HIDE DEF rq
      <4>2. rq.sups \in SupLists \cup {DontChange}
        <5>1. CASE rq = Insane
          BY <5>1 DEF Insane
        <5>2. CASE rq # Insane
          <6>1. rq \in [uid : UIDs, gid : GIDs, sups : SupLists \cup {DontChange},
                        permanent : BOOLEAN, sane : {TRUE}]
            BY <4>1, <5>2 DEF Requests
          <6> QED
            BY <6>1
        <5> QED
          BY <5>1, <5>2
      <4> QED
        BY <4>2 DEF rq
    <3> QED
      BY <1>3, <3>1, <3>2, ListFits
  <2> QED
    BY <2>1, <2>2, <2>3
<1>6. CapsNested'
  BY <1>5 DEF CapsNested, Creds, CredSet
<1>7. todo'[t] = Tail(todo[t]) /\ Tables'
  BY <1>1 DEF Tables
<1>8. CapThreadIs("run", req[t], Tail(todo[t]), pair[t], start[t], Creds')
  BY <1>1, <1>2 DEF CapThread, CapThreadIs
<1>9. CapThread(t)'
  BY <1>1, <1>7, <1>8 DEF CapThread
<1> QED
  BY <1>6, <1>7, <1>9

\* The plan after the elevation.
LEMMA CapElevated ==
  ASSUME Wide, CapsNested, Tables, NEW t \in Threads, CapThread(t), ElevatedPlan(t)
  PROVE  CapThread(t)' /\ Tables' /\ CapsNested'
<1> DEFINE to == pair[t].np.to
           np == NormalizedNow(to)
<1>1. /\ pc[t] = "run" /\ Creds \in CredSet /\ req[t].sane /\ to \in Targets /\ AllDoable(todo[t])
  BY DEF ElevatedPlan, Next1, CapThread, CapThreadIs, CapsNested
<1>2. np = Normalized(Creds, to)
  BY <1>1, ReadIsCreds DEF NormalizedNow
<1>3. /\ IF Fits(np)
         THEN /\ \E plan \in FullPlans(np) : todo' = [todo EXCEPT ![t] = plan]
              /\ UNCHANGED pc
         ELSE pc' = [pc EXCEPT ![t] = "aborted"] /\ UNCHANGED todo
      /\ UNCHANGED <<kernel, req, pair, start>>
  BY DEF ElevatedPlan, Goto
<1>4. Creds' = Creds /\ CapsNested'
  BY <1>3 DEF kernel, Creds, CapsNested
<1> HIDE DEF np, to
<1>5. CASE Fits(np)
  <2>1. PICK plan \in FullPlans(np) : todo' = [todo EXCEPT ![t] = plan]
    BY <1>3, <1>5
  <2>2. AllDoable(plan)
    BY <1>1, <1>2, <1>5, FullPlansDoable
  <2>3. CapThreadIs("run", req[t], plan, pair[t], start[t], Creds)
    BY <1>1, <2>2 DEF CapThreadIs, to
  <2>4. todo'[t] = plan /\ pc'[t] = "run" /\ Tables'
    BY <1>1, <1>3, <1>5, <2>1 DEF Tables
  <2> QED
    BY <1>3, <1>4, <2>3, <2>4 DEF CapThread
<1>6. CASE ~Fits(np)
  <2>1. CapThreadIs("aborted", req[t], todo[t], pair[t], start[t], Creds)
    BY <1>1 DEF CapThreadIs
  <2>2. pc' = [pc EXCEPT ![t] = "aborted"] /\ UNCHANGED todo
    BY <1>3, <1>6
  <2>3. pc'[t] = "aborted" /\ Tables'
    BY <1>3, <2>2 DEF Tables, Places
  <2> QED
    BY <1>3, <1>4, <2>1, <2>2, <2>3 DEF CapThread
<1> QED
  BY <1>5, <1>6

\* A failed assertion, and the return.
LEMMA CapEnds ==
  ASSUME CapsNested, Tables, NEW t \in Threads, CapThread(t), Abort(t) \/ Return(t)
  PROVE  CapThread(t)' /\ Tables' /\ CapsNested'
<1>1. PICK where \in {"aborted", "ok"} :
        /\ pc' = [pc EXCEPT ![t] = where] /\ (where = "ok" => todo[t] = <<>>)
        /\ UNCHANGED <<kernel, req, todo, pair, start>>
  BY DEF Abort, Return, Goto
<1>2. Creds' = Creds /\ CapsNested'
  BY <1>1 DEF kernel, Creds, CapsNested
<1>3. CapThreadIs(where, req[t], todo[t], pair[t], start[t], Creds)
  BY <1>1 DEF CapThread, CapThreadIs
<1>4. where \in Places
  BY DEF Places, Returned
<1>5. pc'[t] = where /\ Tables'
  BY <1>1, <1>4 DEF Tables
<1> QED
  BY <1>1, <1>2, <1>3, <1>5 DEF CapThread

\* Every step keeps the invariant.
LEMMA CapNext ==
  ASSUME Alone, Wide, CapInv, [Next]_vars
  PROVE  CapInv'
<1>1. PICK t : Threads = {t}
  BY DEF Alone
<1>2. t \in Threads /\ CapsNested /\ Tables /\ CapThread(t)
  BY <1>1 DEF CapInv
<1>3. ASSUME CapThread(t)', Tables', CapsNested' PROVE CapInv'
  BY <1>1, <1>3 DEF CapInv
<1>4. CASE \E rq \in Requests : Call(t, rq)
  BY <1>2, <1>3, <1>4, CapCall
<1>5. CASE Step(t)
  <2>1. CASE Basic(t)
    BY <1>2, <1>3, <2>1, CapBasic
  <2>2. CASE Timing(t) \/ Forced(t)
    BY <1>2, <1>3, <2>2, CapPlans
  <2>3. CASE Fallback(t)
    BY <1>2, <1>3, <2>3, CapFallback
  <2>4. CASE SetUids(t) \/ SetGids(t) \/ SetSupplementary(t)
    BY <1>2, <1>3, <2>4, CapMove
  <2>5. CASE ElevatedPlan(t)
    BY <1>2, <1>3, <2>5, CapElevated
  <2>6. CASE Abort(t) \/ Return(t)
    BY <1>2, <1>3, <2>6, CapEnds
  <2> QED
    BY <1>5, <2>1, <2>2, <2>3, <2>4, <2>5, <2>6 DEF Step
<1>6. CASE UNCHANGED vars
  <2>1. UNCHANGED <<uids, gids, sups, permitted, effective, pc, req, todo, pair, start>>
    BY <1>6 DEF vars, kernel, local
  <2>2. Creds' = Creds /\ CapsNested' /\ Tables'
    BY <1>2, <2>1 DEF CapsNested, Creds, Tables
  <2>3. CapThread(t)'
    BY <1>2, <2>1, <2>2 DEF CapThread
  <2> QED
    BY <1>3, <2>2, <2>3
<1> QED
  BY <1>1, <1>4, <1>5, <1>6 DEF Next

\* So it always holds.
LEMMA CapInvariant ==
  ASSUME Alone, Wide
  PROVE  Spec => []CapInv
<1>1. Init => CapInv
  BY CapInit
<1>2. CapInv /\ [Next]_vars => CapInv'
  BY CapNext
<1> QED
  BY <1>1, <1>2, PTL DEF Spec

(***************************************************************************)
(* Types: whatever capabilities the process was given, the credentials     *)
(* stay ids of the model and the capability sets nested.                   *)
(***************************************************************************)
THEOREM ChangeTypes ==
  ASSUME Alone, Wide
  PROVE  Spec => []TypeOK
<1>1. CapInv => TypeOK
  <2> SUFFICES ASSUME CapInv PROVE TypeOK
    OBVIOUS
  <2>1. CapsNested /\ Tables
    BY DEF CapInv
  <2>2. uids \in IdTriples(UIDs) /\ gids \in IdTriples(GIDs) /\ sups \in SupLists
    BY <2>1, ReadIsCreds DEF CapsNested
  <2>3. \A t \in Threads : todo[t] # <<>> => pc[t] \in {"run", "aborted"}
    BY DEF CapInv, CapThread, CapThreadIs
  <2> QED
    BY <2>1, <2>2, <2>3 DEF TypeOK, CapsNested, Tables, Places
<1> QED
  BY <1>1, CapInvariant, PTL

(***************************************************************************)
(* No walk asks for an id the pair's map has no number for, by the graph   *)
(* or by capabilities.                                                     *)
(***************************************************************************)
THEOREM WalksAreMapped ==
  ASSUME Alone, Wide
  PROVE  Spec => []ParamsMapped
<1>1. CapInv => ParamsMapped
  <2> SUFFICES ASSUME CapInv, NEW t \in Threads, NEW i \in DOMAIN todo[t],
                      todo[t][i].op \in {"uids", "gids"}
               PROVE  todo[t][i].mapped
    BY DEF ParamsMapped
  <2>1. Doable(todo[t][i])
    BY DEF CapInv, CapThread, CapThreadIs, AllDoable
  <2> QED
    BY <2>1 DEF Doable
<1> QED
  BY <1>1, CapInvariant, PTL

(***************************************************************************)
(* EPERM is only for those who hold no uid 0 and ask for something they do *)
(* not have.                                                               *)
(***************************************************************************)
THEOREM RefusalsAreHonest ==
  ASSUME Alone, Wide
  PROVE  Spec => []RefusalIsHonest
<1>1. CapInv => RefusalIsHonest
  BY DEF CapInv, CapThread, CapThreadIs, Refused, SupsAsAsked, RefusalIsHonest
<1> QED
  BY <1>1, CapInvariant, PTL
=============================================================================
