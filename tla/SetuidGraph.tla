----------------------------- MODULE SetuidGraph -----------------------------
(***************************************************************************)
(* The graph the exploration of the set-uid family yields, GraphImpl.h and *)
(* SetuidState.h: a vertex for every triple of users, and for every vertex *)
(* and every generated call an edge to the state the call led to.  A call  *)
(* that fails is an edge too, from the vertex to itself.  ids are ints: a  *)
(* uid of 2^31 or more is the negative number it is cast to.               *)
(***************************************************************************)
EXTENDS SetIds, SequencesExt

\* The errno of a refused call.
RefusalErrno(c) ==
  IF c.fn \in {"setuid", "seteuid"} /\ c.args[1] = Keep THEN "EINVAL" ELSE "EPERM"

\* A set of ids in order: the k-th has k of them that are not greater.
Ascending(ids) ==
  [k \in 1 .. Cardinality(ids) |-> CHOOSE id \in ids : Cardinality({i \in ids : i <= id}) = k]

\* Every combination of two or three elements of p, in lexicographic order.
Digit(p, i, place) == p[(((i - 1) \div place) % Len(p)) + 1]

Pairs(p) == [i \in 1 .. Len(p) * Len(p) |-> <<Digit(p, i, Len(p)), Digit(p, i, 1)>>]

Triples(p) ==
  [i \in 1 .. Len(p) * Len(p) * Len(p) |->
     <<Digit(p, i, Len(p) * Len(p)), Digit(p, i, Len(p)), Digit(p, i, 1)>>]

CallsOf(fn, params) == [i \in DOMAIN params |-> SetIdCall(fn, params[i])]

(***************************************************************************)
(* SetuidEdgeGenerator: the calls over the users and the extra parameters, *)
(* in the order of SetuidFunctionCall::operator<, by function and then by  *)
(* parameters.                                                             *)
(***************************************************************************)
\* Mutant: only ordinary users are asked for.
ParamsWithoutRoot(users, extra) == Ascending((users \cup extra) \ {0})

Params(users, extra) == Ascending(users \cup extra)

\* setuid and seteuid take one, and -1 only if it is one of the users.
Single(users, extra) ==
  LET p == Params(users, extra \ {Keep}) IN [i \in DOMAIN p |-> <<p[i]>>]

\* Mutant: the platform is taken for one without setresuid.
CallsWithoutSetresuid(users, extra) ==
  CallsOf("setuid", Single(users, extra)) \o CallsOf("seteuid", Single(users, extra))
  \o CallsOf("setreuid", Pairs(Params(users, extra)))

Calls(users, extra) ==
  CallsOf("setuid", Single(users, extra)) \o CallsOf("seteuid", Single(users, extra))
  \o CallsOf("setreuid", Pairs(Params(users, extra)))
  \o CallsOf("setresuid", Triples(Params(users, extra)))

\* The edge of call c from v, as the explorer reads it back.
EdgeOf(v, c) ==
  IF Allowed(c, v, v.e = 0)
  THEN [from |-> v, to |-> After(c, v, v.e = 0), call |-> c, value |-> 0, err |-> "none"]
  ELSE [from |-> v, to |-> v, call |-> c, value |-> -1, err |-> RefusalErrno(c)]

OutEdges(v, calls) == {EdgeOf(v, calls[i]) : i \in DOMAIN calls}
=============================================================================
