-------------------------- MODULE MCChangeIdentity --------------------------
(* Small instances of ChangeIdentity for TLC. *)
EXTENDS ChangeIdentity

MCUIDs     == {0, 1, 2, 3}
FewUIDs    == {0, 1, 2}
MCGIDs     == {0, 10}
MCGid0s    == {AllSame(10), [r |-> 10, e |-> 0, s |-> 0]}
MCSupLists == {{}, {10}}

\* No process is given capabilities without a uid 0.
NoCaps == {[permitted |-> {}, effective |-> {}]}

\* Any process may be: by its file, or by what it was before.
AnyCaps == UNION {[permitted : {p}, effective : SUBSET p] : p \in SUBSET AllCaps}

\* A process of a third group: real, effective and saved gid may all differ.
ThreeGIDs  == {10, 20, 30}
ThreeGid0s == {[r |-> 10, e |-> 20, s |-> 20], [r |-> 10, e |-> 20, s |-> 30]}
=============================================================================
