----------------------------- MODULE MCChangeUid -----------------------------
(* Two threads for TLC. *)
EXTENDS ChangeUid

MCUIDs     == {0, 1, 2}
MCGIDs     == {10, 20}
MCGid0s    == {[r |-> 10, e |-> 20, s |-> 10]}
MCSupLists == {{}, {20}}
NoCaps     == {[permitted |-> {}, effective |-> {}]}
=============================================================================
