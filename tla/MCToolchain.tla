----------------------------- MODULE MCToolchain -----------------------------
(***************************************************************************)
(* One set of uids that yields the tables (root and three users, -1 given    *)
(* too), one with a single user, one with a uid of 2^31 or more, and one   *)
(* without -1.                                                             *)
(***************************************************************************)
EXTENDS Toolchain

MCUidSets == {{-1, 0, 1000, 1002, 1007}, {-1, 0, 7}, {-2, -1, 0, 7}, {0, 7, 9}}
=============================================================================
