------------------------------- MODULE SetIds -------------------------------
(***************************************************************************)
(* The kernel side of the repository: a process holds a real, an effective *)
(* and a saved id, and asks for others with setuid, seteuid, setreuid and  *)
(* setresuid (and with the four group calls, which obey the same rules).   *)
(* None of it is under src/: the rules are Linux's, the platform the       *)
(* default build targets, as the state graph of the repository records     *)
(* them.  `priv' says whether the calling process holds the privilege the  *)
(* kernel asks for: CAP_SETUID for the uids, CAP_SETGID for the gids.      *)
(***************************************************************************)
EXTENDS Integers, Sequences

Keep == -1                              \* "leave this id as it is"

IdTriples(S) == [r : S, e : S, s : S]
AllSame(id)  == [r |-> id, e |-> id, s |-> id]
Own(t)       == {t.r, t.e, t.s}

SetIdCall(fn, args) == [fn |-> fn, args |-> args]
New(param, old)     == IF param = Keep THEN old ELSE param

(***************************************************************************)
(* May a process whose ids are t make the call c?  Otherwise it gets -1    *)
(* and EPERM (EINVAL for a Keep where none is allowed).                    *)
(***************************************************************************)
Allowed(c, t, priv) ==
  CASE c.fn = "setuid"    -> /\ c.args[1] # Keep
                             /\ priv \/ c.args[1] \in {t.r, t.s}
    [] c.fn = "seteuid"   -> /\ c.args[1] # Keep
                             /\ priv \/ c.args[1] \in Own(t)
    [] c.fn = "setreuid"  -> \/ priv
                             \/ /\ c.args[1] \in {Keep, t.r, t.e}
                                /\ c.args[2] \in Own(t) \cup {Keep}
    [] c.fn = "setresuid" -> \/ priv
                             \/ \A i \in 1..3 : c.args[i] \in Own(t) \cup {Keep}

(***************************************************************************)
(* The ids after an allowed call.  setuid sets all three for a privileged  *)
(* caller and only the effective one otherwise; setreuid moves the saved   *)
(* id to the new effective one if it sets the real id, or sets the         *)
(* effective id to anything but the old real id.                           *)
(***************************************************************************)
After(c, t, priv) ==
  CASE c.fn = "setuid"    -> IF priv THEN AllSame(c.args[1])
                                     ELSE [t EXCEPT !.e = c.args[1]]
    [] c.fn = "seteuid"   -> [t EXCEPT !.e = c.args[1]]
    [] c.fn = "setreuid"  ->
         LET r == New(c.args[1], t.r)
             e == New(c.args[2], t.e)
             moved == c.args[1] # Keep \/ c.args[2] \notin {Keep, t.r}
         IN  [r |-> r, e |-> e, s |-> IF moved THEN e ELSE t.s]
    [] c.fn = "setresuid" -> [r |-> New(c.args[1], t.r),
                              e |-> New(c.args[2], t.e),
                              s |-> New(c.args[3], t.s)]

(***************************************************************************)
(* What changing the uids from t to u does to the permitted (p) and the    *)
(* effective (x) capabilities: giving up the last 0 clears both, leaving   *)
(* effective 0 clears the effective set, regaining it fills that set.      *)
(***************************************************************************)
PermittedAfter(t, u, p) == IF 0 \in Own(t) /\ 0 \notin Own(u) THEN {} ELSE p

EffectiveAfter(t, u, p, x) ==
  IF (0 \in Own(t) /\ 0 \notin Own(u)) \/ (t.e = 0 /\ u.e # 0) THEN {}
  ELSE IF t.e # 0 /\ u.e = 0 THEN p
  ELSE x
=============================================================================
