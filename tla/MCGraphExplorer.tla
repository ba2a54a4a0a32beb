-------------------------- MODULE MCGraphExplorer ---------------------------
(* Small instances of GraphExplorer: a few calls of the setuid family among *)
(* the triples over the super-user and one other user.                      *)
EXTENDS GraphExplorer
K == INSTANCE SetIds

MCStates == K!IdTriples({0, 1})
MCStart  == K!AllSame(0)

MCCalls == {K!SetIdCall("setuid", <<1>>), K!SetIdCall("seteuid", <<0>>),
            K!SetIdCall("setreuid", <<1, 0>>), K!SetIdCall("setreuid", <<-1, 1>>),
            K!SetIdCall("setresuid", <<-1, -1, 1>>)}

MCStep == [v \in MCStates |-> [c \in MCCalls |->
  IF K!Allowed(c, v, v.e = 0) THEN K!After(c, v, v.e = 0) ELSE v]]

\* Half the states can only be reached along a path.
MCNoJump == {v \in MCStates : v.s = 0}
=============================================================================
