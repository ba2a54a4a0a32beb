------------------------------- MODULE MCPriv -------------------------------
(* The privilege dropping library on small sets of users and groups. *)
EXTENDS Priv

MCUsers  == 0..2
MCGroups == 0..1

Build(os, full, procfs) == [os |-> os, full |-> full, procfs |-> procfs]

\* The builds whose graphs are collected: users only, from any identity.
GraphBuilds == {Build("linux", FALSE, TRUE), Build("darwin", FALSE, TRUE)}

UsersOnly == {Build(os, FALSE, procfs) : os \in {"linux", "solaris"}, procfs \in BOOLEAN}
               \cup {Build("darwin", FALSE, TRUE), Build("aix", FALSE, TRUE)}

WithGroups == {Build(os, TRUE, TRUE) : os \in {"linux", "solaris", "aix"}}

Ids(r, e, s) == [r |-> r, e |-> e, s |-> s]

\* With groups: root, and set-user-id and set-group-id programs of user 1.
MCStarts ==
  {[build |-> b, uids |-> t, gids |-> AllSame(0), sups |-> {}] :
     b \in UsersOnly, t \in IdTriples(MCUsers)}
  \cup {[build |-> b, uids |-> t, gids |-> g, sups |-> list] :
     b \in WithGroups, t \in {AllSame(0), Ids(1, 0, 0), Ids(1, 2, 2)},
     g \in {AllSame(1), Ids(1, 0, 0)}, list \in {{}, {1}}}

MCUidParams   == MCUsers \cup {Keep}

Group(gid, list, sorted) == [gid |-> gid, sups |-> list, sorted |-> sorted]

MCGroupParams == {Group(0, {}, TRUE), Group(0, {1}, TRUE), Group(1, {}, TRUE), Group(1, {1}, TRUE),
                  Group(Keep, {}, TRUE), Group(0, {0, 1}, FALSE)}
=============================================================================
