------------------------------ MODULE Toolchain ------------------------------
(***************************************************************************)
(* The programs of test/ one after the other, as a user runs them:         *)
(* NormalizeGraph on the archive of an explored graph, GenerateCode on the *)
(* archive that yields, and, with the users-and-groups interface built on  *)
(* the generated tables, RunPriv2Verification.  They meet in archives      *)
(* only, so each starts when the one before has ended.                     *)
(***************************************************************************)
EXTENDS Normalizer, ModuleGenerator, IndividualCallExplorer

V == INSTANCE Verification

toolVars == <<normVars, genVars, callVars>>

\* MAX_NORMALIZED_IDS as streamHeader prints it, counting the ids it finds.
MaxIdsPrinted == Cardinality(NewUsers \ {Keep, 0})

\* The generated table has the states of this model's StateGraph.
Generates == phase = "normalized" /\ NewUsers \ {Keep} = 0 .. MaxNormalizedIds

Normalize ==
  NormNext /\ UNCHANGED <<genVars, callVars>>

GenerateCode ==
  /\ stage = "waiting" /\ Generates
  /\ stage' = "rows"
  /\ UNCHANGED <<normVars, row, cells, pred, found, jump, callVars>>

Generate ==
  GenNext /\ UNCHANGED <<normVars, callVars>>

RunVerification ==
  stage = "generated" /\ CallNext /\ UNCHANGED <<normVars, genVars>>

\* The chain ends with a program's end, or is stuck in a read that never ends.
Ended ==
  \/ "aborted" \in {phase, stage}
  \/ phase = "normalized" /\ ~Generates
  \/ loop \in {"done", "crashed"}
  \/ ReadsForEver

Finished == Ended /\ UNCHANGED toolVars

ToolInit == NormInit /\ GenInit /\ CallInit

ToolNext == Normalize \/ GenerateCode \/ Generate \/ RunVerification \/ Finished

ToolSpec == ToolInit /\ [][ToolNext]_toolVars /\ CallFairness
-----------------------------------------------------------------------------
ToolTypeOK ==
  /\ phase \in {"number", "map", "normalized", "aborted"}
  /\ uidMap \in [DOMAIN uidMap -> Int] /\ DOMAIN uidMap \subseteq uidSet
  /\ counter \in 1 .. Cardinality(uidSet)
  /\ stage \in {"waiting", "rows", "generated", "aborted"}
  /\ row \in Vertices \cup {Cardinality(Vertices)} /\ found \subseteq Vertices
  /\ pred \in [Vertices -> Vertices] /\ jump \in Vertices \cup {NoJump}
  /\ CallTypeOK

\* A normalisation that does not stop half way was given -1 (mapUID's assertion,
\* GraphVerificationImpl.h:101), and the other ids are the ones the table is
\* generated for, 0..MAX_NORMALIZED_IDS, exactly if no uid was below -1: an id of
\* 2^31 or more keeps its value and leaves a hole (generateUIDMap; streamHeader).
IdsAreTableIds ==
  phase = "normalized" =>
    /\ Keep \in NewUsers
    /\ NewUsers \ {Keep} = 0 .. MaxIdsPrinted <=> uidSet \subseteq Nat \cup {Keep}

\* What the verifier asks of a whole graph, of the edges out of each vertex it
\* visits: a state with root's id as real or saved one can become effective root
\* and come back (SomewhatReversible), a program that has just started can make
\* a call (StartStateVisitor), and renaming keeps both.
Ways(v) == {e.to : e \in {e \in OutEdges(v, Calls(NewUsers, ExtraParams)) : e.value = 0}}

GraphIsReversible ==
  phase = "map" /\ visited.edges # {} =>
    LET near == {e.to : e \in visited.edges}
        out  == [w \in near \cup {visited.from} |-> Ways(w)]
    IN  V!SomewhatReversible(visited.from, out) /\ V!StartStateHasEdges(visited.from, out)
=============================================================================
