--------------------------- MODULE MCEditorBridge ---------------------------
(* Small instances of EditorBridge for TLC.                                *)
EXTENDS EditorBridge, TLC

CONSTANTS x, y, v0, v1, v2, absent

Cells1 == {x}
Cells2 == {x, y}
Vals == {v0, v1, v2, absent}
Vals1 == {v0, v1, absent}

\* One request; a second cell is there for unrelated commits.
OneTarget == [c \in CR |-> x]
OneProposal == [c \in CR |-> v1]
WorkerSymmetry == Permutations(Worker)

StartValue == [k \in Cell |-> v0]
=============================================================================
