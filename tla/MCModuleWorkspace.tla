-------------------------- MODULE MCModuleWorkspace --------------------------
(* Small instances of ModuleWorkspace for the model checker. *)
EXTENDS ModuleWorkspace, TLC

CONSTANTS f, a, b

MCFolderOf == [i \in Items |-> f]
\* Everything is there, or one of the two items is not yet, or nothing is.
MCBeginnings == {Places, {}} \cup {Places \ {i} : i \in Items}

ItemSymmetry == Permutations(Items)
=============================================================================
