---------------------------- MODULE MCEntityPages ----------------------------
(* Small instances of EntityPages for the model checker.                      *)
EXTENDS EntityPages, TLC

CONSTANTS a, b, c, plain, found

PageSymmetry == Permutations({a, b})
=============================================================================
