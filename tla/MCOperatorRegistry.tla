------------------------- MODULE MCOperatorRegistry -------------------------
(* Small instances of OperatorRegistry.                                    *)
EXTENDS OperatorRegistry, TLC

CONSTANTS o1, o2

Symmetry == Permutations(Operators)
=============================================================================
