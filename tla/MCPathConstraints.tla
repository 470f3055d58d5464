-------------------------- MODULE MCPathConstraints -------------------------
(***************************************************************************)
(* Instance of PathConstraints for TLC.  Inputs have no structure, so they *)
(* are interchangeable.                                                    *)
(***************************************************************************)
EXTENDS PathConstraints, TLC

InputSymmetry == Permutations(InputSpace)
=============================================================================
