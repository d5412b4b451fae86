-------------------------- MODULE MCDirectSession --------------------------
(***************************************************************************)
(* Instances of DirectSession for TLC.                                     *)
(***************************************************************************)
EXTENDS DirectSession, TLC

CONSTANTS f, g, x

MCNames == {f, g, x}

FuncSymmetry == Permutations({f, g})
=============================================================================
