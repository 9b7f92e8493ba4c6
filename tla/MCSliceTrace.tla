---------------------------- MODULE MCSliceTrace ----------------------------
(***************************************************************************)
(* SliceTrace on programs that make at most MaxRows calls.                 *)
(***************************************************************************)
EXTENDS SliceTrace, TLC

CONSTANTS t1, t2, MaxRows

Symmetry == Permutations({t1, t2})

BoundedNext == TNext /\ Len(callstack') <= MaxRows
BoundedSpec == TInit /\ [][BoundedNext]_tvars
=============================================================================
