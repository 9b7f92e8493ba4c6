---------------------------- MODULE MCBinderTrace ----------------------------
(***************************************************************************)
(* BinderTrace with its locks taken at most MaxLocks times.                *)
(***************************************************************************)
EXTENDS BinderTrace, TLC

CONSTANTS a, b, MaxLocks

Symmetry == Permutations({a, b})

LocksTaken ==
    Cardinality({i \in DOMAIN callstack : callstack[i].name = LockTry})

BoundedNext == DNext /\ LocksTaken' <= MaxLocks
BoundedSpec == DInit /\ [][BoundedNext]_dvars
=============================================================================
