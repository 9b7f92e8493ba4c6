--------------------------- MODULE MCSliceFilter ---------------------------
(***************************************************************************)
(* SliceFilter on traces of at most MaxRows slices, in which any event may *)
(* be missing.  Traces of one thread and of bare begin and end events are  *)
(* longer, and of two categories, than those with several threads,         *)
(* asynchronous events or arguments, which leave the stack as it is.       *)
(***************************************************************************)
EXTENDS SliceFilter, TLC

CONSTANTS
    t1, t2,
    MaxRows,
    MixedCat,   \* the category of the slices of other than bare traces
    MixedTime   \* their latest time

Symmetry == Permutations({t1, t2})

Bare ==
    /\ argSets = <<>>
    /\ \A i \in DOMAIN callstack :
        callstack[i].cat # AnyIndex /\ callstack[i].tid = callstack[1].tid

Mixed ==
    /\ now <= MixedTime
    /\ \A i \in DOMAIN callstack : callstack[i].cat \in {AnyIndex, MixedCat}

BoundedNext ==
    /\ Next
    /\ Len(callstack') <= MaxRows
    /\ Len(argSets') <= MaxRows
    /\ Bare' \/ Mixed'

BoundedSpec == Init /\ [][BoundedNext]_vars
=============================================================================
