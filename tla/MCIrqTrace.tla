----------------------------- MODULE MCIrqTrace -----------------------------
(***************************************************************************)
(* IrqTrace for TLC: traces without loss are longer, and on one cpu, than  *)
(* those in which events are missing.                                      *)
(***************************************************************************)
EXTENDS IrqTrace, TLC, FiniteSets

CONSTANTS
    c1, c2,
    MaxRows,        \* the bound on handlers of complete traces
    MaxLossyRows,   \* the bound on handlers of other traces
    MaxLossyTime    \* and on their timestamps

Symmetry == Permutations({c1, c2})

Bound ==
    IF complete
    THEN Len(irq) <= MaxRows /\ Cardinality({log[i].cpu : i \in DOMAIN log}) <= 1
    ELSE Len(irq) <= MaxLossyRows /\ now <= MaxLossyTime

BoundedNext == TNext /\ Bound'
BoundedSpec == TInit /\ [][BoundedNext]_tvars
=============================================================================
