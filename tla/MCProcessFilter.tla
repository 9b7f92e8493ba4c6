-------------------------- MODULE MCProcessFilter --------------------------
(***************************************************************************)
(* ProcessFilter for TLC: the idle id and two more, so that a tid may      *)
(* equal its pid, belong to another process, or be used by two processes.  *)
(* Names have no influence on the lookups, so tables in which something is *)
(* named may be smaller than those in which nothing is.                    *)
(***************************************************************************)
EXTENDS ProcessFilter, TLC

CONSTANTS
    a, b,         \* two ids; nothing tells them apart
    MaxThreads,   \* the bound: thread rows, the idle thread's included
    MaxNamed      \* the bound on thread rows where anything has a name

Symmetry == Permutations({a, b})

Nameless ==
    /\ \A i \in DOMAIN threads : threads[i].name = NoName
    /\ \A r \in DOMAIN processes : processes[r].cmdLine = NoName

BoundedNext == Next /\ Len(threads') <= IF Nameless' THEN MaxThreads ELSE MaxNamed
BoundedSpec == Init /\ [][BoundedNext]_vars
=============================================================================
