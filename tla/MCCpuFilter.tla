---------------------------- MODULE MCCpuFilter ----------------------------
(***************************************************************************)
(* CpuFilter on traces of a few switches, in which any event may be        *)
(* missing.  Traces in which threads are only preempted are longer, and    *)
(* over two cpus, than those with uninterruptible sleeps and those with    *)
(* binder calls.  Only those are finished: the properties are about the    *)
(* tables while they are filled.                                           *)
(***************************************************************************)
EXTENDS CpuFilter, TLC

CONSTANTS
    c1, c2,
    MaxSlices,      \* the bound on the switches of plain traces
    MaxWaits,       \* the bound on the switches of other traces
    MaxWaitTime     \* and on their timestamps

Symmetry == Permutations({c1, c2})

NoCalls ==
    /\ \A t \in Threads : iTidToTransaction_[t] = 0
    /\ \A x \in Transactions : transactionIdToInfo_[x] = NoInfo

Only(states) ==
    /\ \A i \in DOMAIN threadState : threadState[i].state \in states
    /\ \A i \in DOMAIN schedSlice : schedSlice[i].endState \in states

Plain == NoCalls /\ Only({TASK_RUNNABLE, TASK_RUNNING})

Sleeping == NoCalls /\ Only(States \ {TASK_NEW, TASK_RUNNABLE_BINDER})

Calling == Only({TASK_RUNNABLE, TASK_RUNNING, TASK_NEW, TASK_RUNNABLE_BINDER})

Short ==
    /\ Sleeping \/ Calling
    /\ Len(schedSlice) <= MaxWaits
    /\ now <= MaxWaitTime
    /\ Cardinality({schedSlice[i].cpu : i \in DOMAIN schedSlice}) <= 1

BoundedNext ==
    \/ Plain /\ Len(schedSlice) < MaxSlices /\ SwitchFrom({TASK_RUNNABLE})
    \/ Plain /\ Wake
    \/ /\ Short
       /\ \/ Len(schedSlice) < MaxWaits /\ SwitchFrom(PrevStates)
          \/ Wake \/ Binder \/ Finishing
       /\ Short'

BoundedSpec == Init /\ [][BoundedNext]_vars
=============================================================================
