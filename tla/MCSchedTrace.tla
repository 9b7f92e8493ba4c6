---------------------------- MODULE MCSchedTrace ----------------------------
(***************************************************************************)
(* SchedTrace for TLC, on traces that last until a last tick.  Traces of   *)
(* one thread on one cpu, with every kind of sleep, are longer than those  *)
(* of several threads on several cpus, which only sleep interruptibly: a   *)
(* blocked reason concerns no thread but its own.  In traces with binder   *)
(* transactions, longer on one cpu than on two, threads are not asleep and *)
(* not woken up, and the transactions are sent in order.  Finished are     *)
(* traces of several threads on one cpu, with all their switches.          *)
(***************************************************************************)
EXTENDS SchedTrace, TLC

CONSTANTS
    c1, c2,
    Asleep,         \* the state of interruptible sleep
    MaxSlices,      \* the bound on switches
    MaxAlone,       \* the bound on the switches of one thread
    MaxCalling,     \* the bound on the switches of one cpu with transactions
    MaxCallTime     \* and the last tick of traces with transactions

Symmetry == Permutations({c1, c2})

Silent == \A x \in Transactions : calls[x] = NotSent

OneCpu ==
    Cardinality({c \in Cpus : running[c] # IdleThread \/ cpuToRowSched_[c] # NoRow}) <= 1

Solitary ==
    /\ Silent /\ OneCpu
    /\ \A t \in Threads : kstate[t] # TASK_NEW
    /\ \A t \in Threads \ {1} : kstate[t] = Asleep /\ t \notin seen

Only(states) ==
    /\ \A t \in Threads : kstate[t] \in states
    /\ \A i \in DOMAIN threadState : threadState[i].state \in states

Interruptible == Silent /\ Only({TASK_RUNNABLE, TASK_RUNNING, Asleep})

Sent == {x \in Transactions : calls[x] # NotSent}

Calling ==
    /\ clock <= MaxCallTime
    /\ \A t \in Threads : toRunnableTid_[t] = 0
    /\ Len(schedSlice) <= IF OneCpu /\ Cardinality(Sent) <= 1 THEN MaxCalling ELSE MaxSlices
    /\ Only({TASK_RUNNABLE, TASK_RUNNING, TASK_NEW, TASK_RUNNABLE_BINDER})
    /\ \A y \in Sent : \A x \in Transactions : x < y => x \in Sent

MaxTime == CHOOSE ts \in Times : ts + 1 \notin Times

Bound == Len(schedSlice) <= IF Solitary THEN MaxAlone ELSE MaxSlices

BoundedInit == KInit /\ (Solitary \/ Interruptible \/ Calling)

\* The states a thread may be switched out in without leaving these traces.
Leaving ==
    PrevStates \cap
        ((IF Solitary THEN PrevStates \ {TASK_NEW} ELSE {})
            \cup (IF Interruptible THEN {TASK_RUNNABLE, Asleep} ELSE {})
            \cup (IF Calling THEN {TASK_RUNNABLE, TASK_NEW} ELSE {}))

Finishes ==
    /\ OneCpu /\ ~Solitary
    /\ Len(schedSlice) >= MaxSlices
    /\ clock = IF Silent THEN MaxTime ELSE MaxCallTime

BoundedNext ==
    /\ \/ Tick
       \/ (OneCpu \/ Len(schedSlice) < MaxSlices) /\ KSwitchFrom(Leaving)
       \/ Len(schedSlice) + 2 <= MaxSlices /\ KMigrateAny
       \/ KWake
       \/ Calling /\ KBinder
       \/ Finishes /\ KFinish
    /\ \/ Bound' /\ (Solitary' \/ Interruptible')
       \/ Calling'

BoundedSpec == BoundedInit /\ [][BoundedNext]_svars
=============================================================================
