------------------------------ MODULE IrqTrace ------------------------------
(***************************************************************************)
(* IrqFilter fed by processors that handle interrupts: what the table irq  *)
(* says of a trace from which nothing is missing, and what it still says   *)
(* of one from which any event may be.                                     *)
(*                                                                         *)
(* The processors are modelled from the events they leave.  An ipi may be  *)
(* handled inside an interrupt, as the filter expects, or on its own; an   *)
(* interrupt may come while a soft interrupt is served, not the reverse.   *)
(***************************************************************************)
EXTENDS IrqFilter

VARIABLES
    complete,   \* nothing is missing from the trace
    serves,     \* per cpu, the handlers that run, the innermost last
    log,        \* all handlers that have been entered
    clock

cpus == <<complete, serves, log, clock>>
tvars == <<vars, cpus>>

TInit ==
    /\ Init
    /\ complete \in BOOLEAN
    /\ serves = [c \in Cpus |-> <<>>]
    /\ log = <<>>
    /\ clock = 1

Tick ==
    /\ clock + 1 \in Times
    /\ clock' = clock + 1
    /\ UNCHANGED <<vars, complete, serves, log>>

Top(s) == s[Len(s)]
MayInterrupt(cat, c) ==
    serves[c] # <<>> =>
        \/ cat = "irq" /\ log[Top(serves[c])].cat = "softirq"
        \/ cat = "ipi" /\ log[Top(serves[c])].cat \in {"irq", "softirq"}

Enter(cat, c) ==
    /\ MayInterrupt(cat, c)
    /\ CASE cat = "irq" -> IrqHandlerEntry(clock, c)
         [] cat = "ipi" -> IpiHandlerEntry(clock, c)
         [] cat = "softirq" -> SoftIrqEntry(clock, c, TRUE)
    /\ log' = Append(log, [cat |-> cat, cpu |-> c, entry |-> clock, exit |-> 0])
    /\ serves' = [serves EXCEPT ![c] = Append(@, Len(log) + 1)]
    /\ UNCHANGED <<complete, clock>>

Leave(c) ==
    /\ serves[c] # <<>>
    /\ LET i == Top(serves[c]) IN
        /\ CASE log[i].cat = "irq" -> IrqHandlerExit(clock, c)
             [] log[i].cat = "ipi" -> IpiHandlerExit(clock, c)
             [] log[i].cat = "softirq" -> SoftIrqExit(clock, c, TRUE)
        /\ log' = [log EXCEPT ![i].exit = clock]
    /\ serves' = [serves EXCEPT ![c] = SubSeq(@, 1, Len(@) - 1)]
    /\ UNCHANGED <<complete, clock>>

TNext ==
    \/ complete /\ Tick
    \/ complete /\ \E c \in Cpus : Leave(c) \/ \E cat \in Cats : Enter(cat, c)
    \/ ~complete /\ Next /\ UNCHANGED cpus

TSpec == TInit /\ [][TNext]_tvars
-----------------------------------------------------------------------------
Inside(i, j) ==
    log[i].cpu = log[j].cpu /\ log[i].exit # 0 /\ j < i /\ log[i].exit <= log[j].exit

\* Of a complete trace the table has every handler, with the times of each
\* ipi and soft interrupt; and an ipi stands for an interrupt only if it was
\* handled inside it.
HandlersRecorded == complete =>
    /\ Len(irq) = Len(log)
    /\ \A i \in DOMAIN log :
        /\ irq[i].cat = log[i].cat /\ irq[i].cpu = log[i].cpu /\ irq[i].ts = log[i].entry
        /\ log[i].cat # "irq" /\ log[i].exit # 0 => irq[i].dur = log[i].exit - log[i].entry
        /\ log[i].cat = "irq" /\ log[i].exit # 0 =>
            \/ irq[i].flag /\ irq[i].dur = log[i].exit - log[i].entry
            \/ \E j \in DOMAIN log : irq[j].argSet = irq[i].argSet /\ Inside(j, i)

\* The duration of the row of an interrupt is the time the interrupt took.
InterruptsTimed == complete =>
    \A i \in DOMAIN log :
        log[i].cat = "irq" /\ log[i].exit # 0 => irq[i].dur = log[i].exit - log[i].entry
=============================================================================
