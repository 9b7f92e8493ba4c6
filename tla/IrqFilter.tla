----------------------------- MODULE IrqFilter -----------------------------
(***************************************************************************)
(* The interrupts of trace_streamer: the entries and exits of interrupt    *)
(* handlers, of handlers of interrupts between processors (ipi) and of     *)
(* soft interrupts become rows of the table irq (filter/irq_filter.cpp and *)
(* the handlers of filter/slice_filter.cpp it calls).                      *)
(*                                                                         *)
(* An ipi is handled inside an interrupt: when one has just been handled,  *)
(* its row stands for both.  It gets the arguments of the interrupt, the   *)
(* row of the interrupt gets its duration, cut to 32 bits, in place of its *)
(* own, and of the two only it is flagged.                                 *)
(*                                                                         *)
(* Events come in the order of their timestamps, and any may be missing.   *)
(* Rows and sets of arguments are numbered from 1; 0 stands for none.      *)
(***************************************************************************)
EXTENDS Integers, Sequences

CONSTANTS
    Cpus,
    Times,
    DurWidth    \* durations that are copied are cut to this many values, 2^32 in the code

ASSUME TimesAssumption == Times \subseteq Nat
ASSUME DurWidthAssumption == DurWidth \in Nat \ {0}

None == 0
Cats == {"irq", "ipi", "softirq"}

VARIABLES
    irq,                \* the rows
    irqEventMap_,       \* per cpu, the row of the handler that runs
    ipiEventMap_,
    softIrqEventMap_,
    irqDataLinker_,     \* per cpu, the ipi that was handled last
    argSets,            \* how many sets of arguments there are
    now

filter == <<irq, irqEventMap_, ipiEventMap_, softIrqEventMap_, irqDataLinker_, argSets>>
vars == <<filter, now>>

Init ==
    /\ irq = <<>>
    /\ irqEventMap_ = [c \in Cpus |-> None]
    /\ ipiEventMap_ = [c \in Cpus |-> None]
    /\ softIrqEventMap_ = [c \in Cpus |-> None]
    /\ irqDataLinker_ = [c \in Cpus |-> None]
    /\ argSets = 0
    /\ now = 0

Event(ts) == ts >= now /\ now' = ts

NewRow(ts, c, cat) == [ts |-> ts, dur |-> 0, cpu |-> c, cat |-> cat, flag |-> FALSE, argSet |-> None]
Ended(row, ts) == [row EXCEPT !.dur = ts - row.ts]
Last == Len(irq) + 1

\* Mutants of the next definition: the ipi handled last is not forgotten; the
\* row after the handler's is remembered.
IrqHandlerEntry_Linked(ts, c) ==
    /\ Event(ts)
    /\ irq' = Append(irq, NewRow(ts, c, "irq"))
    /\ irqEventMap_' = [irqEventMap_ EXCEPT ![c] = Last]
    /\ UNCHANGED <<ipiEventMap_, softIrqEventMap_, irqDataLinker_, argSets>>

IrqHandlerEntry_Off(ts, c) ==
    /\ Event(ts)
    /\ irq' = Append(irq, NewRow(ts, c, "irq"))
    /\ irqEventMap_' = [irqEventMap_ EXCEPT ![c] = Last + 1]
    /\ irqDataLinker_' = [irqDataLinker_ EXCEPT ![c] = None]
    /\ UNCHANGED <<ipiEventMap_, softIrqEventMap_, argSets>>

\* A handler whose exit is missing is replaced by the next one.
IrqHandlerEntry(ts, c) ==
    /\ Event(ts)
    /\ irq' = Append(irq, NewRow(ts, c, "irq"))
    /\ irqEventMap_' = [irqEventMap_ EXCEPT ![c] = Last]
    /\ irqDataLinker_' = [irqDataLinker_ EXCEPT ![c] = None]
    /\ UNCHANGED <<ipiEventMap_, softIrqEventMap_, argSets>>

\* Mutants of the next definition: the interrupt is flagged too; the link is
\* kept.
IrqHandlerExit_BothFlagged(ts, c) ==
    LET row == irqEventMap_[c]
        ipi == irqDataLinker_[c]
        ended == [irq EXCEPT ![row] = [@ EXCEPT !.dur = ts - irq[row].ts, !.flag = TRUE,
                                                !.argSet = argSets + 1]]
    IN  /\ Event(ts) /\ row # None
        /\ irq' = IF ipi = None THEN ended ELSE [ended EXCEPT ![ipi].argSet = argSets + 1]
        /\ irqDataLinker_' = [irqDataLinker_ EXCEPT ![c] = None]
        /\ irqEventMap_' = [irqEventMap_ EXCEPT ![c] = None]
        /\ argSets' = argSets + 1
        /\ UNCHANGED <<ipiEventMap_, softIrqEventMap_>>

IrqHandlerExit_LinkKept(ts, c) ==
    LET row == irqEventMap_[c]
        ipi == irqDataLinker_[c]
        ended == [irq EXCEPT ![row] = [Ended(@, ts) EXCEPT !.argSet = argSets + 1]]
    IN  /\ Event(ts) /\ row # None
        /\ irq' = IF ipi = None THEN [ended EXCEPT ![row].flag = TRUE]
                  ELSE [ended EXCEPT ![ipi].argSet = argSets + 1, ![row].dur = irq[ipi].dur]
        /\ irqEventMap_' = [irqEventMap_ EXCEPT ![c] = None]
        /\ argSets' = argSets + 1
        /\ UNCHANGED <<ipiEventMap_, softIrqEventMap_, irqDataLinker_>>

IrqHandlerExit(ts, c) ==
    LET row == irqEventMap_[c]
        ipi == irqDataLinker_[c]
        ended == [irq EXCEPT ![row] = [Ended(@, ts) EXCEPT !.argSet = argSets + 1]]
    IN  /\ Event(ts)
        /\ IF row = None THEN UNCHANGED filter
           ELSE /\ irq' = IF ipi = None THEN [ended EXCEPT ![row].flag = TRUE]
                          ELSE [ended EXCEPT ![ipi].argSet = argSets + 1,
                                             ![row].dur = irq[ipi].dur % DurWidth]
                /\ irqDataLinker_' = [irqDataLinker_ EXCEPT ![c] = None]
                /\ irqEventMap_' = [irqEventMap_ EXCEPT ![c] = None]
                /\ argSets' = argSets + 1
                /\ UNCHANGED <<ipiEventMap_, softIrqEventMap_>>

IpiHandlerEntry(ts, c) ==
    /\ Event(ts)
    /\ irq' = Append(irq, NewRow(ts, c, "ipi"))
    /\ ipiEventMap_' = [ipiEventMap_ EXCEPT ![c] = Last]
    /\ irqDataLinker_' = [irqDataLinker_ EXCEPT ![c] = None]
    /\ UNCHANGED <<irqEventMap_, softIrqEventMap_, argSets>>

\* Mutant of the next definition: the handler is not forgotten.
IpiHandlerExit_Kept(ts, c) ==
    LET row == ipiEventMap_[c]
    IN  /\ Event(ts) /\ row # None
        /\ irq' = [irq EXCEPT ![row] = [Ended(@, ts) EXCEPT !.flag = TRUE]]
        /\ irqDataLinker_' = [irqDataLinker_ EXCEPT ![c] = IF @ = None THEN row ELSE @]
        /\ UNCHANGED <<irqEventMap_, ipiEventMap_, softIrqEventMap_, argSets>>

\* A link that is there is not replaced (the code emplaces it).
IpiHandlerExit(ts, c) ==
    LET row == ipiEventMap_[c]
    IN  /\ Event(ts)
        /\ IF row = None THEN UNCHANGED filter
           ELSE /\ irq' = [irq EXCEPT ![row] = [Ended(@, ts) EXCEPT !.flag = TRUE]]
                /\ irqDataLinker_' = [irqDataLinker_ EXCEPT ![c] = IF @ = None THEN row ELSE @]
                /\ ipiEventMap_' = [ipiEventMap_ EXCEPT ![c] = None]
                /\ UNCHANGED <<irqEventMap_, softIrqEventMap_, argSets>>

\* Events of a vector that has no name are dropped.
SoftIrqEntry(ts, c, named) ==
    /\ Event(ts)
    /\ IF ~named THEN UNCHANGED filter
       ELSE /\ irq' = Append(irq, NewRow(ts, c, "softirq"))
            /\ softIrqEventMap_' = [softIrqEventMap_ EXCEPT ![c] = Last]
            /\ UNCHANGED <<irqEventMap_, ipiEventMap_, irqDataLinker_, argSets>>

SoftIrqExit(ts, c, named) ==
    LET row == softIrqEventMap_[c]
    IN  /\ Event(ts)
        /\ IF ~named \/ row = None THEN UNCHANGED filter
           ELSE /\ irq' = [irq EXCEPT ![row] = [Ended(@, ts) EXCEPT !.argSet = argSets + 1]]
                /\ softIrqEventMap_' = [softIrqEventMap_ EXCEPT ![c] = None]
                /\ argSets' = argSets + 1
                /\ UNCHANGED <<irqEventMap_, ipiEventMap_, irqDataLinker_>>

Next ==
    \E ts \in Times, c \in Cpus :
        \/ IrqHandlerEntry(ts, c) \/ IrqHandlerExit(ts, c)
        \/ IpiHandlerEntry(ts, c) \/ IpiHandlerExit(ts, c)
        \/ \E named \in BOOLEAN : SoftIrqEntry(ts, c, named) \/ SoftIrqExit(ts, c, named)

Spec == Init /\ [][Next]_vars
-----------------------------------------------------------------------------
Rows == 0 .. Len(irq)

\* The rows are well formed, and what refers to a row refers to one that
\* exists.
TypeOK ==
    /\ irq \in Seq([ts : Times, dur : Nat, cpu : Cpus, cat : Cats, flag : BOOLEAN,
                    argSet : 0 .. argSets])
    /\ irqEventMap_ \in [Cpus -> Rows]
    /\ ipiEventMap_ \in [Cpus -> Rows]
    /\ softIrqEventMap_ \in [Cpus -> Rows]
    /\ irqDataLinker_ \in [Cpus -> Rows]
    /\ argSets \in Nat
    /\ now \in Times \cup {0}

\* A handler that runs has a row of its own kind and cpu that nothing has
\* been written to, begun in the past.
RunningRow(map, cat) ==
    \A c \in Cpus : map[c] # None =>
        LET row == irq[map[c]] IN
        /\ row.cat = cat /\ row.cpu = c /\ row.ts <= now
        /\ row.dur = 0 /\ ~row.flag /\ row.argSet = None

\* The filter remembers only handlers that have not ended, each in the map of
\* its kind, and links an interrupt only to an ipi of its cpu that has ended
\* and belongs to no interrupt yet.
MapsAgree ==
    /\ RunningRow(irqEventMap_, "irq")
    /\ RunningRow(ipiEventMap_, "ipi")
    /\ RunningRow(softIrqEventMap_, "softirq")
    /\ \A c \in Cpus : irqDataLinker_[c] # None =>
        LET row == irq[irqDataLinker_[c]] IN
        row.cat = "ipi" /\ row.cpu = c /\ row.flag /\ row.argSet = None

\* An interrupt that has ended is shown by exactly one flagged row: its own,
\* or that of one ipi of its cpu, which has its arguments, whatever events are
\* missing.
ShownOnce ==
    \A i \in DOMAIN irq : irq[i].cat = "irq" /\ irq[i].argSet # None =>
        LET standins == {j \in DOMAIN irq \ {i} : irq[j].argSet = irq[i].argSet} IN
        IF irq[i].flag THEN standins = {}
        ELSE \E j \in standins :
                /\ standins = {j}
                /\ irq[j].cat = "ipi" /\ irq[j].cpu = irq[i].cpu /\ irq[j].flag

\* A row that has ended keeps its times: no later event is taken for its exit.
EndedOnce ==
    [][\A i \in DOMAIN irq : irq[i].flag \/ irq[i].argSet # None =>
        irq'[i].dur = irq[i].dur /\ irq'[i].ts = irq[i].ts]_vars
=============================================================================
