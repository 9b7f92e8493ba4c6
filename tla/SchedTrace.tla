----------------------------- MODULE SchedTrace -----------------------------
(***************************************************************************)
(* CpuFilter fed by a scheduler: what the thread_state and sched_slice     *)
(* tables say of a trace from which nothing is missing.                    *)
(*                                                                         *)
(* The scheduler is the traced kernel, modelled from the events it emits.  *)
(* It keeps the ground truth, tick by tick, that the tables are compared   *)
(* with.  Tracing begins while threads run, wait and sleep, so a thread is *)
(* unknown until its first event.  Running threads send each other binder  *)
(* transactions, under identifiers that are never used again.              *)
(***************************************************************************)
EXTENDS CpuFilter

\* Whether a thread that has been running since before the trace began may be
\* sent a wakeup: the kernel traces the wakeup of a running thread too.
CONSTANT EarlyWakeups

ASSUME EarlyWakeupsAssumption == EarlyWakeups \in BOOLEAN

VARIABLES
    running,    \* the thread on each cpu
    kstate,     \* the state of each thread
    since,      \* when the thread entered it
    seen,       \* the threads the trace has mentioned
    hist,       \* per thread, its state and cpu at each past tick
    ran,        \* per cpu, the thread it ran at each past tick
    calls,      \* per transaction, its sender, its receiver and how the sender
                \* was switched out between the sending and the receipt
    clock

kernel == <<running, kstate, since, seen, hist, ran, calls, clock>>
svars == <<vars, kernel>>

Unknown == <<TASK_INVALID, NoCpu>>
NotSent == [from |-> IdleThread, to |-> IdleThread, outs |-> <<>>]

KInit ==
    /\ Init
    /\ running \in [Cpus -> Threads \cup {IdleThread}]
    /\ \A c, d \in Cpus : c # d /\ running[c] = running[d] => running[c] = IdleThread
    /\ kstate \in [Threads -> PrevStates \cup {TASK_RUNNING}]
    /\ \A t \in Threads : kstate[t] = TASK_RUNNING <=> \E c \in Cpus : running[c] = t
    /\ since = [t \in Threads |-> 0]
    /\ seen = {}
    /\ hist = [t \in Threads |-> <<Unknown>>]
    /\ ran = [c \in Cpus |-> <<Unknown>>]
    /\ calls = [x \in Transactions |-> NotSent]
    /\ clock = 1

CpuOf(t) == IF kstate[t] = TASK_RUNNING THEN CHOOSE c \in Cpus : running[c] = t ELSE NoCpu

\* Time passes, and the truth about the tick that is over is recorded.
Tick ==
    /\ ~finished
    /\ clock + 1 \in Times
    /\ clock' = clock + 1
    /\ hist' = [t \in Threads |->
            Append(hist[t], IF t \in seen THEN <<kstate[t], CpuOf(t)>> ELSE Unknown)]
    /\ ran' = [c \in Cpus |-> Append(ran[c],
            IF cpuToRowSched_[c] = NoRow THEN Unknown ELSE <<running[c], c>>)]
    /\ UNCHANGED <<vars, running, kstate, since, seen, calls>>

Runnable(t) == kstate[t] \in {TASK_RUNNABLE, TASK_NEW}

\* The threads ts change to the states new, if they are threads at all.
Enter(ts, new) ==
    /\ kstate' = [t \in Threads |-> IF t \in ts THEN new[t] ELSE kstate[t]]
    /\ since' = [t \in Threads |-> IF t \in ts THEN clock ELSE since[t]]
    /\ seen' = seen \cup (ts \ {IdleThread})
    /\ UNCHANGED <<hist, ran, clock>>

UnderWay(x) == calls[x].from # IdleThread /\ calls[x].to = IdleThread

\* The threads t of outs leave their cpus as outs[t] tells.  A switch is known if
\* the trace has the one before it on that cpu.
Leave(outs) ==
    calls' = [x \in Transactions |->
        IF UnderWay(x) /\ calls[x].from \in DOMAIN outs
        THEN [calls[x] EXCEPT !.outs = Append(@, outs[calls[x].from])] ELSE calls[x]]

Out(c, state, next) ==
    [cpu |-> c, ts |-> clock, state |-> state, next |-> next,
     known |-> cpuToRowSched_[c] # NoRow]

\* A cpu switches to another thread, or to the idle one.
KSwitch(c, next, prevState) ==
    LET prev == running[c]
    IN  /\ clock \in Times
        /\ next # prev
        /\ next = IdleThread \/ (next \in Threads /\ Runnable(next))
        /\ prev = IdleThread => prevState = TASK_RUNNABLE
        /\ InsertSwitchEvent(clock, c, prev, prevState, next)
        /\ running' = [running EXCEPT ![c] = next]
        /\ Leave([t \in {prev} |-> Out(c, prevState, next)])
        /\ Enter({prev, next}, [t \in Threads |->
                    IF t = next THEN TASK_RUNNING ELSE prevState])

\* A thread moves from one cpu to another within a tick, and the trace gives
\* the events of the cpu it arrives at first.
KMigrate(from, to, next) ==
    LET t == running[from]
        out == running[to]
        arrived == AfterSwitch(Filter, clock, to, out, TASK_RUNNABLE, t)
    IN  /\ clock \in Times
        /\ from # to /\ t # IdleThread /\ next # t /\ next # out
        /\ next = IdleThread \/ (next \in Threads /\ Runnable(next))
        /\ Event(clock)
        /\ Become(AfterSwitch(arrived, clock, from, t, TASK_RUNNABLE, next))
        /\ running' = [running EXCEPT ![from] = next, ![to] = t]
        /\ Leave([u \in {t, out} |-> IF u = t THEN Out(from, TASK_RUNNABLE, next)
                                              ELSE Out(to, TASK_RUNNABLE, t)])
        /\ Enter({t, out, next}, [u \in Threads |->
                    IF u = out THEN TASK_RUNNABLE ELSE TASK_RUNNING])

\* A thread is woken up; if it is not asleep nothing changes but the event.
KWakeup(t) ==
    /\ clock \in Times
    /\ kstate[t] = TASK_RUNNING /\ t \notin seen => EarlyWakeups
    /\ InsertWakeupEvent(clock, t)
    /\ IF kstate[t] = TASK_RUNNING
       THEN UNCHANGED kernel
       ELSE /\ Enter({t}, [u \in Threads |-> TASK_RUNNABLE])
            /\ UNCHANGED <<running, calls>>

\* Just before it wakes a thread up the kernel tells what the thread was
\* blocked for, which is then the truth about the whole wait.
KBlockedReason(t, iowait) ==
    LET state == CASE kstate[t] = TASK_DK -> IF iowait THEN TASK_DK_IO ELSE TASK_DK_NIO
                   [] OTHER -> IF iowait THEN TASK_UNINTERRUPTIBLE_IO
                                         ELSE TASK_UNINTERRUPTIBLE_NIO
    IN  /\ clock \in Times
        /\ kstate[t] \in {TASK_UNINTERRUPTIBLE, TASK_DK}
        /\ InsertBlockedReasonEvent(clock, t, iowait)
        /\ kstate' = [kstate EXCEPT ![t] = state]
        /\ hist' = [hist EXCEPT ![t] = [k \in DOMAIN hist[t] |->
                IF k > since[t] /\ hist[t][k] # Unknown THEN <<state, NoCpu>>
                ELSE hist[t][k]]]
        /\ UNCHANGED <<running, since, seen, ran, calls, clock>>

\* A running thread sends a transaction.
KSend(t, x) ==
    /\ clock \in Times
    /\ kstate[t] = TASK_RUNNING
    /\ calls[x] = NotSent
    /\ InsertRunnableBinderEvent(clock, x, t)
    /\ calls' = [calls EXCEPT ![x].from = t]
    /\ UNCHANGED <<running, kstate, since, seen, hist, ran, clock>>

\* A running thread other than the sender receives it.
KReceive(t, x) ==
    /\ clock \in Times
    /\ kstate[t] = TASK_RUNNING
    /\ UnderWay(x) /\ calls[x].from # t
    /\ InsertRunnableBinderRecvEvent(clock, x, t)
    /\ calls' = [calls EXCEPT ![x].to = t]
    /\ UNCHANGED <<running, kstate, since, seen, hist, ran, clock>>

KFinish == Finishing /\ UNCHANGED kernel

KSwitchFrom(states) ==
    \E c \in Cpus, next \in Threads \cup {IdleThread}, prevState \in states :
        KSwitch(c, next, prevState)

KMigrateAny ==
    \E from, to \in Cpus, next \in Threads \cup {IdleThread} : KMigrate(from, to, next)

KWake ==
    \/ \E t \in Threads : KWakeup(t)
    \/ \E t \in Threads, iowait \in BOOLEAN : KBlockedReason(t, iowait)

KBinder == \E t \in Threads, x \in Transactions : KSend(t, x) \/ KReceive(t, x)

KNext ==
    Tick \/ KSwitchFrom(PrevStates) \/ KMigrateAny \/ KWake \/ KBinder \/ KFinish

KSpec == KInit /\ [][KNext]_svars
-----------------------------------------------------------------------------
\* A row speaks about the tick that begins at time ts.
Covers(row, ts) == row.ts <= ts /\ (row.dur = INVALID_TIME \/ ts < row.ts + row.dur)

\* A wakeup that the filter has noted and not yet written down: what the table
\* says of the thread from then on is provisional.
Provisional(t, ts) ==
    toRunnableTid_[t] # 0 /\ toRunnableTid_[t] <= ts /\ kstate[t] # TASK_RUNNING

\* A wait in TASK_NEW may be shown as one for a receiver: see BinderWaitsTrue.
Shows(row, state, cpu) ==
    /\ row.cpu = cpu
    /\ \/ row.state = state
       \/ state = TASK_NEW /\ row.state = TASK_RUNNABLE_BINDER

\* Of a complete trace thread_state tells the truth: at every tick since its
\* first event exactly one row of the thread covers the tick, and it has the
\* state and the cpu the thread had.
TimelineIsTrue ==
    \A t \in Threads : \A k \in DOMAIN hist[t] :
        hist[t][k] # Unknown /\ ~Provisional(t, k - 1) =>
            \E i \in DOMAIN threadState :
                /\ threadState[i].tid = t /\ Covers(threadState[i], k - 1)
                /\ Shows(threadState[i], hist[t][k][1], hist[t][k][2])
                /\ \A j \in DOMAIN threadState \ {i} :
                    threadState[j].tid = t => ~Covers(threadState[j], k - 1)

\* The last slice of a cpu has no duration yet.
SliceCovers(i, ts) ==
    /\ schedSlice[i].ts <= ts
    /\ \/ ts < schedSlice[i].ts + schedSlice[i].dur
       \/ \A j \in i + 1 .. Len(schedSlice) : schedSlice[j].cpu # schedSlice[i].cpu

\* Of a complete trace sched_slice tells what each cpu ran.
CpuTimelineIsTrue ==
    \A c \in Cpus : \A k \in DOMAIN ran[c] :
        ran[c][k] # Unknown =>
            \E i \in DOMAIN schedSlice :
                /\ schedSlice[i].cpu = c /\ SliceCovers(i, k - 1)
                /\ schedSlice[i].tid = ran[c][k][1]
                /\ \A j \in DOMAIN schedSlice \ {i} :
                    schedSlice[j].cpu = c => ~SliceCovers(j, k - 1)

\* The rows of a thread follow each other, in the order of the table, without gap
\* or overlap, and only the last is without a duration: of a complete trace this
\* holds while the table is filled, although wakeups are written late, and of the
\* finished table, whether the parser sorts it or not.
ThreadRowsFollow ==
    \A i, j \in DOMAIN threadState :
        /\ threadState[i].tid = threadState[j].tid /\ i < j
        /\ \A k \in i + 1 .. j - 1 : threadState[k].tid # threadState[i].tid
        => /\ threadState[i].dur # INVALID_TIME
           /\ threadState[i].ts + threadState[i].dur = threadState[j].ts

\* The sender of x, switched out in TASK_NEW, made way for the receiver of x.
HandedOver(x, out) ==
    /\ calls[x].to # IdleThread /\ out.next = calls[x].to
    /\ out.state = TASK_NEW /\ out.known

Handovers(t) ==
    UNION {{calls[x].outs[k] : k \in {n \in DOMAIN calls[x].outs :
                                        HandedOver(x, calls[x].outs[n])}} :
           x \in {y \in Transactions : calls[y].from = t}}

MarkedRow(row, out) == row.ts = out.ts /\ row.state = TASK_RUNNABLE_BINDER

MarkedSlice(slice, out) ==
    /\ slice.cpu = out.cpu /\ slice.ts + slice.dur = out.ts
    /\ slice.endState = TASK_RUNNABLE_BINDER

\* A wait is shown as one for the receiver of a binder transaction only if the
\* waiting thread sent one and made way, at the beginning of the wait and before
\* the receipt, for the thread that received it, and likewise the slice that ends
\* there; and if the sender had no other transaction and was not switched out
\* again, both are shown.
BinderWaitsTrue ==
    /\ \A i \in DOMAIN threadState :
        threadState[i].state = TASK_RUNNABLE_BINDER =>
            \E out \in Handovers(threadState[i].tid) : MarkedRow(threadState[i], out)
    /\ \A i \in DOMAIN schedSlice :
        schedSlice[i].endState = TASK_RUNNABLE_BINDER =>
            \E out \in Handovers(schedSlice[i].tid) : MarkedSlice(schedSlice[i], out)
    /\ \A x \in Transactions : LET t == calls[x].from IN
        /\ Len(calls[x].outs) = 1 /\ HandedOver(x, calls[x].outs[1])
        /\ \A y \in Transactions \ {x} : calls[y].from # t
        => /\ \E i \in DOMAIN threadState : threadState[i].tid = t /\
                MarkedRow(threadState[i], calls[x].outs[1])
           /\ \E i \in DOMAIN schedSlice : schedSlice[i].tid = t /\
                MarkedSlice(schedSlice[i], calls[x].outs[1])

\* The duration of a row is the time the thread was in the state, so it is no
\* longer than the trace.
DurationsMeasured ==
    \A i \in DOMAIN threadState :
        \/ threadState[i].dur = INVALID_TIME
        \/ threadState[i].ts + threadState[i].dur <= clock
=============================================================================
