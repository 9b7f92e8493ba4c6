----------------------------- MODULE CpuFilter -----------------------------
(***************************************************************************)
(* The scheduling tables of trace_streamer: CpuFilter turns sched_switch,  *)
(* sched_wakeup, sched_blocked_reason and binder events, in the order of   *)
(* their timestamps, into the rows of thread_state (what a thread was      *)
(* doing, and for how long) and sched_slice (what a cpu was running).      *)
(*                                                                         *)
(* Rows are numbered from 1 and 0 stands for INVALID_UINT64 and for an     *)
(* absent map entry.  Threads are internal tids, of which 0 is the idle    *)
(* thread; states are the numbers of ts_common.h, because the code mixes   *)
(* the two.  Times are machine words: subtraction wraps at Word.           *)
(***************************************************************************)
EXTENDS Naturals, Sequences, FiniteSets

CONSTANTS
    Cpus,
    Threads,        \* internal tids other than 0
    Transactions,   \* binder transaction ids; none if the tracing is disabled
    PrevStates,     \* the states a thread may be switched out in
    Times,          \* the timestamps of the trace
    Word            \* the number of machine words, 2^64 in the code

ASSUME ThreadsAssumption == Threads \subseteq Nat \ {0}
ASSUME TransactionsAssumption == Transactions \subseteq Nat \ {0}
ASSUME StatesAssumption == PrevStates \subseteq Nat
ASSUME WordAssumption == Word \in Nat \ {0}
ASSUME TimesAssumption == Times \subseteq 1 .. Word - 2

NoRow == 0
IdleThread == 0
NoCpu == "none"
INVALID_TIME == Word - 1

TASK_RUNNABLE == 0
TASK_UNINTERRUPTIBLE == 2
TASK_UNINTERRUPTIBLE_IO == 21
TASK_UNINTERRUPTIBLE_NIO == 22
TASK_RUNNING == 3
TASK_DK == 130
TASK_DK_IO == 131
TASK_DK_NIO == 132
TASK_NEW == 2048
TASK_RUNNABLE_BINDER == 2049
TASK_INVALID == 32768

VARIABLES
    threadState,                    \* the rows of thread_state
    schedSlice,                     \* the rows of sched_slice
    cpuToRowThreadState_,
    cpuToRowSched_,
    internalTidToRowThreadState_,   \* the latest row of a thread and its state
    toRunnableTid_,                 \* the first wakeup not yet recorded, or 0
    pidToThreadSliceRow_,           \* the row awaiting a blocked reason
    cpuStatesCount_,                \* of a thread
    iTidToTransaction_,
    transactionIdToInfo_,
    now,                            \* the timestamp of the last event
    finished                        \* FilterAllEvents has run to its end

filter == <<threadState, schedSlice, cpuToRowThreadState_, cpuToRowSched_,
            internalTidToRowThreadState_, toRunnableTid_, pidToThreadSliceRow_,
            cpuStatesCount_, iTidToTransaction_, transactionIdToInfo_>>
vars == <<filter, now, finished>>

\* The filter and its tables as one value, for the operations to compute with.
Filter ==
    [states |-> threadState, slices |-> schedSlice,
     cpuState |-> cpuToRowThreadState_, cpuSlice |-> cpuToRowSched_,
     last |-> internalTidToRowThreadState_, wake |-> toRunnableTid_,
     blocked |-> pidToThreadSliceRow_, count |-> cpuStatesCount_,
     sent |-> iTidToTransaction_, info |-> transactionIdToInfo_]

\* The operation leaves the filter f behind.
Become(f) ==
    /\ threadState' = f.states
    /\ schedSlice' = f.slices
    /\ cpuToRowThreadState_' = f.cpuState
    /\ cpuToRowSched_' = f.cpuSlice
    /\ internalTidToRowThreadState_' = f.last
    /\ toRunnableTid_' = f.wake
    /\ pidToThreadSliceRow_' = f.blocked
    /\ cpuStatesCount_' = f.count
    /\ iTidToTransaction_' = f.sent
    /\ transactionIdToInfo_' = f.info

NoLast == [row |-> NoRow, state |-> TASK_INVALID]
NoInfo == [from |-> IdleThread, to |-> IdleThread, slice |-> NoRow, state |-> NoRow]

Init ==
    /\ threadState = <<>>
    /\ schedSlice = <<>>
    /\ cpuToRowThreadState_ = [c \in Cpus |-> NoRow]
    /\ cpuToRowSched_ = [c \in Cpus |-> NoRow]
    /\ internalTidToRowThreadState_ = [t \in Threads |-> NoLast]
    /\ toRunnableTid_ = [t \in Threads |-> 0]
    /\ pidToThreadSliceRow_ = [t \in Threads |-> NoRow]
    /\ cpuStatesCount_ = [t \in Threads |-> 0]
    /\ iTidToTransaction_ = [t \in Threads |-> 0]
    /\ transactionIdToInfo_ = [x \in Transactions |-> NoInfo]
    /\ now = 0
    /\ finished = FALSE

-----------------------------------------------------------------------------
\* The rows of thread_state.

Minus(t, u) == (t + Word - u) % Word

AppendThreadState(f, ts, cpu, tid, state) ==
    [f EXCEPT !.states = Append(@, [ts |-> ts, dur |-> INVALID_TIME, cpu |-> cpu,
                                    tid |-> tid, state |-> state])]

\* Sets a duration that is not set yet.
UpdateDuration(f, row, ts) ==
    IF f.states[row].dur # INVALID_TIME THEN f
    ELSE [f EXCEPT !.states[row].dur = Minus(ts, f.states[row].ts)]

\* AppendThreadState and RemberInternalTidInStateTable.
Record(f, ts, cpu, tid, state) ==
    [AppendThreadState(f, ts, cpu, tid, state) EXCEPT
        !.last[tid] = [row |-> Len(f.states) + 1, state |-> state]]

\* A wakeup that came since the latest row of the thread ends that row and
\* makes the thread runnable, unless the thread was running anyway.
CheckWakeupEvent(f, tid) ==
    LET last == f.last[tid]
        ts == f.wake[tid]
        ended == IF last.row = NoRow THEN f ELSE UpdateDuration(f, last.row, ts)
    IN  CASE ts = 0 -> f
          [] ts # 0 /\ last.state = TASK_RUNNING -> [f EXCEPT !.wake[tid] = 0]
          [] OTHER -> [Record(ended, ts, NoCpu, tid, TASK_RUNNABLE) EXCEPT
                            !.wake[tid] = 0]

-----------------------------------------------------------------------------
\* The parts of InsertSwitchEvent.

\* Mutants of the next definition: the size of the table is taken for the
\* number of the new row; the cpu keeps its first slice.
SwitchSlice_Size(f, ts, cpu, prevState, next) ==
    [f EXCEPT
        !.slices = Append(@, [ts |-> ts, dur |-> 0, cpu |-> cpu, tid |-> next,
                              endState |-> TASK_RUNNABLE]),
        !.cpuSlice[cpu] = Len(f.slices) + 2]

SwitchSlice_KeepsRow(f, ts, cpu, prevState, next) ==
    LET old == f.cpuSlice[cpu]
        begun == [f EXCEPT
            !.slices = Append(@, [ts |-> ts, dur |-> 0, cpu |-> cpu, tid |-> next,
                                  endState |-> TASK_RUNNABLE])]
    IN  IF old = NoRow THEN [begun EXCEPT !.cpuSlice[cpu] = Len(f.slices) + 1]
        ELSE [begun EXCEPT
                !.slices[old].dur = Minus(ts, f.slices[old].ts),
                !.slices[old].endState = prevState]

\* The cpu's slice ends and the next one begins.
SwitchSlice(f, ts, cpu, prevState, next) ==
    LET old == f.cpuSlice[cpu]
        row == Len(f.slices) + 1
        begun == [f EXCEPT
            !.slices = Append(@, [ts |-> ts, dur |-> 0, cpu |-> cpu, tid |-> next,
                                  endState |-> TASK_RUNNABLE]),
            !.cpuSlice[cpu] = row]
    IN  IF old = NoRow THEN begun
        ELSE [begun EXCEPT
                !.slices[old].dur = Minus(ts, f.slices[old].ts),
                !.slices[old].endState = prevState]

\* What the cpu ran before is over.  A row that nothing ended (the thread was
\* never switched out, so events are missing) stays open, as End sets its
\* duration to -1, but is no longer the thread's latest.
EndUnmatched(f, cpu, prev) ==
    LET row == f.cpuState[cpu]
    IN  IF /\ row # NoRow
           /\ f.states[row].tid # prev
           /\ f.states[row].dur = INVALID_TIME
        THEN [f EXCEPT !.last[f.states[row].tid] = NoLast] ELSE f

\* Mutant of the next definition: the running row is not remembered.
SwitchIn_Forgotten(f, ts, cpu, prev, next) ==
    LET woken == CheckWakeupEvent(f, next)
        last == woken.last[next].row
        ended == IF last = NoRow THEN woken ELSE UpdateDuration(woken, last, ts)
        running == AppendThreadState(ended, ts, cpu, next, TASK_RUNNING)
    IN  IF next = IdleThread THEN f
        ELSE [EndUnmatched(running, cpu, prev) EXCEPT
                !.cpuState[cpu] = Len(running.states)]

\* The next thread runs from now on.
SwitchIn(f, ts, cpu, prev, next) ==
    LET woken == CheckWakeupEvent(f, next)
        last == woken.last[next].row
        ended == IF last = NoRow THEN woken ELSE UpdateDuration(woken, last, ts)
        running == Record(ended, ts, cpu, next, TASK_RUNNING)
    IN  IF next = IdleThread THEN f
        ELSE [EndUnmatched(running, cpu, prev) EXCEPT
                !.cpuState[cpu] = Len(running.states)]

\* Mutant of the next definition: events always come in the right order.
ChangesCpu_Never(f, ts, cpu, prev) == FALSE

\* The previous thread has already been seen to run on another cpu at this
\* very time: the events of the two cpus came in the other order.
ChangesCpu(f, ts, cpu, prev) ==
    LET row == f.last[prev].row
    IN  /\ row # NoRow
        /\ f.states[row].cpu # cpu
        /\ f.states[row].state = TASK_RUNNING
        /\ f.states[row].ts = ts

\* The previous thread is in prevState from now on.  The row that ends is the
\* one that was the latest before CheckWakeupEvent.
SwitchOut(f, ts, cpu, prev, prevState) ==
    LET last == f.last[prev].row
        ended == IF last = NoRow THEN f
                 ELSE [UpdateDuration(CheckWakeupEvent(f, prev), last, ts) EXCEPT
                            !.count[prev] = @ + 1]
        row == Len(ended.states) + 1
        out == Record(ended, ts, NoCpu, prev, prevState)
    IN  IF prevState \in {TASK_UNINTERRUPTIBLE, TASK_DK}
        THEN [out EXCEPT !.blocked[prev] = row] ELSE out

SwitchesOut(f, ts, cpu, prev) == prev # IdleThread /\ ~ChangesCpu(f, ts, cpu, prev)

\* TransactionClear(iTidFrom, transactionId).
TransactionClear(f, tid, x) ==
    LET from == f.info[x].from
    IN  [f EXCEPT !.sent = [t \in Threads |-> IF t \in {tid, from} THEN 0 ELSE @[t]],
                  !.info[x] = NoInfo]

\* Mutant of the next definition: the state the sender is left in is not looked at.
SwitchTransaction_AnyState(f, old, row, prev, prevState, next) ==
    LET x == IF prev = IdleThread THEN 0 ELSE f.sent[prev]
    IN  IF x = 0 \/ old = NoRow \/ row = NoRow THEN f
        ELSE [f EXCEPT !.info[x] = [from |-> prev, to |-> next,
                                    slice |-> old, state |-> row]]

\* The sender of a transaction is switched out: in state TASK_NEW it may be
\* the receiver that runs next, in any other state the transaction is
\* forgotten.  (The code passes prevState for the thread to TransactionClear.)
SwitchTransaction(f, old, row, prev, prevState, next) ==
    LET x == IF prev = IdleThread THEN 0 ELSE f.sent[prev]
    IN  CASE x = 0 -> f
          [] /\ x # 0 /\ prevState = TASK_NEW /\ f.info[x].from = prev
             /\ old # NoRow /\ row # NoRow ->
                [f EXCEPT !.info[x] = [from |-> prev, to |-> next,
                                       slice |-> old, state |-> row]]
          [] OTHER -> TransactionClear(f, prevState, x)

AfterSwitch(f, ts, cpu, prev, prevState, next) ==
    LET in == SwitchIn(SwitchSlice(f, ts, cpu, prevState, next), ts, cpu, prev, next)
        leaves == SwitchesOut(in, ts, cpu, prev)
        out == IF leaves THEN SwitchOut(in, ts, cpu, prev, prevState) ELSE in
    IN  SwitchTransaction(out, f.cpuSlice[cpu],
                          IF leaves THEN Len(out.states) ELSE NoRow,
                          prev, prevState, next)

-----------------------------------------------------------------------------
\* The operations.  Events come in the order of their timestamps.

Event(ts) == ~finished /\ ts >= now /\ now' = ts /\ UNCHANGED finished

InsertSwitchEvent(ts, cpu, prev, prevState, next) ==
    /\ Event(ts)
    /\ Become(AfterSwitch(Filter, ts, cpu, prev, prevState, next))

\* The first wakeup since the last switch counts; a sched_waking event
\* (isWaking) changes nothing.
AfterWakeup(f, ts, tid) == IF f.wake[tid] = 0 THEN [f EXCEPT !.wake[tid] = ts] ELSE f

InsertWakeupEvent(ts, tid) ==
    /\ Event(ts)
    /\ Become(AfterWakeup(Filter, ts, tid))

\* Mutant of the next definition: the row goes on waiting for a reason.
AfterBlockedReason_Kept(f, tid, iowait) ==
    LET row == f.blocked[tid]
    IN  IF row = NoRow THEN f
        ELSE [f EXCEPT !.states[row].state =
                IF iowait THEN TASK_UNINTERRUPTIBLE_IO ELSE TASK_UNINTERRUPTIBLE_NIO]

\* Whether a thread waited for I/O is told when it is woken up.
AfterBlockedReason(f, tid, iowait) ==
    LET row == f.blocked[tid]
        old == f.states[row].state
        new == CASE old = TASK_UNINTERRUPTIBLE /\ iowait -> TASK_UNINTERRUPTIBLE_IO
                 [] old = TASK_UNINTERRUPTIBLE /\ ~iowait -> TASK_UNINTERRUPTIBLE_NIO
                 [] old = TASK_DK /\ iowait -> TASK_DK_IO
                 [] old = TASK_DK /\ ~iowait -> TASK_DK_NIO
                 [] OTHER -> old
    IN  IF row = NoRow THEN f
        ELSE [f EXCEPT !.states[row].state = new, !.blocked[tid] = NoRow]

InsertBlockedReasonEvent(ts, tid, iowait) ==
    /\ Event(ts)
    /\ Become(AfterBlockedReason(Filter, tid, iowait))

InsertRunnableBinderEvent(ts, x, tid) ==
    /\ Event(ts)
    /\ Become([Filter EXCEPT !.sent[tid] = x,
                             !.info[x] = [NoInfo EXCEPT !.from = tid]])

\* The receiver took over from the sender: the sender's wait was for it.
InsertRunnableBinderRecvEvent(ts, x, tid) ==
    LET info == transactionIdToInfo_[x]
        marked == [Filter EXCEPT
                    !.slices[info.slice].endState = TASK_RUNNABLE_BINDER,
                    !.states[info.state].state = TASK_RUNNABLE_BINDER]
        f == IF info.to = tid /\ info.slice # NoRow /\ info.state # NoRow
             THEN marked ELSE Filter
    IN  /\ Event(ts)
        /\ Become(IF info = NoInfo THEN f ELSE TransactionClear(f, IdleThread, x))

\* Mutant of the next definition: of equal timestamps the last row comes first.
SortAllRowByTs_Unstable(rows) ==
    LET Before(i) == {j \in DOMAIN rows :
                        \/ rows[j].ts < rows[i].ts
                        \/ rows[j].ts = rows[i].ts /\ j > i}
    IN  [k \in DOMAIN rows |->
            rows[CHOOSE i \in DOMAIN rows : Cardinality(Before(i)) = k - 1]]

\* SortAllRowByTs: rows of equal timestamps keep their order.
SortAllRowByTs(rows) ==
    LET Before(i) == {j \in DOMAIN rows :
                        \/ rows[j].ts < rows[i].ts
                        \/ rows[j].ts = rows[i].ts /\ j < i}
    IN  [k \in DOMAIN rows |->
            rows[CHOOSE i \in DOMAIN rows : Cardinality(Before(i)) = k - 1]]

\* CpuFilter::Clear: the maps are emptied, except toRunnableTid_ and
\* pidToThreadSliceRow_.
Clear(f) ==
    [f EXCEPT !.cpuState = [c \in Cpus |-> NoRow],
              !.cpuSlice = [c \in Cpus |-> NoRow],
              !.last = [t \in Threads |-> NoLast],
              !.sent = [t \in Threads |-> 0],
              !.info = [x \in Transactions |-> NoInfo]]

\* The end of the events, and Clear.  (CpuFilter::Finish, which completes the
\* process table, is in ProcessFilter.)
FinishWith(f) ==
    /\ ~finished
    /\ finished' = TRUE
    /\ Become(Clear(f))
    /\ UNCHANGED now

\* FilterAllEvents of the parsers of text and of profiler traces sorts the rows.
FinishSorted == FinishWith([Filter EXCEPT !.states = SortAllRowByTs(@)])

\* FilterAllEvents of the parser of raw traces leaves them as they were recorded.
FinishRaw == FinishWith(Filter)

SwitchFrom(states) ==
    \E ts \in Times, cpu \in Cpus, prev, next \in Threads \cup {IdleThread},
       prevState \in states : InsertSwitchEvent(ts, cpu, prev, prevState, next)

Wake ==
    \/ \E ts \in Times, tid \in Threads : InsertWakeupEvent(ts, tid)
    \/ \E ts \in Times, tid \in Threads, iowait \in BOOLEAN :
            InsertBlockedReasonEvent(ts, tid, iowait)

Binder ==
    \/ \E ts \in Times, x \in Transactions, tid \in Threads :
            InsertRunnableBinderEvent(ts, x, tid)
    \/ \E ts \in Times, x \in Transactions, tid \in Threads :
            InsertRunnableBinderRecvEvent(ts, x, tid)

Finishing == FinishSorted \/ FinishRaw

Next == SwitchFrom(PrevStates) \/ Wake \/ Binder \/ Finishing

Spec == Init /\ [][Next]_vars
-----------------------------------------------------------------------------
Rows == 0 .. Len(threadState)
Slices == 0 .. Len(schedSlice)
States == PrevStates \cup
    {TASK_RUNNABLE, TASK_RUNNING, TASK_UNINTERRUPTIBLE_IO, TASK_UNINTERRUPTIBLE_NIO,
     TASK_DK_IO, TASK_DK_NIO, TASK_RUNNABLE_BINDER}
Words == 0 .. Word - 1

\* The rows and the maps are well formed, and a map refers only to rows that
\* exist.
TypeOK ==
    /\ threadState \in Seq([ts : Times, dur : Words, cpu : Cpus \cup {NoCpu},
                            tid : Threads, state : States])
    /\ schedSlice \in Seq([ts : Times, dur : Words, cpu : Cpus,
                           tid : Threads \cup {IdleThread}, endState : States])
    /\ cpuToRowThreadState_ \in [Cpus -> Rows]
    /\ cpuToRowSched_ \in [Cpus -> Slices]
    /\ internalTidToRowThreadState_ \in
            [Threads -> [row : Rows, state : States \cup {TASK_INVALID}]]
    /\ toRunnableTid_ \in [Threads -> Times \cup {0}]
    /\ pidToThreadSliceRow_ \in [Threads -> Rows]
    /\ cpuStatesCount_ \in [Threads -> Nat]
    /\ iTidToTransaction_ \in [Threads -> Transactions \cup {0}]
    /\ transactionIdToInfo_ \in
            [Transactions -> [from : Threads \cup {IdleThread},
                              to : Threads \cup {IdleThread},
                              slice : Slices, state : Rows]]
    /\ now \in Times \cup {0}
    /\ finished \in BOOLEAN

\* The row the filter takes for the latest of a thread is a row of that thread,
\* with none after it, and is not ended, whatever events the trace lacks.
LatestIsLatest ==
    \A t \in Threads : LET row == internalTidToRowThreadState_[t].row IN
        row # NoRow => /\ threadState[row].tid = t
                       /\ threadState[row].dur = INVALID_TIME
                       /\ \A i \in DOMAIN threadState : threadState[i].tid = t => i <= row

\* The slices of a cpu follow each other without gap or overlap: each one but
\* the last ends when the next begins.
SlicesTile ==
    \A i, j \in DOMAIN schedSlice :
        /\ schedSlice[i].cpu = schedSlice[j].cpu /\ i < j
        /\ \A k \in i + 1 .. j - 1 : schedSlice[k].cpu # schedSlice[i].cpu
        => schedSlice[i].ts + schedSlice[i].dur = schedSlice[j].ts

\* A row that awaits its blocked reason is an uninterruptible sleep of the
\* thread, whatever happened to the thread since.
BlockedRowIsSleep ==
    ~finished => \A t \in Threads : LET row == pidToThreadSliceRow_[t] IN
        row # NoRow => /\ threadState[row].tid = t
                       /\ threadState[row].state \in {TASK_UNINTERRUPTIBLE, TASK_DK}

\* Rows are history: once its duration is known a row keeps its time, its
\* duration, its thread and its cpu, and a state only becomes more specific.
RowsAreHistory ==
    [][finished' = finished =>
        \A i \in DOMAIN threadState :
            LET old == threadState[i]
                new == threadState'[i]
            IN  /\ [new EXCEPT !.dur = 0, !.state = 0] = [old EXCEPT !.dur = 0, !.state = 0]
                /\ old.dur # INVALID_TIME => new.dur = old.dur
                /\ \/ new.state = old.state
                   \/ /\ old.state = TASK_UNINTERRUPTIBLE
                      /\ new.state \in {TASK_UNINTERRUPTIBLE_IO, TASK_UNINTERRUPTIBLE_NIO}
                   \/ old.state = TASK_DK /\ new.state \in {TASK_DK_IO, TASK_DK_NIO}
                   \/ old.state = TASK_NEW /\ new.state = TASK_RUNNABLE_BINDER
      ]_vars
=============================================================================
