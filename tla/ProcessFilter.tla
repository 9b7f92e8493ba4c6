--------------------------- MODULE ProcessFilter ---------------------------
(***************************************************************************)
(* The identity tables of trace_streamer: the process and thread rows of   *)
(* TraceDataCache and the two indexes ProcessFilter keeps over them        *)
(* (filter/process_filter.cpp), with the completion of the tables that     *)
(* CpuFilter::Finish does when a trace has been read.                      *)
(*                                                                         *)
(* Every event of a trace names threads by kernel tid, some also by        *)
(* process id; the filter resolves those names to rows.  The same tid may  *)
(* denote threads of different processes (a kernel reuses tids), and a     *)
(* thread may be met long before its process is.                           *)
(*                                                                         *)
(* A row is named by its position, so the code's internal id i is row      *)
(* i + 1 here and NoRow stands for INVALID_UINT32.                         *)
(***************************************************************************)
EXTENDS Naturals, Sequences, FiniteSets

CONSTANTS
    Ids,    \* the kernel thread and process ids of the trace
    Names   \* the names a trace may give, the empty one included

NoRow == 0
\* process id 0 means "unknown process" to the operations below, and is
\* also the id of the idle process every cache starts with
Idle == 0
NoName == ""

ASSUME IdsAssumption == Idle \in Ids
ASSUME NamesAssumption == NoName \in Names

VARIABLES
    threads,                \* internalThreadsData_
    processes,              \* internalProcessesData_
    tidMappingSet_,         \* the pairs (tid, thread row)
    pidToInternalPidMap_,   \* the pairs (pid, process row)
    finished,               \* CpuFilter::Finish has run
    ret                     \* what the last operation was asked and returned

tables == <<threads, processes, tidMappingSet_, pidToInternalPidMap_>>
vars == <<tables, finished, ret>>

Thread == [tid : Ids, ipid : Nat, name : Names]
Process == [pid : Ids, cmdLine : Names]

\* The tables as one value, for the operations to compute with.
Tables ==
    [th |-> threads, pr |-> processes,
     tids |-> tidMappingSet_, pids |-> pidToInternalPidMap_]

\* The operation leaves the tables s behind.
Become(s) ==
    /\ threads' = s.th
    /\ processes' = s.pr
    /\ tidMappingSet_' = s.tids
    /\ pidToInternalPidMap_' = s.pids

-----------------------------------------------------------------------------
\* The lookups.  Rows of one tid sit in the multimap in the order they were
\* inserted, which is the order of their numbers.

GetInternalTids(s, tid) == {i \in DOMAIN s.th : <<tid, i>> \in s.tids}

\* GetInternalTid(tid): the last thread inserted for tid.
LastInternalTid(s, tid) ==
    IF GetInternalTids(s, tid) = {} THEN NoRow
    ELSE CHOOSE i \in GetInternalTids(s, tid) :
            \A j \in GetInternalTids(s, tid) : j <= i

Unowned(s, tid) == {i \in GetInternalTids(s, tid) : s.th[i].ipid = NoRow}
OwnedBy(s, tid, pid) ==
    {i \in GetInternalTids(s, tid) :
        s.th[i].ipid # NoRow /\ s.pr[s.th[i].ipid].pid = pid}

\* Mutants of the next definition: unowned threads are passed over; threads of
\* the process are passed over; process rows are compared in place of pids.
GetInternalTid_OwnedOnly(s, tid, pid) ==
    IF OwnedBy(s, tid, pid) = {} THEN NoRow
    ELSE CHOOSE i \in OwnedBy(s, tid, pid) : TRUE

GetInternalTid_UnownedOnly(s, tid, pid) ==
    IF Unowned(s, tid) = {} THEN NoRow ELSE CHOOSE i \in Unowned(s, tid) : TRUE

GetInternalTid_ByRow(s, tid, pid) ==
    LET same == {i \in GetInternalTids(s, tid) :
                    /\ s.th[i].ipid # NoRow
                    /\ <<pid, s.th[i].ipid>> \in s.pids}
    IN  CASE same # {} -> CHOOSE i \in same : TRUE
          [] same = {} /\ Unowned(s, tid) # {} -> CHOOSE i \in Unowned(s, tid) : TRUE
          [] OTHER -> NoRow

\* GetInternalTid(tid, pid): the first thread of tid that belongs to pid,
\* and failing that the last one that belongs to no process yet.
GetInternalTid(s, tid, pid) ==
    CASE OwnedBy(s, tid, pid) # {} ->
            CHOOSE i \in OwnedBy(s, tid, pid) :
                \A j \in OwnedBy(s, tid, pid) : i <= j
      [] OwnedBy(s, tid, pid) = {} /\ Unowned(s, tid) # {} ->
            CHOOSE i \in Unowned(s, tid) : \A j \in Unowned(s, tid) : j <= i
      [] OTHER -> NoRow

\* GetInternalPid: the map holds at most one row for a pid.
GetInternalPid(s, pid) ==
    IF \E p \in s.pids : p[1] = pid
    THEN (CHOOSE p \in s.pids : p[1] = pid)[2]
    ELSE NoRow

-----------------------------------------------------------------------------
\* The building blocks of the operations.

NewThread(s, tid) ==
    [s EXCEPT !.th = Append(@, [tid |-> tid, ipid |-> NoRow, name |-> NoName]),
              !.tids = @ \cup {<<tid, Len(s.th) + 1>>}]

\* Mutants of the next definition: the map gets the size of the table in place
\* of the last row; the row before; nothing.
NewProcess_Size(s, pid) ==
    [s EXCEPT !.pr = Append(@, [pid |-> pid, cmdLine |-> NoName]),
              !.pids = @ \cup {<<pid, Len(s.pr) + 2>>}]

NewProcess_RowBefore(s, pid) ==
    [s EXCEPT !.pr = Append(@, [pid |-> pid, cmdLine |-> NoName]),
              !.pids = @ \cup {<<pid, Len(s.pr)>>}]

NewProcess_Unmapped(s, pid) ==
    [s EXCEPT !.pr = Append(@, [pid |-> pid, cmdLine |-> NoName])]

NewProcess(s, pid) ==
    [s EXCEPT !.pr = Append(@, [pid |-> pid, cmdLine |-> NoName]),
              !.pids = @ \cup {<<pid, Len(s.pr) + 1>>}]

SetOwner(s, itid, ipid) == [s EXCEPT !.th[itid].ipid = ipid]

\* Mutant of the next definition: the main thread is created without a lookup.
MainThread_AlwaysNew(s, pid) ==
    SetOwner(NewThread(s, pid), Len(s.th) + 1, GetInternalPid(s, pid))

\* The nested GetOrCreateThreadWithPid(pid, pid) of CreateProcessMaybe: the
\* process is in the map by now, so the call does not nest any further.
MainThread(s, pid) ==
    LET found == GetInternalTid(s, pid, pid)
        s1 == IF found = NoRow THEN NewThread(s, pid) ELSE s
        itid == IF found = NoRow THEN Len(s1.th) ELSE found
    IN  IF s1.th[itid].ipid = NoRow
        THEN SetOwner(s1, itid, GetInternalPid(s1, pid)) ELSE s1

\* Mutant of the next definition: no main thread is created.
CreateProcessMaybe_NoMainThread(s, pid) ==
    IF GetInternalPid(s, pid) # NoRow THEN s ELSE NewProcess(s, pid)

CreateProcessMaybe(s, pid) ==
    IF GetInternalPid(s, pid) # NoRow THEN s
    ELSE MainThread(NewProcess(s, pid), pid)

\* Mutant of the next definition: the pid is not used.
LookupThread_TidOnly(s, tid, pid) == LastInternalTid(s, tid)

\* The thread GetOrCreateThreadWithPid looks up or creates.
LookupThread(s, tid, pid) ==
    IF pid = Idle THEN LastInternalTid(s, tid) ELSE GetInternalTid(s, tid, pid)

ThreadOf(s, tid, pid) ==
    LET found == LookupThread(s, tid, pid)
    IN  IF found = NoRow THEN Len(s.th) + 1 ELSE found

\* Mutant of the next definition: a thread is given its process again.
WithThread_OwnerAgain(s, tid, pid) ==
    LET s1 == IF LookupThread(s, tid, pid) = NoRow THEN NewThread(s, tid) ELSE s
        s2 == CreateProcessMaybe(s1, pid)
    IN  IF pid # Idle
        THEN SetOwner(s2, ThreadOf(s, tid, pid), GetInternalPid(s2, pid)) ELSE s1

WithThread(s, tid, pid) ==
    LET s1 == IF LookupThread(s, tid, pid) = NoRow THEN NewThread(s, tid) ELSE s
        itid == ThreadOf(s, tid, pid)
        s2 == CreateProcessMaybe(s1, pid)
    IN  IF s1.th[itid].ipid = NoRow /\ pid # Idle
        THEN SetOwner(s2, itid, GetInternalPid(s2, pid)) ELSE s1

\* Mutant of the next definition: the name of the main thread is left alone.
WithProcessName_ProcessOnly(s, pid, name) ==
    LET s1 == CreateProcessMaybe(s, pid)
    IN  IF name = NoName THEN s1
        ELSE [s1 EXCEPT !.pr[GetInternalPid(s1, pid)].cmdLine = name]

\* The process row gets the name unless it is empty, and the main thread then
\* gets the name of the process row.
WithProcessName(s, pid, name) ==
    LET s1 == CreateProcessMaybe(s, pid)
        ipid == GetInternalPid(s1, pid)
        s2 == IF name = NoName THEN s1 ELSE [s1 EXCEPT !.pr[ipid].cmdLine = name]
        itid == GetInternalTid(s2, pid, pid)
    IN  IF itid = NoRow THEN s2
        ELSE [s2 EXCEPT !.th[itid].name = s2.pr[ipid].cmdLine]

-----------------------------------------------------------------------------
\* The state TraceDataCacheBase and ProcessFilter are constructed in: the idle
\* process and its thread, both in row 1.
Init ==
    /\ threads = <<[tid |-> Idle, ipid |-> 1, name |-> NoName]>>
    /\ processes = <<[pid |-> Idle, cmdLine |-> NoName]>>
    /\ tidMappingSet_ = {<<Idle, 1>>}
    /\ pidToInternalPidMap_ = {<<Idle, 1>>}
    /\ finished = FALSE
    /\ ret = [op |-> "none"]

\* UpdateOrCreateThreadWithName, UpdateOrCreateThread (name empty) and
\* UpdateOrCreateThreadWithNameIndex, which both end in.  The test
\* timeStamp < startT_ never holds (startT_ of a thread is 0), so a thread
\* row has no start time to update.
UpdateOrCreateThreadWithNameIndex(tid, name) ==
    LET itids == GetInternalTids(Tables, tid)
        s == IF itids = {} THEN NewThread(Tables, tid) ELSE Tables
        named == IF itids = {} THEN {Len(s.th)} ELSE itids
    IN  /\ Become(IF name = NoName THEN s
                  ELSE [s EXCEPT !.th = [i \in DOMAIN s.th |->
                            IF i \in named THEN [s.th[i] EXCEPT !.name = name]
                            ELSE s.th[i]]])
        /\ ret' = [op |-> "thread", tid |-> tid, pid |-> Idle,
                   row |-> LastInternalTid(s, tid)]
        /\ UNCHANGED finished

GetOrCreateThreadWithPid(tid, pid) ==
    /\ Become(WithThread(Tables, tid, pid))
    /\ ret' = [op |-> "thread", tid |-> tid, pid |-> pid,
               row |-> ThreadOf(Tables, tid, pid)]
    /\ UNCHANGED finished

UpdateOrCreateThreadWithPidAndName(tid, pid, name) ==
    LET itid == ThreadOf(Tables, tid, pid)
        s == [WithThread(Tables, tid, pid) EXCEPT !.th[itid].name = name]
    IN  /\ Become(IF tid = pid THEN WithProcessName(s, pid, name) ELSE s)
        /\ ret' = [op |-> "thread", tid |-> tid, pid |-> pid, row |-> itid]
        /\ UNCHANGED finished

UpdateOrCreateProcessWithName(pid, name) ==
    LET s == WithProcessName(Tables, pid, name)
    IN  /\ Become(s)
        /\ ret' = [op |-> "process", pid |-> pid, row |-> GetInternalPid(s, pid)]
        /\ UNCHANGED finished

GetOrCreateInternalPid(pid) ==
    LET s == CreateProcessMaybe(Tables, pid)
    IN  /\ Become(s)
        /\ ret' = [op |-> "process", pid |-> pid, row |-> GetInternalPid(s, pid)]
        /\ UNCHANGED finished

-----------------------------------------------------------------------------
\* The threads without a process.
Orphans == {i \in DOMAIN threads : threads[i].ipid = NoRow}

\* CpuFilter::Finish: every thread whose process never became known becomes
\* a process of its own, in the order of the rows.  AppendNewProcessData
\* appends the row and nothing else: pidToInternalPidMap_ is not told.  Events
\* that were held back (the native hook ones) are resolved after it.
Finish ==
    /\ ~finished
    /\ \E order \in [1 .. Cardinality(Orphans) -> Orphans] :
        /\ \A k, l \in DOMAIN order : k < l => order[k] < order[l]
        /\ \A i \in Orphans : \E k \in DOMAIN order : order[k] = i
        /\ processes' = processes \o
                [k \in DOMAIN order |-> [pid |-> threads[order[k]].tid,
                                         cmdLine |-> threads[order[k]].name]]
        /\ threads' = [i \in DOMAIN threads |->
                IF i \in Orphans
                THEN [threads[i] EXCEPT !.ipid = Len(processes) +
                        (CHOOSE k \in DOMAIN order : order[k] = i)]
                ELSE threads[i]]
    /\ finished' = TRUE
    /\ ret' = [op |-> "none"]
    /\ UNCHANGED <<tidMappingSet_, pidToInternalPidMap_>>

Next ==
    \/ \E tid \in Ids, name \in Names : UpdateOrCreateThreadWithNameIndex(tid, name)
    \/ \E tid, pid \in Ids : GetOrCreateThreadWithPid(tid, pid)
    \/ \E tid, pid \in Ids, name \in Names :
            UpdateOrCreateThreadWithPidAndName(tid, pid, name)
    \/ \E pid \in Ids, name \in Names : UpdateOrCreateProcessWithName(pid, name)
    \/ \E pid \in Ids : GetOrCreateInternalPid(pid)
    \/ Finish

Spec == Init /\ [][Next]_vars
-----------------------------------------------------------------------------
Result ==
    [op : {"none"}]
    \cup [op : {"thread"}, tid : Ids, pid : Ids, row : Nat]
    \cup [op : {"process"}, pid : Ids, row : Nat]

\* The rows and the indexes are well formed, and every row an index or a
\* thread refers to exists.
TypeOK ==
    /\ threads \in Seq(Thread)
    /\ processes \in Seq(Process)
    /\ \A i \in DOMAIN threads : threads[i].ipid \in 0 .. Len(processes)
    /\ tidMappingSet_ \subseteq Ids \X (1 .. Len(threads))
    /\ pidToInternalPidMap_ \subseteq Ids \X (1 .. Len(processes))
    /\ finished \in BOOLEAN
    /\ ret \in Result

\* The indexes agree with the tables: tidMappingSet_ lists every thread row
\* under its tid, and pidToInternalPidMap_ maps a pid to one row of that pid.
IndexesAgree ==
    /\ tidMappingSet_ = {<<threads[i].tid, i>> : i \in DOMAIN threads}
    /\ \A p \in pidToInternalPidMap_ : processes[p[2]].pid = p[1]
    /\ \A p, q \in pidToInternalPidMap_ : p[1] = q[1] => p = q

\* Until CpuFilter::Finish appends rows behind the map's back, the map knows
\* every process row, so no two rows have the same pid.
PidsUnique ==
    ~finished => \A r \in DOMAIN processes :
                    <<processes[r].pid, r>> \in pidToInternalPidMap_

\* A thread that belongs to no process is the only thread of its tid: a lookup
\* with a pid adopts it before it creates another row for the tid.
UnownedAlone ==
    \A i, j \in DOMAIN threads :
        threads[i].tid = threads[j].tid /\ threads[i].ipid = NoRow => i = j

\* No process has two threads of one tid, where a process is what its pid
\* says: the lookups compare pids and not process rows.
OneRowPerThread ==
    \A i, j \in DOMAIN threads :
        /\ threads[i].tid = threads[j].tid
        /\ threads[i].ipid # NoRow /\ threads[j].ipid # NoRow
        /\ processes[threads[i].ipid].pid = processes[threads[j].ipid].pid
        => i = j

\* Every process of the map has its main thread: a thread whose tid is the
\* pid and which belongs to a process of that pid.
MainThreadExists ==
    \A p \in pidToInternalPidMap_ : \E i \in DOMAIN threads :
        /\ threads[i].tid = p[1]
        /\ threads[i].ipid # NoRow
        /\ processes[threads[i].ipid].pid = p[1]

\* An operation returns a row for what it was asked: a thread of the tid,
\* of the process when one was given; the row of the pid in the map.
ReturnsWhatWasAsked ==
    /\ ret.op = "thread" =>
        /\ ret.row \in DOMAIN threads
        /\ threads[ret.row].tid = ret.tid
        /\ ret.pid # Idle =>
            /\ threads[ret.row].ipid # NoRow
            /\ processes[threads[ret.row].ipid].pid = ret.pid
    /\ ret.op = "process" => <<ret.pid, ret.row>> \in pidToInternalPidMap_

\* Rows are never lost or given to another thread or process: the ids that
\* other tables hold keep their meaning, and a thread keeps its process once
\* it has one.
RowsKeepTheirMeaning ==
    [][/\ \A i \in DOMAIN threads :
            /\ i \in DOMAIN threads'
            /\ threads'[i].tid = threads[i].tid
            /\ threads[i].ipid # NoRow => threads'[i].ipid = threads[i].ipid
       /\ \A r \in DOMAIN processes :
            /\ r \in DOMAIN processes'
            /\ processes'[r].pid = processes[r].pid
      ]_vars

\* A process is renamed together with its main thread, and never to the empty
\* name, which the trace gives for processes it knows nothing about.
ProcessAndMainThreadRenamed ==
    [][\A r \in DOMAIN processes :
            processes'[r].cmdLine # processes[r].cmdLine =>
                LET pid == processes[r].pid
                    main == GetInternalTid(Tables, pid, pid)'
                IN  /\ processes'[r].cmdLine # NoName
                    /\ main # NoRow /\ threads'[main].name = processes'[r].cmdLine
      ]_vars

\* Once (tid, pid) resolves to a thread of that process it resolves to the
\* same row for ever, whatever else is created and even across Finish.
LookupIsStable ==
    [][\A tid \in Ids, pid \in Ids :
            OwnedBy(Tables, tid, pid) # {} =>
                GetInternalTid(Tables, tid, pid)' = GetInternalTid(Tables, tid, pid)
      ]_vars

\* The processes Finish makes out of unowned threads are new: none of them
\* repeats the pid of a process that exists, nor of another one it makes.
FinishMakesNewPids ==
    [][finished' # finished =>
        /\ \A i \in DOMAIN threads' : threads'[i].ipid # NoRow
        /\ \A q, r \in DOMAIN processes' :
                processes'[q].pid = processes'[r].pid => q = r
      ]_vars
=============================================================================
