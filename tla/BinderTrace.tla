----------------------------- MODULE BinderTrace -----------------------------
(***************************************************************************)
(* BinderFilter fed by a binder driver: what the slices of calls say of a  *)
(* trace from which nothing is missing.                                    *)
(*                                                                         *)
(* The driver is modelled from the events the parsers hand to the filter.  *)
(* Calls nest: a thread that waits for a reply may be called back by the   *)
(* work it waits for, as in the trace of doc/des_binder.md.                *)
(***************************************************************************)
EXTENDS BinderFilter

CONSTANT MaxCalls   \* how many transactions are sent, replies not counted

ASSUME MaxCallsAssumption == MaxCalls \in Nat

VARIABLES
    calls,  \* all transactions but replies, in the order they are sent
    work,   \* per thread, the calls it has sent or received and not finished
    alloc,  \* per thread, the transaction whose buffer is to be allocated
    lock,   \* per thread, "no", "try" or "hold"
    clock

driver == <<calls, work, alloc, lock, clock>>
dvars == <<bvars, driver>>

\* The ids of a call and of its reply.
Id(k) == 2 * k - 1
ReplyId(k) == 2 * k

DInit ==
    /\ BInit
    /\ calls = <<>>
    /\ work = [t \in Threads |-> <<>>]
    /\ alloc = [t \in Threads |-> None]
    /\ lock = [t \in Threads |-> "no"]
    /\ clock = 1

Tick ==
    /\ clock + 1 \in Times
    /\ clock' = clock + 1
    /\ UNCHANGED <<bvars, calls, work, alloc, lock>>

Top(s) == s[Len(s)]
Pop(s) == SubSeq(s, 1, Len(s) - 1)
Push(t, dir, k) == work' = [work EXCEPT ![t] = Append(@, [dir |-> dir, call |-> k])]
Finish(t) == work' = [work EXCEPT ![t] = Pop(@)]

\* The call the thread serves, if it does not wait for one itself.
Serves(t) == IF work[t] = <<>> THEN None ELSE Top(work[t]).call
Waits(t) == work[t] # <<>> /\ Top(work[t]).dir = "out"

\* A call, the call that was served when it was sent, and so on.
Chain(k) ==
    LET up[i \in 0 .. Len(calls)] == IF i = None THEN {} ELSE {i} \cup up[calls[i].within]
    IN  up[k]

MayTransact(t) == alloc[t] = None /\ lock[t] = "no"

Send(t, to, oneway) ==
    LET k == Len(calls) + 1
    IN  /\ k <= MaxCalls /\ to # t
        /\ MayTransact(t) /\ ~Waits(t)
        /\ IF oneway THEN SendOneWay(clock, t, Id(k)) /\ UNCHANGED work
           ELSE SendCall(clock, t, Id(k)) /\ Push(t, "out", k)
        /\ calls' = Append(calls,
                [from |-> t, to |-> to, oneway |-> oneway, within |-> Serves(t),
                 sent |-> clock, received |-> 0, replied |-> 0, done |-> 0,
                 transRow |-> Len(callstack) + 1, replyRow |-> None])
        /\ alloc' = [alloc EXCEPT ![t] = Id(k)]
        /\ UNCHANGED <<lock, clock>>

Alloc(t) ==
    /\ alloc[t] # None
    /\ TransactionAllocBuf(clock, t, alloc[t])
    /\ alloc' = [alloc EXCEPT ![t] = None]
    /\ UNCHANGED <<calls, work, lock, clock>>

\* A thread that is idle receives any call for it; one that waits, those that
\* come of what it waits for.
Receive(k) ==
    LET t == calls[k].to
    IN  /\ calls[k].received = 0
        /\ alloc[calls[k].from] # Id(k)
        /\ MayTransact(t)
        /\ \/ work[t] = <<>>
           \/ Waits(t) /\ ~calls[k].oneway /\ Top(work[t]).call \in Chain(k)
        /\ ReceiveTraction(clock, t, Id(k))
        /\ calls' = [calls EXCEPT ![k].received = clock, ![k].replyRow = Len(callstack) + 1]
        /\ IF calls[k].oneway THEN UNCHANGED work ELSE Push(t, "in", k)
        /\ UNCHANGED <<alloc, lock, clock>>

Reply(k) ==
    LET t == calls[k].to
    IN  /\ MayTransact(t)
        /\ work[t] # <<>> /\ Top(work[t]) = [dir |-> "in", call |-> k]
        /\ SendReply(clock, t, ReplyId(k), calls[k].from)
        /\ calls' = [calls EXCEPT ![k].replied = clock]
        /\ Finish(t)
        /\ alloc' = [alloc EXCEPT ![t] = ReplyId(k)]
        /\ UNCHANGED <<lock, clock>>

GetReply(k) ==
    LET t == calls[k].from
    IN  /\ calls[k].replied # 0 /\ calls[k].done = 0
        /\ alloc[calls[k].to] # ReplyId(k)
        /\ MayTransact(t)
        /\ ReceiveTraction(clock, t, ReplyId(k))
        /\ calls' = [calls EXCEPT ![k].done = clock]
        /\ Finish(t)
        /\ UNCHANGED <<alloc, lock, clock>>

\* The driver takes its lock for a thread, and lets it go before it does
\* anything else that leaves an event.
Lock(t) ==
    /\ lock[t] = "no" /\ alloc[t] = None
    /\ TractionLock(clock, t)
    /\ lock' = [lock EXCEPT ![t] = "try"]
    /\ UNCHANGED <<calls, work, alloc, clock>>

Locked(t) ==
    /\ lock[t] = "try" /\ \A u \in Threads : lock[u] # "hold"
    /\ TractionLocked(clock, t)
    /\ lock' = [lock EXCEPT ![t] = "hold"]
    /\ UNCHANGED <<calls, work, alloc, clock>>

Unlock(t) ==
    /\ lock[t] = "hold" /\ alloc[t] = None
    /\ TractionUnlock(clock, t)
    /\ lock' = [lock EXCEPT ![t] = "no"]
    /\ UNCHANGED <<calls, work, alloc, clock>>

\* Nothing can be said of the program once it has written to no row.
DNext ==
    /\ ~stray
    /\ \/ Tick
       \/ \E t, to \in Threads, oneway \in BOOLEAN : Send(t, to, oneway)
       \/ \E t \in Threads : Alloc(t) \/ Lock(t) \/ Locked(t) \/ Unlock(t)
       \/ \E k \in DOMAIN calls : Receive(k) \/ Reply(k) \/ GetReply(k)

DSpec == DInit /\ [][DNext]_dvars
-----------------------------------------------------------------------------
\* What the table says of the row: the set that the row names, not the one the
\* filter remembers.
Facts(row) == IF callstack[row].argSet = None THEN {} ELSE argSets[callstack[row].argSet]
Known(row, key) == {fact.value : fact \in {x \in Facts(row) : x.key = key}}

Sync == {k \in DOMAIN calls : ~calls[k].oneway}

\* The two slices of a call, once it has been received, name each other and
\* the receiver, and no other, however calls nest.
LinksPaired ==
    \A k \in Sync : LET c == calls[k] IN c.received # 0 =>
        /\ Known(c.transRow, "transaction") = {Id(k)}
        /\ Known(c.transRow, "destination thread") = {c.to}
        /\ Known(c.transRow, "destination slice") = {c.replyRow}
        /\ Known(c.replyRow, "destination slice") = {c.transRow}

\* The slices of a call begin when it is sent and received, and end when the
\* reply is received and sent.
CallsTimed ==
    \A k \in Sync : LET c == calls[k] IN
        /\ callstack[c.transRow].ts = c.sent
        /\ callstack[c.transRow].dur = IF c.done = 0 THEN Open ELSE c.done - c.sent
        /\ c.received # 0 =>
            /\ callstack[c.replyRow].ts = c.received
            /\ callstack[c.replyRow].dur =
                    IF c.replied = 0 THEN Open ELSE c.replied - c.received

\* The two instants of a one-way call have the same arguments, those of the
\* call, and stay apart from the calls around them.
OneWayKnown ==
    \A k \in DOMAIN calls \ Sync : LET c == calls[k] IN
        \A row \in {c.transRow, c.replyRow} \ {None} :
            /\ callstack[row].dur = 0
            /\ Facts(row) = ArgsSend(c.from, Id(k))

\* The receipt of a call finds the slice of the reply it has just begun, and
\* writes to its row, however calls nest: it writes to a row that does not exist
\* only if the stack of the receiver was full.
WritesInRange ==
    [][~stray /\ stray' =>
        \A k \in DOMAIN calls : calls'[k] # calls[k] =>
            Len(sliceStackMap_[calls[k].to]) = MaxDepth]_dvars

\* Nothing is remembered of a call that is over.
NothingLeft ==
    (\A k \in DOMAIN calls : calls[k].received # 0 /\ (k \in Sync => calls[k].done # 0)) =>
        /\ \A x \in Transactions :
            /\ transNeedReply_[x] = NoThread
            /\ asyncBinderEvents_[x] = NoEvent
            /\ x \notin transReplyWaitingReply_
        /\ \A t \in Threads : transReplyFilter_[t] = NoThread

\* The slice of a reply that has been sent names the thread it was sent to.
RepliesNamed ==
    \A k \in Sync : LET c == calls[k] IN
        c.replied # 0 => Known(c.replyRow, "destination thread") = {c.from}

\* The buffer a call's slice speaks of is the one allocated for that call.
BuffersRight ==
    \A k \in Sync : Known(calls[k].transRow, "buffer") \subseteq {Id(k)}
=============================================================================
