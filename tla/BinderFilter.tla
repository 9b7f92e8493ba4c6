---------------------------- MODULE BinderFilter ----------------------------
(***************************************************************************)
(* Binder calls as slices: BinderFilter turns the transactions of the      *)
(* binder driver into slices of the sender and of the receiver, and has    *)
(* each name the other (filter/binder_filter.cpp).                         *)
(*                                                                         *)
(* A call that needs a reply is a slice of the caller from its sending to  *)
(* the receipt of the reply, and a slice of the callee from its receipt to *)
(* the sending of the reply; a one-way call is an instant in both.  Of the *)
(* arguments of a slice those are kept that tell transactions apart.       *)
(***************************************************************************)
EXTENDS SliceFilter

CONSTANT Transactions   \* the transaction ids

VARIABLES
    transNeedReply_,            \* who sent the transaction, until it is received
    transReplyFilter_,          \* whom a thread is to reply to
    transReplyWaitingReply_,    \* the replies that have not been received
    asyncBinderEvents_,         \* the arguments of one-way calls not received
    lastEventTs_,               \* the threads with a lock event
    stray                       \* a row that does not exist has been written to

binder == <<transNeedReply_, transReplyFilter_, transReplyWaitingReply_,
            asyncBinderEvents_, lastEventTs_, stray>>
bvars == <<vars, binder>>

BinderCat == "binder"
TransName == "binder transaction"
ReplyName == "binder reply"
LockTry == "binder lock waiting"
LockHold == "binder lock held"

Fact(key, value) == [key |-> key, value |-> value]

NoThread == "none"
NoEvent == [args |-> {}, set |-> None]

BInit ==
    /\ Init
    /\ transNeedReply_ = [x \in Transactions |-> NoThread]
    /\ transReplyFilter_ = [t \in Threads |-> NoThread]
    /\ transReplyWaitingReply_ = {}
    /\ asyncBinderEvents_ = [x \in Transactions |-> NoEvent]
    /\ lastEventTs_ = {}
    /\ stray = FALSE

-----------------------------------------------------------------------------
BeginBinder(f, ts, t, name, args) == StartSlice(f, ts, t, Open, BinderCat, name, args, None)
EndBinder(f, ts, t, cat, name, args) == CompleteSlice(f, ts, t, cat, name, args)
EndInnermost(f, ts, t) == EndBinder(f, ts, t, AnyIndex, AnyIndex, {})

ArgsSend(t, x) == {Fact("transaction", x), Fact("calling thread", t)}

\* SendTraction of a call that needs a reply.
SendCall(ts, t, x) ==
    /\ Event(ts)
    /\ Become(BeginBinder(Filter, ts, t, TransName, ArgsSend(t, x)))
    /\ transNeedReply_' = [transNeedReply_ EXCEPT ![x] = t]
    /\ UNCHANGED <<transReplyFilter_, transReplyWaitingReply_, asyncBinderEvents_, lastEventTs_, stray>>

\* SendTraction of a one-way call: its arguments are kept for the receiver,
\* with the set they have become.
SendOneWay(ts, t, x) ==
    LET f == StartSlice(Filter, ts, t, 0, BinderCat, AsyncName, ArgsSend(t, x), None)
    IN  /\ Event(ts)
        /\ Become(f)
        /\ asyncBinderEvents_' = [asyncBinderEvents_ EXCEPT ![x] =
                [args |-> ArgsSend(t, x), set |-> IF f.ret = None THEN None ELSE Len(f.sets)]]
        /\ UNCHANGED <<transNeedReply_, transReplyFilter_, transReplyWaitingReply_, lastEventTs_, stray>>

\* Mutant of the next definition: the reply does not end its slice.
SendReply_Open(ts, t, x, dest) ==
    /\ Event(ts)
    /\ Become(WithArgs(Filter, t, BinderCat, ReplyName, ArgsSend(t, x)))
    /\ transReplyWaitingReply_' = transReplyWaitingReply_ \cup {x}
    /\ UNCHANGED <<transNeedReply_, transReplyFilter_, asyncBinderEvents_, lastEventTs_, stray>>

\* SendTraction of a reply.  Only if it goes to whom the thread last had a call
\* from does its slice name the destination; it ends the innermost slice anyhow.
SendReply(ts, t, x, dest) ==
    LET right == transReplyFilter_[t] = dest
        f == IF right
             THEN WithArgs(Filter, t, BinderCat, ReplyName, {Fact("destination thread", dest)})
             ELSE Filter
    IN  /\ Event(ts)
        /\ Become(EndBinder(f, ts, t, AnyIndex, AnyIndex, ArgsSend(t, x)))
        /\ transReplyFilter_' = IF right THEN [transReplyFilter_ EXCEPT ![t] = NoThread]
                                ELSE transReplyFilter_
        /\ transReplyWaitingReply_' = transReplyWaitingReply_ \cup {x}
        /\ UNCHANGED <<transNeedReply_, asyncBinderEvents_, lastEventTs_, stray>>

\* Mutant of the next definition: the reply is not forgotten.
ReceiveReply_Kept(ts, t, x) ==
    /\ x \in transReplyWaitingReply_
    /\ Event(ts)
    /\ Become(EndInnermost(Filter, ts, t))
    /\ UNCHANGED binder

\* ReceiveTraction of a reply ends the slice of the call.
ReceiveReply(ts, t, x) ==
    /\ x \in transReplyWaitingReply_
    /\ Event(ts)
    /\ Become(EndInnermost(Filter, ts, t))
    /\ transReplyWaitingReply_' = transReplyWaitingReply_ \ {x}
    /\ UNCHANGED <<transNeedReply_, transReplyFilter_, asyncBinderEvents_, lastEventTs_, stray>>

SliceFact(row) == IF row = None THEN {} ELSE {Fact("destination slice", row)}

\* Mutants of the next definition: the set of the reply is not given to its row;
\* the slice of the reply is looked for under the name of a call.
ReceiveCall_NoSet(ts, t, x) ==
    LET from == transNeedReply_[x]
        f == BeginBinder(Filter, ts, t, ReplyName, {})
        g == WithArgs(f, from, BinderCat, TransName,
                      {Fact("destination thread", t)} \cup SliceFact(f.ret))
        h == WithArgs(g, t, BinderCat, ReplyName, SliceFact(g.ret))
    IN  /\ x \notin transReplyWaitingReply_
        /\ from # NoThread
        /\ Event(ts)
        /\ Become(h)
        /\ transReplyFilter_' = [transReplyFilter_ EXCEPT ![t] = from]
        /\ transNeedReply_' = [transNeedReply_ EXCEPT ![x] = NoThread]
        /\ UNCHANGED <<transReplyWaitingReply_, asyncBinderEvents_, lastEventTs_, stray>>

ReceiveCall_WrongName(ts, t, x) ==
    LET from == transNeedReply_[x]
        f == BeginBinder(Filter, ts, t, ReplyName, {})
        g == WithArgs(f, from, BinderCat, TransName,
                      {Fact("destination thread", t)} \cup SliceFact(f.ret))
        h == WithArgs(g, t, BinderCat, TransName, SliceFact(g.ret))
    IN  /\ x \notin transReplyWaitingReply_
        /\ from # NoThread
        /\ Event(ts)
        /\ Become(h)
        /\ stray' = (stray \/ h.ret = None)
        /\ transReplyFilter_' = [transReplyFilter_ EXCEPT ![t] = from]
        /\ transNeedReply_' = [transNeedReply_ EXCEPT ![x] = NoThread]
        /\ UNCHANGED <<transReplyWaitingReply_, asyncBinderEvents_, lastEventTs_>>

\* ReceiveTraction of a call that needs a reply: it begins the slice of the
\* reply, and the innermost open transaction of the caller and that slice are
\* told of each other.  What AddArgs returns is not looked at before the set is
\* given to the row: if the slice was too deep for the stack that row does not
\* exist, and what the program does from then on is undefined.
ReceiveCall(ts, t, x) ==
    LET from == transNeedReply_[x]
        f == BeginBinder(Filter, ts, t, ReplyName, {})
        g == WithArgs(f, from, BinderCat, TransName,
                      {Fact("destination thread", t)} \cup SliceFact(f.ret))
        h == WithArgs(g, t, BinderCat, ReplyName, SliceFact(g.ret))
    IN  /\ x \notin transReplyWaitingReply_
        /\ from # NoThread
        /\ Event(ts)
        /\ Become(IF h.ret = None THEN h
                  ELSE [h EXCEPT !.rows[h.ret].argSet = h.rows[h.ret].mapped])
        /\ stray' = (stray \/ h.ret = None)
        /\ transReplyFilter_' = [transReplyFilter_ EXCEPT ![t] = from]
        /\ transNeedReply_' = [transNeedReply_ EXCEPT ![x] = NoThread]
        /\ UNCHANGED <<transReplyWaitingReply_, asyncBinderEvents_, lastEventTs_>>

\* Mutant of the next definition: the arguments are not passed on.
ReceiveOneWay_NoArgs(ts, t, x) ==
    /\ x \notin transReplyWaitingReply_
    /\ transNeedReply_[x] = NoThread
    /\ asyncBinderEvents_[x] # NoEvent
    /\ Event(ts)
    /\ Become(StartSlice(Filter, ts, t, 0, BinderCat, AsyncName, {}, None))
    /\ asyncBinderEvents_' = [asyncBinderEvents_ EXCEPT ![x] = NoEvent]
    /\ UNCHANGED <<transNeedReply_, transReplyFilter_, transReplyWaitingReply_, lastEventTs_, stray>>

\* ReceiveTraction of a one-way call: both instants have the same arguments.
ReceiveOneWay(ts, t, x) ==
    LET event == asyncBinderEvents_[x]
    IN  /\ x \notin transReplyWaitingReply_
        /\ transNeedReply_[x] = NoThread
        /\ event # NoEvent
        /\ Event(ts)
        /\ Become(StartSlice(Filter, ts, t, 0, BinderCat, AsyncName, event.args, event.set))
        /\ asyncBinderEvents_' = [asyncBinderEvents_ EXCEPT ![x] = NoEvent]
        /\ UNCHANGED <<transNeedReply_, transReplyFilter_, transReplyWaitingReply_, lastEventTs_, stray>>

ReceiveTraction(ts, t, x) ==
    ReceiveReply(ts, t, x) \/ ReceiveCall(ts, t, x) \/ ReceiveOneWay(ts, t, x)

\* TransactionAllocBuf: the buffer of the transaction x was allocated.  The
\* event does not say which; it is taken for the innermost open call's.
TransactionAllocBuf(ts, t, x) ==
    /\ Become(WithArgs(Filter, t, BinderCat, TransName, {Fact("buffer", x)}))
    /\ UNCHANGED <<now, binder>>

\* TractionLock, TractionLocked and TractionUnlock.
TractionLock(ts, t) ==
    /\ Event(ts)
    /\ Become(BeginBinder(Filter, ts, t, LockTry, {}))
    /\ lastEventTs_' = lastEventTs_ \cup {t}
    /\ UNCHANGED <<transNeedReply_, transReplyFilter_, transReplyWaitingReply_, asyncBinderEvents_, stray>>

TractionLocked(ts, t) ==
    /\ Event(ts)
    /\ Become(IF t \in lastEventTs_
              THEN BeginBinder(EndInnermost(Filter, ts, t), ts, t, LockHold, {})
              ELSE Filter)
    /\ UNCHANGED binder

TractionUnlock(ts, t) ==
    /\ Event(ts)
    /\ Become(IF t \in lastEventTs_
              THEN EndBinder(Filter, ts, t, BinderCat, LockHold, {}) ELSE Filter)
    /\ UNCHANGED binder
=============================================================================
