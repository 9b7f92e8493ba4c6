---------------------------- MODULE SliceFilter ----------------------------
(***************************************************************************)
(* The call stacks of trace_streamer: SliceFilter turns the begin and end  *)
(* events of a thread (user marks, work queue items, binder calls) into    *)
(* rows of callstack with a duration, a depth and a parent, and pairs      *)
(* asynchronous starts with their finish (filter/slice_filter.cpp).        *)
(*                                                                         *)
(* Events come in the order of their timestamps, and any may be missing.   *)
(* Rows, and the sets of arguments attached to them, are numbered from 1;  *)
(* 0 stands for INVALID.  Threads are internal tids.  isAsyncEvent is      *)
(* never set in the code, so what depends on it is left out.               *)
(***************************************************************************)
EXTENDS Integers, Sequences, FiniteSets

CONSTANTS
    Threads,
    Cats,       \* the categories events may have
    Names,
    Cookies,    \* of asynchronous events
    Args,       \* what may be known of a slice
    Times,
    MaxDepth    \* the deepest stack, 255 in the code

ASSUME MaxDepthAssumption == MaxDepth \in Nat \ {0}
ASSUME TimesAssumption == Times \subseteq Nat

None == 0
Open == -1          \* the duration of a slice that has not ended
AnyIndex == "any"        \* INVALID_UINT64 for a category or a name
AsyncName == "async"   \* of the slices of one-way binder calls

VARIABLES
    callstack,          \* the rows
    sliceStackMap_,     \* per thread, the slices that have not been closed
    asyncEventMap_,     \* the row of each asynchronous event that is open
    argSets,            \* the sets of arguments
    sliceSize_,         \* per thread, the number of slices that have ended
    now

filter == <<callstack, sliceStackMap_, asyncEventMap_, argSets, sliceSize_>>
vars == <<filter, now>>

AsyncKeys == Threads \X Cookies \X Names

\* The filter as one value for the operations to compute with, and the row
\* the last of them returned.
Filter ==
    [rows |-> callstack, stack |-> sliceStackMap_, async |-> asyncEventMap_,
     sets |-> argSets, size |-> sliceSize_, ret |-> None]

Become(f) ==
    /\ callstack' = f.rows
    /\ sliceStackMap_' = f.stack
    /\ asyncEventMap_' = f.async
    /\ argSets' = f.sets
    /\ sliceSize_' = f.size

Init ==
    /\ callstack = <<>>
    /\ sliceStackMap_ = [t \in Threads |-> <<>>]
    /\ asyncEventMap_ = [k \in AsyncKeys |-> None]
    /\ argSets = <<>>
    /\ sliceSize_ = [t \in Threads |-> 0]
    /\ now = 0

-----------------------------------------------------------------------------
\* Mutant of the next definition: nothing is closed.
CloseUnMatchedSlice_Off(f, ts, t) == f

\* Slices that ended below others that did not: the stack is cut below them
\* once their end has passed.  What lay above them never ended and stays open
\* (the code sets the duration of the ended slice again, in place of theirs).
CloseUnMatchedSlice(f, ts, t) ==
    LET stack == f.stack[t]
        \* the stack, and whether an open slice was met, after the slices
        \* above the i-th have been looked at
        seen[i \in 0 .. Len(stack)] ==
            IF i = Len(stack) THEN [stack |-> stack, incomplete |-> FALSE]
            ELSE LET s == seen[i + 1]
                     row == f.rows[stack[i + 1].index]
                     end == row.ts + row.dur
                 IN  CASE row.dur = Open -> [s EXCEPT !.incomplete = TRUE]
                       [] row.dur # Open /\ s.incomplete /\ ts > end ->
                            [stack |-> SubSeq(s.stack, 1, i), incomplete |-> FALSE]
                       [] row.dur # Open /\ ~s.incomplete /\ end <= ts ->
                            [s EXCEPT !.stack = SubSeq(@, 1, Len(@) - 1)]
                       [] OTHER -> s
    IN  [f EXCEPT !.stack[t] = seen[0].stack]

Matches(key, of) == key = AnyIndex \/ of = AnyIndex \/ key = of


\* The innermost open slice of the category and the name.
MatchingIncompleteSliceIndex(f, t, cat, name) ==
    LET stack == f.stack[t]
        open == {i \in DOMAIN stack : LET row == f.rows[stack[i].index] IN
                    /\ row.dur = Open
                    /\ Matches(cat, row.cat)
                    /\ Matches(name, row.name)}
    IN  IF open = {} THEN None ELSE CHOOSE i \in open : \A j \in open : j <= i

\* A new set of arguments, or more arguments for a set.
NewArgs(f, args) == [f EXCEPT !.sets = Append(@, args)]
AppendArgs(f, id, args) == [f EXCEPT !.sets[id] = @ \cup args]

\* Mutants of the next definition: the depth is that of the stack before it is
\* cut; the stack grows beyond MaxDepth.
StartSlice_DepthFirst(f, ts, t, dur, cat, name, args, given) ==
    LET depth == Len(f.stack[t])
        row == [ts |-> ts, dur |-> dur, tid |-> t, cat |-> cat, name |-> name,
                depth |-> depth,
                parent |-> IF depth = 0 THEN None ELSE f.stack[t][depth].index,
                argSet |-> None, mapped |-> None]
        g == CloseUnMatchedSlice(f, ts, t)
    IN  IF depth >= MaxDepth THEN g
        ELSE [g EXCEPT !.rows = Append(@, row),
                       !.stack[t] = Append(@, [index |-> Len(g.rows) + 1, argSet |-> None])]

StartSlice_TooDeep(f, ts, t, dur, cat, name, args, given) ==
    LET g == CloseUnMatchedSlice(f, ts, t)
        depth == Len(g.stack[t])
        row == [ts |-> ts, dur |-> dur, tid |-> t, cat |-> cat, name |-> name,
                depth |-> depth,
                parent |-> IF depth = 0 THEN None ELSE g.stack[t][depth].index,
                argSet |-> None, mapped |-> None]
    IN  IF depth > MaxDepth THEN g
        ELSE [g EXCEPT !.rows = Append(@, row),
                       !.stack[t] = Append(@, [index |-> Len(g.rows) + 1, argSet |-> None])]

\* StartSlice: args are the arguments of the slice and given the set they are
\* in already, if any.  A slice that is too deep gets a row but is forgotten.
StartSlice(f, ts, t, dur, cat, name, args, given) ==
    LET g == CloseUnMatchedSlice(f, ts, t)
        depth == Len(g.stack[t])
        index == Len(g.rows) + 1
        fresh == args # {} /\ given = None
        argSet == IF fresh THEN Len(g.sets) + 1 ELSE given
        row == [ts |-> ts, dur |-> dur, tid |-> t, cat |-> cat, name |-> name,
                depth |-> depth,
                parent |-> IF depth = 0 THEN None ELSE g.stack[t][depth].index,
                argSet |-> argSet,
                mapped |-> IF fresh THEN argSet ELSE None]
        h == IF fresh THEN NewArgs(g, args) ELSE g
    IN  IF depth >= MaxDepth
        THEN [g EXCEPT !.rows = Append(@, [row EXCEPT !.depth = 0, !.argSet = None,
                                                      !.mapped = None]),
                       !.ret = None]
        ELSE [h EXCEPT !.rows = Append(@, row),
                       !.stack[t] = Append(@, [index |-> index, argSet |-> argSet]),
                       !.ret = index]

\* The slice is over, and gets the arguments args.
EndRow(f, t, row, ts, args) ==
    LET ended == [f EXCEPT !.rows[row].dur = ts - f.rows[row].ts,
                           !.size[t] = @ + 1, !.ret = row]
        id == Len(f.sets) + 1
    IN  CASE args = {} -> ended
          [] args # {} /\ f.rows[row].mapped # None ->
                AppendArgs(ended, f.rows[row].mapped, args)
          [] OTHER -> [AppendArgs(NewArgs(ended, args), id, args) EXCEPT
                            !.rows[row].mapped = id, !.rows[row].argSet = id]

\* CompleteSlice: a slice that ends below another one stays on the stack.
CompleteSlice(f, ts, t, cat, name, args) ==
    LET g == CloseUnMatchedSlice(f, ts, t)
        i == MatchingIncompleteSliceIndex(g, t, cat, name)
        ended == EndRow(g, t, g.stack[t][i].index, ts, args)
    IN  CASE i = None -> g
          [] i # None /\ i = Len(g.stack[t]) ->
                [ended EXCEPT !.stack[t] = SubSeq(@, 1, i - 1)]
          [] OTHER -> ended

\* Mutant of the next definition: the stack does not learn of the new set.
WithArgs_StackUntold(f, t, cat, name, args) ==
    LET i == MatchingIncompleteSliceIndex(f, t, cat, name)
        row == f.stack[t][i].index
    IN  CASE i = None -> [f EXCEPT !.ret = None]
          [] i # None /\ f.stack[t][i].argSet # None ->
                [AppendArgs(f, f.stack[t][i].argSet, args) EXCEPT !.ret = row]
          [] OTHER -> [NewArgs(f, args) EXCEPT !.rows[row].mapped = Len(f.sets) + 1,
                                              !.ret = row]

\* AddArgs: more is known of the innermost open slice of the category and the
\* name.  The set is not yet that of the row; the caller may make it so.
WithArgs(f, t, cat, name, args) ==
    LET i == MatchingIncompleteSliceIndex(f, t, cat, name)
        row == f.stack[t][i].index
        id == Len(f.sets) + 1
    IN  CASE i = None -> [f EXCEPT !.ret = None]
          [] i # None /\ f.stack[t][i].argSet # None ->
                [AppendArgs(f, f.stack[t][i].argSet, args) EXCEPT !.ret = row]
          [] OTHER -> [NewArgs(f, args) EXCEPT !.rows[row].mapped = id,
                                              !.stack[t][i].argSet = id,
                                              !.ret = row]

-----------------------------------------------------------------------------
Event(ts) == ts >= now /\ now' = ts

\* BeginSlice and BeginBinder.
BeginSlice(ts, t, cat, name, args) ==
    Event(ts) /\ Become(StartSlice(Filter, ts, t, Open, cat, name, args, None))

\* AsyncBinder: a one-way call is an instant.  Where it is received its arguments
\* are in the set the sender's instant was given.
AsyncBinder(ts, t, cat, args, given) ==
    Event(ts) /\ Become(StartSlice(Filter, ts, t, 0, cat, AsyncName, args, given))

\* EndSlice and EndBinder.
EndSlice(ts, t, cat, name, args) ==
    Event(ts) /\ Become(CompleteSlice(Filter, ts, t, cat, name, args))

AddArgs(t, cat, name, args) ==
    Become(WithArgs(Filter, t, cat, name, args)) /\ UNCHANGED now

\* An event that is open is not started again.
StartAsyncSlice(ts, t, cookie, name) ==
    LET k == <<t, cookie, name>>
        row == [ts |-> ts, dur |-> Open, tid |-> t, cat |-> AnyIndex, name |-> name,
                depth |-> 0, parent |-> None, argSet |-> None, mapped |-> None]
    IN  /\ Event(ts)
        /\ Become(IF asyncEventMap_[k] # None THEN Filter
                  ELSE [Filter EXCEPT !.rows = Append(@, row),
                                      !.async[k] = Len(callstack) + 1])

\* Mutant of the next definition: the event is not forgotten.
FinishAsyncSlice_Kept(ts, t, cookie, name) ==
    LET k == <<t, cookie, name>>
    IN  /\ Event(ts)
        /\ Become(IF asyncEventMap_[k] = None THEN Filter
                  ELSE EndRow(Filter, t, asyncEventMap_[k], ts, {}))

FinishAsyncSlice(ts, t, cookie, name) ==
    LET k == <<t, cookie, name>>
    IN  /\ Event(ts)
        /\ Become(IF asyncEventMap_[k] = None THEN Filter
                  ELSE [EndRow(Filter, t, asyncEventMap_[k], ts, {}) EXCEPT
                            !.async[k] = None])

Instants == {i \in DOMAIN callstack : callstack[i].name = AsyncName}

\* The sets of the one-way calls that may be received.
SentSets == {callstack[i].argSet : i \in Instants} \ {None}

Next ==
    \/ \E ts \in Times, t \in Threads, cat \in Cats, name \in Names, args \in SUBSET Args :
            BeginSlice(ts, t, cat, name, args)
    \/ \E ts \in Times, t \in Threads, cat \in Cats, args \in SUBSET Args :
            AsyncBinder(ts, t, cat, args, None)
    \/ \E ts \in Times, t \in Threads, cat \in Cats, given \in SentSets :
            AsyncBinder(ts, t, cat, argSets[given], given)
    \/ \E ts \in Times, t \in Threads, cat \in Cats \cup {AnyIndex},
          name \in Names \cup {AnyIndex}, args \in SUBSET Args :
            EndSlice(ts, t, cat, name, args)
    \/ \E t \in Threads, cat \in Cats, name \in Names, args \in SUBSET Args :
            AddArgs(t, cat, name, args)
    \/ \E ts \in Times, t \in Threads, cookie \in Cookies, name \in Names :
            StartAsyncSlice(ts, t, cookie, name)
    \/ \E ts \in Times, t \in Threads, cookie \in Cookies, name \in Names :
            FinishAsyncSlice(ts, t, cookie, name)

Spec == Init /\ [][Next]_vars
-----------------------------------------------------------------------------
Rows == 0 .. Len(callstack)

\* The rows, the stacks and the sets of arguments are well formed, and what
\* refers to a row or to a set refers to one that exists.
TypeOK ==
    /\ callstack \in Seq([ts : Times, dur : Nat \cup {Open}, tid : Threads,
                          cat : Cats \cup {AnyIndex}, name : Names \cup {AsyncName},
                          depth : 0 .. MaxDepth - 1, parent : Rows,
                          argSet : 0 .. Len(argSets), mapped : 0 .. Len(argSets)])
    /\ sliceStackMap_ \in [Threads -> Seq([index : Rows \ {0}, argSet : 0 .. Len(argSets)])]
    /\ asyncEventMap_ \in [AsyncKeys -> Rows]
    /\ argSets \in Seq(SUBSET Args)
    /\ sliceSize_ \in [Threads -> Nat]
    /\ now \in Times \cup {0}

\* The stack of a thread is a chain of its rows: each one has the depth of its
\* place and, for parent, the row below it.
StackIsChain ==
    \A t \in Threads : \A i \in DOMAIN sliceStackMap_[t] :
        LET row == callstack[sliceStackMap_[t][i].index] IN
        /\ row.tid = t
        /\ row.depth = i - 1
        /\ row.parent = IF i = 1 THEN None ELSE sliceStackMap_[t][i - 1].index

\* A slice that has ended lies within its parent, if that has ended too,
\* whatever events are missing and in whatever order slices end.
ChildInsideParent ==
    \A i \in DOMAIN callstack : LET row == callstack[i] IN
        row.dur # Open /\ row.parent # None =>
            LET parent == callstack[row.parent] IN
            /\ parent.tid = row.tid
            /\ parent.ts <= row.ts
            /\ parent.dur # Open => row.ts + row.dur <= parent.ts + parent.dur


SetsOf(i) == {callstack[i].argSet, callstack[i].mapped} \ {None}

\* The three places that say which arguments a slice has agree: its entry on
\* the stack and sliceRowToArgsSetId_, as long as it is open, and, where it is
\* set, its row.  Only the instants at which one-way calls are sent and received
\* share a set of arguments: what is added to a slice, while it is open or at its
\* end, is said of no other slice.
ArgsAgree ==
    /\ \A t \in Threads : \A i \in DOMAIN sliceStackMap_[t] :
        LET entry == sliceStackMap_[t][i]
            row == callstack[entry.index]
        IN  row.dur = Open => entry.argSet = row.mapped
    /\ \A i \in DOMAIN callstack \ Instants : callstack[i].argSet \in {None, callstack[i].mapped}
    /\ \A i, j \in DOMAIN callstack :
        i # j /\ SetsOf(i) \cap SetsOf(j) # {} =>
            {i, j} \subseteq Instants /\ callstack[i].dur = 0 /\ callstack[j].dur = 0

\* An asynchronous event that is open has an open row, of its own.
AsyncRowIsOpen ==
    \A k \in AsyncKeys : asyncEventMap_[k] # None =>
        /\ LET row == callstack[asyncEventMap_[k]] IN
            row.dur = Open /\ row.tid = k[1] /\ row.name = k[3]
        /\ \A l \in AsyncKeys : asyncEventMap_[l] = asyncEventMap_[k] => l = k

\* A slice ends once: its duration is final.
DurationsFinal ==
    [][\A i \in DOMAIN callstack :
        callstack[i].dur # Open => callstack'[i].dur = callstack[i].dur]_vars
=============================================================================
