----------------------------- MODULE SliceTrace -----------------------------
(***************************************************************************)
(* SliceFilter fed by programs that call and return: what callstack says   *)
(* of a trace from which nothing is missing.                               *)
(*                                                                         *)
(* The programs are the traced ones, modelled from the events they leave.  *)
(* Tracing begins while they are inside calls it knows nothing of.         *)
(***************************************************************************)
EXTENDS SliceFilter

CONSTANTS
    MaxCalls,   \* how deep a program nests its calls
    MaxOuter    \* how many calls it is in when the trace begins

ASSUME CallsAssumption == MaxCalls \in Nat /\ MaxOuter \in Nat

\* How calls begin and end in the trace: a user mark, an item of a work queue
\* and the holding of the binder lock.
Kinds == {"user", "work", "lock"}
Cat(kind) == CASE kind = "user" -> AnyIndex [] kind = "work" -> "work" [] kind = "lock" -> "binder"
EndName(kind) == IF kind = "lock" THEN kind ELSE AnyIndex

VARIABLES
    outer,  \* per thread, the kinds of the calls the trace has not seen begin
    calls,  \* per thread, the numbers of the calls it is in
    log,    \* all calls the trace has seen begin
    clock

program == <<outer, calls, log, clock>>
tvars == <<vars, program>>

TInit ==
    /\ Init
    /\ outer \in [Threads -> UNION {[1 .. n -> Kinds] : n \in 0 .. MaxOuter}]
    /\ calls = [t \in Threads |-> <<>>]
    /\ log = <<>>
    /\ clock = 1

Tick ==
    /\ clock + 1 \in Times
    /\ clock' = clock + 1
    /\ UNCHANGED <<vars, outer, calls, log>>

Top(s) == s[Len(s)]
Pop(s) == SubSeq(s, 1, Len(s) - 1)

\* The call a thread makes now, that ends at once or not yet.
NewCall(t, kind, dur) ==
    [t |-> t, kind |-> kind, start |-> clock, dur |-> dur, depth |-> Len(calls[t]),
     parent |-> IF calls[t] = <<>> THEN None ELSE Top(calls[t])]

Call(t, kind) ==
    /\ Len(calls[t]) < MaxCalls
    /\ BeginSlice(clock, t, Cat(kind), kind, {})
    /\ log' = Append(log, NewCall(t, kind, Open))
    /\ calls' = [calls EXCEPT ![t] = Append(@, Len(log) + 1)]
    /\ UNCHANGED <<outer, clock>>

\* A one-way binder call.
Send(t) ==
    /\ Len(calls[t]) < MaxCalls
    /\ AsyncBinder(clock, t, "binder", {}, None)
    /\ log' = Append(log, NewCall(t, AsyncName, 0))
    /\ UNCHANGED <<outer, calls, clock>>

Return(t) ==
    LET no == Top(calls[t])
        kind == log[no].kind
    IN  /\ calls[t] # <<>>
        /\ EndSlice(clock, t, Cat(kind), EndName(kind), {})
        /\ log' = [log EXCEPT ![no].dur = clock - log[no].start]
        /\ calls' = [calls EXCEPT ![t] = Pop(@)]
        /\ UNCHANGED <<outer, clock>>

\* The return of a call that the trace has not seen begin.
ReturnOuter(t) ==
    /\ calls[t] = <<>> /\ outer[t] # <<>>
    /\ EndSlice(clock, t, Cat(Top(outer[t])), EndName(Top(outer[t])), {})
    /\ outer' = [outer EXCEPT ![t] = Pop(@)]
    /\ UNCHANGED <<calls, log, clock>>

TNext ==
    \/ Tick
    \/ \E t \in Threads : (\E kind \in Kinds : Call(t, kind)) \/ Send(t)
    \/ \E t \in Threads : Return(t) \/ ReturnOuter(t)

TSpec == TInit /\ [][TNext]_tvars
-----------------------------------------------------------------------------
\* Of a complete trace callstack tells the truth: each call has its row, with
\* the time it began, the time it took if it has returned, its depth and the
\* call it was made from.
CallsRecorded ==
    /\ Len(callstack) = Len(log)
    /\ \A i \in DOMAIN log : LET row == callstack[i] IN
        /\ row.tid = log[i].t /\ row.name = log[i].kind
        /\ row.ts = log[i].start /\ row.dur = log[i].dur
        /\ row.depth = log[i].depth /\ row.parent = log[i].parent
=============================================================================
