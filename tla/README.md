# Verification of trace_streamer

trace_streamer (`src/trace_streamer`) reads a trace of a device and turns it
into tables: who ran when, what called what, who waited for whom. The IDE
(`src/ide`) records traces over HDC, hands them to trace_streamer and draws the
tables. The code that decides what the tables say is in the *filters*: state
machines that are fed one event after the other, in the order of timestamps,
and that append to tables and go back to rows they have written. They are hard
to test because a trace may begin anywhere, may lack any event, and interleaves
the events of all threads and cpus; a wrong row looks like any other row.

This directory holds TLA+ models of the filters, translated from the source,
TLC configurations that check them, and proofs that the TLAPS proof system
checks. `PROJECT.json` maps each definition to the lines it models.

## The system

| Component | State | Operations | Hard behaviours | What should hold |
|---|---|---|---|---|
| ProcessFilter | process and thread rows, an index by pid, a multimap by tid | look up or create a thread or process, name them; completion at the end of a trace | tids reused by processes; threads met before their process; creation of a process creates its main thread, which looks up the process | indexes agree with rows; one row per thread; ids handed out keep their meaning |
| CpuFilter | `thread_state` and `sched_slice` rows, latest row per thread and per cpu, pending wakeups, blocked rows, binder transactions | switch, wakeup, blocked reason, binder events, end of the trace | lost switches; wakeups recorded late; migration seen in the wrong order; rows changed after they ended | the timeline of a thread and of a cpu is what happened |
| SliceFilter | `callstack` rows, a stack per thread, open asynchronous events, argument sets | begin, end, one-way, asynchronous start and finish, arguments | missing begins and ends; stack limit; arguments known at different times | slices nest; each ends once; only the two instants of a one-way call share arguments |
| BinderFilter | who sent what to whom, open replies, one-way calls | send, receive, reply, buffer, lock | nested callbacks; receipt writes to a slice of another thread | the two slices of a call name each other and have its times |
| IrqFilter | `irq` rows, the handler that runs per cpu and kind | entry and exit of interrupt, ipi, soft interrupt | missing entries and exits; an ipi stands for its interrupt | each interrupt is shown once |
| BytraceParser, HtraceParser | segments and what is left of the last one | split, parse, filter | line and packet boundaries against chunk boundaries | every line once, in order |
| FrameFilter, AppStartFilter, AnimationFilter, TaskPoolFilter | queues and maps of open frames, phases, tasks | begin and end marks | several open at once | pairing |
| ClockFilterEx | snapshots | conversion | boundaries | order is kept |
| NativeHookFilter | open allocations | alloc, free | addresses reused; resolved after the end of the trace | pairing |
| measures, statistics, symbols, storage, SQL tables | columns | append, look up | – | – |
| HTTP and RPC server | connections, one parser | receive, parse, query, reset | one thread per connection, partial requests | a request is answered from its own bytes |
| HDC client of the IDE | devices, channels, queues of messages | connect, send, receive, unbind | asynchronous reads and writes interleave | messages are whole and reach their channel |
| worker pools of the IDE | requests by id | post, answer | answers out of order | each request is answered once |

The parsers call the filters event by event. All filters name threads through
ProcessFilter. BinderFilter writes slices through SliceFilter, and CpuFilter
completes the tables of ProcessFilter when a trace has been read.

The order of work is: identity first, since every table refers to it; then the
scheduling, call stack, binder and interrupt tables, which are most of what the
IDE shows. The plan for what is left is at the end.

## Modules

| Module | Models | State and actions |
|---|---|---|
| `ProcessFilter` | `filter/process_filter.cpp`, completion in `CpuFilter::Finish` | the two tables and the two indexes; one action per public operation. The operations compute with the tables as one value, through the same nested steps as the code |
| `CpuFilter` | `filter/cpu_filter.cpp`, rows of `trace_stdtype.cpp` | the maps keep the code's names; one action per event handler, and the two ends of a trace: `FilterAllEvents` of the text and profiler parsers sorts `thread_state`, that of the raw parser does not, and the maps are cleared after either. Times wrap at `Word` as machine words do |
| `SchedTrace` | CpuFilter composed with the traced kernel | external: cpus that switch, migrate, wake and block threads, threads that send each other binder transactions, the true state at each past tick, and how each sender left its cpu before the receipt |
| `SliceFilter` | `filter/slice_filter.cpp`, `args_filter.cpp` | stacks, rows, argument sets; one action per handler |
| `SliceTrace` | SliceFilter composed with traced programs | external: threads that call and return, inside unknown calls when tracing begins |
| `BinderFilter` | `filter/binder_filter.cpp`, on top of SliceFilter | the code's maps; one action per branch of each handler; `stray` once a row that does not exist has been written to, after which nothing is known of the program |
| `BinderTrace` | BinderFilter composed with the binder driver | external: calls, one-way calls, callbacks, replies, buffers, locks |
| `IrqFilter` | `filter/irq_filter.cpp` and the handlers in `slice_filter.cpp` | one action per handler; events of soft interrupts whose vector has no name change nothing |
| `IrqTrace` | IrqFilter composed with processors | external: nesting handlers |
| `MC...` | instances for TLC | bounds and symmetry |
| `ProcessFilter_proofs` | theorems about ProcessFilter | |

A filter module is open: its events come with any data at any time that is not
earlier than the last, so it includes traces from which events are missing. A
`...Trace` module feeds the filter what a correct system emits and compares the
tables with what that system did. The environments are modelled from the events
the parsers hand to the filters.

Names, timestamps and arguments are reduced to small sets. Row numbers are
positions in sequences, from 1; 0 stands for the code's INVALID values. Text,
logging and statistics counters are left out.

## Runs

| Run | Checks | Bounds |
|---|---|---|
| `process_filter` | tables, indexes and results of ProcessFilter; rows keep their meaning; lookups are stable; completion makes new pids; a process and its main thread are renamed together | the idle id and two more: a tid may equal its pid, belong to another process, be shared by two. Six thread rows, three where anything has a name, as names do not influence lookups |
| `cpu_filter` | with loss: latest rows are latest and open, slices of a cpu tile, a row that awaits a blocked reason is a sleep of its thread, ended rows only become more specific | two cpus and threads. Three switches and two timestamps for preemption; two switches on one cpu at one time with uninterruptible sleeps (both kinds), or with binder calls. A switch from a thread to itself is a switch like any other to the filter and is included |
| `sched_trace` | without loss: `thread_state` and `sched_slice` tell the truth at every tick; the rows of a thread follow each other in the order of the table, while it is filled and after either end; a wait is shown as one for the receiver of a transaction exactly when it was | three ticks; two cpus, two threads, three switches, or one thread with all kinds of sleep and four switches, or two ticks with two binder transactions and three switches, or one transaction on one cpu and four switches |
| `sched_trace_early` | violated, see below | one cpu |
| `slice_filter` | with loss: the stack is a chain, children lie inside parents, counts are right, arguments agree and are shared by one-way instants only, asynchronous rows are open, durations are final | three slices, stack limit two; one thread, two categories and three timestamps, or two threads with asynchronous events and arguments |
| `slice_trace` | without loss: each call has its start, duration, depth and parent | three nested calls, up to two unknown outer ones |
| `binder_trace` | the slices of a call name each other and have its times; one-way calls are known; nothing is left over | two threads, three transactions with callbacks, one lock |
| `binder_full` | a receipt writes to a row that does not exist only when the stack of the receiver is full | a stack of one slice, three transactions |
| `binder_nested_reply`, `binder_buffers` | violated, see below | three and two transactions |
| `irq_trace` | with loss: maps agree, each ended interrupt is shown once, no row ends twice. Without loss: every handler is recorded | two cpus, four handlers with loss; one cpu, five handlers and four timestamps without |
| `irq_duration` | violated, see below | the same |

The bounds admit the cases that matter: a tid in two processes, a wakeup
between two switches, a migration, a slice that ends below an open one, a full
stack, a callback inside a call, an ipi inside and outside an interrupt. Where
a module has two kinds of trace whose features do not interact, each kind has
its own bound (`Plain` and `Short`; `Solitary`, `Interruptible` and `Calling`;
`Bare` and `Mixed`), so that each may be longer. `Calling` has two transactions
because a second one sent by the same thread takes the place of the first in
`iTidToTransaction_`, and a third would do no more. Only traces on one cpu are
finished in `sched_trace`, as the sort moves rows of different threads and keeps
those of one thread in order whatever cpu they are from.

Deadlock is not checked where a trace simply ends: the environments stop at
the last timestamp or at the bound. All properties are safety properties. The
filters are driven by their input and promise nothing about the future, so no
fairness is assumed anywhere.

Every property is accompanied by a mutant of the code's model that breaks it;
the mutants stand before the definitions they replace.

## Disagreements between code and documentation

* `sched_trace_early`: a wakeup traced while a thread is running for the first
  time is not discarded at its switch-out (`cpu_filter.cpp:76`) and later ends
  a row that began after it. The unsigned duration wraps around, while
  `doc/des_tables.md` calls it the time the thread stays in the state.
* `binder_nested_reply`: a thread remembers one caller (`binder_filter.cpp:79`
  and `:121`). A call served during another overwrites it, so the outer reply
  slice gets no destination, which the comment at line 80 says is added.
* `binder_buffers`: an allocation is put down to the innermost open transaction
  slice (`binder_filter.cpp:161`). That of a reply or one-way call sent while
  the thread waits for a call of its own goes to that call;
  `doc/des_binder.md:5` says the order of events identifies it.
* `irq_duration`: the row of an interrupt in which an ipi was handled gets the
  duration of the ipi, cut to 32 bits, in place of its own
  (`slice_filter.cpp:92`), while `doc/des_tables.md:610` calls it the time the
  interrupt took.

Another limit is visible in the models. A call nested deeper than 255 is not
pushed (`slice_filter.cpp:318`), so its end is taken for that of its caller;
`slice_trace` and `binder_trace` stay within the limit. If that call is one
received over binder, `ReceiveTraction` also writes its arguments to the row
INVALID_UINT32 (`binder_filter.cpp:142`). `WritesInRange` says that this is the
only way to such a write: the slice is always found otherwise. What the program
does after it is undefined, and the traces end there.

## Proofs

`ProcessFilter_proofs` proves, for every set of ids and of names and for traces
of any length, every property of `process_filter` except
`ProcessAndMainThreadRenamed`. The assumptions are those of the module: the
idle id is an id, and the empty name is a name (`IdsAssumption`,
`NamesAssumption`).

The argument: an operation is a composition of building blocks (new thread, new
process, set owner, main thread) that pass through states in which the
invariants do not hold, since a thread row exists before its process is looked
up and a process row before its main thread. `Core(s)` holds of every
intermediate value: rows refer to rows that exist, and indexes agree with rows.
`Partly(s, X, Y)` adds the other invariants, except that tids in `X` may have
an unowned thread beside others and pids in `Y` may lack a main thread. Each
building block has a lemma saying which exceptions it needs and leaves, and
that it `Grows` the tables: rows are added and owners set, nothing else. An
operation begins and ends with no exceptions, `Good(s)`.

The inductive invariant `IInv` is `Good` of the tables, `PidsUnique`, and that
the last result is right. `Single`, that a tid has at most one unowned thread,
is part of it because `UnownedAlone` with exceptions does not imply it, and the
lookup with a pid adopts whichever unowned thread it sees last. `Finish` has
lemmas of its own: the processes it makes are new because a process in the map
has its main thread, so an unowned thread cannot have the tid of a known pid.

The theorems are `Invariance`, `TypeCorrect`, `IndexesCorrect`,
`ThreadsUnique`, `MainThreads`, `ReturnsRight`, `RowsKept`, `LookupsStable` and
`FinishMakesNew`.

Only model-checked: all properties of the other modules. Out of the prover's
reach in general are liveness and what recursive definitions compute for every
input, such as the walk of `CloseUnMatchedSlice` over a stack of any height.

## Not modelled, and the plan

Left out of modelled components: the end time that exit events write to a
thread and the totals per process (CpuFilter), the `Clear` of the filters other
than CpuFilter (a reset makes new filters), statistics counters.

Not planned: decoding of binary records, SQL cursors, symbolization, generated
message code, drawing. They are mechanical, or their inputs are out of reach.

Planned, in this order:

1. the parsers: splitting of segments into lines and packets against an
   abstract specification that does not know of segments. The ring of segments
   shared by threads is compiled only with SUPPORTTHREAD, which no build file of
   the repository defines;
2. the HDC client: sessions, channels, the two-part write and the queue of
   promises, with liveness of a reader;
3. FrameFilter, TaskPoolFilter, AppStartFilter; connection handling of the HTTP
   server; worker pools;
4. proofs: `MapsAgree` and `ShownOnce` of IrqFilter, `LatestIsLatest` and
   `SlicesTile` of CpuFilter, `StackIsChain` of SliceFilter.
