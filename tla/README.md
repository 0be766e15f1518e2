# A TLA+ verification of tragach

tragach traces a running Firebird 5 server with eBPF. It consists of four
command-line tools, each a pair of a BPF object (kernel side) and a userspace
binary. This directory models the parts that carry state, checks them with TLC
and proves the central results with TLAPS. `PROJECT.json` maps every definition
to the source lines it models and lists components, runs, mutants, findings,
hazards and theorems.

## 1. Inventory

| Part | State | Operations | What is hard | What makes it correct |
|---|---|---|---|---|
| slowquery BPF (`tragach-slowquery/src/bpf/main.rs`) | five `*_IN_PROGRESS` hash maps keyed by tid, LRU maps `PREPARED_STATEMENTS` (by `DsqlRequest*`) and `OPEN_CURSORS` (by `DsqlCursor*`), per-CPU scratch, `EVENTS` ring | entry and exit probes of `DSQL_prepare`, `DSQL_execute`, `DSQL_execute_immediate`, `openCursor`, `fetchNext` | nested calls of a thread, addresses reused after unprobed frees, full maps, eviction, calls in progress while probes are attached, preemption between use and store of scratch | an event has the wall-clock and the statement of the call it reports, or says "unknown" |
| slowquery userspace (`tragach-slowquery/src/main.rs`) | probes attached, `id_table`, `next_id`, tokio readiness | attach ten probes, drain the ring, filter, number attachments, stop on Ctrl-C | edge-triggered wake-ups racing the drain, records committed out of order, signals during the drain | every committed record is read; output is the filtered ring in order; the user can stop it |
| SQL text (both) | one 512-byte buffer per statement | capture, truncate, show | length 0, NULs, the edge of the buffer | the shown text is the longest prefix that fits; truncation is flagged |
| attach BPF and userspace (`tragach-attach`) | LRU map `LIVE` (by `Attachment*`), `EVENTS` ring | entry probes of the `Attachment` constructor and `release_attachment`; loop as in slowquery | address reuse, destruction on unprobed paths, double release, eviction, also between `LIVE.get` and the copy | a Closed event has its own attachment's lifetime, once |
| iowait BPF (`tragach-iowait/src/bpf/main.rs`) | `START` (by tid), `STACKS`, `BUCKETS` (by tid and stack id) | `sched_switch`, `sched_wakeup` | tid reuse, shared stack slots, slots emptied while the flush copies them, full maps | what is added is the sleep that ended, under its stack |
| iowait flush (`tragach-iowait/src/main.rs`) | snapshot of `BUCKETS` | read all, delete all, drop idle, report | reading and deleting while wake-ups update and reorder the map's hash chains | time is counted once |
| pageio (`tragach-pageio`) | `FETCH_IN_PROGRESS`, `BLOCK_INFLIGHT`, per-CPU `COUNTERS`, previous snapshot | fetch entry/exit, block issue/complete, window delta | requests at one sector, missed issues and completions, tid reuse, preempted and interrupted counter updates, torn snapshots, wrap-around, maxima | a wait is that of its own call or request; windows add up to what was counted |
| symbols, kallsyms, classify | none | pure lookups | duplicates, `.cold` clones, boundaries | result equals a reference definition |
| build scripts, xtask | none | build | - | - |

The tools do not talk to one another. Inside a tool, the BPF side and userspace
share only maps: the ring (slowquery, attach), a hash map that userspace drains
(iowait), or per-CPU counters (pageio).

## 2. Modules

| Module | Models | State and actions |
|---|---|---|
| `BpfMaps` | kernel hash and LRU maps, as the programs use them (external) | operators `Put`, `Del`, `HasRoom`, `LruInserts`, `SaturatingSub` |
| `SlowQuery` | the slowquery BPF programs and the attach order | a stack of probed calls per thread; one action per call (entry probe) and per return (exit probe), per unprobed free, and per attach step |
| `SqlText` | what is captured and shown of one SQL argument (operators) | - |
| `StatementCapture` | the probe bodies that handle SQL text, in steps between which another thread on the CPU, or another CPU, may run | a job per thread; the two per-CPU scratch buffers; map elements as memory that is freed and reused while pointers to it are held |
| `EventLoop` | the ring's reserve/commit/notify protocol, epoll and tokio readiness, `run_event_loop`, Ctrl-C | one action per step that another thread can interleave with |
| `AttachReports` | what tragach-attach promises (abstract) | attachments alive, a log that may miss events |
| `AttachLifecycle` | the attach BPF programs and the attach order | one action per probe, two for the release probe (up to `LIVE.get`, then the copy and the rest), unprobed destruction, event consumption |
| `SymbolResolve` | `symbols::resolve` and `check_unique` (operators) | - |
| `AttachTool` | the whole of tragach-attach: path checks, reading, parsing and scanning the debug file, loading and attaching with their failures, the loop's filter | extends `AttachLifecycle`: its actions become steps of the tool, next to one action per start-up step |
| `Classify` | `kallsyms.rs`, `classify.rs` (operators) | - |
| `PageIo` | pageio's probes and tracepoints, `snapshot_counters`, `delta_counters` | one action per program, word by word where something can come between two words; threads that end and tids that go to other threads; the flush reads a word per step |
| `OffCpu` | iowait's tracepoints and `flush_window` | one action per scheduler event; the wake-up handler in two steps (up to `BUCKETS.get`, then `insert`), the flush step by step: `get_next_key`, the value, the deletes, the idle filter, and per key the lookup of its stack and the total of its reason |
| `MCSlowQuery`, `MCStatementCapture`, `MCAttachTool`, `MCOffCpu`, `MCPageIo` | values of the constants for TLC | - |
| `SlowQueryProofs`, `StatementCaptureProofs`, `EventLoopProofs`, `AttachLifecycleProofs`, `AttachToolProofs`, `OffCpuProofs`, `PageIoProofs`, `PageIoFlushProofs` | theorems | - |

Data is abstracted to what the properties distinguish. In `SlowQuery` a statement
stands for the captured pair of attachment and text, `Unknown` for the zeros
emitted when there is no prepared statement; the clock counts calls and returns,
so that two instants differ whenever the code could see them differ. History
(what an event is really about, which pointers were created unrecorded) is kept
in the ghost fields `truth`, `kept`, `reports` and the variable `missed`; in
`OffCpu` in `stale`, `misled`, `raced`, `rewalked`, `earned`, `shown`, `dropped` and
`by_reason` (what was reported of each bucket under each reason); in
`StatementCapture` in the fields `truth` and `clean`; in `PageIo` in `truth`,
`atStart`, `longest`, `ofWindow`, `reported`, `preempted`, `inherited` and `doubtful`;
in `AttachTool` in `announced`, `missed` and `mistaken`. No guard of the system depends on history, except for one named
bound of `PageIo` (`Account`: a word grows by less than 2^64 between two flushes). Definitions preceded by a comment starting with
`Mutant` are deliberately wrong variants used to show that a property can fail.

Assumptions about what surrounds the code:

- One process is traced (SuperServer, as README.md and SPECS.md say).
- In `SlowQuery` a probe body is atomic with respect to other probe bodies: the
  tid-keyed maps are only touched by their own thread, and the two LRU maps by
  single operations of the kernel. What is not atomic, the way of the SQL text
  through scratch buffers and map elements, is taken apart in
  `StatementCapture`: a uprobe program stays on its CPU but may be preempted
  there by a thread whose probe uses the same buffer; a removed or evicted
  element may be refilled while a program on another CPU holds a pointer to it.
  `AttachLifecycle` takes `LIVE.get` and the copy apart for the same reason. For
  `OPEN_CURSORS` (slowquery `bpf/main.rs:393-394`) the two are one step: the same
  race would give a cursor's event the start and request of the cursor that
  evicted it, which `ExactTiming` and `OwnStatement` do not count in.
- `release_attachment` is not run for one attachment by two threads at once.
- In `PageIo` a uprobe program may be preempted or interrupted on its CPU
  between any load and store of a counter; a tracepoint program is not
  preempted, and one that would nest in another one on its CPU is not run, so an
  issue or a completion may go unseen. The flush copies `COUNTERS` word by word.
  A thread may end inside a call, and its tid may go to a thread of any process
  that maps the library.
- A probed call returns (no C++ exception unwinds past it), and insertion into
  an LRU map succeeds. The null checks in the probes guard against arguments
  Firebird never passes.
- An exit probe fires only for calls entered after it was attached, because the
  kernel plants the return trampoline at entry (`armed`).
- LRU eviction may remove any set of other entries on any insert: the kernel
  evicts in batches and before the map is full.
- The ring wakes its poller only when the committed record is at the consumer
  position; the fd is edge-triggered; `clear_ready` does not clear a readiness
  set after the guard was taken; a signal broadcast reaches only futures that
  have been polled before.
- In `OffCpu` the wake-up handler of a thread is serialised with its switches
  by the kernel. The iteration over `BUCKETS` goes chain by chain, in an order
  left open; an insert moves its key to the head of its chain, so if the
  iterator stands on that key, it goes through the keys of the chain it has met
  again. A lookup in `STACKS` empties the slot while it copies and restores it
  over whatever was stored there meanwhile. `STACKS` never runs out of elements;
  the entries that one key has in a snapshot are looked up together; a get of
  `START` or `BUCKETS` and the copy of its value are one step (a bucket whose
  element is freed in between is one the drain has raced with in any case).
- `/proc/kallsyms` lists the kernel's functions (`KernelAssumption` of `OffCpu`): an
  address is in the function that starts nearest below it, or in none.
- Records are never short, so `decode_event` does not fail and `dropped` stays 0.

## 3. Runs

| Run | Bounds | Shows |
|---|---|---|
| `slowquery` | 2 requests, 2 statements, depth 2, every map and the ring of capacity 1; 2 threads with prepare, execute and immediate, all probes attached, 8 calls and returns; or 1 thread with prepare, execute and 2 cursors (openCursor, fetchNext), probes attached during the run, 10 calls and returns | `TypeOK`, `ExactTiming`, `OwnStatement`, `EntryPairing`, `NoLeak`, `CursorReportedOnce`, `MapsTellTruth`, `EventUnlessClobbered` |
| `slowquery_nested` (violation) | 1 thread, 2 requests | `OneEventPerExecute` fails |
| `slowquery_foreign` (violation) | 1 request, probes attached during the run | `StatementNeverForeign` fails |
| `capture` | buffer of 3, up to 5 bytes; 2 threads making 3 calls on 2 CPUs, 2 requests, 1 LRU element; or 1 thread making 2 calls with every kind of argument | `TypeOK`, `WholeEvent`, `ShownIsLongestPrefix`, `FlagIsExactForGivenLength` |
| `capture_flag` (violation) | the same | `TruncatedIffLonger` fails |
| `eventloop` | 3 records, ring of 2, 2 attachments and none, durations below and at the threshold | `TypeOK`, `NoLostWakeup`, `OutputIsFilteredPrefix`, `EveryRecordRead`, `PersistentCtrlCStops` |
| `eventloop_ctrlc` (violation) | 1 record | `CtrlCStops` fails |
| `attach` | every debug file of up to 4 symbols of 7 kinds, 2 addresses, `LIVE` of 1, ring of 2, 6 probed calls, `--min-duration` 2 | `TypeOK`, `LiveIsCurrent`, `ResolvesExactly`, `ClosedFollowsOpened`, and the refinement `ReportsLifetimes` |
| `offcpu` | 2 tids, 2 stacks in one slot, keys with the same stack id in one chain, `START` of 1, `BUCKETS` of 2, 2 windows, idle filter on, 6 events, 4 kernel symbols | `TypeOK`, `StartIsCurrent`, `ExactSleep`, `UnracedTimeCountedOnce`, `ReportedUnderCause` |
| `offcpu_reuse` (violation) | 1 tid | `OnlyTracedThreads` fails |
| `pageio` | both maps of 1, 4 readings of the clock; 2 of 3 threads, one of another process, with every tid reused at any time; or 2 of 3 requests, one of another process, over 2 sectors and 2 CPUs; or 2 windows of 2 threads' fetches or of one request's, on 2 CPUs, words modulo 8 | `TypeOK`, `ExactFetch`, `OwnWait`, `InflightIsCurrent`, `WindowsAddUp`, `MaxNeverShort` |
| `pageio_max` (violation) | 1 CPU, 1 request at a time, 2 windows | `MaxIsOfWindow` fails |

Where a run has alternatives, a constant of the model (`Workloads` of `SlowQuery` and
`PageIo`, `Scenarios` of `StatementCapture`) lists them and `Init` chooses one; the
theorems hold for any set of them. Each passing run takes at most about two
minutes.

Why the bounds are enough: two threads and nesting depth two are what every
confusion of entries needs (one call to be confused with another, on the same or
another thread; the behaviours with late probes and cursors leave out the second
thread, which matters only through full maps); two addresses per kind allow one
to be reused while the other is live; capacity one makes every insert of a second
key fail or evict; the clock bound leaves room for prepare, free, prepare again
and execute, or open, fetch to EOF, fetch again. Three records in a ring of two
give a full ring and a head committed after its successor. Two windows are
needed to see time that moves from one into the next. Three calls are prepare,
an execute of it, and a prepare that takes the element under that execute; a
buffer of three has a statement shorter, as long and longer than it, with the
NUL before and behind the edge. In `offcpu`, two tids with one
stack id are two keys of one chain, the least that lets the iterator meet a key
again. In `pageio`, words modulo 8 wrap within two windows of requests
of five bytes; fetches and block requests share no word of `COUNTERS`, so a
behaviour has one kind or the other; and the flush sees nothing of who has a
tid or a sector, so a behaviour asks one question or the other. Every property of the passing
runs other than the two liveness properties is moreover proved without these
bounds (section 4).

What the exceptions in the properties mean: `WholeEvent` excepts exactly the
two races the code has (a probe preempted by another one that uses the same
scratch buffer, an element evicted and refilled under a reader) and shows that
there is no third one: migration between CPUs, failed prepares, reuse of
addresses and of elements freed by `remove` do not mix statements, because
`try_prepare_exit` and `try_immediate_exit` remove the entry only after their
last read of it. `WindowsAddUp` and `MaxNeverShort` except the engine words once two exit
probes overlapped on a CPU (an update may be lost then, and never comes back);
the flush itself loses nothing. A maximum is of all time; `MaxNeverShort` says
that it is not shorter than a wait of the window it is shown for, and that it
need not be of that window at all is finding 6. `ExactFetch` excepts the first
call under a tid that was given to a new thread while it still had an entry,
if the entry probe did not replace that entry: the exit probe does not check
the process, so such a call is counted although it may be another process's
(`bpf/main.rs:89`: "Only track calls from the target Firebird process").
`UnracedTimeCountedOnce` excepts a bucket that a wake-up changed between the
flush's read and its delete, and from "once" also a bucket whose chain the
iterator was made to go through again: it is then counted once too often, but
nothing of it is lost. `StartIsCurrent` and `ExactSleep` except, besides stale
entries (finding 5), the stack id of a thread that went to sleep while the flush
copied another stack out of the slot. `ReportsLifetimes` lets the Closed event
of an attachment have another duration if its entry was evicted between
`LIVE.get` and the copy, and `ClosedFollowsOpened` excepts that event.
`OwnWait` and `InflightIsCurrent` except sectors
where two requests overlapped or an issue or completion was missed, until the next issue
there.

Where the documents' words and the code differ by one, a passing property has the
code's side, says so in its comment, and must not be read as the documents':
`FlagIsExactForGivenLength` (the flag says that the text was cut, also at exactly
512 bytes; the documents' claim is finding 3), `ShownIsLongestPrefix` (511 bytes
are shown, where README.md:122 has "up to 512"), `OutputIsFilteredPrefix` (a
statement that took exactly `--threshold` is printed; SPECS.md:116 and
`main.rs:23` say it must exceed it), and `IsIdle` in `OffCpu` (a bucket of exactly
`--idle-threshold` is dropped; SPECS.md:157 and `main.rs:44` say it must exceed it).
The last two and the uncaught process of `ExactFetch` are plain from one
comparison, or one missing one, and have no violation run of their own.

Deadlock checking is off where the clock bound ends a behaviour (all runs except
`EventLoop`, which ends in an explicit `Done`).

Fairness (`EventLoop` only): a BPF program that reserved a record commits it and
does its wake-up check; tokio's driver keeps polling and broadcasting; the
loop's task is scheduled, and its `select!` eventually polls `ctrl_c()` and takes
a ready stop branch. Nothing is assumed of clients, of the user pressing Ctrl-C
or of stdout failing. Standard output is assumed not to block for ever: the loop
writes to it synchronously. `PersistentCtrlCStops` is about finitely many
records: with an endless stream, `select!` decides at random between the two
ready branches.

## 4. What is proved

Every invariant, action property and refinement that a passing run checks is also
a theorem, for every value of the constants that the named assumptions allow:
any number of threads, CPUs, requests, addresses, records and windows, any map,
ring and word sizes, behaviours of any length. Each inductive invariant was
checked by TLC on the instance of its run before it was proved. A proof has one
lemma per action, or per group of actions that do the same to the invariant.

`SlowQueryProofs`: `TypeOK`, `EntryPairing`, `MapsTellTruth`, `ExactTiming`,
`OwnStatement`, `CursorReportedOnce`, `NoLeak` and the action property
`EventUnlessClobbered`. The only assumptions are `ConstantsAssumption` (disjoint
kinds of addresses, natural bounds). The invariant `Inv` adds that the pointer a
call works on stays live until it returns, that times on stacks, in maps and at
live cursors are not in the future (so that `saturating_sub` is a subtraction),
that an event in the ring is consistent with its history, and that a cursor
already reported is no longer in `OPEN_CURSORS`. The argument for the heart of it,
`EntryPairing`: an entry probe stores under the tid and shadows same-function
frames below; the exit probe of the innermost such call removes the entry; so
the outer call, shadowed, finds none. A call that was armed but not stored found
the map full, hence without its tid. `NoLeak` follows since with a quiet start
every call is armed, and an armed return removes the thread's entry.

`StatementCaptureProofs`: `TypeOK`, `WholeEvent`, `ShownIsLongestPrefix`,
`FlagIsExactForGivenLength`. The invariant says what every undisturbed job finds in
each buffer and element it uses, step by step (`Undisturbed`), that a thread has
an entry exactly while its call or the exit probe holding a pointer to it is
going on (`Entered`, the reason why a freed element is not read), and that no two
requests share an element.

`EventLoopProofs`: `NoLostWakeup` is, with the typing of the ring, inductive as it
stands: a commit leaves its check to do, the check of the head record puts the
fd on the ready list, the driver turns that into a fresh readiness, and
`clear_ready` spares a fresh one. `TypeOK` and `OutputIsFilteredPrefix` rest on a
second invariant: `id_table` holds exactly the attachments of the records shown,
`next_id` is their number, and each id is the number of attachments known at the
first record of its own; the reference numbering, a `CHOOSE` over all records,
is then computed from it.

`AttachLifecycleProofs`: `TypeOK`, `LiveIsCurrent`, and that the detailed
specification implements `AttachReports` (every step is an abstract step or a
stutter; `ReleaseGet` stutters). The invariant adds that open times are not in the
future, and that a release probe which has found its entry is of an attachment
not yet reported, whose own start is all it can copy as long as the entry is in
`LIVE` (`FoundIsOwn`).

`AttachToolProofs`: the whole tool implements the tracer (`ToolSpec => Spec`:
every step of `AttachTool` is a step of `AttachLifecycle` or leaves its variables
alone), hence `TypeOK`, `LiveIsCurrent` and the refinement `ReportsLifetimes` hold
of it too, whatever debug file it is given and wherever its start-up fails.
`ResolvesExactly`: the offsets are those of the symbols scanned so far, and an
ambiguity once met stays. `ClosedFollowsOpened`: for every entry of `LIVE` and
every Closed record in the ring, the Opened record is announced, lost, or ahead
in the ring, or the Closed record was copied after an eviction.

`OffCpuProofs`: `TypeOK`, `StartIsCurrent`, `ExactSleep`, `UnracedTimeCountedOnce`,
`ReportedUnderCause`. The invariant is about `Settled`, the slots of `STACKS` as they
are when no lookup has emptied one: there a stack id keeps leading to its stack.
It adds that recorded times have passed, that a wake-up between `get` and
`insert` is about to add to what its bucket has now, unless the drain came
between, that the iterator meets a key again only in a chain it was sent back
in, and that the report copies the stack of the very key it is at. The chains
are any function of the keys. `LookupRight` is about the algorithm alone:
`Kallsyms::lookup` on the sorted copy names the function of every address, in
whatever order the file lists them; it needs `KernelAssumption`.

`PageIoProofs`: `TypeOK`, `ExactFetch`, `OwnWait`, `InflightIsCurrent`. The invariant:
an entry the exit probe will find, and whose tid has not changed hands since,
has the start of the call it returns from and is of a thread of the target; and
an entry beyond doubt is of the only request at its sector.

`PageIoFlushProofs`: `WindowsAddUp` and `MaxNeverShort`. `FlushInv` gives each word a
witness: what each prefix of the CPUs has really added (`P`), of which `COUNTERS`
holds the parts modulo `WORD`, and the unwrapped sum `S` of the words copied so
far. What `S` lacks was added after the flush began, or is on CPUs not copied
yet; so at the end `S` lies between the two totals, and `wrapping_sub` of two
wrapped numbers less than `WORD` apart is their difference (`ModDelta`). For a
maximum, until a word as large as the one the flush began with is copied, one
remains to be copied. The engine words need in addition that a probe alone on
its CPU stores what it loaded, updated (`Alone`). The sums over CPUs are handled
through the witness `P`, without induction; where a least element is needed
(`OffCpuProofs`), it comes from the well-foundedness of the naturals.

Only model-checked: the liveness properties `EveryRecordRead` and
`PersistentCtrlCStops` (fairness and `ENABLED` are beyond the prover), and the six
violations, which are counterexamples.

## 5. Findings

1. `slowquery_nested`: SPECS.md promises one event per `DSQL_execute` call; with
   nesting, only the innermost call of a thread is reported.
2. `slowquery_foreign`: an execute whose prepare was not seen is said to show as
   unknown; with a reused address it shows the previous statement.
3. `capture_flag`: `truncated` does not mean "exceeded 512 bytes". A statement of
   exactly 512 bytes is cut to 511 and flagged (the trace TLC shows); and a longer
   one passed with length 0 is cut unflagged (what remains when the lengths of 512
   are taken out of `Cases`).
4. `eventloop_ctrlc`: a single Ctrl-C during a drain is swallowed.
5. `offcpu_reuse`: a tid reused by another process is accounted to Firebird.
6. `pageio_max`: the maximum of a window may be of an earlier one, although the
   counters are called per-window.

## 6. Not modelled, and the plan

Not modelled:

- formatting of output, the choice of top stacks, averages and ratios (pure
  functions of numbers whose correctness is checked). One consequence to know:
  pageio's human output calls a window without new fetches and requests
  inactive even if requests completed in it;
- `RLIMIT_MEMLOCK`, argument parsing, `pgrep`, build scripts and xtask (no state of
  the running system);
- the timer loops of pageio and iowait: `tokio::time::interval` makes up for
  late ticks in a burst, so windows may be shorter or longer than the
  `window_ms` they are labelled with; their `select!` has the Ctrl-C behaviour of
  `EventLoop` (finding 4);
- that small ids tell attachments apart when Firebird reuses an `Attachment*`: no
  record of slowquery's ring says that an attachment ended.

Left: what the two liveness properties rest on can be proved only step by step
(which action ends each phase of the loop), not as `~>` formulas; they stay with
TLC.
