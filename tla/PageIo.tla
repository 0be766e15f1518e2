------------------------------- MODULE PageIo -------------------------------
(***************************************************************************)
(* tragach-pageio: the uprobes on CCH_fetch_page, the block_rq_issue and   *)
(* block_rq_complete tracepoints, the per-CPU COUNTERS they all update and *)
(* the userspace flush that reads COUNTERS while they are being updated.   *)
(*                                                                         *)
(* Kernel facts the programs depend on: a uprobe program stays on its CPU  *)
(* but may be preempted there, by a thread whose probe updates the same    *)
(* counters, or be interrupted by a tracepoint program; a tracepoint       *)
(* program is not preempted, and one that would nest in another one on its *)
(* CPU is skipped; the flush copies COUNTERS word by word.                 *)
(*                                                                         *)
(* FetchInfo.page_num is stored and never read, and is left out.           *)
(* CCH_fetch_page does not call itself.  Threads of any process that maps  *)
(* libEngine13.so hit the probes, they end (also in the middle of a call,  *)
(* when their process is killed) and their tids are given to others.       *)
(***************************************************************************)
EXTENDS Integers, Sequences, FiniteSets, BpfMaps

CONSTANTS Tids,
          Target,        \* requests issued by the process in TARGET_TGID, and the
                         \* tids its threads have at the start
          Reqs,          \* block requests
          Keys,          \* (dev, sector) pairs
          Workloads,     \* bound: in one behaviour, the threads, requests and sectors
                         \* that take part (who), their CPUs, the tids that are reused, the size of a
                         \* request (bytes) and the number of flushes (windows)
          NCpu,
          WORD,          \* 2^64: counters wrap
          FetchMax,      \* 8192: entries of FETCH_IN_PROGRESS
          InflightMax,   \* 16384: entries of BLOCK_INFLIGHT
          MaxClock       \* bound: the times a program reads the clock

ASSUME PageIoAssumption ==
    /\ Target \subseteq Tids \cup Reqs
    /\ \A w \in Workloads :
          /\ w.who \subseteq Tids \cup Reqs \cup Keys /\ w.cpus \subseteq 1..NCpu
          /\ w.reused \subseteq Tids /\ w.bytes \in Nat /\ w.windows \in Nat
    /\ NCpu \in Nat \ {0}
    /\ WORD \in Nat /\ MaxClock < WORD
    /\ FetchMax \in Nat /\ InflightMax \in Nat
    /\ MaxClock \in Nat

Cpus == 1..NCpu

(* PageIoCounters, in the order of its words.                              *)
Layout == <<"engine_count", "engine_total_ns", "engine_max_ns", "block_count",
            "block_total_bytes", "block_total_wait_ns", "block_max_wait_ns">>
Words == Len(Layout)
EngineFields == {Layout[i] : i \in 1..3}
Fields == {Layout[i] : i \in 1..Words}
MaxFields == {"engine_max_ns", "block_max_wait_ns"}
Zero == [f \in Fields |-> 0]
NoneYet == [f \in MaxFields |-> 0]

VARIABLES
    active,              \* the workload of this behaviour
    attached,            \* probes attached, in main's order: 0..4
    clock,               \* bpf_ktime_get_ns
    ours,                \* tids that threads of the target process have now
    fetch,               \* Firebird and others: tid -> the CCH_fetch_page call it is in
    device,              \* requests the block device works on
    FETCH_IN_PROGRESS, BLOCK_INFLIGHT, COUNTERS,
    probe,               \* tid -> its try_cch_exit, while it updates COUNTERS
    irq,                 \* cpu -> what its tracepoint program still has to add
    pos,                 \* words the flush has copied, plus 1; 0: no flush
    snapshot, prev_snapshot,
    windows,
    truth,               \* history: what COUNTERS should add up to, unwrapped
    atStart,             \* history: truth when the flush in progress began
    longest,             \* history: longest fetch and wait counted since a flush last began
    ofWindow,            \* history: longest counted between the flush before and this one
    reported,            \* history: sum of the deltas (for a maximum, the last)
    preempted,           \* history: two try_cch_exit overlapped on a CPU
    inherited,           \* history: tids given to a new thread while they had an entry
    doubtful             \* history: keys whose entry may not be of the request there

traced == <<clock, fetch, device>>
inflight == <<FETCH_IN_PROGRESS, BLOCK_INFLIGHT>>
tids == <<ours, inherited>>
updating == <<COUNTERS, truth, longest>>
flushing == <<pos, snapshot, prev_snapshot, windows, atStart, ofWindow, reported>>
vars == <<active, attached, traced, tids, inflight, updating, probe, irq, flushing, preempted,
          doubtful>>

Init ==
    /\ active \in Workloads
    /\ attached = 0
    /\ clock = 0
    /\ ours = Target \cap Tids
    /\ fetch = NoEntries /\ device = NoEntries
    /\ FETCH_IN_PROGRESS = NoEntries /\ BLOCK_INFLIGHT = NoEntries
    /\ COUNTERS = [c \in Cpus |-> Zero]
    /\ probe = NoEntries
    /\ irq = NoEntries
    /\ pos = 0 /\ snapshot = Zero /\ prev_snapshot = Zero /\ windows = 0
    /\ truth = Zero /\ atStart = Zero /\ reported = Zero
    /\ longest = NoneYet /\ ofWindow = NoneYet
    /\ preempted = FALSE /\ inherited = {} /\ doubtful = {}

(* main: TARGET_TGID, then the entry and exit uprobes, issue and complete. *)
AttachNext ==
    /\ attached < 4
    /\ attached' = attached + 1
    /\ UNCHANGED <<active, traced, tids, inflight, updating, probe, irq, flushing, preempted, doubtful>>

(* bpf_ktime_get_ns: no two programs read the same time.                   *)
Tick == clock < MaxClock /\ clock' = clock + 1

-----------------------------------------------------------------------------
(* Updating a counter.                                                     *)

MaxOf(a, b) == IF a >= b THEN a ELSE b

(* What a program stores for a word it read as old.                        *)
Updated(f, old, x) == IF f \in MaxFields THEN MaxOf(old, x) ELSE (old + x) % WORD

(* A maximum that is not exceeded is not stored.                           *)
StoreWord(c, f, old, x) ==
    COUNTERS' = IF f \in MaxFields /\ x <= old THEN COUNTERS
                ELSE [COUNTERS EXCEPT ![c][f] = Updated(f, old, x)]

(* Bound: between two flushes a word grows by less than WORD (2^64 ns are  *)
(* 584 years).                                                             *)
Account(f, x) ==
    /\ f \notin MaxFields => truth[f] + x - reported[f] < WORD
    /\ truth' = [truth EXCEPT ![f] = IF f \in MaxFields THEN MaxOf(@, x) ELSE @ + x]
    /\ longest' = IF f \in MaxFields THEN [longest EXCEPT ![f] = MaxOf(@, x)] ELSE longest

(* A tracepoint program: nothing else on its CPU writes the block words.   *)
Bump(c, f, x) == StoreWord(c, f, COUNTERS[c][f], x) /\ Account(f, x)

-----------------------------------------------------------------------------
(* CCH_fetch_page                                                          *)

(* Mutant: inserted with BPF_NOEXIST.                                      *)
RememberOnce(map, key, max) == IF key \in DOMAIN map THEN map ELSE
                               IF HasRoom(map, key, max) THEN Put(map, key, clock) ELSE map

(* Mutant: a failed insert is taken for stored.                            *)
RememberAlways(map, key, max) == Put(map, key, clock)

(* insert of the time under the key; it fails when the map is full.        *)
Remember(map, key, max) == IF HasRoom(map, key, max) THEN Put(map, key, clock) ELSE map

(* A call that only the entry probe sees leaves its entry behind.          *)
try_cch_entry(t) ==
    /\ t \notin DOMAIN fetch /\ t \notin DOMAIN probe
    /\ fetch' = Put(fetch, t, [since |-> clock, armed |-> attached >= 2])
    /\ IF attached >= 1 /\ t \in ours
       THEN /\ Tick
            /\ FETCH_IN_PROGRESS' = Remember(FETCH_IN_PROGRESS, t, FetchMax)
            /\ inherited' = inherited \ {t}
       ELSE UNCHANGED <<clock, FETCH_IN_PROGRESS, inherited>>
    /\ UNCHANGED <<active, attached, device, ours, BLOCK_INFLIGHT, updating, probe, irq, flushing,
                   preempted, doubtful>>

(* Up to the counters: the exit probe finds and removes the entry.  It is  *)
(* not filtered by process.                                                *)
try_cch_exit(t, c) ==
    /\ t \in DOMAIN fetch
    /\ c \notin DOMAIN irq
    /\ fetch' = Del(fetch, t)
    /\ IF fetch[t].armed /\ t \in DOMAIN FETCH_IN_PROGRESS
       THEN /\ Tick
            /\ FETCH_IN_PROGRESS' = Del(FETCH_IN_PROGRESS, t)
            /\ probe' = Put(probe, t,
                 [cpu |-> c, word |-> 1, reg |-> -1,
                  duration_ns |-> SaturatingSub(clock, FETCH_IN_PROGRESS[t]),
                  since |-> fetch[t].since, now |-> clock, sure |-> t \notin inherited])
            /\ inherited' = inherited \ {t}
            /\ preempted' = (preempted \/ \E u \in DOMAIN probe : probe[u].cpu = c)
       ELSE UNCHANGED <<clock, FETCH_IN_PROGRESS, probe, inherited, preempted>>
    /\ UNCHANGED <<active, attached, device, ours, BLOCK_INFLIGHT, updating, irq, flushing, doubtful>>

(* The thread ends, perhaps killed inside the call, and a new one, of the  *)
(* target process or not, gets its tid.                                    *)
ReuseTid(t, target) ==
    /\ t \notin DOMAIN probe
    /\ fetch' = Del(fetch, t)
    /\ ours' = IF target THEN ours \cup {t} ELSE ours \ {t}
    /\ inherited' = IF t \in DOMAIN FETCH_IN_PROGRESS THEN inherited \cup {t} ELSE inherited
    /\ UNCHANGED <<active, attached, clock, device, inflight, updating, probe, irq, flushing,
                   preempted, doubtful>>

(* engine_count, engine_total_ns, engine_max_ns, in this order: the word   *)
(* is loaded, the new value is stored.                                     *)
Load(t) ==
    /\ t \in DOMAIN probe /\ probe[t].reg = -1
    /\ probe[t].cpu \notin DOMAIN irq
    /\ probe' = [probe EXCEPT ![t].reg = COUNTERS[probe[t].cpu][Layout[probe[t].word]]]
    /\ UNCHANGED <<active, attached, traced, tids, inflight, updating, irq, flushing, preempted, doubtful>>

Store(t) ==
    /\ t \in DOMAIN probe /\ probe[t].reg # -1
    /\ probe[t].cpu \notin DOMAIN irq
    /\ LET p == probe[t]
           f == Layout[p.word]
           x == IF f = "engine_count" THEN 1 ELSE p.duration_ns
       IN  /\ StoreWord(p.cpu, f, p.reg, x)
           /\ Account(f, x)
           /\ probe' = IF f = "engine_max_ns" THEN Del(probe, t)
                       ELSE [probe EXCEPT ![t].word = @ + 1, ![t].reg = -1]
    /\ UNCHANGED <<active, attached, traced, tids, inflight, irq, flushing, preempted, doubtful>>

-----------------------------------------------------------------------------
(* block_rq_issue and block_rq_complete                                    *)

At(k) == {r \in DOMAIN device : device[r].key = k}

try_block_issue(r, k, c) ==
    /\ r \notin DOMAIN device
    /\ c \notin DOMAIN irq
    /\ device' = Put(device, r, [key |-> k, since |-> clock])
    /\ IF attached >= 3 /\ r \in Target
       THEN /\ Tick
            /\ BLOCK_INFLIGHT' = Remember(BLOCK_INFLIGHT, k, InflightMax)
            /\ Bump(c, "block_count", 1)
            /\ irq' = Put(irq, c, [word |-> "block_total_bytes", add |-> active.bytes])
            /\ doubtful' = IF At(k) = {} THEN doubtful \ {k} ELSE doubtful \cup {k}
       ELSE /\ UNCHANGED <<clock, BLOCK_INFLIGHT, updating, irq>>
            /\ doubtful' = doubtful \cup (DOMAIN BLOCK_INFLIGHT \cap {k})
    /\ UNCHANGED <<active, attached, fetch, tids, FETCH_IN_PROGRESS, probe, flushing, preempted>>

(* The request is sent while a tracepoint program runs on c: skipped.      *)
IssueSkipped(r, k, c) ==
    /\ r \notin DOMAIN device
    /\ c \in DOMAIN irq
    /\ device' = Put(device, r, [key |-> k, since |-> clock])
    /\ doubtful' = doubtful \cup (DOMAIN BLOCK_INFLIGHT \cap {k})
    /\ UNCHANGED <<active, attached, clock, fetch, tids, inflight, updating, probe, irq,
                   flushing, preempted>>

(* Not filtered by process: the key is looked up.                          *)
try_block_complete(r, c) ==
    /\ r \in DOMAIN device
    /\ c \notin DOMAIN irq
    /\ device' = Del(device, r)
    /\ LET k == device[r].key
           wait_ns == SaturatingSub(clock, BLOCK_INFLIGHT[k])
       IN  IF attached = 4 /\ k \in DOMAIN BLOCK_INFLIGHT
           THEN /\ Tick
                /\ BLOCK_INFLIGHT' = Del(BLOCK_INFLIGHT, k)
                /\ Bump(c, "block_total_wait_ns", wait_ns)
                /\ irq' = Put(irq, c,
                     [word |-> "block_max_wait_ns", add |-> wait_ns, now |-> clock,
                      request |-> r, since |-> device[r].since, sure |-> k \notin doubtful])
                /\ UNCHANGED doubtful
           ELSE /\ UNCHANGED <<clock, BLOCK_INFLIGHT, updating, irq>>
                /\ doubtful' = doubtful \cup (DOMAIN BLOCK_INFLIGHT \cap {k})
    /\ UNCHANGED <<active, attached, fetch, tids, FETCH_IN_PROGRESS, probe, flushing, preempted>>

(* The interrupt comes while a tracepoint program runs on c: skipped.      *)
CompleteSkipped(r, c) ==
    /\ r \in DOMAIN device
    /\ c \in DOMAIN irq
    /\ device' = Del(device, r)
    /\ doubtful' = doubtful \cup (DOMAIN BLOCK_INFLIGHT \cap {device[r].key})
    /\ UNCHANGED <<active, attached, clock, fetch, tids, inflight, updating, probe, irq, flushing,
                   preempted>>

(* The second word of the tracepoint program on c.                         *)
BlockFinish(c) ==
    /\ c \in DOMAIN irq
    /\ Bump(c, irq[c].word, irq[c].add)
    /\ irq' = Del(irq, c)
    /\ UNCHANGED <<active, attached, traced, tids, inflight, probe, flushing, preempted, doubtful>>

-----------------------------------------------------------------------------
(* The flush: snapshot_counters and delta_counters.                        *)

FlushBegin ==
    /\ attached = 4
    /\ pos = 0 /\ windows < active.windows
    /\ pos' = 1
    /\ atStart' = truth
    /\ ofWindow' = longest /\ longest' = NoneYet
    /\ UNCHANGED <<active, attached, traced, tids, inflight, COUNTERS, truth, probe, irq,
                   snapshot, prev_snapshot, windows, reported, preempted, doubtful>>

(* Mutant: the sums of all CPUs, but the maximum of the last one.          *)
JoinLast(f, sum, word) == IF f \in MaxFields THEN word ELSE (sum + word) % WORD

(* Sums are added up over the CPUs, of the maxima the largest is taken.    *)
Join(f, sum, word) == Updated(f, sum, word)

FlushRead ==
    /\ pos \in 1..(Words * NCpu)
    /\ LET c == ((pos - 1) \div Words) + 1
           f == Layout[((pos - 1) % Words) + 1]
       IN  snapshot' = [snapshot EXCEPT ![f] = Join(f, @, COUNTERS[c][f])]
    /\ pos' = pos + 1
    /\ UNCHANGED <<active, attached, traced, tids, inflight, updating, probe, irq, prev_snapshot,
                   windows, atStart, ofWindow, reported, preempted, doubtful>>

(* Mutant: saturating_sub instead of wrapping_sub.                         *)
DeltaSaturating(prev, now) ==
    [f \in Fields |-> IF f \in MaxFields THEN now[f] ELSE SaturatingSub(now[f], prev[f])]

delta_counters(prev, now) ==
    [f \in Fields |-> IF f \in MaxFields THEN now[f] ELSE (now[f] - prev[f]) % WORD]

FlushReport ==
    /\ pos = Words * NCpu + 1
    /\ LET delta == delta_counters(prev_snapshot, snapshot)
       IN  reported' = [f \in Fields |-> IF f \in MaxFields THEN delta[f]
                                         ELSE reported[f] + delta[f]]
    /\ prev_snapshot' = snapshot
    /\ snapshot' = Zero
    /\ pos' = 0
    /\ windows' = windows + 1
    /\ atStart' = Zero /\ ofWindow' = NoneYet
    /\ UNCHANGED <<active, attached, traced, tids, inflight, updating, probe, irq, preempted, doubtful>>

-----------------------------------------------------------------------------
Next ==
    \/ AttachNext
    \/ \E t \in active.reused : \E target \in BOOLEAN : ReuseTid(t, target)
    \/ \E t \in Tids \cap active.who :
          \/ try_cch_entry(t)
          \/ \E c \in active.cpus : try_cch_exit(t, c)
          \/ Load(t)
          \/ Store(t)
    \/ \E r \in Reqs \cap active.who : \E c \in active.cpus :
          \/ \E k \in Keys \cap active.who : try_block_issue(r, k, c) \/ IssueSkipped(r, k, c)
          \/ try_block_complete(r, c)
          \/ CompleteSkipped(r, c)
    \/ \E c \in active.cpus : BlockFinish(c)
    \/ FlushBegin
    \/ FlushRead
    \/ FlushReport

Spec == Init /\ [][Next]_vars

-----------------------------------------------------------------------------
(* Properties                                                              *)

(* Every map and counter holds values of its type: words below WORD, times *)
(* the clock has shown, maps within their sizes.                           *)
TypeOK ==
    /\ attached \in 0..4 /\ clock \in 0..MaxClock
    /\ DOMAIN fetch \subseteq Tids /\ DOMAIN device \subseteq Reqs
    /\ DOMAIN FETCH_IN_PROGRESS \subseteq Tids
    /\ Cardinality(DOMAIN FETCH_IN_PROGRESS) <= FetchMax
    /\ DOMAIN BLOCK_INFLIGHT \subseteq Keys
    /\ Cardinality(DOMAIN BLOCK_INFLIGHT) <= InflightMax
    /\ COUNTERS \in [Cpus -> [Fields -> 0..(WORD - 1)]]
    /\ DOMAIN probe \subseteq Tids /\ DOMAIN irq \subseteq Cpus
    /\ pos \in 0..(Words * NCpu + 1)
    /\ {snapshot, prev_snapshot} \subseteq [Fields -> 0..(WORD - 1)]
    /\ windows \in 0..active.windows
    /\ ours \subseteq Tids /\ inherited \subseteq DOMAIN FETCH_IN_PROGRESS
    /\ doubtful \subseteq Keys

(* The words of which no update was lost to a preempted probe.             *)
Trusted == IF preempted THEN Fields \ EngineFields ELSE Fields

(* delta_counters on cumulative, wrapping, torn snapshots: no update is    *)
(* reported twice or never.  After each flush the windows add up to at     *)
(* least what had been counted when it began and at most what was counted  *)
(* when it ended.                                                          *)
WindowsAddUp ==
    [][FlushReport => \A f \in Trusted \ MaxFields :
          atStart[f] <= reported'[f] /\ reported'[f] <= truth[f]]_vars

(* The maximum a window shows, taken over all CPUs, is at least as long as *)
(* every fetch or wait counted in that window, from the beginning of the   *)
(* flush before to the beginning of this one, and one counted at some time *)
(* was that long.  That it need not be of the window is MaxIsOfWindow.     *)
MaxNeverShort ==
    [][FlushReport => \A f \in Trusted \cap MaxFields :
          ofWindow[f] <= reported'[f] /\ reported'[f] <= truth[f]]_vars

(* "Per-window aggregate counters" (bpf/main.rs), "max per call" of a      *)
(* window (SPECS.md): what a window is about to show as its maximum is no  *)
(* longer than everything counted since the flush before it began.         *)
MaxIsOfWindow ==
    pos = Words * NCpu + 1 =>
        \A f \in MaxFields :
            delta_counters(prev_snapshot, snapshot)[f] <= MaxOf(ofWindow[f], longest[f])

(* try_cch_exit adds the duration of the call that returns, measured from  *)
(* its own entry, of a thread of the target process, although              *)
(* FETCH_IN_PROGRESS may be full and probes are attached while calls are   *)
(* in progress.  Excepted is the first call under a reused tid that still  *)
(* had an entry, if the entry probe does not replace it: there the code    *)
(* may count a call of another process, since only the entry probe has the *)
(* filter ("Only track calls from the target Firebird process").           *)
ExactFetch ==
    \A t \in DOMAIN probe : probe[t].sure =>
        t \in ours /\ probe[t].duration_ns = probe[t].now - probe[t].since

(* The comment of try_block_complete, "if we issued it, it's ours": unless *)
(* two requests overlapped at one (dev, sector) or a completion was missed *)
(* there, a wait is that of the target's own request, from issue on.       *)
OwnWait ==
    \A c \in DOMAIN irq : irq[c].word = "block_max_wait_ns" /\ irq[c].sure =>
        irq[c].request \in Target /\ irq[c].add = irq[c].now - irq[c].since

(* BLOCK_INFLIGHT does not accumulate: an entry that no overlap or missed  *)
(* completion has made doubtful is of a request still at the device.       *)
InflightIsCurrent ==
    \A k \in DOMAIN BLOCK_INFLIGHT \ doubtful :
        \E r \in At(k) \cap Target : device[r].since = BLOCK_INFLIGHT[k]
=============================================================================
