------------------------------- MODULE OffCpu -------------------------------
(***************************************************************************)
(* tragach-iowait: the sched_switch and sched_wakeup tracepoints, the maps *)
(* that turn them into off-CPU time per (thread, kernel stack), and the    *)
(* userspace flush that reads and empties BUCKETS while the tracepoints    *)
(* keep firing on other CPUs.                                              *)
(*                                                                         *)
(* Threads of the traced process and of others go to sleep, are woken and  *)
(* exit, and tids are reused.  A preempted thread (prev_state 0) is the    *)
(* early return of try_sched_switch and changes nothing.  A wake-up of one *)
(* thread is serialised with its switches by the kernel's locks, so only   *)
(* the flush can come between the lookup and the insert of its bucket.     *)
(*                                                                         *)
(* Two habits of the kernel's maps matter to the flush.  BUCKETS is a hash *)
(* of chains, and an insert, of a present key too, puts the key first in   *)
(* its chain: an iterator that stands on that key then goes through the    *)
(* chain again.  A lookup in STACKS empties the slot while it copies, and  *)
(* puts the stack back over whatever was stored there meanwhile.           *)
(*                                                                         *)
(* A get of START or BUCKETS and the copy through its pointer are one step *)
(* (only the thread's own wake-up removes its START entry; the element of  *)
(* a bucket may be freed by the flush and refilled before the copy, but    *)
(* that bucket is then one the drain has raced with in any case).  STACKS  *)
(* has elements for all its slots (no -ENOMEM), and the entries one key    *)
(* has in a snapshot are looked up together.                               *)
(***************************************************************************)
EXTENDS Integers, FiniteSets, BpfMaps, Classify

CONSTANTS Tids,
          Stacks,        \* kernel stacks threads sleep in
          FramesOf,      \* a stack's instruction pointers, leaf first
          FunctionAt,    \* the class of the kernel function at an address
          SlotOf,        \* STACKS slot a stack hashes to (4096 slots)
          ChainOf,       \* chain of BUCKETS a key hashes to
          StartMax,      \* 16384: entries of START
          BucketsMax,    \* 8192: entries of BUCKETS
          ExcludeIdle,   \* --exclude-idle
          IdleNs,        \* --idle-threshold times the window
          MaxClock,      \* bound: scheduler events of a behaviour
          MaxFlushes     \* bound: flush windows of a behaviour

(* stack_id -1: get_stackid failed.                                        *)
StackIds == {SlotOf[s] : s \in Stacks} \cup {-1}
Keys == Tids \X StackIds

ASSUME OffCpuAssumption ==
    /\ SlotOf \in [Stacks -> Nat] /\ ChainOf \in [Keys -> Nat]
    /\ FramesOf \in [Stacks -> Seq(DOMAIN FunctionAt)]
    /\ DOMAIN FunctionAt \subseteq Nat
    /\ \A ip \in DOMAIN FunctionAt : FunctionAt[ip] \in Names
    /\ StartMax \in Nat /\ BucketsMax \in Nat
    /\ ExcludeIdle \in BOOLEAN /\ IdleNs \in Nat
    /\ MaxClock \in Nat /\ MaxFlushes \in Nat

(* /proc/kallsyms lists the kernel's functions: an address is in the one   *)
(* that starts nearest below it (of two names of one function, the one     *)
(* listed last), or in none of them.                                       *)
Nearest(i, ip) ==
    /\ i \in Known /\ KallsymsFile[i].addr <= ip
    /\ \A j \in Known : KallsymsFile[j].addr <= ip => Before(j, i)
ASSUME KernelAssumption ==
    \A ip \in DOMAIN FunctionAt :
        IF \E i \in Known : KallsymsFile[i].addr <= ip
        THEN \E i \in Known : Nearest(i, ip) /\ FunctionAt[ip] = KallsymsFile[i].name
        ELSE FunctionAt[ip] = "none"

VARIABLES
    attached,   \* 0, 1 (sched_switch) or 2 (and sched_wakeup)
    clock,      \* bpf_ktime_get_ns
    thread,     \* the scheduler's view of every tid
    START, STACKS, BUCKETS,
    waking,     \* tid -> the try_sched_wakeup between BUCKETS get and insert
    flush,      \* what flush_window does: "idle", "next" (get_next_key), "value" (the
                \* lookup of that key), "delete", "report"
    at,         \* {} or {k}: the key the iterator stands on, or the report looks up
    unmet,      \* keys the iterator is sure to meet
    again,      \* keys it has met and may meet again
    entries,    \* entries of the snapshot, per key, that are not deleted yet
    kept, idle, \* ns of the entries per key, apart by what retain makes of them
    copying,    \* the slot a lookup has emptied -> the stack it copies
    flushes,
    stale,      \* history: tids whose START entry is not of their present sleep
    misled,     \* history: tids whose START entry has the id of a slot being copied
    raced,      \* history: buckets updated between their read and their delete
    rewalked,   \* history: buckets an iterator had met when it went back in their chain
    earned,     \* history: ns added to each bucket
    shown,      \* history: ns of each bucket that went into a report
    dropped,    \* history: ns of each bucket left out as idle
    by_reason   \* history: ns of each bucket reported under each reason

cursor == <<at, unmet, again>>
snapshot == <<entries, kept, idle>>
flushing == <<flush, cursor, snapshot, copying, flushes>>
marks == <<stale, misled>>
races == <<raced, rewalked>>
reported == <<shown, dropped, by_reason>>
vars == <<attached, clock, thread, START, STACKS, BUCKETS, waking, flushing, marks, races,
          earned, reported>>

Nothing == [k \in Keys |-> 0]

Init ==
    /\ attached = 0
    /\ clock = 0
    /\ thread = [t \in Tids |-> [state |-> "running", target |-> TRUE]]
    /\ START = NoEntries /\ STACKS = NoEntries /\ BUCKETS = NoEntries
    /\ waking = NoEntries
    /\ flush = "idle" /\ at = {} /\ unmet = {} /\ again = {} /\ flushes = 0
    /\ entries = Nothing /\ kept = Nothing /\ idle = Nothing /\ copying = NoEntries
    /\ stale = {} /\ misled = {} /\ raced = {} /\ rewalked = {}
    /\ earned = Nothing /\ shown = Nothing /\ dropped = Nothing
    /\ by_reason = [k \in Keys |-> [x \in Reasons |-> 0]]

(* main sets TARGET_TGID first, then attaches the two tracepoints.         *)
AttachNext ==
    /\ attached < 2
    /\ attached' = attached + 1
    /\ UNCHANGED <<clock, thread, START, STACKS, BUCKETS, waking, flushing, marks, races, earned,
                   reported>>

(* The stacks the slots have when no lookup is going on.                   *)
Settled == [id \in DOMAIN STACKS \cup DOMAIN copying |->
              IF id \in DOMAIN copying THEN copying[id] ELSE STACKS[id]]

-----------------------------------------------------------------------------
(* sched_switch                                                            *)

(* Mutants: the raw error of get_stackid; BPF_F_REUSE_STACKID.             *)
get_stackid_err(s) ==
    IF SlotOf[s] \in DOMAIN STACKS /\ STACKS[SlotOf[s]] # s THEN -17 ELSE SlotOf[s]
get_stackid_reuse(s) == SlotOf[s]

(* bpf_get_stackid without BPF_F_REUSE_STACKID: a slot taken by another    *)
(* stack stays taken, and the call fails; an empty one is taken.           *)
get_stackid(s) ==
    IF SlotOf[s] \in DOMAIN STACKS /\ STACKS[SlotOf[s]] # s THEN -1 ELSE SlotOf[s]

try_sched_switch(t, s) ==
    IF attached >= 1 /\ thread[t].target
    THEN /\ STACKS' = IF get_stackid(s) = -1 THEN STACKS ELSE Put(STACKS, SlotOf[s], s)
         /\ START' = IF HasRoom(START, t, StartMax)
                     THEN Put(START, t, [ts_ns |-> clock, stack_id |-> get_stackid(s)])
                     ELSE START
         /\ misled' = IF ~HasRoom(START, t, StartMax) THEN misled
                      ELSE IF \A id \in DOMAIN copying : id = SlotOf[s] => copying[id] = s
                      THEN misled \ {t} ELSE misled \cup {t}
    ELSE UNCHANGED <<STACKS, START, misled>>

(* The thread running under tid t may act; one scheduler event, one tick.  *)
Runs(t) ==
    /\ thread[t].state = "running"
    /\ t \notin DOMAIN waking
    /\ clock < MaxClock
    /\ clock' = clock + 1

Sleep(t, s) ==
    /\ Runs(t)
    /\ thread' = [thread EXCEPT ![t] =
          [state |-> "asleep", target |-> @.target, since |-> clock, stack |-> s]]
    /\ try_sched_switch(t, s)
    /\ stale' = IF START' # START THEN stale \ {t} ELSE stale
    /\ UNCHANGED <<attached, BUCKETS, waking, flushing, races, earned, reported>>

(* The last switch of a thread that exits has a non-zero prev_state too.   *)
Exit(t, s) ==
    /\ Runs(t)
    /\ thread' = [thread EXCEPT ![t] = [state |-> "none", target |-> FALSE]]
    /\ try_sched_switch(t, s)
    /\ stale' = IF START' # START THEN stale \cup {t} ELSE stale
    /\ UNCHANGED <<attached, BUCKETS, waking, flushing, races, earned, reported>>

(* A new thread, of any process, gets a free tid (sched_wakeup_new).       *)
Spawn(t, target) ==
    /\ thread[t].state = "none"
    /\ thread' = [thread EXCEPT ![t] = [state |-> "running", target |-> target]]
    /\ UNCHANGED <<attached, clock, START, STACKS, BUCKETS, waking, flushing, marks, races, earned,
                   reported>>

-----------------------------------------------------------------------------
(* sched_wakeup                                                            *)

BucketOr0(k) == IF k \in DOMAIN BUCKETS THEN BUCKETS[k] ELSE 0

(* Up to BUCKETS.get.  The tracepoint also fires for a thread woken before *)
(* it got to sleep.                                                        *)
Wakeup(t) ==
    /\ thread[t].state # "none"
    /\ t \notin DOMAIN waking
    /\ clock < MaxClock
    /\ clock' = clock + 1
    /\ thread' = [thread EXCEPT ![t] = [state |-> "running", target |-> @.target]]
    /\ IF attached = 2 /\ t \in DOMAIN START
       THEN LET delta == SaturatingSub(clock, START[t].ts_ns)
                k == <<t, START[t].stack_id>>
            IN  /\ START' = Del(START, t)
                /\ waking' = Put(waking, t,
                     [key |-> k, delta |-> delta, total |-> BucketOr0(k) + delta,
                      sleep |-> thread[t], now |-> clock, sure |-> t \notin stale,
                      led |-> t \notin misled])
                /\ stale' = stale \ {t} /\ misled' = misled \ {t}
       ELSE /\ UNCHANGED <<START, waking, misled>>
            /\ stale' = IF t \in DOMAIN START THEN stale \cup {t} ELSE stale
    /\ UNCHANGED <<attached, STACKS, BUCKETS, flushing, races, earned, reported>>

(* Read by the flush that is going on, not deleted yet.                    *)
AwaitsDelete(k) == entries[k] > 0

(* The iterator stands on k, which moves to the head of its chain: the     *)
(* keys of the chain that it has met come behind it.                       *)
MetAgain(k) ==
    IF flush \in {"next", "value"} /\ k \in at
    THEN {j \in Keys \ {k} : AwaitsDelete(j) /\ ChainOf[j] = ChainOf[k]}
    ELSE {}

(* BUCKETS.insert; it fails if the map is full.                            *)
WakeupInsert(t) ==
    /\ t \in DOMAIN waking
    /\ waking' = Del(waking, t)
    /\ LET k == waking[t].key
       IN  IF HasRoom(BUCKETS, k, BucketsMax)
           THEN /\ BUCKETS' = Put(BUCKETS, k, waking[t].total)
                /\ earned' = [earned EXCEPT ![k] = @ + waking[t].delta]
                /\ raced' = IF AwaitsDelete(k) THEN raced \cup {k} ELSE raced
                /\ rewalked' = rewalked \cup MetAgain(k)
                /\ again' = (again \ {k}) \cup MetAgain(k)
                /\ unmet' = unmet \ {k}
           ELSE UNCHANGED <<BUCKETS, earned, raced, rewalked, again, unmet>>
    /\ UNCHANGED <<attached, clock, thread, START, STACKS, flush, at, snapshot, copying, flushes,
                   marks, reported>>

-----------------------------------------------------------------------------
(* flush_window                                                            *)

FlushBegin ==
    /\ attached = 2
    /\ flush = "idle" /\ flushes < MaxFlushes
    /\ flush' = "next"
    /\ unmet' = DOMAIN BUCKETS
    /\ flushes' = flushes + 1
    /\ UNCHANGED <<attached, clock, thread, START, STACKS, BUCKETS, waking, at, again, snapshot,
                   copying, marks, races, earned, reported>>

(* bpf_map_get_next_key, in an order left open: a key not met before, or   *)
(* one of a chain that is gone through again.  It meets every key present  *)
(* and not moved since it began.                                           *)
FlushNext(k) ==
    /\ flush = "next"
    /\ k \in DOMAIN BUCKETS
    /\ ~AwaitsDelete(k) \/ k \in again
    /\ flush' = "value"
    /\ at' = {k}
    /\ unmet' = unmet \ {k} /\ again' = again \ {k}
    /\ UNCHANGED <<attached, clock, thread, START, STACKS, BUCKETS, waking, snapshot, copying,
                   flushes, marks, races, earned, reported>>

(* retain leaves entries at or above the threshold out of the report (the  *)
(* help of --exclude-idle: only those whose total "exceeds" it).           *)
IsIdle(ns) == ExcludeIdle /\ ns >= IdleNs

(* Its value is looked up, and both are pushed.                            *)
FlushValue(k) ==
    /\ flush = "value" /\ k \in at
    /\ flush' = "next"
    /\ entries' = [entries EXCEPT ![k] = @ + 1]
    /\ kept' = [kept EXCEPT ![k] = @ + IF IsIdle(BUCKETS[k]) THEN 0 ELSE BUCKETS[k]]
    /\ idle' = [idle EXCEPT ![k] = @ + IF IsIdle(BUCKETS[k]) THEN BUCKETS[k] ELSE 0]
    /\ UNCHANGED <<attached, clock, thread, START, STACKS, BUCKETS, waking, cursor, copying,
                   flushes, marks, races, earned, reported>>

(* Mutant: the idle filter runs before the keys are removed.               *)
FlushReadEndFiltered ==
    /\ flush = "next" /\ unmet = {}
    /\ flush' = "delete"
    /\ at' = {} /\ again' = {}
    /\ entries' = [k \in Keys |-> IF kept[k] = 0 THEN 0 ELSE entries[k]]
    /\ UNCHANGED <<attached, clock, thread, START, STACKS, BUCKETS, waking, unmet, kept, idle,
                   copying, flushes, marks, races, earned, reported>>

FlushReadEnd ==
    /\ flush = "next" /\ unmet = {}
    /\ flush' = "delete"
    /\ at' = {} /\ again' = {}
    /\ UNCHANGED <<attached, clock, thread, START, STACKS, BUCKETS, waking, unmet, snapshot,
                   copying, flushes, marks, races, earned, reported>>

(* buckets.remove, once per entry.                                         *)
FlushDelete(k) ==
    /\ flush = "delete" /\ AwaitsDelete(k)
    /\ BUCKETS' = Del(BUCKETS, k)
    /\ entries' = [entries EXCEPT ![k] = @ - 1]
    /\ raced' = IF \E t \in DOMAIN waking : waking[t].key = k
                THEN raced \cup {k} ELSE raced
    /\ UNCHANGED <<attached, clock, thread, START, STACKS, waking, flush, cursor, kept, idle,
                   copying, flushes, marks, rewalked, earned, reported>>

FlushRetain ==
    /\ flush = "delete" /\ \A k \in Keys : ~AwaitsDelete(k)
    /\ flush' = "report"
    /\ dropped' = [k \in Keys |-> dropped[k] + idle[k]]
    /\ idle' = Nothing
    /\ UNCHANGED <<attached, clock, thread, START, STACKS, BUCKETS, waking, cursor, entries, kept,
                   copying, flushes, marks, races, earned, shown, by_reason>>

(* stacks.get of the next key's stack id, if it has one.                   *)
FlushLookup(k) ==
    /\ flush = "report" /\ at = {}
    /\ kept[k] > 0
    /\ at' = {k}
    /\ copying' = Keep(STACKS, {k[2]})
    /\ STACKS' = Del(STACKS, k[2])
    /\ UNCHANGED <<attached, clock, thread, START, BUCKETS, waking, flush, unmet, again, snapshot,
                   flushes, marks, races, earned, reported>>

(* A lookup per frame; no frames without a stack.                          *)
Frames(k) ==
    IF k[2] \notin DOMAIN copying THEN <<>>
    ELSE LET ips == FramesOf[copying[k[2]]] IN [i \in DOMAIN ips |-> lookup(ips[i])]

(* The copy ends, the slot is restored, and the key's time goes under the  *)
(* reason of the stack.                                                    *)
FlushShow(k) ==
    /\ flush = "report" /\ k \in at
    /\ at' = {}
    /\ STACKS' = Settled
    /\ copying' = NoEntries
    /\ shown' = [shown EXCEPT ![k] = @ + kept[k]]
    /\ by_reason' = [by_reason EXCEPT ![k][classify(Frames(k))] = @ + kept[k]]
    /\ kept' = [kept EXCEPT ![k] = 0]
    /\ UNCHANGED <<attached, clock, thread, START, BUCKETS, waking, flush, unmet, again, entries,
                   idle, flushes, marks, races, earned, dropped>>

FlushEnd ==
    /\ flush = "report" /\ at = {} /\ kept = Nothing
    /\ flush' = "idle"
    /\ UNCHANGED <<attached, clock, thread, START, STACKS, BUCKETS, waking, cursor, snapshot,
                   copying, flushes, marks, races, earned, reported>>

-----------------------------------------------------------------------------
Next ==
    \/ AttachNext
    \/ \E t \in Tids :
          \/ \E s \in Stacks : Sleep(t, s) \/ Exit(t, s)
          \/ \E target \in BOOLEAN : Spawn(t, target)
          \/ Wakeup(t)
          \/ WakeupInsert(t)
    \/ FlushBegin
    \/ \E k \in Keys :
          \/ FlushNext(k)
          \/ FlushValue(k)
          \/ FlushDelete(k)
          \/ FlushLookup(k)
          \/ FlushShow(k)
    \/ FlushReadEnd
    \/ FlushRetain
    \/ FlushEnd

Spec == Init /\ [][Next]_vars

-----------------------------------------------------------------------------
(* Properties.                                                             *)

ThreadType ==
    [state : {"none", "running"}, target : BOOLEAN] \cup
    [state : {"asleep"}, target : BOOLEAN, since : Nat, stack : Stacks]

(* The variables have the types of the structs and maps they stand for.    *)
TypeOK ==
    /\ attached \in 0..2
    /\ clock \in Nat
    /\ thread \in [Tids -> ThreadType]
    /\ START \in [DOMAIN START -> [ts_ns : Nat, stack_id : StackIds]]
    /\ DOMAIN START \subseteq Tids
    /\ STACKS \in [DOMAIN STACKS -> Stacks]
    /\ DOMAIN STACKS \subseteq StackIds \ {-1}
    /\ BUCKETS \in [DOMAIN BUCKETS -> Nat]
    /\ DOMAIN BUCKETS \subseteq Keys
    /\ DOMAIN waking \subseteq Tids
    /\ \A t \in DOMAIN waking :
          waking[t] \in [key : Keys, delta : Nat, total : Nat, sleep : ThreadType,
                        now : Nat, sure : BOOLEAN, led : BOOLEAN]
    /\ flush \in {"idle", "next", "value", "delete", "report"}
    /\ at \subseteq Keys /\ unmet \subseteq Keys /\ again \subseteq Keys
    /\ entries \in [Keys -> Nat] /\ kept \in [Keys -> Nat] /\ idle \in [Keys -> Nat]
    /\ copying \in [DOMAIN copying -> Stacks]
    /\ DOMAIN copying \subseteq StackIds \ {-1}
    /\ flushes \in 0..MaxFlushes
    /\ stale \subseteq Tids /\ misled \subseteq Tids
    /\ raced \subseteq Keys /\ rewalked \subseteq Keys
    /\ earned \in [Keys -> Nat] /\ shown \in [Keys -> Nat] /\ dropped \in [Keys -> Nat]
    /\ by_reason \in [Keys -> [Reasons -> Nat]]

(* START is about sleeps that are going on, and its stack_id leads to the  *)
(* very stack the thread sleeps in (or is -1), although slots of STACKS    *)
(* are shared by hash and never freed.  Excepted are the entries left by a *)
(* thread that exited and by a wake-up before sched_wakeup was attached,   *)
(* and the stack id of a thread that went to sleep while the flush was     *)
(* copying another stack out of the same slot.                             *)
StartIsCurrent ==
    \A t \in DOMAIN START \ stale :
        /\ thread[t].state = "asleep"
        /\ thread[t].target
        /\ START[t].ts_ns = thread[t].since
        /\ START[t].stack_id # -1 /\ t \notin misled =>
              /\ START[t].stack_id \in DOMAIN Settled
              /\ Settled[START[t].stack_id] = thread[t].stack

(* What a wake-up adds is the length of the sleep it ends, under the stack *)
(* of that sleep; the exceptions are those of StartIsCurrent.              *)
ExactSleep ==
    \A t \in DOMAIN waking : waking[t].sure =>
        LET w == waking[t]
        IN  /\ w.sleep.state = "asleep" /\ w.sleep.target
            /\ w.delta = w.now - w.sleep.since
            /\ w.key[2] # -1 /\ w.led => Settled[w.key[2]] = w.sleep.stack

(* ns of bucket k that the flush has read, or has not seen yet.            *)
Held(k) == kept[k] + idle[k] + IF AwaitsDelete(k) THEN 0 ELSE BucketOr0(k)

(* However windows fall, none of a bucket's time is lost, unless a wake-up *)
(* changed the bucket between the flush's read and its delete (the drain   *)
(* is not atomic), and it is reported or dropped as idle once, unless the  *)
(* iterator was made to go through its chain again.                        *)
UnracedTimeCountedOnce ==
    \A k \in Keys \ raced :
        /\ shown[k] + dropped[k] + Held(k) >= earned[k]
        /\ k \notin rewalked => shown[k] + dropped[k] + Held(k) = earned[k]

(* Why a thread sleeping in stack s sleeps, going by the kernel's own      *)
(* functions: for block I/O (or a futex) if such a frame has no futex (or  *)
(* block I/O) frame nearer to the leaf.                                    *)
Called(s, name, i) == FunctionAt[FramesOf[s][i]] = name
NearestIs(s, name, other) ==
    \E i \in DOMAIN FramesOf[s] :
        Called(s, name, i) /\ \A j \in 1..(i - 1) : ~Called(s, other, j)
Cause == [s \in Stacks |->
    CASE NearestIs(s, "block", "futex") -> "BlockIo"
      [] NearestIs(s, "futex", "block") -> "Futex"
      [] OTHER -> IF \E i \in DOMAIN FramesOf[s] : Called(s, "schedule", i)
                  THEN "SchedDelay" ELSE "Other"]
CauseOf(k) == IF k[2] \in DOMAIN Settled THEN Cause[Settled[k[2]]] ELSE "Other"

(* Every bucket's time is reported under the cause of the stack its id     *)
(* stands for (by ExactSleep the stack of its sleeps), in all windows:     *)
(* STACKS still has it when the flush looks it up, whatever is stored in   *)
(* its slot during the copy, kernel addresses lead to the functions they   *)
(* are in, and the leaf-most decisive frame decides.  Time without a stack *)
(* id goes to Other.                                                       *)
ReportedUnderCause ==
    \A k \in Keys : \A x \in Reasons :
        by_reason[k][x] = IF CauseOf(k) = x THEN shown[k] ELSE 0

(* docs/design-notes.md: a wake-up that finds START is of a traced thread, *)
(* so try_sched_wakeup needs no tgid filter.                               *)
OnlyTracedThreads == \A t \in DOMAIN waking : waking[t].sleep.target
=============================================================================
