---------------------------- MODULE OffCpuProofs ----------------------------
(***************************************************************************)
(* TLAPS proofs about OffCpu, for any number of threads, stacks, chains,   *)
(* map sizes and windows and any length of a behaviour: an undisturbed     *)
(* START entry is of the sleep going on, a wake-up bills exactly that      *)
(* sleep, the drain of BUCKETS loses none of an unraced bucket's time and  *)
(* doubles it only if the iterator went back, and all of it is reported    *)
(* under the cause of the sleep.                                           *)
(***************************************************************************)
EXTENDS OffCpu, FiniteSetTheorems, TLAPS

-----------------------------------------------------------------------------
(* The inductive invariant.                                                *)

(* A stack id leads to a stack, if only to one that is being copied: no    *)
(* slot of STACKS is ever freed for good.                                  *)
Rooted(id) == id # -1 => id \in DOMAIN Settled

AllRooted ==
    /\ \A t \in DOMAIN START : Rooted(START[t].stack_id)
    /\ \A t \in DOMAIN waking : Rooted(waking[t].key[2])
    /\ \A k \in DOMAIN BUCKETS : Rooted(k[2])
    /\ \A k \in Keys : kept[k] > 0 \/ shown[k] > 0 => Rooted(k[2])

(* Every recorded time has passed: a new START entry differs from the old. *)
Passed ==
    /\ \A t \in DOMAIN START : START[t].ts_ns < clock
    /\ \A t \in Tids : thread[t].state = "asleep" => thread[t].since < clock

(* A wake-up between get and insert is about to add to what its bucket has *)
(* now: the tid is part of the key, so only the flush can come between.    *)
WakingOK ==
    \A t \in DOMAIN waking :
        /\ waking[t].key[1] = t
        /\ waking[t].key \notin raced =>
              waking[t].total = BucketOr0(waking[t].key) + waking[t].delta

(* The iterator meets a key again only in a chain it went back in, and the *)
(* report copies the stack of the key it is at, and no other.              *)
FlushOK ==
    /\ again \subseteq rewalked
    /\ flush = "value" =>
          \A k \in at : k \in DOMAIN BUCKETS /\ (AwaitsDelete(k) => k \in rewalked)
    /\ flush = "delete" => at = {}
    /\ flush # "report" \/ at = {} => DOMAIN copying = {}
    /\ flush = "report" => \A k \in at : k[2] # -1 => k[2] \in DOMAIN copying

Inv ==
    /\ TypeOK /\ AllRooted /\ Passed /\ StartIsCurrent /\ ExactSleep
    /\ WakingOK /\ FlushOK /\ UnracedTimeCountedOnce

-----------------------------------------------------------------------------
(* Stacks and threads.                                                     *)

(* get_stackid yields -1 or the slot, which is free or has this stack.     *)
LEMMA StackidFacts ==
    ASSUME NEW s \in Stacks
    PROVE  /\ SlotOf[s] \in StackIds /\ SlotOf[s] # -1 /\ SlotOf[s] \in Nat
           /\ get_stackid(s) \in StackIds
           /\ get_stackid(s) # -1 =>
                 /\ get_stackid(s) = SlotOf[s]
                 /\ SlotOf[s] \in DOMAIN STACKS => STACKS[SlotOf[s]] = s
<1>1. SlotOf[s] \in Nat BY OffCpuAssumption
<1>2. SlotOf[s] \in StackIds BY DEF StackIds
<1>3. -1 \in StackIds BY DEF StackIds
<1> QED BY <1>1, <1>2, <1>3 DEF get_stackid

(* What the slots have once the copy ends.                                 *)
LEMMA SettledFacts ==
    ASSUME TypeOK
    PROVE  /\ DOMAIN Settled = DOMAIN STACKS \cup DOMAIN copying
           /\ DOMAIN Settled \subseteq StackIds \ {-1}
           /\ Settled \in [DOMAIN Settled -> Stacks]
           /\ \A id \in DOMAIN copying : Settled[id] = copying[id]
           /\ \A id \in DOMAIN STACKS : id \notin DOMAIN copying => Settled[id] = STACKS[id]
BY DEF TypeOK, Settled

(* No slot that is taken changes.                                          *)
StacksGrow ==
    \A id \in DOMAIN Settled : id \in DOMAIN Settled' /\ Settled'[id] = Settled[id]

(* A rooted id stays rooted.                                               *)
LEMMA RootedGrows ==
    ASSUME StacksGrow, NEW id, Rooted(id)
    PROVE  Rooted(id)'
BY DEF StacksGrow, Rooted

(* try_sched_switch leaves START alone or makes t's entry of now and of a  *)
(* stack id that leads to s, unless another stack is being copied there.   *)
LEMMA SwitchFacts ==
    ASSUME TypeOK, NEW t \in Tids, NEW s \in Stacks, try_sched_switch(t, s), UNCHANGED copying
    PROVE  /\ STACKS' \in [DOMAIN STACKS' -> Stacks]
           /\ DOMAIN STACKS' \subseteq StackIds \ {-1}
           /\ misled' \subseteq Tids
           /\ \A u \in Tids : u # t => (u \in misled' <=> u \in misled)
           /\ StacksGrow
           /\ \/ START' = START
              \/ \E id \in StackIds :
                    /\ thread[t].target
                    /\ START' = Put(START, t, [ts_ns |-> clock, stack_id |-> id])
                    /\ id # -1 =>
                          /\ id \in DOMAIN Settled'
                          /\ t \notin misled' => Settled'[id] = s
<1> DEFINE id == get_stackid(s)
<1>1. /\ SlotOf[s] \in StackIds /\ SlotOf[s] # -1
      /\ id \in StackIds
      /\ id # -1 =>
            /\ id = SlotOf[s]
            /\ SlotOf[s] \in DOMAIN STACKS => STACKS[SlotOf[s]] = s
  BY StackidFacts
<1>2. /\ STACKS \in [DOMAIN STACKS -> Stacks] /\ DOMAIN STACKS \subseteq StackIds \ {-1}
      /\ misled \subseteq Tids
  BY DEF TypeOK
<1>3. CASE attached >= 1 /\ thread[t].target
  <2>1. STACKS' = IF id = -1 THEN STACKS ELSE Put(STACKS, SlotOf[s], s)
    BY <1>3 DEF try_sched_switch
  <2>2. /\ STACKS' \in [DOMAIN STACKS' -> Stacks]
        /\ DOMAIN STACKS' \subseteq StackIds \ {-1}
        /\ \A j \in DOMAIN STACKS : j \in DOMAIN STACKS' /\ STACKS'[j] = STACKS[j]
        /\ id # -1 => SlotOf[s] \in DOMAIN STACKS' /\ STACKS'[SlotOf[s]] = s
    <3>1. CASE id = -1 BY <1>2, <2>1, <3>1
    <3>2. CASE id # -1
      <4>1. STACKS' = Put(STACKS, SlotOf[s], s) BY <2>1, <3>2
      <4>2. /\ DOMAIN STACKS' = DOMAIN STACKS \cup {SlotOf[s]} /\ STACKS'[SlotOf[s]] = s
            /\ \A j \in DOMAIN STACKS : j # SlotOf[s] => STACKS'[j] = STACKS[j]
            /\ STACKS' = [j \in DOMAIN STACKS' |-> STACKS'[j]]
        BY <4>1 DEF Put
      <4> QED BY <1>1, <1>2, <3>2, <4>2
    <3> QED BY <3>1, <3>2
  <2>3. /\ DOMAIN Settled = DOMAIN STACKS \cup DOMAIN copying
        /\ DOMAIN Settled' = DOMAIN STACKS' \cup DOMAIN copying
        /\ \A j \in DOMAIN Settled' :
              Settled'[j] = IF j \in DOMAIN copying THEN copying[j] ELSE STACKS'[j]
        /\ \A j \in DOMAIN Settled :
              Settled[j] = IF j \in DOMAIN copying THEN copying[j] ELSE STACKS[j]
    BY DEF Settled
  <2>4. StacksGrow BY <2>2, <2>3 DEF StacksGrow
  <2>5. /\ misled' \subseteq Tids
        /\ \A u \in Tids : u # t => (u \in misled' <=> u \in misled)
    BY <1>2, <1>3 DEF try_sched_switch
  <2>6. ASSUME START' # START
        PROVE  /\ START' = Put(START, t, [ts_ns |-> clock, stack_id |-> id])
               /\ id # -1 => id \in DOMAIN Settled' /\ (t \notin misled' => Settled'[id] = s)
    <3>1. /\ START' = Put(START, t, [ts_ns |-> clock, stack_id |-> id])
          /\ t \notin misled' => \A j \in DOMAIN copying : j = SlotOf[s] => copying[j] = s
      BY <1>3, <2>6 DEF try_sched_switch
    <3> HIDE DEF id
    <3> QED BY <1>1, <2>2, <2>3, <3>1
  <2> HIDE DEF id
  <2> QED BY <1>1, <1>3, <2>2, <2>4, <2>5, <2>6
<1>4. CASE ~(attached >= 1 /\ thread[t].target)
  <2>1. UNCHANGED <<STACKS, START, misled, copying>> BY <1>4 DEF try_sched_switch
  <2>2. Settled' = Settled BY <2>1 DEF Settled
  <2> QED BY <1>2, <2>1, <2>2 DEF StacksGrow
<1> QED BY <1>3, <1>4

(* Sleep and Exit: a thread that was running gets another state.           *)
LEMMA SwitchStep ==
    ASSUME Inv, NEW t \in Tids, NEW s \in Stacks, Runs(t), try_sched_switch(t, s),
           NEW next \in ThreadType, thread' = [thread EXCEPT ![t] = next],
           next.state # "asleep" => stale' = IF START' # START THEN stale \cup {t} ELSE stale,
           next.state = "asleep" =>
               /\ next.since = clock /\ next.stack = s /\ next.target = thread[t].target
               /\ stale' = IF START' # START THEN stale \ {t} ELSE stale,
           UNCHANGED <<attached, BUCKETS, waking, flushing, races, earned, reported>>
    PROVE  Inv'
<1>1. /\ TypeOK /\ AllRooted /\ Passed /\ StartIsCurrent /\ ExactSleep
      /\ WakingOK /\ FlushOK /\ UnracedTimeCountedOnce
  BY DEF Inv
<1>2. /\ UNCHANGED <<attached, BUCKETS, waking, flush, at, unmet, again, entries, kept, idle,
                     copying, flushes, raced, rewalked, earned, shown, dropped, by_reason>>
  BY DEF flushing, cursor, snapshot, races, reported
<1>3. /\ clock \in Nat /\ clock' = clock + 1 /\ thread[t].state = "running"
  BY <1>1 DEF Runs, TypeOK
<1>4. /\ STACKS' \in [DOMAIN STACKS' -> Stacks]
      /\ DOMAIN STACKS' \subseteq StackIds \ {-1} /\ StacksGrow
      /\ misled' \subseteq Tids
      /\ \A u \in Tids : u # t => (u \in misled' <=> u \in misled)
      /\ \/ START' = START
         \/ \E id \in StackIds :
               /\ thread[t].target
               /\ START' = Put(START, t, [ts_ns |-> clock, stack_id |-> id])
               /\ id # -1 =>
                     /\ id \in DOMAIN Settled'
                     /\ t \notin misled' => Settled'[id] = s
  BY <1>1, <1>2, SwitchFacts
<1>5. /\ thread' \in [Tids -> ThreadType] /\ thread'[t] = next
      /\ \A u \in Tids : u # t => thread'[u] = thread[u]
  BY <1>1 DEF TypeOK
<1>6. stale' \subseteq Tids
  <2>1. stale \subseteq Tids BY <1>1 DEF TypeOK
  <2> QED BY <2>1
<1>7. /\ DOMAIN START \subseteq Tids
      /\ \A u \in DOMAIN START : /\ START[u] \in [ts_ns : Nat, stack_id : StackIds]
                                 /\ START[u].ts_ns < clock /\ Rooted(START[u].stack_id)
  BY <1>1 DEF TypeOK, Passed, AllRooted
<1>8. /\ START' \in [DOMAIN START' -> [ts_ns : Nat, stack_id : StackIds]]
      /\ DOMAIN START' \subseteq Tids
      /\ \A u \in DOMAIN START' : START'[u].ts_ns < clock' /\ Rooted(START[u].stack_id)'
      /\ StartIsCurrent'
  <2>1. ASSUME NEW u \in DOMAIN START, u # t, u \notin stale
        PROVE  /\ thread'[u].state = "asleep"
               /\ thread'[u].target
               /\ START[u].ts_ns = thread'[u].since
               /\ START[u].stack_id # -1 /\ u \notin misled' =>
                     /\ START[u].stack_id \in DOMAIN Settled'
                     /\ Settled'[START[u].stack_id] = thread'[u].stack
    BY <1>1, <1>4, <1>5, <1>7, <2>1 DEF StartIsCurrent, StacksGrow
  <2>2. t \in DOMAIN START => t \in stale BY <1>1, <1>3 DEF StartIsCurrent
  <2>3. CASE START' = START
    <3>1. START' \in [DOMAIN START' -> [ts_ns : Nat, stack_id : StackIds]]
      BY <1>1, <2>3 DEF TypeOK
    <3>2. \A u \in DOMAIN START' : START'[u].ts_ns < clock' /\ Rooted(START[u].stack_id)'
      BY <1>3, <1>4, <1>7, <2>3 DEF Rooted, StacksGrow
    <3>3. stale' = stale BY <2>3
    <3>4. StartIsCurrent' BY <2>1, <2>2, <2>3, <3>3 DEF StartIsCurrent
    <3> QED BY <1>7, <2>3, <3>1, <3>2, <3>4
  <2>4. CASE START' # START
    <3>1. PICK id \in StackIds :
             /\ thread[t].target
             /\ START' = Put(START, t, [ts_ns |-> clock, stack_id |-> id])
             /\ id # -1 =>
                   /\ id \in DOMAIN Settled'
                   /\ t \notin misled' => Settled'[id] = s
      BY <1>4, <2>4
    <3> DEFINE e == [ts_ns |-> clock, stack_id |-> id]
    <3>2. /\ DOMAIN START' = DOMAIN START \cup {t} /\ START'[t] = e
          /\ \A j \in DOMAIN START : j # t => START'[j] = START[j]
          /\ START' = [j \in DOMAIN START' |-> START'[j]]
      BY <3>1 DEF Put
    <3>3. e \in [ts_ns : Nat, stack_id : StackIds] /\ e.ts_ns = clock /\ e.stack_id = id
      BY <1>3
    <3> HIDE DEF e
    <3>4. START' \in [DOMAIN START' -> [ts_ns : Nat, stack_id : StackIds]]
      BY <1>7, <3>2, <3>3
    <3>5. \A u \in DOMAIN START' : START'[u].ts_ns < clock' /\ Rooted(START[u].stack_id)'
      BY <1>3, <1>4, <1>7, <3>1, <3>2, <3>3 DEF Rooted, StacksGrow
    <3>6. StartIsCurrent'
      <4>1. CASE next.state = "asleep"
        <5>1. stale' = stale \ {t} BY <2>4, <4>1
        <5>2. next.target = thread[t].target /\ next.since = clock /\ next.stack = s BY <4>1
        <5>3. next.target BY <3>1, <5>2
        <5>4. /\ thread'[t].state = "asleep" /\ thread'[t].target
              /\ START'[t].ts_ns = thread'[t].since
              /\ START'[t].stack_id # -1 /\ t \notin misled' =>
                    /\ START'[t].stack_id \in DOMAIN Settled'
                    /\ Settled'[START'[t].stack_id] = thread'[t].stack
          BY <1>5, <3>1, <3>2, <3>3, <4>1, <5>2, <5>3
        <5> QED BY <2>1, <3>2, <5>1, <5>4 DEF StartIsCurrent
      <4>2. CASE next.state # "asleep"
        BY <1>5, <2>1, <2>4, <3>2, <4>2 DEF StartIsCurrent
      <4> QED BY <4>1, <4>2
    <3> QED BY <1>7, <3>2, <3>4, <3>5, <3>6
  <2> QED BY <2>3, <2>4
<1>9. TypeOK' BY <1>1, <1>2, <1>3, <1>4, <1>5, <1>6, <1>8 DEF TypeOK
<1>10. AllRooted'
  <2>1. \A u \in DOMAIN waking : Rooted(waking[u].key[2]) BY <1>1 DEF AllRooted
  <2>2. \A k \in DOMAIN BUCKETS : Rooted(k[2]) BY <1>1 DEF AllRooted
  <2>3. \A k \in Keys : kept[k] > 0 \/ shown[k] > 0 => Rooted(k[2]) BY <1>1 DEF AllRooted
  <2>4. \A id : Rooted(id) => (id # -1 => id \in DOMAIN Settled')
    BY <1>4 DEF Rooted, StacksGrow
  <2> QED BY <1>2, <1>8, <2>1, <2>2, <2>3, <2>4 DEF AllRooted, Rooted
<1>11. Passed'
  <2>1. ASSUME NEW u \in Tids, thread'[u].state = "asleep" PROVE thread'[u].since < clock'
    <3>1. CASE u = t BY <1>3, <1>5, <2>1, <3>1
    <3>2. CASE u # t
      <4>1. thread[u] \in ThreadType /\ thread[u].since < clock
        BY <1>1, <1>5, <2>1, <3>2 DEF TypeOK, Passed
      <4>2. thread[u].since \in Nat BY <1>5, <2>1, <3>2, <4>1 DEF ThreadType
      <4> QED BY <1>3, <1>5, <3>2, <4>1, <4>2
    <3> QED BY <3>1, <3>2
  <2> QED BY <1>8, <2>1 DEF Passed
<1>12. ExactSleep' BY <1>1, <1>2, <1>4 DEF ExactSleep, AllRooted, Rooted, StacksGrow
<1>13. WakingOK' /\ FlushOK' BY <1>1, <1>2 DEF WakingOK, FlushOK, BucketOr0, AwaitsDelete
<1>14. UnracedTimeCountedOnce'
  BY <1>1, <1>2 DEF UnracedTimeCountedOnce, Held, AwaitsDelete, BucketOr0
<1> QED BY <1>8, <1>9, <1>10, <1>11, <1>12, <1>13, <1>14 DEF Inv

(* A thread goes to sleep.                                                 *)
LEMMA SleepStep ==
    ASSUME Inv, NEW t \in Tids, NEW s \in Stacks, Sleep(t, s)
    PROVE  Inv'
<1> DEFINE next == [state |-> "asleep", target |-> thread[t].target, since |-> clock, stack |-> s]
<1>1. thread \in [Tids -> ThreadType] /\ clock \in Nat BY DEF Inv, TypeOK
<1>2. thread[t].target \in BOOLEAN BY <1>1 DEF ThreadType
<1>3. next \in ThreadType BY <1>1, <1>2 DEF ThreadType
<1>4. thread' = [thread EXCEPT ![t] = next] BY DEF Sleep
<1> QED BY <1>3, <1>4, SwitchStep DEF Sleep

(* A thread exits: its entry, if it made one, is stale.                    *)
LEMMA ExitStep ==
    ASSUME Inv, NEW t \in Tids, NEW s \in Stacks, Exit(t, s)
    PROVE  Inv'
<1> DEFINE next == [state |-> "none", target |-> FALSE]
<1>1. next \in ThreadType /\ next.state # "asleep" BY DEF ThreadType
<1>2. thread' = [thread EXCEPT ![t] = next] BY DEF Exit
<1> HIDE DEF next
<1> QED BY <1>1, <1>2, SwitchStep DEF Exit

(* A free tid has no current entry, so a new thread takes over none.       *)
LEMMA SpawnStep ==
    ASSUME Inv, NEW t \in Tids, NEW target \in BOOLEAN, Spawn(t, target)
    PROVE  Inv'
<1> DEFINE next == [state |-> "running", target |-> target]
<1>1. /\ TypeOK /\ AllRooted /\ Passed /\ StartIsCurrent /\ ExactSleep
      /\ WakingOK /\ FlushOK /\ UnracedTimeCountedOnce
  BY DEF Inv
<1>2. /\ UNCHANGED <<attached, clock, START, STACKS, BUCKETS, waking, flush, at, unmet, again,
                     entries, kept, idle, copying, flushes, stale, misled, raced, rewalked,
                     earned, shown, dropped, by_reason>>
      /\ thread' = [thread EXCEPT ![t] = next] /\ thread[t].state = "none"
  BY DEF Spawn, flushing, cursor, snapshot, marks, races, reported
<1>3. next \in ThreadType /\ next.state = "running" BY DEF ThreadType
<1> HIDE DEF next
<1>4. /\ thread' \in [Tids -> ThreadType] /\ thread'[t] = next
      /\ \A u \in Tids : u # t => thread'[u] = thread[u]
  BY <1>1, <1>2, <1>3 DEF TypeOK
<1>5. TypeOK' BY <1>1, <1>2, <1>4 DEF TypeOK
<1>6. Settled' = Settled BY <1>2 DEF Settled
<1>7. AllRooted' /\ FlushOK'
  BY <1>1, <1>2, <1>6 DEF AllRooted, Rooted, FlushOK, AwaitsDelete
<1>8. Passed' BY <1>1, <1>2, <1>3, <1>4 DEF Passed
<1>9. StartIsCurrent'
  BY <1>1, <1>2, <1>4, <1>6 DEF StartIsCurrent, TypeOK
<1>10. ExactSleep' /\ WakingOK' BY <1>1, <1>2, <1>6 DEF ExactSleep, WakingOK, BucketOr0
<1>11. UnracedTimeCountedOnce'
  BY <1>1, <1>2 DEF UnracedTimeCountedOnce, Held, AwaitsDelete, BucketOr0
<1> QED BY <1>5, <1>7, <1>8, <1>9, <1>10, <1>11 DEF Inv

-----------------------------------------------------------------------------
(* sched_wakeup                                                            *)

WakingType == [key : Keys, delta : Nat, total : Nat, sleep : ThreadType,
               now : Nat, sure : BOOLEAN, led : BOOLEAN]

(* The wake-up takes the entry out and will bill the sleep it ends.        *)
LEMMA WakeupStep ==
    ASSUME Inv, NEW t \in Tids, Wakeup(t)
    PROVE  Inv'
<1> DEFINE next == [state |-> "running", target |-> thread[t].target]
           k == <<t, START[t].stack_id>>
           delta == SaturatingSub(clock, START[t].ts_ns)
           w == [key |-> k, delta |-> delta, total |-> BucketOr0(k) + delta,
                 sleep |-> thread[t], now |-> clock, sure |-> t \notin stale,
                 led |-> t \notin misled]
<1>1. /\ TypeOK /\ AllRooted /\ Passed /\ StartIsCurrent /\ ExactSleep
      /\ WakingOK /\ FlushOK /\ UnracedTimeCountedOnce
  BY DEF Inv
<1>2. /\ UNCHANGED <<attached, STACKS, BUCKETS, flush, at, unmet, again, entries, kept, idle,
                     copying, flushes, raced, rewalked, earned, shown, dropped, by_reason>>
      /\ thread' = [thread EXCEPT ![t] = next] /\ clock' = clock + 1
      /\ t \notin DOMAIN waking
  BY DEF Wakeup, flushing, cursor, snapshot, races, reported
<1>3. /\ clock \in Nat /\ thread[t] \in ThreadType /\ thread \in [Tids -> ThreadType]
      /\ stale \subseteq Tids /\ misled \subseteq Tids
  BY <1>1 DEF TypeOK
<1>4. next \in ThreadType /\ next.state = "running"
  <2>1. thread[t].target \in BOOLEAN BY <1>3 DEF ThreadType
  <2> QED BY <2>1 DEF ThreadType
<1> HIDE DEF next
<1>5. /\ thread' \in [Tids -> ThreadType] /\ thread'[t] = next
      /\ \A u \in Tids : u # t => thread'[u] = thread[u]
  BY <1>2, <1>3, <1>4
<1>6. \A u \in Tids : thread'[u].state = "asleep" => thread'[u].since < clock'
  <2> SUFFICES ASSUME NEW u \in Tids, thread'[u].state = "asleep" PROVE thread'[u].since < clock'
    OBVIOUS
  <2>1. u # t /\ thread'[u] = thread[u] BY <1>4, <1>5
  <2>2. thread[u] \in ThreadType /\ thread[u].since < clock
    BY <1>1, <1>3, <2>1 DEF Passed
  <2>3. thread[u].since \in Nat BY <2>1, <2>2 DEF ThreadType
  <2> QED BY <1>2, <1>3, <2>1, <2>2, <2>3
<1>7. /\ DOMAIN START \subseteq Tids
      /\ \A u \in DOMAIN START : /\ START[u] \in [ts_ns : Nat, stack_id : StackIds]
                                 /\ START[u].ts_ns \in Nat
                                 /\ START[u].ts_ns < clock /\ Rooted(START[u].stack_id)
  BY <1>1 DEF TypeOK, Passed, AllRooted
<1>8. Settled' = Settled BY <1>2 DEF Settled
<1>9. FlushOK' /\ UnracedTimeCountedOnce'
  <2>1. FlushOK' BY <1>1, <1>2 DEF FlushOK, AwaitsDelete
  <2>2. UnracedTimeCountedOnce'
    BY <1>1, <1>2 DEF UnracedTimeCountedOnce, Held, AwaitsDelete, BucketOr0
  <2> QED BY <2>1, <2>2
<1>10. CASE attached = 2 /\ t \in DOMAIN START
  <2>1. /\ START' = Del(START, t) /\ waking' = Put(waking, t, w)
        /\ stale' = stale \ {t} /\ misled' = misled \ {t}
    BY <1>10 DEF Wakeup
  <2>2. /\ DOMAIN START' = DOMAIN START \ {t}
        /\ \A u \in DOMAIN START' : START'[u] = START[u]
        /\ START' = [u \in DOMAIN START' |-> START'[u]]
    BY <2>1 DEF Del
  <2>3. /\ DOMAIN waking' = DOMAIN waking \cup {t} /\ waking'[t] = w
        /\ \A u \in DOMAIN waking : waking'[u] = waking[u]
    BY <1>2, <2>1 DEF Put
  <2>4. k \in Keys /\ k[1] = t /\ k[2] = START[t].stack_id
    BY <1>7, <1>10 DEF Keys
  <2>5. delta \in Nat /\ delta = clock - START[t].ts_ns
    BY <1>3, <1>7, <1>10 DEF SaturatingSub
  <2>6. BucketOr0(k) \in Nat BY <1>1 DEF TypeOK, BucketOr0
  <2> HIDE DEF k, delta
  <2>7. /\ w \in WakingType
        /\ w.key = k /\ w.delta = delta /\ w.total = BucketOr0(k) + delta
        /\ w.sleep = thread[t] /\ w.now = clock /\ w.sure = (t \notin stale)
        /\ w.led = (t \notin misled)
    BY <1>3, <2>4, <2>5, <2>6 DEF WakingType
  <2> HIDE DEF w
  <2>8. TypeOK'
    <3>1. START' \in [DOMAIN START' -> [ts_ns : Nat, stack_id : StackIds]]
      BY <1>7, <2>2
    <3>2. /\ DOMAIN START' \subseteq Tids /\ DOMAIN waking' \subseteq Tids
          /\ stale' \subseteq Tids /\ misled' \subseteq Tids
      BY <1>1, <1>3, <1>7, <2>1, <2>2, <2>3 DEF TypeOK
    <3>3. \A u \in DOMAIN waking' : waking'[u] \in WakingType
      BY <1>1, <2>3, <2>7 DEF TypeOK, WakingType
    <3>4. clock' \in Nat BY <1>2, <1>3
    <3> QED BY <1>1, <1>2, <1>5, <3>1, <3>2, <3>3, <3>4 DEF TypeOK, WakingType
  <2>9. AllRooted'
    BY <1>1, <1>2, <1>7, <1>8, <1>10, <2>2, <2>3, <2>4, <2>7 DEF AllRooted, Rooted
  <2>10. Passed' BY <1>2, <1>3, <1>6, <1>7, <2>2 DEF Passed
  <2>11. StartIsCurrent'
    BY <1>1, <1>2, <1>5, <1>7, <1>8, <2>1, <2>2 DEF StartIsCurrent
  <2>12. ExactSleep'
    <3>1. ASSUME w.sure
          PROVE  /\ w.sleep.state = "asleep" /\ w.sleep.target
                 /\ w.delta = w.now - w.sleep.since
                 /\ w.key[2] # -1 /\ w.led => Settled[w.key[2]] = w.sleep.stack
      <4>1. t \notin stale /\ (w.led => t \notin misled) BY <2>7, <3>1
      <4>2. /\ thread[t].state = "asleep" /\ thread[t].target
            /\ START[t].ts_ns = thread[t].since
            /\ START[t].stack_id # -1 /\ t \notin misled =>
                  Settled[START[t].stack_id] = thread[t].stack
        BY <1>1, <1>10, <4>1 DEF StartIsCurrent
      <4>3. w.sleep.state = "asleep" /\ w.sleep.target BY <2>7, <4>2
      <4>4. w.delta = w.now - w.sleep.since BY <2>5, <2>7, <4>2
      <4>5. w.key[2] # -1 /\ w.led => Settled[w.key[2]] = w.sleep.stack
        BY <2>4, <2>7, <4>1, <4>2
      <4> QED BY <4>3, <4>4, <4>5
    <3> QED BY <1>1, <1>2, <1>8, <2>3, <3>1 DEF ExactSleep
  <2>13. WakingOK' BY <1>1, <1>2, <2>3, <2>4, <2>7 DEF WakingOK, BucketOr0
  <2> QED BY <1>9, <2>8, <2>9, <2>10, <2>11, <2>12, <2>13 DEF Inv
<1>11. CASE ~(attached = 2 /\ t \in DOMAIN START)
  <2>1. /\ UNCHANGED <<START, waking, misled>>
        /\ stale' = IF t \in DOMAIN START THEN stale \cup {t} ELSE stale
    BY <1>11 DEF Wakeup
  <2>2. TypeOK'
    <3>1. stale' \subseteq Tids /\ clock' \in Nat BY <1>2, <1>3, <2>1
    <3> QED BY <1>1, <1>2, <1>5, <2>1, <3>1 DEF TypeOK
  <2>3. AllRooted' BY <1>1, <1>2, <1>8, <2>1 DEF AllRooted, Rooted
  <2>4. Passed' BY <1>2, <1>3, <1>6, <1>7, <2>1 DEF Passed
  <2>5. StartIsCurrent'
    BY <1>1, <1>2, <1>5, <1>7, <1>8, <2>1 DEF StartIsCurrent
  <2>6. ExactSleep' /\ WakingOK'
    BY <1>1, <1>2, <1>8, <2>1 DEF ExactSleep, WakingOK, BucketOr0
  <2> QED BY <1>9, <2>2, <2>3, <2>4, <2>5, <2>6 DEF Inv
<1> QED BY <1>10, <1>11

(* The flush and its iterator leave the threads' side alone, and the stack *)
(* a slot has for good.                                                    *)
LEMMA FlushKeeps ==
    ASSUME Inv, UNCHANGED <<clock, thread, START, waking, stale, misled>>, Settled' = Settled
    PROVE  Passed' /\ StartIsCurrent' /\ ExactSleep'
BY DEF Inv, Passed, StartIsCurrent, ExactSleep

(* The insert adds the sleep to the bucket; if the flush has read it and   *)
(* not deleted it yet, the bucket is raced.                                *)
LEMMA WakeupInsertStep ==
    ASSUME Inv, NEW t \in Tids, WakeupInsert(t)
    PROVE  Inv'
<1> DEFINE w == waking[t]
           k == waking[t].key
<1>1. /\ TypeOK /\ AllRooted /\ Passed /\ StartIsCurrent /\ ExactSleep
      /\ WakingOK /\ FlushOK /\ UnracedTimeCountedOnce
  BY DEF Inv
<1>2. /\ UNCHANGED <<attached, clock, thread, START, STACKS, flush, at, entries, kept, idle,
                     copying, flushes, stale, misled, shown, dropped, by_reason>>
      /\ waking' = Del(waking, t) /\ t \in DOMAIN waking
  BY DEF WakeupInsert, snapshot, marks, reported
<1>3. /\ DOMAIN waking' = DOMAIN waking \ {t}
      /\ \A u \in DOMAIN waking' : u \in DOMAIN waking /\ waking'[u] = waking[u]
  BY <1>2 DEF Del
<1>4. /\ k \in Keys /\ w.delta \in Nat /\ w.total \in Nat /\ Rooted(k[2]) /\ k[1] = t
      /\ k \notin raced => w.total = BucketOr0(k) + w.delta
  BY <1>1, <1>2 DEF TypeOK, AllRooted, WakingOK
<1>5. Settled' = Settled BY <1>2 DEF Settled
<1>6. StartIsCurrent' /\ Passed' BY <1>1, <1>2, <1>5 DEF StartIsCurrent, Passed
<1>7. ExactSleep' BY <1>1, <1>2, <1>3, <1>5 DEF ExactSleep
<1>8. /\ DOMAIN waking' \subseteq Tids
      /\ \A u \in DOMAIN waking' : waking'[u] \in WakingType
  BY <1>1, <1>3 DEF TypeOK, WakingType
<1>9. CASE HasRoom(BUCKETS, k, BucketsMax)
  <2>1. /\ BUCKETS' = Put(BUCKETS, k, w.total)
        /\ earned' = [earned EXCEPT ![k] = @ + w.delta]
        /\ raced' = IF AwaitsDelete(k) THEN raced \cup {k} ELSE raced
        /\ rewalked' = rewalked \cup MetAgain(k)
        /\ again' = (again \ {k}) \cup MetAgain(k)
        /\ unmet' = unmet \ {k}
    BY <1>9 DEF WakeupInsert
  <2>2. /\ DOMAIN BUCKETS' = DOMAIN BUCKETS \cup {k} /\ BUCKETS'[k] = w.total
        /\ \A j \in DOMAIN BUCKETS : j # k => BUCKETS'[j] = BUCKETS[j]
        /\ BUCKETS' = [j \in DOMAIN BUCKETS' |-> BUCKETS'[j]]
    BY <2>1 DEF Put
  <2>3. /\ earned' \in [Keys -> Nat] /\ earned'[k] = earned[k] + w.delta
        /\ \A j \in Keys : j # k => earned'[j] = earned[j]
    BY <1>1, <1>4, <2>1 DEF TypeOK
  <2>4. raced' \subseteq Keys /\ raced \subseteq raced' BY <1>1, <1>4, <2>1 DEF TypeOK
  <2>5. /\ MetAgain(k) \subseteq Keys
        /\ rewalked' \subseteq Keys /\ again' \subseteq Keys /\ unmet' \subseteq Keys
        /\ rewalked \subseteq rewalked'
    <3>1. MetAgain(k) \subseteq Keys BY DEF MetAgain
    <3> QED BY <1>1, <2>1, <3>1 DEF TypeOK
  <2> HIDE DEF w, k
  <2>6. TypeOK'
    <3>1. BUCKETS' \in [DOMAIN BUCKETS' -> Nat] /\ DOMAIN BUCKETS' \subseteq Keys
      BY <1>1, <1>4, <2>2 DEF TypeOK
    <3> QED BY <1>1, <1>2, <1>8, <2>3, <2>4, <2>5, <3>1 DEF TypeOK, WakingType
  <2>7. AllRooted' BY <1>1, <1>2, <1>3, <1>4, <1>5, <2>2 DEF AllRooted, Rooted
  <2>8. WakingOK'
    <3>1. ASSUME NEW u \in DOMAIN waking'
          PROVE  /\ waking'[u].key[1] = u
                 /\ waking'[u].key \notin raced' =>
                       waking'[u].total = (IF waking'[u].key \in DOMAIN BUCKETS'
                                           THEN BUCKETS'[waking'[u].key] ELSE 0)
                                          + waking'[u].delta
      <4>1. u \in DOMAIN waking /\ u # t /\ waking'[u] = waking[u] BY <1>3, <3>1
      <4>2. waking[u].key # k /\ waking[u].key[1] = u BY <1>1, <1>4, <4>1 DEF WakingOK
      <4>3. (IF waking[u].key \in DOMAIN BUCKETS' THEN BUCKETS'[waking[u].key] ELSE 0)
            = BucketOr0(waking[u].key)
        BY <2>2, <4>2 DEF BucketOr0
      <4> QED BY <1>1, <2>4, <4>1, <4>2, <4>3 DEF WakingOK
    <3> QED BY <3>1 DEF WakingOK, BucketOr0
  <2>9. FlushOK'
    <3>1. again' \subseteq rewalked' BY <1>1, <2>1 DEF FlushOK
    <3> QED BY <1>1, <1>2, <2>2, <2>5, <3>1 DEF FlushOK, AwaitsDelete
  <2>10. UnracedTimeCountedOnce'
    <3>1. ASSUME NEW j \in Keys, j \notin raced'
          PROVE  /\ shown'[j] + dropped'[j] + Held(j)' >= earned'[j]
                 /\ j \notin rewalked' => shown'[j] + dropped'[j] + Held(j)' = earned'[j]
      <4>1. /\ shown[j] + dropped[j] + Held(j) >= earned[j]
            /\ j \notin rewalked => shown[j] + dropped[j] + Held(j) = earned[j]
        BY <1>1, <2>4, <3>1 DEF UnracedTimeCountedOnce
      <4>2. AwaitsDelete(j)' <=> AwaitsDelete(j) BY <1>2 DEF AwaitsDelete
      <4>3. CASE j # k
        <5>1. BucketOr0(j)' = BucketOr0(j) BY <2>2, <4>3 DEF BucketOr0
        <5>2. Held(j)' = Held(j) BY <1>2, <4>2, <5>1 DEF Held
        <5> QED BY <1>2, <2>3, <2>5, <4>1, <4>3, <5>2
      <4>4. CASE j = k
        <5>1. ~AwaitsDelete(k) /\ k \notin raced BY <2>1, <2>4, <3>1, <4>4
        <5>2. BucketOr0(j)' = BucketOr0(j) + w.delta BY <1>4, <2>2, <4>4, <5>1 DEF BucketOr0, w, k
        <5>3. BucketOr0(j) \in Nat BY <1>1 DEF TypeOK, BucketOr0
        <5>4. kept[j] \in Nat /\ idle[j] \in Nat BY <1>1 DEF TypeOK
        <5>5. Held(j)' = Held(j) + w.delta /\ Held(j) \in Nat
          BY <1>2, <1>4, <4>2, <4>4, <5>1, <5>2, <5>3, <5>4 DEF Held
        <5>6. shown[j] \in Nat /\ dropped[j] \in Nat /\ earned[j] \in Nat BY <1>1 DEF TypeOK
        <5> QED BY <1>2, <1>4, <2>3, <2>5, <4>1, <4>4, <5>5, <5>6
      <4> QED BY <4>3, <4>4
    <3> QED BY <3>1 DEF UnracedTimeCountedOnce
  <2> QED BY <1>6, <1>7, <2>6, <2>7, <2>8, <2>9, <2>10 DEF Inv
<1>10. CASE ~HasRoom(BUCKETS, k, BucketsMax)
  <2>1. UNCHANGED <<BUCKETS, earned, raced, rewalked, again, unmet>> BY <1>10 DEF WakeupInsert
  <2>2. TypeOK' BY <1>1, <1>2, <1>8, <2>1 DEF TypeOK, WakingType
  <2>3. AllRooted' /\ WakingOK'
    BY <1>1, <1>2, <1>3, <1>5, <2>1 DEF AllRooted, Rooted, WakingOK, BucketOr0
  <2>4. FlushOK' BY <1>1, <1>2, <2>1 DEF FlushOK, AwaitsDelete
  <2>5. UnracedTimeCountedOnce'
    BY <1>1, <1>2, <2>1 DEF UnracedTimeCountedOnce, Held, AwaitsDelete, BucketOr0
  <2> QED BY <1>6, <1>7, <2>2, <2>3, <2>4, <2>5 DEF Inv
<1> QED BY <1>9, <1>10

-----------------------------------------------------------------------------
(* flush_window                                                            *)

(* A step that only moves the flush and its iterator on.                   *)
LEMMA CursorStep ==
    ASSUME Inv, attached' \in 0..2,
           flush' \in {"idle", "next", "value", "delete", "report"},
           at' \subseteq Keys, unmet' \subseteq Keys, again' \subseteq Keys,
           flushes' \in 0..MaxFlushes, FlushOK',
           UNCHANGED <<clock, thread, START, STACKS, BUCKETS, waking, entries, kept, idle, copying,
                       stale, misled, raced, rewalked, earned, shown, dropped, by_reason>>
    PROVE  Inv'
<1>1. Settled' = Settled BY DEF Settled
<1>2. TypeOK' BY DEF Inv, TypeOK
<1>3. AllRooted' /\ WakingOK' BY <1>1 DEF Inv, AllRooted, Rooted, WakingOK, BucketOr0
<1>4. UnracedTimeCountedOnce'
  BY DEF Inv, UnracedTimeCountedOnce, Held, AwaitsDelete, BucketOr0
<1> QED BY <1>1, <1>2, <1>3, <1>4, FlushKeeps DEF Inv

(* The iterator is set on BUCKETS.                                         *)
LEMMA FlushBeginStep ==
    ASSUME Inv, FlushBegin
    PROVE  Inv'
<1>1. TypeOK /\ FlushOK BY DEF Inv
<1>2. /\ UNCHANGED <<attached, clock, thread, START, STACKS, BUCKETS, waking, at, again, entries,
                     kept, idle, copying, stale, misled, raced, rewalked, earned, shown, dropped,
                     by_reason>>
      /\ flush = "idle" /\ flush' = "next" /\ unmet' = DOMAIN BUCKETS
      /\ flushes < MaxFlushes /\ flushes' = flushes + 1
  BY DEF FlushBegin, snapshot, marks, races, reported
<1>3. flushes' \in 0..MaxFlushes BY <1>1, <1>2, OffCpuAssumption DEF TypeOK
<1>4. FlushOK' BY <1>1, <1>2 DEF FlushOK
<1> QED BY <1>1, <1>2, <1>3, <1>4, CursorStep DEF TypeOK

(* The key it meets is present, and is met again only after it went back.  *)
LEMMA FlushNextStep ==
    ASSUME Inv, NEW k \in Keys, FlushNext(k)
    PROVE  Inv'
<1>1. TypeOK /\ FlushOK BY DEF Inv
<1>2. /\ UNCHANGED <<attached, clock, thread, START, STACKS, BUCKETS, waking, flushes, entries,
                     kept, idle, copying, stale, misled, raced, rewalked, earned, shown, dropped,
                     by_reason>>
      /\ flush = "next" /\ flush' = "value" /\ at' = {k} /\ k \in DOMAIN BUCKETS
      /\ ~AwaitsDelete(k) \/ k \in again
      /\ unmet' = unmet \ {k} /\ again' = again \ {k}
  BY DEF FlushNext, snapshot, marks, races, reported
<1>3. unmet' \subseteq Keys /\ again' \subseteq Keys BY <1>1, <1>2 DEF TypeOK
<1>4. FlushOK' BY <1>1, <1>2 DEF FlushOK, AwaitsDelete
<1> QED BY <1>1, <1>2, <1>3, <1>4, CursorStep DEF TypeOK

(* Everything read is to be deleted.                                       *)
LEMMA FlushReadEndStep ==
    ASSUME Inv, FlushReadEnd
    PROVE  Inv'
<1>1. TypeOK /\ FlushOK BY DEF Inv
<1>2. /\ UNCHANGED <<attached, clock, thread, START, STACKS, BUCKETS, waking, unmet, flushes,
                     entries, kept, idle, copying, stale, misled, raced, rewalked, earned, shown,
                     dropped, by_reason>>
      /\ flush = "next" /\ flush' = "delete" /\ at' = {} /\ again' = {}
  BY DEF FlushReadEnd, snapshot, marks, races, reported
<1>3. FlushOK' BY <1>1, <1>2 DEF FlushOK
<1> QED BY <1>1, <1>2, <1>3, CursorStep DEF TypeOK

(* The window is over.                                                     *)
LEMMA FlushEndStep ==
    ASSUME Inv, FlushEnd
    PROVE  Inv'
<1>1. TypeOK /\ FlushOK BY DEF Inv
<1>2. /\ UNCHANGED <<attached, clock, thread, START, STACKS, BUCKETS, waking, at, unmet, again,
                     flushes, entries, kept, idle, copying, stale, misled, raced, rewalked,
                     earned, shown, dropped, by_reason>>
      /\ flush = "report" /\ flush' = "idle" /\ at = {}
  BY DEF FlushEnd, cursor, snapshot, marks, races, reported
<1>3. FlushOK' BY <1>1, <1>2 DEF FlushOK
<1> QED BY <1>1, <1>2, <1>3, CursorStep DEF TypeOK

(* What is read counts as held by the snapshot, no longer by the bucket; a *)
(* second entry of the bucket only adds to what is held.                   *)
LEMMA FlushValueStep ==
    ASSUME Inv, NEW k \in Keys, FlushValue(k)
    PROVE  Inv'
<1> DEFINE b == BUCKETS[k]
<1>1. TypeOK /\ AllRooted /\ WakingOK /\ FlushOK /\ UnracedTimeCountedOnce BY DEF Inv
<1>2. /\ UNCHANGED <<attached, clock, thread, START, STACKS, BUCKETS, waking, at, unmet, again,
                     copying, flushes, stale, misled, raced, rewalked, earned, shown, dropped,
                     by_reason>>
      /\ flush = "value" /\ flush' = "next" /\ k \in at
      /\ entries' = [entries EXCEPT ![k] = @ + 1]
      /\ kept' = [kept EXCEPT ![k] = @ + IF IsIdle(b) THEN 0 ELSE b]
      /\ idle' = [idle EXCEPT ![k] = @ + IF IsIdle(b) THEN b ELSE 0]
  BY DEF FlushValue, cursor, marks, races, reported
<1>3. k \in DOMAIN BUCKETS /\ (AwaitsDelete(k) => k \in rewalked) BY <1>1, <1>2 DEF FlushOK
<1>4. /\ b \in Nat /\ BucketOr0(k) = b
      /\ entries \in [Keys -> Nat] /\ kept \in [Keys -> Nat] /\ idle \in [Keys -> Nat]
  BY <1>1, <1>3 DEF TypeOK, BucketOr0
<1> HIDE DEF b
<1>5. /\ entries' \in [Keys -> Nat] /\ kept' \in [Keys -> Nat] /\ idle' \in [Keys -> Nat]
      /\ entries'[k] = entries[k] + 1 /\ kept'[k] + idle'[k] = kept[k] + idle[k] + b
      /\ \A j \in Keys : j # k =>
            entries'[j] = entries[j] /\ kept'[j] = kept[j] /\ idle'[j] = idle[j]
  BY <1>2, <1>4
<1>6. Settled' = Settled BY <1>2 DEF Settled
<1>7. TypeOK' BY <1>1, <1>2, <1>5 DEF TypeOK
<1>8. AllRooted'
  <2>1. Rooted(k[2]) BY <1>1, <1>3 DEF AllRooted
  <2> QED BY <1>1, <1>2, <1>5, <1>6, <2>1 DEF AllRooted, Rooted
<1>9. WakingOK' /\ FlushOK' BY <1>1, <1>2 DEF WakingOK, FlushOK, BucketOr0
<1>10. UnracedTimeCountedOnce'
  <2>1. ASSUME NEW j \in Keys, j # k PROVE Held(j)' = Held(j)
    BY <1>2, <1>5, <2>1 DEF Held, AwaitsDelete, BucketOr0
  <2>2. /\ Held(k)' >= Held(k) /\ Held(k) \in Nat /\ Held(k)' \in Nat
        /\ ~AwaitsDelete(k) => Held(k)' = Held(k)
    <3>1. AwaitsDelete(k)' BY <1>4, <1>5 DEF AwaitsDelete
    <3>2. Held(k)' = kept[k] + idle[k] + b BY <1>4, <1>5, <3>1 DEF Held
    <3>3. Held(k) = kept[k] + idle[k] + IF AwaitsDelete(k) THEN 0 ELSE b BY <1>4 DEF Held
    <3> QED BY <1>4, <3>2, <3>3
  <2>3. ASSUME NEW j \in Keys \ raced'
        PROVE  /\ shown'[j] + dropped'[j] + Held(j)' >= earned'[j]
               /\ j \notin rewalked' => shown'[j] + dropped'[j] + Held(j)' = earned'[j]
    <3>1. /\ shown[j] + dropped[j] + Held(j) >= earned[j]
          /\ j \notin rewalked => shown[j] + dropped[j] + Held(j) = earned[j]
      BY <1>1, <1>2 DEF UnracedTimeCountedOnce
    <3>2. shown[j] \in Nat /\ dropped[j] \in Nat /\ earned[j] \in Nat BY <1>1 DEF TypeOK
    <3> QED BY <1>2, <1>3, <2>1, <2>2, <3>1, <3>2
  <2> QED BY <2>3 DEF UnracedTimeCountedOnce
<1> QED BY <1>2, <1>6, <1>7, <1>8, <1>9, <1>10, FlushKeeps DEF Inv

(* Only a key that was read is deleted; a wake-up that is about to add to  *)
(* the deleted value makes the bucket raced.                               *)
LEMMA FlushDeleteStep ==
    ASSUME Inv, NEW k \in Keys, FlushDelete(k)
    PROVE  Inv'
<1>1. TypeOK /\ AllRooted /\ WakingOK /\ FlushOK /\ UnracedTimeCountedOnce BY DEF Inv
<1>2. /\ UNCHANGED <<attached, clock, thread, START, STACKS, waking, flush, at, unmet, again, kept,
                     idle, copying, flushes, stale, misled, rewalked, earned, shown, dropped,
                     by_reason>>
      /\ flush = "delete" /\ AwaitsDelete(k)
      /\ entries' = [entries EXCEPT ![k] = @ - 1]
      /\ BUCKETS' = Del(BUCKETS, k)
      /\ raced' = IF \E t \in DOMAIN waking : waking[t].key = k THEN raced \cup {k} ELSE raced
  BY DEF FlushDelete, cursor, marks, reported
<1>3. /\ DOMAIN BUCKETS' = DOMAIN BUCKETS \ {k}
      /\ \A j \in DOMAIN BUCKETS' : BUCKETS'[j] = BUCKETS[j]
      /\ BUCKETS' = [j \in DOMAIN BUCKETS' |-> BUCKETS'[j]]
  BY <1>2 DEF Del
<1>4. raced' \subseteq Keys /\ raced \subseteq raced' BY <1>1, <1>2 DEF TypeOK
<1>5. entries' \in [Keys -> Nat] /\ \A j \in Keys : j # k => entries'[j] = entries[j]
  BY <1>1, <1>2 DEF TypeOK, AwaitsDelete
<1>6. Settled' = Settled BY <1>2 DEF Settled
<1>7. TypeOK'
  <2>1. BUCKETS' \in [DOMAIN BUCKETS' -> Nat] /\ DOMAIN BUCKETS' \subseteq Keys
    BY <1>1, <1>3 DEF TypeOK
  <2> QED BY <1>1, <1>2, <1>4, <1>5, <2>1 DEF TypeOK
<1>8. AllRooted' BY <1>1, <1>2, <1>3, <1>6 DEF AllRooted, Rooted
<1>9. WakingOK'
  <2>1. ASSUME NEW t \in DOMAIN waking, waking[t].key \notin raced'
        PROVE  waking[t].key # k /\ waking[t].key \notin raced
    BY <1>2, <1>4, <2>1
  <2> QED BY <1>1, <1>2, <1>3, <2>1 DEF WakingOK, BucketOr0
<1>10. FlushOK' BY <1>1, <1>2 DEF FlushOK
<1>11. UnracedTimeCountedOnce'
  <2>1. ASSUME NEW j \in Keys PROVE Held(j)' = Held(j)
    <3>1. CASE j = k
      <4>1. AwaitsDelete(j) BY <1>2, <3>1
      <4>2. BucketOr0(j)' = 0 BY <1>3, <3>1 DEF BucketOr0
      <4> QED BY <1>2, <4>1, <4>2 DEF Held
    <3>2. CASE j # k
      <4>1. AwaitsDelete(j)' <=> AwaitsDelete(j) BY <1>5, <3>2 DEF AwaitsDelete
      <4>2. BucketOr0(j)' = BucketOr0(j) BY <1>3, <3>2 DEF BucketOr0
      <4> QED BY <1>2, <4>1, <4>2 DEF Held
    <3> QED BY <3>1, <3>2
  <2> QED BY <1>1, <1>2, <1>4, <2>1 DEF UnracedTimeCountedOnce
<1> QED BY <1>2, <1>6, <1>7, <1>8, <1>9, <1>10, <1>11, FlushKeeps DEF Inv

(* Idle time goes from the snapshot to what is dropped.                    *)
LEMMA FlushRetainStep ==
    ASSUME Inv, FlushRetain
    PROVE  Inv'
<1>1. TypeOK /\ AllRooted /\ WakingOK /\ FlushOK /\ UnracedTimeCountedOnce BY DEF Inv
<1>2. /\ UNCHANGED <<attached, clock, thread, START, STACKS, BUCKETS, waking, at, unmet, again,
                     entries, kept, copying, flushes, stale, misled, raced, rewalked, earned,
                     shown, by_reason>>
      /\ flush = "delete" /\ flush' = "report" /\ idle' = Nothing
      /\ dropped' = [k \in Keys |-> dropped[k] + idle[k]]
  BY DEF FlushRetain, cursor, marks, races
<1>3. Settled' = Settled BY <1>2 DEF Settled
<1>4. /\ kept \in [Keys -> Nat] /\ idle \in [Keys -> Nat] /\ dropped \in [Keys -> Nat]
      /\ shown \in [Keys -> Nat] /\ earned \in [Keys -> Nat]
  BY <1>1 DEF TypeOK
<1>5. idle' \in [Keys -> Nat] /\ dropped' \in [Keys -> Nat] BY <1>2, <1>4 DEF Nothing
<1>6. TypeOK' BY <1>1, <1>2, <1>5 DEF TypeOK
<1>7. AllRooted' /\ WakingOK' BY <1>1, <1>2, <1>3 DEF AllRooted, Rooted, WakingOK, BucketOr0
<1>8. FlushOK' BY <1>1, <1>2 DEF FlushOK
<1>9. UnracedTimeCountedOnce'
  <2>1. ASSUME NEW j \in Keys
        PROVE  shown'[j] + dropped'[j] + Held(j)' = shown[j] + dropped[j] + Held(j)
    <3> DEFINE rest == IF AwaitsDelete(j) THEN 0 ELSE BucketOr0(j)
    <3>1. rest \in Nat BY <1>1 DEF TypeOK, BucketOr0
    <3>2. Held(j) = kept[j] + idle[j] + rest BY DEF Held
    <3>3. Held(j)' = kept[j] + 0 + rest
      BY <1>2 DEF Held, AwaitsDelete, BucketOr0, Nothing
    <3> HIDE DEF rest
    <3> QED BY <1>2, <1>4, <3>1, <3>2, <3>3
  <2> QED BY <1>1, <1>2, <2>1 DEF UnracedTimeCountedOnce
<1> QED BY <1>2, <1>3, <1>6, <1>7, <1>8, <1>9, FlushKeeps DEF Inv

(* A lookup takes the stack out of its slot, to put it back.               *)
LEMMA FlushLookupStep ==
    ASSUME Inv, NEW k \in Keys, FlushLookup(k)
    PROVE  Inv' /\ Settled' = Settled
<1>1. TypeOK /\ AllRooted /\ WakingOK /\ FlushOK /\ UnracedTimeCountedOnce BY DEF Inv
<1>2. /\ UNCHANGED <<attached, clock, thread, START, BUCKETS, waking, flush, unmet, again, entries,
                     kept, idle, flushes, stale, misled, raced, rewalked, earned, shown, dropped,
                     by_reason>>
      /\ flush = "report" /\ at = {} /\ kept[k] > 0 /\ at' = {k}
      /\ copying' = Keep(STACKS, {k[2]}) /\ STACKS' = Del(STACKS, k[2])
  BY DEF FlushLookup, snapshot, marks, races, reported
<1>3. DOMAIN copying = {} BY <1>1, <1>2 DEF FlushOK
<1>4. /\ DOMAIN copying' = DOMAIN STACKS \cap {k[2]} /\ DOMAIN STACKS' = DOMAIN STACKS \ {k[2]}
      /\ \A id \in DOMAIN copying' : copying'[id] = STACKS[id]
      /\ \A id \in DOMAIN STACKS' : STACKS'[id] = STACKS[id]
      /\ copying' = [id \in DOMAIN copying' |-> copying'[id]]
      /\ STACKS' = [id \in DOMAIN STACKS' |-> STACKS'[id]]
  BY <1>2 DEF Keep, Del
<1>5. STACKS \in [DOMAIN STACKS -> Stacks] /\ DOMAIN STACKS \subseteq StackIds \ {-1}
  BY <1>1 DEF TypeOK
<1>6. Settled = STACKS BY <1>3, <1>5 DEF Settled
<1>7. Settled' = STACKS BY <1>4, <1>5 DEF Settled
<1>8. TypeOK'
  <2>1. copying' \in [DOMAIN copying' -> Stacks] /\ STACKS' \in [DOMAIN STACKS' -> Stacks]
    BY <1>4, <1>5
  <2>2. DOMAIN copying' \subseteq StackIds \ {-1} /\ DOMAIN STACKS' \subseteq StackIds \ {-1}
    BY <1>4, <1>5
  <2> QED BY <1>1, <1>2, <2>1, <2>2 DEF TypeOK
<1>9. AllRooted' /\ WakingOK'
  BY <1>1, <1>2, <1>6, <1>7 DEF AllRooted, Rooted, WakingOK, BucketOr0
<1>10. FlushOK'
  <2>1. k[2] # -1 => k[2] \in DOMAIN copying'
    BY <1>1, <1>2, <1>4, <1>6 DEF AllRooted, Rooted
  <2> QED BY <1>1, <1>2, <2>1 DEF FlushOK
<1>11. UnracedTimeCountedOnce'
  BY <1>1, <1>2 DEF UnracedTimeCountedOnce, Held, AwaitsDelete, BucketOr0
<1> QED BY <1>2, <1>6, <1>7, <1>8, <1>9, <1>10, <1>11, FlushKeeps DEF Inv

(* The stack is back in its slot, and the key's time is shown.             *)
LEMMA FlushShowStep ==
    ASSUME Inv, NEW k \in Keys, FlushShow(k)
    PROVE  Inv' /\ Settled' = Settled
<1> DEFINE x == classify(Frames(k))
<1>1. TypeOK /\ AllRooted /\ WakingOK /\ FlushOK /\ UnracedTimeCountedOnce BY DEF Inv
<1>2. /\ UNCHANGED <<attached, clock, thread, START, BUCKETS, waking, flush, unmet, again, entries,
                     idle, flushes, stale, misled, raced, rewalked, earned, dropped>>
      /\ flush = "report" /\ k \in at /\ at' = {}
      /\ STACKS' = Settled /\ copying' = NoEntries
      /\ shown' = [shown EXCEPT ![k] = @ + kept[k]]
      /\ by_reason' = [by_reason EXCEPT ![k][x] = @ + kept[k]]
      /\ kept' = [kept EXCEPT ![k] = 0]
  BY DEF FlushShow, marks, races
<1>3. DOMAIN copying' = {} /\ copying' = [id \in {} |-> id] BY <1>2 DEF NoEntries
<1>4. Settled \in [DOMAIN Settled -> Stacks] /\ DOMAIN Settled \subseteq StackIds \ {-1}
  BY <1>1, SettledFacts
<1>5. Settled' = Settled
  <2>1. Settled' = [id \in DOMAIN STACKS' |-> STACKS'[id]] BY <1>3 DEF Settled
  <2> QED BY <1>2, <1>4, <2>1
<1>6. /\ kept \in [Keys -> Nat] /\ shown \in [Keys -> Nat] /\ idle \in [Keys -> Nat]
      /\ dropped \in [Keys -> Nat] /\ by_reason \in [Keys -> [Reasons -> Nat]]
  BY <1>1 DEF TypeOK
<1>7. /\ kept' \in [Keys -> Nat] /\ shown' \in [Keys -> Nat]
      /\ kept'[k] = 0 /\ shown'[k] = shown[k] + kept[k]
      /\ \A j \in Keys : j # k => kept'[j] = kept[j] /\ shown'[j] = shown[j]
  BY <1>2, <1>6
<1>8. by_reason' \in [Keys -> [Reasons -> Nat]]
  <2> DEFINE row == [by_reason[k] EXCEPT ![x] = @ + kept[k]]
  <2>1. kept[k] \in Nat /\ by_reason[k] \in [Reasons -> Nat] BY <1>6
  <2>2. by_reason' = [by_reason EXCEPT ![k] = row] BY <1>2
  <2>3. \A y \in Reasons : row[y] \in Nat BY <2>1
  <2>4. row \in [Reasons -> Nat] BY <2>1, <2>3
  <2> HIDE DEF row
  <2> QED BY <1>6, <2>2, <2>4
<1>9. TypeOK'
  <2>1. STACKS' \in [DOMAIN STACKS' -> Stacks] /\ DOMAIN STACKS' \subseteq StackIds \ {-1}
    BY <1>2, <1>4
  <2>2. copying' \in [DOMAIN copying' -> Stacks] BY <1>3
  <2> HIDE DEF x
  <2> QED BY <1>1, <1>2, <1>3, <1>7, <1>8, <2>1, <2>2 DEF TypeOK
<1> HIDE DEF x
<1>10. AllRooted'
  <2>1. ASSUME NEW j \in Keys, kept'[j] > 0 \/ shown'[j] > 0 PROVE kept[j] > 0 \/ shown[j] > 0
    BY <1>6, <1>7, <2>1
  <2> QED BY <1>1, <1>2, <1>5, <2>1 DEF AllRooted, Rooted
<1>11. WakingOK' /\ FlushOK' BY <1>1, <1>2, <1>3 DEF WakingOK, FlushOK, BucketOr0
<1>12. UnracedTimeCountedOnce'
  <2>1. ASSUME NEW j \in Keys
        PROVE  shown'[j] + dropped'[j] + Held(j)' = shown[j] + dropped[j] + Held(j)
    <3> DEFINE rest == IF AwaitsDelete(j) THEN 0 ELSE BucketOr0(j)
    <3>1. rest \in Nat BY <1>1 DEF TypeOK, BucketOr0
    <3>2. Held(j) = kept[j] + idle[j] + rest BY DEF Held
    <3>3. Held(j)' = kept'[j] + idle[j] + rest
      BY <1>2 DEF Held, AwaitsDelete, BucketOr0
    <3> HIDE DEF rest
    <3> QED BY <1>2, <1>6, <1>7, <3>1, <3>2, <3>3
  <2> QED BY <1>1, <1>2, <2>1 DEF UnracedTimeCountedOnce
<1> QED BY <1>2, <1>5, <1>9, <1>10, <1>11, <1>12, FlushKeeps DEF Inv

-----------------------------------------------------------------------------
(* The theorems.                                                           *)

(* At the start all maps are empty and all threads run.                    *)
LEMMA InitInv == Init => Inv
<1> SUFFICES ASSUME Init PROVE Inv OBVIOUS
<1>1. /\ DOMAIN START = {} /\ DOMAIN STACKS = {} /\ DOMAIN BUCKETS = {} /\ DOMAIN waking = {}
      /\ DOMAIN copying = {}
      /\ START = [k \in DOMAIN START |-> START[k]] /\ STACKS = [k \in DOMAIN STACKS |-> STACKS[k]]
      /\ BUCKETS = [k \in DOMAIN BUCKETS |-> BUCKETS[k]]
      /\ copying = [k \in DOMAIN copying |-> copying[k]]
  BY DEF Init, NoEntries
<1>2. \A t \in Tids : thread[t].state = "running" BY DEF Init
<1>3. TypeOK
  <2>1. thread \in [Tids -> ThreadType] BY DEF Init, ThreadType
  <2>2. /\ earned \in [Keys -> Nat] /\ shown \in [Keys -> Nat] /\ dropped \in [Keys -> Nat]
        /\ entries \in [Keys -> Nat] /\ kept \in [Keys -> Nat] /\ idle \in [Keys -> Nat]
        /\ by_reason \in [Keys -> [Reasons -> Nat]]
    BY DEF Init, Nothing
  <2>3. flushes \in 0..MaxFlushes BY OffCpuAssumption DEF Init
  <2>4. /\ attached \in 0..2 /\ clock \in Nat /\ flush = "idle"
        /\ at = {} /\ unmet = {} /\ again = {}
        /\ stale = {} /\ misled = {} /\ raced = {} /\ rewalked = {}
    BY DEF Init
  <2> QED BY <1>1, <2>1, <2>2, <2>3, <2>4 DEF TypeOK
<1>4. \A k \in Keys : /\ shown[k] = 0 /\ dropped[k] = 0 /\ earned[k] = 0
                      /\ entries[k] = 0 /\ kept[k] = 0 /\ idle[k] = 0
  BY DEF Init, Nothing
<1>5. AllRooted /\ Passed /\ StartIsCurrent /\ ExactSleep /\ WakingOK
  BY <1>1, <1>2, <1>4 DEF AllRooted, Passed, StartIsCurrent, ExactSleep, WakingOK
<1>6. FlushOK BY <1>1 DEF Init, FlushOK
<1>7. UnracedTimeCountedOnce
  BY <1>1, <1>4 DEF UnracedTimeCountedOnce, Held, AwaitsDelete, BucketOr0
<1> QED BY <1>3, <1>5, <1>6, <1>7 DEF Inv

(* Attaching a probe touches no map.                                       *)
LEMMA QuietStep ==
    ASSUME Inv, attached' \in 0..2,
           UNCHANGED <<clock, thread, START, STACKS, BUCKETS, waking, flushing, marks, races,
                       earned, reported>>
    PROVE  Inv'
<1>1. UNCHANGED <<clock, thread, START, STACKS, BUCKETS, waking, flush, at, unmet, again, entries,
                  kept, idle, copying, flushes, stale, misled, raced, rewalked, earned, shown,
                  dropped, by_reason>>
  BY DEF flushing, cursor, snapshot, marks, races, reported
<1>2. FlushOK' BY <1>1 DEF Inv, FlushOK, AwaitsDelete
<1> QED BY <1>1, <1>2, CursorStep DEF Inv, TypeOK

(* One lemma above per action.                                             *)
LEMMA NextInv == Inv /\ [Next]_vars => Inv'
<1> SUFFICES ASSUME Inv, [Next]_vars PROVE Inv' OBVIOUS
<1>1. attached \in 0..2 BY DEF Inv, TypeOK
<1>2. CASE UNCHANGED vars BY <1>1, <1>2, QuietStep DEF vars
<1>3. CASE AttachNext
  <2>1. attached' \in 0..2 BY <1>1, <1>3 DEF AttachNext
  <2> QED BY <1>3, <2>1, QuietStep DEF AttachNext
<1>4. CASE \E t \in Tids : \/ \E s \in Stacks : Sleep(t, s) \/ Exit(t, s)
                           \/ \E target \in BOOLEAN : Spawn(t, target)
                           \/ Wakeup(t)
                           \/ WakeupInsert(t)
  BY <1>4, SleepStep, ExitStep, SpawnStep, WakeupStep, WakeupInsertStep
<1>5. CASE FlushBegin \/ FlushReadEnd \/ FlushRetain \/ FlushEnd
  BY <1>5, FlushBeginStep, FlushReadEndStep, FlushRetainStep, FlushEndStep
<1>6. CASE \E k \in Keys : \/ FlushNext(k)
                           \/ FlushValue(k)
                           \/ FlushDelete(k)
                           \/ FlushLookup(k)
                           \/ FlushShow(k)
  BY <1>6, FlushNextStep, FlushValueStep, FlushDeleteStep, FlushLookupStep, FlushShowStep
<1> QED BY <1>2, <1>3, <1>4, <1>5, <1>6 DEF Next

(* Hence it holds in every state.                                          *)
LEMMA AlwaysInv == Spec => []Inv
BY InitInv, NextInv, PTL DEF Spec

(* Every map, and the history, has its type.                               *)
THEOREM OffCpuTypeCorrect == Spec => []TypeOK
<1>1. Inv => TypeOK BY DEF Inv
<1> QED BY <1>1, AlwaysInv, PTL

(* A START entry that no exit and no early wake-up has left behind is of   *)
(* the sleep its thread is in, with a stack id that leads to the stack it  *)
(* sleeps in, however slots collide and tids are reused; only a stack id   *)
(* taken from a slot in the middle of a lookup may lead to another stack.  *)
THEOREM StartIsOfThisSleep == Spec => []StartIsCurrent
<1>1. Inv => StartIsCurrent BY DEF Inv
<1> QED BY <1>1, AlwaysInv, PTL

(* try_sched_wakeup bills the length of the sleep it ends, under the stack *)
(* of that sleep; the exceptions are those of StartIsOfThisSleep.          *)
THEOREM SleepIsExact == Spec => []ExactSleep
<1>1. Inv => ExactSleep BY DEF Inv
<1> QED BY <1>1, AlwaysInv, PTL

(* The drain that flush_window does while wake-ups go on, in chains that   *)
(* they reorder under its iterator, loses nothing of a bucket unless a     *)
(* wake-up changed that bucket between the read and the delete, and counts *)
(* it once unless the iterator, having met it, went back in its chain.     *)
THEOREM DrainCountsOnce == Spec => []UnracedTimeCountedOnce
<1>1. Inv => UnracedTimeCountedOnce BY DEF Inv
<1> QED BY <1>1, AlwaysInv, PTL

-----------------------------------------------------------------------------
(* Reasons.                                                                *)

(* A set of numbers that is not empty has a least one.                     *)
LEMMA LeastNat ==
    ASSUME NEW T \in SUBSET Nat, T # {}
    PROVE  \E x \in T : \A y \in T : x <= y
<1> DEFINE R == OpToRel(<, Nat)
<1>1. IsWellFoundedOn(R, Nat) BY NatLessThanWellFounded
<1>2. \A x, y \in Nat : <<y, x>> \in R <=> y < x BY DEF OpToRel
<1> HIDE DEF R
<1>3. PICK x \in T : \A y \in T : ~(<<y, x>> \in R) BY <1>1, WFMin
<1>4. \A y \in T : x <= y
  <2> SUFFICES ASSUME NEW y \in T PROVE x <= y OBVIOUS
  <2>1. x \in Nat /\ y \in Nat OBVIOUS
  <2>2. ~(y < x) BY <1>2, <1>3, <2>1
  <2> QED BY <2>1, <2>2
<1> QED BY <1>4

(* The order that load sorts in is total.                                  *)
LEMMA BeforeFacts ==
    /\ \A i \in Known : i \in Nat /\ KallsymsFile[i].addr \in Nat /\ KallsymsFile[i].addr # 0
    /\ \A i \in Known : Before(i, i)
    /\ \A i, j \in Known : Before(i, j) \/ Before(j, i)
    /\ \A i, j \in Known : Before(i, j) /\ Before(j, i) => i = j
    /\ \A i, j, l \in Known : Before(i, j) /\ Before(j, l) => Before(i, l)
<1>1. \A i \in Known : i \in Nat /\ KallsymsFile[i].addr \in Nat /\ KallsymsFile[i].addr # 0
  <2> SUFFICES ASSUME NEW i \in Known
               PROVE  i \in Nat /\ KallsymsFile[i].addr \in Nat /\ KallsymsFile[i].addr # 0
    OBVIOUS
  <2>1. i \in DOMAIN KallsymsFile /\ KallsymsFile[i].addr # 0 BY DEF Known
  <2> DEFINE R == [addr : Nat, name : Names]
  <2>2. KallsymsFile[i] \in R /\ i \in Nat
    <3>1. KallsymsFile \in Seq(R) BY KallsymsAssumption
    <3> HIDE DEF R
    <3>2. Len(KallsymsFile) \in Nat /\ DOMAIN KallsymsFile = 1..Len(KallsymsFile) BY <3>1
    <3> QED BY <2>1, <3>1, <3>2
  <2> QED BY <2>1, <2>2
<1> QED BY <1>1 DEF Before

(* Rank numbers the symbols from 1 to their count, in that order.          *)
LEMMA RankFacts ==
    /\ IsFiniteSet(Known) /\ Cardinality(Known) \in Nat
    /\ \A i \in Known : Rank(i) \in 1..Cardinality(Known)
    /\ \A i, j \in Known : Before(i, j) <=> Rank(i) <= Rank(j)
    /\ \A n \in 1..Cardinality(Known) : \E i \in Known : Rank(i) = n
<1> DEFINE N == Cardinality(Known)
           Upto(i) == {j \in Known : Before(j, i)}
           r == [i \in Known |-> Rank(i)]
<1>1. IsFiniteSet(Known)
  <2>1. DOMAIN KallsymsFile = 1..Len(KallsymsFile) /\ Len(KallsymsFile) \in Nat
    BY KallsymsAssumption
  <2>2. IsFiniteSet(1..Len(KallsymsFile)) BY <2>1, FS_Interval
  <2>3. Known \in SUBSET (1..Len(KallsymsFile)) BY <2>1 DEF Known
  <2> QED BY <2>2, <2>3, FS_Subset
<1>2. N \in Nat BY <1>1, FS_CardinalityType
<1>3. ASSUME NEW i \in Known
      PROVE  IsFiniteSet(Upto(i)) /\ Rank(i) = Cardinality(Upto(i)) /\ Rank(i) \in 1..N
  <2>1. Upto(i) \in SUBSET Known /\ i \in Upto(i) BY BeforeFacts
  <2>2. IsFiniteSet(Upto(i)) /\ Cardinality(Upto(i)) <= N BY <1>1, <2>1, FS_Subset
  <2>3. Cardinality(Upto(i)) \in Nat /\ Cardinality(Upto(i)) # 0
    BY <2>1, <2>2, FS_CardinalityType, FS_EmptySet
  <2> QED BY <1>2, <2>2, <2>3 DEF Rank
<1>4. ASSUME NEW i \in Known, NEW j \in Known, Before(i, j)
      PROVE  Rank(i) <= Rank(j) /\ (Rank(i) = Rank(j) => i = j)
  <2>1. Upto(i) \in SUBSET Upto(j) BY <1>4, BeforeFacts
  <2>2. /\ Cardinality(Upto(i)) <= Cardinality(Upto(j))
        /\ Cardinality(Upto(j)) = Cardinality(Upto(i)) => Upto(j) = Upto(i)
    BY <1>3, <2>1, FS_Subset
  <2>3. Upto(j) = Upto(i) => i = j BY <1>4, BeforeFacts
  <2> QED BY <1>3, <2>2, <2>3
<1>5. \A i, j \in Known : Before(i, j) <=> Rank(i) <= Rank(j)
  <2> SUFFICES ASSUME NEW i \in Known, NEW j \in Known, Rank(i) <= Rank(j), ~Before(i, j)
               PROVE  FALSE
    BY <1>4
  <2>1. Before(j, i) BY BeforeFacts
  <2>2. Rank(i) = Rank(j) /\ i = j
    <3>1. Rank(i) \in 1..N /\ Rank(j) \in 1..N BY <1>3
    <3>2. Rank(j) <= Rank(i) /\ (Rank(j) = Rank(i) => j = i) BY <1>4, <2>1
    <3> HIDE DEF N
    <3> QED BY <1>2, <3>1, <3>2
  <2> QED BY <2>1, <2>2
<1>6. r \in Injection(Known, 1..N)
  <2>1. r \in [Known -> 1..N] BY <1>3
  <2>2. ASSUME NEW i \in Known, NEW j \in Known, r[i] = r[j] PROVE i = j
    <3>1. Rank(i) = Rank(j) BY <2>2
    <3> QED BY <1>4, <3>1, BeforeFacts
  <2> QED BY <2>1, <2>2 DEF Injection, IsInjective
<1>7. IsFiniteSet(1..N) /\ Cardinality(1..N) = N
  BY <1>2, FS_Interval
<1> HIDE DEF r
<1>8. r \in Surjection(Known, 1..N) BY <1>6, <1>7, FS_Injection
<1>9. \A n \in 1..N : \E i \in Known : r[i] = n BY <1>8 DEF Surjection
<1>10. \A i \in Known : r[i] = Rank(i) BY DEF r
<1> QED BY <1>1, <1>2, <1>3, <1>5, <1>9, <1>10

(* The search finds the symbol that starts nearest below an address.       *)
LEMMA LookupNearest ==
    ASSUME NEW ip \in Nat, NEW m \in Known, Nearest(m, ip)
    PROVE  lookup(ip) = KallsymsFile[m].name
<1> DEFINE N == Cardinality(Known)
           p == Rank(m)
<1>1. /\ N \in Nat /\ p \in 1..N
      /\ \A n \in 1..N : \E i \in Known : Rank(i) = n
      /\ \A i \in Known : Rank(i) \in Nat
  BY RankFacts
<1>2. DOMAIN syms = 1..N BY DEF syms
<1>3. ASSUME NEW n \in 1..N, NEW i \in Known, Rank(i) = n
      PROVE  syms[n] = KallsymsFile[i]
  <2>1. \A j \in Known : Rank(j) = n => j = i
    <3> SUFFICES ASSUME NEW j \in Known, Rank(j) = n PROVE j = i OBVIOUS
    <3>1. Rank(i) <= Rank(j) /\ Rank(j) <= Rank(i) BY <1>1, <1>3
    <3> QED BY <3>1, RankFacts, BeforeFacts
  <2>2. (CHOOSE j \in Known : Rank(j) = n) = i BY <1>3, <2>1
  <2> QED BY <2>2 DEF syms
<1>4. ASSUME NEW n \in 1..N PROVE syms[n].addr <= ip <=> n <= p
  <2>1. PICK i \in Known : Rank(i) = n BY <1>1
  <2>2. syms[n] = KallsymsFile[i] BY <1>3, <2>1
  <2>3. Before(i, m) <=> n <= p BY <2>1, RankFacts
  <2>4. KallsymsFile[i].addr <= ip => Before(i, m) BY DEF Nearest
  <2>5. Before(i, m) => KallsymsFile[i].addr <= ip
    BY BeforeFacts DEF Nearest, Before
  <2> QED BY <2>2, <2>3, <2>4, <2>5
<1>5. {n \in DOMAIN syms : syms[n].addr <= ip} = 1..p
  BY <1>1, <1>2, <1>4
<1>6. p \in Nat /\ p # 0 BY <1>1
<1>7. Cardinality(1..p) = p BY <1>6, FS_Interval
<1>8. partition_point(ip) = p BY <1>5, <1>7 DEF partition_point
<1>9. syms[p] = KallsymsFile[m] BY <1>1, <1>3
<1>10. ip # 0 BY BeforeFacts DEF Nearest
<1> QED BY <1>6, <1>8, <1>9, <1>10 DEF lookup

(* Below all symbols it finds none.                                        *)
LEMMA LookupNone ==
    ASSUME NEW ip \in Nat, \A i \in Known : ~(KallsymsFile[i].addr <= ip)
    PROVE  lookup(ip) = "none"
<1>1. \A n \in DOMAIN syms : \E i \in Known : syms[n] = KallsymsFile[i]
  <2> SUFFICES ASSUME NEW n \in DOMAIN syms PROVE \E i \in Known : syms[n] = KallsymsFile[i]
    OBVIOUS
  <2>1. n \in 1..Cardinality(Known) BY DEF syms
  <2>2. (CHOOSE i \in Known : Rank(i) = n) \in Known BY <2>1, RankFacts
  <2> QED BY <2>1, <2>2 DEF syms
<1>2. {n \in DOMAIN syms : syms[n].addr <= ip} = {} BY <1>1
<1>3. partition_point(ip) = 0 BY <1>2, FS_EmptySet DEF partition_point
<1> QED BY <1>3 DEF lookup

(* So Kallsyms::lookup names the function of every address of a stack,     *)
(* however /proc/kallsyms is ordered.                                      *)
THEOREM LookupRight == \A ip \in DOMAIN FunctionAt : lookup(ip) = FunctionAt[ip]
<1> SUFFICES ASSUME NEW ip \in DOMAIN FunctionAt PROVE lookup(ip) = FunctionAt[ip]
  OBVIOUS
<1>1. ip \in Nat BY OffCpuAssumption
<1>2. CASE \E i \in Known : KallsymsFile[i].addr <= ip
  BY <1>1, <1>2, KernelAssumption, LookupNearest
<1>3. CASE ~\E i \in Known : KallsymsFile[i].addr <= ip
  BY <1>1, <1>3, KernelAssumption, LookupNone
<1> QED BY <1>2, <1>3

(* classify, which stops at the first frame from the leaf that is block    *)
(* I/O or futex, finds the cause of the sleep.                             *)
LEMMA ClassifyIsCause ==
    ASSUME NEW s \in Stacks
    PROVE  classify([i \in DOMAIN FramesOf[s] |-> lookup(FramesOf[s][i])]) = Cause[s]
<1> DEFINE f == FramesOf[s]
           frames == [i \in DOMAIN f |-> lookup(f[i])]
           specific == {i \in DOMAIN frames : frames[i] \in {"block", "futex"}}
           first == CHOOSE i \in specific : \A j \in specific : i <= j
           schedules == \E i \in DOMAIN frames : frames[i] = "schedule"
<1>1. f \in Seq(DOMAIN FunctionAt) BY OffCpuAssumption
<1>2. DOMAIN f = 1..Len(f) /\ Len(f) \in Nat /\ \A i \in DOMAIN f : f[i] \in DOMAIN FunctionAt
  BY <1>1
<1>3. DOMAIN frames = DOMAIN f /\ \A i \in DOMAIN f : frames[i] = FunctionAt[f[i]]
  BY <1>2, LookupRight
<1>4. \A i \in DOMAIN f : \A name : Called(s, name, i) <=> frames[i] = name
  BY <1>3 DEF Called
<1>5. classify(frames) =
        IF specific # {} THEN IF frames[first] = "block" THEN "BlockIo" ELSE "Futex"
        ELSE IF schedules THEN "SchedDelay" ELSE "Other"
  BY DEF classify
<1>6. Cause[s] = CASE NearestIs(s, "block", "futex") -> "BlockIo"
                   [] NearestIs(s, "futex", "block") -> "Futex"
                   [] OTHER -> IF \E i \in DOMAIN f : Called(s, "schedule", i)
                               THEN "SchedDelay" ELSE "Other"
  BY DEF Cause
<1>7. (\E i \in DOMAIN f : Called(s, "schedule", i)) <=> schedules BY <1>3, <1>4
<1>8. \A i \in specific : i \in DOMAIN f /\ i \in Nat BY <1>2, <1>3
<1> HIDE DEF frames, first, schedules
<1>9. ASSUME specific = {} PROVE classify(frames) = Cause[s]
  <2>1. \A i \in DOMAIN f : frames[i] # "block" /\ frames[i] # "futex" BY <1>3, <1>9
  <2>2. ~NearestIs(s, "block", "futex") /\ ~NearestIs(s, "futex", "block")
    BY <1>4, <2>1 DEF NearestIs
  <2>3. Cause[s] = IF schedules THEN "SchedDelay" ELSE "Other" BY <1>6, <1>7, <2>2
  <2>4. classify(frames) = IF schedules THEN "SchedDelay" ELSE "Other" BY <1>5, <1>9
  <2> QED BY <2>3, <2>4
<1>10. ASSUME specific # {} PROVE classify(frames) = Cause[s]
  <2>1. \E i \in specific : \A j \in specific : i <= j
    <3>1. specific \in SUBSET Nat BY <1>8
    <3> HIDE DEF specific
    <3> QED BY <1>10, <3>1, LeastNat
  <2>2. first \in specific /\ \A j \in specific : first <= j BY <2>1 DEF first
  <2>3. first \in DOMAIN f /\ first \in Nat /\ frames[first] \in {"block", "futex"}
    BY <1>8, <2>2
  <2>4. \A j \in 1..(first - 1) : j \in DOMAIN f /\ frames[j] # "block" /\ frames[j] # "futex"
    <3> SUFFICES ASSUME NEW j \in 1..(first - 1)
                 PROVE  j \in DOMAIN f /\ frames[j] # "block" /\ frames[j] # "futex"
      OBVIOUS
    <3>1. j \in DOMAIN f /\ j \in Nat /\ ~(first <= j) BY <1>2, <2>3
    <3>2. j \notin specific BY <2>2, <3>1
    <3> QED BY <1>3, <3>1, <3>2
  <2>5. ASSUME NEW name \in {"block", "futex"}, NEW other \in {"block", "futex"}, name # other
        PROVE  NearestIs(s, name, other) <=> frames[first] = name
    <3>1. ASSUME frames[first] = name PROVE NearestIs(s, name, other)
      BY <1>4, <2>3, <2>4, <3>1 DEF NearestIs
    <3>2. ASSUME frames[first] = other PROVE ~NearestIs(s, name, other)
      <4> SUFFICES ASSUME NEW i \in DOMAIN f, Called(s, name, i),
                          \A j \in 1..(i - 1) : ~Called(s, other, j)
                   PROVE  FALSE
        BY DEF NearestIs
      <4>1. frames[i] = name /\ i \in specific BY <1>3, <1>4
      <4>2. first <= i /\ first # i /\ i \in Nat BY <1>8, <2>2, <2>5, <3>2, <4>1
      <4>3. first \in 1..(i - 1) BY <1>2, <2>3, <4>2
      <4> QED BY <1>4, <2>3, <3>2, <4>3
    <3> QED BY <2>3, <2>5, <3>1, <3>2
  <2>6. NearestIs(s, "block", "futex") <=> frames[first] = "block" BY <2>5
  <2>7. NearestIs(s, "futex", "block") <=> frames[first] = "futex" BY <2>5
  <2>8. classify(frames) = IF frames[first] = "block" THEN "BlockIo" ELSE "Futex"
    BY <1>5, <1>10
  <2>9. CASE frames[first] = "block"
    <3>1. Cause[s] = "BlockIo" BY <1>6, <2>6, <2>7, <2>9
    <3> QED BY <2>8, <2>9, <3>1
  <2>10. CASE frames[first] = "futex"
    <3>1. Cause[s] = "Futex" BY <1>6, <2>6, <2>7, <2>10
    <3> QED BY <2>8, <2>10, <3>1
  <2> QED BY <2>3, <2>9, <2>10
<1> QED BY <1>9, <1>10 DEF frames

(* No step frees or reassigns a slot of STACKS, but for a lookup's copy.   *)
LEMMA StacksOnlyGrow == Inv /\ [Next]_vars => StacksGrow
<1> SUFFICES ASSUME Inv, [Next]_vars PROVE StacksGrow OBVIOUS
<1>1. CASE \E t \in Tids : \E s \in Stacks : Sleep(t, s) \/ Exit(t, s)
  <2>1. PICK t \in Tids, s \in Stacks : Sleep(t, s) \/ Exit(t, s) BY <1>1
  <2>2. try_sched_switch(t, s) /\ UNCHANGED copying BY <2>1 DEF Sleep, Exit, flushing
  <2> QED BY <2>2, SwitchFacts DEF Inv
<1>2. CASE UNCHANGED <<STACKS, copying>>
  <2>1. Settled' = Settled BY <1>2 DEF Settled
  <2> QED BY <2>1 DEF StacksGrow
<1>3. CASE \E k \in Keys : FlushLookup(k) \/ FlushShow(k)
  <2>1. Settled' = Settled BY <1>3, FlushLookupStep, FlushShowStep
  <2> QED BY <2>1 DEF StacksGrow
<1>4. \/ \E t \in Tids : \E s \in Stacks : Sleep(t, s) \/ Exit(t, s)
      \/ UNCHANGED <<STACKS, copying>>
      \/ \E k \in Keys : FlushLookup(k) \/ FlushShow(k)
  BY DEF Next, vars, flushing, AttachNext, Spawn, Wakeup, WakeupInsert, FlushBegin, FlushNext,
         FlushValue, FlushReadEnd, FlushDelete, FlushRetain, FlushEnd
<1> QED BY <1>1, <1>2, <1>3, <1>4

(* The report alone adds to shown and by_reason.                           *)
LEMMA ReportAlone ==
    [Next]_vars => (\E k \in Keys : FlushShow(k)) \/ UNCHANGED <<shown, by_reason>>
BY DEF Next, vars, reported, AttachNext, Sleep, Exit, Spawn, Wakeup, WakeupInsert, FlushBegin,
       FlushNext, FlushValue, FlushReadEnd, FlushDelete, FlushRetain, FlushLookup, FlushEnd

(* What flush_window makes of the stack it has copied is its cause.        *)
LEMMA FramesGiveCause ==
    ASSUME Inv, NEW k \in at, flush = "report"
    PROVE  classify(Frames(k)) = CauseOf(k)
<1>1. TypeOK /\ (k[2] # -1 => k[2] \in DOMAIN copying) BY DEF Inv, FlushOK
<1>2. CASE k[2] \in DOMAIN copying
  <2> DEFINE s == copying[k[2]]
  <2>1. s \in Stacks BY <1>1, <1>2 DEF TypeOK
  <2>2. Frames(k) = [i \in DOMAIN FramesOf[s] |-> lookup(FramesOf[s][i])]
    BY <1>2 DEF Frames
  <2>3. k[2] \in DOMAIN Settled /\ Settled[k[2]] = s BY <1>1, <1>2, SettledFacts
  <2> HIDE DEF s
  <2>4. classify(Frames(k)) = Cause[s] BY <2>1, <2>2, ClassifyIsCause
  <2> QED BY <2>3, <2>4 DEF CauseOf
<1>3. CASE k[2] \notin DOMAIN copying
  <2>1. k[2] \notin DOMAIN Settled BY <1>1, <1>3, SettledFacts
  <2>2. Frames(k) = <<>> BY <1>3 DEF Frames
  <2>3. DOMAIN Frames(k) = {} BY <2>2
  <2>4. classify(Frames(k)) = "Other" BY <2>3 DEF classify
  <2> QED BY <2>1, <2>4 DEF CauseOf
<1> QED BY <1>2, <1>3

(* A step keeps what was reported of a bucket under its one cause.         *)
LEMMA CauseStep == Inv /\ Inv' /\ ReportedUnderCause /\ [Next]_vars => ReportedUnderCause'
<1> SUFFICES ASSUME Inv, Inv', ReportedUnderCause, [Next]_vars, NEW j \in Keys, NEW x \in Reasons
             PROVE  by_reason'[j][x] = IF CauseOf(j)' = x THEN shown'[j] ELSE 0
  BY DEF ReportedUnderCause
<1>1. TypeOK /\ TypeOK' /\ AllRooted /\ StacksGrow BY StacksOnlyGrow DEF Inv
<1>2. by_reason[j][x] = IF CauseOf(j) = x THEN shown[j] ELSE 0 BY DEF ReportedUnderCause
<1>3. shown[j] \in Nat /\ by_reason \in [Keys -> [Reasons -> Nat]] BY <1>1 DEF TypeOK
<1>4. ASSUME NEW k \in Keys, FlushShow(k)
      PROVE  by_reason'[j][x] = IF CauseOf(j)' = x THEN shown'[j] ELSE 0
  <2> DEFINE c == classify(Frames(k))
             row == [by_reason[k] EXCEPT ![c] = @ + kept[k]]
  <2>1. /\ flush = "report" /\ k \in at
        /\ shown' = [shown EXCEPT ![k] = @ + kept[k]]
        /\ by_reason' = [by_reason EXCEPT ![k] = row]
    BY <1>4 DEF FlushShow
  <2>2. c = CauseOf(k) BY <2>1, FramesGiveCause
  <2>3. CauseOf(j)' = CauseOf(j)
    <3>1. Settled' = Settled BY <1>4, FlushShowStep
    <3> QED BY <3>1 DEF CauseOf
  <2> HIDE DEF c
  <2>4. /\ by_reason[k] \in [Reasons -> Nat] /\ kept[k] \in Nat
        /\ shown \in [Keys -> Nat]
    BY <1>1 DEF TypeOK
  <2>5. row[x] = IF c = x THEN by_reason[k][x] + kept[k] ELSE by_reason[k][x] BY <2>4
  <2> HIDE DEF row
  <2>6. CASE j = k
    <3>1. by_reason'[j][x] = row[x] /\ shown'[j] = shown[j] + kept[k]
      BY <1>3, <2>1, <2>4, <2>6
    <3> QED BY <1>2, <2>2, <2>3, <2>5, <2>6, <3>1
  <2>7. CASE j # k
    <3>1. by_reason'[j] = by_reason[j] /\ shown'[j] = shown[j] BY <1>3, <2>1, <2>4, <2>7
    <3> QED BY <1>2, <2>3, <3>1
  <2> QED BY <2>6, <2>7
<1>5. CASE UNCHANGED <<shown, by_reason>>
  <2>1. CASE shown[j] = 0 BY <1>2, <1>5, <2>1
  <2>2. CASE shown[j] # 0
    <3>1. Rooted(j[2]) BY <1>1, <1>3, <2>2 DEF AllRooted
    <3>2. CauseOf(j)' = CauseOf(j)
      <4>1. CASE j[2] \in DOMAIN Settled BY <1>1, <4>1 DEF CauseOf, StacksGrow, Cause
      <4>2. CASE j[2] \notin DOMAIN Settled
        <5>1. j[2] = -1 BY <3>1, <4>2 DEF Rooted
        <5>2. DOMAIN Settled' = DOMAIN STACKS' \cup DOMAIN copying' BY DEF Settled
        <5>3. j[2] \notin DOMAIN Settled' BY <1>1, <5>1, <5>2 DEF TypeOK
        <5> QED BY <4>2, <5>3 DEF CauseOf
      <4> QED BY <4>1, <4>2
    <3> QED BY <1>2, <1>5, <3>2
  <2> QED BY <2>1, <2>2
<1> QED BY <1>4, <1>5, ReportAlone

(* In all windows, and for every list of kernel symbols, all time reported *)
(* of a bucket is under the cause of the stack its id stands for: it is    *)
(* still there when flush_window looks it up, lookup names the functions   *)
(* its addresses are in and classify lets the leaf-most decisive frame     *)
(* decide.                                                                 *)
THEOREM ReasonIsCause == Spec => []ReportedUnderCause
<1>1. Init => ReportedUnderCause BY DEF Init, ReportedUnderCause, Nothing
<1> QED BY <1>1, AlwaysInv, CauseStep, PTL DEF Spec
=============================================================================
