---------------------------- MODULE PageIoProofs ----------------------------
(***************************************************************************)
(* TLAPS proofs about PageIo, for any number of threads, requests, CPUs    *)
(* and windows and any map sizes: what try_cch_exit and                    *)
(* try_block_complete add is the time of the call and of the request they  *)
(* belong to, and BLOCK_INFLIGHT keeps no entry of a request that is gone. *)
(***************************************************************************)
EXTENDS PageIo, FiniteSetTheorems, TLAPS

-----------------------------------------------------------------------------
(* The inductive invariant.                                                *)

ProbeType == [cpu : Cpus, word : 1..3, reg : {-1} \cup 0..(WORD - 1),
              duration_ns : 0..MaxClock, since : 0..MaxClock, now : 0..MaxClock,
              sure : BOOLEAN]

(* What TypeOK leaves out.                                                 *)
StateOK ==
    /\ active \in Workloads
    /\ \A t \in DOMAIN fetch : /\ fetch[t] \in [since : 0..MaxClock, armed : BOOLEAN]
                               /\ fetch[t].since <= clock
    /\ \A r \in DOMAIN device : /\ device[r] \in [key : Keys, since : 0..MaxClock]
                                /\ device[r].since <= clock
    /\ IsFiniteSet(DOMAIN FETCH_IN_PROGRESS) /\ IsFiniteSet(DOMAIN BLOCK_INFLIGHT)
    /\ \A t \in DOMAIN FETCH_IN_PROGRESS : FETCH_IN_PROGRESS[t] \in 0..MaxClock
    /\ \A k \in DOMAIN BLOCK_INFLIGHT : BLOCK_INFLIGHT[k] \in 0..MaxClock
    /\ \A t \in DOMAIN probe : probe[t] \in ProbeType
    /\ \A c \in DOMAIN irq :
          /\ irq[c].word \in {"block_total_bytes", "block_max_wait_ns"}
          /\ irq[c].add \in Nat
          /\ irq[c].word = "block_max_wait_ns" => irq[c].add <= MaxClock
    /\ pos # 0 => windows < active.windows

(* An entry the exit probe will find is of a thread of the target process  *)
(* and of the call it returns from, unless another thread left it there.   *)
FetchOK ==
    \A t \in DOMAIN FETCH_IN_PROGRESS \ inherited :
        /\ t \in ours
        /\ t \in DOMAIN fetch /\ fetch[t].armed => FETCH_IN_PROGRESS[t] = fetch[t].since

(* An entry beyond doubt is of the only request at its place.              *)
InflightOK ==
    \A k \in DOMAIN BLOCK_INFLIGHT \ doubtful :
        \E r \in Target : At(k) = {r} /\ device[r].since = BLOCK_INFLIGHT[k]

Inv == TypeOK /\ StateOK /\ FetchOK /\ InflightOK /\ ExactFetch /\ OwnWait

-----------------------------------------------------------------------------
(* Words, maps and the clock.                                              *)

(* The seven words of PageIoCounters.                                      *)
LEMMA LayoutFacts ==
    /\ Words = 7
    /\ \A i \in 1..7 : Layout[i] \in Fields
    /\ \A f \in Fields : \E i \in 1..7 : f = Layout[i]
    /\ \A i, j \in 1..7 : Layout[i] = Layout[j] => i = j
    /\ Layout[1] = "engine_count" /\ Layout[2] = "engine_total_ns"
    /\ Layout[3] = "engine_max_ns" /\ Layout[4] = "block_count"
    /\ Layout[5] = "block_total_bytes" /\ Layout[6] = "block_total_wait_ns"
    /\ Layout[7] = "block_max_wait_ns"
    /\ EngineFields = {Layout[1], Layout[2], Layout[3]}
    /\ \A i \in 1..7 : Layout[i] \in MaxFields <=> i \in {3, 7}
<1>1. Words = 7 BY DEF Words, Layout
<1>2. \A i, j \in 1..7 : Layout[i] = Layout[j] => i = j BY DEF Layout
<1>3. /\ Layout[1] = "engine_count" /\ Layout[2] = "engine_total_ns"
      /\ Layout[3] = "engine_max_ns" /\ Layout[4] = "block_count"
      /\ Layout[5] = "block_total_bytes" /\ Layout[6] = "block_total_wait_ns"
      /\ Layout[7] = "block_max_wait_ns"
  BY DEF Layout
<1>4. Fields = {Layout[i] : i \in 1..7} BY <1>1 DEF Fields
<1>5. EngineFields = {Layout[1], Layout[2], Layout[3]} BY DEF EngineFields
<1>6. \A i \in 1..7 : Layout[i] \in MaxFields <=> i \in {3, 7} BY <1>2, <1>3 DEF MaxFields
<1> QED BY <1>1, <1>2, <1>3, <1>4, <1>5, <1>6

(* A word that a program stores is below WORD.                             *)
LEMMA StoreWordType ==
    ASSUME TypeOK, NEW c \in Cpus, NEW f \in Fields, NEW old \in 0..(WORD - 1), NEW x \in Nat,
           f \in MaxFields => x <= MaxClock, StoreWord(c, f, old, x)
    PROVE  COUNTERS' \in [Cpus -> [Fields -> 0..(WORD - 1)]]
<1>1. COUNTERS \in [Cpus -> [Fields -> 0..(WORD - 1)]] BY DEF TypeOK
<1>2. WORD \in Nat /\ WORD > 0 /\ MaxClock < WORD /\ MaxClock \in Nat BY PageIoAssumption
<1>3. Updated(f, old, x) \in 0..(WORD - 1)
  <2>1. CASE f \in MaxFields BY <1>2, <2>1 DEF Updated, MaxOf
  <2>2. CASE f \notin MaxFields
    <3>1. old + x \in Int BY <1>2
    <3>2. (old + x) % WORD \in 0..(WORD - 1) BY <1>2, <3>1
    <3> QED BY <2>2, <3>2 DEF Updated
  <2> QED BY <2>1, <2>2
<1> QED BY <1>1, <1>3 DEF StoreWord

(* An insert keeps a map within its size, finite, and adds at most a key,  *)
(* with the present time.                                                  *)
LEMMA RememberFacts ==
    ASSUME NEW map, NEW key, NEW max \in Nat, IsFiniteSet(DOMAIN map),
           Cardinality(DOMAIN map) <= max
    PROVE  LET new == Remember(map, key, max) IN
           /\ IsFiniteSet(DOMAIN new) /\ Cardinality(DOMAIN new) <= max
           /\ DOMAIN map \subseteq DOMAIN new /\ DOMAIN new \subseteq DOMAIN map \cup {key}
           /\ key \in DOMAIN new => new[key] = clock
           /\ \A k \in DOMAIN map : k # key => new[k] = map[k]
<1>1. CASE HasRoom(map, key, max)
  <2>1. Remember(map, key, max) = Put(map, key, clock) BY <1>1 DEF Remember
  <2>2. /\ DOMAIN Put(map, key, clock) = DOMAIN map \cup {key}
        /\ Put(map, key, clock)[key] = clock
        /\ \A k \in DOMAIN map : k # key => Put(map, key, clock)[k] = map[k]
    BY DEF Put
  <2>3. Cardinality(DOMAIN map) \in Nat BY FS_CardinalityType
  <2>4. /\ IsFiniteSet(DOMAIN map \cup {key})
        /\ Cardinality(DOMAIN map \cup {key}) =
              IF key \in DOMAIN map THEN Cardinality(DOMAIN map)
              ELSE Cardinality(DOMAIN map) + 1
    BY FS_AddElement
  <2>5. Cardinality(DOMAIN map \cup {key}) <= max BY <1>1, <2>3, <2>4 DEF HasRoom
  <2> QED BY <2>1, <2>2, <2>4, <2>5
<1>2. CASE ~HasRoom(map, key, max)
  <2>1. Remember(map, key, max) = map /\ key \notin DOMAIN map BY <1>2 DEF Remember, HasRoom
  <2> QED BY <2>1
<1> QED BY <1>1, <1>2

(* A removal does too.                                                     *)
LEMMA DelFacts ==
    ASSUME NEW map, NEW key
    PROVE  /\ DOMAIN Del(map, key) = DOMAIN map \ {key}
           /\ \A k \in DOMAIN map : k # key => Del(map, key)[k] = map[k]
           /\ \A max \in Nat : IsFiniteSet(DOMAIN map) /\ Cardinality(DOMAIN map) <= max =>
                 IsFiniteSet(DOMAIN map \ {key}) /\ Cardinality(DOMAIN map \ {key}) <= max
<1>1. /\ DOMAIN Del(map, key) = DOMAIN map \ {key}
      /\ \A k \in DOMAIN map : k # key => Del(map, key)[k] = map[k]
  BY DEF Del
<1>2. ASSUME NEW max \in Nat, IsFiniteSet(DOMAIN map), Cardinality(DOMAIN map) <= max
      PROVE  IsFiniteSet(DOMAIN map \ {key}) /\ Cardinality(DOMAIN map \ {key}) <= max
  <2>1. /\ IsFiniteSet(DOMAIN map \ {key})
        /\ Cardinality(DOMAIN map \ {key}) =
              IF key \in DOMAIN map THEN Cardinality(DOMAIN map) - 1 ELSE Cardinality(DOMAIN map)
    BY <1>2, FS_RemoveElement
  <2>2. Cardinality(DOMAIN map) \in Nat BY <1>2, FS_CardinalityType
  <2> QED BY <1>2, <2>1, <2>2
<1> QED BY <1>1, <1>2

(* What an insert leaves in a map.                                         *)
LEMMA PutFacts ==
    ASSUME NEW map, NEW key, NEW value
    PROVE  /\ DOMAIN Put(map, key, value) = DOMAIN map \cup {key}
           /\ Put(map, key, value)[key] = value
           /\ \A k \in DOMAIN map : k # key => Put(map, key, value)[k] = map[k]
BY DEF Put

-----------------------------------------------------------------------------
(* The steps.                                                              *)

(* What the programs keep between two runs does not depend on COUNTERS,    *)
(* the flush or the probes that update them.                               *)
LEMMA MapsKept ==
    ASSUME Inv, UNCHANGED <<clock, fetch, device, tids, FETCH_IN_PROGRESS, BLOCK_INFLIGHT, doubtful>>
    PROVE  FetchOK' /\ InflightOK'
<1>1. FetchOK' BY DEF Inv, FetchOK, tids
<1>2. InflightOK' BY DEF Inv, InflightOK, At
<1> QED BY <1>1, <1>2

(* Steps that touch neither the maps nor the programs that run: the next   *)
(* probe is attached, and the flush.                                       *)
LEMMA OutsideInv ==
    ASSUME Inv, AttachNext \/ FlushBegin \/ FlushRead \/ FlushReport
    PROVE  Inv'
<1>1. UNCHANGED <<active, traced, tids, inflight, COUNTERS, probe, irq, preempted, doubtful>>
  BY DEF AttachNext, FlushBegin, FlushRead, FlushReport, updating
<1>2. FetchOK' /\ InflightOK' BY <1>1, MapsKept DEF traced, inflight
<1>3. StateOK'
  <2>1. pos' # 0 => windows' < active'.windows
    BY <1>1 DEF Inv, StateOK, AttachNext, FlushBegin, FlushRead, FlushReport, flushing
  <2> QED BY <1>1, <2>1 DEF Inv, StateOK, traced, inflight
<1>4. ExactFetch' /\ OwnWait' BY <1>1 DEF Inv, ExactFetch, OwnWait, tids
<1>5. /\ attached' \in 0..4 /\ pos' \in 0..(Words * NCpu + 1) /\ windows' \in 0..active.windows
      /\ {snapshot', prev_snapshot'} \subseteq [Fields -> 0..(WORD - 1)]
  <2>1. /\ attached \in 0..4 /\ pos \in 0..(7 * NCpu + 1) /\ windows \in 0..active.windows
        /\ snapshot \in [Fields -> 0..(WORD - 1)] /\ prev_snapshot \in [Fields -> 0..(WORD - 1)]
        /\ COUNTERS \in [Cpus -> [Fields -> 0..(WORD - 1)]]
    BY LayoutFacts DEF Inv, TypeOK
  <2>2. /\ WORD \in Nat /\ WORD > 0 /\ MaxClock \in Nat /\ NCpu \in Nat \ {0}
        /\ active.windows \in Nat /\ Words = 7
    BY PageIoAssumption, LayoutFacts DEF Inv, StateOK
  <2>3. CASE AttachNext BY <2>1, <2>2, <2>3 DEF AttachNext, flushing
  <2>4. CASE FlushBegin BY <2>1, <2>2, <2>4 DEF FlushBegin
  <2>5. CASE FlushRead
    <3> DEFINE c == ((pos - 1) \div 7) + 1
               i == ((pos - 1) % 7) + 1
    <3>1. pos \in 1..(7 * NCpu) BY <2>2, <2>5 DEF FlushRead
    <3>2. c \in Cpus /\ i \in 1..7 BY <2>2, <3>1 DEF Cpus
    <3>3. snapshot' = [snapshot EXCEPT ![Layout[i]] = Join(Layout[i], @, COUNTERS[c][Layout[i]])]
      BY <2>2, <2>5 DEF FlushRead
    <3> HIDE DEF c, i
    <3>4. Layout[i] \in Fields BY <3>2, LayoutFacts
    <3>5. snapshot[Layout[i]] \in 0..(WORD - 1) /\ COUNTERS[c][Layout[i]] \in 0..(WORD - 1)
      BY <2>1, <3>2, <3>4
    <3>6. Join(Layout[i], snapshot[Layout[i]], COUNTERS[c][Layout[i]]) \in 0..(WORD - 1)
      <4>1. \A a, b \in 0..(WORD - 1) : (a + b) % WORD \in 0..(WORD - 1) BY <2>2
      <4> QED BY <3>5, <4>1 DEF Join, Updated, MaxOf
    <3>7. snapshot' \in [Fields -> 0..(WORD - 1)] BY <2>1, <3>3, <3>6
    <3>8. pos' = pos + 1 /\ UNCHANGED <<attached, windows, prev_snapshot>>
      BY <2>5 DEF FlushRead
    <3> QED BY <2>1, <2>2, <3>1, <3>7, <3>8
  <2>6. CASE FlushReport
    <3>1. windows < active.windows BY <2>1, <2>2, <2>6 DEF FlushReport, Inv, StateOK
    <3>2. Zero \in [Fields -> 0..(WORD - 1)] BY <2>2 DEF Zero
    <3> QED BY <2>1, <2>2, <2>6, <3>1, <3>2 DEF FlushReport
  <2> QED BY <2>3, <2>4, <2>5, <2>6
<1>6. TypeOK' BY <1>1, <1>5 DEF Inv, TypeOK, traced, inflight, tids
<1> QED BY <1>2, <1>3, <1>4, <1>6 DEF Inv

(* CCH_fetch_page is called: the entry, if there is room for one, is that  *)
(* of the call.                                                            *)
LEMMA EntryInv ==
    ASSUME Inv, NEW t \in Tids, try_cch_entry(t)
    PROVE  Inv'
<1>1. UNCHANGED <<active, attached, device, ours, BLOCK_INFLIGHT, updating, probe, irq, flushing,
                  preempted, doubtful>>
  BY DEF try_cch_entry
<1>2. /\ MaxClock \in Nat /\ FetchMax \in Nat /\ clock \in 0..MaxClock /\ clock' \in 0..MaxClock
      /\ clock' >= clock
  BY PageIoAssumption DEF Inv, TypeOK, Tick, try_cch_entry
<1> DEFINE F == FETCH_IN_PROGRESS
           call == [since |-> clock, armed |-> attached >= 2]
           seen == attached >= 1 /\ t \in ours
<1>3. /\ IsFiniteSet(DOMAIN F) /\ Cardinality(DOMAIN F) <= FetchMax /\ DOMAIN F \subseteq Tids
      /\ DOMAIN fetch \subseteq Tids /\ attached \in 0..4 /\ ours \subseteq Tids
      /\ inherited \subseteq DOMAIN F /\ inherited' = IF seen THEN inherited \ {t} ELSE inherited
  BY DEF Inv, TypeOK, StateOK, try_cch_entry
<1>4. /\ DOMAIN fetch' = DOMAIN fetch \cup {t} /\ fetch'[t] = call
      /\ \A u \in DOMAIN fetch : u # t => fetch'[u] = fetch[u]
  <2>1. fetch' = Put(fetch, t, call) BY DEF try_cch_entry
  <2> HIDE DEF call
  <2> QED BY <2>1 DEF Put
<1>5. /\ IsFiniteSet(DOMAIN F') /\ Cardinality(DOMAIN F') <= FetchMax
      /\ DOMAIN F \subseteq DOMAIN F' /\ DOMAIN F' \subseteq DOMAIN F \cup {t}
      /\ seen /\ t \in DOMAIN F' => F'[t] = clock
      /\ ~seen => F' = F
      /\ \A u \in DOMAIN F : u # t => F'[u] = F[u]
  <2>1. CASE seen
    <3>1. F' = Remember(F, t, FetchMax) BY <2>1 DEF try_cch_entry
    <3> QED BY <1>2, <1>3, <2>1, <3>1, RememberFacts
  <2>2. CASE ~seen
    <3>1. F' = F BY <2>2 DEF try_cch_entry
    <3> QED BY <1>3, <2>2, <3>1
  <2> QED BY <2>1, <2>2
<1>6. TypeOK'
  BY <1>1, <1>2, <1>3, <1>4, <1>5 DEF Inv, TypeOK, updating, flushing
<1>7. StateOK'
  <2>1. \A u \in DOMAIN fetch' : /\ fetch'[u] \in [since : 0..MaxClock, armed : BOOLEAN]
                                 /\ fetch'[u].since <= clock'
    <3>1. \A u \in DOMAIN fetch : /\ fetch[u] \in [since : 0..MaxClock, armed : BOOLEAN]
                                  /\ fetch[u].since <= clock
      BY DEF Inv, StateOK
    <3>2. call \in [since : 0..MaxClock, armed : BOOLEAN] /\ call.since <= clock' BY <1>2
    <3> HIDE DEF call
    <3>3. ASSUME NEW u \in DOMAIN fetch'
          PROVE  fetch'[u] \in [since : 0..MaxClock, armed : BOOLEAN] /\ fetch'[u].since <= clock'
      <4>1. CASE u = t BY <1>4, <3>2, <4>1
      <4>2. CASE u # t
        <5>1. fetch'[u] = fetch[u] /\ u \in DOMAIN fetch BY <1>4, <3>3, <4>2
        <5>2. fetch[u].since \in 0..MaxClock /\ fetch[u].since <= clock BY <3>1, <5>1
        <5> QED BY <1>2, <3>1, <5>1, <5>2
      <4> QED BY <4>1, <4>2
    <3> QED BY <3>3
  <2>2. \A u \in DOMAIN F' : F'[u] \in 0..MaxClock
    <3>1. \A u \in DOMAIN F : F[u] \in 0..MaxClock BY DEF Inv, StateOK
    <3> QED BY <1>2, <1>5, <3>1
  <2>3. \A r \in DOMAIN device : device[r].since <= clock'
    <3>1. \A r \in DOMAIN device : device[r].since \in 0..MaxClock /\ device[r].since <= clock
      BY DEF Inv, StateOK
    <3> QED BY <1>2, <3>1
  <2> QED BY <1>1, <1>5, <2>1, <2>2, <2>3 DEF Inv, StateOK, flushing
<1>8. FetchOK'
  <2>1. ASSUME NEW u \in DOMAIN F' \ inherited'
        PROVE  /\ u \in ours
               /\ u \in DOMAIN fetch' /\ fetch'[u].armed => F'[u] = fetch'[u].since
    <3>1. CASE u = t
      <4>1. t \in ours
        <5>1. CASE seen BY <5>1
        <5>2. CASE ~seen
          <6>1. t \in DOMAIN F \ inherited BY <1>3, <1>5, <2>1, <3>1, <5>2
          <6> QED BY <6>1 DEF Inv, FetchOK
        <5> QED BY <5>1, <5>2
      <4>2. ASSUME fetch'[t].armed PROVE F'[t] = clock
        <5>1. call.armed BY <1>4, <4>2
        <5>2. attached >= 2 BY <5>1
        <5>3. seen BY <1>3, <4>1, <5>2
        <5> QED BY <1>5, <2>1, <3>1, <5>3
      <4> QED BY <1>4, <3>1, <4>1, <4>2
    <3>2. CASE u # t
      <4>1. u \in DOMAIN F \ inherited BY <1>3, <1>5, <2>1, <3>2
      <4> QED BY <1>4, <1>5, <3>2, <4>1 DEF Inv, FetchOK
    <3> QED BY <3>1, <3>2
  <2> QED BY <1>1, <2>1 DEF FetchOK
<1>9. InflightOK' /\ ExactFetch' /\ OwnWait'
  BY <1>1 DEF Inv, InflightOK, At, ExactFetch, OwnWait
<1> QED BY <1>6, <1>7, <1>8, <1>9 DEF Inv

(* A tid is given to another thread: an entry it has is not of a call of   *)
(* this thread.                                                            *)
LEMMA ReuseInv ==
    ASSUME Inv, NEW t \in Tids, NEW target \in BOOLEAN, ReuseTid(t, target)
    PROVE  Inv'
<1>1. /\ UNCHANGED <<active, attached, clock, device, inflight, updating, probe, irq, flushing,
                     preempted, doubtful>>
      /\ t \notin DOMAIN probe /\ fetch' = Del(fetch, t)
  BY DEF ReuseTid
<1>2. DOMAIN fetch' = DOMAIN fetch \ {t} /\ \A u \in DOMAIN fetch' : fetch'[u] = fetch[u]
  BY <1>1 DEF Del
<1>3. /\ ours' \subseteq ours \cup {t} /\ ours \ {t} \subseteq ours'
      /\ inherited' = IF t \in DOMAIN FETCH_IN_PROGRESS THEN inherited \cup {t} ELSE inherited
  BY DEF ReuseTid
<1>4. TypeOK' BY <1>1, <1>2, <1>3 DEF Inv, TypeOK, inflight, updating, flushing
<1>5. StateOK' BY <1>1, <1>2 DEF Inv, StateOK, inflight, flushing
<1>6. FetchOK'
  <2>1. ASSUME NEW u \in DOMAIN FETCH_IN_PROGRESS \ inherited'
        PROVE  u # t /\ u \in DOMAIN FETCH_IN_PROGRESS \ inherited
    BY <1>3, <2>1
  <2> QED BY <1>1, <1>2, <1>3, <2>1 DEF Inv, FetchOK, inflight
<1>7. ExactFetch' BY <1>1, <1>3 DEF Inv, ExactFetch
<1>8. InflightOK' /\ OwnWait' BY <1>1 DEF Inv, InflightOK, At, OwnWait, inflight
<1> QED BY <1>4, <1>5, <1>6, <1>7, <1>8 DEF Inv

(* The call returns: what the probe will add is the duration of this call. *)
LEMMA ExitInv ==
    ASSUME Inv, NEW t \in Tids, NEW c \in Cpus, try_cch_exit(t, c)
    PROVE  Inv'
<1>1. UNCHANGED <<active, attached, device, ours, BLOCK_INFLIGHT, updating, irq, flushing, doubtful>>
  BY DEF try_cch_exit
<1>2. /\ MaxClock \in Nat /\ FetchMax \in Nat /\ clock \in 0..MaxClock /\ clock' \in 0..MaxClock
      /\ clock' >= clock /\ WORD \in Nat
  BY PageIoAssumption DEF Inv, TypeOK, Tick, try_cch_exit
<1> DEFINE F == FETCH_IN_PROGRESS
           found == fetch[t].armed /\ t \in DOMAIN FETCH_IN_PROGRESS
           p == [cpu |-> c, word |-> 1, reg |-> -1, duration_ns |-> SaturatingSub(clock, F[t]),
                 since |-> fetch[t].since, now |-> clock, sure |-> t \notin inherited]
<1>3. /\ IsFiniteSet(DOMAIN F) /\ Cardinality(DOMAIN F) <= FetchMax /\ DOMAIN F \subseteq Tids
      /\ DOMAIN fetch \subseteq Tids /\ DOMAIN probe \subseteq Tids
      /\ inherited \subseteq DOMAIN F
      /\ inherited' = IF found THEN inherited \ {t} ELSE inherited
  BY DEF Inv, TypeOK, StateOK, try_cch_exit
<1>4. /\ DOMAIN fetch' = DOMAIN fetch \ {t} /\ t \in DOMAIN fetch
      /\ \A u \in DOMAIN fetch' : fetch'[u] = fetch[u]
  <2>1. fetch' = Del(fetch, t) /\ t \in DOMAIN fetch BY DEF try_cch_exit
  <2> QED BY <2>1 DEF Del
<1>5. /\ IsFiniteSet(DOMAIN F') /\ Cardinality(DOMAIN F') <= FetchMax
      /\ DOMAIN F' = IF found THEN DOMAIN F \ {t} ELSE DOMAIN F
      /\ \A u \in DOMAIN F' : F'[u] = F[u]
  <2>1. CASE found
    <3>1. F' = Del(F, t) BY <2>1 DEF try_cch_exit
    <3>2. /\ DOMAIN F' = DOMAIN F \ {t} /\ \A u \in DOMAIN F : u # t => F'[u] = F[u]
          /\ IsFiniteSet(DOMAIN F \ {t}) /\ Cardinality(DOMAIN F \ {t}) <= FetchMax
      BY <1>2, <1>3, <3>1, DelFacts
    <3> QED BY <2>1, <3>2
  <2>2. CASE ~found
    <3>1. F' = F BY <2>2 DEF try_cch_exit
    <3> QED BY <1>3, <2>2, <3>1
  <2> QED BY <2>1, <2>2
<1>6. ~found => probe' = probe BY DEF try_cch_exit
<1>7. found => /\ DOMAIN probe' = DOMAIN probe \cup {t} /\ probe'[t] = p
               /\ \A u \in DOMAIN probe : u # t => probe'[u] = probe[u]
  <2>1. found => probe' = Put(probe, t, p) BY DEF try_cch_exit
  <2> HIDE DEF p, found
  <2> QED BY <2>1 DEF Put
<1>8. found => /\ p \in ProbeType
               /\ p.sure => t \in ours /\ p.duration_ns = p.now - p.since
  <2>1. found /\ t \notin inherited => F[t] = fetch[t].since /\ t \in ours
    BY <1>3, <1>4 DEF Inv, FetchOK
  <2>2. fetch[t].since \in 0..MaxClock /\ fetch[t].since <= clock BY <1>4 DEF Inv, StateOK
  <2>3. SaturatingSub(clock, fetch[t].since) = clock - fetch[t].since
    BY <1>2, <2>2 DEF SaturatingSub
  <2>4. found => SaturatingSub(clock, F[t]) \in 0..MaxClock
    BY <1>2 DEF Inv, StateOK, SaturatingSub
  <2>5. found => p \in ProbeType BY <1>2, <2>2, <2>4 DEF ProbeType
  <2>6. found /\ p.sure => t \in ours /\ p.duration_ns = p.now - p.since BY <2>1, <2>3
  <2> QED BY <2>5, <2>6
<1> HIDE DEF p, found
<1>9. TypeOK'
  <2>1. DOMAIN probe' \subseteq Tids BY <1>3, <1>6, <1>7
  <2> QED BY <1>1, <1>2, <1>3, <1>4, <1>5, <2>1 DEF Inv, TypeOK, updating, flushing
<1>10. StateOK'
  <2>1. \A u \in DOMAIN fetch' : /\ fetch'[u] \in [since : 0..MaxClock, armed : BOOLEAN]
                                 /\ fetch'[u].since <= clock'
    <3>1. \A u \in DOMAIN fetch : /\ fetch[u] \in [since : 0..MaxClock, armed : BOOLEAN]
                                  /\ fetch[u].since <= clock
      BY DEF Inv, StateOK
    <3> QED BY <1>2, <1>4, <3>1
  <2>2. \A u \in DOMAIN F' : F'[u] \in 0..MaxClock BY <1>5 DEF Inv, StateOK
  <2>3. \A r \in DOMAIN device : device[r].since <= clock'
    <3>1. \A r \in DOMAIN device : device[r].since \in 0..MaxClock /\ device[r].since <= clock
      BY DEF Inv, StateOK
    <3> QED BY <1>2, <3>1
  <2>4. \A u \in DOMAIN probe' : probe'[u] \in ProbeType
    BY <1>6, <1>7, <1>8 DEF Inv, StateOK
  <2> QED BY <1>1, <1>5, <2>1, <2>2, <2>3, <2>4 DEF Inv, StateOK, flushing
<1>11. FetchOK'
  <2>1. ASSUME NEW u \in DOMAIN F' \ inherited' PROVE u \in DOMAIN F \ inherited
    BY <1>3, <1>5, <2>1
  <2> QED BY <1>1, <1>4, <1>5, <2>1 DEF Inv, FetchOK
<1>12. ExactFetch' BY <1>1, <1>6, <1>7, <1>8 DEF Inv, ExactFetch
<1>13. InflightOK' /\ OwnWait' BY <1>1 DEF Inv, InflightOK, At, OwnWait
<1> QED BY <1>9, <1>10, <1>11, <1>12, <1>13 DEF Inv

(* The probe loads a word, or stores it and goes on to the next one.       *)
LEMMA ProbeInv ==
    ASSUME Inv, NEW t \in Tids, Load(t) \/ Store(t)
    PROVE  Inv'
<1>1. UNCHANGED <<active, attached, traced, tids, inflight, irq, flushing, preempted, doubtful>>
  BY DEF Load, Store
<1>2. /\ t \in DOMAIN probe /\ probe[t] \in ProbeType /\ DOMAIN probe \subseteq Tids
      /\ \A u \in DOMAIN probe : probe[u] \in ProbeType
      /\ COUNTERS \in [Cpus -> [Fields -> 0..(WORD - 1)]]
  BY DEF Inv, TypeOK, StateOK, Load, Store
<1>3. WORD \in Nat /\ WORD > 0 /\ MaxClock \in Nat /\ MaxClock < WORD BY PageIoAssumption
<1> DEFINE f == Layout[probe[t].word]
<1>4. f \in Fields /\ probe[t].cpu \in Cpus /\ probe[t].word \in 1..3
  BY <1>2, LayoutFacts DEF ProbeType
<1>5. COUNTERS' \in [Cpus -> [Fields -> 0..(WORD - 1)]]
  <2>1. CASE Load(t) BY <1>2, <2>1 DEF Load, updating
  <2>2. CASE Store(t)
    <3> DEFINE x == IF f = "engine_count" THEN 1 ELSE probe[t].duration_ns
    <3>1. StoreWord(probe[t].cpu, f, probe[t].reg, x) BY <2>2 DEF Store
    <3>2. probe[t].reg \in 0..(WORD - 1) BY <1>2, <2>2 DEF Store, ProbeType
    <3>3. x \in Nat /\ (f \in MaxFields => x <= MaxClock) BY <1>2, <1>3 DEF ProbeType, MaxFields
    <3> HIDE DEF x, f
    <3> QED BY <1>4, <3>1, <3>2, <3>3, StoreWordType DEF Inv
  <2> QED BY <2>1, <2>2
<1>6. /\ DOMAIN probe' \subseteq DOMAIN probe
      /\ \A u \in DOMAIN probe' :
            /\ probe'[u] \in ProbeType /\ probe'[u].since = probe[u].since
            /\ probe'[u].now = probe[u].now /\ probe'[u].duration_ns = probe[u].duration_ns
            /\ probe'[u].sure = probe[u].sure
  <2>1. CASE Load(t)
    <3> DEFINE w == COUNTERS[probe[t].cpu][f]
    <3>1. w \in 0..(WORD - 1) BY <1>2, <1>4
    <3>2. probe' = [probe EXCEPT ![t].reg = w] BY <2>1 DEF Load
    <3> HIDE DEF w, f
    <3> QED BY <1>2, <3>1, <3>2 DEF ProbeType
  <2>2. CASE Store(t)
    <3>1. CASE f = "engine_max_ns"
      <4>1. probe' = Del(probe, t) BY <2>2, <3>1 DEF Store
      <4> QED BY <1>2, <4>1 DEF Del
    <3>2. CASE f # "engine_max_ns"
      <4>1. probe' = [probe EXCEPT ![t].word = @ + 1, ![t].reg = -1] BY <2>2, <3>2 DEF Store
      <4>2. probe[t].word \in 1..2 BY <1>4, <3>2, LayoutFacts
      <4> HIDE DEF f
      <4> QED BY <1>2, <4>1, <4>2 DEF ProbeType
    <3> QED BY <3>1, <3>2
  <2> QED BY <2>1, <2>2
<1>7. FetchOK' /\ InflightOK' BY <1>1, MapsKept DEF traced, inflight
<1>8. TypeOK' BY <1>1, <1>2, <1>5, <1>6 DEF Inv, TypeOK, traced, tids, inflight, flushing
<1>9. StateOK' BY <1>1, <1>6 DEF Inv, StateOK, traced, inflight, flushing
<1>10. ExactFetch' BY <1>1, <1>6 DEF Inv, ExactFetch, tids
<1>11. OwnWait' BY <1>1 DEF Inv, OwnWait
<1> QED BY <1>7, <1>8, <1>9, <1>10, <1>11 DEF Inv

(* A tracepoint program stores its second word.                            *)
LEMMA FinishInv ==
    ASSUME Inv, NEW c \in Cpus, BlockFinish(c)
    PROVE  Inv'
<1>1. UNCHANGED <<active, attached, traced, tids, inflight, probe, flushing, preempted, doubtful>>
  BY DEF BlockFinish
<1>2. /\ irq[c].word \in {"block_total_bytes", "block_max_wait_ns"} /\ irq[c].add \in Nat
      /\ irq[c].word = "block_max_wait_ns" => irq[c].add <= MaxClock
      /\ DOMAIN irq \subseteq Cpus /\ COUNTERS \in [Cpus -> [Fields -> 0..(WORD - 1)]]
  BY DEF Inv, TypeOK, StateOK, BlockFinish
<1>3. irq[c].word \in Fields /\ (irq[c].word \in MaxFields => irq[c].add <= MaxClock)
  <2>1. {"block_total_bytes", "block_max_wait_ns"} \subseteq Fields
    <3>1. Layout[5] \in Fields /\ Layout[7] \in Fields BY LayoutFacts
    <3> QED BY <3>1, LayoutFacts
  <2> QED BY <1>2, <2>1 DEF MaxFields
<1>4. StoreWord(c, irq[c].word, COUNTERS[c][irq[c].word], irq[c].add) BY DEF BlockFinish, Bump
<1>5. COUNTERS' \in [Cpus -> [Fields -> 0..(WORD - 1)]]
  <2>1. COUNTERS[c][irq[c].word] \in 0..(WORD - 1) BY <1>2, <1>3
  <2> QED BY <1>2, <1>3, <1>4, <2>1, StoreWordType DEF Inv
<1>6. DOMAIN irq' \subseteq DOMAIN irq /\ \A d \in DOMAIN irq' : irq'[d] = irq[d]
  BY DEF BlockFinish, Del
<1>7. FetchOK' /\ InflightOK' BY <1>1, MapsKept DEF traced, inflight
<1>8. TypeOK' BY <1>1, <1>2, <1>5, <1>6 DEF Inv, TypeOK, traced, tids, inflight, flushing
<1>9. StateOK' BY <1>1, <1>6 DEF Inv, StateOK, traced, inflight, flushing
<1>10. ExactFetch' BY <1>1 DEF Inv, ExactFetch, tids
<1>11. OwnWait' BY <1>6 DEF Inv, OwnWait
<1> QED BY <1>7, <1>8, <1>9, <1>10, <1>11 DEF Inv

(* A request leaves the device: the entries at other places are of the     *)
(* requests they were of.                                                  *)
LEMMA GoneKeeps ==
    ASSUME Inv, NEW r \in DOMAIN device, device' = Del(device, r),
           DOMAIN BLOCK_INFLIGHT' \subseteq DOMAIN BLOCK_INFLIGHT,
           \A k \in DOMAIN BLOCK_INFLIGHT' : BLOCK_INFLIGHT'[k] = BLOCK_INFLIGHT[k],
           doubtful \subseteq doubtful',
           device[r].key \in DOMAIN BLOCK_INFLIGHT' => device[r].key \in doubtful'
    PROVE  InflightOK'
<1>1. DOMAIN device' = DOMAIN device \ {r} /\ \A q \in DOMAIN device' : device'[q] = device[q]
  BY DEF Del
<1>2. SUFFICES ASSUME NEW k \in DOMAIN BLOCK_INFLIGHT' \ doubtful'
               PROVE  \E q \in Target : At(k)' = {q} /\ device'[q].since = BLOCK_INFLIGHT'[k]
  BY DEF InflightOK
<1>3. k # device[r].key /\ k \in DOMAIN BLOCK_INFLIGHT \ doubtful BY <1>2
<1>4. PICK q \in Target : At(k) = {q} /\ device[q].since = BLOCK_INFLIGHT[k]
  BY <1>3 DEF Inv, InflightOK
<1>5. q \in DOMAIN device /\ device[q].key = k BY <1>4 DEF At
<1>6. At(k)' = At(k) BY <1>1, <1>3 DEF At
<1>7. device'[q] = device[q] BY <1>1, <1>3, <1>5
<1> QED BY <1>2, <1>4, <1>6, <1>7

(* A request is issued.                                                    *)
LEMMA IssueInv ==
    ASSUME Inv, NEW r \in Reqs, NEW k \in Keys, NEW c \in Cpus, try_block_issue(r, k, c)
    PROVE  Inv'
<1>1. /\ UNCHANGED <<active, attached, fetch, tids, FETCH_IN_PROGRESS, probe, flushing, preempted>>
      /\ r \notin DOMAIN device
  BY DEF try_block_issue
<1>2. /\ MaxClock \in Nat /\ InflightMax \in Nat /\ active.bytes \in Nat /\ WORD \in Nat /\ WORD > 0
      /\ clock \in 0..MaxClock /\ clock' \in 0..MaxClock /\ clock' >= clock
  BY PageIoAssumption DEF Inv, TypeOK, StateOK, Tick, try_block_issue
<1> DEFINE B == BLOCK_INFLIGHT
           request == [key |-> k, since |-> clock]
           todo == [word |-> "block_total_bytes", add |-> active.bytes]
           seen == attached >= 3 /\ r \in Target
<1>3. /\ IsFiniteSet(DOMAIN B) /\ Cardinality(DOMAIN B) <= InflightMax /\ DOMAIN B \subseteq Keys
      /\ DOMAIN device \subseteq Reqs /\ DOMAIN irq \subseteq Cpus /\ doubtful \subseteq Keys
      /\ COUNTERS \in [Cpus -> [Fields -> 0..(WORD - 1)]]
  BY DEF Inv, TypeOK, StateOK
<1>4. /\ DOMAIN device' = DOMAIN device \cup {r} /\ device'[r] = request
      /\ \A q \in DOMAIN device : device'[q] = device[q]
  <2>1. device' = Put(device, r, request) BY DEF try_block_issue
  <2> HIDE DEF request
  <2> QED BY <1>1, <2>1 DEF Put
<1>5. /\ IsFiniteSet(DOMAIN B') /\ Cardinality(DOMAIN B') <= InflightMax
      /\ DOMAIN B' \subseteq DOMAIN B \cup {k}
      /\ seen /\ k \in DOMAIN B' => B'[k] = clock
      /\ ~seen => B' = B
      /\ \A j \in DOMAIN B' : j # k => B'[j] = B[j]
  <2>1. CASE seen
    <3>1. B' = Remember(B, k, InflightMax) BY <2>1 DEF try_block_issue
    <3>2. /\ IsFiniteSet(DOMAIN B') /\ Cardinality(DOMAIN B') <= InflightMax
          /\ DOMAIN B' \subseteq DOMAIN B \cup {k} /\ (k \in DOMAIN B' => B'[k] = clock)
          /\ \A j \in DOMAIN B : j # k => B'[j] = B[j]
      BY <1>2, <1>3, <3>1, RememberFacts
    <3> QED BY <2>1, <3>2
  <2>2. CASE ~seen
    <3>1. B' = B BY <2>2 DEF try_block_issue
    <3> QED BY <1>3, <2>2, <3>1
  <2> QED BY <2>1, <2>2
<1>6. COUNTERS' \in [Cpus -> [Fields -> 0..(WORD - 1)]]
  <2>1. CASE seen
    <3>1. StoreWord(c, "block_count", COUNTERS[c]["block_count"], 1)
      BY <2>1 DEF try_block_issue, Bump
    <3>2. "block_count" \in Fields /\ "block_count" \notin MaxFields
      <4>1. Layout[4] \in Fields BY LayoutFacts
      <4> QED BY <4>1, LayoutFacts DEF MaxFields
    <3>3. COUNTERS[c]["block_count"] \in 0..(WORD - 1) BY <1>3, <3>2
    <3> QED BY <3>1, <3>2, <3>3, StoreWordType DEF Inv
  <2>2. CASE ~seen BY <1>3, <2>2 DEF try_block_issue, updating
  <2> QED BY <2>1, <2>2
<1>7. /\ DOMAIN irq' \subseteq DOMAIN irq \cup {c}
      /\ \A d \in DOMAIN irq' : irq'[d] = todo \/ (d \in DOMAIN irq /\ irq'[d] = irq[d])
  <2>1. CASE seen
    <3>1. irq' = Put(irq, c, todo) BY <2>1 DEF try_block_issue
    <3> HIDE DEF todo
    <3> QED BY <3>1 DEF Put
  <2>2. CASE ~seen
    <3>1. irq' = irq BY <2>2 DEF try_block_issue
    <3> QED BY <3>1
  <2> QED BY <2>1, <2>2
<1>8. /\ doubtful' \subseteq Keys /\ doubtful \ {k} \subseteq doubtful'
      /\ k \in DOMAIN B' \ doubtful' => seen /\ At(k) = {}
  <2>1. CASE seen
    <3>1. doubtful' = IF At(k) = {} THEN doubtful \ {k} ELSE doubtful \cup {k}
      BY <2>1 DEF try_block_issue
    <3> QED BY <1>3, <2>1, <3>1
  <2>2. CASE ~seen
    <3>1. doubtful' = doubtful \cup (DOMAIN B \cap {k}) BY <2>2 DEF try_block_issue
    <3> QED BY <1>3, <1>5, <2>2, <3>1
  <2> QED BY <2>1, <2>2
<1> HIDE DEF seen
<1>9. TypeOK'
  <2>1. DOMAIN B' \subseteq Keys /\ DOMAIN device' \subseteq Reqs /\ DOMAIN irq' \subseteq Cpus
    BY <1>3, <1>4, <1>5, <1>7
  <2> QED BY <1>1, <1>2, <1>5, <1>6, <1>8, <2>1 DEF Inv, TypeOK, flushing, tids
<1>10. StateOK'
  <2>1. \A t \in DOMAIN fetch : fetch[t].since <= clock'
    <3>1. \A t \in DOMAIN fetch : fetch[t].since \in 0..MaxClock /\ fetch[t].since <= clock
      BY DEF Inv, StateOK
    <3> QED BY <1>2, <3>1
  <2>2. ASSUME NEW q \in DOMAIN device'
        PROVE  device'[q] \in [key : Keys, since : 0..MaxClock] /\ device'[q].since <= clock'
    <3>1. CASE q = r BY <1>2, <1>4, <3>1
    <3>2. CASE q # r
      <4>1. q \in DOMAIN device /\ device'[q] = device[q] BY <1>4, <2>2, <3>2
      <4>2. device[q] \in [key : Keys, since : 0..MaxClock] /\ device[q].since <= clock
        BY <4>1 DEF Inv, StateOK
      <4>3. device[q].since \in 0..MaxClock BY <4>2
      <4> QED BY <1>2, <4>1, <4>2, <4>3
    <3> QED BY <3>1, <3>2
  <2>3. \A j \in DOMAIN B' : B'[j] \in 0..MaxClock
    <3>1. \A j \in DOMAIN B : B[j] \in 0..MaxClock BY DEF Inv, StateOK
    <3> QED BY <1>2, <1>5, <3>1
  <2>4. \A d \in DOMAIN irq' :
           /\ irq'[d].word \in {"block_total_bytes", "block_max_wait_ns"}
           /\ irq'[d].add \in Nat
           /\ irq'[d].word = "block_max_wait_ns" => irq'[d].add <= MaxClock
    BY <1>2, <1>7 DEF Inv, StateOK
  <2> QED BY <1>1, <1>5, <2>1, <2>2, <2>3, <2>4 DEF Inv, StateOK, flushing
<1>11. InflightOK'
  <2>1. SUFFICES ASSUME NEW j \in DOMAIN B' \ doubtful'
                 PROVE  \E q \in Target : At(j)' = {q} /\ device'[q].since = B'[j]
    BY DEF InflightOK
  <2>2. CASE j = k
    <3>1. seen /\ At(k) = {} BY <1>8, <2>1, <2>2
    <3>2. At(k)' = {r} BY <1>4, <3>1 DEF At
    <3>3. device'[r].since = clock /\ B'[k] = clock BY <1>4, <1>5, <2>1, <2>2, <3>1
    <3>4. r \in Target BY <3>1 DEF seen
    <3> QED BY <2>2, <3>2, <3>3, <3>4
  <2>3. CASE j # k
    <3>1. j \in DOMAIN B \ doubtful BY <1>5, <1>8, <2>1, <2>3
    <3>2. PICK q \in Target : At(j) = {q} /\ device[q].since = B[j]
      BY <3>1 DEF Inv, InflightOK
    <3>3. q \in DOMAIN device BY <3>2 DEF At
    <3>4. At(j)' = At(j) BY <1>1, <1>4, <2>3 DEF At
    <3>5. B'[j] = B[j] /\ device'[q] = device[q] BY <1>4, <1>5, <2>1, <2>3, <3>3
    <3> QED BY <3>2, <3>4, <3>5
  <2> QED BY <2>2, <2>3
<1>12. OwnWait' BY <1>7 DEF Inv, OwnWait
<1>13. FetchOK' /\ ExactFetch' BY <1>1 DEF Inv, FetchOK, ExactFetch, tids
<1> QED BY <1>9, <1>10, <1>11, <1>12, <1>13 DEF Inv

(* A request is sent while a tracepoint program runs on the CPU.           *)
LEMMA IssueSkippedInv ==
    ASSUME Inv, NEW r \in Reqs, NEW k \in Keys, NEW c \in Cpus, IssueSkipped(r, k, c)
    PROVE  Inv'
<1> DEFINE B == BLOCK_INFLIGHT
           request == [key |-> k, since |-> clock]
<1>1. /\ UNCHANGED <<active, attached, clock, fetch, tids, inflight, updating, probe, irq,
                     flushing, preempted>>
      /\ r \notin DOMAIN device /\ device' = Put(device, r, request)
      /\ doubtful' = doubtful \cup (DOMAIN B \cap {k})
  BY DEF IssueSkipped
<1>2. request \in [key : Keys, since : 0..MaxClock] /\ request.since <= clock /\ request.key = k
  BY PageIoAssumption DEF Inv, TypeOK
<1> HIDE DEF request
<1>3. /\ DOMAIN device' = DOMAIN device \cup {r} /\ device'[r] = request
      /\ \A q \in DOMAIN device : device'[q] = device[q]
  BY <1>1 DEF Put
<1>4. InflightOK'
  <2>1. SUFFICES ASSUME NEW j \in DOMAIN B' \ doubtful'
                 PROVE  \E q \in Target : At(j)' = {q} /\ device'[q].since = B'[j]
    BY DEF InflightOK
  <2>2. j # k /\ j \in DOMAIN B \ doubtful /\ B' = B BY <1>1, <2>1 DEF inflight
  <2>3. PICK q \in Target : At(j) = {q} /\ device[q].since = B[j]
    BY <2>2 DEF Inv, InflightOK
  <2>4. q \in DOMAIN device BY <2>3 DEF At
  <2>5. At(j)' = At(j) BY <1>1, <1>2, <1>3, <2>2 DEF At
  <2> QED BY <1>3, <2>2, <2>3, <2>4, <2>5
<1>5. TypeOK' BY <1>1, <1>3 DEF Inv, TypeOK, inflight, tids, updating, flushing
<1>6. StateOK' BY <1>1, <1>2, <1>3 DEF Inv, StateOK, inflight, flushing
<1>7. FetchOK' /\ ExactFetch' /\ OwnWait'
  BY <1>1 DEF Inv, FetchOK, ExactFetch, OwnWait, inflight, tids
<1> QED BY <1>4, <1>5, <1>6, <1>7 DEF Inv

(* A request completes while a tracepoint program runs on the CPU.         *)
LEMMA SkippedInv ==
    ASSUME Inv, NEW r \in Reqs, NEW c \in Cpus, CompleteSkipped(r, c)
    PROVE  Inv'
<1>1. /\ UNCHANGED <<active, attached, clock, fetch, tids, inflight, updating, probe, irq, flushing,
                     preempted>>
      /\ r \in DOMAIN device /\ device' = Del(device, r)
      /\ doubtful' = doubtful \cup (DOMAIN BLOCK_INFLIGHT \cap {device[r].key})
  BY DEF CompleteSkipped
<1>2. InflightOK' BY <1>1, GoneKeeps DEF inflight
<1>3. DOMAIN device' \subseteq DOMAIN device /\ \A q \in DOMAIN device' : device'[q] = device[q]
  BY <1>1 DEF Del
<1>4. TypeOK' BY <1>1, <1>3 DEF Inv, TypeOK, inflight, tids, updating, flushing
<1>5. StateOK' BY <1>1, <1>3 DEF Inv, StateOK, inflight, flushing
<1>6. FetchOK' /\ ExactFetch' /\ OwnWait'
  BY <1>1 DEF Inv, FetchOK, ExactFetch, OwnWait, inflight, tids
<1> QED BY <1>2, <1>4, <1>5, <1>6 DEF Inv

(* A request completes: unless its place is in doubt, the entry found      *)
(* there is its own.                                                       *)
LEMMA CompleteInv ==
    ASSUME Inv, NEW r \in Reqs, NEW c \in Cpus, try_block_complete(r, c)
    PROVE  Inv'
<1> DEFINE B == BLOCK_INFLIGHT
           k == device[r].key
           wait_ns == SaturatingSub(clock, B[k])
           todo == [word |-> "block_max_wait_ns", add |-> wait_ns, now |-> clock,
                    request |-> r, since |-> device[r].since, sure |-> k \notin doubtful]
           found == attached = 4 /\ k \in DOMAIN B
<1>1. /\ UNCHANGED <<active, attached, fetch, tids, FETCH_IN_PROGRESS, probe, flushing, preempted>>
      /\ r \in DOMAIN device /\ device' = Del(device, r)
  BY DEF try_block_complete
<1>2. /\ MaxClock \in Nat /\ InflightMax \in Nat /\ WORD \in Nat /\ WORD > 0
      /\ clock \in 0..MaxClock /\ clock' \in 0..MaxClock /\ clock' >= clock
  BY PageIoAssumption DEF Inv, TypeOK, Tick, try_block_complete
<1>3. /\ IsFiniteSet(DOMAIN B) /\ Cardinality(DOMAIN B) <= InflightMax /\ DOMAIN B \subseteq Keys
      /\ DOMAIN device \subseteq Reqs /\ DOMAIN irq \subseteq Cpus /\ doubtful \subseteq Keys
      /\ COUNTERS \in [Cpus -> [Fields -> 0..(WORD - 1)]]
      /\ \A q \in DOMAIN device : /\ device[q] \in [key : Keys, since : 0..MaxClock]
                                  /\ device[q].since <= clock
      /\ \A j \in DOMAIN B : B[j] \in 0..MaxClock
  BY DEF Inv, TypeOK, StateOK
<1>4. DOMAIN device' \subseteq DOMAIN device /\ \A q \in DOMAIN device' : device'[q] = device[q]
  BY <1>1 DEF Del
<1>5. /\ IsFiniteSet(DOMAIN B') /\ Cardinality(DOMAIN B') <= InflightMax
      /\ DOMAIN B' \subseteq DOMAIN B /\ (found => k \notin DOMAIN B')
      /\ \A j \in DOMAIN B' : B'[j] = B[j]
  <2>1. CASE found
    <3>1. B' = Del(B, k) BY <2>1 DEF try_block_complete
    <3>2. /\ DOMAIN B' = DOMAIN B \ {k} /\ \A j \in DOMAIN B : j # k => B'[j] = B[j]
          /\ IsFiniteSet(DOMAIN B \ {k}) /\ Cardinality(DOMAIN B \ {k}) <= InflightMax
      BY <1>2, <1>3, <3>1, DelFacts
    <3> QED BY <3>2
  <2>2. CASE ~found
    <3>1. B' = B BY <2>2 DEF try_block_complete
    <3> QED BY <1>3, <2>2, <3>1
  <2> QED BY <2>1, <2>2
<1>6. found => /\ wait_ns \in 0..MaxClock
               /\ k \notin doubtful => r \in Target /\ wait_ns = clock - device[r].since
  <2>1. k \in DOMAIN B => wait_ns \in 0..MaxClock BY <1>2, <1>3 DEF SaturatingSub
  <2>2. ASSUME k \in DOMAIN B, k \notin doubtful
        PROVE  r \in Target /\ wait_ns = clock - device[r].since
    <3>1. PICK q \in Target : At(k) = {q} /\ device[q].since = B[k]
      BY <2>2 DEF Inv, InflightOK
    <3>2. q = r BY <1>1, <3>1 DEF At
    <3>3. device[r].since \in 0..MaxClock /\ device[r].since <= clock BY <1>1, <1>3
    <3> QED BY <1>2, <3>1, <3>2, <3>3 DEF SaturatingSub
  <2> QED BY <2>1, <2>2
<1>7. COUNTERS' \in [Cpus -> [Fields -> 0..(WORD - 1)]]
  <2>1. CASE found
    <3>1. StoreWord(c, "block_total_wait_ns", COUNTERS[c]["block_total_wait_ns"], wait_ns)
      BY <2>1 DEF try_block_complete, Bump
    <3>2. "block_total_wait_ns" \in Fields /\ "block_total_wait_ns" \notin MaxFields
      <4>1. Layout[6] \in Fields BY LayoutFacts
      <4> QED BY <4>1, LayoutFacts DEF MaxFields
    <3>3. COUNTERS[c]["block_total_wait_ns"] \in 0..(WORD - 1) /\ wait_ns \in Nat
      BY <1>2, <1>3, <1>6, <2>1, <3>2
    <3> HIDE DEF wait_ns
    <3> QED BY <3>1, <3>2, <3>3, StoreWordType DEF Inv
  <2>2. CASE ~found BY <1>3, <2>2 DEF try_block_complete, updating
  <2> QED BY <2>1, <2>2
<1>8. /\ DOMAIN irq' \subseteq DOMAIN irq \cup {c}
      /\ \A d \in DOMAIN irq' :
            (found /\ irq'[d] = todo) \/ (d \in DOMAIN irq /\ irq'[d] = irq[d])
  <2>1. CASE found
    <3>1. irq' = Put(irq, c, todo) BY <2>1 DEF try_block_complete
    <3> HIDE DEF todo
    <3> QED BY <2>1, <3>1 DEF Put
  <2>2. CASE ~found
    <3>1. irq' = irq BY <2>2 DEF try_block_complete
    <3> QED BY <3>1
  <2> QED BY <2>1, <2>2
<1>9. /\ doubtful' \subseteq Keys /\ doubtful \subseteq doubtful'
      /\ k \in DOMAIN B' => k \in doubtful'
  <2>1. CASE found BY <1>3, <1>5, <2>1 DEF try_block_complete
  <2>2. CASE ~found
    <3>1. doubtful' = doubtful \cup (DOMAIN B \cap {k}) BY <2>2 DEF try_block_complete
    <3> QED BY <1>3, <1>5, <3>1
  <2> QED BY <2>1, <2>2
<1>10. InflightOK' BY <1>1, <1>5, <1>9, GoneKeeps
<1>11. /\ todo.word = "block_max_wait_ns" /\ todo.add = wait_ns /\ todo.now = clock
       /\ todo.request = r /\ todo.since = device[r].since /\ (todo.sure => k \notin doubtful)
  OBVIOUS
<1> HIDE DEF found, todo, wait_ns
<1>12. TypeOK'
  <2>1. DOMAIN B' \subseteq Keys /\ DOMAIN device' \subseteq Reqs /\ DOMAIN irq' \subseteq Cpus
    BY <1>3, <1>4, <1>5, <1>8
  <2> QED BY <1>1, <1>2, <1>5, <1>7, <1>9, <2>1 DEF Inv, TypeOK, flushing, tids
<1>13. StateOK'
  <2>1. \A t \in DOMAIN fetch : fetch[t].since <= clock'
    <3>1. \A t \in DOMAIN fetch : fetch[t].since \in 0..MaxClock /\ fetch[t].since <= clock
      BY DEF Inv, StateOK
    <3> QED BY <1>2, <3>1
  <2>2. ASSUME NEW q \in DOMAIN device'
        PROVE  device'[q] \in [key : Keys, since : 0..MaxClock] /\ device'[q].since <= clock'
    <3>1. q \in DOMAIN device /\ device'[q] = device[q] BY <1>4, <2>2
    <3>2. device[q] \in [key : Keys, since : 0..MaxClock] /\ device[q].since <= clock
      BY <1>3, <3>1
    <3>3. device[q].since \in 0..MaxClock BY <3>2
    <3> QED BY <1>2, <3>1, <3>2, <3>3
  <2>3. \A j \in DOMAIN B' : B'[j] \in 0..MaxClock BY <1>3, <1>5
  <2>4. ASSUME NEW d \in DOMAIN irq'
        PROVE  /\ irq'[d].word \in {"block_total_bytes", "block_max_wait_ns"}
               /\ irq'[d].add \in Nat
               /\ irq'[d].word = "block_max_wait_ns" => irq'[d].add <= MaxClock
    <3>1. CASE found /\ irq'[d] = todo
      <4>1. wait_ns \in Nat /\ wait_ns <= MaxClock BY <1>2, <1>6, <3>1
      <4> QED BY <1>11, <3>1, <4>1
    <3>2. CASE d \in DOMAIN irq /\ irq'[d] = irq[d] BY <3>2 DEF Inv, StateOK
    <3> QED BY <1>8, <2>4, <3>1, <3>2
  <2> QED BY <1>1, <1>5, <2>1, <2>2, <2>3, <2>4 DEF Inv, StateOK, flushing
<1>14. OwnWait'
  <2>1. ASSUME NEW d \in DOMAIN irq', irq'[d].word = "block_max_wait_ns", irq'[d].sure
        PROVE  irq'[d].request \in Target /\ irq'[d].add = irq'[d].now - irq'[d].since
    <3>1. CASE found /\ irq'[d] = todo BY <1>6, <1>11, <2>1, <3>1
    <3>2. CASE d \in DOMAIN irq /\ irq'[d] = irq[d] BY <2>1, <3>2 DEF Inv, OwnWait
    <3> QED BY <1>8, <2>1, <3>1, <3>2
  <2> QED BY <2>1 DEF OwnWait
<1>15. FetchOK' /\ ExactFetch' BY <1>1 DEF Inv, FetchOK, ExactFetch, tids
<1> QED BY <1>10, <1>12, <1>13, <1>14, <1>15 DEF Inv

-----------------------------------------------------------------------------
(* The invariant.                                                          *)

(* Nothing has happened at first.                                          *)
LEMMA InitInv ==
    ASSUME Init
    PROVE  Inv
<1>1. DOMAIN NoEntries = {} BY DEF NoEntries
<1>2. IsFiniteSet({}) /\ Cardinality({}) = 0 BY FS_EmptySet
<1>3. /\ NCpu \in Nat /\ WORD \in Nat /\ WORD > 0 /\ MaxClock \in Nat
      /\ FetchMax \in Nat /\ InflightMax \in Nat /\ Words = 7
  BY PageIoAssumption, LayoutFacts
<1>4. Zero \in [Fields -> 0..(WORD - 1)] BY <1>3 DEF Zero
<1>5. TypeOK
  <2>1. active.windows \in Nat BY PageIoAssumption DEF Init
  <2> QED BY <1>1, <1>2, <1>3, <1>4, <2>1 DEF Init, TypeOK
<1>6. StateOK BY <1>1, <1>2 DEF Init, StateOK
<1>7. FetchOK /\ InflightOK /\ ExactFetch /\ OwnWait
  BY <1>1 DEF Init, FetchOK, InflightOK, ExactFetch, OwnWait
<1> QED BY <1>5, <1>6, <1>7 DEF Inv

(* Every step keeps it.                                                    *)
LEMMA NextInv ==
    ASSUME Inv, [Next]_vars
    PROVE  Inv'
<1>1. active.cpus \subseteq Cpus BY PageIoAssumption DEF Inv, StateOK, Cpus
<1>2. CASE UNCHANGED vars
  <2>1. UNCHANGED <<active, attached, traced, tids, inflight, updating, probe, irq, flushing,
                    preempted, doubtful>>
    BY <1>2 DEF vars
  <2>2. TypeOK' /\ StateOK'
    BY <2>1 DEF Inv, TypeOK, StateOK, traced, tids, inflight, updating, flushing
  <2>3. FetchOK' /\ InflightOK' BY <2>1, MapsKept DEF traced, inflight
  <2>4. ExactFetch' /\ OwnWait' BY <2>1 DEF Inv, ExactFetch, OwnWait, tids
  <2> QED BY <2>2, <2>3, <2>4 DEF Inv
<1>3. CASE AttachNext \/ FlushBegin \/ FlushRead \/ FlushReport BY <1>3, OutsideInv
<1>4. ASSUME NEW t \in Tids \cap active.who, try_cch_entry(t) PROVE Inv' BY <1>4, EntryInv
<1>5. ASSUME NEW t \in Tids \cap active.who, NEW c \in active.cpus, try_cch_exit(t, c) PROVE Inv'
  BY <1>1, <1>5, ExitInv
<1>6. ASSUME NEW t \in Tids \cap active.who, Load(t) \/ Store(t) PROVE Inv' BY <1>6, ProbeInv
<1>7. ASSUME NEW r \in Reqs \cap active.who, NEW c \in active.cpus, NEW k \in Keys,
             try_block_issue(r, k, c)
      PROVE  Inv'
  BY <1>1, <1>7, IssueInv
<1>8. ASSUME NEW r \in Reqs \cap active.who, NEW c \in active.cpus, try_block_complete(r, c)
      PROVE  Inv'
  BY <1>1, <1>8, CompleteInv
<1>9. ASSUME NEW r \in Reqs \cap active.who, NEW c \in active.cpus, CompleteSkipped(r, c)
      PROVE  Inv'
  BY <1>1, <1>9, SkippedInv
<1>10. ASSUME NEW c \in active.cpus, BlockFinish(c) PROVE Inv' BY <1>1, <1>10, FinishInv
<1>11. ASSUME NEW t \in active.reused, NEW target \in BOOLEAN, ReuseTid(t, target) PROVE Inv'
  <2>1. t \in Tids BY PageIoAssumption DEF Inv, StateOK
  <2> QED BY <1>11, <2>1, ReuseInv
<1>12. ASSUME NEW r \in Reqs \cap active.who, NEW c \in active.cpus, NEW k \in Keys,
              IssueSkipped(r, k, c)
       PROVE  Inv'
  BY <1>1, <1>12, IssueSkippedInv
<1> QED BY <1>2, <1>3, <1>4, <1>5, <1>6, <1>7, <1>8, <1>9, <1>10, <1>11, <1>12 DEF Next

(* So it always holds.                                                     *)
LEMMA AlwaysInv == Spec => []Inv
<1>1. Init => Inv BY InitInv
<1>2. Inv /\ [Next]_vars => Inv' BY NextInv
<1> QED BY <1>1, <1>2, PTL DEF Spec

(* The maps keep within their sizes, the words below 2^64, whatever the    *)
(* number of threads, requests and CPUs.                                   *)
THEOREM PageIoTypeCorrect == Spec => []TypeOK
<1>1. Inv => TypeOK BY DEF Inv
<1> QED BY <1>1, AlwaysInv, PTL

(* try_cch_exit adds the duration of the call it returns from, and only    *)
(* for threads of the target process, however tids are reused, unless the  *)
(* entry it finds was left by an earlier thread of the same tid.           *)
THEOREM FetchIsExact == Spec => []ExactFetch
<1>1. Inv => ExactFetch BY DEF Inv
<1> QED BY <1>1, AlwaysInv, PTL

(* try_block_complete adds the wait of the target's own request, unless    *)
(* two requests overlapped at its place or a completion was missed there.  *)
THEOREM WaitIsOwn == Spec => []OwnWait
<1>1. Inv => OwnWait BY DEF Inv
<1> QED BY <1>1, AlwaysInv, PTL

(* BLOCK_INFLIGHT keeps no entry of a request that is gone, with the same  *)
(* exceptions.                                                             *)
THEOREM InflightCurrent == Spec => []InflightIsCurrent
<1>1. Inv => InflightIsCurrent
  <2>1. SUFFICES ASSUME Inv, NEW k \in DOMAIN BLOCK_INFLIGHT \ doubtful
                 PROVE  \E r \in At(k) \cap Target : device[r].since = BLOCK_INFLIGHT[k]
    BY DEF InflightIsCurrent
  <2> QED BY <2>1 DEF Inv, InflightOK
<1> QED BY <1>1, AlwaysInv, PTL
=============================================================================
