----------------------- MODULE AttachLifecycleProofs -----------------------
(***************************************************************************)
(* TLAPS proofs about AttachLifecycle, for any set of addresses, any LIVE  *)
(* capacity and any ring size: the tracer implements AttachReports.        *)
(***************************************************************************)
EXTENDS AttachLifecycle, SequenceTheorems, TLAPS

(* No probe, no entry: LIVE is empty until the constructor is probed, so   *)
(* an attachment older than the tracer can never be found there.           *)
NothingBeforeProbes == attached = 0 => DOMAIN LIVE = {}

SinceIsPast == \A p \in DOMAIN alive : alive[p].since <= clock

(* A release probe that has found its entry is of an attachment not yet    *)
(* reported closed, and as long as the entry is in LIVE, so is its value.  *)
FoundIsOwn ==
    \A p \in DOMAIN found :
        /\ p \in DOMAIN alive /\ ~alive[p].closed
        /\ p \in DOMAIN LIVE => found[p] = {alive[p].since}

Inv == TypeOK /\ LiveIsCurrent /\ NothingBeforeProbes /\ SinceIsPast /\ FoundIsOwn

LifeType == [since : Nat, closed : BOOLEAN]

(* Submit appends the event or, in a full ring, loses it.                  *)
LEMMA SubmitFacts ==
    ASSUME EVENTS \in Seq(AttachEventType), NEW e \in AttachEventType, Submit(e)
    PROVE  /\ EVENTS' \in Seq(AttachEventType)
           /\ EVENTS' = EVENTS \/ EVENTS' = Append(EVENTS, e)
<1>1. EVENTS' = EVENTS \/ EVENTS' = Append(EVENTS, e) BY DEF Submit
<1>2. Append(EVENTS, e) \in Seq(AttachEventType) BY AppendProperties
<1> QED BY <1>1, <1>2

(* An LRU insert stores the value; surviving entries are unchanged.        *)
LEMMA LruFacts ==
    ASSUME NEW m, NEW k, NEW v, NEW max, NEW n \in LruInserts(m, k, v, max)
    PROVE  /\ n = [x \in DOMAIN n |-> n[x]]
           /\ k \in DOMAIN n /\ n[k] = v
           /\ \A x \in DOMAIN n : x # k => x \in DOMAIN m /\ n[x] = m[x]
<1>1. PICK S \in SUBSET (DOMAIN m \ {k}) : n = Put(Keep(m, S), k, v)
  BY DEF LruInserts
<1> QED BY <1>1 DEF Put, Keep

(* Nothing is alive and nothing is remembered at the start.                *)
LEMMA InitInv == Init => Inv
<1> SUFFICES ASSUME Init PROVE Inv
  OBVIOUS
<1>1. DOMAIN alive = {} /\ DOMAIN LIVE = {} /\ DOMAIN found = {} BY DEF Init, NoEntries
<1>2. TypeOK BY DEF Init, NoEntries, TypeOK
<1> QED BY <1>1, <1>2 DEF Inv, LiveIsCurrent, NothingBeforeProbes, SinceIsPast, FoundIsOwn

(* The constructor: the invariant is kept and the step is an Open.         *)
LEMMA ConstructStep ==
    ASSUME Inv, NEW p \in Attachments, Construct(p)
    PROVE  Inv' /\ Reports!Open(p)
<1> DEFINE life == [since |-> clock, closed |-> FALSE]
<1>1. /\ p \notin DOMAIN alive /\ clock \in Nat /\ attached \in 0..2
      /\ clock' = clock + 1 /\ attached' = attached
      /\ alive' = Put(alive, p, life)
      /\ EVENTS \in Seq(AttachEventType)
      /\ DOMAIN found \subseteq Attachments /\ \A x \in DOMAIN found : found[x] \subseteq Nat
      /\ \A x \in DOMAIN found : x # p /\ x \in DOMAIN alive /\ ~alive[x].closed
      /\ \A x \in DOMAIN found : x \in DOMAIN LIVE => found[x] = {alive[x].since}
  BY DEF Construct, Inv, TypeOK, FoundIsOwn
<1>2. life \in LifeType BY <1>1 DEF LifeType
<1>3. /\ alive' = [x \in DOMAIN alive' |-> alive'[x]]
      /\ DOMAIN alive' = DOMAIN alive \cup {p}
      /\ alive'[p] = life
      /\ \A x \in DOMAIN alive : alive'[x] = alive[x]
  BY <1>1 DEF Put
<1>4. /\ DOMAIN alive' \subseteq Attachments
      /\ \A x \in DOMAIN alive' : alive'[x] \in LifeType
  BY <1>2, <1>3 DEF Inv, TypeOK, LifeType
<1>5. SinceIsPast'
  <2>1. \A x \in DOMAIN alive : alive[x].since \in Nat /\ alive[x].since <= clock
    BY DEF Inv, TypeOK, SinceIsPast
  <2>2. ASSUME NEW x \in DOMAIN alive' PROVE alive'[x].since <= clock'
    <3>1. CASE x = p BY <3>1, <1>1, <1>3
    <3>2. CASE x # p
      <4>1. x \in DOMAIN alive /\ alive'[x] = alive[x] BY <3>2, <1>3
      <4> QED BY <4>1, <2>1, <1>1
    <3> QED BY <3>1, <3>2
  <2> QED BY <2>2 DEF SinceIsPast
<1>6. CASE attached >= 1
  <2> DEFINE e == AttachEvent("Opened", p, 0)
  <2>1. LIVE' \in LruInserts(LIVE, p, clock, LiveMax) /\ Submit(e)
        /\ found' = Refilled(LIVE', clock)
    BY <1>6 DEF Construct
  <2>2. /\ LIVE' = [x \in DOMAIN LIVE' |-> LIVE'[x]]
        /\ p \in DOMAIN LIVE' /\ LIVE'[p] = clock
        /\ \A x \in DOMAIN LIVE' : x # p => x \in DOMAIN LIVE /\ LIVE'[x] = LIVE[x]
    BY <2>1, LruFacts
  <2>3. DOMAIN LIVE' \subseteq Attachments /\ \A x \in DOMAIN LIVE' : LIVE'[x] \in Nat
    BY <2>2, <1>1 DEF Inv, TypeOK
  <2>4. e \in AttachEventType BY <1>1 DEF AttachEvent, AttachEventType
  <2>5. EVENTS' \in Seq(AttachEventType)
        /\ (EVENTS' = EVENTS \/ EVENTS' = Append(EVENTS, e))
    BY <2>1, <2>4, <1>1, SubmitFacts
  <2> DEFINE d == DOMAIN found \ DOMAIN LIVE
  <2>10. /\ DOMAIN found' = DOMAIN found
         /\ \A x \in DOMAIN found : x \in DOMAIN LIVE' => found'[x] = found[x]
         /\ \A x \in DOMAIN found : found'[x] \subseteq Nat
    BY <1>1, <2>1 DEF Refilled
  <2>6. TypeOK'
    <3>1. clock' \in Nat /\ attached' \in 0..2 BY <1>1
    <3> QED BY <3>1, <1>1, <1>3, <1>4, <2>2, <2>3, <2>5, <2>10 DEF TypeOK, LifeType
  <2>11. FoundIsOwn' BY <1>1, <1>3, <2>2, <2>10 DEF FoundIsOwn
  <2>12. d \subseteq d' /\ d' \subseteq DOMAIN alive BY <1>1, <2>2, <2>10
  <2>7. LiveIsCurrent'
    <3>1. ASSUME NEW x \in DOMAIN LIVE' \cap DOMAIN alive'
          PROVE  LIVE'[x] = alive'[x].since /\ ~alive'[x].closed
      <4>1. CASE x = p BY <4>1, <1>3, <2>2
      <4>2. CASE x # p
        <5>1. /\ x \in DOMAIN LIVE \cap DOMAIN alive
              /\ LIVE'[x] = LIVE[x] /\ alive'[x] = alive[x]
          BY <4>2, <1>3, <2>2
        <5> QED BY <5>1 DEF Inv, LiveIsCurrent
      <4> QED BY <4>1, <4>2
    <3> QED BY <3>1 DEF LiveIsCurrent
  <2>8. NothingBeforeProbes' BY <1>1, <1>6 DEF NothingBeforeProbes
  <2>9. Reports!Open(p)
    BY <1>1, <2>5, <2>12 DEF Reports!Open, Reports!LogOrLose, Reports!Opened, AttachEvent,
                       Reports!Put, Put
  <2> QED BY <1>5, <2>6, <2>7, <2>8, <2>9, <2>11 DEF Inv
<1>7. CASE ~(attached >= 1)
  <2>1. LIVE' = LIVE /\ EVENTS' = EVENTS /\ found' = found /\ attached = 0
    BY <1>1, <1>7 DEF Construct
  <2>2. DOMAIN LIVE = {} BY <2>1 DEF Inv, NothingBeforeProbes
  <2>3. TypeOK'
    <3>1. clock' \in Nat /\ attached' \in 0..2 BY <1>1
    <3> QED BY <3>1, <1>1, <1>3, <1>4, <2>1 DEF Inv, TypeOK, LifeType
  <2>4. LiveIsCurrent' /\ NothingBeforeProbes'
    BY <2>1, <2>2 DEF LiveIsCurrent, NothingBeforeProbes
  <2>5. Reports!Open(p)
    BY <1>1, <2>1 DEF Reports!Open, Reports!LogOrLose, Reports!Put, Put
  <2>6. FoundIsOwn' BY <1>1, <1>3, <2>1 DEF FoundIsOwn
  <2> QED BY <1>5, <2>3, <2>4, <2>5, <2>6 DEF Inv
<1> QED BY <1>6, <1>7

(* The release probe finds the entry of the attachment: no report yet.     *)
LEMMA ReleaseGetStep ==
    ASSUME Inv, NEW p \in Attachments, ReleaseGet(p)
    PROVE  Inv' /\ UNCHANGED <<clock, alive, EVENTS, DOMAIN found \ DOMAIN LIVE>>
<1>1. /\ p \in DOMAIN alive /\ p \in DOMAIN LIVE
      /\ found' = Put(found, p, {LIVE[p]})
      /\ UNCHANGED <<attached, clock, alive, LIVE, EVENTS>>
  BY DEF ReleaseGet
<1>2. /\ DOMAIN found' = DOMAIN found \cup {p} /\ found'[p] = {LIVE[p]}
      /\ \A x \in DOMAIN found : x # p => found'[x] = found[x]
  BY <1>1 DEF Put
<1>3. LIVE[p] = alive[p].since /\ ~alive[p].closed /\ LIVE[p] \in Nat
  BY <1>1 DEF Inv, LiveIsCurrent, TypeOK
<1>4. TypeOK' BY <1>1, <1>2, <1>3 DEF Inv, TypeOK
<1>5. LiveIsCurrent' /\ NothingBeforeProbes' /\ SinceIsPast'
  BY <1>1 DEF Inv, LiveIsCurrent, NothingBeforeProbes, SinceIsPast
<1>6. FoundIsOwn' BY <1>1, <1>2, <1>3 DEF Inv, FoundIsOwn
<1>7. DOMAIN found' \ DOMAIN LIVE' = DOMAIN found \ DOMAIN LIVE BY <1>1, <1>2
<1> QED BY <1>1, <1>4, <1>5, <1>6, <1>7 DEF Inv

(* The rest of the probe is a Close, with the attachment's own lifetime    *)
(* unless its entry has been evicted.                                      *)
LEMMA ReleaseStep ==
    ASSUME Inv, NEW p \in Attachments, NEW open_ts_ns, Release(p, open_ts_ns)
    PROVE  Inv' /\ Reports!Close(p)
<1> DEFINE d == SaturatingSub(clock, open_ts_ns)
           e == AttachEvent("Closed", p, d)
<1>1. /\ p \in DOMAIN alive /\ ~alive[p].closed /\ clock \in Nat /\ attached \in 0..2
      /\ clock' = clock + 1 /\ attached' = attached
      /\ p \in DOMAIN found /\ open_ts_ns \in found[p] /\ open_ts_ns \in Nat
      /\ p \in DOMAIN LIVE => found[p] = {alive[p].since}
      /\ EVENTS \in Seq(AttachEventType)
      /\ \A x \in DOMAIN alive : /\ alive[x] \in LifeType
                                 /\ alive[x].since \in Nat /\ alive[x].since <= clock
  BY DEF Release, Inv, TypeOK, SinceIsPast, FoundIsOwn, LifeType
<1>2. d \in 0..clock /\ (p \in DOMAIN LIVE => d = clock - alive[p].since)
  BY <1>1 DEF SaturatingSub
<1>3. /\ LIVE' = Del(LIVE, p) /\ found' = Del(found, p)
      /\ Submit(e)
      /\ alive' = [alive EXCEPT ![p].closed = TRUE]
  BY DEF Release
<1> HIDE DEF d
<1>4. e \in AttachEventType BY <1>1, <1>2 DEF AttachEvent, AttachEventType
<1>5. EVENTS' \in Seq(AttachEventType)
      /\ (EVENTS' = EVENTS \/ EVENTS' = Append(EVENTS, e))
  BY <1>1, <1>3, <1>4, SubmitFacts
<1>6. /\ LIVE' = [x \in DOMAIN LIVE' |-> LIVE'[x]]
      /\ DOMAIN LIVE' = DOMAIN LIVE \ {p}
      /\ \A x \in DOMAIN LIVE' : LIVE'[x] = LIVE[x]
      /\ DOMAIN found' = DOMAIN found \ {p}
      /\ \A x \in DOMAIN found' : found'[x] = found[x]
  BY <1>3 DEF Del
<1>7. /\ alive' = [x \in DOMAIN alive' |-> alive'[x]]
      /\ DOMAIN alive' = DOMAIN alive
      /\ \A x \in DOMAIN alive : x # p => alive'[x] = alive[x]
      /\ alive'[p] = [alive[p] EXCEPT !.closed = TRUE]
  BY <1>1, <1>3 DEF Inv, TypeOK
<1>8. alive'[p] \in LifeType /\ alive'[p].since = alive[p].since
  BY <1>1, <1>7 DEF LifeType
<1>9. TypeOK'
  <2>1. DOMAIN alive' \subseteq Attachments /\ \A x \in DOMAIN alive' : alive'[x] \in LifeType
    BY <1>1, <1>7, <1>8 DEF Inv, TypeOK
  <2>2. /\ DOMAIN LIVE' \subseteq Attachments /\ \A x \in DOMAIN LIVE' : LIVE'[x] \in Nat
        /\ DOMAIN found' \subseteq Attachments
        /\ \A x \in DOMAIN found' : found'[x] \subseteq Nat
    BY <1>6 DEF Inv, TypeOK
  <2> QED BY <1>1, <1>5, <1>6, <1>7, <2>1, <2>2 DEF TypeOK, LifeType
<1>10. LiveIsCurrent'
  <2>1. ASSUME NEW x \in DOMAIN LIVE' \cap DOMAIN alive'
        PROVE  LIVE'[x] = alive'[x].since /\ ~alive'[x].closed
    <3>1. /\ x \in DOMAIN LIVE \cap DOMAIN alive
          /\ LIVE'[x] = LIVE[x] /\ alive'[x] = alive[x]
      BY <1>6, <1>7
    <3> QED BY <3>1 DEF Inv, LiveIsCurrent
  <2> QED BY <2>1 DEF LiveIsCurrent
<1>11. NothingBeforeProbes' BY <1>1, <1>6 DEF Inv, NothingBeforeProbes
<1>12. SinceIsPast'
  <2>1. ASSUME NEW x \in DOMAIN alive' PROVE alive'[x].since <= clock'
    <3>1. alive'[x].since = alive[x].since BY <1>7, <1>8
    <3> QED BY <3>1, <1>1, <1>7
  <2> QED BY <2>1 DEF SinceIsPast
<1>13. FoundIsOwn' BY <1>6, <1>7 DEF Inv, FoundIsOwn
<1>14. Reports!Close(p)
  <2>1. /\ p \notin DOMAIN found \ DOMAIN LIVE => d = clock - alive[p].since
        /\ DOMAIN found' \ DOMAIN LIVE' = (DOMAIN found \ DOMAIN LIVE) \ {p}
    BY <1>1, <1>2, <1>6
  <2>2. Reports!LogOrLose(Reports!Closed(p, d))
    BY <1>5 DEF Reports!LogOrLose, Reports!Closed, AttachEvent
  <2> QED BY <1>1, <1>2, <1>3, <2>1, <2>2 DEF Reports!Close
<1> QED BY <1>9, <1>10, <1>11, <1>12, <1>13, <1>14 DEF Inv

(* Unprobed destruction is the abstract Destroy.                           *)
LEMMA DestroyStep ==
    ASSUME Inv, NEW p \in Attachments, Destroy(p)
    PROVE  Inv' /\ Reports!Destroy(p)
<1>1. /\ p \in DOMAIN alive /\ p \notin DOMAIN found /\ alive' = Del(alive, p)
      /\ UNCHANGED <<attached, clock, LIVE, found, EVENTS>>
  BY DEF Destroy
<1>2. /\ alive' = [x \in DOMAIN alive' |-> alive'[x]]
      /\ DOMAIN alive' = DOMAIN alive \ {p}
      /\ \A x \in DOMAIN alive' : alive'[x] = alive[x]
  BY <1>1 DEF Del
<1>3. TypeOK' BY <1>1, <1>2 DEF Inv, TypeOK
<1>4. LiveIsCurrent' /\ NothingBeforeProbes' /\ SinceIsPast' /\ FoundIsOwn'
  BY <1>1, <1>2 DEF Inv, LiveIsCurrent, NothingBeforeProbes, SinceIsPast, FoundIsOwn
<1>5. Reports!Destroy(p) BY <1>1 DEF Reports!Destroy, Reports!Del, Del
<1> QED BY <1>3, <1>4, <1>5 DEF Inv

(* Reading an event is the abstract Read.                                  *)
LEMMA ReadEventStep == Inv /\ ReadEvent => Inv' /\ Reports!Read
<1> SUFFICES ASSUME Inv, ReadEvent PROVE Inv' /\ Reports!Read
  OBVIOUS
<1>1. /\ EVENTS # <<>> /\ EVENTS' = Tail(EVENTS)
      /\ UNCHANGED <<attached, clock, alive, LIVE, found>>
  BY DEF ReadEvent
<1>2. EVENTS' \in Seq(AttachEventType)
  BY <1>1, HeadTailProperties DEF Inv, TypeOK
<1>3. TypeOK' BY <1>1, <1>2 DEF Inv, TypeOK
<1>4. LiveIsCurrent' /\ NothingBeforeProbes' /\ SinceIsPast' /\ FoundIsOwn'
  BY <1>1 DEF Inv, LiveIsCurrent, NothingBeforeProbes, SinceIsPast, FoundIsOwn
<1>5. Reports!Read BY <1>1 DEF Reports!Read
<1> QED BY <1>3, <1>4, <1>5 DEF Inv

abstract == <<clock, alive, EVENTS, DOMAIN found \ DOMAIN LIVE>>

(* Every step keeps the invariant and is a step, or a stutter, of the      *)
(* abstract specification.                                                 *)
LEMMA StepRefines ==
    Inv /\ [Next]_vars => Inv' /\ [Reports!Next]_abstract
<1> SUFFICES ASSUME Inv, [Next]_vars
    PROVE  Inv' /\ [Reports!Next]_abstract
  OBVIOUS
<1>1. CASE AttachNext
  <2>1. /\ attached' = attached + 1 /\ attached \in 0..2 /\ attached < 2
        /\ UNCHANGED <<clock, alive, LIVE, found, EVENTS>>
    BY <1>1 DEF AttachNext, Inv, TypeOK
  <2>2. attached' \in 0..2 /\ attached' # 0 BY <2>1
  <2>3. TypeOK' BY <2>1, <2>2 DEF Inv, TypeOK
  <2>4. LiveIsCurrent' /\ NothingBeforeProbes' /\ SinceIsPast' /\ FoundIsOwn'
    BY <2>1, <2>2 DEF Inv, LiveIsCurrent, NothingBeforeProbes, SinceIsPast, FoundIsOwn
  <2> QED BY <2>1, <2>3, <2>4 DEF Inv, abstract
<1>2. ASSUME NEW p \in Attachments, Construct(p)
      PROVE  Inv' /\ Reports!Next
  BY <1>2, ConstructStep DEF Reports!Next
<1>3. ASSUME NEW p \in Attachments, ReleaseGet(p)
      PROVE  Inv' /\ UNCHANGED abstract
  BY <1>3, ReleaseGetStep DEF abstract
<1>4. ASSUME NEW p \in Attachments, NEW open_ts_ns \in 0..MaxClock, Release(p, open_ts_ns)
      PROVE  Inv' /\ Reports!Next
  BY <1>4, ReleaseStep DEF Reports!Next
<1>5. ASSUME NEW p \in Attachments, Destroy(p)
      PROVE  Inv' /\ Reports!Next
  BY <1>5, DestroyStep DEF Reports!Next
<1>6. CASE ReadEvent BY <1>6, ReadEventStep DEF Reports!Next
<1>7. CASE UNCHANGED vars
  BY <1>7 DEF vars, abstract, Inv, TypeOK, LiveIsCurrent, NothingBeforeProbes, SinceIsPast,
              FoundIsOwn
<1> QED BY <1>1, <1>2, <1>3, <1>4, <1>5, <1>6, <1>7 DEF Next

(* Hence the invariant always holds.                                       *)
LEMMA AlwaysInv == Spec => []Inv
BY InitInv, StepRefines, PTL DEF Spec

(* Every variable keeps its type, and LIVE is about the current occupants  *)
(* of the addresses in use.                                                *)
THEOREM LiveCorrect == Spec => [](TypeOK /\ LiveIsCurrent)
<1>1. Inv => TypeOK /\ LiveIsCurrent BY DEF Inv
<1> QED BY <1>1, AlwaysInv, PTL

(* tragach-attach implements its promise: Closed events carry the exact    *)
(* lifetime of their attachment, at most once each, unless another one is  *)
(* constructed, and evicts the entry, while the release probe reads it.    *)
THEOREM LifetimesAreReported == Spec => ReportsLifetimes
<1>1. Init => Reports!Init BY DEF Init, Reports!Init, Reports!NoEntries, NoEntries
<1> QED BY <1>1, AlwaysInv, StepRefines, PTL DEF Spec, ReportsLifetimes, Reports!Spec, abstract
=============================================================================
