-------------------------- MODULE AttachToolProofs --------------------------
(***************************************************************************)
(* TLAPS proofs about AttachTool: with start-up, failures and the event    *)
(* loop around it, the tracer is still the one of AttachLifecycle, so what *)
(* is proved there holds of the whole tool; resolve is right about every   *)
(* debug file it can read; and no Closed line is printed without its       *)
(* Opened line.                                                            *)
(***************************************************************************)
EXTENDS AttachTool, AttachLifecycleProofs, FiniteSetTheorems

(* A step of the tool is a step of the tracer, or does not touch it.       *)
LEMMA ToolStep == [ToolNext]_toolVars => [Next]_vars
<1> SUFFICES ASSUME [ToolNext]_toolVars PROVE [Next]_vars
  OBVIOUS
<1>1. CASE UNCHANGED toolVars BY <1>1 DEF toolVars
<1>2. ASSUME NEW exist \in BOOLEAN, ensure_paths(exist) PROVE UNCHANGED vars
  BY <1>2 DEF ensure_paths, Fail
<1>9. ASSUME NEW parsed \in BOOLEAN, ReadDebugFile(parsed) PROVE UNCHANGED vars
  BY <1>9 DEF ReadDebugFile, Fail
<1>3. CASE ResolveSymbol BY <1>3 DEF ResolveSymbol, Fail
<1>4. CASE ResolveEnd BY <1>4 DEF ResolveEnd, Fail
<1>5. CASE StartFails BY <1>5 DEF StartFails, Fail
<1>6. CASE AttachProbe BY <1>6 DEF AttachProbe, Next
<1>7. ASSUME NEW p \in Attachments, Firebird(p) PROVE Next
  BY <1>7 DEF Firebird, ConstructSeen, ReleaseSeen, Next
<1>8. CASE run_event_loop BY <1>8 DEF run_event_loop, Next
<1> QED BY <1>1, <1>2, <1>3, <1>4, <1>5, <1>6, <1>7, <1>8, <1>9 DEF ToolNext

(* The tool implements the tracer: neither a start-up that fails half-way  *)
(* nor what the event loop prints changes what the probes record.          *)
THEOREM ToolRefinesTracer == ToolSpec => Spec
<1>1. ToolInit => Init BY DEF ToolInit
<1> QED BY <1>1, ToolStep, PTL DEF ToolSpec, Spec

(* LIVE is right about every attachment that exists, in the whole tool.    *)
THEOREM ToolLiveCorrect == ToolSpec => []LiveIsCurrent
BY ToolRefinesTracer, LiveCorrect, PTL

(* The whole tool keeps the promise of SPECS.md 5.3: one Closed event at   *)
(* most per attachment, with its own lifetime unless the entry is evicted  *)
(* while the release probe reads it.                                       *)
THEOREM ToolReportsLifetimes == ToolSpec => ReportsLifetimes
BY ToolRefinesTracer, LifetimesAreReported, PTL

(* The variables of the whole tool's tracer keep their types.              *)
THEOREM ToolTypeCorrect == ToolSpec => []TypeOK
BY ToolRefinesTracer, LiveCorrect, PTL

-----------------------------------------------------------------------------
(* symbols::resolve *)

(* The addresses of fn's code among the first n symbols.                   *)
CodeAmong(n, fn) ==
    {symtab[i].addr : i \in {j \in 1..n : symtab[j].class = "text" /\ symtab[j].fn = fn}}

(* While resolve runs, offsets is what it has found so far, and no two     *)
(* addresses of one function are among it.                                 *)
ScanInv ==
    boot \in {"paths", "read", "scan"} =>
        /\ symtab \in Seq(Symbols)
        /\ scanned \in 0..Len(symtab)
        /\ DOMAIN offsets = Functions
        /\ \A fn \in Functions :
              /\ offsets[fn] = CodeAmong(scanned, fn)
              /\ \A a, b \in offsets[fn] : a = b

(* CodeOf is the code among all symbols, a finite set.                     *)
LEMMA CodeOfFacts ==
    ASSUME symtab \in Seq(Symbols), NEW fn
    PROVE  CodeOf(fn) = CodeAmong(Len(symtab), fn) /\ IsFiniteSet(CodeOf(fn))
<1> DEFINE S == {j \in DOMAIN symtab : symtab[j].class = "text" /\ symtab[j].fn = fn}
           f == [j \in S |-> symtab[j].addr]
<1>1. DOMAIN symtab = 1..Len(symtab) /\ Len(symtab) \in Nat BY LenProperties
<1>2. CodeOf(fn) = CodeAmong(Len(symtab), fn) BY <1>1 DEF CodeOf, CodeAmong
<1>3. IsFiniteSet(S)
  <2>1. IsFiniteSet(1..Len(symtab)) BY <1>1, FS_Interval
  <2>2. S \in SUBSET (1..Len(symtab)) BY <1>1
  <2> QED BY <2>1, <2>2, FS_Subset
<1>4. f \in Surjection(S, CodeOf(fn)) BY DEF Surjection, CodeOf
<1> HIDE DEF S, f
<1>5. IsFiniteSet(CodeOf(fn)) BY <1>3, <1>4, FS_Surjection
<1> QED BY <1>2, <1>5

(* The next symbol adds its address to what its own function has, if it is *)
(* code of a probed function, and nothing otherwise.                       *)
LEMMA CodeAmongNext ==
    ASSUME symtab \in Seq(Symbols), NEW n \in 0..Len(symtab), n < Len(symtab),
           NEW fn \in Functions
    PROVE  CodeAmong(n + 1, fn) =
              CodeAmong(n, fn) \cup (IF Matches(symtab[n + 1]) /\ symtab[n + 1].fn = fn
                                     THEN {symtab[n + 1].addr} ELSE {})
<1>1. Len(symtab) \in Nat BY LenProperties
<1>2. 1..(n + 1) = (1..n) \cup {n + 1} BY <1>1
<1> DEFINE Code(i) == symtab[i].class = "text" /\ symtab[i].fn = fn
<1>3. CodeAmong(n, fn) = {symtab[i].addr : i \in {j \in 1..n : Code(j)}} BY DEF CodeAmong
<1>4. CodeAmong(n + 1, fn) = {symtab[i].addr : i \in {j \in (1..n) \cup {n + 1} : Code(j)}}
  BY <1>2 DEF CodeAmong
<1>5. (Matches(symtab[n + 1]) /\ symtab[n + 1].fn = fn) <=> Code(n + 1) BY DEF Matches
<1> HIDE DEF Code
<1> QED BY <1>3, <1>4, <1>5

(* A step of resolve finds a clash, which is two addresses of a function   *)
(* in the debug file, or keeps the invariant.                              *)
LEMMA ResolveSymbolStep ==
    ASSUME ScanInv, ResolveSymbol
    PROVE  /\ ScanInv'
           /\ boot' # "scan" => boot' # "resolved" /\
                 \E fn \in Functions : \E a, b \in CodeOf(fn) : a # b
<1> DEFINE sym == symtab[scanned + 1]
<1>1. /\ boot = "scan" /\ symtab \in Seq(Symbols) /\ scanned \in 0..Len(symtab)
      /\ scanned < Len(symtab) /\ DOMAIN offsets = Functions
      /\ \A fn \in Functions : /\ offsets[fn] = CodeAmong(scanned, fn)
                               /\ \A a, b \in offsets[fn] : a = b
  BY DEF ScanInv, ResolveSymbol
<1>2. Len(symtab) \in Nat /\ DOMAIN symtab = 1..Len(symtab) /\ scanned + 1 \in 0..Len(symtab)
  BY <1>1, LenProperties
<1>3. CASE Clashes(offsets, sym)
  <2>1. boot' = "failed" BY <1>3 DEF ResolveSymbol, Fail
  <2>2. sym.fn \in Functions /\ offsets[sym.fn] # {} /\ offsets[sym.fn] # {sym.addr}
    BY <1>3 DEF Clashes, Matches
  <2>3. PICK a \in offsets[sym.fn] : a # sym.addr BY <2>2
  <2>4. a \in CodeOf(sym.fn)
    BY <1>1, <1>2, <2>2, <2>3 DEF CodeAmong, CodeOf
  <2>5. sym.addr \in CodeOf(sym.fn)
    BY <1>1, <1>2, <1>3 DEF CodeOf, Clashes, Matches
  <2> QED BY <2>1, <2>2, <2>3, <2>4, <2>5 DEF ScanInv
<1>4. CASE ~Clashes(offsets, sym)
  <2>1. /\ offsets' = check_unique(offsets, sym) /\ scanned' = scanned + 1
        /\ boot' = boot /\ symtab' = symtab
    BY <1>4 DEF ResolveSymbol
  <2>2. DOMAIN offsets' = Functions BY <1>1, <2>1 DEF check_unique
  <2>3. ASSUME NEW fn \in Functions
        PROVE  /\ offsets'[fn] = CodeAmong(scanned + 1, fn)
               /\ \A a, b \in offsets'[fn] : a = b
    <3>1. CodeAmong(scanned + 1, fn) =
              offsets[fn] \cup (IF Matches(sym) /\ sym.fn = fn THEN {sym.addr} ELSE {})
      BY <1>1, CodeAmongNext
    <3>2. CASE Matches(sym) /\ sym.fn = fn
      <4>1. offsets[fn] \in {{}, {sym.addr}} BY <1>4, <3>2 DEF Clashes
      <4>2. offsets'[fn] = IF offsets[fn] = {} THEN {sym.addr} ELSE offsets[fn]
        BY <1>1, <2>1, <3>2 DEF check_unique
      <4>3. offsets'[fn] = {sym.addr} BY <4>1, <4>2
      <4> QED BY <3>1, <3>2, <4>1, <4>3
    <3>3. CASE ~(Matches(sym) /\ sym.fn = fn)
      <4>1. offsets'[fn] = offsets[fn] BY <1>1, <2>1, <3>3 DEF check_unique, Matches
      <4> QED BY <1>1, <3>1, <3>3, <4>1
    <3> QED BY <3>2, <3>3
  <2>4. ScanInv' BY <1>1, <1>2, <2>1, <2>2, <2>3 DEF ScanInv, CodeAmong
  <2> QED BY <1>1, <2>1, <2>4
<1> QED BY <1>3, <1>4

(* Nothing is resolved when the tool starts.                               *)
LEMMA ScanInit == ToolInit => ScanInv
<1> SUFFICES ASSUME ToolInit PROVE ScanInv
  OBVIOUS
<1>1. symtab \in Seq(Symbols) /\ scanned = 0 /\ offsets = NoOffsets
  BY ToolAssumption DEF ToolInit
<1>2. Len(symtab) \in Nat BY <1>1, LenProperties
<1>3. \A fn \in Functions : CodeAmong(0, fn) = {} BY DEF CodeAmong
<1> QED BY <1>1, <1>2, <1>3 DEF ScanInv, NoOffsets

(* Of all steps, only ResolveSymbol and ResolveEnd leave "scan".           *)
LEMMA ScanStep ==
    ASSUME ScanInv, [ToolNext]_toolVars
    PROVE  /\ ScanInv'
           /\ boot = "scan" /\ boot' # "scan" => ResolveSymbol \/ ResolveEnd
<1>1. CASE UNCHANGED starting
  BY <1>1 DEF starting, ScanInv, CodeAmong
<1>2. CASE UNCHANGED toolVars BY <1>1, <1>2 DEF toolVars
<1>3. ASSUME NEW exist \in BOOLEAN, ensure_paths(exist)
      PROVE  ScanInv' /\ boot # "scan"
  BY <1>3 DEF ensure_paths, Fail, ScanInv, CodeAmong
<1>11. ASSUME NEW parsed \in BOOLEAN, ReadDebugFile(parsed)
       PROVE  ScanInv' /\ boot # "scan"
  BY <1>11 DEF ReadDebugFile, Fail, ScanInv, CodeAmong
<1>4. CASE ResolveSymbol BY <1>4, ResolveSymbolStep
<1>5. CASE ResolveEnd BY <1>5 DEF ResolveEnd, Fail, ScanInv
<1>6. CASE StartFails BY <1>6 DEF StartFails, Fail, ScanInv
<1>7. CASE AttachProbe BY <1>1, <1>7 DEF AttachProbe
<1>8. ASSUME NEW p \in Attachments, Firebird(p) PROVE UNCHANGED starting
  BY <1>8 DEF Firebird, ConstructSeen, ReleaseSeen
<1>9. CASE run_event_loop BY <1>1, <1>9 DEF run_event_loop
<1>10. UNCHANGED starting => boot' = boot BY DEF starting
<1> QED BY <1>1, <1>2, <1>3, <1>4, <1>5, <1>6, <1>7, <1>8, <1>9, <1>10, <1>11
           DEF ToolNext, AttachProbe, run_event_loop, StartFails, toolVars, starting

(* The end of resolve: success means one address for every function.       *)
LEMMA ResolveEndStep ==
    ASSUME ScanInv, ResolveEnd
    PROVE  /\ boot' = "resolved" <=> \A fn \in Functions : Cardinality(CodeOf(fn)) = 1
           /\ \A fn \in Functions : offsets[fn] = CodeOf(fn)
<1>1. /\ symtab \in Seq(Symbols)
      /\ \A fn \in Functions : /\ offsets[fn] = CodeAmong(Len(symtab), fn)
                               /\ \A a, b \in offsets[fn] : a = b
  BY DEF ScanInv, ResolveEnd
<1>2. \A fn \in Functions : offsets[fn] = CodeOf(fn) /\ IsFiniteSet(CodeOf(fn))
  BY <1>1, CodeOfFacts
<1>3. boot' = "resolved" <=> Complete(offsets) BY DEF ResolveEnd, Fail
<1>4. ASSUME NEW fn \in Functions
      PROVE  Cardinality(CodeOf(fn)) = 1 <=> offsets[fn] # {}
  <2>1. Cardinality(CodeOf(fn)) = 1 <=> \E a : CodeOf(fn) = {a} BY <1>2, FS_Singleton
  <2>2. ASSUME offsets[fn] # {} PROVE \E a : CodeOf(fn) = {a}
    <3>1. PICK a : a \in offsets[fn] BY <2>2
    <3>2. \A b : b \in CodeOf(fn) <=> b = a BY <1>1, <1>2, <3>1
    <3> QED BY <3>2
  <2>3. ASSUME NEW a, CodeOf(fn) = {a} PROVE offsets[fn] # {} BY <1>2, <2>3
  <2> QED BY <2>1, <2>2, <2>3
<1> QED BY <1>2, <1>3, <1>4 DEF Complete

(* For every debug file that could be read and parsed and every set of     *)
(* probed functions: resolve succeeds exactly if the file has one address  *)
(* for each of them, and then gives that address.                          *)
THEOREM ResolveIsExact == ToolSpec => ResolvesExactly
<1> DEFINE Exact ==
        boot = "scan" /\ boot' # "scan" =>
            /\ boot' = "resolved" <=> \A fn \in Functions : Cardinality(CodeOf(fn)) = 1
            /\ boot' = "resolved" => \A fn \in Functions : offsets[fn] = CodeOf(fn)
<1>1. ASSUME ScanInv, [ToolNext]_toolVars PROVE Exact
  <2>1. CASE ~(boot = "scan" /\ boot' # "scan") BY <2>1
  <2>2. CASE boot = "scan" /\ boot' # "scan" /\ ResolveSymbol
    <3>1. PICK fn \in Functions : \E a, b \in CodeOf(fn) : a # b
      BY <1>1, <2>2, ResolveSymbolStep
    <3>2. symtab \in Seq(Symbols) BY <1>1, <2>2 DEF ScanInv
    <3>3. IsFiniteSet(CodeOf(fn)) BY <3>2, CodeOfFacts
    <3>4. Cardinality(CodeOf(fn)) # 1 BY <3>1, <3>3, FS_Singleton
    <3> QED BY <1>1, <2>2, <3>4, ResolveSymbolStep
  <2>3. CASE ResolveEnd BY <1>1, <2>3, ResolveEndStep
  <2> QED BY <1>1, <2>1, <2>2, <2>3, ScanStep
<1>2. ScanInv /\ [ToolNext]_toolVars => ScanInv' BY ScanStep
<1>3. ScanInv /\ [ToolNext]_toolVars => [Exact]_toolVars BY <1>1
<1> HIDE DEF Exact
<1>4. ToolSpec => [][Exact]_toolVars BY <1>2, <1>3, ScanInit, PTL DEF ToolSpec
<1> QED BY <1>4 DEF Exact, ResolvesExactly

-----------------------------------------------------------------------------
(* run_event_loop *)

(* Attachment s is one of those known already, or the subject of an Opened *)
(* record among the first n of the ring.                                   *)
Heard(known, ring, s, n) ==
    \/ s \in known
    \/ \E j \in 1..n : ring[j].kind = "Opened" /\ Subject(ring[j]) = s

(* Its Opened line was printed or lost in a full ring, or its Closed       *)
(* record was copied from an element taken away from the release probe.    *)
Known == announced \cup missed \cup mistaken

(* What LIVE remembers began in the past and was heard of; so was, further *)
(* ahead in the ring, the subject of every Closed record.  What a release  *)
(* probe may copy is in the past too, so the duration does not saturate.   *)
HeardInv ==
    /\ \A p \in DOMAIN LIVE :
          LIVE[p] <= clock /\ Heard(Known, EVENTS, <<p, LIVE[p]>>, Len(EVENTS))
    /\ \A p \in DOMAIN found : \A t \in found[p] : t <= clock
    /\ \A i \in 1..Len(EVENTS) :
          EVENTS[i].kind = "Closed" => Heard(Known, EVENTS, Subject(EVENTS[i]), i - 1)

(* What was heard of is not forgotten when a record is submitted.          *)
LEMMA HeardGrows ==
    ASSUME EVENTS \in Seq(AttachEventType), NEW e \in AttachEventType,
           EVENTS' = EVENTS \/ EVENTS' = Append(EVENTS, e),
           Known \subseteq Known',
           NEW s, NEW n \in 0..Len(EVENTS), NEW m \in n..Len(EVENTS'),
           Heard(Known, EVENTS, s, n)
    PROVE  Heard(Known', EVENTS', s, m)
<1>1. Len(EVENTS) \in Nat /\ Len(EVENTS') \in Nat BY LenProperties, AppendProperties
<1>2. \A j \in 1..n : j \in 1..m /\ EVENTS'[j] = EVENTS[j] BY <1>1, AppendProperties
<1> QED BY <1>2 DEF Heard, Subject

(* The constructor: heard of by its record, or counted as missed.          *)
LEMMA ConstructHeard ==
    ASSUME TypeOK, HeardInv, NEW p \in Attachments, ConstructSeen(p)
    PROVE  HeardInv'
<1> DEFINE e == AttachEvent("Opened", p, 0)
<1>1. /\ EVENTS \in Seq(AttachEventType) /\ clock \in Nat /\ clock' = clock + 1
      /\ Known \subseteq Known'
      /\ \A x \in DOMAIN LIVE : LIVE[x] \in Nat
      /\ Len(EVENTS) \in Nat
  BY LenProperties DEF ConstructSeen, Construct, TypeOK, Known
<1>2. e \in AttachEventType BY <1>1 DEF AttachEvent, AttachEventType
<1>3. EVENTS' = EVENTS \/ EVENTS' = Append(EVENTS, e)
  BY DEF ConstructSeen, Construct, Submit
<1>4. Len(EVENTS') \in Len(EVENTS)..(Len(EVENTS) + 1) BY <1>1, <1>2, <1>3, AppendProperties
<1>5. \A s : \A n \in 0..Len(EVENTS) : \A m \in n..Len(EVENTS') :
        Heard(Known, EVENTS, s, n) => Heard(Known', EVENTS', s, m)
  BY <1>1, <1>2, <1>3, HeardGrows
<1>6. ASSUME NEW x \in DOMAIN LIVE, x \in DOMAIN LIVE', LIVE'[x] = LIVE[x]
      PROVE  LIVE'[x] <= clock' /\ Heard(Known', EVENTS', <<x, LIVE'[x]>>, Len(EVENTS'))
  BY <1>1, <1>4, <1>5, <1>6 DEF HeardInv
<1>7. ASSUME NEW x \in DOMAIN LIVE'
      PROVE  LIVE'[x] <= clock' /\ Heard(Known', EVENTS', <<x, LIVE'[x]>>, Len(EVENTS'))
  <2>1. CASE ~(attached >= 1) BY <1>6, <2>1 DEF ConstructSeen, Construct
  <2>2. CASE attached >= 1 /\ x # p
    BY <1>6, <2>2, LruFacts DEF ConstructSeen, Construct
  <2>3. CASE attached >= 1 /\ x = p
    <3>1. LIVE'[x] = clock BY <2>3, LruFacts DEF ConstructSeen, Construct
    <3>2. CASE EVENTS' = EVENTS BY <1>1, <2>3, <3>1, <3>2 DEF ConstructSeen, Heard, Known
    <3>3. CASE EVENTS' = Append(EVENTS, e)
      <4>1. /\ Len(EVENTS') = Len(EVENTS) + 1
            /\ EVENTS'[Len(EVENTS) + 1] = e
        BY <1>1, <1>2, <3>3, AppendProperties
      <4>2. e.kind = "Opened" /\ Subject(e) = <<p, clock>>
        BY <1>1 DEF AttachEvent, Subject
      <4>3. Len(EVENTS') \in 1..Len(EVENTS') BY <1>1, <4>1
      <4> QED BY <1>1, <2>3, <3>1, <4>1, <4>2, <4>3 DEF Heard, Subject
    <3> QED BY <1>3, <3>2, <3>3
  <2> QED BY <2>1, <2>2, <2>3
<1>8. ASSUME NEW i \in 1..Len(EVENTS'), EVENTS'[i].kind = "Closed"
      PROVE  Heard(Known', EVENTS', Subject(EVENTS'[i]), i - 1)
  <2>1. i \in 1..Len(EVENTS) /\ EVENTS'[i] = EVENTS[i]
    BY <1>1, <1>2, <1>3, <1>4, <1>8, AppendProperties DEF AttachEvent
  <2>2. i - 1 \in 0..Len(EVENTS) /\ i - 1 \in (i - 1)..Len(EVENTS') BY <1>1, <1>4, <2>1
  <2> QED BY <1>5, <1>8, <2>1, <2>2 DEF HeardInv, Subject
<1>9. ASSUME NEW x \in DOMAIN found', NEW t \in found'[x] PROVE t <= clock'
  <2>1. \A y \in DOMAIN found : \A u \in found[y] : u \in Nat /\ u <= clock
    BY DEF TypeOK, HeardInv
  <2>2. x \in DOMAIN found /\ (t \in found[x] \/ t = clock)
    BY <1>9 DEF ConstructSeen, Construct, Refilled
  <2> QED BY <1>1, <2>1, <2>2
<1> QED BY <1>7, <1>8, <1>9 DEF HeardInv, Subject

(* release_attachment: the Closed record it submits has the subject LIVE   *)
(* remembers, which was heard of, or one counted as mistaken.              *)
LEMMA ReleaseHeard ==
    ASSUME Inv, HeardInv, NEW p \in Attachments, NEW open_ts_ns \in 0..MaxClock,
           ReleaseSeen(p, open_ts_ns)
    PROVE  HeardInv'
<1> DEFINE d == SaturatingSub(clock, open_ts_ns)
           e == AttachEvent("Closed", p, d)
           s == <<p, open_ts_ns>>
<1>1. /\ EVENTS \in Seq(AttachEventType) /\ clock \in Nat /\ clock' = clock + 1
      /\ Known \subseteq Known'
      /\ \A x \in DOMAIN LIVE : LIVE[x] \in Nat /\ LIVE[x] <= clock
      /\ \A x \in DOMAIN found : \A t \in found[x] : t \in Nat /\ t <= clock
      /\ Len(EVENTS) \in Nat
  BY LenProperties DEF ReleaseSeen, Release, Inv, TypeOK, HeardInv, Known
<1>2. p \in DOMAIN found /\ open_ts_ns \in found[p] BY DEF ReleaseSeen, Release
<1>3. d \in Nat /\ clock - d = open_ts_ns BY <1>1, <1>2 DEF SaturatingSub
<1>4. e \in AttachEventType BY <1>1, <1>3 DEF AttachEvent, AttachEventType
<1>5. EVENTS' = EVENTS \/ EVENTS' = Append(EVENTS, e) BY DEF ReleaseSeen, Release, Submit
<1>6. Len(EVENTS') \in Len(EVENTS)..(Len(EVENTS) + 1)
  BY <1>1, <1>4, <1>5, AppendProperties
<1>7. \A u : \A n \in 0..Len(EVENTS) : \A m \in n..Len(EVENTS') :
      Heard(Known, EVENTS, u, n) => Heard(Known', EVENTS', u, m)
  BY <1>1, <1>4, <1>5, HeardGrows
<1>8. Heard(Known', EVENTS', s, Len(EVENTS))
  <2>1. CASE p \in DOMAIN LIVE
    <3>1. open_ts_ns = LIVE[p] BY <1>2, <2>1 DEF Inv, FoundIsOwn, LiveIsCurrent
    <3>2. Heard(Known, EVENTS, s, Len(EVENTS)) BY <2>1, <3>1 DEF HeardInv
    <3>3. Len(EVENTS) \in 0..Len(EVENTS) /\ Len(EVENTS) \in Len(EVENTS)..Len(EVENTS')
      BY <1>1, <1>6
    <3> QED BY <1>7, <3>2, <3>3
  <2>2. CASE p \notin DOMAIN LIVE BY <2>2 DEF ReleaseSeen, Known, Heard
  <2> QED BY <2>1, <2>2
<1>9. ASSUME NEW x \in DOMAIN LIVE'
      PROVE  LIVE'[x] <= clock' /\ Heard(Known', EVENTS', <<x, LIVE'[x]>>, Len(EVENTS'))
  <2>1. x \in DOMAIN LIVE /\ LIVE'[x] = LIVE[x] BY DEF ReleaseSeen, Release, Del
  <2> QED BY <1>1, <1>6, <1>7, <2>1 DEF HeardInv
<1>10. ASSUME NEW i \in 1..Len(EVENTS'), EVENTS'[i].kind = "Closed"
       PROVE  Heard(Known', EVENTS', Subject(EVENTS'[i]), i - 1)
  <2>1. CASE i \in 1..Len(EVENTS)
    <3>1. EVENTS'[i] = EVENTS[i] BY <1>1, <1>4, <1>5, <2>1, AppendProperties
    <3>2. i - 1 \in 0..Len(EVENTS) /\ i - 1 \in (i - 1)..Len(EVENTS') BY <1>1, <1>6, <2>1
    <3> QED BY <1>7, <1>10, <2>1, <3>1, <3>2 DEF HeardInv, Subject
  <2>2. CASE i \notin 1..Len(EVENTS)
    <3>1. i = Len(EVENTS) + 1 /\ EVENTS'[i] = e
      BY <1>1, <1>4, <1>5, <1>6, <2>2, AppendProperties
    <3>2. Subject(e) = s BY <1>3 DEF AttachEvent, Subject
    <3>3. i - 1 = Len(EVENTS) BY <1>1, <3>1
    <3> QED BY <1>8, <3>1, <3>2, <3>3 DEF Subject
  <2> QED BY <2>1, <2>2
<1>11. ASSUME NEW x \in DOMAIN found', NEW t \in found'[x] PROVE t <= clock'
  <2>1. x \in DOMAIN found /\ t \in found[x] BY <1>11 DEF ReleaseSeen, Release, Del
  <2> QED BY <1>1, <2>1
<1> QED BY <1>9, <1>10, <1>11 DEF HeardInv, Subject

(* release_attachment finds its entry: what it may copy is what LIVE has.  *)
LEMMA ReleaseGetHeard ==
    ASSUME HeardInv, NEW p \in Attachments, ReleaseGet(p), UNCHANGED printing
    PROVE  HeardInv'
<1>1. /\ clock' = clock /\ LIVE' = LIVE /\ EVENTS' = EVENTS /\ Known' = Known
  BY DEF ReleaseGet, printing, Known
<1>2. \A x \in DOMAIN found' : \A t \in found'[x] : t <= clock'
  BY <1>1 DEF ReleaseGet, Put, HeardInv
<1> QED BY <1>1, <1>2 DEF HeardInv, Heard, Subject

(* The record read leaves the ring; an Opened one is printed whatever its  *)
(* duration.                                                               *)
LEMMA ReadHeard ==
    ASSUME TypeOK, HeardInv, run_event_loop
    PROVE  HeardInv'
<1>1. /\ EVENTS \in Seq(AttachEventType) /\ EVENTS # <<>> /\ EVENTS' = Tail(EVENTS)
      /\ clock' = clock /\ LIVE' = LIVE /\ found' = found /\ Known \subseteq Known'
  BY DEF run_event_loop, ReadEvent, TypeOK, Known
<1>2. /\ Len(EVENTS) \in Nat /\ Len(EVENTS') = Len(EVENTS) - 1 /\ Len(EVENTS') \in Nat
      /\ \A i \in 1..Len(EVENTS') : EVENTS'[i] = EVENTS[i + 1]
      /\ Head(EVENTS) = EVENTS[1]
  BY <1>1, HeadTailProperties, LenProperties
<1>3. ASSUME NEW s, NEW n \in 1..Len(EVENTS), Heard(Known, EVENTS, s, n)
      PROVE  Heard(Known', EVENTS', s, n - 1)
  <2>1. CASE s \in Known BY <1>1, <2>1 DEF Heard
  <2>2. ASSUME NEW j \in 1..n, EVENTS[j].kind = "Opened", Subject(EVENTS[j]) = s
        PROVE  Heard(Known', EVENTS', s, n - 1)
    <3>1. CASE j = 1
      <4>1. s \in Known' BY <1>2, <2>2, <3>1 DEF run_event_loop, Skipped, Known
      <4> QED BY <4>1 DEF Heard
    <3>2. CASE j # 1
      <4>1. j - 1 \in 1..(n - 1) /\ EVENTS'[j - 1] = EVENTS[j] BY <1>2, <3>2
      <4> QED BY <2>2, <4>1 DEF Heard, Subject
    <3> QED BY <3>1, <3>2
  <2> QED BY <1>3, <2>1, <2>2 DEF Heard
<1>4. ASSUME NEW x \in DOMAIN LIVE'
      PROVE  LIVE'[x] <= clock' /\ Heard(Known', EVENTS', <<x, LIVE'[x]>>, Len(EVENTS'))
  <2>1. Heard(Known, EVENTS, <<x, LIVE[x]>>, Len(EVENTS)) /\ LIVE[x] <= clock BY <1>1 DEF HeardInv
  <2>2. Len(EVENTS) \in 1..Len(EVENTS) BY <1>2
  <2> QED BY <1>1, <1>2, <1>3, <2>1, <2>2
<1>5. ASSUME NEW i \in 1..Len(EVENTS'), EVENTS'[i].kind = "Closed"
      PROVE  Heard(Known', EVENTS', Subject(EVENTS'[i]), i - 1)
  <2>1. i + 1 \in 1..Len(EVENTS) /\ i \in 1..Len(EVENTS) /\ (i + 1) - 1 = i BY <1>2
  <2>2. Heard(Known, EVENTS, Subject(EVENTS[i + 1]), i) BY <1>2, <1>5, <2>1 DEF HeardInv
  <2> QED BY <1>2, <1>3, <2>1, <2>2 DEF Subject
<1> QED BY <1>1, <1>4, <1>5 DEF HeardInv, Subject

(* Every step of the tool keeps HeardInv.                                  *)
LEMMA HeardStep ==
    ASSUME Inv, HeardInv, [ToolNext]_toolVars
    PROVE  HeardInv'
<1>0. TypeOK BY DEF Inv
<1>1. CASE UNCHANGED <<clock, LIVE, found, EVENTS, printing>>
  BY <1>1 DEF HeardInv, Heard, Known, Subject, printing
<1>2. CASE UNCHANGED toolVars BY <1>1, <1>2 DEF toolVars, vars
<1>3. ASSUME NEW exist \in BOOLEAN, ensure_paths(exist) PROVE HeardInv'
  BY <1>1, <1>3 DEF ensure_paths, Fail, vars
<1>10. ASSUME NEW parsed \in BOOLEAN, ReadDebugFile(parsed) PROVE HeardInv'
  BY <1>1, <1>10 DEF ReadDebugFile, Fail, vars
<1>4. CASE ResolveSymbol BY <1>1, <1>4 DEF ResolveSymbol, Fail, vars
<1>5. CASE ResolveEnd BY <1>1, <1>5 DEF ResolveEnd, Fail, vars
<1>6. CASE StartFails BY <1>1, <1>6 DEF StartFails, Fail, vars
<1>7. CASE AttachProbe BY <1>1, <1>7 DEF AttachProbe, AttachNext
<1>8. ASSUME NEW p \in Attachments, Firebird(p) PROVE HeardInv'
  <2>1. CASE ConstructSeen(p) BY <1>0, <2>1, ConstructHeard
  <2>2. ASSUME NEW open_ts_ns \in 0..MaxClock, ReleaseSeen(p, open_ts_ns) PROVE HeardInv'
    BY <2>2, ReleaseHeard
  <2>3. CASE ReleaseGet(p) /\ UNCHANGED printing BY <2>3, ReleaseGetHeard
  <2>4. CASE Destroy(p) /\ UNCHANGED printing BY <1>1, <2>4 DEF Destroy
  <2> QED BY <1>8, <2>1, <2>2, <2>3, <2>4 DEF Firebird
<1>9. CASE run_event_loop BY <1>0, <1>9, ReadHeard
<1> QED BY <1>2, <1>3, <1>4, <1>5, <1>6, <1>7, <1>8, <1>9, <1>10 DEF ToolNext

(* Whatever --min-duration, LIVE and the ring lose: a Closed record is     *)
(* read after the Opened line of its attachment was printed, unless that   *)
(* record had found the ring full, or the release probe copied an element  *)
(* that an eviction had taken from it.                                     *)
THEOREM ClosedAfterOpened == ToolSpec => ClosedFollowsOpened
<1> DEFINE Follows ==
        EVENTS # <<>> /\ EVENTS' = Tail(EVENTS) /\ Head(EVENTS).kind = "Closed" =>
            Subject(Head(EVENTS)) \in announced \cup missed \cup mistaken
<1>1. ToolInit => HeardInv
  BY EmptySeq DEF ToolInit, Init, HeardInv, NoEntries
<1>2. TypeOK /\ HeardInv => Follows
  <2> SUFFICES ASSUME TypeOK, HeardInv, EVENTS # <<>>, Head(EVENTS).kind = "Closed"
               PROVE  Subject(Head(EVENTS)) \in announced \cup missed \cup mistaken
    OBVIOUS
  <2>1. EVENTS \in Seq(AttachEventType) BY DEF TypeOK
  <2>2. 1 \in 1..Len(EVENTS) /\ Head(EVENTS) = EVENTS[1] BY <2>1, EmptySeq
  <2>3. Heard(Known, EVENTS, Subject(EVENTS[1]), 0) BY <2>2 DEF HeardInv
  <2> QED BY <2>2, <2>3 DEF Heard, Known
<1>3. Inv /\ HeardInv /\ [ToolNext]_toolVars => HeardInv' BY HeardStep
<1>4. Inv /\ HeardInv => [Follows]_toolVars BY <1>2 DEF Inv
<1> HIDE DEF Follows
<1>5. ToolSpec => [][Follows]_toolVars
  BY <1>1, <1>3, <1>4, ToolRefinesTracer, AlwaysInv, PTL DEF ToolSpec
<1> QED BY <1>5 DEF Follows, ClosedFollowsOpened
=============================================================================
