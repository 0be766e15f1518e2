-------------------------- MODULE SlowQueryProofs --------------------------
(***************************************************************************)
(* TLAPS proofs about SlowQuery, for any number of threads, requests,      *)
(* cursors and statements, any map capacities and ring size, any nesting   *)
(* depth, and with calls in flight while the probes are being attached.    *)
(***************************************************************************)
EXTENDS SlowQuery, SequenceTheorems, TLAPS

-----------------------------------------------------------------------------
(* Maps and stacks.                                                        *)

(* Put stores the value under the key and leaves the other keys alone.     *)
LEMMA PutFacts ==
    ASSUME NEW K, NEW V, NEW m, IsMap(m, K, V), NEW k \in K, NEW v \in V
    PROVE  /\ IsMap(Put(m, k, v), K, V)
           /\ DOMAIN Put(m, k, v) = DOMAIN m \cup {k}
           /\ Put(m, k, v)[k] = v
           /\ \A x \in DOMAIN m : x # k => Put(m, k, v)[x] = m[x]
BY DEF IsMap, Put

(* Del removes the key and leaves the others alone.                        *)
LEMMA DelFacts ==
    ASSUME NEW K, NEW V, NEW m, IsMap(m, K, V), NEW k \in K
    PROVE  /\ IsMap(Del(m, k), K, V)
           /\ DOMAIN Del(m, k) = DOMAIN m \ {k}
           /\ \A x \in DOMAIN m : x # k => Del(m, k)[x] = m[x]
BY DEF IsMap, Del

(* An LRU insert stores the value; whatever it evicts, the surviving       *)
(* entries are unchanged.                                                  *)
LEMMA LruFacts ==
    ASSUME NEW K, NEW V, NEW m, IsMap(m, K, V), NEW k \in K, NEW v \in V,
           NEW max, NEW n \in LruInserts(m, k, v, max)
    PROVE  /\ IsMap(n, K, V)
           /\ k \in DOMAIN n /\ n[k] = v
           /\ \A x \in DOMAIN n : x # k => x \in DOMAIN m /\ n[x] = m[x]
<1>1. PICK S \in SUBSET (DOMAIN m \ {k}) : n = Put(Keep(m, S), k, v)
  BY DEF LruInserts
<1>2. IsMap(Keep(m, S), K, V) /\ DOMAIN Keep(m, S) = DOMAIN m \cap S
      /\ \A x \in DOMAIN m \cap S : Keep(m, S)[x] = m[x]
  BY DEF IsMap, Keep
<1>3. /\ IsMap(n, K, V)
      /\ DOMAIN n = (DOMAIN m \cap S) \cup {k}
      /\ n[k] = v
      /\ \A x \in DOMAIN m \cap S : x # k => n[x] = Keep(m, S)[x]
  BY <1>1, <1>2, PutFacts
<1> QED BY <1>2, <1>3

(* A call pushes its frame and only clears kept of same-function frames.   *)
LEMMA PushFacts ==
    ASSUME NEW s \in Seq(FrameType), NEW f \in FrameType, NEW fn
    PROVE  /\ Append(Shadowed(s, fn), f) \in Seq(FrameType)
           /\ Len(s) \in Nat
           /\ Len(Append(Shadowed(s, fn), f)) = Len(s) + 1
           /\ Append(Shadowed(s, fn), f)[Len(s) + 1] = f
           /\ \A i \in 1..Len(s) :
                Append(Shadowed(s, fn), f)[i] =
                  IF s[i].fn = fn THEN [s[i] EXCEPT !.kept = FALSE] ELSE s[i]
<1> DEFINE sh == Shadowed(s, fn)
<1>1. Len(s) \in Nat /\ \A i \in 1..Len(s) : s[i] \in FrameType
  BY LenProperties, ElementOfSeq
<1>2. \A i \in 1..Len(s) :
        (IF s[i].fn = fn THEN [s[i] EXCEPT !.kept = FALSE] ELSE s[i]) \in FrameType
  BY <1>1 DEF FrameType
<1>3. sh \in [1..Len(s) -> FrameType] BY <1>2 DEF Shadowed
<1>4. sh \in Seq(FrameType) BY <1>1, <1>3, SeqDef
<1>5. Len(sh) = Len(s)
  <2>1. DOMAIN sh = 1..Len(s) BY <1>3
  <2> QED BY <2>1, <1>1, <1>4, LenProperties
<1>6. \A i \in 1..Len(s) :
        sh[i] = IF s[i].fn = fn THEN [s[i] EXCEPT !.kept = FALSE] ELSE s[i]
  BY DEF Shadowed
<1> HIDE DEF sh
<1>7. /\ Append(sh, f) \in Seq(FrameType)
      /\ Len(Append(sh, f)) = Len(sh) + 1
      /\ \A i \in 1..Len(sh) : Append(sh, f)[i] = sh[i]
      /\ Append(sh, f)[Len(sh) + 1] = f
  BY <1>4, AppendProperties
<1> QED BY <1>1, <1>5, <1>6, <1>7 DEF sh

(* A return removes the last frame.                                        *)
LEMMA PopFacts ==
    ASSUME NEW S, NEW s \in Seq(S), s # <<>>
    PROVE  /\ Pop(s) \in Seq(S)
           /\ Len(s) \in Nat /\ Len(s) >= 1
           /\ Len(Pop(s)) = Len(s) - 1
           /\ \A i \in 1..(Len(s) - 1) : Pop(s)[i] = s[i]
<1>1. Len(s) \in Nat /\ Len(s) >= 1
  <2>1. Len(s) \in Nat /\ Len(s) # 0 BY EmptySeq, LenProperties
  <2> QED BY <2>1
<1>2. \A i \in 1..(Len(s) - 1) : s[i] \in S BY <1>1, ElementOfSeq
<1>3. Len(s) - 1 \in Int /\ 1 \in Int BY <1>1
<1>4. /\ SubSeq(s, 1, Len(s) - 1) \in Seq(S)
      /\ Len(SubSeq(s, 1, Len(s) - 1)) =
            IF 1 <= Len(s) - 1 THEN Len(s) - 1 - 1 + 1 ELSE 0
      /\ \A i \in 1..(Len(s) - 1 - 1 + 1) :
            SubSeq(s, 1, Len(s) - 1)[i] = s[1 + i - 1]
  BY <1>2, <1>3, SubSeqProperties
<1>5. ASSUME NEW i \in 1..(Len(s) - 1)
      PROVE  SubSeq(s, 1, Len(s) - 1)[i] = s[i]
  <2>1. i \in 1..(Len(s) - 1 - 1 + 1) /\ 1 + i - 1 = i BY <1>1
  <2> QED BY <2>1, <1>4
<1>6. Len(SubSeq(s, 1, Len(s) - 1)) = Len(s) - 1
  <2>1. CASE Len(s) = 1 BY <2>1, <1>4
  <2>2. CASE Len(s) > 1 BY <2>2, <1>1, <1>4
  <2> QED BY <2>1, <2>2, <1>1
<1> QED BY <1>1, <1>4, <1>5, <1>6 DEF Pop

-----------------------------------------------------------------------------
(* The inductive invariant.  Besides the properties themselves it says     *)
(* that calls in progress use live pointers (LiveArgs, LiveCursors), that  *)
(* time stamps are not in the future, that a call started later than an    *)
(* armed one is armed too, and that a reported cursor is out of            *)
(* OPEN_CURSORS.                                                           *)

LiveArgs ==
    \A t \in Threads : \A i \in 1..Len(stack[t]) :
        /\ stack[t][i].fn \in {"execute", "openCursor"}
              => stack[t][i].arg \in DOMAIN stmtAt
        /\ stack[t][i].fn = "fetchNext" => stack[t][i].arg \in DOMAIN cursorAt

LiveCursors ==
    \A c \in DOMAIN cursorAt :
        cursorAt[c].req \in DOMAIN stmtAt /\ cursorAt[c].ts <= clock

ArmedOrder ==
    \A t \in Threads : \A i \in 1..Len(stack[t]) :
        /\ stack[t][i].ts <= clock
        /\ stack[t][i].armed =>
              /\ ExitAttached(stack[t][i].fn)
              /\ \A j \in (i + 1)..Len(stack[t]) :
                    stack[t][j].fn = stack[t][i].fn => stack[t][j].armed

ReportedGone ==
    \A c \in DOMAIN cursorAt :
        \/ cursorAt[c].reports = 0
        \/ cursorAt[c].reports = 1 /\ c \notin DOMAIN OPEN_CURSORS

Pairing == CallsOK /\ ArmedOrder /\ EntryPairing

(* The frame of a call and the entry stored for it have their types.       *)
LEMMA FrameFacts ==
    ASSUME CallsOK, NEW t \in Threads, NEW fn \in Fns, NEW arg \in ArgsOf(fn)
    PROVE  /\ Frame(t, fn, arg) \in FrameType
           /\ Frame(t, fn, arg).fn = fn
           /\ Frame(t, fn, arg).arg = arg
           /\ Frame(t, fn, arg).ts = clock
           /\ Frame(t, fn, arg).armed = ExitAttached(fn)
           /\ Frame(t, fn, arg).kept = Recorded(t, fn, arg)
<1>1. ExitAttached(fn) \in BOOLEAN BY DEF ExitAttached
<1>2. Recorded(t, fn, arg) \in BOOLEAN BY DEF Recorded
<1>3. arg \in Stmts \cup Requests \cup Cursors BY DEF ArgsOf
<1>4. clock \in Nat BY DEF CallsOK
<1> QED BY <1>1, <1>2, <1>3, <1>4 DEF Frame, FrameType

(* The entry probe of a call keeps entries and calls paired.               *)
LEMMA CallKeepsPairing ==
    ASSUME Pairing, NEW t \in Threads, NEW fn \in Fns, NEW arg \in ArgsOf(fn),
           Call(t, fn, arg)
    PROVE  Pairing'
<1> DEFINE s == stack[t]
           f == Frame(t, fn, arg)
           n == Len(stack[t])
<1>1. /\ f \in FrameType /\ f.fn = fn /\ f.arg = arg /\ f.ts = clock
      /\ f.armed = ExitAttached(fn) /\ f.kept = Recorded(t, fn, arg)
  BY FrameFacts DEF Pairing
<1>2. s \in Seq(FrameType) BY DEF Pairing, CallsOK
<1>3. /\ stack'[t] \in Seq(FrameType)
      /\ n \in Nat
      /\ Len(stack'[t]) = n + 1
      /\ stack'[t][n + 1] = f
      /\ \A i \in 1..n : stack'[t][i] =
            IF s[i].fn = fn THEN [s[i] EXCEPT !.kept = FALSE] ELSE s[i]
  <2>1. stack'[t] = Append(Shadowed(s, fn), f) BY DEF Call, Pairing, CallsOK
  <2>2. f \in FrameType BY <1>1
  <2>3. /\ Append(Shadowed(s, fn), f) \in Seq(FrameType)
        /\ Len(s) \in Nat
        /\ Len(Append(Shadowed(s, fn), f)) = Len(s) + 1
        /\ Append(Shadowed(s, fn), f)[Len(s) + 1] = f
        /\ \A i \in 1..Len(s) :
              Append(Shadowed(s, fn), f)[i] =
                IF s[i].fn = fn THEN [s[i] EXCEPT !.kept = FALSE] ELSE s[i]
    <3> HIDE DEF s, f
    <3> QED BY <1>2, <2>2, PushFacts
  <2> QED BY <2>1, <2>3, Zenon
<1>4. \A u \in Threads : u # t => stack'[u] = stack[u]
  BY DEF Call, Pairing, CallsOK
<1>5. stack' \in [Threads -> Seq(FrameType)]
  BY <1>3 DEF Call, Pairing, CallsOK
<1>6. \A u \in Threads : Len(stack[u]) \in Nat
                         /\ \A i \in 1..Len(stack[u]) : stack[u][i] \in FrameType
  BY LenProperties, ElementOfSeq DEF Pairing, CallsOK
<1>7. \A i \in 1..n : /\ stack'[t][i].fn = s[i].fn
                      /\ stack'[t][i].arg = s[i].arg
                      /\ stack'[t][i].ts = s[i].ts
                      /\ stack'[t][i].armed = s[i].armed
                      /\ stack'[t][i].kept <=> (s[i].kept /\ s[i].fn # fn)
  BY <1>3, <1>6 DEF FrameType
<1>8. \A g \in Fns : g # fn => inProgress'[g] = inProgress[g]
  BY DEF Call, Pairing, CallsOK
<1>9. inProgress'[fn] = IF Recorded(t, fn, arg)
                        THEN Put(inProgress[fn], t, EntryOf(fn, arg, clock))
                        ELSE inProgress[fn]
  BY DEF Call, Pairing, CallsOK
<1>10. EntryOf(fn, arg, clock) \in EntryType(fn)
  BY DEF EntryOf, EntryType, Pairing, CallsOK
<1>11. /\ IsMap(inProgress'[fn], Threads, EntryType(fn))
       /\ Recorded(t, fn, arg) =>
             t \in DOMAIN inProgress'[fn]
             /\ inProgress'[fn][t] = EntryOf(fn, arg, clock)
       /\ ~Recorded(t, fn, arg) => inProgress'[fn] = inProgress[fn]
       /\ \A u \in Threads : u # t =>
             /\ u \in DOMAIN inProgress'[fn] <=> u \in DOMAIN inProgress[fn]
             /\ u \in DOMAIN inProgress[fn] =>
                   inProgress'[fn][u] = inProgress[fn][u]
  <2>1. IsMap(inProgress[fn], Threads, EntryType(fn)) BY DEF Pairing, CallsOK
  <2>2. CASE Recorded(t, fn, arg)
    <3> DEFINE m == Put(inProgress[fn], t, EntryOf(fn, arg, clock))
    <3>1. inProgress'[fn] = m BY <2>2, <1>9
    <3>2. /\ IsMap(m, Threads, EntryType(fn))
          /\ DOMAIN m = DOMAIN inProgress[fn] \cup {t}
          /\ m[t] = EntryOf(fn, arg, clock)
          /\ \A x \in DOMAIN inProgress[fn] : x # t => m[x] = inProgress[fn][x]
      BY <1>10, <2>1, PutFacts
    <3> HIDE DEF m
    <3> QED BY <2>2, <3>1, <3>2
  <2>3. CASE ~Recorded(t, fn, arg) BY <2>1, <2>3, <1>9
  <2> QED BY <2>2, <2>3
<1>12. clock' = clock + 1 /\ clock \in Nat /\ attached' = attached
  BY DEF Call, Pairing, CallsOK
<1>13. CallsOK'
  <2>1. \A u \in Threads : \A i \in 1..Len(stack'[u]) :
            stack'[u][i].arg \in ArgsOf(stack'[u][i].fn)
    <3>1. \A i \in 1..Len(stack'[t]) : stack'[t][i].arg \in ArgsOf(stack'[t][i].fn)
      BY <1>1, <1>3, <1>7 DEF Pairing, CallsOK
    <3> QED BY <3>1, <1>4 DEF Pairing, CallsOK
  <2>2. \A g \in Fns : IsMap(inProgress'[g], Threads, EntryType(g))
    BY <1>8, <1>11 DEF Pairing, CallsOK
  <2>3. inProgress' = [g \in Fns |-> inProgress'[g]]
    BY DEF Call, Pairing, CallsOK
  <2>4. attached' \in 0..Probes /\ clock' \in Nat BY <1>12 DEF Pairing, CallsOK
  <2> QED BY <1>5, <2>1, <2>2, <2>3, <2>4 DEF CallsOK
<1>14. ArmedOrder'
  <2> SUFFICES ASSUME NEW u \in Threads, NEW i \in 1..Len(stack'[u])
      PROVE  /\ stack'[u][i].ts <= clock'
             /\ stack'[u][i].armed =>
                  /\ attached' >= 2 * PairNo[stack'[u][i].fn]
                  /\ \A j \in (i + 1)..Len(stack'[u]) :
                       stack'[u][j].fn = stack'[u][i].fn => stack'[u][j].armed
    BY DEF ArmedOrder, ExitAttached
  <2>1. CASE u # t
    <3>1. stack'[u] = stack[u] /\ stack[u][i] \in FrameType BY <2>1, <1>4, <1>6
    <3>2. stack[u][i].ts \in Nat BY <3>1 DEF FrameType
    <3>3. stack[u][i].ts <= clock' BY <3>1, <3>2, <1>12 DEF Pairing, ArmedOrder
    <3>4. attached \in Int /\ PairNo[stack[u][i].fn] \in Int
      BY <3>1 DEF FrameType, PairNo, Fns, Pairing, CallsOK
    <3> QED BY <3>1, <3>3, <3>4, <1>12 DEF Pairing, ArmedOrder, ExitAttached
  <2>2. CASE u = t /\ i = n + 1
    <3>1. stack'[u][i] = f /\ f.ts <= clock' BY <2>2, <1>1, <1>3, <1>12
    <3>2. f.armed => attached' >= 2 * PairNo[f.fn] BY <1>1, <1>12 DEF ExitAttached
    <3>3. \A j \in (i + 1)..Len(stack'[u]) : FALSE BY <2>2, <1>3
    <3> QED BY <3>1, <3>2, <3>3
  <2>3. CASE u = t /\ i \in 1..n
    <3>1. s[i] \in FrameType /\ s[i].ts \in Nat BY <2>3, <1>6 DEF FrameType
    <3>2. s[i].ts <= clock BY <2>3 DEF Pairing, ArmedOrder
    <3>3. ASSUME s[i].armed
          PROVE  ExitAttached(s[i].fn)
      BY <2>3, <3>3 DEF Pairing, ArmedOrder
    <3>4. ASSUME s[i].armed, NEW j \in (i + 1)..(n + 1),
                 stack'[t][j].fn = s[i].fn
          PROVE  stack'[t][j].armed
      <4>1. CASE j = n + 1
        BY <4>1, <3>3, <3>4, <1>1, <1>3
      <4>2. CASE j \in (i + 1)..n
        <5>1. j \in 1..n BY <4>2, <2>3
        <5>2. s[j].fn = s[i].fn BY <5>1, <3>4, <1>7
        <5>3. s[j].armed BY <4>2, <5>2, <3>4, <2>3 DEF Pairing, ArmedOrder
        <5> QED BY <5>1, <5>3, <1>7
      <4> QED BY <4>1, <4>2, <1>3, <2>3
    <3>5. stack'[t][i].ts <= clock' BY <3>1, <3>2, <2>3, <1>7, <1>12
    <3>6. ASSUME s[i].armed PROVE attached' >= 2 * PairNo[s[i].fn]
      BY <3>3, <3>6, <1>12 DEF ExitAttached
    <3> QED BY <3>4, <3>5, <3>6, <2>3, <1>3, <1>7
  <2> QED BY <2>1, <2>2, <2>3, <1>3
<1>15. EntryPairing'
  <2> SUFFICES ASSUME NEW u \in Threads, NEW i \in 1..Len(stack'[u])
      PROVE
        /\ stack'[u][i].kept =>
              /\ NoneAbove(u, i)'
              /\ u \in DOMAIN inProgress'[stack'[u][i].fn]
              /\ inProgress'[stack'[u][i].fn][u] =
                    EntryOf(stack'[u][i].fn, stack'[u][i].arg, stack'[u][i].ts)
        /\ (stack'[u][i].armed /\ ~stack'[u][i].kept /\ NoneAbove(u, i)')
              => u \notin DOMAIN inProgress'[stack'[u][i].fn]
    BY DEF EntryPairing
  <2>1. CASE u # t
    <3>1. stack'[u] = stack[u] BY <2>1, <1>4
    <3>2. stack[u][i].fn \in Fns BY <3>1, <1>6 DEF FrameType
    <3>3. NoneAbove(u, i)' <=> NoneAbove(u, i) BY <3>1 DEF NoneAbove
    <3>4. /\ u \in DOMAIN inProgress'[stack[u][i].fn]
               <=> u \in DOMAIN inProgress[stack[u][i].fn]
          /\ u \in DOMAIN inProgress[stack[u][i].fn] =>
               inProgress'[stack[u][i].fn][u] = inProgress[stack[u][i].fn][u]
      BY <3>2, <2>1, <1>8, <1>11
    <3> QED BY <3>1, <3>3, <3>4 DEF Pairing, EntryPairing
  <2>2. CASE u = t /\ i = n + 1
    <3>1. NoneAbove(u, i)' BY <2>2, <1>3 DEF NoneAbove
    <3>2. CASE Recorded(t, fn, arg)
      BY <3>1, <3>2, <2>2, <1>1, <1>3, <1>11
    <3>3. CASE ~Recorded(t, fn, arg)
      <4>1. ASSUME ExitAttached(fn) PROVE t \notin DOMAIN inProgress[fn]
        <5>1. EntryAttached(fn)
          BY <4>1 DEF ExitAttached, EntryAttached, PairNo, Fns, Pairing, CallsOK
        <5> QED BY <5>1, <3>3 DEF Recorded, HasRoom
      <4> QED BY <4>1, <3>3, <2>2, <1>1, <1>3, <1>11
    <3> QED BY <3>2, <3>3
  <2>3. CASE u = t /\ i \in 1..n
    <3>1. s[i].fn \in Fns BY <2>3, <1>6 DEF FrameType
    <3>2. CASE s[i].fn = fn
      <4>1. ~stack'[t][i].kept BY <3>2, <2>3, <1>7
      <4>2. ~NoneAbove(t, i)'
        <5>1. (n + 1) \in (i + 1)..Len(stack'[t]) BY <2>3, <1>3
        <5>2. stack'[t][n + 1].fn = stack'[t][i].fn BY <3>2, <2>3, <1>1, <1>3, <1>7
        <5> QED BY <5>1, <5>2 DEF NoneAbove
      <4> QED BY <4>1, <4>2, <2>3
    <3>3. CASE s[i].fn # fn
      <4>1. NoneAbove(t, i)' <=> NoneAbove(t, i)
        <5>1. NoneAbove(t, i)' <=>
                \A j \in (i + 1)..(n + 1) : stack'[t][j].fn # s[i].fn
          BY <2>3, <1>3, <1>7 DEF NoneAbove
        <5>2. stack'[t][n + 1].fn # s[i].fn BY <3>3, <1>1, <1>3
        <5>3. \A j \in (i + 1)..n : stack'[t][j].fn = s[j].fn BY <2>3, <1>7
        <5>4. (i + 1)..(n + 1) = ((i + 1)..n) \cup {n + 1} BY <2>3, <1>3
        <5> QED BY <5>1, <5>2, <5>3, <5>4 DEF NoneAbove
      <4>2. inProgress'[s[i].fn] = inProgress[s[i].fn] BY <3>1, <3>3, <1>8
      <4> QED BY <4>1, <4>2, <3>3, <2>3, <1>7 DEF Pairing, EntryPairing
    <3> QED BY <3>2, <3>3
  <2> QED BY <2>1, <2>2, <2>3, <1>3
<1> QED BY <1>13, <1>14, <1>15 DEF Pairing

(* The call on top of a stack is well typed, and the entry its exit probe  *)
(* finds is the one its own entry probe stored.                            *)
LEMMA TopFacts ==
    ASSUME Pairing, NEW t \in Threads, stack[t] # <<>>
    PROVE  /\ Top(t) \in FrameType
           /\ Top(t).fn \in Fns
           /\ Top(t).arg \in ArgsOf(Top(t).fn)
           /\ Top(t).ts \in Nat /\ clock \in Nat /\ Top(t).ts <= clock
           /\ Len(stack[t]) \in 1..Len(stack[t])
           /\ Top(t).armed => ExitAttached(Top(t).fn)
           /\ Found(t, Top(t).fn) =>
                 inProgress[Top(t).fn][t] =
                    EntryOf(Top(t).fn, Top(t).arg, Top(t).ts)
           /\ Top(t).armed /\ Top(t).kept => Found(t, Top(t).fn)
<1> DEFINE n == Len(stack[t])
<1>1. stack[t] \in Seq(FrameType) BY DEF Pairing, CallsOK
<1>2. n \in Nat /\ n >= 1 BY <1>1, PopFacts
<1>3. n \in 1..n BY <1>2
<1>4. Top(t) \in FrameType BY <1>1, <1>3, ElementOfSeq DEF Top
<1>5. NoneAbove(t, n) BY <1>2 DEF NoneAbove
<1>6. /\ Top(t).arg \in ArgsOf(Top(t).fn)
      /\ clock \in Nat
      /\ Top(t).ts <= clock
      /\ Top(t).armed => ExitAttached(Top(t).fn)
  BY <1>3 DEF Top, Pairing, CallsOK, ArmedOrder
<1>7. /\ Top(t).kept =>
            /\ t \in DOMAIN inProgress[Top(t).fn]
            /\ inProgress[Top(t).fn][t] =
                  EntryOf(Top(t).fn, Top(t).arg, Top(t).ts)
      /\ (Top(t).armed /\ ~Top(t).kept) => t \notin DOMAIN inProgress[Top(t).fn]
  BY <1>3, <1>5 DEF Top, Pairing, EntryPairing
<1>8. Top(t).fn \in Fns /\ Top(t).ts \in Nat BY <1>4 DEF FrameType
<1> QED BY <1>3, <1>4, <1>6, <1>7, <1>8 DEF Found

(* A return leaves the frames below the top as they are.                   *)
LEMMA ReturnFrames ==
    ASSUME CallsOK, NEW t \in Threads, NEW fn \in Fns, Return(t, fn)
    PROVE  /\ stack' \in [Threads -> Seq(FrameType)]
           /\ Len(stack[t]) \in Nat /\ Len(stack'[t]) = Len(stack[t]) - 1
           /\ \A u \in Threads : u # t => stack'[u] = stack[u]
           /\ \A u \in Threads : \A i \in 1..Len(stack'[u]) :
                 i \in 1..Len(stack[u]) /\ stack'[u][i] = stack[u][i]
<1>1. stack[t] \in Seq(FrameType) /\ stack[t] # <<>> BY DEF CallsOK, Return
<1>2. stack'[t] = Pop(stack[t]) BY DEF CallsOK, Return
<1>3. /\ stack'[t] \in Seq(FrameType)
      /\ Len(stack[t]) \in Nat
      /\ Len(stack'[t]) = Len(stack[t]) - 1
      /\ \A i \in 1..(Len(stack[t]) - 1) : stack'[t][i] = stack[t][i]
  BY <1>1, <1>2, PopFacts
<1>4. stack' \in [Threads -> Seq(FrameType)] BY <1>3 DEF CallsOK, Return
<1>5. \A u \in Threads : u # t => stack'[u] = stack[u] BY DEF CallsOK, Return
<1>6. \A i \in 1..Len(stack'[t]) : i \in 1..Len(stack[t]) BY <1>3
<1> QED BY <1>3, <1>4, <1>5, <1>6

(* The exit probe of a return keeps entries and calls paired.              *)
LEMMA ReturnKeepsPairing ==
    ASSUME Pairing, NEW t \in Threads, NEW fn \in Fns, Return(t, fn)
    PROVE  Pairing'
<1> DEFINE n == Len(stack[t])
<1>1. /\ stack' \in [Threads -> Seq(FrameType)]
      /\ n \in Nat /\ Len(stack'[t]) = n - 1
      /\ \A u \in Threads : u # t => stack'[u] = stack[u]
      /\ \A u \in Threads : \A i \in 1..Len(stack'[u]) :
            i \in 1..Len(stack[u]) /\ stack'[u][i] = stack[u][i]
  BY ReturnFrames DEF Pairing
<1>2. \A u \in Threads : \A i \in 1..Len(stack[u]) : stack[u][i] \in FrameType
  BY ElementOfSeq DEF Pairing, CallsOK
<1>3. \A g \in Fns : g # fn => inProgress'[g] = inProgress[g]
  BY DEF Return, Pairing, CallsOK
<1>4. inProgress'[fn] = IF Found(t, fn) THEN Del(inProgress[fn], t) ELSE inProgress[fn]
  BY DEF Return, Pairing, CallsOK
<1>5. /\ IsMap(inProgress'[fn], Threads, EntryType(fn))
      /\ \A u \in Threads : u # t =>
            /\ u \in DOMAIN inProgress'[fn] <=> u \in DOMAIN inProgress[fn]
            /\ u \in DOMAIN inProgress[fn] => inProgress'[fn][u] = inProgress[fn][u]
      /\ Top(t).armed => t \notin DOMAIN inProgress'[fn]
  <2>1. IsMap(inProgress[fn], Threads, EntryType(fn)) BY DEF Pairing, CallsOK
  <2>2. CASE Found(t, fn)
    <3> DEFINE m == Del(inProgress[fn], t)
    <3>1. inProgress'[fn] = m BY <2>2, <1>4
    <3>2. /\ IsMap(m, Threads, EntryType(fn))
          /\ DOMAIN m = DOMAIN inProgress[fn] \ {t}
          /\ \A x \in DOMAIN inProgress[fn] : x # t => m[x] = inProgress[fn][x]
      BY <2>1, DelFacts
    <3> HIDE DEF m
    <3> QED BY <3>1, <3>2
  <2>3. CASE ~Found(t, fn) BY <2>1, <2>3, <1>4 DEF Found
  <2> QED BY <2>2, <2>3
<1>6. clock' = clock + 1 /\ clock \in Nat /\ attached' = attached
  BY DEF Return, Pairing, CallsOK
<1>7. CallsOK'
  <2>1. \A u \in Threads : \A i \in 1..Len(stack'[u]) :
            stack'[u][i].arg \in ArgsOf(stack'[u][i].fn)
    BY <1>1 DEF Pairing, CallsOK
  <2>2. \A g \in Fns : IsMap(inProgress'[g], Threads, EntryType(g))
    BY <1>3, <1>5 DEF Pairing, CallsOK
  <2>3. inProgress' = [g \in Fns |-> inProgress'[g]]
    BY DEF Return, Pairing, CallsOK
  <2>4. attached' \in 0..Probes /\ clock' \in Nat BY <1>6 DEF Pairing, CallsOK
  <2> QED BY <1>1, <2>1, <2>2, <2>3, <2>4 DEF CallsOK
<1>8. ArmedOrder'
  <2> SUFFICES ASSUME NEW u \in Threads, NEW i \in 1..Len(stack'[u])
      PROVE  /\ stack'[u][i].ts <= clock'
             /\ stack'[u][i].armed =>
                  /\ attached' >= 2 * PairNo[stack'[u][i].fn]
                  /\ \A j \in (i + 1)..Len(stack'[u]) :
                       stack'[u][j].fn = stack'[u][i].fn => stack'[u][j].armed
    BY DEF ArmedOrder, ExitAttached
  <2>1. /\ i \in 1..Len(stack[u])
        /\ stack'[u][i] = stack[u][i]
        /\ stack[u][i].ts \in Nat
    BY <1>1, <1>2 DEF FrameType
  <2>2. stack'[u][i].ts <= clock' BY <2>1, <1>6 DEF Pairing, ArmedOrder
  <2>3. stack'[u][i].armed => attached' >= 2 * PairNo[stack'[u][i].fn]
    BY <2>1, <1>6 DEF Pairing, ArmedOrder, ExitAttached
  <2>4. ASSUME stack'[u][i].armed, NEW j \in (i + 1)..Len(stack'[u]),
               stack'[u][j].fn = stack'[u][i].fn
        PROVE  stack'[u][j].armed
    <3>1. Len(stack'[u]) \in Nat /\ Len(stack[u]) \in Nat
      <4>1. stack[u] \in Seq(FrameType) /\ stack'[u] \in Seq(FrameType)
        BY <1>1 DEF Pairing, CallsOK
      <4> QED BY <4>1, LenProperties
    <3>2. j \in 1..Len(stack'[u]) BY <3>1
    <3>3. j \in 1..Len(stack[u]) /\ stack'[u][j] = stack[u][j] BY <3>2, <1>1
    <3>4. j \in (i + 1)..Len(stack[u]) BY <3>1, <3>3
    <3> QED BY <2>1, <2>4, <3>3, <3>4 DEF Pairing, ArmedOrder
  <2> QED BY <2>2, <2>3, <2>4
<1>9. EntryPairing'
  <2> SUFFICES ASSUME NEW u \in Threads, NEW i \in 1..Len(stack'[u])
      PROVE
        /\ stack'[u][i].kept =>
              /\ NoneAbove(u, i)'
              /\ u \in DOMAIN inProgress'[stack'[u][i].fn]
              /\ inProgress'[stack'[u][i].fn][u] =
                    EntryOf(stack'[u][i].fn, stack'[u][i].arg, stack'[u][i].ts)
        /\ (stack'[u][i].armed /\ ~stack'[u][i].kept /\ NoneAbove(u, i)')
              => u \notin DOMAIN inProgress'[stack'[u][i].fn]
    BY DEF EntryPairing
  <2>1. /\ i \in 1..Len(stack[u])
        /\ stack'[u][i] = stack[u][i]
        /\ stack[u][i].fn \in Fns
    BY <1>1, <1>2 DEF FrameType
  <2>2. CASE u # t
    <3>1. stack'[u] = stack[u] BY <2>2, <1>1
    <3>2. NoneAbove(u, i)' <=> NoneAbove(u, i) BY <3>1 DEF NoneAbove
    <3>3. /\ u \in DOMAIN inProgress'[stack[u][i].fn]
               <=> u \in DOMAIN inProgress[stack[u][i].fn]
          /\ u \in DOMAIN inProgress[stack[u][i].fn] =>
               inProgress'[stack[u][i].fn][u] = inProgress[stack[u][i].fn][u]
      BY <2>1, <2>2, <1>3, <1>5
    <3> QED BY <3>1, <3>2, <3>3, <2>1 DEF Pairing, EntryPairing
  <2>3. CASE u = t /\ stack[t][i].fn # fn
    <3>1. inProgress'[stack[t][i].fn] = inProgress[stack[t][i].fn]
      BY <2>1, <2>3, <1>3
    <3>2. NoneAbove(t, i)' <=> NoneAbove(t, i)
      <4>1. NoneAbove(t, i)' <=>
              \A j \in (i + 1)..(n - 1) : stack'[t][j].fn # stack[t][i].fn
        BY <2>1, <2>3, <1>1 DEF NoneAbove
      <4>2. stack[t][n].fn = fn BY DEF Return, Top
      <4>3. \A j \in (i + 1)..(n - 1) : stack'[t][j] = stack[t][j]
        <5> SUFFICES ASSUME NEW j \in (i + 1)..(n - 1)
            PROVE stack'[t][j] = stack[t][j]
          OBVIOUS
        <5>1. j \in 1..Len(stack'[t]) BY <2>1, <2>3, <1>1
        <5> QED BY <5>1, <1>1
      <4>4. (i + 1)..n = ((i + 1)..(n - 1)) \cup {n} BY <2>1, <2>3, <1>1
      <4> QED BY <4>1, <4>2, <4>3, <4>4, <2>3 DEF NoneAbove
    <3> QED BY <3>1, <3>2, <2>1, <2>3 DEF Pairing, EntryPairing
  <2>4. CASE u = t /\ stack[t][i].fn = fn
    <3>1. n \in (i + 1)..n /\ stack[t][n].fn = fn
      BY <2>1, <2>4, <1>1 DEF Return, Top
    <3>2. ~stack[t][i].kept
      BY <3>1, <2>1, <2>4 DEF Pairing, EntryPairing, NoneAbove
    <3>3. stack[t][i].armed => Top(t).armed
      BY <3>1, <2>1, <2>4 DEF Pairing, ArmedOrder, Top
    <3> QED BY <3>2, <3>3, <2>1, <2>4, <1>5
  <2> QED BY <2>2, <2>3, <2>4
<1> QED BY <1>7, <1>8, <1>9 DEF Pairing

-----------------------------------------------------------------------------
(* The data the probes leave in the LRU maps and in the ring.              *)

Data == DataOK /\ LiveArgs /\ LiveCursors /\ MapsTellTruth /\ ReportedGone

EventOK(e) ==
    /\ e.truth.sureTime => e.execute_ns = e.truth.execute_ns
    /\ e.truth.sureStmt =>
        \/ e.stmt = e.truth.stmt /\ e.prepare_ns = e.truth.prepare_ns
        \/ e.stmt = Unknown /\ e.prepare_ns = 0

RingOK == \A i \in 1..Len(EVENTS) : EventOK(EVENTS[i])

Inv == Pairing /\ Data /\ RingOK

(* The two properties of the events are one statement per ring slot.       *)
LEMMA RingMeaning == RingOK => ExactTiming /\ OwnStatement
BY DEF RingOK, EventOK, ExactTiming, OwnStatement, Events

(* A true event may be emitted: it is appended, or lost to a full ring.    *)
LEMMA EmitFacts ==
    ASSUME EVENTS \in Seq(EventType), RingOK, NEW e \in EventType, EventOK(e),
           emit_event(e)
    PROVE  EVENTS' \in Seq(EventType) /\ RingOK'
<1>1. CASE EVENTS' = EVENTS BY <1>1 DEF RingOK
<1>2. CASE EVENTS' = Append(EVENTS, e)
  <2>1. /\ EVENTS' \in Seq(EventType)
        /\ Len(EVENTS) \in Nat
        /\ Len(EVENTS') = Len(EVENTS) + 1
        /\ \A i \in 1..Len(EVENTS) : EVENTS'[i] = EVENTS[i]
        /\ EVENTS'[Len(EVENTS) + 1] = e
    BY <1>2, AppendProperties, LenProperties
  <2>2. ASSUME NEW i \in 1..Len(EVENTS') PROVE EventOK(EVENTS'[i])
    <3>1. CASE i = Len(EVENTS) + 1 BY <3>1, <2>1
    <3>2. CASE i \in 1..Len(EVENTS) BY <3>2, <2>1 DEF RingOK
    <3> QED BY <3>1, <3>2, <2>1
  <2> QED BY <2>1, <2>2 DEF RingOK, EventOK
<1> QED BY <1>1, <1>2 DEF emit_event

(* Calls leave everything but the stacks and the in-progress maps alone.   *)
LEMMA CallKeepsData ==
    ASSUME Pairing, Data, RingOK,
           NEW t \in Threads, NEW fn \in Fns, NEW arg \in ArgsOf(fn),
           Call(t, fn, arg),
           fn \in {"execute", "openCursor"} => arg \in DOMAIN stmtAt,
           fn = "fetchNext" => arg \in DOMAIN cursorAt
    PROVE  Data' /\ RingOK'
<1>1. UNCHANGED <<stmtAt, cursorAt, PREPARED_STATEMENTS, OPEN_CURSORS, EVENTS, missed>>
  BY DEF Call
<1>2. LiveArgs'
  <2> SUFFICES ASSUME NEW u \in Threads, NEW i \in 1..Len(stack'[u])
      PROVE  /\ stack'[u][i].fn \in {"execute", "openCursor"}
                  => stack'[u][i].arg \in DOMAIN stmtAt
             /\ stack'[u][i].fn = "fetchNext" => stack'[u][i].arg \in DOMAIN cursorAt
    BY <1>1 DEF LiveArgs
  <2> DEFINE n == Len(stack[t])
  <2>1. CASE u # t
    <3>1. stack'[u] = stack[u] BY <2>1 DEF Call, Pairing, CallsOK
    <3> QED BY <3>1 DEF Data, LiveArgs
  <2>2. CASE u = t
    <3>1. Frame(t, fn, arg) \in FrameType
          /\ Frame(t, fn, arg).fn = fn /\ Frame(t, fn, arg).arg = arg
      BY FrameFacts DEF Pairing
    <3>2. stack[t] \in Seq(FrameType) /\ stack'[t] = Append(Shadowed(stack[t], fn), Frame(t, fn, arg))
      BY DEF Call, Pairing, CallsOK
    <3>3. /\ n \in Nat
          /\ Len(stack'[t]) = n + 1
          /\ stack'[t][n + 1] = Frame(t, fn, arg)
          /\ \A j \in 1..n : stack'[t][j] =
                IF stack[t][j].fn = fn THEN [stack[t][j] EXCEPT !.kept = FALSE]
                ELSE stack[t][j]
      <4> DEFINE q == stack[t]
                 f == Frame(t, fn, arg)
      <4>1. q \in Seq(FrameType) /\ f \in FrameType BY <3>1, <3>2
      <4>2. /\ Len(q) \in Nat
            /\ Len(Append(Shadowed(q, fn), f)) = Len(q) + 1
            /\ Append(Shadowed(q, fn), f)[Len(q) + 1] = f
            /\ \A j \in 1..Len(q) :
                  Append(Shadowed(q, fn), f)[j] =
                    IF q[j].fn = fn THEN [q[j] EXCEPT !.kept = FALSE] ELSE q[j]
        <5> HIDE DEF q, f
        <5> QED BY <4>1, PushFacts
      <4> QED BY <3>2, <4>2, Zenon
    <3>4. CASE i = n + 1 BY <3>1, <3>3, <3>4, <2>2
    <3>5. CASE i \in 1..n
      <4>1. stack[t][i] \in FrameType BY <3>2, <3>5, ElementOfSeq
      <4>2. stack'[t][i].fn = stack[t][i].fn /\ stack'[t][i].arg = stack[t][i].arg
        BY <3>3, <3>5, <4>1 DEF FrameType
      <4> QED BY <4>2, <3>5, <2>2 DEF Data, LiveArgs
    <3> QED BY <3>3, <3>4, <3>5, <2>2
  <2> QED BY <2>1, <2>2
<1>3. LiveCursors'
  <2>1. clock' = clock + 1 /\ clock \in Nat BY DEF Call, Pairing, CallsOK
  <2>2. \A c \in DOMAIN cursorAt : cursorAt[c].ts \in Nat
    BY DEF Data, DataOK, IsMap, CursorType
  <2> QED BY <1>1, <2>1, <2>2 DEF Data, LiveCursors
<1>4. DataOK' /\ MapsTellTruth' /\ ReportedGone' /\ RingOK'
  BY <1>1 DEF Data, DataOK, IsMap, MapsTellTruth, ReportedGone, RingOK
<1> QED BY <1>2, <1>3, <1>4 DEF Data

(* A return that frees no pointer keeps the remaining calls' pointers live. *)
LEMMA ReturnKeepsArgs ==
    ASSUME Pairing, LiveArgs, NEW t \in Threads, NEW fn \in Fns, Return(t, fn),
           DOMAIN stmtAt \subseteq DOMAIN stmtAt',
           DOMAIN cursorAt \subseteq DOMAIN cursorAt'
    PROVE  LiveArgs'
<1>1. \A u \in Threads : \A i \in 1..Len(stack'[u]) :
        i \in 1..Len(stack[u]) /\ stack'[u][i] = stack[u][i]
  BY ReturnFrames DEF Pairing
<1> QED BY <1>1 DEF LiveArgs

(* Time only advances.                                                     *)
LEMMA ReturnClock ==
    ASSUME Pairing, NEW t \in Threads, NEW fn \in Fns, Return(t, fn)
    PROVE  clock \in Nat /\ clock' = clock + 1
BY DEF Return, Pairing, CallsOK

(* The returns that touch neither the LRU maps nor the ring.               *)
LEMMA QuietReturn ==
    ASSUME Inv, NEW t \in Threads, NEW fn \in Fns, Return(t, fn),
           UNCHANGED <<stmtAt, cursorAt, PREPARED_STATEMENTS, OPEN_CURSORS, EVENTS, missed>>
    PROVE  Inv'
<1>1. Pairing' BY ReturnKeepsPairing DEF Inv
<1>2. LiveArgs' BY ReturnKeepsArgs DEF Inv, Data
<1>3. LiveCursors'
  <2>1. clock' = clock + 1 /\ clock \in Nat BY ReturnClock DEF Inv
  <2>2. \A c \in DOMAIN cursorAt : cursorAt[c].ts \in Nat
    BY DEF Inv, Data, DataOK, IsMap, CursorType
  <2> QED BY <2>1, <2>2 DEF Inv, Data, LiveCursors
<1>4. DataOK' /\ MapsTellTruth' /\ ReportedGone' /\ RingOK'
  BY DEF Inv, Data, DataOK, IsMap, MapsTellTruth, ReportedGone, RingOK
<1> QED BY <1>1, <1>2, <1>3, <1>4 DEF Inv, Data

(* What a probe computes from its own entry is the call's wall-clock.      *)
LEMMA OwnElapsed ==
    ASSUME Pairing, NEW t \in Threads, stack[t] # <<>>, Found(t, Top(t).fn),
           Top(t).fn # "fetchNext"
    PROVE  /\ inProgress[Top(t).fn][t].arg = Top(t).arg
           /\ inProgress[Top(t).fn][t].ts = Top(t).ts
           /\ Elapsed(inProgress[Top(t).fn][t]) = clock - Top(t).ts
           /\ clock - Top(t).ts \in Nat
<1>1. /\ inProgress[Top(t).fn][t] = EntryOf(Top(t).fn, Top(t).arg, Top(t).ts)
      /\ Top(t).ts \in Nat /\ clock \in Nat /\ Top(t).ts <= clock
  BY TopFacts
<1> QED BY <1>1 DEF EntryOf, Elapsed, SaturatingSub

(* A successful prepare records its statement under the new request.       *)
LEMMA ReturnPrepareStep ==
    ASSUME Inv, NEW t \in Threads, NEW r \in Requests, ReturnPrepare(t, r)
    PROVE  Inv'
<1> DEFINE p == [stmt |-> Top(t).arg, prepare_ns |-> clock - Top(t).ts]
<1>1. Return(t, "prepare") /\ stack[t] # <<>> /\ Top(t).fn = "prepare"
      /\ "prepare" \in Fns
  BY DEF ReturnPrepare, Return, Fns
<1>2. Pairing /\ Data /\ RingOK BY DEF Inv
<1>3. Pairing' BY <1>1, <1>2, ReturnKeepsPairing
<1>4. Top(t).arg \in Stmts /\ Top(t).ts \in Nat /\ clock \in Nat /\ Top(t).ts <= clock
  BY <1>1, <1>2, TopFacts DEF ArgsOf
<1>5. p \in PreparedType BY <1>4 DEF PreparedType
<1>6. /\ IsMap(stmtAt', Requests, PreparedType)
      /\ DOMAIN stmtAt' = DOMAIN stmtAt \cup {r}
      /\ stmtAt'[r] = p
      /\ \A x \in DOMAIN stmtAt : x # r => stmtAt'[x] = stmtAt[x]
  <2>1. stmtAt' = Put(stmtAt, r, p) BY DEF ReturnPrepare
  <2>2. IsMap(stmtAt, Requests, PreparedType) BY <1>2 DEF Data, DataOK
  <2> HIDE DEF p
  <2> DEFINE m == Put(stmtAt, r, p)
  <2>3. /\ IsMap(m, Requests, PreparedType)
        /\ DOMAIN m = DOMAIN stmtAt \cup {r}
        /\ m[r] = p
        /\ \A x \in DOMAIN stmtAt : x # r => m[x] = stmtAt[x]
    BY <2>2, <1>5 DEF IsMap, Put
  <2> HIDE DEF m
  <2> QED BY <2>1, <2>3 DEF m
<1>7. /\ IsMap(PREPARED_STATEMENTS', Requests, PreparedType)
      /\ \A x \in DOMAIN PREPARED_STATEMENTS' : x # r =>
            /\ x \in DOMAIN PREPARED_STATEMENTS
            /\ PREPARED_STATEMENTS'[x] = PREPARED_STATEMENTS[x]
      /\ r \notin missed' /\ r \in DOMAIN PREPARED_STATEMENTS' =>
            PREPARED_STATEMENTS'[r] = p
  <2>1. IsMap(PREPARED_STATEMENTS, Requests, PreparedType) BY <1>2 DEF Data, DataOK
  <2>2. CASE Found(t, "prepare")
    <3>1. /\ inProgress["prepare"][t].arg = Top(t).arg
          /\ Elapsed(inProgress["prepare"][t]) = clock - Top(t).ts
      BY <2>2, <1>1, <1>2, OwnElapsed
    <3>2. PREPARED_STATEMENTS' \in LruInserts(PREPARED_STATEMENTS, r, p, PreparedMax)
      BY <2>2, <3>1 DEF ReturnPrepare
    <3> HIDE DEF p
    <3> QED BY <2>1, <3>2, <1>5, LruFacts
  <2>3. CASE ~Found(t, "prepare")
    <3>1. r \in missed' BY <2>3 DEF ReturnPrepare, Remember
    <3>2. PREPARED_STATEMENTS' = PREPARED_STATEMENTS BY <2>3 DEF ReturnPrepare
    <3> QED BY <2>1, <3>1, <3>2
  <2> QED BY <2>2, <2>3
<1>8. /\ missed' \in SUBSET (Requests \cup Cursors)
      /\ \A x : x # r => (x \in missed' <=> x \in missed)
  BY <1>2 DEF ReturnPrepare, Remember, Data, DataOK
<1>9. UNCHANGED <<cursorAt, OPEN_CURSORS, EVENTS>> BY DEF ReturnPrepare
<1>10. DataOK' BY <1>2, <1>6, <1>7, <1>8, <1>9 DEF Data, DataOK, IsMap
<1>11. LiveArgs' BY <1>1, <1>2, <1>6, <1>9, ReturnKeepsArgs DEF Data
<1>12. LiveCursors'
  <2>1. clock' = clock + 1 BY <1>1, <1>2, ReturnClock
  <2>2. \A c \in DOMAIN cursorAt : cursorAt[c].ts \in Nat
    BY <1>2 DEF Data, DataOK, IsMap, CursorType
  <2> QED BY <2>1, <2>2, <1>2, <1>4, <1>6, <1>9 DEF Data, LiveCursors
<1>13. MapsTellTruth'
  <2>1. ASSUME NEW x \in DOMAIN PREPARED_STATEMENTS' \cap DOMAIN stmtAt', x \notin missed'
        PROVE  PREPARED_STATEMENTS'[x] = stmtAt'[x]
    <3>1. CASE x = r BY <3>1, <2>1, <1>6, <1>7
    <3>2. CASE x # r
      <4>1. x \in DOMAIN PREPARED_STATEMENTS \cap DOMAIN stmtAt /\ x \notin missed
        BY <3>2, <2>1, <1>6, <1>7, <1>8
      <4>2. PREPARED_STATEMENTS[x] = stmtAt[x] BY <4>1, <1>2 DEF Data, MapsTellTruth
      <4> QED BY <4>1, <4>2, <3>2, <2>1, <1>6, <1>7
    <3> QED BY <3>1, <3>2
  <2>2. ASSUME NEW c \in DOMAIN OPEN_CURSORS \cap DOMAIN cursorAt, c \notin missed'
        PROVE  OPEN_CURSORS[c].arg = cursorAt[c].req /\ OPEN_CURSORS[c].ts = cursorAt[c].ts
    <3>1. c \in Cursors BY <1>2 DEF Data, DataOK, IsMap
    <3>2. c # r BY <3>1, ConstantsAssumption
    <3> QED BY <3>2, <2>2, <1>2, <1>8 DEF Data, MapsTellTruth
  <2> QED BY <2>1, <2>2, <1>9 DEF MapsTellTruth
<1>14. ReportedGone' /\ RingOK' BY <1>2, <1>9 DEF Data, ReportedGone, RingOK
<1> QED BY <1>3, <1>10, <1>11, <1>12, <1>13, <1>14 DEF Inv, Data

(* A successful openCursor records its request under the new cursor.       *)
LEMMA ReturnOpenCursorStep ==
    ASSUME Inv, NEW t \in Threads, NEW c \in Cursors, ReturnOpenCursor(t, c)
    PROVE  Inv'
<1> DEFINE o == [req |-> Top(t).arg, ts |-> Top(t).ts, reports |-> 0]
<1>1. Return(t, "openCursor") /\ stack[t] # <<>> /\ Top(t).fn = "openCursor"
      /\ "openCursor" \in Fns
  BY DEF ReturnOpenCursor, Return, Fns
<1>2. Pairing /\ Data /\ RingOK BY DEF Inv
<1>3. Pairing' BY <1>1, <1>2, ReturnKeepsPairing
<1>4. /\ Top(t).arg \in Requests /\ Top(t).ts \in Nat /\ clock \in Nat
      /\ Top(t).ts <= clock
  BY <1>1, <1>2, TopFacts DEF ArgsOf
<1>5. Top(t).arg \in DOMAIN stmtAt
  <2>1. Len(stack[t]) \in 1..Len(stack[t]) BY <1>1, <1>2, TopFacts
  <2> QED BY <2>1, <1>1, <1>2 DEF Data, LiveArgs, Top
<1>6. o \in CursorType BY <1>4 DEF CursorType
<1>7. /\ IsMap(cursorAt', Cursors, CursorType)
      /\ DOMAIN cursorAt' = DOMAIN cursorAt \cup {c}
      /\ cursorAt'[c] = o
      /\ \A x \in DOMAIN cursorAt : x # c => cursorAt'[x] = cursorAt[x]
  <2>1. cursorAt' = Put(cursorAt, c, o) BY DEF ReturnOpenCursor
  <2>2. IsMap(cursorAt, Cursors, CursorType) BY <1>2 DEF Data, DataOK
  <2> HIDE DEF o
  <2> DEFINE m == Put(cursorAt, c, o)
  <2>3. /\ IsMap(m, Cursors, CursorType)
        /\ DOMAIN m = DOMAIN cursorAt \cup {c}
        /\ m[c] = o
        /\ \A x \in DOMAIN cursorAt : x # c => m[x] = cursorAt[x]
    BY <2>2, <1>6 DEF IsMap, Put
  <2> HIDE DEF m
  <2> QED BY <2>1, <2>3 DEF m
<1>8. /\ IsMap(OPEN_CURSORS', Cursors, EntryType("openCursor"))
      /\ \A x \in DOMAIN OPEN_CURSORS' : x # c =>
            x \in DOMAIN OPEN_CURSORS /\ OPEN_CURSORS'[x] = OPEN_CURSORS[x]
      /\ c \notin missed' /\ c \in DOMAIN OPEN_CURSORS' =>
            OPEN_CURSORS'[c].arg = o.req /\ OPEN_CURSORS'[c].ts = o.ts
  <2>1. IsMap(OPEN_CURSORS, Cursors, EntryType("openCursor")) BY <1>2 DEF Data, DataOK
  <2>2. CASE Found(t, "openCursor")
    <3> DEFINE e == inProgress["openCursor"][t]
    <3>1. e.arg = Top(t).arg /\ e.ts = Top(t).ts BY <2>2, <1>1, <1>2, OwnElapsed
    <3>2. e \in EntryType("openCursor")
      BY <2>2, <1>1, <1>2 DEF Found, Pairing, CallsOK, IsMap
    <3>3. OPEN_CURSORS' \in LruInserts(OPEN_CURSORS, c, e, CursorsMax)
      BY <2>2 DEF ReturnOpenCursor
    <3> HIDE DEF e
    <3>4. /\ IsMap(OPEN_CURSORS', Cursors, EntryType("openCursor"))
          /\ OPEN_CURSORS'[c] = e
          /\ \A x \in DOMAIN OPEN_CURSORS' : x # c =>
                x \in DOMAIN OPEN_CURSORS /\ OPEN_CURSORS'[x] = OPEN_CURSORS[x]
      BY <2>1, <3>2, <3>3, LruFacts
    <3> QED BY <3>1, <3>4
  <2>3. CASE ~Found(t, "openCursor")
    <3>1. c \in missed' BY <2>3 DEF ReturnOpenCursor, Remember
    <3>2. OPEN_CURSORS' = OPEN_CURSORS BY <2>3 DEF ReturnOpenCursor
    <3> QED BY <2>1, <3>1, <3>2
  <2> QED BY <2>2, <2>3
<1>9. /\ missed' \in SUBSET (Requests \cup Cursors)
      /\ \A x : x # c => (x \in missed' <=> x \in missed)
  BY <1>2 DEF ReturnOpenCursor, Remember, Data, DataOK
<1>10. UNCHANGED <<stmtAt, PREPARED_STATEMENTS, EVENTS>> BY DEF ReturnOpenCursor
<1>11. DataOK' BY <1>2, <1>7, <1>8, <1>9, <1>10 DEF Data, DataOK, IsMap
<1>12. LiveArgs' BY <1>1, <1>2, <1>7, <1>10, ReturnKeepsArgs DEF Data
<1>13. LiveCursors'
  <2>1. clock' = clock + 1 BY <1>1, <1>2, ReturnClock
  <2>2. \A x \in DOMAIN cursorAt : cursorAt[x].ts \in Nat
    BY <1>2 DEF Data, DataOK, IsMap, CursorType
  <2>3. ASSUME NEW x \in DOMAIN cursorAt'
        PROVE  cursorAt'[x].req \in DOMAIN stmtAt' /\ cursorAt'[x].ts <= clock'
    <3>1. CASE x = c BY <3>1, <2>1, <1>4, <1>5, <1>7, <1>10
    <3>2. CASE x # c
      <4>1. x \in DOMAIN cursorAt /\ cursorAt'[x] = cursorAt[x] BY <3>2, <2>3, <1>7
      <4>2. cursorAt[x].req \in DOMAIN stmtAt /\ cursorAt[x].ts <= clock
        BY <4>1, <1>2 DEF Data, LiveCursors
      <4> QED BY <4>1, <4>2, <2>1, <2>2, <1>4, <1>10
    <3> QED BY <3>1, <3>2
  <2> QED BY <2>3 DEF LiveCursors
<1>14. MapsTellTruth'
  <2>1. ASSUME NEW x \in DOMAIN OPEN_CURSORS' \cap DOMAIN cursorAt', x \notin missed'
        PROVE  OPEN_CURSORS'[x].arg = cursorAt'[x].req
               /\ OPEN_CURSORS'[x].ts = cursorAt'[x].ts
    <3>1. CASE x = c BY <3>1, <2>1, <1>7, <1>8
    <3>2. CASE x # c
      <4>1. x \in DOMAIN OPEN_CURSORS \cap DOMAIN cursorAt /\ x \notin missed
        BY <3>2, <2>1, <1>7, <1>8, <1>9
      <4>2. OPEN_CURSORS[x].arg = cursorAt[x].req /\ OPEN_CURSORS[x].ts = cursorAt[x].ts
        BY <4>1, <1>2 DEF Data, MapsTellTruth
      <4> QED BY <4>1, <4>2, <3>2, <2>1, <1>7, <1>8
    <3> QED BY <3>1, <3>2
  <2>2. ASSUME NEW r \in DOMAIN PREPARED_STATEMENTS \cap DOMAIN stmtAt, r \notin missed'
        PROVE  PREPARED_STATEMENTS[r] = stmtAt[r]
    <3>1. r \in Requests BY <1>2 DEF Data, DataOK, IsMap
    <3>2. c # r BY <3>1, ConstantsAssumption
    <3> QED BY <3>2, <2>2, <1>2, <1>9 DEF Data, MapsTellTruth
  <2> QED BY <2>1, <2>2, <1>10 DEF MapsTellTruth
<1>15. ReportedGone'
  BY <1>2, <1>7, <1>8 DEF Data, ReportedGone
<1>16. RingOK' BY <1>2, <1>10 DEF RingOK
<1> QED BY <1>3, <1>11, <1>12, <1>13, <1>14, <1>15, <1>16 DEF Inv, Data

(* The lookup behind an execute or EOF event: the truth or the zeros.      *)
LEMMA LookupFacts ==
    ASSUME Data, NEW r \in Requests, r \in DOMAIN stmtAt
    PROVE  /\ stmtAt[r] \in PreparedType
           /\ PreparedOr0(r).stmt \in Stmts \cup {Unknown}
           /\ PreparedOr0(r).prepare_ns \in Nat
           /\ r \notin missed =>
                \/ PreparedOr0(r) = stmtAt[r]
                \/ PreparedOr0(r).stmt = Unknown /\ PreparedOr0(r).prepare_ns = 0
<1>1. stmtAt[r] \in PreparedType BY DEF Data, DataOK, IsMap
<1>2. CASE r \in DOMAIN PREPARED_STATEMENTS
  <2>1. PreparedOr0(r) = PREPARED_STATEMENTS[r] BY <1>2 DEF PreparedOr0
  <2>2. PREPARED_STATEMENTS[r] \in PreparedType BY <1>2 DEF Data, DataOK, IsMap
  <2>3. r \notin missed => PREPARED_STATEMENTS[r] = stmtAt[r]
    BY <1>2 DEF Data, MapsTellTruth
  <2> QED BY <1>1, <2>1, <2>2, <2>3 DEF PreparedType
<1>3. CASE r \notin DOMAIN PREPARED_STATEMENTS
  BY <1>1, <1>3 DEF PreparedOr0
<1> QED BY <1>2, <1>3

(* DSQL_execute's exit probe emits a true event or none.                   *)
LEMMA ReturnExecuteStep ==
    ASSUME Inv, NEW t \in Threads, ReturnExecute(t)
    PROVE  Inv'
<1>1. Return(t, "execute") /\ stack[t] # <<>> /\ Top(t).fn = "execute"
      /\ "execute" \in Fns
  BY DEF ReturnExecute, Return, Fns
<1>2. Pairing /\ Data /\ RingOK BY DEF Inv
<1>3. UNCHANGED <<stmtAt, cursorAt, PREPARED_STATEMENTS, OPEN_CURSORS, missed>>
  BY DEF ReturnExecute
<1>4. CASE ~Found(t, "execute")
  <2>1. UNCHANGED EVENTS BY <1>4 DEF ReturnExecute
  <2> QED BY <1>1, <1>3, <2>1, QuietReturn
<1>5. CASE Found(t, "execute")
  <2> DEFINE r == Top(t).arg
             p == PreparedOr0(r)
             d == clock - Top(t).ts
             e == Event(t, p, d, Truth(stmtAt[r], d, r \notin missed, TRUE))
  <2>1. /\ inProgress["execute"][t].arg = r
        /\ Elapsed(inProgress["execute"][t]) = d
        /\ d \in Nat
    BY <1>1, <1>2, <1>5, OwnElapsed
  <2>2. emit_event(e) BY <1>5, <2>1 DEF ReturnExecute
  <2>3. r \in Requests /\ Len(stack[t]) \in 1..Len(stack[t])
    BY <1>1, <1>2, TopFacts DEF ArgsOf
  <2>4. r \in DOMAIN stmtAt BY <2>3, <1>1, <1>2 DEF Data, LiveArgs, Top
  <2>5. /\ stmtAt[r] \in PreparedType
        /\ p.stmt \in Stmts \cup {Unknown}
        /\ p.prepare_ns \in Nat
        /\ r \notin missed =>
             \/ p = stmtAt[r]
             \/ p.stmt = Unknown /\ p.prepare_ns = 0
    BY <2>3, <2>4, <1>2, LookupFacts
  <2> HIDE DEF p, d, r
  <2>6. e \in EventType
    BY <2>1, <2>5 DEF Event, Truth, EventType, TruthType, PreparedType
  <2>7. EventOK(e)
    BY <2>5 DEF Event, Truth, EventOK
  <2> HIDE DEF e
  <2>8. EVENTS' \in Seq(EventType) /\ RingOK'
    BY <1>2, <2>2, <2>6, <2>7, EmitFacts DEF Data, DataOK
  <2>9. Pairing' BY <1>1, <1>2, ReturnKeepsPairing
  <2>10. LiveArgs' BY <1>1, <1>2, <1>3, ReturnKeepsArgs DEF Data
  <2>11. LiveCursors'
    <3>1. clock' = clock + 1 /\ clock \in Nat BY <1>1, <1>2, ReturnClock
    <3>2. \A c \in DOMAIN cursorAt : cursorAt[c].ts \in Nat
      BY <1>2 DEF Data, DataOK, IsMap, CursorType
    <3> QED BY <3>1, <3>2, <1>2, <1>3 DEF Data, LiveCursors
  <2>12. DataOK' /\ MapsTellTruth' /\ ReportedGone'
    BY <1>2, <1>3, <2>8 DEF Data, DataOK, IsMap, MapsTellTruth, ReportedGone
  <2> QED BY <2>8, <2>9, <2>10, <2>11, <2>12 DEF Inv, Data
<1> QED BY <1>4, <1>5

(* DSQL_execute_immediate's exit probe emits a true event or none.         *)
LEMMA ReturnImmediateStep ==
    ASSUME Inv, NEW t \in Threads, ReturnImmediate(t)
    PROVE  Inv'
<1>1. Return(t, "immediate") /\ stack[t] # <<>> /\ Top(t).fn = "immediate"
      /\ "immediate" \in Fns
  BY DEF ReturnImmediate, Return, Fns
<1>2. Pairing /\ Data /\ RingOK BY DEF Inv
<1>3. UNCHANGED <<stmtAt, cursorAt, PREPARED_STATEMENTS, OPEN_CURSORS, missed>>
  BY DEF ReturnImmediate
<1>4. CASE ~Found(t, "immediate")
  <2>1. UNCHANGED EVENTS BY <1>4 DEF ReturnImmediate
  <2> QED BY <1>1, <1>3, <2>1, QuietReturn
<1>5. CASE Found(t, "immediate")
  <2> DEFINE x == Top(t).arg
             d == clock - Top(t).ts
             p == [stmt |-> x, prepare_ns |-> 0]
             e == Event(t, p, d, Truth(p, d, TRUE, TRUE))
  <2>1. /\ inProgress["immediate"][t].arg = x
        /\ Elapsed(inProgress["immediate"][t]) = d
        /\ d \in Nat
    BY <1>1, <1>2, <1>5, OwnElapsed
  <2>2. emit_event(e) BY <1>5, <2>1 DEF ReturnImmediate
  <2>3. x \in Stmts BY <1>1, <1>2, TopFacts DEF ArgsOf
  <2> HIDE DEF d, x
  <2>4. e \in EventType BY <2>1, <2>3 DEF Event, Truth, EventType, TruthType
  <2>5. EventOK(e) BY DEF Event, Truth, EventOK
  <2> HIDE DEF e
  <2>6. EVENTS' \in Seq(EventType) /\ RingOK'
    BY <1>2, <2>2, <2>4, <2>5, EmitFacts DEF Data, DataOK
  <2>7. Pairing' BY <1>1, <1>2, ReturnKeepsPairing
  <2>8. LiveArgs' BY <1>1, <1>2, <1>3, ReturnKeepsArgs DEF Data
  <2>9. LiveCursors'
    <3>1. clock' = clock + 1 /\ clock \in Nat BY <1>1, <1>2, ReturnClock
    <3>2. \A c \in DOMAIN cursorAt : cursorAt[c].ts \in Nat
      BY <1>2 DEF Data, DataOK, IsMap, CursorType
    <3> QED BY <3>1, <3>2, <1>2, <1>3 DEF Data, LiveCursors
  <2>10. DataOK' /\ MapsTellTruth' /\ ReportedGone'
    BY <1>2, <1>3, <2>6 DEF Data, DataOK, IsMap, MapsTellTruth, ReportedGone
  <2> QED BY <2>6, <2>7, <2>8, <2>9, <2>10 DEF Inv, Data
<1> QED BY <1>4, <1>5

(* An EOF fetch emits a true event or none, once per opened cursor.        *)
LEMMA ReturnFetchEofStep ==
    ASSUME Inv, NEW t \in Threads, ReturnFetchEof(t)
    PROVE  Inv'
<1>1. Return(t, "fetchNext") /\ stack[t] # <<>> /\ Top(t).fn = "fetchNext"
      /\ "fetchNext" \in Fns
  BY DEF ReturnFetchEof, Return, Fns
<1>2. Pairing /\ Data /\ RingOK BY DEF Inv
<1>3. UNCHANGED <<stmtAt, PREPARED_STATEMENTS, missed>> BY DEF ReturnFetchEof
<1>4. CASE ~OpenFound(t)
  <2>1. UNCHANGED <<OPEN_CURSORS, EVENTS, cursorAt>> BY <1>4 DEF ReturnFetchEof
  <2> QED BY <1>1, <1>3, <2>1, QuietReturn
<1>5. CASE OpenFound(t)
  <2> DEFINE c == Top(t).arg
             o == OPEN_CURSORS[c]
             k == cursorAt[c]
             p == PreparedOr0(o.arg)
             e == EofEvent(t, c, o, k)
  <2>1. /\ c \in Cursors /\ Len(stack[t]) \in 1..Len(stack[t])
        /\ clock \in Nat
        /\ inProgress["fetchNext"][t].arg = c
    <3>1. Found(t, "fetchNext") BY <1>5 DEF OpenFound
    <3>2. inProgress["fetchNext"][t] = EntryOf("fetchNext", Top(t).arg, Top(t).ts)
      BY <3>1, <1>1, <1>2, TopFacts
    <3>3. /\ c \in Cursors /\ Len(stack[t]) \in 1..Len(stack[t])
          /\ clock \in Nat
      BY <1>1, <1>2, TopFacts DEF ArgsOf
    <3> QED BY <3>2, <3>3 DEF EntryOf
  <2>2. c \in DOMAIN cursorAt BY <2>1, <1>1, <1>2 DEF Data, LiveArgs, Top
  <2>3. c \in DOMAIN OPEN_CURSORS BY <2>1, <1>5 DEF OpenFound
  <2>4. /\ OPEN_CURSORS' = Del(OPEN_CURSORS, c)
        /\ emit_event(e)
        /\ cursorAt' = [cursorAt EXCEPT ![c].reports = @ + 1]
    BY <2>1, <1>5 DEF ReturnFetchEof
  <2>5. /\ o \in EntryType("openCursor") /\ o.arg \in Requests /\ o.ts \in Nat
        /\ k \in CursorType /\ k.req \in Requests /\ k.ts \in Nat /\ k.reports \in Nat
        /\ k.req \in DOMAIN stmtAt /\ k.ts <= clock
        /\ c \notin missed => o.arg = k.req /\ o.ts = k.ts
    <3>1. o \in EntryType("openCursor") /\ k \in CursorType
      BY <2>2, <2>3, <1>2 DEF Data, DataOK, IsMap
    <3>2. k.req \in DOMAIN stmtAt /\ k.ts <= clock
      BY <2>2, <1>2 DEF Data, LiveCursors
    <3>3. c \notin missed => o.arg = k.req /\ o.ts = k.ts
      BY <2>2, <2>3, <1>2 DEF Data, MapsTellTruth
    <3> QED BY <3>1, <3>2, <3>3 DEF EntryType, ArgsOf, CursorType
  <2>6. stmtAt[k.req] \in PreparedType
    BY <2>5, <1>2, LookupFacts
  <2>7. p.stmt \in Stmts \cup {Unknown} /\ p.prepare_ns \in Nat
    <3>1. CASE o.arg \in DOMAIN PREPARED_STATEMENTS
      BY <3>1, <1>2 DEF PreparedOr0, PreparedType, Data, DataOK, IsMap
    <3>2. CASE o.arg \notin DOMAIN PREPARED_STATEMENTS BY <3>2 DEF PreparedOr0
    <3> QED BY <3>1, <3>2
  <2>8. /\ Elapsed(o) \in Nat /\ clock - k.ts \in Nat
        /\ c \notin missed => Elapsed(o) = clock - k.ts
    BY <2>1, <2>5 DEF Elapsed, SaturatingSub
  <2>9. c \notin missed /\ k.req \notin missed =>
          \/ p = stmtAt[k.req]
          \/ p.stmt = Unknown /\ p.prepare_ns = 0
    BY <2>5, <1>2, LookupFacts
  <2> HIDE DEF c, o, k, p
  <2> DEFINE sureStmt == c \notin missed /\ k.req \notin missed
             sureTime == c \notin missed
             q == stmtAt[k.req]
             d == Elapsed(o)
             dTrue == clock - k.ts
             truth == Truth(q, dTrue, sureStmt, sureTime)
  <2>10. e = Event(t, p, d, truth) BY DEF EofEvent, p
  <2>a. sureStmt \in BOOLEAN /\ sureTime \in BOOLEAN OBVIOUS
  <2>b. sureTime => d = dTrue BY <2>8
  <2>c. sureStmt => p = q \/ (p.stmt = Unknown /\ p.prepare_ns = 0) BY <2>9
  <2>d. q \in PreparedType /\ d \in Nat /\ dTrue \in Nat BY <2>6, <2>8
  <2> HIDE DEF e, sureStmt, sureTime, q, d, dTrue
  <2>f. truth \in TruthType
    BY <2>a, <2>d DEF Truth, TruthType, PreparedType
  <2>g. truth.stmt = q.stmt /\ truth.prepare_ns = q.prepare_ns
        /\ truth.execute_ns = dTrue
        /\ truth.sureStmt = sureStmt /\ truth.sureTime = sureTime
    BY DEF Truth
  <2> HIDE DEF truth
  <2>11. e \in EventType
    BY <2>f, <2>d, <2>7, <2>10 DEF Event, EventType
  <2>12. EventOK(e) BY <2>b, <2>c, <2>g, <2>10 DEF Event, EventOK
  <2>13. EVENTS' \in Seq(EventType) /\ RingOK'
    BY <1>2, <2>4, <2>11, <2>12, EmitFacts DEF Data, DataOK
  <2>14. /\ IsMap(OPEN_CURSORS', Cursors, EntryType("openCursor"))
         /\ DOMAIN OPEN_CURSORS' = DOMAIN OPEN_CURSORS \ {c}
         /\ \A x \in DOMAIN OPEN_CURSORS : x # c => OPEN_CURSORS'[x] = OPEN_CURSORS[x]
    BY <2>1, <2>4, <1>2 DEF Data, DataOK, IsMap, Del
  <2>15. /\ DOMAIN cursorAt' = DOMAIN cursorAt
         /\ \A x \in DOMAIN cursorAt : x # c => cursorAt'[x] = cursorAt[x]
         /\ cursorAt'[c] = [k EXCEPT !.reports = @ + 1]
    BY <2>2, <2>4 DEF k
  <2>16. /\ cursorAt'[c] \in CursorType
         /\ cursorAt'[c].req = k.req /\ cursorAt'[c].ts = k.ts
         /\ cursorAt'[c].reports = k.reports + 1
    BY <2>5, <2>15 DEF CursorType
  <2>17. IsMap(cursorAt', Cursors, CursorType)
    <3>1. IsMap(cursorAt, Cursors, CursorType) BY <1>2 DEF Data, DataOK
    <3>2. cursorAt' = [x \in DOMAIN cursorAt' |-> cursorAt'[x]] BY <2>4
    <3> QED BY <3>1, <3>2, <2>15, <2>16 DEF IsMap
  <2>18. DataOK' BY <1>2, <1>3, <2>13, <2>14, <2>17 DEF Data, DataOK, IsMap
  <2>19. Pairing' BY <1>1, <1>2, ReturnKeepsPairing
  <2>20. LiveArgs' BY <1>1, <1>2, <1>3, <2>15, ReturnKeepsArgs DEF Data
  <2>21. LiveCursors'
    <3>1. clock' = clock + 1 /\ clock \in Nat BY <1>1, <1>2, ReturnClock
    <3>2. ASSUME NEW x \in DOMAIN cursorAt'
          PROVE  cursorAt'[x].req \in DOMAIN stmtAt' /\ cursorAt'[x].ts <= clock'
      <4>1. /\ cursorAt'[x].req = cursorAt[x].req /\ cursorAt'[x].ts = cursorAt[x].ts
            /\ cursorAt[x].ts \in Nat
        BY <2>15, <2>16, <1>2 DEF k, Data, DataOK, IsMap, CursorType
      <4>2. cursorAt[x].req \in DOMAIN stmtAt /\ cursorAt[x].ts <= clock
        BY <2>15, <1>2 DEF Data, LiveCursors
      <4> QED BY <4>1, <4>2, <3>1, <1>3
    <3> QED BY <3>2 DEF LiveCursors
  <2>22. MapsTellTruth'
    <3>1. \A x \in DOMAIN OPEN_CURSORS' \cap DOMAIN cursorAt' :
            x \notin missed' => /\ OPEN_CURSORS'[x].arg = cursorAt'[x].req
                                /\ OPEN_CURSORS'[x].ts = cursorAt'[x].ts
      BY <2>14, <2>15, <1>2, <1>3 DEF Data, MapsTellTruth
    <3> QED BY <3>1, <1>2, <1>3 DEF Data, MapsTellTruth
  <2>23. ReportedGone'
    <3>1. k.reports = 0 BY <2>2, <2>3, <1>2 DEF k, Data, ReportedGone
    <3>2. cursorAt'[c].reports = 1 /\ c \notin DOMAIN OPEN_CURSORS'
      BY <3>1, <2>14, <2>16
    <3> QED BY <3>2, <2>14, <2>15, <1>2 DEF Data, ReportedGone
  <2> QED BY <2>13, <2>18, <2>19, <2>20, <2>21, <2>22, <2>23 DEF Inv, Data
<1> QED BY <1>4, <1>5

-----------------------------------------------------------------------------
(* The remaining actions.                                                  *)

(* Attaching a probe in the middle of calls keeps the invariant.           *)
LEMMA AttachNextStep == Inv /\ AttachNext => Inv'
<1> SUFFICES ASSUME Inv, AttachNext PROVE Inv'
  OBVIOUS
<1>1. /\ attached' = attached + 1 /\ attached < Probes /\ attached \in 0..Probes
      /\ UNCHANGED <<clock, stack, stmtAt, cursorAt, inProgress,
                     PREPARED_STATEMENTS, OPEN_CURSORS, EVENTS, missed>>
  BY DEF AttachNext, traced, maps, Inv, Pairing, CallsOK
<1>2. CallsOK'
  <2>1. attached' \in 0..Probes BY <1>1 DEF Probes
  <2> QED BY <1>1, <2>1 DEF Inv, Pairing, CallsOK, IsMap
<1>3. ArmedOrder'
  <2> SUFFICES ASSUME NEW t \in Threads, NEW i \in 1..Len(stack[t])
      PROVE  /\ stack[t][i].ts <= clock
             /\ stack[t][i].armed =>
                  /\ attached' >= 2 * PairNo[stack[t][i].fn]
                  /\ \A j \in (i + 1)..Len(stack[t]) :
                       stack[t][j].fn = stack[t][i].fn => stack[t][j].armed
    BY <1>1 DEF ArmedOrder, ExitAttached
  <2>1. stack[t] \in Seq(FrameType) BY DEF Inv, Pairing, CallsOK
  <2>2. stack[t][i] \in FrameType BY <2>1, ElementOfSeq
  <2>3. stack[t][i].fn \in Fns BY <2>2 DEF FrameType
  <2>4. PairNo[stack[t][i].fn] \in Nat BY <2>3 DEF Fns, PairNo
  <2>5. /\ stack[t][i].ts <= clock
        /\ stack[t][i].armed =>
             /\ attached >= 2 * PairNo[stack[t][i].fn]
             /\ \A j \in (i + 1)..Len(stack[t]) :
                  stack[t][j].fn = stack[t][i].fn => stack[t][j].armed
    BY DEF Inv, Pairing, ArmedOrder, ExitAttached
  <2>6. attached \in Nat BY <1>1
  <2>7. attached >= 2 * PairNo[stack[t][i].fn]
          => attached' >= 2 * PairNo[stack[t][i].fn]
    BY <2>4, <2>6, <1>1
  <2> QED BY <2>5, <2>7
<1>4. EntryPairing' BY <1>1 DEF Inv, Pairing, EntryPairing, NoneAbove
<1>5. DataOK' /\ LiveArgs' /\ LiveCursors' /\ MapsTellTruth' /\ ReportedGone' /\ RingOK'
  BY <1>1 DEF Inv, Data, DataOK, IsMap, LiveArgs, LiveCursors, MapsTellTruth,
              ReportedGone, RingOK
<1> QED BY <1>2, <1>3, <1>4, <1>5 DEF Inv, Pairing, Data

(* The entry probes keep the invariant.                                    *)
LEMMA CallStep ==
    ASSUME Inv, NEW t \in Threads, NEW fn \in Fns, NEW arg \in ArgsOf(fn),
           Call(t, fn, arg),
           fn \in {"execute", "openCursor"} => arg \in DOMAIN stmtAt,
           fn = "fetchNext" => arg \in DOMAIN cursorAt
    PROVE  Inv'
BY CallKeepsPairing, CallKeepsData DEF Inv

(* The calls and their pointers are untouched.                             *)
LEMMA SamePairing ==
    ASSUME Pairing, UNCHANGED <<attached, clock, stack, inProgress>>
    PROVE  Pairing'
BY DEF Pairing, CallsOK, IsMap, ArmedOrder, ExitAttached, EntryPairing, NoneAbove

(* An unprobed free leaves at most a stale entry for a dead request.       *)
LEMMA FreeStep ==
    ASSUME Inv, NEW r \in Requests, DSQL_free_statement(r)
    PROVE  Inv'
<1>1. /\ ~InUse(r) /\ ~HasCursor(r)
      /\ stmtAt' = Del(stmtAt, r)
      /\ UNCHANGED <<attached, clock, stack, cursorAt, inProgress,
                     PREPARED_STATEMENTS, OPEN_CURSORS, EVENTS, missed>>
  BY DEF DSQL_free_statement, maps
<1>2. Pairing' BY <1>1, SamePairing DEF Inv
<1>3. /\ IsMap(stmtAt', Requests, PreparedType)
      /\ DOMAIN stmtAt' = DOMAIN stmtAt \ {r}
      /\ \A x \in DOMAIN stmtAt : x # r => stmtAt'[x] = stmtAt[x]
  BY <1>1 DEF Inv, Data, DataOK, IsMap, Del
<1>4. LiveArgs' BY <1>1, <1>3 DEF Inv, Data, LiveArgs, InUse
<1>5. LiveCursors' BY <1>1, <1>3 DEF Inv, Data, LiveCursors, HasCursor
<1>6. MapsTellTruth' BY <1>1, <1>3 DEF Inv, Data, MapsTellTruth
<1>7. DataOK' /\ ReportedGone' /\ RingOK'
  BY <1>1, <1>3 DEF Inv, Data, DataOK, IsMap, ReportedGone, RingOK
<1> QED BY <1>2, <1>4, <1>5, <1>6, <1>7 DEF Inv, Data

(* An unprobed close leaves at most a stale entry for a dead cursor.       *)
LEMMA CloseCursorStep ==
    ASSUME Inv, NEW c \in Cursors, CloseCursor(c)
    PROVE  Inv'
<1>1. /\ ~InUse(c)
      /\ cursorAt' = Del(cursorAt, c)
      /\ UNCHANGED <<attached, clock, stack, stmtAt, inProgress,
                     PREPARED_STATEMENTS, OPEN_CURSORS, EVENTS, missed>>
  BY DEF CloseCursor, maps
<1>2. Pairing' BY <1>1, SamePairing DEF Inv
<1>3. /\ IsMap(cursorAt', Cursors, CursorType)
      /\ DOMAIN cursorAt' = DOMAIN cursorAt \ {c}
      /\ \A x \in DOMAIN cursorAt : x # c => cursorAt'[x] = cursorAt[x]
  BY <1>1 DEF Inv, Data, DataOK, IsMap, Del
<1>4. LiveArgs' BY <1>1, <1>3 DEF Inv, Data, LiveArgs, InUse
<1>5. LiveCursors' BY <1>1, <1>3 DEF Inv, Data, LiveCursors
<1>6. MapsTellTruth' BY <1>1, <1>3 DEF Inv, Data, MapsTellTruth
<1>7. ReportedGone' BY <1>1, <1>3 DEF Inv, Data, ReportedGone
<1>8. DataOK' /\ RingOK' BY <1>1, <1>3 DEF Inv, Data, DataOK, IsMap, RingOK
<1> QED BY <1>2, <1>4, <1>5, <1>6, <1>7, <1>8 DEF Inv, Data

(* Reading an event leaves the others as they are.                         *)
LEMMA ReadEventStep == Inv /\ ReadEvent => Inv'
<1> SUFFICES ASSUME Inv, ReadEvent PROVE Inv'
  OBVIOUS
<1>1. /\ EVENTS # <<>> /\ EVENTS' = Tail(EVENTS)
      /\ UNCHANGED <<attached, clock, stack, stmtAt, cursorAt, inProgress,
                     PREPARED_STATEMENTS, OPEN_CURSORS, missed>>
  BY DEF ReadEvent, traced
<1>2. Pairing' BY <1>1, SamePairing DEF Inv
<1>3. EVENTS \in Seq(EventType) BY DEF Inv, Data, DataOK
<1>4. /\ EVENTS' \in Seq(EventType)
      /\ Len(EVENTS) \in Nat /\ Len(EVENTS') = Len(EVENTS) - 1
      /\ \A i \in 1..Len(EVENTS') : EVENTS'[i] = EVENTS[i + 1]
  BY <1>1, <1>3, HeadTailProperties, LenProperties
<1>5. RingOK'
  <2>1. ASSUME NEW i \in 1..Len(EVENTS') PROVE EventOK(EVENTS'[i])
    <3>1. i + 1 \in 1..Len(EVENTS) BY <1>4
    <3> QED BY <3>1, <1>4 DEF Inv, RingOK
  <2> QED BY <2>1 DEF RingOK, EventOK
<1>6. DataOK' /\ LiveArgs' /\ LiveCursors' /\ MapsTellTruth' /\ ReportedGone'
  BY <1>1, <1>4 DEF Inv, Data, DataOK, IsMap, LiveArgs, LiveCursors,
                    MapsTellTruth, ReportedGone
<1> QED BY <1>2, <1>5, <1>6 DEF Inv, Data

-----------------------------------------------------------------------------
(* Initially there are no calls and no entries.                            *)
LEMMA InitInv == Init => Inv
<1> SUFFICES ASSUME Init PROVE Inv
  OBVIOUS
<1>1. \A K, V : IsMap(NoEntries, K, V) BY DEF IsMap, NoEntries
<1>2. \A t \in Threads : stack[t] = <<>> /\ Len(stack[t]) = 0
  BY DEF Init
<1>3. stack \in [Threads -> Seq(FrameType)] BY DEF Init
<1>4. \A fn \in Fns : inProgress[fn] = NoEntries BY DEF Init
<1>5. CallsOK
  <2>1. inProgress = [fn \in Fns |-> inProgress[fn]] BY DEF Init
  <2>2. \A fn \in Fns : IsMap(inProgress[fn], Threads, EntryType(fn)) BY <1>1, <1>4
  <2>3. attached \in 0..Probes /\ clock \in Nat BY DEF Init, Probes
  <2> QED BY <1>2, <1>3, <2>1, <2>2, <2>3 DEF CallsOK
<1>6. ArmedOrder /\ EntryPairing /\ LiveArgs
  BY <1>2 DEF ArmedOrder, EntryPairing, LiveArgs
<1>7. DOMAIN cursorAt = {} /\ DOMAIN stmtAt = {} /\ EVENTS = <<>>
  BY DEF Init, NoEntries
<1>8. LiveCursors /\ MapsTellTruth /\ ReportedGone /\ RingOK
  BY <1>7 DEF LiveCursors, MapsTellTruth, ReportedGone, RingOK
<1>9. DataOK BY <1>1 DEF Init, DataOK
<1> QED BY <1>5, <1>6, <1>8, <1>9 DEF Inv, Pairing, Data

(* Every step, or a stuttering step, preserves the invariant.              *)
LEMMA NextInv == Inv /\ [Next]_vars => Inv'
<1> SUFFICES ASSUME Inv, [Next]_vars PROVE Inv'
  OBVIOUS
<1>1. CASE AttachNext BY <1>1, AttachNextStep
<1>2. ASSUME NEW t \in Threads, NEW s \in Stmts, CallPrepare(t, s) \/ CallImmediate(t, s)
      PROVE  Inv'
  <2>1. CASE CallPrepare(t, s) BY <2>1, CallStep DEF CallPrepare, ArgsOf, Fns
  <2>2. CASE CallImmediate(t, s) BY <2>2, CallStep DEF CallImmediate, ArgsOf, Fns
  <2> QED BY <1>2, <2>1, <2>2
<1>3. ASSUME NEW t \in Threads, NEW r \in Requests, CallExecute(t, r) \/ CallOpenCursor(t, r)
      PROVE  Inv'
  <2>1. CASE CallExecute(t, r) BY <2>1, CallStep DEF CallExecute, ArgsOf, Fns
  <2>2. CASE CallOpenCursor(t, r) BY <2>2, CallStep DEF CallOpenCursor, ArgsOf, Fns
  <2> QED BY <1>3, <2>1, <2>2
<1>4. ASSUME NEW t \in Threads, NEW c \in Cursors, CallFetchNext(t, c)
      PROVE  Inv'
  BY <1>4, CallStep DEF CallFetchNext, ArgsOf, Fns
<1>5. ASSUME NEW t \in Threads, ReturnPrepareFails(t) PROVE Inv'
  BY <1>5, QuietReturn DEF ReturnPrepareFails, Fns
<1>6. ASSUME NEW t \in Threads, NEW r \in Requests, ReturnPrepare(t, r) PROVE Inv'
  BY <1>6, ReturnPrepareStep
<1>7. ASSUME NEW t \in Threads, ReturnExecute(t) PROVE Inv'
  BY <1>7, ReturnExecuteStep
<1>8. ASSUME NEW t \in Threads, ReturnImmediate(t) PROVE Inv'
  BY <1>8, ReturnImmediateStep
<1>9. ASSUME NEW t \in Threads, ReturnOpenCursorFails(t) PROVE Inv'
  BY <1>9, QuietReturn DEF ReturnOpenCursorFails, Fns
<1>10. ASSUME NEW t \in Threads, NEW c \in Cursors, ReturnOpenCursor(t, c) PROVE Inv'
  BY <1>10, ReturnOpenCursorStep
<1>11. ASSUME NEW t \in Threads, ReturnFetchRow(t) PROVE Inv'
  BY <1>11, QuietReturn DEF ReturnFetchRow, Fns
<1>12. ASSUME NEW t \in Threads, ReturnFetchEof(t) PROVE Inv'
  BY <1>12, ReturnFetchEofStep
<1>13. ASSUME NEW r \in Requests, DSQL_free_statement(r) PROVE Inv'
  BY <1>13, FreeStep
<1>14. ASSUME NEW c \in Cursors, CloseCursor(c) PROVE Inv'
  BY <1>14, CloseCursorStep
<1>15. CASE ReadEvent BY <1>15, ReadEventStep
<1>16. CASE UNCHANGED vars
  <2>1. UNCHANGED <<attached, clock, stack, inProgress>> BY <1>16 DEF vars
  <2>2. UNCHANGED <<stmtAt, cursorAt, PREPARED_STATEMENTS, OPEN_CURSORS, EVENTS, missed>>
    BY <1>16 DEF vars
  <2>3. Pairing' BY <2>1, SamePairing DEF Inv
  <2>4. Data' /\ RingOK'
    BY <2>1, <2>2 DEF Inv, Data, DataOK, IsMap, LiveArgs, LiveCursors,
                      MapsTellTruth, ReportedGone, RingOK
  <2> QED BY <2>3, <2>4 DEF Inv
<1> QED
  BY <1>1, <1>2, <1>3, <1>4, <1>5, <1>6, <1>7, <1>8, <1>9, <1>10, <1>11, <1>12,
     <1>13, <1>14, <1>15, <1>16 DEF Next

-----------------------------------------------------------------------------
(* The inductive invariant holds in every reachable state.                 *)
THEOREM InvHolds == Spec => []Inv
BY InitInv, NextInv, PTL DEF Spec

(* Every variable keeps the type of the struct or map it stands for.       *)
THEOREM TypeCorrect == Spec => []TypeOK
<1>1. Inv => TypeOK BY DEF Inv, Pairing, Data, TypeOK
<1> QED BY <1>1, InvHolds, PTL

(* An exit probe never picks up another call's entry, however calls nest   *)
(* and whichever inserts fail, once its pair was attached at entry.        *)
THEOREM ProbesArePaired == Spec => []EntryPairing
<1>1. Inv => EntryPairing BY DEF Inv, Pairing
<1> QED BY <1>1, InvHolds, PTL

(* The LRU maps hold the truth about every live, recorded pointer.         *)
THEOREM LruMapsAreTrue == Spec => []MapsTellTruth
<1>1. Inv => MapsTellTruth BY DEF Inv, Data
<1> QED BY <1>1, InvHolds, PTL

(* The execution time of an event is the wall-clock of the call or cursor  *)
(* it reports, unless the cursor's openCursor return was not recorded.     *)
THEOREM TimingIsExact == Spec => []ExactTiming
<1>1. Inv => ExactTiming BY RingMeaning DEF Inv
<1> QED BY <1>1, InvHolds, PTL

(* An event shows its own statement or none, unless the request's or the   *)
(* cursor's creation was not recorded.                                     *)
THEOREM StatementIsOwn == Spec => []OwnStatement
<1>1. Inv => OwnStatement BY RingMeaning DEF Inv
<1> QED BY <1>1, InvHolds, PTL

(* No cursor is reported twice.                                            *)
THEOREM CursorsReportedOnce == Spec => []CursorReportedOnce
<1>1. Inv => CursorReportedOnce BY DEF Inv, Data, ReportedGone, CursorReportedOnce
<1> QED BY <1>1, InvHolds, PTL

-----------------------------------------------------------------------------
(* What steps do to the stacks: a leak and a lost event need a return.     *)

(* A step calls, returns, or leaves the calls in progress alone.           *)
LEMMA StepKinds ==
    ASSUME [Next]_vars
    PROVE  \/ UNCHANGED <<clients, stack, inProgress>>
           \/ \E t \in Threads, fn \in Fns : \E arg \in ArgsOf(fn) : Call(t, fn, arg)
           \/ \E t \in Threads, fn \in Fns :
                 /\ Return(t, fn)
                 /\ fn = "execute" => ReturnExecute(t)
                 /\ fn = "immediate" => ReturnImmediate(t)
<1> DEFINE Calls == \E t \in Threads, fn \in Fns : \E arg \in ArgsOf(fn) : Call(t, fn, arg)
           Returns == \E t \in Threads, fn \in Fns :
                         /\ Return(t, fn)
                         /\ fn = "execute" => ReturnExecute(t)
                         /\ fn = "immediate" => ReturnImmediate(t)
<1>1. ASSUME AttachNext PROVE UNCHANGED <<clients, stack, inProgress>>
  BY <1>1 DEF AttachNext, traced, maps
<1>2. ASSUME NEW t \in Threads, NEW s \in Stmts, CallPrepare(t, s) \/ CallImmediate(t, s)
      PROVE  Calls
  <2>1. s \in ArgsOf("prepare") /\ s \in ArgsOf("immediate") BY DEF ArgsOf
  <2> QED BY <1>2, <2>1 DEF CallPrepare, CallImmediate, Fns
<1>3. ASSUME NEW t \in Threads, NEW r \in Requests, CallExecute(t, r) \/ CallOpenCursor(t, r)
      PROVE  Calls
  <2>1. r \in ArgsOf("execute") /\ r \in ArgsOf("openCursor") BY DEF ArgsOf
  <2> QED BY <1>3, <2>1 DEF CallExecute, CallOpenCursor, Fns
<1>4. ASSUME NEW t \in Threads, NEW c \in Cursors, CallFetchNext(t, c)
      PROVE  Calls
  <2>1. c \in ArgsOf("fetchNext") BY DEF ArgsOf
  <2> QED BY <1>4, <2>1 DEF CallFetchNext, Fns
<1>5. ASSUME NEW t \in Threads, ReturnPrepareFails(t) \/ ReturnOpenCursorFails(t)
                                  \/ ReturnFetchRow(t) \/ ReturnFetchEof(t)
      PROVE  Returns
  <2>1. Return(t, "prepare") \/ Return(t, "openCursor") \/ Return(t, "fetchNext")
    BY <1>5 DEF ReturnPrepareFails, ReturnOpenCursorFails, ReturnFetchRow, ReturnFetchEof
  <2> QED BY <2>1 DEF Fns
<1>6. ASSUME NEW t \in Threads, NEW r \in Requests, ReturnPrepare(t, r) PROVE Returns
  <2>1. Return(t, "prepare") BY <1>6 DEF ReturnPrepare
  <2> QED BY <2>1 DEF Fns
<1>7. ASSUME NEW t \in Threads, ReturnExecute(t) PROVE Returns
  <2>1. Return(t, "execute") BY <1>7 DEF ReturnExecute
  <2> QED BY <1>7, <2>1 DEF Fns
<1>8. ASSUME NEW t \in Threads, ReturnImmediate(t) PROVE Returns
  <2>1. Return(t, "immediate") BY <1>8 DEF ReturnImmediate
  <2> QED BY <1>8, <2>1 DEF Fns
<1>9. ASSUME NEW t \in Threads, NEW c \in Cursors, ReturnOpenCursor(t, c) PROVE Returns
  <2>1. Return(t, "openCursor") BY <1>9 DEF ReturnOpenCursor
  <2> QED BY <2>1 DEF Fns
<1>10. ASSUME NEW r \in Requests, DSQL_free_statement(r) PROVE UNCHANGED <<clients, stack, inProgress>>
  BY <1>10 DEF DSQL_free_statement, maps
<1>11. ASSUME NEW c \in Cursors, CloseCursor(c) PROVE UNCHANGED <<clients, stack, inProgress>>
  BY <1>11 DEF CloseCursor, maps
<1>12. ASSUME ReadEvent PROVE UNCHANGED <<clients, stack, inProgress>>
  BY <1>12 DEF ReadEvent, traced
<1>13. ASSUME UNCHANGED vars PROVE UNCHANGED <<clients, stack, inProgress>>
  BY <1>13 DEF vars
<1> HIDE DEF Calls, Returns
<1>14. UNCHANGED <<clients, stack, inProgress>> \/ Calls \/ Returns
  BY <1>1, <1>2, <1>3, <1>4, <1>5, <1>6, <1>7, <1>8, <1>9, <1>10, <1>11, <1>12, <1>13
     DEF Next
<1> QED BY <1>14 DEF Calls, Returns

(* With all probes attached before the first call, every call is armed.    *)
AllArmed ==
    clients.quiet => \A t \in Threads : \A i \in 1..Len(stack[t]) : stack[t][i].armed

(* A call stores its entry, if at all, together with its frame.            *)
LEMMA CallLeaksNothing ==
    ASSUME Inv, AllArmed, NoLeak, NEW t \in Threads, NEW fn \in Fns,
           NEW arg \in ArgsOf(fn), Call(t, fn, arg)
    PROVE  AllArmed' /\ NoLeak'
<1> DEFINE s == stack[t]
           f == Frame(t, fn, arg)
           n == Len(stack[t])
<1>1. CallsOK BY DEF Inv, Pairing
<1>2. f \in FrameType /\ f.fn = fn /\ f.armed = ExitAttached(fn) BY <1>1, FrameFacts
<1>3. s \in Seq(FrameType) BY <1>1 DEF CallsOK
<1>4. /\ n \in Nat /\ Len(stack'[t]) = n + 1 /\ stack'[t][n + 1] = f
      /\ \A i \in 1..n : stack'[t][i] =
            IF s[i].fn = fn THEN [s[i] EXCEPT !.kept = FALSE] ELSE s[i]
  <2>1. stack'[t] = Append(Shadowed(s, fn), f) BY <1>1 DEF Call, CallsOK
  <2>2. f \in FrameType BY <1>2
  <2>3. /\ Append(Shadowed(s, fn), f) \in Seq(FrameType)
        /\ Len(s) \in Nat
        /\ Len(Append(Shadowed(s, fn), f)) = Len(s) + 1
        /\ Append(Shadowed(s, fn), f)[Len(s) + 1] = f
        /\ \A i \in 1..Len(s) :
              Append(Shadowed(s, fn), f)[i] =
                IF s[i].fn = fn THEN [s[i] EXCEPT !.kept = FALSE] ELSE s[i]
    <3> HIDE DEF s, f
    <3> QED BY <1>3, <2>2, PushFacts
  <2> QED BY <2>1, <2>3, Zenon
<1>5. \A i \in 1..n : s[i] \in FrameType BY <1>3, <1>4, ElementOfSeq
<1>6. \A i \in 1..n : stack'[t][i].fn = s[i].fn /\ stack'[t][i].armed = s[i].armed
  BY <1>4, <1>5 DEF FrameType
<1>7. \A u \in Threads : u # t => stack'[u] = stack[u] BY <1>1 DEF Call, CallsOK
<1>8. ASSUME clients.quiet, NEW u \in Threads, NEW i \in 1..Len(stack'[u])
      PROVE  stack'[u][i].armed
  <2>1. CASE u # t BY <1>7, <1>8, <2>1 DEF AllArmed
  <2>2. CASE u = t /\ i \in 1..n BY <1>6, <1>8, <2>2 DEF AllArmed
  <2>3. CASE u = t /\ i = n + 1
    <3>1. attached = Probes BY <1>8 DEF Call, CanCall
    <3>2. ExitAttached(fn) BY <3>1 DEF ExitAttached, Probes, PairNo, Fns
    <3> QED BY <1>2, <1>4, <2>3, <3>2
  <2> QED BY <1>4, <2>1, <2>2, <2>3
<1>9. ASSUME clients.quiet, NEW g \in Fns, NEW u \in DOMAIN inProgress'[g]
      PROVE  \E i \in 1..Len(stack'[u]) : stack'[u][i].fn = g
  <2>1. (u = t /\ g = fn) \/ u \in DOMAIN inProgress[g]
    BY <1>1 DEF Call, CallsOK, Put
  <2>2. u \in Threads BY <1>1, <2>1 DEF CallsOK, IsMap
  <2>3. CASE u = t /\ g = fn
    <3>1. n + 1 \in 1..Len(stack'[t]) BY <1>4
    <3> QED BY <1>2, <1>4, <2>3, <3>1
  <2>4. CASE u \in DOMAIN inProgress[g]
    <3>1. PICK i \in 1..Len(stack[u]) : stack[u][i].fn = g BY <1>9, <2>4 DEF NoLeak
    <3>2. CASE u # t BY <1>7, <2>2, <3>1, <3>2
    <3>3. CASE u = t
      <4>1. i \in 1..Len(stack'[t]) BY <1>4, <3>1, <3>3
      <4> QED BY <1>6, <3>1, <3>3, <4>1
    <3> QED BY <3>2, <3>3
  <2> QED BY <2>1, <2>3, <2>4
<1>10. clients' = clients BY DEF Call
<1> QED BY <1>8, <1>9, <1>10 DEF AllArmed, NoLeak

(* An armed return takes the thread's entry with it, and no other frame    *)
(* than that of the returning call.                                        *)
LEMMA ReturnLeaksNothing ==
    ASSUME Inv, AllArmed, NoLeak, NEW t \in Threads, NEW fn \in Fns, Return(t, fn)
    PROVE  AllArmed' /\ NoLeak'
<1> DEFINE n == Len(stack[t])
<1>1. CallsOK /\ Pairing BY DEF Inv, Pairing
<1>2. /\ n \in Nat /\ Len(stack'[t]) = n - 1
      /\ \A u \in Threads : u # t => stack'[u] = stack[u]
      /\ \A u \in Threads : \A i \in 1..Len(stack'[u]) :
            i \in 1..Len(stack[u]) /\ stack'[u][i] = stack[u][i]
  BY <1>1, ReturnFrames
<1>3. AllArmed' BY <1>2 DEF AllArmed, Return
<1>4. stack[t] # <<>> /\ Top(t).fn = fn /\ n \in 1..n BY <1>1, TopFacts DEF Return
<1>5. ASSUME clients.quiet, NEW g \in Fns, NEW u \in DOMAIN inProgress'[g]
      PROVE  \E i \in 1..Len(stack'[u]) : stack'[u][i].fn = g
  <2>1. Top(t).armed BY <1>4, <1>5 DEF AllArmed, Top
  <2>2. u \in DOMAIN inProgress[g] /\ ~(u = t /\ g = fn)
    BY <1>1, <2>1 DEF Return, Found, CallsOK, Del
  <2>3. u \in Threads BY <1>1, <2>2 DEF CallsOK, IsMap
  <2>4. PICK i \in 1..Len(stack[u]) : stack[u][i].fn = g BY <1>5, <2>2 DEF NoLeak
  <2>5. CASE u # t BY <1>2, <2>3, <2>4, <2>5
  <2>6. CASE u = t
    <3>1. i # n BY <1>4, <2>2, <2>4, <2>6 DEF Top
    <3>2. i \in 1..Len(stack'[t]) BY <1>2, <2>4, <2>6, <3>1
    <3> QED BY <1>2, <2>4, <2>6, <3>2
  <2> QED BY <2>5, <2>6
<1> QED BY <1>3, <1>5 DEF NoLeak, Return

(* Finished calls leave nothing in the *_IN_PROGRESS maps, however calls   *)
(* nest and whichever inserts fail, if no call began before the last probe *)
(* was attached.                                                           *)
THEOREM NothingLeaks == Spec => []NoLeak
<1>1. Init => AllArmed /\ NoLeak
  BY DEF Init, AllArmed, NoLeak, NoEntries
<1>2. Inv /\ AllArmed /\ NoLeak /\ [Next]_vars => AllArmed' /\ NoLeak'
  <2> SUFFICES ASSUME Inv, AllArmed, NoLeak, [Next]_vars PROVE AllArmed' /\ NoLeak'
    OBVIOUS
  <2>1. CASE UNCHANGED <<clients, stack, inProgress>> BY <2>1 DEF AllArmed, NoLeak
  <2>2. ASSUME NEW t \in Threads, NEW fn \in Fns, NEW arg \in ArgsOf(fn), Call(t, fn, arg)
        PROVE  AllArmed' /\ NoLeak'
    BY <2>2, CallLeaksNothing
  <2>3. ASSUME NEW t \in Threads, NEW fn \in Fns, Return(t, fn)
        PROVE  AllArmed' /\ NoLeak'
    BY <2>3, ReturnLeaksNothing
  <2> QED BY <2>1, <2>2, <2>3, StepKinds
<1> QED BY <1>1, <1>2, InvHolds, PTL DEF Spec

(* An emitted event is one more record, unless the ring is full.           *)
LEMMA EmitReports ==
    ASSUME EVENTS \in Seq(EventType), NEW e, emit_event(e), Len(EVENTS) < RingSlots
    PROVE  Reported
<1>1. EVENTS \in Seq(EventType \cup {e}) BY SeqMonotonic
<1>2. Len(Append(EVENTS, e)) = Len(EVENTS) + 1 /\ Len(EVENTS) \in Nat
  BY <1>1, AppendProperties, LenProperties
<1>3. EVENTS' = Append(EVENTS, e) BY DEF emit_event
<1>4. EVENTS' # EVENTS BY <1>2, <1>3
<1> QED BY <1>2, <1>3, <1>4 DEF Reported

(* A stack gets shorter only by a return of that thread.                   *)
LEMMA ReturningReturns ==
    ASSUME Inv, [Next]_vars, NEW t \in Threads, Returning(t, {"execute", "immediate"})
    PROVE  ReturnExecute(t) \/ ReturnImmediate(t)
<1>1. CallsOK BY DEF Inv, Pairing
<1>2. /\ stack[t] \in Seq(FrameType) /\ stack[t] # <<>>
      /\ Top(t).fn \in {"execute", "immediate"} /\ stack'[t] = Pop(stack[t])
  BY <1>1 DEF CallsOK, Returning
<1>3. Len(stack[t]) \in Nat /\ Len(stack'[t]) = Len(stack[t]) - 1 BY <1>2, PopFacts
<1>4. stack'[t] # stack[t] BY <1>3
<1>5. ASSUME NEW u \in Threads, NEW fn \in Fns, NEW arg \in ArgsOf(fn), Call(u, fn, arg)
      PROVE  FALSE
  <2>1. u = t BY <1>1, <1>4, <1>5 DEF CallsOK, Call
  <2>2. stack'[t] = Append(Shadowed(stack[t], fn), Frame(t, fn, arg))
    BY <1>1, <1>5, <2>1 DEF CallsOK, Call
  <2>3. Frame(t, fn, arg) \in FrameType BY <1>1, FrameFacts
  <2>4. Len(stack'[t]) = Len(stack[t]) + 1 BY <1>2, <2>2, <2>3, PushFacts
  <2> QED BY <1>3, <2>4
<1>6. ASSUME NEW u \in Threads, NEW fn \in Fns, Return(u, fn),
             fn = "execute" => ReturnExecute(u), fn = "immediate" => ReturnImmediate(u)
      PROVE  ReturnExecute(t) \/ ReturnImmediate(t)
  <2>1. u = t BY <1>1, <1>4, <1>6 DEF CallsOK, Return
  <2>2. fn = Top(t).fn BY <1>6, <2>1 DEF Return
  <2> QED BY <1>2, <1>6, <2>1, <2>2
<1> QED BY <1>4, <1>5, <1>6, StepKinds

(* An execution whose entry was kept is reported when it returns, for any  *)
(* nesting and any map sizes, unless the ring is full.                     *)
THEOREM UnclobberedIsReported == Spec => EventUnlessClobbered
<1> DEFINE Reports ==
        \A t \in Threads :
            /\ Returning(t, {"execute", "immediate"})
            /\ Top(t).armed /\ Top(t).kept
            /\ Len(EVENTS) < RingSlots
            => Reported
<1>1. ASSUME Inv, [Next]_vars PROVE Reports
  <2> SUFFICES ASSUME NEW t \in Threads, Returning(t, {"execute", "immediate"}),
                      Top(t).armed, Top(t).kept, Len(EVENTS) < RingSlots
               PROVE  Reported
    OBVIOUS
  <2>1. EVENTS \in Seq(EventType) BY <1>1 DEF Inv, Data, DataOK
  <2>2. Found(t, Top(t).fn) BY <1>1, TopFacts DEF Inv, Returning
  <2>3. CASE ReturnExecute(t)
    <3>1. Found(t, "execute") BY <2>2, <2>3 DEF ReturnExecute, Return
    <3>2. PICK e : emit_event(e) BY <2>3, <3>1 DEF ReturnExecute
    <3> QED BY <2>1, <3>2, EmitReports
  <2>4. CASE ReturnImmediate(t)
    <3>1. Found(t, "immediate") BY <2>2, <2>4 DEF ReturnImmediate, Return
    <3>2. PICK e : emit_event(e) BY <2>4, <3>1 DEF ReturnImmediate
    <3> QED BY <2>1, <3>2, EmitReports
  <2> QED BY <1>1, <2>3, <2>4, ReturningReturns
<1>2. Inv /\ [Next]_vars => [Reports]_vars BY <1>1
<1> HIDE DEF Reports
<1>3. Spec => [][Reports]_vars BY <1>2, InvHolds, PTL DEF Spec
<1> QED BY <1>3 DEF Reports, EventUnlessClobbered
=============================================================================
