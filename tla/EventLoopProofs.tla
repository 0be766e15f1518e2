-------------------------- MODULE EventLoopProofs --------------------------
(***************************************************************************)
(* The ring and its wake-ups, for every size of the ring, every number of  *)
(* records and every order of commits: no committed record is forgotten.   *)
(* The inductive invariant is the typing of the ring and of the readiness  *)
(* flags together with NoLostWakeup itself.  A second invariant, about     *)
(* what is printed, shows that the output is the filtered ring and that    *)
(* the small ids count the attachments.                                    *)
(***************************************************************************)
EXTENDS EventLoop, FiniteSetTheorems, SequenceTheorems, TLAPS

RingOK ==
    /\ rec \in Seq(RecordType)
    /\ cons \in Nat /\ cons <= Len(rec)
    /\ unchecked \in SUBSET (1..Len(rec))
    /\ epReady \in BOOLEAN /\ readiness \in BOOLEAN /\ fresh \in BOOLEAN
    /\ pc \in {"attach", "select", "drain", "clear", "stopped", "failed"}

Inv == RingOK /\ NoLostWakeup

(* A reserved record is BUSY and not yet the business of anyone.           *)
LEMMA ReserveStep ==
    ASSUME Inv, NEW a \in Attachments \cup {NoAttachment}, NEW d \in Durations,
           Reserve(a, d)
    PROVE  Inv'
<1>1. /\ Len(rec') = Len(rec) + 1
      /\ \A i \in 1..Len(rec) : rec'[i] = rec[i]
      /\ rec'[Len(rec) + 1].busy = TRUE
      /\ rec' \in Seq(RecordType)
  BY DEF Inv, RingOK, Reserve, RecordType
<1>2. RingOK'
  BY <1>1 DEF Inv, RingOK, Reserve, tokio
<1>3. HeadCommitted' => HeadCommitted
  BY <1>1 DEF Inv, RingOK, HeadCommitted, Unread, Reserve
<1> QED
  BY <1>2, <1>3 DEF Inv, NoLostWakeup, Running, Reserve, tokio

(* A commit leaves the wake-up check of its record to be done.             *)
LEMMA CommitStep ==
    ASSUME Inv, NEW i \in 1..Len(rec), Commit(i)
    PROVE  Inv'
<1> DEFINE r == [rec[i] EXCEPT !.busy = FALSE]
<1>a. rec \in Seq(RecordType) /\ rec[i] \in RecordType
  BY DEF Inv, RingOK
<1>b. r \in RecordType
  BY <1>a DEF RecordType
<1>c. rec' = [rec EXCEPT ![i] = r]
  BY DEF Commit
<1> HIDE DEF r
<1>1. /\ Len(rec') = Len(rec)
      /\ \A j \in 1..Len(rec) : j # i => rec'[j] = rec[j]
      /\ rec' \in Seq(RecordType)
  BY <1>a, <1>b, <1>c
<1>2. RingOK'
  BY <1>1 DEF Inv, RingOK, Commit, tokio
<1>3. HeadCommitted' => HeadCommitted \/ cons + 1 = i
  BY <1>1 DEF Inv, RingOK, HeadCommitted, Unread, Commit
<1>4. unchecked' = unchecked \cup {i} /\ UNCHANGED <<cons, pc, epReady, readiness, fresh>>
  BY DEF Commit, tokio
<1> QED
  BY <1>2, <1>3, <1>4 DEF Inv, NoLostWakeup, Running

(* The check of the head record wakes the poller; other checks need not.   *)
LEMMA CheckNotifyStep ==
    ASSUME Inv, NEW i \in 1..Len(rec), CheckNotify(i)
    PROVE  Inv'
<1>1. RingOK'
  BY DEF Inv, RingOK, CheckNotify
<1>2. HeadCommitted' <=> HeadCommitted
  BY DEF HeadCommitted, Unread, CheckNotify
<1>3. (epReady \/ (cons = i - 1 /\ pc # "attach")) => epReady'
  BY DEF CheckNotify
<1>4. cons + 1 \in unchecked => cons + 1 \in unchecked' \/ cons = i - 1
  BY DEF Inv, RingOK, CheckNotify
<1> QED
  BY <1>1, <1>2, <1>3, <1>4 DEF Inv, NoLostWakeup, Running, CheckNotify

(* The steps that leave the ring alone.                                    *)
LEMMA OtherSteps ==
    ASSUME Inv,
           \/ EpollWait \/ PressCtrlC \/ Broadcast \/ Register
           \/ SelectSubscribe \/ SelectStop \/ SelectRead
           \/ DrainEnd \/ ClearReady \/ Done
    PROVE  Inv'
<1>1. HeadCommitted' <=> HeadCommitted
  BY DEF HeadCommitted, Unread, EpollWait, PressCtrlC, Broadcast, Register,
         SelectSubscribe, SelectStop, SelectRead, DrainEnd, ClearReady, Done,
         ring, vars
<1>2. HeadCommitted => Unread
  BY DEF HeadCommitted
<1>3. Unread \in BOOLEAN
  BY DEF Unread
<1>4. CASE EpollWait
  BY <1>1, <1>2, <1>3, <1>4 DEF Inv, RingOK, NoLostWakeup, Running, EpollWait, ring
<1>5. CASE PressCtrlC \/ Broadcast \/ SelectSubscribe \/ SelectStop \/ Done
  BY <1>1, <1>5 DEF Inv, RingOK, NoLostWakeup, Running, PressCtrlC, Broadcast,
     SelectSubscribe, SelectStop, Done, ring, tokio, vars
<1>6. CASE Register
  BY <1>1, <1>2, <1>3, <1>6 DEF Inv, RingOK, NoLostWakeup, Running, Register, ring
<1>7. CASE SelectRead \/ DrainEnd \/ ClearReady
  BY <1>1, <1>7 DEF Inv, RingOK, NoLostWakeup, Running, SelectRead, DrainEnd,
     ClearReady, ring, tokio
<1> QED
  BY <1>4, <1>5, <1>6, <1>7

(* Consuming the head record happens inside the drain loop only.           *)
LEMMA DrainStep ==
    ASSUME Inv, DrainOne \/ StdoutFails
    PROVE  Inv'
<1>1. /\ cons < Len(rec)
      /\ cons' = cons + 1
      /\ pc' \in {"drain", "failed"}
      /\ UNCHANGED <<rec, unchecked, epReady, readiness, fresh>>
  BY DEF DrainOne, StdoutFails, HeadCommitted, Unread, tokio
<1>2. RingOK'
  BY <1>1 DEF Inv, RingOK
<1> QED
  BY <1>1, <1>2 DEF Inv, NoLostWakeup, Running

(* The ring invariant is inductive.                                        *)
LEMMA StepInv == Inv /\ [Next]_vars => Inv'
<1> SUFFICES ASSUME Inv, [Next]_vars PROVE Inv'
  OBVIOUS
<1>1. CASE UNCHANGED vars
  BY <1>1 DEF Inv, RingOK, NoLostWakeup, Running, HeadCommitted, Unread,
              vars, ring, tokio
<1>2. CASE Next
  BY <1>2, ReserveStep, CommitStep, CheckNotifyStep, OtherSteps, DrainStep
     DEF Next, Loop
<1> QED
  BY <1>1, <1>2

(* Nothing is in the ring at first.                                        *)
LEMMA InitInv == Init => Inv
<1> SUFFICES ASSUME Init PROVE Inv
  OBVIOUS
<1>1. rec = <<>> /\ Len(rec) = 0 /\ rec \in Seq(RecordType)
  BY DEF Init
<1>2. cons \in Nat /\ cons <= Len(rec) /\ unchecked \in SUBSET (1..Len(rec))
  BY <1>1 DEF Init
<1>3. epReady \in BOOLEAN /\ readiness \in BOOLEAN /\ fresh \in BOOLEAN
  BY DEF Init
<1>4. RingOK
  BY <1>1, <1>2, <1>3 DEF Init, RingOK
<1>5. ~Unread
  BY <1>1 DEF Init, Unread
<1> QED
  BY <1>4, <1>5 DEF Inv, NoLostWakeup, HeadCommitted

(* run_event_loop never sleeps on a committed record: whatever the order   *)
(* of reserves, commits, wake-up checks, epoll rounds and drains, a record *)
(* at the head of the ring is being read or the loop is about to be told.  *)
THEOREM NoRecordForgotten == Spec => []NoLostWakeup
<1>1. Inv => NoLostWakeup
  BY DEF Inv
<1> QED
  BY <1>1, InitInv, StepInv, PTL DEF Spec

-----------------------------------------------------------------------------
(* What the loop prints.                                                   *)

ShownType == [no : Nat, id : Nat]

PrintOK ==
    /\ sub \in {"none", "subscribed", "notified"}
    /\ installed \in BOOLEAN /\ sigPending \in BOOLEAN
    /\ next_id \in Nat
    /\ DOMAIN id_table \subseteq Attachments
    /\ id_table \in [DOMAIN id_table -> 1..next_id]
    /\ shown \in Seq(ShownType)
    /\ \A k \in 1..Len(shown) : shown[k].no \in 1..cons /\ shown[k].id \in 0..next_id

(* The attachments of the first n records that pass the threshold.         *)
Known(n) == {rec[j].att : j \in {j \in ShownUpTo(n) : rec[j].att # NoAttachment}}

(* Record i is the first of attachment a to pass the threshold.            *)
IsFirst(i, a, n) ==
    /\ i \in ShownUpTo(n) /\ rec[i].att = a
    /\ \A j \in ShownUpTo(n) : rec[j].att = a => i <= j

(* id_table holds the attachments seen so far, each with their number when *)
(* it was first seen; the output has the records, in order, and those ids. *)
NumberOK ==
    /\ IsFiniteSet(Known(cons)) /\ Cardinality(Known(cons)) = next_id
    /\ DOMAIN id_table = Known(cons)
    /\ \A a \in DOMAIN id_table : \E i \in 1..cons :
          IsFirst(i, a, cons) /\ id_table[a] = Cardinality(Known(i))
    /\ {shown[k].no : k \in 1..Len(shown)} = ShownUpTo(cons)
    /\ \A k, m \in 1..Len(shown) : k < m => shown[k].no < shown[m].no
    /\ \A k \in 1..Len(shown) :
          shown[k].id = IF rec[shown[k].no].att = NoAttachment THEN 0
                        ELSE id_table[rec[shown[k].no].att]

PrintInv == PrintOK /\ (pc # "failed" => NumberOK)

(* What has been consumed keeps its attachment and its duration, so the    *)
(* numbering does too.                                                     *)
LEMMA HistoryKept ==
    ASSUME NEW n \in Nat,
           \A j \in 1..n : rec'[j].att = rec[j].att /\ rec'[j].execute_ns = rec[j].execute_ns
    PROVE  /\ ShownUpTo(n)' = ShownUpTo(n)
           /\ \A i \in 1..n : Known(i)' = Known(i)
           /\ Known(n)' = Known(n)
           /\ \A i \in 1..n : \A a : IsFirst(i, a, n) => IsFirst(i, a, n)'
<1>1. ASSUME NEW i \in Nat, i <= n PROVE ShownUpTo(i)' = ShownUpTo(i) /\ Known(i)' = Known(i)
  <2>1. \A j \in 1..i : rec'[j].att = rec[j].att /\ rec'[j].execute_ns = rec[j].execute_ns
    BY <1>1
  <2>2. ShownUpTo(i)' = ShownUpTo(i) BY <2>1 DEF ShownUpTo, IsShown
  <2>3. \A j \in ShownUpTo(i) : j \in 1..i BY DEF ShownUpTo
  <2>4. Known(i)' = Known(i) BY <2>1, <2>2, <2>3 DEF Known
  <2> QED BY <2>2, <2>4
<1>2. ShownUpTo(n)' = ShownUpTo(n) /\ Known(n)' = Known(n) BY <1>1
<1>3. \A i \in 1..n : Known(i)' = Known(i) BY <1>1
<1>4. \A j \in ShownUpTo(n) : j \in 1..n BY DEF ShownUpTo
<1>5. ASSUME NEW i \in 1..n, NEW a, IsFirst(i, a, n) PROVE IsFirst(i, a, n)'
  BY <1>2, <1>4, <1>5 DEF IsFirst
<1> QED BY <1>2, <1>3, <1>5

(* Steps that consume nothing.                                             *)
LEMMA PrintKept ==
    ASSUME Inv, PrintInv, UNCHANGED <<cons, printed>>,
           \A j \in 1..cons : rec'[j].att = rec[j].att /\ rec'[j].execute_ns = rec[j].execute_ns,
           pc' = "failed" => pc = "failed", pc = "failed" => pc' = "failed",
           sub' \in {"none", "subscribed", "notified"},
           installed' \in BOOLEAN, sigPending' \in BOOLEAN
    PROVE  PrintInv'
<1>1. UNCHANGED <<id_table, next_id, shown>> BY DEF printed
<1>2. PrintOK' BY <1>1 DEF PrintInv, PrintOK
<1>3. SUFFICES ASSUME pc # "failed" PROVE NumberOK' BY <1>2 DEF PrintInv
<1>4. NumberOK BY <1>3 DEF PrintInv
<1>5. PICK n \in Nat : n = cons BY DEF Inv, RingOK
<1>6. cons' = n BY <1>5
<1>7. /\ ShownUpTo(n)' = ShownUpTo(n) /\ Known(n)' = Known(n)
      /\ \A i \in 1..n : Known(i)' = Known(i)
      /\ \A i \in 1..n : \A a : IsFirst(i, a, n) => IsFirst(i, a, n)'
  BY <1>5, HistoryKept
<1>8. /\ IsFiniteSet(Known(n)') /\ Cardinality(Known(n)') = next_id'
      /\ DOMAIN id_table' = Known(n)'
      /\ {shown'[k].no : k \in 1..Len(shown')} = ShownUpTo(n)'
      /\ \A k, m \in 1..Len(shown') : k < m => shown'[k].no < shown'[m].no
  BY <1>1, <1>4, <1>5, <1>7 DEF NumberOK
<1>9. ASSUME NEW a \in DOMAIN id_table'
      PROVE  \E i \in 1..n : IsFirst(i, a, n)' /\ id_table'[a] = Cardinality(Known(i)')
  <2>1. PICK i \in 1..n : IsFirst(i, a, n) /\ id_table[a] = Cardinality(Known(i))
    BY <1>1, <1>4, <1>5, <1>9 DEF NumberOK
  <2> QED BY <1>1, <1>7, <2>1
<1>10. ASSUME NEW k \in 1..Len(shown')
       PROVE  shown'[k].id = IF rec'[shown'[k].no].att = NoAttachment THEN 0
                             ELSE id_table'[rec'[shown'[k].no].att]
  <2>1. shown[k].no \in 1..cons BY <1>1, <1>10 DEF PrintInv, PrintOK
  <2>2. rec'[shown[k].no].att = rec[shown[k].no].att BY <2>1
  <2> QED BY <1>1, <1>4, <1>10, <2>2 DEF NumberOK
<1> QED BY <1>6, <1>8, <1>9, <1>10 DEF NumberOK

(* The sets after one more record.                                         *)
LEMMA OneMore ==
    ASSUME NEW n \in Nat
    PROVE  LET r == rec[n + 1] IN
           /\ IsShown(r) => ShownUpTo(n + 1) = ShownUpTo(n) \cup {n + 1}
           /\ ~IsShown(r) => ShownUpTo(n + 1) = ShownUpTo(n)
           /\ IsShown(r) /\ r.att # NoAttachment => Known(n + 1) = Known(n) \cup {r.att}
           /\ ~IsShown(r) \/ r.att = NoAttachment => Known(n + 1) = Known(n)
           /\ \A i \in 1..n : \A a : IsFirst(i, a, n) => IsFirst(i, a, n + 1)
<1> DEFINE r == rec[n + 1]
<1>1. 1..(n + 1) = (1..n) \cup {n + 1} OBVIOUS
<1>2. /\ IsShown(r) => ShownUpTo(n + 1) = ShownUpTo(n) \cup {n + 1}
      /\ ~IsShown(r) => ShownUpTo(n + 1) = ShownUpTo(n)
  BY <1>1 DEF ShownUpTo, IsShown
<1>3. /\ IsShown(r) /\ r.att # NoAttachment => Known(n + 1) = Known(n) \cup {r.att}
      /\ ~IsShown(r) \/ r.att = NoAttachment => Known(n + 1) = Known(n)
  BY <1>2 DEF Known
<1>4. ASSUME NEW i \in 1..n, NEW a, IsFirst(i, a, n) PROVE IsFirst(i, a, n + 1)
  BY <1>2, <1>4 DEF IsFirst
<1> QED BY <1>2, <1>3, <1>4

(* The loop reads a record: it is printed, with the id of its attachment,  *)
(* or it is below the threshold.                                           *)
LEMMA DrainPrint ==
    ASSUME Inv, PrintInv, DrainOne
    PROVE  PrintInv'
<1>1. /\ pc = "drain" /\ cons < Len(rec) /\ cons' = cons + 1
      /\ UNCHANGED <<rec, pc, sub, installed, sigPending>>
  BY DEF DrainOne, HeadCommitted, Unread, signals
<1>2. PICK n \in Nat : n = cons BY DEF Inv, RingOK
<1>3. cons' = n + 1 BY <1>1, <1>2
<1> DEFINE r == rec[n + 1]
<1>4. NumberOK /\ PrintOK BY <1>1 DEF PrintInv
<1>5. r.att \in Attachments \cup {NoAttachment}
  <2>1. n + 1 \in 1..Len(rec) /\ rec \in Seq(RecordType) BY <1>1, <1>2 DEF Inv, RingOK
  <2> HIDE DEF r
  <2>2. r \in RecordType BY <2>1 DEF r
  <2> QED BY <2>2 DEF RecordType
<1>6. /\ IsShown(r) => ShownUpTo(n + 1) = ShownUpTo(n) \cup {n + 1}
      /\ ~IsShown(r) => ShownUpTo(n + 1) = ShownUpTo(n)
      /\ IsShown(r) /\ r.att # NoAttachment => Known(n + 1) = Known(n) \cup {r.att}
      /\ ~IsShown(r) \/ r.att = NoAttachment => Known(n + 1) = Known(n)
      /\ \A i \in 1..n : \A a : IsFirst(i, a, n) => IsFirst(i, a, n + 1)
  BY OneMore
<1>7. /\ ShownUpTo(n + 1)' = ShownUpTo(n + 1) /\ \A i \in Nat : Known(i)' = Known(i)
      /\ \A i \in Nat : \A a : IsFirst(i, a, n + 1)' <=> IsFirst(i, a, n + 1)
  BY <1>1 DEF ShownUpTo, IsShown, Known, IsFirst
<1>8. /\ IsFiniteSet(Known(n)) /\ Cardinality(Known(n)) = next_id
      /\ DOMAIN id_table = Known(n) /\ next_id \in Nat
      /\ \A a \in DOMAIN id_table : \E i \in 1..n :
            IsFirst(i, a, n) /\ id_table[a] = Cardinality(Known(i))
      /\ {shown[k].no : k \in 1..Len(shown)} = ShownUpTo(n)
      /\ \A k, m \in 1..Len(shown) : k < m => shown[k].no < shown[m].no
      /\ \A k \in 1..Len(shown) :
            shown[k].id = IF rec[shown[k].no].att = NoAttachment THEN 0
                          ELSE id_table[rec[shown[k].no].att]
  BY <1>2, <1>4 DEF NumberOK, PrintOK
<1>9. /\ DOMAIN id_table \subseteq Attachments
      /\ id_table \in [DOMAIN id_table -> 1..next_id]
      /\ shown \in Seq(ShownType)
      /\ \A k \in 1..Len(shown) : shown[k].no \in 1..n /\ shown[k].id \in 0..next_id
  BY <1>2, <1>4 DEF PrintOK
<1>10. ASSUME ~IsShown(r) PROVE PrintInv'
  <2>1. UNCHANGED <<id_table, next_id, shown>> BY <1>2, <1>10 DEF DrainOne, printed
  <2>2. PrintOK'
    <3>1. \A k \in 1..Len(shown) : shown[k].no \in 1..(n + 1) BY <1>9
    <3> QED BY <1>1, <1>3, <1>4, <1>9, <2>1, <3>1 DEF PrintOK
  <2>3. \A a \in DOMAIN id_table : \E i \in 1..(n + 1) :
            IsFirst(i, a, n + 1)' /\ id_table[a] = Cardinality(Known(i)')
    <3>1. \A i \in 1..n : i \in 1..(n + 1) /\ i \in Nat OBVIOUS
    <3> QED BY <1>6, <1>7, <1>8, <3>1
  <2>4. Known(n + 1)' = Known(n) /\ ShownUpTo(n + 1)' = ShownUpTo(n) BY <1>6, <1>7, <1>10
  <2>5. NumberOK' BY <1>1, <1>3, <1>8, <2>1, <2>3, <2>4 DEF NumberOK
  <2> QED BY <2>2, <2>5 DEF PrintInv
<1>11. ASSUME IsShown(r) PROVE PrintInv'
  <2> DEFINE new == r.att # NoAttachment /\ r.att \notin DOMAIN id_table
             id == IF r.att = NoAttachment THEN 0 ELSE id_table'[r.att]
             line == [no |-> n + 1, id |-> id]
  <2>1. /\ new => /\ id_table' = [a \in DOMAIN id_table \cup {r.att} |->
                                     IF a = r.att THEN next_id + 1 ELSE id_table[a]]
                  /\ next_id' = next_id + 1
        /\ ~new => UNCHANGED <<id_table, next_id>>
        /\ shown' = Append(shown, line)
    BY <1>2, <1>11 DEF DrainOne, WriteOut, NeedsId
  <2>2. /\ next_id' \in Nat /\ next_id <= next_id'
        /\ DOMAIN id_table' = Known(n + 1) /\ DOMAIN id_table \subseteq DOMAIN id_table'
        /\ \A a \in DOMAIN id_table : id_table'[a] = id_table[a]
        /\ IsFiniteSet(Known(n + 1)) /\ Cardinality(Known(n + 1)) = next_id'
        /\ new => id_table'[r.att] = next_id'
    <3>1. CASE new
      <4>1. Known(n + 1) = Known(n) \cup {r.att} /\ r.att \notin Known(n)
        BY <1>6, <1>8, <1>11, <3>1
      <4>2. IsFiniteSet(Known(n + 1)) /\ Cardinality(Known(n + 1)) = next_id + 1
        <5> HIDE DEF r
        <5>1. IsFiniteSet(Known(n)) /\ Cardinality(Known(n)) = next_id BY <1>8
        <5>2. /\ IsFiniteSet(Known(n) \cup {r.att})
              /\ Cardinality(Known(n) \cup {r.att}) = Cardinality(Known(n)) + 1
          BY <4>1, <5>1, FS_AddElement
        <5> QED BY <4>1, <5>1, <5>2
      <4>3. id_table' = [a \in DOMAIN id_table \cup {r.att} |->
                            IF a = r.att THEN next_id + 1 ELSE id_table[a]]
        BY <2>1, <3>1
      <4>4. next_id' = next_id + 1 BY <2>1, <3>1
      <4>5. r.att \notin DOMAIN id_table BY <3>1
      <4> HIDE DEF r
      <4>6. /\ DOMAIN id_table' = DOMAIN id_table \cup {r.att} /\ id_table'[r.att] = next_id + 1
            /\ \A a \in DOMAIN id_table : id_table'[a] = id_table[a]
        BY <4>3, <4>5
      <4> QED BY <1>8, <4>1, <4>2, <4>4, <4>6
    <3>2. CASE ~new
      <4>1. Known(n + 1) = Known(n) BY <1>6, <1>8, <1>11, <3>2
      <4> QED BY <1>8, <2>1, <3>2, <4>1
    <3> QED BY <3>1, <3>2
  <2>3. /\ DOMAIN id_table' \subseteq Attachments
        /\ id_table' \in [DOMAIN id_table' -> 1..next_id']
    <3>1. CASE new
      <4>1. r.att \in Attachments BY <1>5, <3>1
      <4> HIDE DEF r
      <4> QED BY <1>8, <1>9, <2>1, <3>1, <4>1
    <3>2. CASE ~new BY <1>9, <2>1, <3>2
    <3> QED BY <3>1, <3>2
  <2>4. id \in 0..next_id' /\ (r.att # NoAttachment => r.att \in DOMAIN id_table')
    <3>1. r.att # NoAttachment => r.att \in DOMAIN id_table' BY <1>6, <1>11, <2>2
    <3>2. r.att # NoAttachment => id_table'[r.att] \in 1..next_id' BY <2>3, <3>1
    <3> QED BY <2>2, <3>1, <3>2
  <2>5. line \in ShownType /\ line.no = n + 1 /\ line.id = id BY <2>2, <2>4 DEF ShownType
  <2> HIDE DEF line, id, new
  <2>6. /\ shown' \in Seq(ShownType) /\ Len(shown') = Len(shown) + 1 /\ Len(shown) \in Nat
        /\ \A k \in 1..Len(shown) : shown'[k] = shown[k]
        /\ shown'[Len(shown) + 1] = line
    BY <1>9, <2>1, <2>5
  <2>7. \A k \in 1..Len(shown') : shown'[k].no \in 1..(n + 1) /\ shown'[k].id \in 0..next_id'
    <3>1. ASSUME NEW k \in 1..Len(shown')
          PROVE  shown'[k].no \in 1..(n + 1) /\ shown'[k].id \in 0..next_id'
      <4>1. CASE k = Len(shown) + 1 BY <2>4, <2>5, <2>6, <4>1
      <4>2. CASE k # Len(shown) + 1
        <5>1. k \in 1..Len(shown) /\ shown'[k] = shown[k] BY <2>6, <3>1, <4>2
        <5>2. shown[k].no \in 1..n /\ shown[k].id \in 0..next_id BY <1>9, <5>1
        <5> QED BY <1>8, <2>2, <5>1, <5>2
      <4> QED BY <4>1, <4>2
    <3> QED BY <3>1
  <2>8. PrintOK' BY <1>1, <1>3, <1>4, <2>2, <2>3, <2>6, <2>7 DEF PrintOK
  <2>9. ASSUME NEW a \in DOMAIN id_table'
        PROVE  \E i \in 1..(n + 1) : IsFirst(i, a, n + 1)' /\ id_table'[a] = Cardinality(Known(i)')
    <3>1. CASE a \in DOMAIN id_table
      <4>1. PICK i \in 1..n : IsFirst(i, a, n) /\ id_table[a] = Cardinality(Known(i))
        BY <1>8, <3>1
      <4>2. i \in 1..(n + 1) /\ i \in Nat OBVIOUS
      <4> QED BY <1>6, <1>7, <2>2, <3>1, <4>1, <4>2
    <3>2. CASE a \notin DOMAIN id_table
      <4>1. new /\ a = r.att BY <1>6, <1>8, <1>11, <2>1, <2>2, <2>9, <3>2 DEF new
      <4>2. \A j \in ShownUpTo(n) : rec[j].att # a
        <5>1. \A j \in ShownUpTo(n) : rec[j].att # NoAttachment => rec[j].att \in Known(n)
          BY DEF Known
        <5>2. a # NoAttachment BY <4>1 DEF new
        <5> QED BY <1>8, <3>2, <5>1, <5>2
      <4>3. IsFirst(n + 1, a, n + 1) BY <1>6, <1>11, <4>1, <4>2 DEF IsFirst
      <4>4. id_table'[a] = Cardinality(Known(n + 1)) BY <2>2, <4>1
      <4>5. n + 1 \in 1..(n + 1) /\ n + 1 \in Nat OBVIOUS
      <4> QED BY <1>7, <4>3, <4>4, <4>5
    <3> QED BY <3>1, <3>2
  <2>10. {shown'[k].no : k \in 1..Len(shown')} = ShownUpTo(n + 1)
    <3>1. ShownUpTo(n + 1) = ShownUpTo(n) \cup {n + 1} BY <1>6, <1>11
    <3>2. 1..Len(shown') = (1..Len(shown)) \cup {Len(shown) + 1} BY <2>6
    <3>3. {shown'[k].no : k \in 1..Len(shown')} =
              {shown'[k].no : k \in 1..Len(shown)} \cup {shown'[Len(shown) + 1].no}
      BY <3>2
    <3>4. {shown'[k].no : k \in 1..Len(shown)} = {shown[k].no : k \in 1..Len(shown)} BY <2>6
    <3> QED BY <1>8, <2>5, <2>6, <3>1, <3>3, <3>4
  <2>11. \A k, m \in 1..Len(shown') : k < m => shown'[k].no < shown'[m].no
    <3>1. ASSUME NEW k \in 1..Len(shown'), NEW m \in 1..Len(shown'), k < m
          PROVE  shown'[k].no < shown'[m].no
      <4>1. k \in 1..Len(shown) /\ shown'[k] = shown[k] /\ shown[k].no \in 1..n
        BY <1>9, <2>6, <3>1
      <4>2. CASE m = Len(shown) + 1 BY <2>5, <2>6, <4>1, <4>2
      <4>3. CASE m # Len(shown) + 1
        <5>1. m \in 1..Len(shown) /\ shown'[m] = shown[m] BY <2>6, <3>1, <4>3
        <5> QED BY <1>8, <3>1, <4>1, <5>1
      <4> QED BY <4>2, <4>3
    <3> QED BY <3>1
  <2>12. ASSUME NEW k \in 1..Len(shown')
         PROVE  shown'[k].id = IF rec'[shown'[k].no].att = NoAttachment THEN 0
                               ELSE id_table'[rec'[shown'[k].no].att]
    <3>1. CASE k = Len(shown) + 1 BY <1>1, <2>5, <2>6, <3>1 DEF id
    <3>2. CASE k # Len(shown) + 1
      <4>1. k \in 1..Len(shown) /\ shown'[k] = shown[k] BY <2>6, <2>12, <3>2
      <4>2. shown[k].no \in ShownUpTo(n) BY <1>8, <4>1
      <4>3. rec[shown[k].no].att # NoAttachment => rec[shown[k].no].att \in Known(n)
        BY <4>2 DEF Known
      <4> QED BY <1>1, <1>8, <2>2, <4>1, <4>3
    <3> QED BY <3>1, <3>2
  <2>13. Known(n + 1)' = Known(n + 1) /\ ShownUpTo(n + 1)' = ShownUpTo(n + 1) BY <1>7
  <2>14. NumberOK' BY <1>3, <2>2, <2>9, <2>10, <2>11, <2>12, <2>13 DEF NumberOK
  <2> QED BY <2>8, <2>14 DEF PrintInv
<1> QED BY <1>10, <1>11

(* A failed write ends the loop; nothing is printed after it.              *)
LEMMA FailedPrint ==
    ASSUME Inv, PrintInv, StdoutFails
    PROVE  PrintInv'
<1>1. /\ pc' = "failed" /\ cons' = cons + 1 /\ cons \in Nat
      /\ UNCHANGED <<sub, installed, sigPending, id_table, next_id, shown>>
  BY DEF StdoutFails, signals, printed, Inv, RingOK
<1>2. \A k \in 1..Len(shown) : shown[k].no \in 1..(cons + 1)
  BY <1>1 DEF PrintInv, PrintOK
<1>3. PrintOK' BY <1>1, <1>2 DEF PrintInv, PrintOK
<1> QED BY <1>1, <1>3 DEF PrintInv

(* Nothing is printed at first.                                            *)
LEMMA InitPrint ==
    ASSUME Init
    PROVE  PrintInv
<1>1. /\ cons = 0 /\ shown = <<>> /\ Len(shown) = 0 /\ next_id = 0 /\ DOMAIN id_table = {}
      /\ id_table \in [{} -> 1..next_id]
  BY DEF Init
<1>2. ShownUpTo(cons) = {} /\ Known(cons) = {} BY <1>1 DEF ShownUpTo, Known
<1>3. IsFiniteSet({}) /\ Cardinality({}) = 0 BY FS_EmptySet
<1>4. PrintOK
  <2>1. installed \in BOOLEAN /\ sigPending \in BOOLEAN BY DEF Init
  <2>2. shown \in Seq(ShownType) /\ 1..Len(shown) = {} BY <1>1
  <2>3. id_table \in [DOMAIN id_table -> 1..next_id] BY <1>1
  <2> QED BY <1>1, <2>1, <2>2, <2>3 DEF Init, PrintOK
<1>5. {shown[k].no : k \in 1..Len(shown)} = {} BY <1>1
<1>6. NumberOK BY <1>1, <1>2, <1>3, <1>5 DEF NumberOK
<1> QED BY <1>4, <1>6 DEF PrintInv

(* The invariant of the output is inductive.                               *)
LEMMA StepPrint ==
    ASSUME Inv, PrintInv, [Next]_vars
    PROVE  PrintInv'
<1>1. /\ sub \in {"none", "subscribed", "notified"} /\ installed \in BOOLEAN
      /\ sigPending \in BOOLEAN
  BY DEF PrintInv, PrintOK
<1>2. ASSUME NEW a \in Attachments \cup {NoAttachment}, NEW d \in Durations, Reserve(a, d)
      PROVE  PrintInv'
  <2> DEFINE r == [busy |-> TRUE, att |-> a, execute_ns |-> d]
  <2>1. /\ rec' = Append(rec, r)
        /\ UNCHANGED <<cons, pc, signals, printed>> /\ pc # "failed"
    BY <1>2 DEF Reserve, Running
  <2> HIDE DEF r
  <2>2. \A j \in 1..cons : rec'[j] = rec[j] BY <2>1 DEF Inv, RingOK
  <2> QED BY <1>1, <2>1, <2>2, PrintKept DEF signals
<1>3. ASSUME NEW i \in 1..Len(rec), Commit(i) PROVE PrintInv'
  <2> DEFINE r == [rec[i] EXCEPT !.busy = FALSE]
  <2>1. rec' = [rec EXCEPT ![i] = r] /\ UNCHANGED <<cons, pc, signals, printed>>
    BY <1>3 DEF Commit
  <2>2. rec \in Seq(RecordType) /\ cons \in Nat /\ cons <= Len(rec) BY DEF Inv, RingOK
  <2>3. ASSUME NEW j \in 1..cons
        PROVE  rec'[j].att = rec[j].att /\ rec'[j].execute_ns = rec[j].execute_ns
    <3>1. j \in 1..Len(rec) /\ Len(rec) \in Nat BY <2>2
    <3>2. rec[i] \in RecordType BY <2>2
    <3>3. r.att = rec[i].att /\ r.execute_ns = rec[i].execute_ns BY <3>2 DEF RecordType
    <3> HIDE DEF r
    <3>4. rec'[j] = IF j = i THEN r ELSE rec[j] BY <2>1, <2>2, <3>1
    <3> QED BY <3>3, <3>4
  <2> HIDE DEF r
  <2> QED BY <1>1, <2>1, <2>3, PrintKept DEF signals
<1>4. CASE \/ EpollWait \/ PressCtrlC \/ Broadcast \/ Register \/ SelectSubscribe
           \/ SelectStop \/ SelectRead \/ DrainEnd \/ ClearReady \/ Done \/ UNCHANGED vars
           \/ \E i \in 1..Len(rec) : CheckNotify(i)
  <2>1. /\ UNCHANGED <<cons, printed, rec>>
        /\ pc' = "failed" => pc = "failed"
        /\ pc = "failed" => pc' = "failed"
        /\ sub' \in {"none", "subscribed", "notified"}
        /\ installed' \in BOOLEAN /\ sigPending' \in BOOLEAN
    BY <1>1, <1>4 DEF EpollWait, PressCtrlC, Broadcast, Register, SelectSubscribe, SelectStop,
       SelectRead, DrainEnd, ClearReady, Done, CheckNotify, vars, ring, tokio, signals, Running
  <2>2. \A j \in 1..cons : rec'[j].att = rec[j].att /\ rec'[j].execute_ns = rec[j].execute_ns
    BY <2>1
  <2> QED BY <2>1, <2>2, PrintKept
<1>5. CASE DrainOne BY <1>5, DrainPrint
<1>6. CASE StdoutFails BY <1>6, FailedPrint
<1> QED BY <1>2, <1>3, <1>4, <1>5, <1>6 DEF Next, Loop

(* So both always hold.                                                    *)
LEMMA AlwaysPrintInv == Spec => [](Inv /\ PrintInv)
<1>1. Init => PrintInv BY InitPrint
<1>2. Inv /\ PrintInv /\ [Next]_vars => PrintInv' BY StepPrint
<1> QED BY <1>1, <1>2, InitInv, StepInv, PTL DEF Spec

(* The variables of the loop keep their types: no id beyond next_id, no    *)
(* line for a record not consumed.                                         *)
THEOREM LoopTypeCorrect == Spec => []TypeOK
<1>1. Inv /\ PrintInv => TypeOK
  <2> SUFFICES ASSUME Inv, PrintInv PROVE TypeOK OBVIOUS
  <2> DEFINE T == [no : 1..cons, id : 0..next_id]
  <2>1. ASSUME NEW k \in 1..Len(shown) PROVE shown[k] \in T
    <3>1. shown[k] \in ShownType BY <2>1 DEF PrintInv, PrintOK
    <3>2. shown[k].no \in 1..cons /\ shown[k].id \in 0..next_id
      BY <2>1 DEF PrintInv, PrintOK
    <3> QED BY <3>1, <3>2 DEF ShownType
  <2>2. shown \in Seq(ShownType) BY DEF PrintInv, PrintOK
  <2> HIDE DEF T
  <2>3. shown \in [1..Len(shown) -> T] /\ Len(shown) \in Nat BY <2>1, <2>2
  <2>4. shown \in Seq(T) BY <2>3, SeqDef
  <2> QED BY <2>4 DEF T, TypeOK, Inv, RingOK, PrintInv, PrintOK
<1> QED BY <1>1, AlwaysPrintInv, PTL

(* The output of run_event_loop is the consumed records that pass the      *)
(* threshold, once each and in the order of the ring, and the small ids    *)
(* number the attachments in the order in which they first show up.        *)
THEOREM OutputIsExact == Spec => []OutputIsFilteredPrefix
<1>1. Inv /\ PrintInv => OutputIsFilteredPrefix
  <2> SUFFICES ASSUME Inv, PrintInv, pc # "failed" PROVE OutputIsFilteredPrefix
    BY DEF OutputIsFilteredPrefix
  <2>1. NumberOK BY DEF PrintInv
  <2>2. ASSUME NEW a \in DOMAIN id_table PROVE id_table[a] = IdOf(a, cons)
    <3>1. PICK i \in 1..cons : IsFirst(i, a, cons) /\ id_table[a] = Cardinality(Known(i))
      BY <2>1, <2>2 DEF NumberOK
    <3>2. \A j \in ShownUpTo(cons) : j \in Nat BY DEF ShownUpTo
    <3>3. FirstOf(a, cons) = i
      <4> DEFINE First(j) == rec[j].att = a /\
                             \A m \in ShownUpTo(cons) : rec[m].att = a => j <= m
      <4>1. i \in ShownUpTo(cons) /\ First(i) BY <3>1 DEF IsFirst
      <4>2. \A j \in ShownUpTo(cons) : First(j) => j = i
        BY <3>2, <4>1
      <4>3. FirstOf(a, cons) = CHOOSE j \in ShownUpTo(cons) : First(j) BY DEF FirstOf
      <4> HIDE DEF First
      <4> QED BY <4>1, <4>2, <4>3
    <3>4. {j \in ShownUpTo(cons) : j <= i /\ rec[j].att # NoAttachment} =
              {j \in ShownUpTo(i) : rec[j].att # NoAttachment}
      BY DEF ShownUpTo, Inv, RingOK
    <3> QED BY <3>1, <3>3, <3>4 DEF IdOf, Known
  <2>3. ASSUME NEW k \in 1..Len(shown)
        PROVE  shown[k].id = IF rec[shown[k].no].att = NoAttachment THEN 0
                             ELSE IdOf(rec[shown[k].no].att, cons)
    <3>1. shown[k].no \in ShownUpTo(cons) BY <2>1, <2>3 DEF NumberOK
    <3>2. rec[shown[k].no].att # NoAttachment => rec[shown[k].no].att \in DOMAIN id_table
      BY <2>1, <3>1 DEF NumberOK, Known
    <3> QED BY <2>1, <2>2, <2>3, <3>2 DEF NumberOK
  <2> QED BY <2>1, <2>3 DEF OutputIsFilteredPrefix, NumberOK
<1> QED BY <1>1, AlwaysPrintInv, PTL
=============================================================================
