------------------------- MODULE PageIoFlushProofs --------------------------
(***************************************************************************)
(* TLAPS proofs about the flush of PageIo, for any number of CPUs and any  *)
(* word size: although COUNTERS is copied word by word while it is being   *)
(* updated, and its words wrap, delta_counters reports every update once,  *)
(* and a maximum is never shown short.                                     *)
(***************************************************************************)
EXTENDS PageIoProofs

-----------------------------------------------------------------------------
(* The inductive invariant.                                                *)

HistoryOK ==
    /\ {truth, atStart, reported} \subseteq [Fields -> Nat]
    /\ {longest, ofWindow} \subseteq [MaxFields -> Nat]
    /\ \A f \in MaxFields : longest[f] <= truth[f] /\ ofWindow[f] <= atStart[f]

(* As long as no two probes overlapped on a CPU, what a probe has loaded   *)
(* is still what the word holds.                                           *)
Alone ==
    ~preempted =>
        /\ \A t, u \in DOMAIN probe : probe[t].cpu = probe[u].cpu => t = u
        /\ \A t \in DOMAIN probe : probe[t].reg # -1 =>
              probe[t].reg = COUNTERS[probe[t].cpu][Layout[probe[t].word]]

(* The number of CPUs whose word i the flush has copied.                   *)
Copied(i) == (pos + 6 - i) \div 7

(* P[c]: what CPUs 1..c have added to f; each word is its part, wrapped.   *)
Shares(P, f) ==
    /\ P[0] = 0 /\ P[NCpu] = truth[f]
    /\ \A c \in Cpus : P[c - 1] <= P[c] /\ COUNTERS[c][f] = (P[c] - P[c - 1]) % WORD

(* S: the unwrapped sum of the words copied so far.  What it lacks was     *)
(* added to those CPUs since they were copied, so after the flush began,   *)
(* or is on CPUs not copied yet.                                           *)
Summed(P, S, i) ==
    LET f == Layout[i] IN
    /\ snapshot[f] = S % WORD
    /\ pos = 0 => S = 0
    /\ pos # 0 => /\ S <= P[Copied(i)]
                  /\ atStart[f] + P[Copied(i)] <= S + truth[f]
                  /\ reported[f] <= atStart[f]

(* A sum: the windows reported so far add up to the previous snapshot.     *)
SumOK(i) ==
    LET f == Layout[i] IN
    /\ prev_snapshot[f] = reported[f] % WORD
    /\ reported[f] <= truth[f] /\ truth[f] - reported[f] < WORD
    /\ \E P \in [0..NCpu -> Nat] : \E S \in Nat : Shares(P, f) /\ Summed(P, S, i)

(* A maximum: some CPU holds it, and until the flush has copied a word as  *)
(* large as the maximum it began with, one remains to be copied.           *)
MaxOK(i) ==
    LET f == Layout[i] IN
    /\ \A c \in Cpus : COUNTERS[c][f] <= truth[f]
    /\ \E c \in Cpus : COUNTERS[c][f] = truth[f]
    /\ pos = 0 => snapshot[f] = 0
    /\ snapshot[f] <= truth[f]
    /\ pos # 0 => \/ atStart[f] <= snapshot[f]
                  \/ \E c \in Cpus : c > Copied(i) /\ COUNTERS[c][f] >= atStart[f]

CountedOK(i) == IF i \in {3, 7} THEN MaxOK(i) ELSE SumOK(i)

FlushInv ==
    /\ HistoryOK
    /\ Alone
    /\ \A i \in 1..7 : Layout[i] \in Trusted => CountedOK(i)

-----------------------------------------------------------------------------
(* Remainders.                                                             *)

(* Division with remainder.                                                *)
LEMMA ModFacts ==
    ASSUME NEW a \in Int, NEW W \in Nat, W > 0
    PROVE  a % W \in 0..(W - 1) /\ \E q \in Int : a = q * W + (a % W)
OBVIOUS

(* The remainder is unique.                                                *)
LEMMA ModUnique ==
    ASSUME NEW W \in Nat, W > 0, NEW q \in Int, NEW r \in 0..(W - 1), NEW a \in Int,
           a = q * W + r
    PROVE  a % W = r
<1>1. PICK p \in Int : a = p * W + (a % W) BY ModFacts
<1>2. a % W \in 0..(W - 1) BY ModFacts
<1> DEFINE m == a % W
<1>3. (q - p) * W = m - r
  <2>1. (q - p) * W = q * W - p * W OBVIOUS
  <2>2. q * W \in Int /\ p * W \in Int OBVIOUS
  <2> HIDE DEF m
  <2> QED BY <1>1, <1>2, <2>1, <2>2 DEF m
<1>4. q - p \in Int /\ (q - p >= 1 => (q - p) * W >= W) /\ (q - p <= -1 => (q - p) * W <= -W)
  OBVIOUS
<1> HIDE DEF m
<1>5. m \in 0..(W - 1) BY <1>2 DEF m
<1>6. q - p = 0 BY <1>3, <1>4, <1>5
<1>7. (q - p) * W = 0 BY <1>6
<1>8. m = r BY <1>3, <1>5, <1>7
<1> QED BY <1>8 DEF m

(* A wrapped number may be added to as if it were not wrapped.             *)
LEMMA ModAdd ==
    ASSUME NEW W \in Nat, W > 0, NEW a \in Int, NEW b \in Int
    PROVE  ((a % W) + b) % W = (a + b) % W
<1>1. PICK p \in Int : a = p * W + (a % W) BY ModFacts
<1>2. PICK q \in Int : a + b = q * W + ((a + b) % W) BY ModFacts
<1>3. a % W \in Int /\ (a + b) % W \in 0..(W - 1) BY ModFacts
<1>4. (a % W) + b = (q - p) * W + ((a + b) % W)
  <2>1. (q - p) * W = q * W - p * W /\ q * W \in Int /\ p * W \in Int OBVIOUS
  <2> QED BY <1>1, <1>2, <1>3, <2>1
<1> QED BY <1>3, <1>4, ModUnique

(* wrapping_sub of two wrapped numbers less than W apart is their          *)
(* difference.                                                             *)
LEMMA ModDelta ==
    ASSUME NEW W \in Nat, W > 0, NEW a \in Int, NEW b \in Int, b - a \in 0..(W - 1)
    PROVE  ((b % W) - (a % W)) % W = b - a
<1>1. PICK p \in Int : a = p * W + (a % W) BY ModFacts
<1>2. PICK q \in Int : b = q * W + (b % W) BY ModFacts
<1>3. a % W \in Int /\ b % W \in Int BY ModFacts
<1>4. (b % W) - (a % W) = (p - q) * W + (b - a)
  <2>1. (p - q) * W = p * W - q * W /\ q * W \in Int /\ p * W \in Int OBVIOUS
  <2> QED BY <1>1, <1>2, <1>3, <2>1
<1> QED BY <1>3, <1>4, ModUnique

-----------------------------------------------------------------------------
(* One word.                                                               *)

(* The numbers of the model.                                               *)
LEMMA Bounds ==
    /\ WORD \in Nat /\ WORD > 0 /\ NCpu \in Nat /\ NCpu > 0 /\ Words = 7
    /\ MaxClock \in Nat /\ MaxClock < WORD
BY PageIoAssumption, LayoutFacts

(* How far the flush is with word i.                                       *)
LEMMA CopiedFacts ==
    ASSUME NEW i \in 1..7, Inv
    PROVE  /\ Copied(i) \in Int
           /\ pos # 0 => Copied(i) \in 0..NCpu
           /\ pos = 1 => Copied(i) = 0
           /\ pos = 7 * NCpu + 1 => Copied(i) = NCpu
BY Bounds DEF Copied, Inv, TypeOK

(* The next word is word k of CPU d.                                       *)
LEMMA CopiedNext ==
    ASSUME NEW i \in 1..7, NEW k \in 1..7, NEW d \in Cpus, pos = 7 * (d - 1) + k,
           pos' = pos + 1
    PROVE  /\ Copied(k) = d - 1 /\ Copied(k)' = d
           /\ i # k => Copied(i)' = Copied(i)
BY Bounds DEF Copied, Cpus

(* A word nobody touches stays as it is.                                   *)
LEMMA CountedKept ==
    ASSUME NEW i \in 1..7, CountedOK(i), UNCHANGED flushing,
           \A c \in Cpus : COUNTERS'[c][Layout[i]] = COUNTERS[c][Layout[i]],
           truth'[Layout[i]] = truth[Layout[i]]
    PROVE  CountedOK(i)'
<1> DEFINE f == Layout[i]
<1>1. UNCHANGED <<pos, snapshot, prev_snapshot, windows, atStart, reported>> BY DEF flushing
<1>2. Copied(i)' = Copied(i) BY <1>1 DEF Copied
<1>3. CASE i \in {3, 7}
  <2>1. MaxOK(i) BY <1>3 DEF CountedOK
  <2>2. MaxOK(i)' BY <1>1, <1>2, <2>1 DEF MaxOK
  <2> QED BY <1>3, <2>2 DEF CountedOK
<1>4. CASE i \notin {3, 7}
  <2>1. SumOK(i) BY <1>4 DEF CountedOK
  <2>2. PICK P \in [0..NCpu -> Nat], S \in Nat : Shares(P, f) /\ Summed(P, S, i)
    BY <2>1 DEF SumOK
  <2>3. Shares(P, f)' BY <2>2 DEF Shares
  <2>4. Summed(P, S, i)' BY <1>1, <1>2, <2>2 DEF Summed
  <2>5. /\ prev_snapshot'[f] = reported'[f] % WORD
        /\ reported'[f] <= truth'[f] /\ truth'[f] - reported'[f] < WORD
    BY <1>1, <2>1 DEF SumOK
  <2>6. SumOK(i)' BY <2>3, <2>4, <2>5 DEF SumOK
  <2> QED BY <1>4, <2>6 DEF CountedOK
<1> QED BY <1>3, <1>4

(* A program adds x to word k of CPU c: word i stays accounted for, if it  *)
(* is another one or the program stores what it found there, updated.      *)
LEMMA CountedUpdated ==
    ASSUME Inv, HistoryOK, NEW i \in 1..7, NEW k \in 1..7, NEW c \in Cpus, NEW x \in Nat,
           NEW old, StoreWord(c, Layout[k], old, x), Account(Layout[k], x), UNCHANGED flushing,
           CountedOK(i), i = k => old = COUNTERS[c][Layout[k]]
    PROVE  CountedOK(i)'
<1> DEFINE f == Layout[k]
<1>1. /\ COUNTERS \in [Cpus -> [Fields -> 0..(WORD - 1)]] /\ truth \in [Fields -> Nat]
      /\ reported \in [Fields -> Nat] /\ atStart \in [Fields -> Nat]
      /\ snapshot \in [Fields -> 0..(WORD - 1)]
      /\ f \in Fields /\ Layout[i] \in Fields /\ (f \in MaxFields <=> k \in {3, 7})
  BY LayoutFacts DEF Inv, TypeOK, HistoryOK
<1>2. UNCHANGED <<pos, snapshot, prev_snapshot, windows, atStart, reported>> BY DEF flushing
<1>3. Copied(i)' = Copied(i) BY <1>2 DEF Copied
<1>4. CASE i # k
  <2>1. Layout[i] # f BY <1>4, LayoutFacts
  <2>2. \A d \in Cpus : COUNTERS'[d][Layout[i]] = COUNTERS[d][Layout[i]]
    BY <1>1, <2>1 DEF StoreWord
  <2>3. truth'[Layout[i]] = truth[Layout[i]] BY <1>1, <2>1 DEF Account
  <2> QED BY <2>2, <2>3, CountedKept
<1>5. ASSUME i = k, k \in {3, 7} PROVE CountedOK(i)'
  <2>1. MaxOK(i) BY <1>5 DEF CountedOK
  <2>2. \A d \in Cpus : COUNTERS[d][f] \in Nat BY <1>1, Bounds
  <2>3. /\ \A d \in Cpus : d # c => COUNTERS'[d][f] = COUNTERS[d][f]
        /\ COUNTERS'[c][f] = MaxOf(COUNTERS[c][f], x)
    BY <1>1, <1>5, <2>2 DEF StoreWord, Updated, MaxOf
  <2>4. truth'[f] = MaxOf(truth[f], x) /\ truth[f] \in Nat BY <1>1, <1>5 DEF Account
  <2>5. /\ \A d \in Cpus : COUNTERS[d][f] <= truth[f] /\ COUNTERS[d][f] \in Nat
        /\ snapshot[f] <= truth[f] /\ snapshot[f] \in Nat /\ atStart[f] \in Nat
    BY <1>1, <1>5, <2>1, <2>2, Bounds DEF MaxOK
  <2>6. \A d \in Cpus : COUNTERS'[d][f] <= truth'[f] /\ COUNTERS'[d][f] >= COUNTERS[d][f]
    BY <2>3, <2>4, <2>5 DEF MaxOf
  <2>7. \E d \in Cpus : COUNTERS'[d][f] = truth'[f]
    <3>1. PICK d \in Cpus : COUNTERS[d][f] = truth[f] BY <1>5, <2>1 DEF MaxOK
    <3>2. CASE x >= truth[f]
      <4>1. COUNTERS'[c][f] = truth'[f] BY <2>3, <2>4, <2>5, <3>2 DEF MaxOf
      <4> QED BY <4>1
    <3>3. CASE x < truth[f]
      <4>1. COUNTERS'[d][f] = truth'[f] BY <2>3, <2>4, <2>5, <3>1, <3>3 DEF MaxOf
      <4> QED BY <4>1
    <3> QED BY <2>4, <3>2, <3>3
  <2>8. snapshot'[f] <= truth'[f] BY <1>2, <2>4, <2>5 DEF MaxOf
  <2>9. \A d \in Cpus : COUNTERS[d][f] >= atStart[f] => COUNTERS'[d][f] >= atStart[f]
    BY <2>3, <2>5 DEF MaxOf
  <2>10. pos # 0 => \/ atStart[f] <= snapshot[f]
                    \/ \E d \in Cpus : d > Copied(i) /\ COUNTERS'[d][f] >= atStart[f]
    BY <1>5, <2>1, <2>9 DEF MaxOK
  <2>11. pos = 0 => snapshot[f] = 0 BY <1>5, <2>1 DEF MaxOK
  <2>12. MaxOK(i)' BY <1>2, <1>3, <1>5, <2>6, <2>7, <2>8, <2>10, <2>11 DEF MaxOK
  <2> QED BY <1>5, <2>12 DEF CountedOK
<1>6. ASSUME i = k, k \notin {3, 7} PROVE CountedOK(i)'
  <2>1. SumOK(i) BY <1>6 DEF CountedOK
  <2>2. PICK P \in [0..NCpu -> Nat], S \in Nat : Shares(P, f) /\ Summed(P, S, i)
    BY <1>6, <2>1 DEF SumOK
  <2> DEFINE Q == [j \in 0..NCpu |-> IF j >= c THEN P[j] + x ELSE P[j]]
  <2>3. c \in 1..NCpu /\ NCpu \in Nat BY Bounds DEF Cpus
  <2>4. /\ Q \in [0..NCpu -> Nat]
        /\ \A j \in 0..NCpu : Q[j] = IF j >= c THEN P[j] + x ELSE P[j]
    OBVIOUS
  <2> HIDE DEF Q
  <2>5. truth'[f] = truth[f] + x /\ truth[f] + x - reported[f] < WORD
    BY <1>1, <1>6 DEF Account
  <2>6. /\ \A d \in Cpus : d # c => COUNTERS'[d][f] = COUNTERS[d][f]
        /\ COUNTERS'[c][f] = (COUNTERS[c][f] + x) % WORD
    BY <1>1, <1>6 DEF StoreWord, Updated
  <2>7. \A d \in Cpus : /\ d \in 0..NCpu /\ d - 1 \in 0..NCpu /\ P[d] \in Nat /\ P[d - 1] \in Nat
                        /\ P[d - 1] <= P[d] /\ COUNTERS[d][f] = (P[d] - P[d - 1]) % WORD
    <3>1. \A d \in Cpus : d \in 0..NCpu /\ d - 1 \in 0..NCpu BY <2>3 DEF Cpus
    <3>2. \A d \in Cpus : P[d] \in Nat /\ P[d - 1] \in Nat BY <3>1
    <3>3. \A d \in Cpus : P[d - 1] <= P[d] /\ COUNTERS[d][f] = (P[d] - P[d - 1]) % WORD
      BY <2>2 DEF Shares
    <3> QED BY <3>1, <3>2, <3>3
  <2>8. Shares(Q, f)'
    <3>1. Q[0] = 0 /\ Q[NCpu] = truth'[f] BY <2>2, <2>3, <2>4, <2>5 DEF Shares
    <3>2. ASSUME NEW d \in Cpus
          PROVE  Q[d - 1] <= Q[d] /\ COUNTERS'[d][f] = (Q[d] - Q[d - 1]) % WORD
      <4>0. d \in 1..NCpu /\ d \in 0..NCpu /\ d - 1 \in 0..NCpu BY <2>3 DEF Cpus
      <4>1. CASE d = c
        <5>1. Q[d] = P[d] + x /\ Q[d - 1] = P[d - 1] BY <2>3, <2>4, <4>0, <4>1
        <5> DEFINE part == P[d] - P[d - 1]
        <5>2. part \in Int /\ Q[d] - Q[d - 1] = part + x BY <2>7, <5>1
        <5>3. COUNTERS'[d][f] = ((part % WORD) + x) % WORD BY <2>6, <2>7, <4>1
        <5> HIDE DEF part
        <5>4. ((part % WORD) + x) % WORD = (part + x) % WORD
          <6>1. WORD \in Nat /\ WORD > 0 /\ part \in Int /\ x \in Int BY <5>2, Bounds
          <6> QED BY <6>1, ModAdd, Zenon
        <5>5. COUNTERS'[d][f] = (Q[d] - Q[d - 1]) % WORD BY <5>2, <5>3, <5>4, Zenon
        <5>6. Q[d - 1] <= Q[d] BY <2>7, <5>1
        <5> QED BY <5>5, <5>6
      <4>2. CASE d < c
        <5>1. Q[d] = P[d] /\ Q[d - 1] = P[d - 1] BY <2>3, <2>4, <4>0, <4>2
        <5> QED BY <2>3, <2>6, <2>7, <4>2, <5>1
      <4>3. CASE d > c
        <5>1. Q[d] = P[d] + x /\ Q[d - 1] = P[d - 1] + x BY <2>3, <2>4, <4>0, <4>3
        <5>2. Q[d] - Q[d - 1] = P[d] - P[d - 1] /\ Q[d - 1] <= Q[d] BY <2>7, <5>1
        <5> QED BY <2>3, <2>6, <2>7, <4>3, <5>2
      <4> QED BY <2>3, <4>1, <4>2, <4>3 DEF Cpus
    <3> QED BY <3>1, <3>2 DEF Shares
  <2>9. Summed(Q, S, i)'
    <3>1. CASE pos = 0 BY <1>2, <1>6, <2>2, <3>1 DEF Summed
    <3>2. CASE pos # 0
      <4>1. Copied(i) \in 0..NCpu BY <3>2, CopiedFacts
      <4>2. /\ S <= P[Copied(i)] /\ atStart[f] + P[Copied(i)] <= S + truth[f]
            /\ reported[f] <= atStart[f] /\ snapshot[f] = S % WORD
        BY <1>6, <2>2, <3>2 DEF Summed
      <4>3. P[Copied(i)] \in Nat /\ truth[f] \in Nat /\ atStart[f] \in Nat BY <1>1, <4>1
      <4>4. Q[Copied(i)] = P[Copied(i)] \/ Q[Copied(i)] = P[Copied(i)] + x BY <2>4, <4>1
      <4>5. S <= Q[Copied(i)] /\ atStart[f] + Q[Copied(i)] <= S + truth'[f]
        <5> DEFINE p == P[Copied(i)]
                   q == Q[Copied(i)]
                   a == atStart[f]
                   u == truth[f]
        <5>1. /\ p \in Nat /\ a \in Nat /\ u \in Nat /\ S <= p /\ a + p <= S + u
              /\ (q = p \/ q = p + x) /\ truth'[f] = u + x
          BY <2>5, <4>2, <4>3, <4>4
        <5> HIDE DEF p, q, a, u
        <5>2. S <= q /\ a + q <= S + (u + x) BY <5>1
        <5> QED BY <5>1, <5>2 DEF p, q, a, u
      <4> QED BY <1>2, <1>3, <1>6, <3>2, <4>2, <4>5 DEF Summed
    <3> QED BY <3>1, <3>2
  <2>10. /\ prev_snapshot'[f] = reported'[f] % WORD
         /\ reported'[f] <= truth'[f] /\ truth'[f] - reported'[f] < WORD
    <3>1. reported[f] \in Nat /\ truth[f] \in Nat BY <1>1
    <3> QED BY <1>2, <1>6, <2>1, <2>5, <3>1 DEF SumOK
  <2>11. SumOK(i)' BY <1>6, <2>4, <2>8, <2>9, <2>10 DEF SumOK
  <2> QED BY <1>6, <2>11 DEF CountedOK
<1> QED BY <1>4, <1>5, <1>6

-----------------------------------------------------------------------------
(* The flush.                                                              *)

(* It begins with what has been counted by then.                           *)
LEMMA BeginCounted ==
    ASSUME Inv, HistoryOK, NEW i \in 1..7, CountedOK(i), FlushBegin
    PROVE  CountedOK(i)'
<1> DEFINE f == Layout[i]
<1>1. /\ pos = 0 /\ pos' = 1 /\ atStart' = truth
      /\ UNCHANGED <<COUNTERS, truth, snapshot, prev_snapshot, reported>>
  BY DEF FlushBegin
<1>2. Copied(i)' = 0 BY <1>1 DEF Copied
<1>3. truth[f] \in Nat BY LayoutFacts DEF HistoryOK
<1>4. CASE i \in {3, 7}
  <2>1. MaxOK(i) BY <1>4 DEF CountedOK
  <2>2. PICK c \in Cpus : COUNTERS[c][f] = truth[f] BY <2>1 DEF MaxOK
  <2>3. c > 0 BY DEF Cpus
  <2>4. MaxOK(i)' BY <1>1, <1>2, <1>3, <2>1, <2>2, <2>3 DEF MaxOK
  <2> QED BY <1>4, <2>4 DEF CountedOK
<1>5. CASE i \notin {3, 7}
  <2>1. SumOK(i) BY <1>5 DEF CountedOK
  <2>2. PICK P \in [0..NCpu -> Nat], S \in Nat : Shares(P, f) /\ Summed(P, S, i)
    BY <2>1 DEF SumOK
  <2>3. S = 0 /\ P[0] = 0 BY <1>1, <2>2 DEF Summed, Shares
  <2>4. Shares(P, f)' BY <1>1, <2>2 DEF Shares
  <2>5. reported[f] <= truth[f] BY <2>1 DEF SumOK
  <2>6. Summed(P, S, i)' BY <1>1, <1>2, <1>3, <2>2, <2>3, <2>5 DEF Summed
  <2>7. SumOK(i)' BY <1>1, <2>1, <2>4, <2>6 DEF SumOK
  <2> QED BY <1>5, <2>7 DEF CountedOK
<1> QED BY <1>4, <1>5

(* The word it copies joins the others of its field.                       *)
LEMMA ReadCounted ==
    ASSUME Inv, HistoryOK, NEW i \in 1..7, CountedOK(i), FlushRead
    PROVE  CountedOK(i)'
<1> DEFINE f == Layout[i]
<1>0. PICK d \in Cpus, k \in 1..7 :
          /\ pos = 7 * (d - 1) + k
          /\ snapshot' = [snapshot EXCEPT ![Layout[k]] =
                             Join(Layout[k], @, COUNTERS[d][Layout[k]])]
  <2> DEFINE dd == ((pos - 1) \div 7) + 1
             kk == ((pos - 1) % 7) + 1
  <2>0. pos \in 1..(7 * NCpu) BY Bounds DEF FlushRead
  <2>1. snapshot' = [snapshot EXCEPT ![Layout[kk]] =
                        Join(Layout[kk], @, COUNTERS[dd][Layout[kk]])]
    BY Bounds DEF FlushRead
  <2>2. dd \in Cpus /\ kk \in 1..7 /\ pos = 7 * (dd - 1) + kk BY <2>0, Bounds DEF Cpus
  <2> HIDE DEF dd, kk
  <2> QED BY <2>1, <2>2
<1>1. /\ pos \in 1..(7 * NCpu) /\ pos' = pos + 1
      /\ snapshot' = [snapshot EXCEPT ![Layout[k]] = Join(Layout[k], @, COUNTERS[d][Layout[k]])]
      /\ UNCHANGED <<updating, prev_snapshot, atStart, reported>>
  BY <1>0, Bounds DEF FlushRead
<1>2. d \in Cpus /\ k \in 1..7 /\ pos = 7 * (d - 1) + k BY <1>0
<1>3. /\ COUNTERS \in [Cpus -> [Fields -> 0..(WORD - 1)]] /\ truth \in [Fields -> Nat]
      /\ atStart \in [Fields -> Nat] /\ snapshot \in [Fields -> 0..(WORD - 1)]
      /\ f \in Fields /\ Layout[k] \in Fields /\ (f \in MaxFields <=> i \in {3, 7})
      /\ UNCHANGED <<COUNTERS, truth>>
  BY <1>1, <1>2, LayoutFacts DEF Inv, TypeOK, HistoryOK, updating
<1>4. /\ Copied(k) = d - 1 /\ Copied(k)' = d /\ (i # k => Copied(i)' = Copied(i))
      /\ pos # 0 /\ pos' # 0
  BY <1>1, <1>2, CopiedNext
<1>5. CASE i # k
  <2>1. Layout[k] # f BY <1>2, <1>5, LayoutFacts
  <2>2. snapshot'[f] = snapshot[f] BY <1>1, <1>3, <2>1
  <2>3. CASE i \in {3, 7}
    <3>1. MaxOK(i) BY <2>3 DEF CountedOK
    <3>2. MaxOK(i)' BY <1>1, <1>3, <1>4, <1>5, <2>2, <3>1 DEF MaxOK
    <3> QED BY <2>3, <3>2 DEF CountedOK
  <2>4. CASE i \notin {3, 7}
    <3>1. SumOK(i) BY <2>4 DEF CountedOK
    <3>2. PICK P \in [0..NCpu -> Nat], S \in Nat : Shares(P, f) /\ Summed(P, S, i)
      BY <3>1 DEF SumOK
    <3>3. Shares(P, f)' BY <1>3, <3>2 DEF Shares
    <3>4. Summed(P, S, i)' BY <1>1, <1>3, <1>4, <1>5, <2>2, <3>2 DEF Summed
    <3>5. SumOK(i)' BY <1>1, <1>3, <3>1, <3>3, <3>4 DEF SumOK
    <3> QED BY <2>4, <3>5 DEF CountedOK
  <2> QED BY <2>3, <2>4
<1>6. ASSUME i = k, i \in {3, 7} PROVE CountedOK(i)'
  <2>1. MaxOK(i) BY <1>6 DEF CountedOK
  <2>2. snapshot'[f] = MaxOf(snapshot[f], COUNTERS[d][f])
    BY <1>1, <1>3, <1>6 DEF Join, Updated
  <2>3. /\ COUNTERS[d][f] \in Nat /\ snapshot[f] \in Nat /\ truth[f] \in Nat /\ atStart[f] \in Nat
        /\ COUNTERS[d][f] <= truth[f] /\ snapshot[f] <= truth[f]
    BY <1>2, <1>3, <2>1, Bounds DEF MaxOK
  <2>4. snapshot'[f] <= truth[f] /\ snapshot'[f] >= snapshot[f] /\ snapshot'[f] >= COUNTERS[d][f]
    BY <2>2, <2>3 DEF MaxOf
  <2>5. snapshot'[f] \in Nat BY <2>2, <2>3 DEF MaxOf
  <2>6. \/ atStart[f] <= snapshot'[f]
        \/ \E c \in Cpus : c > Copied(i)' /\ COUNTERS[c][f] >= atStart[f]
    <3>1. CASE atStart[f] <= snapshot[f] BY <2>3, <2>4, <2>5, <3>1
    <3>2. ASSUME NEW c \in Cpus, c > Copied(i), COUNTERS[c][f] >= atStart[f]
          PROVE  atStart[f] <= snapshot'[f] \/ c > Copied(i)'
      <4>1. Copied(i) = d - 1 /\ Copied(i)' = d BY <1>4, <1>6
      <4>2. c \in Int /\ d \in Int BY <1>2 DEF Cpus
      <4>3. CASE c = d BY <2>3, <2>4, <2>5, <3>2, <4>3
      <4>4. CASE c # d BY <3>2, <4>1, <4>2, <4>4
      <4> QED BY <4>3, <4>4
    <3> QED BY <1>4, <2>1, <3>1, <3>2 DEF MaxOK
  <2>7. MaxOK(i)' BY <1>1, <1>3, <1>4, <2>1, <2>4, <2>6 DEF MaxOK
  <2> QED BY <1>6, <2>7 DEF CountedOK
<1>7. ASSUME i = k, i \notin {3, 7} PROVE CountedOK(i)'
  <2>1. SumOK(i) BY <1>7 DEF CountedOK
  <2>2. PICK P \in [0..NCpu -> Nat], S \in Nat : Shares(P, f) /\ Summed(P, S, i)
    BY <2>1 DEF SumOK
  <2> DEFINE part == P[d] - P[d - 1]
  <2>3. d \in 0..NCpu /\ d - 1 \in 0..NCpu BY <1>2, Bounds DEF Cpus
  <2>4. P[d] \in Nat /\ P[d - 1] \in Nat /\ P[d - 1] <= P[d] /\ part \in Nat
    <3>1. P[d] \in Nat /\ P[d - 1] \in Nat BY <2>3
    <3>2. P[d - 1] <= P[d] BY <1>2, <2>2 DEF Shares
    <3> QED BY <3>1, <3>2
  <2>5. COUNTERS[d][f] = part % WORD BY <1>2, <2>2 DEF Shares
  <2>6. snapshot[f] = S % WORD BY <2>2 DEF Summed
  <2>7. snapshot'[f] = (snapshot[f] + COUNTERS[d][f]) % WORD
    BY <1>1, <1>3, <1>7 DEF Join, Updated
  <2> DEFINE T == S + part
  <2>8. T \in Nat BY <2>4
  <2>9. snapshot'[f] = T % WORD
    <3>1. /\ WORD \in Nat /\ WORD > 0 /\ S \in Int /\ part \in Int /\ part % WORD \in Int
          /\ (S % WORD) + (part % WORD) = (part % WORD) + (S % WORD) /\ S % WORD \in Int
      BY <2>4, Bounds
    <3>2. (part % WORD) + S = S + (part % WORD) /\ part + S = T BY <3>1
    <3> HIDE DEF part, T
    <3>3. ((S % WORD) + (part % WORD)) % WORD = (S + (part % WORD)) % WORD
      BY <3>1, ModAdd, Zenon
    <3>4. ((part % WORD) + S) % WORD = (part + S) % WORD BY <3>1, ModAdd, Zenon
    <3> QED BY <2>5, <2>6, <2>7, <3>2, <3>3, <3>4, Zenon
  <2>10. T <= P[d] /\ atStart[f] + P[d] <= T + truth[f] /\ reported[f] <= atStart[f]
    <3>1. /\ S <= P[d - 1] /\ atStart[f] + P[d - 1] <= S + truth[f]
          /\ reported[f] <= atStart[f]
      BY <1>4, <1>7, <2>2 DEF Summed
    <3>2. atStart[f] \in Nat /\ truth[f] \in Nat BY <1>3
    <3>3. \A a, b, z, u \in Nat : S <= a /\ z + a <= S + u /\ a <= b =>
              S + (b - a) <= b /\ z + b <= (S + (b - a)) + u
      OBVIOUS
    <3> QED BY <2>4, <3>1, <3>2, <3>3
  <2> HIDE DEF T, part
  <2>11. Shares(P, f)' BY <1>3, <2>2 DEF Shares
  <2>12. Summed(P, T, i)' BY <1>1, <1>3, <1>4, <1>7, <2>9, <2>10 DEF Summed
  <2>13. SumOK(i)' BY <1>1, <1>3, <2>1, <2>8, <2>11, <2>12 DEF SumOK
  <2> QED BY <1>7, <2>13 DEF CountedOK
<1> QED BY <1>5, <1>6, <1>7

(* It ends: what has been reported lies between what was counted when the  *)
(* flush began and what is counted now.                                    *)
LEMMA ReportCounted ==
    ASSUME Inv, HistoryOK, NEW i \in 1..7, CountedOK(i), FlushReport
    PROVE  /\ CountedOK(i)'
           /\ atStart[Layout[i]] <= reported'[Layout[i]]
           /\ reported'[Layout[i]] <= truth[Layout[i]]
<1> DEFINE f == Layout[i]
<1>1. /\ pos = 7 * NCpu + 1 /\ pos' = 0 /\ snapshot' = Zero /\ prev_snapshot' = snapshot
      /\ UNCHANGED <<COUNTERS, truth>>
  BY Bounds DEF FlushReport, updating
<1>2. f \in Fields /\ (f \in MaxFields <=> i \in {3, 7}) BY LayoutFacts
<1>3. /\ truth[f] \in Nat /\ atStart[f] \in Nat /\ reported[f] \in Nat
      /\ snapshot[f] \in Nat /\ snapshot'[f] = 0 /\ prev_snapshot'[f] = snapshot[f]
  BY <1>1, <1>2, Bounds DEF HistoryOK, Zero, Inv, TypeOK
<1>4. pos # 0 /\ Copied(i) = NCpu BY <1>1, Bounds, CopiedFacts
<1>5. reported'[f] = IF f \in MaxFields THEN snapshot[f]
                     ELSE reported[f] + ((snapshot[f] - prev_snapshot[f]) % WORD)
  BY <1>2 DEF FlushReport, delta_counters
<1>6. CASE i \in {3, 7}
  <2>1. MaxOK(i) BY <1>6 DEF CountedOK
  <2>2. atStart[f] <= snapshot[f] /\ snapshot[f] <= truth[f]
    BY <1>4, <2>1, Bounds DEF MaxOK, Cpus
  <2>3. MaxOK(i)' BY <1>1, <1>3, <2>1 DEF MaxOK
  <2> QED BY <1>2, <1>5, <1>6, <2>2, <2>3 DEF CountedOK
<1>7. CASE i \notin {3, 7}
  <2>1. SumOK(i) BY <1>7 DEF CountedOK
  <2>2. PICK P \in [0..NCpu -> Nat], S \in Nat : Shares(P, f) /\ Summed(P, S, i)
    BY <2>1 DEF SumOK
  <2>3. /\ prev_snapshot[f] = reported[f] % WORD /\ snapshot[f] = S % WORD
        /\ truth[f] - reported[f] < WORD
    BY <2>1, <2>2 DEF SumOK, Summed
  <2>4. S <= truth[f] /\ atStart[f] <= S /\ reported[f] <= atStart[f]
    <3>1. P[NCpu] = truth[f] BY <2>2 DEF Shares
    <3>2. /\ S <= P[NCpu] /\ atStart[f] + P[NCpu] <= S + truth[f]
          /\ reported[f] <= atStart[f]
      BY <1>4, <2>2 DEF Summed
    <3> QED BY <1>3, <3>1, <3>2
  <2>5. ((S % WORD) - (reported[f] % WORD)) % WORD = S - reported[f]
    <3>1. truth[f] - reported[f] < WORD BY <2>3
    <3>2. /\ WORD \in Nat /\ WORD > 0 /\ S \in Int /\ reported[f] \in Int
          /\ S - reported[f] \in 0..(WORD - 1)
      BY <1>3, <2>4, <3>1, Bounds
    <3> QED BY <3>2, ModDelta, Zenon
  <2>6. reported'[f] = reported[f] + (S - reported[f]) BY <1>2, <1>5, <1>7, <2>3, <2>5, Zenon
  <2>7. reported'[f] = S BY <1>3, <2>6
  <2>8. Shares(P, f)' BY <1>1, <2>2 DEF Shares
  <2>9. 0 % WORD = 0 BY Bounds
  <2>10. Summed(P, 0, i)' BY <1>1, <1>3, <2>9 DEF Summed
  <2>11. /\ prev_snapshot'[f] = reported'[f] % WORD
         /\ reported'[f] <= truth'[f] /\ truth'[f] - reported'[f] < WORD
    <3>1. prev_snapshot'[f] = reported'[f] % WORD BY <1>3, <2>3, <2>7
    <3>2. reported'[f] <= truth[f] /\ truth[f] - reported'[f] < WORD
      BY <1>3, <2>3, <2>4, <2>7, Bounds
    <3> QED BY <1>1, <3>1, <3>2
  <2>12. SumOK(i)'
    <3>1. \E Q \in [0..NCpu -> Nat] : \E T \in Nat : (Shares(Q, f) /\ Summed(Q, T, i))'
      BY <2>8, <2>10
    <3> QED BY <2>11, <3>1 DEF SumOK
  <2> QED BY <1>7, <2>4, <2>7, <2>12 DEF CountedOK
<1> QED BY <1>6, <1>7

-----------------------------------------------------------------------------
(* The steps.                                                              *)

(* Once probes have overlapped, fewer words are trusted.                   *)
LEMMA TrustedShrinks ==
    ASSUME preempted => preempted'
    PROVE  Trusted' \subseteq Trusted
BY DEF Trusted

(* A step that leaves COUNTERS and the flush alone.                        *)
LEMMA QuietCounted ==
    ASSUME FlushInv, UNCHANGED <<updating, flushing>>, preempted => preempted'
    PROVE  HistoryOK' /\ \A i \in 1..7 : Layout[i] \in Trusted' => CountedOK(i)'
<1>1. HistoryOK' BY DEF FlushInv, HistoryOK, updating, flushing
<1>2. ASSUME NEW i \in 1..7, Layout[i] \in Trusted' PROVE CountedOK(i)'
  <2>1. CountedOK(i) BY <1>2, TrustedShrinks DEF FlushInv
  <2> QED BY <2>1, CountedKept DEF updating
<1> QED BY <1>1, <1>2

(* A program adds x to word k of CPU c.                                    *)
LEMMA UpdateCounted ==
    ASSUME Inv, FlushInv, NEW k \in 1..7, NEW c \in Cpus, NEW x \in Nat, NEW old,
           StoreWord(c, Layout[k], old, x), Account(Layout[k], x),
           UNCHANGED <<flushing, preempted>>,
           Layout[k] \in Trusted => old = COUNTERS[c][Layout[k]]
    PROVE  HistoryOK' /\ \A i \in 1..7 : Layout[i] \in Trusted' => CountedOK(i)'
<1>1. truth' \in [Fields -> Nat]
  <2>1. truth \in [Fields -> Nat] /\ Layout[k] \in Fields BY LayoutFacts DEF FlushInv, HistoryOK
  <2> QED BY <2>1 DEF Account, MaxOf
<1>2. HistoryOK'
  <2>1. MaxFields \subseteq Fields
    <3>1. Layout[3] \in Fields /\ Layout[7] \in Fields BY LayoutFacts
    <3> QED BY <3>1, LayoutFacts DEF MaxFields
  <2>2. /\ truth \in [Fields -> Nat] /\ longest \in [MaxFields -> Nat] /\ Layout[k] \in Fields
        /\ \A f \in MaxFields : longest[f] <= truth[f]
    BY LayoutFacts DEF FlushInv, HistoryOK
  <2>3. longest' \in [MaxFields -> Nat] /\ \A f \in MaxFields : longest'[f] <= truth'[f]
    <3>1. CASE Layout[k] \in MaxFields
      <4>1. /\ truth' = [truth EXCEPT ![Layout[k]] = MaxOf(@, x)]
            /\ longest' = [longest EXCEPT ![Layout[k]] = MaxOf(@, x)]
        BY <3>1 DEF Account
      <4>2. \A a, b \in Nat : MaxOf(a, x) \in Nat /\ (a <= b => MaxOf(a, x) <= MaxOf(b, x))
        BY DEF MaxOf
      <4>3. ASSUME NEW f \in MaxFields PROVE longest'[f] \in Nat /\ longest'[f] <= truth'[f]
        <5>1. longest[f] \in Nat /\ truth[f] \in Nat /\ longest[f] <= truth[f] BY <2>1, <2>2
        <5>2. CASE f = Layout[k]
          <6>1. longest'[f] = MaxOf(longest[f], x) /\ truth'[f] = MaxOf(truth[f], x)
            BY <2>1, <2>2, <4>1, <5>2
          <6> QED BY <4>2, <5>1, <6>1
        <5>3. CASE f # Layout[k]
          <6>1. longest'[f] = longest[f] /\ truth'[f] = truth[f] BY <2>1, <2>2, <4>1, <5>3
          <6> QED BY <5>1, <6>1
        <5> QED BY <5>2, <5>3
      <4>4. DOMAIN longest' = MaxFields /\ longest' = [f \in MaxFields |-> longest'[f]]
        BY <2>2, <4>1
      <4> QED BY <4>3, <4>4
    <3>2. CASE Layout[k] \notin MaxFields
      <4>1. longest' = longest /\ \A f \in MaxFields : truth'[f] = truth[f]
        BY <2>1, <2>2, <3>2 DEF Account
      <4> QED BY <2>2, <4>1
    <3> QED BY <3>1, <3>2
  <2>4. UNCHANGED <<atStart, reported, ofWindow>> BY DEF flushing
  <2> QED BY <1>1, <2>3, <2>4 DEF FlushInv, HistoryOK
<1>3. ASSUME NEW i \in 1..7, Layout[i] \in Trusted' PROVE CountedOK(i)'
  <2>1. Layout[i] \in Trusted /\ CountedOK(i) BY <1>3, TrustedShrinks DEF FlushInv
  <2>2. i = k => old = COUNTERS[c][Layout[k]] BY <2>1
  <2> QED BY <2>1, <2>2, CountedUpdated DEF FlushInv
<1> QED BY <1>2, <1>3

(* A stored word changes no other.                                         *)
LEMMA OthersKept ==
    ASSUME Inv, NEW c \in Cpus, NEW f \in Fields, NEW old, NEW x, StoreWord(c, f, old, x),
           NEW d \in Cpus, NEW g \in Fields, d # c \/ g # f
    PROVE  COUNTERS'[d][g] = COUNTERS[d][g]
<1>1. COUNTERS \in [Cpus -> [Fields -> 0..(WORD - 1)]] BY DEF Inv, TypeOK
<1>2. CASE COUNTERS' = COUNTERS BY <1>2
<1>3. CASE COUNTERS' = [COUNTERS EXCEPT ![c][f] = Updated(f, old, x)] BY <1>1, <1>3
<1> QED BY <1>2, <1>3 DEF StoreWord

(* The probes are not disturbed by what leaves their words alone.          *)
LEMMA AloneKept ==
    ASSUME Inv, Alone, UNCHANGED <<probe, preempted>>,
           \A d \in Cpus, j \in 1..3 : COUNTERS'[d][Layout[j]] = COUNTERS[d][Layout[j]]
    PROVE  Alone'
<1>1. \A t \in DOMAIN probe : probe[t].cpu \in Cpus /\ probe[t].word \in 1..3
  BY DEF Inv, StateOK, ProbeType
<1> QED BY <1>1 DEF Alone

(* Attaching, entering CCH_fetch_page, a reused tid and what is skipped    *)
(* count nothing.                                                          *)
LEMMA QuietFlushInv ==
    ASSUME Inv, FlushInv, UNCHANGED <<updating, flushing, probe, preempted>>
    PROVE  FlushInv'
<1>1. UNCHANGED <<COUNTERS, truth>> BY DEF updating
<1>2. HistoryOK' /\ \A i \in 1..7 : Layout[i] \in Trusted' => CountedOK(i)'
  BY QuietCounted
<1>3. Alone' BY <1>1, AloneKept DEF FlushInv
<1> QED BY <1>2, <1>3 DEF FlushInv

(* A probe starts to count: it is alone on its CPU, or preempts.           *)
LEMMA ExitFlushInv ==
    ASSUME Inv, FlushInv, NEW t \in Tids, NEW c \in Cpus, try_cch_exit(t, c)
    PROVE  FlushInv'
<1>1. UNCHANGED <<updating, flushing>> /\ UNCHANGED COUNTERS /\ (preempted => preempted')
  BY DEF try_cch_exit, updating
<1>2. HistoryOK' /\ \A i \in 1..7 : Layout[i] \in Trusted' => CountedOK(i)'
  BY <1>1, QuietCounted
<1> DEFINE p == [cpu |-> c, word |-> 1, reg |-> -1,
                 duration_ns |-> SaturatingSub(clock, FETCH_IN_PROGRESS[t]),
                 since |-> fetch[t].since, now |-> clock, sure |-> t \notin inherited]
<1>3. \/ UNCHANGED <<probe, preempted>>
      \/ /\ probe' = Put(probe, t, p)
         /\ preempted' = (preempted \/ \E u \in DOMAIN probe : probe[u].cpu = c)
  BY DEF try_cch_exit
<1>4. ASSUME probe' = Put(probe, t, p), ~preempted',
             preempted' = (preempted \/ \E u \in DOMAIN probe : probe[u].cpu = c)
      PROVE  /\ \A v, u \in DOMAIN probe' : probe'[v].cpu = probe'[u].cpu => v = u
             /\ \A v \in DOMAIN probe' : probe'[v].reg # -1 =>
                   probe'[v].reg = COUNTERS'[probe'[v].cpu][Layout[probe'[v].word]]
  <2>1. ~preempted /\ \A u \in DOMAIN probe : probe[u].cpu # c BY <1>4
  <2>2. p.cpu = c /\ p.reg = -1 OBVIOUS
  <2> HIDE DEF p
  <2>3. /\ DOMAIN probe' = DOMAIN probe \cup {t} /\ probe'[t] = p
        /\ \A u \in DOMAIN probe : u # t => probe'[u] = probe[u]
    BY <1>4 DEF Put
  <2> QED BY <1>1, <2>1, <2>2, <2>3 DEF FlushInv, Alone
<1>5. Alone'
  <2>1. CASE UNCHANGED <<probe, preempted>> BY <1>1, <2>1, AloneKept DEF FlushInv
  <2>2. CASE ~UNCHANGED <<probe, preempted>>
    <3>1. /\ probe' = Put(probe, t, p)
          /\ preempted' = (preempted \/ \E u \in DOMAIN probe : probe[u].cpu = c)
      BY <1>3, <2>2
    <3> HIDE DEF p
    <3> QED BY <1>4, <3>1 DEF Alone
  <2> QED BY <2>1, <2>2
<1> QED BY <1>2, <1>5 DEF FlushInv

(* A probe loads its word.                                                 *)
LEMMA LoadFlushInv ==
    ASSUME Inv, FlushInv, NEW t \in Tids, Load(t)
    PROVE  FlushInv'
<1>1. UNCHANGED <<updating, flushing, preempted>> /\ UNCHANGED COUNTERS BY DEF Load, updating
<1>2. HistoryOK' /\ \A i \in 1..7 : Layout[i] \in Trusted' => CountedOK(i)'
  BY <1>1, QuietCounted
<1> DEFINE w == COUNTERS[probe[t].cpu][Layout[probe[t].word]]
<1>3. t \in DOMAIN probe /\ probe' = [probe EXCEPT ![t].reg = w] BY DEF Load
<1>4. \A u \in DOMAIN probe : probe[u] \in ProbeType BY DEF Inv, StateOK
<1> HIDE DEF w
<1>5. /\ DOMAIN probe' = DOMAIN probe /\ \A u \in DOMAIN probe : u # t => probe'[u] = probe[u]
      /\ probe'[t].cpu = probe[t].cpu /\ probe'[t].word = probe[t].word /\ probe'[t].reg = w
  BY <1>3, <1>4 DEF ProbeType
<1>6. Alone' BY <1>1, <1>3, <1>5 DEF FlushInv, Alone, w
<1> QED BY <1>2, <1>6 DEF FlushInv

(* A probe stores its word.                                                *)
LEMMA StoreFlushInv ==
    ASSUME Inv, FlushInv, NEW t \in Tids, Store(t)
    PROVE  FlushInv'
<1> DEFINE k == probe[t].word
           c == probe[t].cpu
           f == Layout[k]
           x == IF f = "engine_count" THEN 1 ELSE probe[t].duration_ns
<1>1. UNCHANGED <<flushing, preempted>> BY DEF Store
<1>2. /\ t \in DOMAIN probe /\ probe[t].reg # -1 /\ k \in 1..3 /\ k \in 1..7 /\ c \in Cpus
      /\ probe[t].duration_ns \in Nat /\ \A u \in DOMAIN probe : probe[u] \in ProbeType
  <2>1. t \in DOMAIN probe /\ probe[t].reg # -1 BY DEF Store
  <2>2. \A u \in DOMAIN probe : probe[u] \in ProbeType BY DEF Inv, StateOK
  <2>3. probe[t] \in ProbeType BY <2>1, <2>2
  <2> QED BY <2>1, <2>2, <2>3, Bounds DEF ProbeType
<1>3. x \in Nat /\ StoreWord(c, f, probe[t].reg, x) /\ Account(f, x) BY <1>2 DEF Store
<1>4. f \in Trusted => probe[t].reg = COUNTERS[c][f]
  <2>1. f \in EngineFields BY <1>2, LayoutFacts
  <2> QED BY <1>2, <2>1 DEF Trusted, FlushInv, Alone
<1> HIDE DEF x
<1>5. HistoryOK' /\ \A i \in 1..7 : Layout[i] \in Trusted' => CountedOK(i)'
  BY <1>1, <1>2, <1>3, <1>4, UpdateCounted
<1>6. \A u \in DOMAIN probe' :
          /\ u \in DOMAIN probe /\ probe'[u].cpu = probe[u].cpu
          /\ u # t => probe'[u] = probe[u]
          /\ u = t => probe'[u].reg = -1
  <2>1. CASE probe' = Del(probe, t) BY <2>1 DEF Del
  <2>2. CASE probe' = [probe EXCEPT ![t].word = @ + 1, ![t].reg = -1]
    BY <1>2, <2>2 DEF ProbeType
  <2> QED BY <2>1, <2>2 DEF Store
<1>7. ASSUME ~preempted
      PROVE  /\ \A u, v \in DOMAIN probe' : probe'[u].cpu = probe'[v].cpu => u = v
             /\ \A u \in DOMAIN probe' : probe'[u].reg # -1 =>
                   probe'[u].reg = COUNTERS'[probe'[u].cpu][Layout[probe'[u].word]]
  <2>1. \A u, v \in DOMAIN probe : probe[u].cpu = probe[v].cpu => u = v
    BY <1>7 DEF FlushInv, Alone
  <2>2. ASSUME NEW u \in DOMAIN probe', probe'[u].reg # -1
        PROVE  probe'[u].reg = COUNTERS'[probe'[u].cpu][Layout[probe'[u].word]]
    <3>1. u # t /\ u \in DOMAIN probe /\ probe'[u] = probe[u] BY <1>6, <2>2
    <3>2. probe[u].cpu # c BY <1>2, <2>1, <3>1
    <3>3. probe[u].cpu \in Cpus /\ probe[u].word \in 1..7 BY <1>2, <3>1 DEF ProbeType
    <3>4. f \in Fields /\ Layout[probe[u].word] \in Fields BY <1>2, <3>3, LayoutFacts
    <3>5. COUNTERS'[probe[u].cpu][Layout[probe[u].word]]
            = COUNTERS[probe[u].cpu][Layout[probe[u].word]]
      BY <1>2, <1>3, <3>2, <3>3, <3>4, OthersKept
    <3>6. probe[u].reg = COUNTERS[probe[u].cpu][Layout[probe[u].word]]
      BY <1>7, <2>2, <3>1 DEF FlushInv, Alone
    <3> QED BY <3>1, <3>5, <3>6
  <2> QED BY <1>6, <2>1, <2>2
<1>8. Alone' BY <1>1, <1>7 DEF Alone
<1> QED BY <1>5, <1>8 DEF FlushInv

(* A tracepoint program adds to a word of its own.                         *)
LEMMA BumpFlushInv ==
    ASSUME Inv, FlushInv, NEW k \in 4..7, NEW c \in Cpus, NEW x \in Nat, Bump(c, Layout[k], x),
           UNCHANGED <<flushing, probe, preempted>>
    PROVE  FlushInv'
<1>1. StoreWord(c, Layout[k], COUNTERS[c][Layout[k]], x) /\ Account(Layout[k], x) BY DEF Bump
<1>2. HistoryOK' /\ \A i \in 1..7 : Layout[i] \in Trusted' => CountedOK(i)'
  BY <1>1, UpdateCounted
<1>3. Alone'
  <2>1. ASSUME NEW d \in Cpus, NEW j \in 1..3
        PROVE  COUNTERS'[d][Layout[j]] = COUNTERS[d][Layout[j]]
    <3>1. Layout[j] \in Fields /\ Layout[k] \in Fields /\ Layout[j] # Layout[k] BY LayoutFacts
    <3> QED BY <1>1, <3>1, OthersKept
  <2> QED BY <2>1, AloneKept DEF FlushInv
<1> QED BY <1>2, <1>3 DEF FlushInv

(* block_rq_issue, block_rq_complete and the second words of both.         *)
LEMMA BlockFlushInv ==
    ASSUME Inv, FlushInv, NEW c \in Cpus,
           \/ \E r \in Reqs, k \in Keys : try_block_issue(r, k, c)
           \/ \E r \in Reqs : try_block_complete(r, c)
           \/ BlockFinish(c)
    PROVE  FlushInv'
<1>1. UNCHANGED <<flushing, probe, preempted>>
  BY DEF try_block_issue, try_block_complete, BlockFinish
<1>2. CASE UNCHANGED updating BY <1>1, <1>2, QuietFlushInv
<1>3. ASSUME NEW r \in Reqs, NEW k \in Keys, try_block_issue(r, k, c) PROVE FlushInv'
  <2>1. UNCHANGED updating \/ Bump(c, Layout[4], 1) BY <1>3, LayoutFacts DEF try_block_issue
  <2> QED BY <1>1, <1>2, <2>1, BumpFlushInv
<1>4. ASSUME NEW r \in Reqs, try_block_complete(r, c) PROVE FlushInv'
  <2> DEFINE k == device[r].key
             wait_ns == SaturatingSub(clock, BLOCK_INFLIGHT[k])
  <2>1. \/ UNCHANGED updating
        \/ k \in DOMAIN BLOCK_INFLIGHT /\ Bump(c, Layout[6], wait_ns)
    BY <1>4, LayoutFacts DEF try_block_complete
  <2>2. k \in DOMAIN BLOCK_INFLIGHT => wait_ns \in Nat
    BY Bounds DEF Inv, TypeOK, StateOK, SaturatingSub
  <2> HIDE DEF k, wait_ns
  <2> QED BY <1>1, <1>2, <2>1, <2>2, BumpFlushInv
<1>5. CASE BlockFinish(c)
  <2>1. Bump(c, irq[c].word, irq[c].add) BY <1>5 DEF BlockFinish
  <2>2. irq[c].add \in Nat /\ (irq[c].word = Layout[5] \/ irq[c].word = Layout[7])
    BY <1>5, LayoutFacts DEF BlockFinish, Inv, StateOK
  <2>3. CASE irq[c].word = Layout[5] BY <1>1, <2>1, <2>2, <2>3, BumpFlushInv
  <2>4. CASE irq[c].word = Layout[7] BY <1>1, <2>1, <2>2, <2>4, BumpFlushInv
  <2> QED BY <2>2, <2>3, <2>4
<1> QED BY <1>3, <1>4, <1>5

(* The flush.                                                              *)
LEMMA FlushFlushInv ==
    ASSUME Inv, FlushInv, FlushBegin \/ FlushRead \/ FlushReport
    PROVE  FlushInv'
<1>1. UNCHANGED <<COUNTERS, truth, probe, preempted>>
  BY DEF FlushBegin, FlushRead, FlushReport, updating
<1>2. Alone' BY <1>1, AloneKept DEF FlushInv
<1>3. HistoryOK'
  <2>1. truth' \in [Fields -> Nat] BY <1>1 DEF FlushInv, HistoryOK
  <2>2. atStart' \in [Fields -> Nat]
    BY DEF FlushInv, HistoryOK, FlushBegin, FlushRead, FlushReport, Zero
  <2>3. reported' \in [Fields -> Nat]
    <3>1. reported \in [Fields -> Nat] BY DEF FlushInv, HistoryOK
    <3>2. CASE FlushReport
      <4>1. /\ snapshot \in [Fields -> 0..(WORD - 1)]
            /\ prev_snapshot \in [Fields -> 0..(WORD - 1)]
        BY DEF Inv, TypeOK
      <4>2. \A f \in Fields : /\ snapshot[f] \in Nat /\ reported[f] \in Nat
                              /\ (snapshot[f] - prev_snapshot[f]) % WORD \in Nat
        <5>1. ASSUME NEW f \in Fields PROVE (snapshot[f] - prev_snapshot[f]) % WORD \in Nat
          <6>1. snapshot[f] - prev_snapshot[f] \in Int BY <4>1, Bounds
          <6> QED BY <6>1, Bounds
        <5> QED BY <3>1, <4>1, <5>1, Bounds
      <4> QED BY <3>2, <4>2 DEF FlushReport, delta_counters
    <3>3. CASE FlushBegin \/ FlushRead BY <3>1, <3>3 DEF FlushBegin, FlushRead
    <3> QED BY <3>2, <3>3
  <2>4. /\ {longest', ofWindow'} \subseteq [MaxFields -> Nat]
        /\ \A f \in MaxFields : longest'[f] <= truth'[f] /\ ofWindow'[f] <= atStart'[f]
    <3>1. MaxFields \subseteq Fields
      <4>1. Layout[3] \in Fields /\ Layout[7] \in Fields BY LayoutFacts
      <4> QED BY <4>1, LayoutFacts DEF MaxFields
    <3>2. /\ {longest, ofWindow} \subseteq [MaxFields -> Nat] /\ truth \in [Fields -> Nat]
          /\ \A f \in MaxFields : longest[f] <= truth[f] /\ ofWindow[f] <= atStart[f]
      BY DEF FlushInv, HistoryOK
    <3>3. CASE FlushBegin
      <4>1. longest' = NoneYet /\ ofWindow' = longest /\ atStart' = truth /\ truth' = truth
        BY <3>3 DEF FlushBegin
      <4>2. \A f \in MaxFields : truth[f] \in Nat BY <3>1, <3>2
      <4> QED BY <3>2, <4>1, <4>2 DEF NoneYet
    <3>4. CASE FlushRead
      <4>1. UNCHANGED <<longest, ofWindow, truth, atStart>> BY <3>4 DEF FlushRead, updating
      <4> QED BY <3>2, <4>1
    <3>5. CASE FlushReport
      <4>1. UNCHANGED <<longest, truth>> /\ ofWindow' = NoneYet /\ atStart' = Zero
        BY <3>5 DEF FlushReport, updating
      <4> QED BY <3>1, <3>2, <4>1 DEF NoneYet, Zero
    <3> QED BY <3>3, <3>4, <3>5
  <2> QED BY <2>1, <2>2, <2>3, <2>4 DEF HistoryOK
<1>4. ASSUME NEW i \in 1..7, Layout[i] \in Trusted' PROVE CountedOK(i)'
  <2>1. CountedOK(i) BY <1>1, <1>4, TrustedShrinks DEF FlushInv
  <2> QED BY <2>1, BeginCounted, ReadCounted, ReportCounted DEF FlushInv
<1> QED BY <1>2, <1>3, <1>4 DEF FlushInv

-----------------------------------------------------------------------------
(* The invariant.                                                          *)

(* Nothing has been counted at first.                                      *)
LEMMA InitFlushInv ==
    ASSUME Init
    PROVE  FlushInv
<1>1. HistoryOK
  <2>1. MaxFields \subseteq Fields
    <3>1. Layout[3] \in Fields /\ Layout[7] \in Fields BY LayoutFacts
    <3> QED BY <3>1, LayoutFacts DEF MaxFields
  <2> QED BY <2>1 DEF Init, HistoryOK, Zero, NoneYet
<1>2. Alone BY DEF Init, Alone, NoEntries
<1>3. ASSUME NEW i \in 1..7 PROVE CountedOK(i)
  <2> DEFINE f == Layout[i]
  <2>1. /\ pos = 0 /\ snapshot[f] = 0 /\ prev_snapshot[f] = 0 /\ truth[f] = 0
        /\ reported[f] = 0 /\ \A c \in Cpus : COUNTERS[c][f] = 0
    BY LayoutFacts DEF Init, Zero
  <2>2. 1 \in Cpus /\ NCpu \in 0..NCpu /\ 0 % WORD = 0 /\ 0 < WORD BY Bounds DEF Cpus
  <2>3. MaxOK(i) BY <2>1, <2>2 DEF MaxOK
  <2>4. SumOK(i)
    <3> DEFINE P == [j \in 0..NCpu |-> 0]
    <3>1. \A c \in Cpus : P[c - 1] = 0 /\ P[c] = 0 BY Bounds DEF Cpus
    <3>2. P[0] = 0 /\ P[NCpu] = 0 /\ P \in [0..NCpu -> Nat] BY <2>2, Bounds
    <3> HIDE DEF P
    <3>3. Shares(P, f) BY <2>1, <2>2, <3>1, <3>2 DEF Shares
    <3>4. Summed(P, 0, i) BY <2>1, <2>2 DEF Summed
    <3> QED BY <2>1, <2>2, <3>2, <3>3, <3>4 DEF SumOK
  <2> QED BY <2>3, <2>4 DEF CountedOK
<1> QED BY <1>1, <1>2, <1>3 DEF FlushInv

(* Every step keeps it.                                                    *)
LEMMA NextFlushInv ==
    ASSUME Inv, FlushInv, [Next]_vars
    PROVE  FlushInv'
<1>1. active.cpus \subseteq Cpus BY PageIoAssumption DEF Inv, StateOK, Cpus
<1>2. CASE UNCHANGED vars BY <1>2, QuietFlushInv DEF vars
<1>3. CASE AttachNext BY <1>3, QuietFlushInv DEF AttachNext
<1>4. ASSUME NEW t \in Tids \cap active.who, try_cch_entry(t) PROVE FlushInv'
  BY <1>4, QuietFlushInv DEF try_cch_entry
<1>5. ASSUME NEW t \in Tids \cap active.who, NEW c \in active.cpus, try_cch_exit(t, c)
      PROVE  FlushInv'
  BY <1>1, <1>5, ExitFlushInv
<1>6. ASSUME NEW t \in Tids \cap active.who, Load(t) PROVE FlushInv' BY <1>6, LoadFlushInv
<1>7. ASSUME NEW t \in Tids \cap active.who, Store(t) PROVE FlushInv' BY <1>7, StoreFlushInv
<1>8. ASSUME NEW r \in Reqs \cap active.who, NEW c \in active.cpus, NEW k \in Keys,
             try_block_issue(r, k, c)
      PROVE  FlushInv'
  BY <1>1, <1>8, BlockFlushInv
<1>9. ASSUME NEW r \in Reqs \cap active.who, NEW c \in active.cpus, try_block_complete(r, c)
      PROVE  FlushInv'
  BY <1>1, <1>9, BlockFlushInv
<1>10. ASSUME NEW r \in Reqs \cap active.who, NEW c \in active.cpus, CompleteSkipped(r, c)
       PROVE  FlushInv'
  BY <1>10, QuietFlushInv DEF CompleteSkipped
<1>11. ASSUME NEW c \in active.cpus, BlockFinish(c) PROVE FlushInv'
  BY <1>1, <1>11, BlockFlushInv
<1>12. CASE FlushBegin \/ FlushRead \/ FlushReport BY <1>12, FlushFlushInv
<1>13. ASSUME NEW t \in active.reused, NEW target \in BOOLEAN, ReuseTid(t, target)
       PROVE  FlushInv'
  BY <1>13, QuietFlushInv DEF ReuseTid
<1>14. ASSUME NEW r \in Reqs \cap active.who, NEW c \in active.cpus, NEW k \in Keys,
              IssueSkipped(r, k, c)
       PROVE  FlushInv'
  BY <1>14, QuietFlushInv DEF IssueSkipped
<1> QED BY <1>2, <1>3, <1>4, <1>5, <1>6, <1>7, <1>8, <1>9, <1>10, <1>11, <1>12, <1>13, <1>14
        DEF Next

(* So it always holds.                                                     *)
LEMMA AlwaysFlushInv == Spec => [](Inv /\ FlushInv)
<1>1. Init => FlushInv BY InitFlushInv
<1>2. Inv /\ FlushInv /\ [Next]_vars => FlushInv' BY NextFlushInv
<1> QED BY <1>1, <1>2, AlwaysInv, PTL DEF Spec

(* delta_counters on cumulative, wrapping snapshots that are torn by       *)
(* updates: the windows of a sum leave no update out and count none twice, *)
(* on any number of CPUs, as long as a word grows by less than 2^64        *)
(* between two flushes and, for the engine's words, no two probes have     *)
(* overlapped on a CPU.                                                    *)
THEOREM WindowsExact == Spec => WindowsAddUp
<1>1. Inv /\ FlushInv /\ [Next]_vars => 
          [FlushReport => \A f \in Trusted \ MaxFields :
              atStart[f] <= reported'[f] /\ reported'[f] <= truth[f]]_vars
  <2>1. SUFFICES ASSUME Inv, FlushInv, FlushReport, NEW f \in Trusted \ MaxFields
                 PROVE  atStart[f] <= reported'[f] /\ reported'[f] <= truth[f]
    OBVIOUS
  <2>2. PICK i \in 1..7 : f = Layout[i] BY <2>1, LayoutFacts DEF Trusted
  <2>3. CountedOK(i) /\ HistoryOK BY <2>1, <2>2 DEF FlushInv
  <2> QED BY <2>1, <2>2, <2>3, ReportCounted
<1> QED BY <1>1, AlwaysFlushInv, PTL DEF Spec, WindowsAddUp

(* The largest wait and the largest fetch a window shows are no shorter    *)
(* than one counted in it, on any CPU, and no longer than every one        *)
(* counted since the programs were loaded.                                 *)
THEOREM MaximumNeverShort == Spec => MaxNeverShort
<1>1. Inv /\ FlushInv /\ [Next]_vars =>
          [FlushReport => \A f \in Trusted \cap MaxFields :
              ofWindow[f] <= reported'[f] /\ reported'[f] <= truth[f]]_vars
  <2>1. SUFFICES ASSUME Inv, FlushInv, FlushReport, NEW f \in Trusted \cap MaxFields
                 PROVE  ofWindow[f] <= reported'[f] /\ reported'[f] <= truth[f]
    OBVIOUS
  <2>2. PICK i \in 1..7 : f = Layout[i] BY <2>1, LayoutFacts DEF Trusted
  <2>3. CountedOK(i) /\ HistoryOK BY <2>1, <2>2 DEF FlushInv
  <2>4. atStart[f] <= reported'[f] /\ reported'[f] <= truth[f]
    BY <2>1, <2>2, <2>3, ReportCounted
  <2>5. ofWindow[f] <= atStart[f] /\ ofWindow[f] \in Nat /\ atStart[f] \in Nat
    BY <2>1, <2>2, <2>3, LayoutFacts DEF HistoryOK
  <2>6. reported'[f] \in Nat
    <3>1. FlushInv' BY <2>1, FlushFlushInv
    <3> QED BY <2>2, <3>1, LayoutFacts DEF FlushInv, HistoryOK
  <2> QED BY <2>4, <2>5, <2>6
<1> QED BY <1>1, AlwaysFlushInv, PTL DEF Spec, MaxNeverShort
=============================================================================
