----------------------- MODULE StatementCaptureProofs -----------------------
(***************************************************************************)
(* TLAPS proofs about StatementCapture, for any number of threads, CPUs,   *)
(* requests, statements and map elements, any arguments and any SQL_MAX:   *)
(* a probe that was not disturbed finds in every buffer and element it     *)
(* uses exactly what its own statement put there, so an event is whole and *)
(* shows the longest prefix.                                               *)
(***************************************************************************)
EXTENDS StatementCapture, TLAPS

-----------------------------------------------------------------------------
(* The inductive invariant.                                                *)

(* What the scratch buffer holds of statement s after the header, and      *)
(* after the text, if the statements come with the arguments given.        *)
Header(given, s) == [NoSql EXCEPT !.stmt = s, !.sql_len = given[s].length]
Whole(given, s) ==
    IF given[s].ptr
    THEN [stmt |-> s, sql_len |-> SqlLen(given[s]), sql_truncated |-> IsTruncated(given[s]),
          sql |-> [of |-> s, n |-> Copied(given[s])]]
    ELSE [NoSql EXCEPT !.stmt = s]

JobType == [at : {"idle", "read", "insert", "call", "copy", "publish", "emit"},
            fn : Fns \cup {"execute"}, stmt : Stmts \cup {Nobody}, cpu : Cpus \cup {Nobody},
            req : Requests \cup {Nobody}, ptr : Elements \cup LruElements \cup {Nobody},
            reg : Captures, clean : BOOLEAN]

MapsOK ==
    /\ scenario \in Scenarios
    /\ live = [r \in DOMAIN live |-> live[r]]
    /\ \A r \in DOMAIN live : live[r] \in [stmt : Stmts, clean : BOOLEAN]
    /\ job \in [Threads -> JobType]
    /\ WITH_SQL_SCRATCH \in [Cpus -> Captures] /\ PREPARED_SCRATCH \in [Cpus -> Captures]
    /\ element \in [Fns -> [Elements -> Captures]]
    /\ lruElement \in [LruElements -> Captures]
    /\ IN_PROGRESS = [fn \in Fns |-> IN_PROGRESS[fn]]
    /\ \A fn \in Fns : /\ DOMAIN IN_PROGRESS[fn] \subseteq Threads
                       /\ \A t \in DOMAIN IN_PROGRESS[fn] : IN_PROGRESS[fn][t] \in Elements
    /\ DOMAIN PREPARED_STATEMENTS \subseteq DOMAIN live
    /\ \A r \in DOMAIN PREPARED_STATEMENTS : PREPARED_STATEMENTS[r] \in LruElements

(* What a job is at says what it has.                                      *)
JobOK(t) ==
    LET j == job[t] IN
    /\ j.at # "idle" => j.stmt \in Stmts
    /\ j.at \in {"read", "insert"} => j.cpu \in Cpus
    /\ j.at \in {"read", "insert", "call"} => j.fn \in Fns
    /\ j.at \in {"copy", "publish"} => j.cpu \in Cpus /\ j.fn = "prepare"
    /\ j.at = "copy" => j.ptr = IN_PROGRESS["prepare"][t]
    /\ j.at = "emit" /\ j.fn = "immediate" => j.ptr = IN_PROGRESS["immediate"][t]
    /\ j.at = "emit" /\ j.fn = "execute" => j.ptr \in LruElements
    /\ j.at = "emit" => j.fn # "prepare"

(* A thread has an entry exactly while its call, or the exit probe that    *)
(* holds a pointer to it, is going on.                                     *)
Entered ==
    \A fn \in Fns : \A t \in Threads :
        t \in DOMAIN IN_PROGRESS[fn] <=>
            job[t].fn = fn /\ job[t].at \in {"call", "copy", "emit"}

(* Whoever was not disturbed finds what its own statement put there.       *)
Undisturbed(t) ==
    LET j == job[t] IN
    j.clean =>
        /\ j.at = "read" => WITH_SQL_SCRATCH[j.cpu] = Header(args, j.stmt)
        /\ j.at = "insert" => WITH_SQL_SCRATCH[j.cpu] = Whole(args, j.stmt)
        /\ j.at = "call" => element[j.fn][IN_PROGRESS[j.fn][t]] = Whole(args, j.stmt)
        /\ j.at = "copy" =>
              /\ element["prepare"][j.ptr] = Whole(args, j.stmt)
              /\ PREPARED_SCRATCH[j.cpu] =
                    [Whole(args, j.stmt) EXCEPT !.sql = PREPARED_SCRATCH[j.cpu].sql]
        /\ j.at = "publish" => PREPARED_SCRATCH[j.cpu] = Whole(args, j.stmt)
        /\ j.at = "emit" => j.reg = Whole(args, j.stmt)
        /\ j.at = "emit" /\ j.fn = "immediate" => element["immediate"][j.ptr] = Whole(args, j.stmt)
        /\ j.at = "emit" /\ j.fn = "execute" => lruElement[j.ptr] = Whole(args, j.stmt)

(* The element of a live request holds the capture of its prepare.         *)
PreparedOK ==
    /\ \A r \in DOMAIN PREPARED_STATEMENTS :
          live[r].clean => lruElement[PREPARED_STATEMENTS[r]] = Whole(args, live[r].stmt)
    /\ \A k, l \in DOMAIN PREPARED_STATEMENTS :
          PREPARED_STATEMENTS[k] = PREPARED_STATEMENTS[l] => k = l

EventOK ==
    event.clean =>
        \/ event = Event(NoSql, NoText, event.truth, TRUE)
        \/ /\ event.truth \in Stmts
           /\ event = Event(Whole(args, event.truth), Whole(args, event.truth).sql,
                            event.truth, TRUE)

Inv ==
    /\ MapsOK /\ Entered /\ PreparedOK /\ EventOK
    /\ \A t \in Threads : JobOK(t) /\ Undisturbed(t)

-----------------------------------------------------------------------------
(* Captures and jobs.                                                      *)

(* Copied and SqlLen are lengths, IsTruncated is a flag.                   *)
LEMMA TextFacts ==
    ASSUME NEW a \in Calls
    PROVE  /\ a.stmt \in 0..MaxBytes /\ a.nul \in 0..MaxBytes /\ a.length \in 0..MaxBytes
           /\ a.length = 0 => a.stmt = a.nul
           /\ a.length # 0 => a.stmt = a.length
           /\ Copied(a) = IF a.fault THEN 0 ELSE MinOf(a.nul, SQL_MAX - 1)
           /\ Copied(a) \in 0..SQL_MAX /\ Copied(a) \in 0..MaxBytes
           /\ SqlLen(a) \in 0..MaxBytes
           /\ IsTruncated(a) \in BOOLEAN
<1>1. /\ a.stmt \in 0..MaxBytes /\ a.nul \in 0..MaxBytes /\ a.length \in 0..MaxBytes
      /\ a.length = 0 => a.stmt = a.nul
      /\ a.length # 0 => a.stmt = a.length
  BY DEF Calls
<1>2. Copied(a) \in 0..SQL_MAX /\ Copied(a) \in 0..MaxBytes
  BY <1>1, SqlAssumption DEF Copied, MinOf
<1>3. SqlLen(a) \in 0..MaxBytes BY <1>1, <1>2 DEF SqlLen
<1>4. IsTruncated(a) \in BOOLEAN BY DEF IsTruncated
<1> QED BY <1>1, <1>2, <1>3, <1>4 DEF Copied

(* Headers and whole captures are captures.                                *)
LEMMA CaptureFacts ==
    ASSUME scenario \in Scenarios
    PROVE  /\ NoSql \in Captures /\ NoText \in Texts
           /\ \A s \in Stmts : /\ args[s] \in Calls
                               /\ Header(args, s) \in Captures
                               /\ Whole(args, s) \in Captures
                               /\ Whole(args, s).stmt = s
<1>1. NoText \in Texts BY SqlAssumption DEF NoText, Texts
<1>2. NoSql \in Captures BY <1>1, SqlAssumption DEF NoSql, Captures
<1>3. ASSUME NEW s \in Stmts
      PROVE  /\ args[s] \in Calls
             /\ Header(args, s) \in Captures
             /\ Whole(args, s) \in Captures
             /\ Whole(args, s).stmt = s
  <2>1. args[s] \in Calls BY CaptureAssumption DEF args
  <2>2. Header(args, s) \in Captures
    BY <1>1, <2>1, TextFacts, SqlAssumption DEF Header, NoSql, Captures
  <2>3. CASE args[s].ptr
    <3>1. [of |-> s, n |-> Copied(args[s])] \in Texts BY <2>1, TextFacts DEF Texts
    <3> QED BY <2>1, <2>2, <2>3, <3>1, TextFacts DEF Whole, Captures
  <2>4. CASE ~args[s].ptr
    <3>1. Whole(args, s) = [NoSql EXCEPT !.stmt = s] BY <2>4 DEF Whole
    <3>2. [NoSql EXCEPT !.stmt = s] \in Captures BY <1>2 DEF Captures
    <3>3. [NoSql EXCEPT !.stmt = s].stmt = s BY <1>2 DEF Captures
    <3> QED BY <2>1, <2>2, <3>1, <3>2, <3>3
  <2> QED BY <2>3, <2>4
<1> QED BY <1>1, <1>2, <1>3

(* A thread that does not act keeps its job, but for clean, and finds what *)
(* it relies on, unless it was disturbed.                                  *)
LEMMA OthersKept ==
    ASSUME Inv, NEW u \in Threads, scenario' = scenario,
           job'[u] = job[u] \/ job'[u] = [job[u] EXCEPT !.clean = FALSE],
           \A fn \in Fns : u \in DOMAIN IN_PROGRESS[fn] =>
               /\ IN_PROGRESS'[fn][u] = IN_PROGRESS[fn][u]
               /\ element'[fn][IN_PROGRESS[fn][u]] = element[fn][IN_PROGRESS[fn][u]],
           job'[u].clean =>
               /\ job[u].at \in {"read", "insert"} =>
                     WITH_SQL_SCRATCH'[job[u].cpu] = WITH_SQL_SCRATCH[job[u].cpu]
               /\ job[u].at \in {"copy", "publish"} =>
                     PREPARED_SCRATCH'[job[u].cpu] = PREPARED_SCRATCH[job[u].cpu]
               /\ job[u].at = "emit" /\ job[u].fn = "execute" =>
                     lruElement'[job[u].ptr] = lruElement[job[u].ptr]
    PROVE  /\ job'[u] \in JobType
           /\ job'[u].at = job[u].at /\ job'[u].fn = job[u].fn
           /\ JobOK(u)' /\ Undisturbed(u)'
<1> DEFINE j == job[u]
<1>1. j \in JobType /\ JobOK(u) /\ Undisturbed(u) BY DEF Inv, MapsOK
<1>2. /\ job'[u] \in JobType
      /\ job'[u].at = j.at /\ job'[u].fn = j.fn /\ job'[u].stmt = j.stmt
      /\ job'[u].cpu = j.cpu /\ job'[u].ptr = j.ptr /\ job'[u].reg = j.reg
      /\ job'[u].clean => j.clean
  BY <1>1 DEF JobType
<1>3. args' = args BY DEF args
<1>4. \A fn \in Fns : j.fn = fn /\ j.at \in {"call", "copy", "emit"} =>
          /\ IN_PROGRESS'[fn][u] = IN_PROGRESS[fn][u]
          /\ element'[fn][IN_PROGRESS[fn][u]] = element[fn][IN_PROGRESS[fn][u]]
  BY DEF Inv, Entered
<1>5. JobOK(u)'
  BY <1>1, <1>2, <1>4 DEF JobOK, Fns
<1>6. ASSUME job'[u].clean PROVE Undisturbed(u)'
  <2>1. CASE j.at \in {"read", "insert"}
    BY <1>1, <1>2, <1>3, <1>6, <2>1 DEF Undisturbed
  <2>2. CASE j.at = "call"
    BY <1>1, <1>2, <1>3, <1>4, <1>6, <2>2 DEF Undisturbed, JobOK
  <2>3. CASE j.at \in {"copy", "publish"}
    BY <1>1, <1>2, <1>3, <1>4, <1>6, <2>3 DEF Undisturbed, JobOK, Fns
  <2>4. CASE j.at = "emit"
    BY <1>1, <1>2, <1>3, <1>4, <1>6, <2>4 DEF Undisturbed, JobOK, Fns, JobType
  <2>5. CASE j.at = "idle"
    BY <1>2, <2>5 DEF Undisturbed
  <2> QED BY <1>1, <2>1, <2>2, <2>3, <2>4, <2>5 DEF JobType
<1>7. Undisturbed(u)' BY <1>6 DEF Undisturbed
<1> QED BY <1>2, <1>5, <1>7

-----------------------------------------------------------------------------
(* try_capture_sql_entry                                                   *)

(* The header goes to the buffer of the probe's CPU.                       *)
LEMMA CaptureHeaderStep ==
    ASSUME Inv, NEW t \in Threads, NEW fn \in Fns, NEW s \in Stmts, NEW c \in Cpus,
           CaptureHeader(t, fn, s, c)
    PROVE  Inv'
<1> DEFINE next == [Idle EXCEPT !.at = "read", !.fn = fn, !.stmt = s, !.cpu = c]
           h == [NoSql EXCEPT !.stmt = s, !.sql_len = args[s].length]
<1>1. MapsOK /\ job[t] \in JobType /\ job[t].at = "idle" /\ Entered
  BY DEF Inv, MapsOK, CaptureHeader
<1>2. /\ UNCHANGED <<scenario, live, PREPARED_SCRATCH, IN_PROGRESS, element,
                     PREPARED_STATEMENTS, lruElement, event>>
      /\ WITH_SQL_SCRATCH' = [WITH_SQL_SCRATCH EXCEPT ![c] = h]
  BY DEF CaptureHeader, hash, lru, Buffer
<1>3. job' = [u \in Threads |->
                IF u = t THEN next
                ELSE IF UsesWithSql(u, c) THEN [job[u] EXCEPT !.clean = FALSE] ELSE job[u]]
  BY DEF CaptureHeader, Step
<1>4. h = Header(args, s) /\ h \in Captures /\ NoSql \in Captures
  BY <1>1, CaptureFacts DEF Header, MapsOK
<1>5. next \in JobType BY <1>4 DEF Idle, JobType, Fns
<1>6. /\ next.at = "read" /\ next.fn = fn /\ next.stmt = s /\ next.cpu = c
  BY DEF Idle
<1> HIDE DEF next, h
<1>7. WITH_SQL_SCRATCH' \in [Cpus -> Captures] /\ WITH_SQL_SCRATCH'[c] = h
      /\ \A d \in Cpus : d # c => WITH_SQL_SCRATCH'[d] = WITH_SQL_SCRATCH[d]
  BY <1>1, <1>2, <1>4 DEF MapsOK
<1>8. args' = args BY <1>2 DEF args
<1>9. ASSUME NEW u \in Threads, u # t
      PROVE  /\ job'[u] \in JobType
             /\ job'[u].at = job[u].at /\ job'[u].fn = job[u].fn
             /\ JobOK(u)' /\ Undisturbed(u)'
  <2>1. JobOK(u) BY DEF Inv
  <2>2. job'[u] = job[u] \/ job'[u] = [job[u] EXCEPT !.clean = FALSE] BY <1>3, <1>9
  <2>3. job[u] \in JobType BY <1>1 DEF MapsOK
  <2>4. ASSUME job'[u].clean, job[u].at \in {"read", "insert"}
        PROVE  WITH_SQL_SCRATCH'[job[u].cpu] = WITH_SQL_SCRATCH[job[u].cpu]
    <3>1. ~UsesWithSql(u, c) BY <1>3, <1>9, <2>3, <2>4 DEF JobType
    <3>2. job[u].cpu \in Cpus /\ job[u].cpu # c BY <2>1, <2>4, <3>1 DEF JobOK, UsesWithSql
    <3> QED BY <1>7, <3>2
  <2> QED BY <1>2, <2>2, <2>4, OthersKept
<1>10. job'[t] = next BY <1>3
<1>11. JobOK(t)' BY <1>6, <1>10 DEF JobOK
<1>12. Undisturbed(t)' BY <1>4, <1>6, <1>7, <1>8, <1>10 DEF Undisturbed
<1>13. MapsOK'
  <2>1. job' \in [Threads -> JobType] BY <1>3, <1>5, <1>9, <1>10
  <2> QED BY <1>1, <1>2, <1>7, <2>1 DEF MapsOK
<1>14. Entered' BY <1>1, <1>2, <1>6, <1>9, <1>10 DEF Entered
<1>15. PreparedOK' /\ EventOK' BY <1>2, <1>8 DEF Inv, PreparedOK, EventOK
<1> QED BY <1>9, <1>11, <1>12, <1>13, <1>14, <1>15 DEF Inv

(* What CaptureText makes of the buffer's old contents.                    *)
Filled(given, s, old) ==
    IF given[s].ptr
    THEN [stmt |-> old.stmt,
          sql |-> [of |-> s, n |-> Copied(given[s])],
          sql_len |-> IF given[s].length = 0 THEN SqlLen(given[s]) ELSE old.sql_len,
          sql_truncated |-> old.sql_truncated \/ IsTruncated(given[s])]
    ELSE [old EXCEPT !.sql_len = 0]

(* It is a capture, and the whole one if the header was still there.       *)
LEMMA FilledFacts ==
    ASSUME scenario \in Scenarios, NEW s \in Stmts, NEW old \in Captures
    PROVE  /\ Filled(args, s, old) \in Captures
           /\ old = Header(args, s) => Filled(args, s, old) = Whole(args, s)
<1> DEFINE a == args[s]
<1>1. a \in Calls /\ NoSql \in Captures BY CaptureFacts
<1>2. /\ Copied(a) \in 0..SQL_MAX /\ SqlLen(a) \in 0..MaxBytes
      /\ IsTruncated(a) \in BOOLEAN /\ a.length \in 0..MaxBytes
  BY <1>1, TextFacts
<1>3. CASE a.ptr
  <2>1. [of |-> s, n |-> Copied(a)] \in Texts BY <1>2 DEF Texts
  <2>2. Filled(args, s, old) =
          [stmt |-> old.stmt, sql |-> [of |-> s, n |-> Copied(a)],
           sql_len |-> IF a.length = 0 THEN SqlLen(a) ELSE old.sql_len,
           sql_truncated |-> old.sql_truncated \/ IsTruncated(a)]
    BY <1>3 DEF Filled
  <2>3. Filled(args, s, old) \in Captures BY <1>2, <2>1, <2>2 DEF Captures
  <2>4. ASSUME old = Header(args, s) PROVE Filled(args, s, old) = Whole(args, s)
    <3>1. old.stmt = s /\ old.sql_len = a.length /\ old.sql_truncated = FALSE
      BY <2>4 DEF Header, NoSql
    <3>2. (IF a.length = 0 THEN SqlLen(a) ELSE old.sql_len) = SqlLen(a)
      BY <3>1 DEF SqlLen
    <3>3. (old.sql_truncated \/ IsTruncated(a)) = IsTruncated(a) BY <3>1, <1>2
    <3> QED BY <1>3, <2>2, <3>1, <3>2, <3>3 DEF Whole
  <2> QED BY <2>3, <2>4
<1>4. CASE ~a.ptr
  <2>1. Filled(args, s, old) = [old EXCEPT !.sql_len = 0] BY <1>4 DEF Filled
  <2>2. Filled(args, s, old) \in Captures BY <2>1, SqlAssumption DEF Captures
  <2>3. ASSUME old = Header(args, s) PROVE Filled(args, s, old) = Whole(args, s)
    <3> DEFINE r == [stmt |-> s, sql_len |-> 0, sql_truncated |-> FALSE, sql |-> NoText]
    <3>1. old = [stmt |-> s, sql_len |-> a.length, sql_truncated |-> FALSE, sql |-> NoText]
      BY <2>3 DEF Header, NoSql
    <3>2. Filled(args, s, old) = r BY <2>1, <3>1
    <3>3. [NoSql EXCEPT !.stmt = s] = r
      <4> DEFINE q == [NoSql EXCEPT !.stmt = s]
      <4>1. q \in Captures /\ q.stmt = s /\ q.sql_len = NoSql.sql_len
            /\ q.sql_truncated = NoSql.sql_truncated /\ q.sql = NoSql.sql
        BY <1>1 DEF Captures
      <4>2. NoSql.sql_len = 0 /\ NoSql.sql_truncated = FALSE /\ NoSql.sql = NoText
        BY DEF NoSql
      <4> HIDE DEF q
      <4>3. q = [stmt |-> q.stmt, sql_len |-> q.sql_len,
                 sql_truncated |-> q.sql_truncated, sql |-> q.sql]
        BY <4>1 DEF Captures
      <4> QED BY <4>1, <4>2, <4>3 DEF q
    <3>4. Whole(args, s) = [NoSql EXCEPT !.stmt = s] BY <1>4 DEF Whole
    <3> QED BY <3>2, <3>3, <3>4
  <2> QED BY <2>2, <2>3
<1> QED BY <1>3, <1>4

(* The text completes what the header began.                               *)
LEMMA CaptureTextStep ==
    ASSUME Inv, NEW t \in Threads, CaptureText(t)
    PROVE  Inv'
<1> DEFINE c == job[t].cpu
           s == job[t].stmt
           next == [job[t] EXCEPT !.at = "insert"]
           w == Filled(args, s, WITH_SQL_SCRATCH[c])
<1>1. /\ MapsOK /\ job[t] \in JobType /\ job[t].at = "read" /\ Entered
      /\ JobOK(t) /\ Undisturbed(t)
  BY DEF Inv, MapsOK, CaptureText
<1>2. s \in Stmts /\ c \in Cpus /\ job[t].fn \in Fns BY <1>1 DEF JobOK
<1>3. /\ UNCHANGED <<scenario, live, PREPARED_SCRATCH, IN_PROGRESS, element,
                     PREPARED_STATEMENTS, lruElement, event>>
      /\ WITH_SQL_SCRATCH' = [WITH_SQL_SCRATCH EXCEPT ![c] = w]
  BY <1>1, <1>2 DEF CaptureText, hash, lru, Buffer, traced, Filled, MapsOK
<1>4. job' = [u \in Threads |->
                IF u = t THEN next
                ELSE IF UsesWithSql(u, c) THEN [job[u] EXCEPT !.clean = FALSE] ELSE job[u]]
  BY DEF CaptureText, Step
<1>5. /\ w \in Captures
      /\ WITH_SQL_SCRATCH[c] = Header(args, s) => w = Whole(args, s)
  BY <1>1, <1>2, FilledFacts DEF MapsOK
<1>6. /\ next \in JobType /\ next.at = "insert" /\ next.fn = job[t].fn /\ next.stmt = s
      /\ next.cpu = c /\ next.clean = job[t].clean
  BY <1>1 DEF JobType
<1>7. next.clean => w = Whole(args, s) BY <1>1, <1>5, <1>6 DEF Undisturbed
<1> HIDE DEF next, w
<1>8. WITH_SQL_SCRATCH' \in [Cpus -> Captures] /\ WITH_SQL_SCRATCH'[c] = w
      /\ \A d \in Cpus : d # c => WITH_SQL_SCRATCH'[d] = WITH_SQL_SCRATCH[d]
  BY <1>1, <1>2, <1>3, <1>5 DEF MapsOK
<1>9. args' = args BY <1>3 DEF args
<1>10. ASSUME NEW u \in Threads, u # t
       PROVE  /\ job'[u] \in JobType
              /\ job'[u].at = job[u].at /\ job'[u].fn = job[u].fn
              /\ JobOK(u)' /\ Undisturbed(u)'
  <2>1. JobOK(u) BY DEF Inv
  <2>2. job'[u] = job[u] \/ job'[u] = [job[u] EXCEPT !.clean = FALSE] BY <1>4, <1>10
  <2>3. job[u] \in JobType BY <1>1 DEF MapsOK
  <2>4. ASSUME job'[u].clean, job[u].at \in {"read", "insert"}
        PROVE  WITH_SQL_SCRATCH'[job[u].cpu] = WITH_SQL_SCRATCH[job[u].cpu]
    <3>1. ~UsesWithSql(u, c) BY <1>4, <1>10, <2>3, <2>4 DEF JobType
    <3>2. job[u].cpu \in Cpus /\ job[u].cpu # c BY <2>1, <2>4, <3>1 DEF JobOK, UsesWithSql
    <3> QED BY <1>8, <3>2
  <2> QED BY <1>3, <2>2, <2>4, OthersKept
<1>11. job'[t] = next BY <1>4
<1>12. JobOK(t)' BY <1>2, <1>6, <1>11 DEF JobOK
<1>13. Undisturbed(t)' BY <1>6, <1>7, <1>8, <1>9, <1>11 DEF Undisturbed
<1>14. MapsOK'
  <2>1. job' \in [Threads -> JobType] BY <1>4, <1>6, <1>10, <1>11
  <2> QED BY <1>1, <1>3, <1>8, <2>1 DEF MapsOK
<1>15. Entered' BY <1>1, <1>3, <1>6, <1>10, <1>11 DEF Entered
<1>16. PreparedOK' /\ EventOK' BY <1>3, <1>9 DEF Inv, PreparedOK, EventOK
<1> QED BY <1>10, <1>12, <1>13, <1>14, <1>15, <1>16 DEF Inv

(* The insert takes a free element, so no other entry changes.             *)
LEMMA CaptureInsertStep ==
    ASSUME Inv, NEW t \in Threads, NEW e \in Elements, CaptureInsert(t, e)
    PROVE  Inv'
<1> DEFINE fn == job[t].fn
           c == job[t].cpu
           next == [job[t] EXCEPT !.at = "call"]
<1>1. /\ MapsOK /\ job[t] \in JobType /\ job[t].at = "insert" /\ Entered
      /\ JobOK(t) /\ Undisturbed(t) /\ e \in Free(fn)
  BY DEF Inv, MapsOK, CaptureInsert
<1>2. job[t].stmt \in Stmts /\ c \in Cpus /\ fn \in Fns BY <1>1 DEF JobOK
<1>3. /\ UNCHANGED <<scenario, live, WITH_SQL_SCRATCH, PREPARED_SCRATCH,
                     PREPARED_STATEMENTS, lruElement, event>>
      /\ IN_PROGRESS' = [IN_PROGRESS EXCEPT ![fn] = Put(@, t, e)]
      /\ element' = [element EXCEPT ![fn][e] = WITH_SQL_SCRATCH[c]]
  BY DEF CaptureInsert, traced, scratch, lru, Buffer
<1>4. job' = [u \in Threads |-> IF u = t THEN next ELSE job[u]]
  BY DEF CaptureInsert, Step, Nobodys
<1>5. /\ next \in JobType /\ next.at = "call" /\ next.fn = fn
      /\ next.stmt = job[t].stmt /\ next.clean = job[t].clean
  BY <1>1 DEF JobType
<1> HIDE DEF next
<1>6. /\ element' \in [Fns -> [Elements -> Captures]]
      /\ element'[fn][e] = WITH_SQL_SCRATCH[c]
      /\ \A g \in Fns : \A d \in Elements :
            g # fn \/ d # e => element'[g][d] = element[g][d]
  <2>1. WITH_SQL_SCRATCH[c] \in Captures BY <1>1, <1>2 DEF MapsOK
  <2>2. element \in [Fns -> [Elements -> Captures]] BY <1>1 DEF MapsOK
  <2> QED BY <1>2, <1>3, <2>1, <2>2
<1>7. /\ IN_PROGRESS' = [g \in Fns |-> IN_PROGRESS'[g]]
      /\ DOMAIN IN_PROGRESS'[fn] = DOMAIN IN_PROGRESS[fn] \cup {t}
      /\ IN_PROGRESS'[fn][t] = e
      /\ \A u \in DOMAIN IN_PROGRESS[fn] : u # t => IN_PROGRESS'[fn][u] = IN_PROGRESS[fn][u]
      /\ \A g \in Fns : g # fn => IN_PROGRESS'[g] = IN_PROGRESS[g]
  BY <1>1, <1>2, <1>3 DEF MapsOK, Put
<1>8. args' = args BY <1>3 DEF args
<1>9. ASSUME NEW u \in Threads, u # t
      PROVE  /\ job'[u] \in JobType
             /\ job'[u].at = job[u].at /\ job'[u].fn = job[u].fn
             /\ JobOK(u)' /\ Undisturbed(u)'
  <2>1. job'[u] = job[u] BY <1>4, <1>9
  <2>2. ASSUME NEW g \in Fns, u \in DOMAIN IN_PROGRESS[g]
        PROVE  /\ IN_PROGRESS'[g][u] = IN_PROGRESS[g][u]
               /\ element'[g][IN_PROGRESS[g][u]] = element[g][IN_PROGRESS[g][u]]
    <3>1. IN_PROGRESS[g][u] \in Elements BY <1>1, <2>2 DEF MapsOK
    <3>2. g = fn => IN_PROGRESS[g][u] # e BY <1>1, <2>2 DEF Free
    <3> QED BY <1>6, <1>7, <1>9, <2>2, <3>1, <3>2
  <2> QED BY <1>3, <2>1, <2>2, OthersKept
<1>10. job'[t] = next BY <1>4
<1>11. JobOK(t)' BY <1>2, <1>5, <1>10 DEF JobOK
<1>12. Undisturbed(t)'
  <2>1. job[t].clean => WITH_SQL_SCRATCH[c] = Whole(args, job[t].stmt)
    BY <1>1 DEF Undisturbed
  <2> QED BY <1>5, <1>6, <1>7, <1>8, <1>10, <2>1 DEF Undisturbed
<1>13. MapsOK'
  <2>1. job' \in [Threads -> JobType] BY <1>4, <1>5, <1>9, <1>10
  <2>2. \A g \in Fns : /\ DOMAIN IN_PROGRESS'[g] \subseteq Threads
                       /\ \A u \in DOMAIN IN_PROGRESS'[g] : IN_PROGRESS'[g][u] \in Elements
    BY <1>1, <1>2, <1>7 DEF MapsOK
  <2> QED BY <1>1, <1>3, <1>6, <1>7, <2>1, <2>2 DEF MapsOK
<1>14. Entered'
  <2>1. ASSUME NEW g \in Fns, NEW u \in Threads
        PROVE  u \in DOMAIN IN_PROGRESS'[g] <=>
                  job'[u].fn = g /\ job'[u].at \in {"call", "copy", "emit"}
    <3>1. u \in DOMAIN IN_PROGRESS[g] <=> job[u].fn = g /\ job[u].at \in {"call", "copy", "emit"}
      BY <1>1 DEF Entered
    <3>2. CASE u # t BY <1>7, <1>9, <3>1, <3>2
    <3>3. CASE u = t BY <1>1, <1>5, <1>7, <1>10, <3>1, <3>3
    <3> QED BY <3>2, <3>3
  <2> QED BY <2>1 DEF Entered
<1>15. PreparedOK' /\ EventOK' BY <1>3, <1>8 DEF Inv, PreparedOK, EventOK
<1> QED BY <1>9, <1>11, <1>12, <1>13, <1>14, <1>15 DEF Inv

-----------------------------------------------------------------------------
(* Steps that write to no scratch buffer.                                  *)

(* A thread that takes its own entry out leaves the others'.               *)
LEMMA RemovedFacts ==
    ASSUME MapsOK, NEW t \in Threads, NEW fn \in Fns, IN_PROGRESS' = Removed(t, fn)
    PROVE  /\ IN_PROGRESS' = [g \in Fns |-> IN_PROGRESS'[g]]
           /\ DOMAIN IN_PROGRESS'[fn] = DOMAIN IN_PROGRESS[fn] \ {t}
           /\ \A g \in Fns : g # fn => IN_PROGRESS'[g] = IN_PROGRESS[g]
           /\ \A g \in Fns : \A u \in DOMAIN IN_PROGRESS'[g] :
                 IN_PROGRESS'[g][u] = IN_PROGRESS[g][u] /\ u \in DOMAIN IN_PROGRESS[g]
           /\ \A g \in Fns : \A u \in Threads :
                 u # t => (u \in DOMAIN IN_PROGRESS'[g] <=> u \in DOMAIN IN_PROGRESS[g])
BY DEF MapsOK, Removed, Del

(* The map after such a step has its type, and says who is in a call.      *)
LEMMA RemovedKeeps ==
    ASSUME Inv, NEW t \in Threads, NEW fn \in Fns, IN_PROGRESS' = Removed(t, fn),
           job[t].fn = fn, job'[t].at \notin {"call", "copy", "emit"},
           \A u \in Threads : u # t => job'[u].fn = job[u].fn /\ job'[u].at = job[u].at
    PROVE  /\ Entered'
           /\ IN_PROGRESS' = [g \in Fns |-> IN_PROGRESS'[g]]
           /\ \A g \in Fns : /\ DOMAIN IN_PROGRESS'[g] \subseteq Threads
                             /\ \A u \in DOMAIN IN_PROGRESS'[g] : IN_PROGRESS'[g][u] \in Elements
<1>1. MapsOK /\ Entered BY DEF Inv
<1>2. /\ IN_PROGRESS' = [g \in Fns |-> IN_PROGRESS'[g]]
      /\ DOMAIN IN_PROGRESS'[fn] = DOMAIN IN_PROGRESS[fn] \ {t}
      /\ \A g \in Fns : g # fn => IN_PROGRESS'[g] = IN_PROGRESS[g]
      /\ \A g \in Fns : \A u \in DOMAIN IN_PROGRESS'[g] :
            IN_PROGRESS'[g][u] = IN_PROGRESS[g][u] /\ u \in DOMAIN IN_PROGRESS[g]
      /\ \A g \in Fns : \A u \in Threads :
            u # t => (u \in DOMAIN IN_PROGRESS'[g] <=> u \in DOMAIN IN_PROGRESS[g])
  BY <1>1, RemovedFacts
<1>3. \A g \in Fns : /\ DOMAIN IN_PROGRESS'[g] \subseteq Threads
                     /\ \A u \in DOMAIN IN_PROGRESS'[g] : IN_PROGRESS'[g][u] \in Elements
  BY <1>1, <1>2 DEF MapsOK
<1>4. ASSUME NEW g \in Fns, NEW u \in Threads
      PROVE  u \in DOMAIN IN_PROGRESS'[g] <=>
                job'[u].fn = g /\ job'[u].at \in {"call", "copy", "emit"}
  <2>1. u \in DOMAIN IN_PROGRESS[g] <=> job[u].fn = g /\ job[u].at \in {"call", "copy", "emit"}
    BY <1>1 DEF Entered
  <2>2. CASE u # t BY <1>2, <2>1, <2>2
  <2>3. CASE u = t BY <1>2, <2>1, <2>3
  <2> QED BY <2>2, <2>3
<1> QED BY <1>2, <1>3, <1>4 DEF Entered

(* An idle job claims nothing.                                             *)
LEMMA IdleFacts ==
    ASSUME MapsOK
    PROVE  Idle \in JobType /\ Idle.at = "idle"
<1>1. NoSql \in Captures BY CaptureFacts DEF MapsOK
<1> QED BY <1>1 DEF Idle, JobType, Fns

(* A job of t alone changes, and perhaps t's entry goes.                   *)
LEMMA QuietStep ==
    ASSUME Inv, NEW t \in Threads, NEW next \in JobType,
           job' = [u \in Threads |-> IF u = t THEN next ELSE job[u]],
           UNCHANGED <<scenario, live, WITH_SQL_SCRATCH, PREPARED_SCRATCH,
                       PREPARED_STATEMENTS, element, lruElement>>,
           \/ /\ IN_PROGRESS' = IN_PROGRESS
              /\ \A fn \in Fns : (next.fn = fn /\ next.at \in {"call", "copy", "emit"})
                    <=> (job[t].fn = fn /\ job[t].at \in {"call", "copy", "emit"})
           \/ /\ job[t].fn \in Fns /\ IN_PROGRESS' = Removed(t, job[t].fn)
              /\ next.at \notin {"call", "copy", "emit"},
           JobOK(t)', Undisturbed(t)', EventOK'
    PROVE  Inv'
<1>1. MapsOK /\ Entered BY DEF Inv
<1>2. args' = args BY DEF args
<1>3. ASSUME NEW u \in Threads, u # t
      PROVE  /\ job'[u] \in JobType
             /\ job'[u].at = job[u].at /\ job'[u].fn = job[u].fn
             /\ JobOK(u)' /\ Undisturbed(u)'
  <2>1. job'[u] = job[u] BY <1>3
  <2>2. \A fn \in Fns : u \in DOMAIN IN_PROGRESS[fn] => IN_PROGRESS'[fn][u] = IN_PROGRESS[fn][u]
    BY <1>1, <1>3, RemovedFacts
  <2> QED BY <2>1, <2>2, OthersKept
<1>4. job' \in [Threads -> JobType] BY <1>1 DEF MapsOK
<1>5. /\ Entered'
      /\ IN_PROGRESS' = [g \in Fns |-> IN_PROGRESS'[g]]
      /\ \A g \in Fns : /\ DOMAIN IN_PROGRESS'[g] \subseteq Threads
                        /\ \A u \in DOMAIN IN_PROGRESS'[g] : IN_PROGRESS'[g][u] \in Elements
  <2>1. CASE IN_PROGRESS' = IN_PROGRESS
             /\ \A fn \in Fns : (next.fn = fn /\ next.at \in {"call", "copy", "emit"})
                  <=> (job[t].fn = fn /\ job[t].at \in {"call", "copy", "emit"})
    BY <1>1, <2>1 DEF MapsOK, Entered
  <2>2. CASE /\ job[t].fn \in Fns /\ IN_PROGRESS' = Removed(t, job[t].fn)
             /\ next.at \notin {"call", "copy", "emit"}
    BY <1>3, <2>2, RemovedKeeps
  <2> QED BY <2>1, <2>2
<1>6. MapsOK' BY <1>1, <1>4, <1>5 DEF MapsOK
<1>7. PreparedOK' BY <1>2 DEF Inv, PreparedOK
<1> QED BY <1>3, <1>5, <1>6, <1>7 DEF Inv

(* A failed prepare drops its entry.                                       *)
LEMMA PrepareFailsStep ==
    ASSUME Inv, NEW t \in Threads, PrepareFails(t)
    PROVE  Inv'
<1>1. /\ job' = [u \in Threads |-> IF u = t THEN Idle ELSE job[u]]
      /\ IN_PROGRESS' = Removed(t, job[t].fn) /\ job[t].fn \in Fns
      /\ UNCHANGED <<scenario, live, WITH_SQL_SCRATCH, PREPARED_SCRATCH,
                     PREPARED_STATEMENTS, element, lruElement, event>>
  BY DEF PrepareFails, Step, Nobodys, traced, scratch, lru, Fns
<1>2. Idle \in JobType /\ Idle.at = "idle" BY IdleFacts DEF Inv
<1>3. JobOK(t)' /\ Undisturbed(t)' BY <1>1, <1>2 DEF JobOK, Undisturbed
<1>4. EventOK' BY <1>1 DEF Inv, EventOK, args
<1> QED BY <1>1, <1>2, <1>3, <1>4, QuietStep

(* try_immediate_exit reads the header while the entry stays.              *)
LEMMA ImmediateHeaderStep ==
    ASSUME Inv, NEW t \in Threads, ImmediateHeader(t)
    PROVE  Inv'
<1> DEFINE e == IN_PROGRESS["immediate"][t]
           next == [job[t] EXCEPT !.at = "emit", !.ptr = e, !.reg = element["immediate"][e]]
<1>1. /\ job' = [u \in Threads |-> IF u = t THEN next ELSE job[u]]
      /\ UNCHANGED <<scenario, live, WITH_SQL_SCRATCH, PREPARED_SCRATCH, IN_PROGRESS,
                     PREPARED_STATEMENTS, element, lruElement, event>>
      /\ job[t].at = "call" /\ job[t].fn = "immediate"
  BY DEF ImmediateHeader, Step, Nobodys, traced, scratch, lru, Held
<1>2. MapsOK /\ Entered /\ JobOK(t) /\ Undisturbed(t) /\ job[t] \in JobType
  BY DEF Inv, MapsOK
<1>3. "immediate" \in Fns BY DEF Fns
<1>4. e \in Elements /\ element["immediate"][e] \in Captures
  BY <1>1, <1>2, <1>3 DEF MapsOK, Entered
<1>5. /\ next \in JobType /\ next.at = "emit" /\ next.fn = "immediate"
      /\ next.stmt = job[t].stmt /\ next.clean = job[t].clean
      /\ next.ptr = e /\ next.reg = element["immediate"][e]
  BY <1>1, <1>2, <1>4 DEF JobType
<1> HIDE DEF next
<1>6. job'[t] = next /\ args' = args BY <1>1 DEF args
<1>7. JobOK(t)' BY <1>1, <1>2, <1>5, <1>6 DEF JobOK
<1>8. Undisturbed(t)' BY <1>1, <1>2, <1>5, <1>6 DEF Undisturbed
<1>9. EventOK' BY <1>1, <1>6 DEF Inv, EventOK
<1> QED BY <1>1, <1>5, <1>7, <1>8, <1>9, QuietStep

(* emit_event copies the text of the same element, then the entry goes.    *)
LEMMA ImmediateEmitStep ==
    ASSUME Inv, NEW t \in Threads, ImmediateEmit(t)
    PROVE  Inv'
<1> DEFINE j == job[t]
           e == Event(j.reg, element["immediate"][j.ptr].sql, j.stmt, j.clean)
<1>1. /\ job' = [u \in Threads |-> IF u = t THEN Idle ELSE job[u]]
      /\ IN_PROGRESS' = Removed(t, job[t].fn) /\ job[t].fn \in Fns
      /\ UNCHANGED <<scenario, live, WITH_SQL_SCRATCH, PREPARED_SCRATCH,
                     PREPARED_STATEMENTS, element, lruElement>>
      /\ event' = e /\ job[t].at = "emit" /\ job[t].fn = "immediate"
  BY DEF ImmediateEmit, Step, Nobodys, traced, scratch, lru, Fns
<1>2. Idle \in JobType /\ Idle.at = "idle" BY IdleFacts DEF Inv
<1>3. JobOK(t)' /\ Undisturbed(t)' BY <1>1, <1>2 DEF JobOK, Undisturbed
<1>4. JobOK(t) /\ Undisturbed(t) /\ j \in JobType BY DEF Inv, MapsOK
<1>5. EventOK'
  <2>1. event'.clean = j.clean /\ event'.truth = j.stmt /\ args' = args
    BY <1>1 DEF Event, args
  <2>2. j.clean \in BOOLEAN /\ j.stmt \in Stmts BY <1>1, <1>4 DEF JobType, JobOK
  <2>3. j.clean => e = Event(Whole(args, j.stmt), Whole(args, j.stmt).sql, j.stmt, TRUE)
    BY <1>1, <1>4, <2>2 DEF Undisturbed
  <2> QED BY <1>1, <2>1, <2>2, <2>3 DEF EventOK
<1> QED BY <1>1, <1>2, <1>3, <1>5, QuietStep

(* try_execute_exit reads the header of the prepared statement; an evicted *)
(* one makes the empty event.                                              *)
LEMMA ExecuteHeaderStep ==
    ASSUME Inv, NEW t \in Threads, NEW r \in Requests, ExecuteHeader(t, r)
    PROVE  Inv'
<1> DEFINE p == PREPARED_STATEMENTS[r]
           next == [Idle EXCEPT !.at = "emit", !.fn = "execute", !.req = r,
                        !.stmt = live[r].stmt, !.clean = live[r].clean,
                        !.ptr = p, !.reg = lruElement[p]]
           e == Event(NoSql, NoText, live[r].stmt, live[r].clean)
<1>1. /\ job[t].at = "idle" /\ r \in DOMAIN live
      /\ UNCHANGED <<scenario, live, WITH_SQL_SCRATCH, PREPARED_SCRATCH, IN_PROGRESS,
                     PREPARED_STATEMENTS, element, lruElement>>
  BY DEF ExecuteHeader, scratch, hash, lru
<1>2. MapsOK /\ Entered /\ PreparedOK /\ JobOK(t) /\ Undisturbed(t) /\ job[t] \in JobType
  BY DEF Inv, MapsOK
<1>3. args' = args BY <1>1 DEF args
<1>4. CASE r \in DOMAIN PREPARED_STATEMENTS
  <2>1. /\ job' = [u \in Threads |-> IF u = t THEN next ELSE job[u]] /\ event' = event
    BY <1>4 DEF ExecuteHeader, Step, Nobodys
  <2>2. /\ p \in LruElements /\ lruElement[p] \in Captures
        /\ live[r].stmt \in Stmts /\ live[r].clean \in BOOLEAN
    BY <1>1, <1>2, <1>4 DEF MapsOK
  <2>3. Idle \in JobType BY <1>2, IdleFacts
  <2>4. /\ next \in JobType /\ next.at = "emit" /\ next.fn = "execute"
        /\ next.stmt = live[r].stmt /\ next.clean = live[r].clean
        /\ next.ptr = p /\ next.reg = lruElement[p]
    BY <2>2, <2>3 DEF JobType
  <2>5. live[r].clean => lruElement[p] = Whole(args, live[r].stmt)
    BY <1>2, <1>4 DEF PreparedOK
  <2> HIDE DEF next
  <2>6. job'[t] = next BY <2>1
  <2>7. JobOK(t)' BY <2>2, <2>4, <2>6 DEF JobOK
  <2>8. Undisturbed(t)' BY <1>1, <1>3, <2>4, <2>5, <2>6 DEF Undisturbed
  <2>9. EventOK' BY <1>3, <2>1 DEF Inv, EventOK
  <2>10. \A fn \in Fns : (next.fn = fn /\ next.at \in {"call", "copy", "emit"})
            <=> (job[t].fn = fn /\ job[t].at \in {"call", "copy", "emit"})
    BY <1>1, <2>4 DEF Fns
  <2> QED BY <1>1, <2>1, <2>4, <2>7, <2>8, <2>9, <2>10, QuietStep
<1>5. CASE r \notin DOMAIN PREPARED_STATEMENTS
  <2>1. event' = e /\ job' = job BY <1>5 DEF ExecuteHeader
  <2>2. event'.clean = live[r].clean /\ event'.truth = live[r].stmt
    BY <2>1 DEF Event
  <2>3. live[r].clean \in BOOLEAN BY <1>1, <1>2 DEF MapsOK
  <2>4. EventOK' BY <2>1, <2>2, <2>3 DEF EventOK
  <2>5. MapsOK' /\ Entered' /\ PreparedOK'
    BY <1>1, <1>2, <1>3, <2>1 DEF MapsOK, Entered, PreparedOK
  <2>6. \A u \in Threads : JobOK(u)' /\ Undisturbed(u)'
    BY <1>1, <1>3, <2>1 DEF Inv, JobOK, Undisturbed
  <2> QED BY <2>4, <2>5, <2>6 DEF Inv
<1> QED BY <1>4, <1>5

(* emit_event copies the text through the pointer.                         *)
LEMMA ExecuteEmitStep ==
    ASSUME Inv, NEW t \in Threads, ExecuteEmit(t)
    PROVE  Inv'
<1> DEFINE j == job[t]
           e == Event(j.reg, lruElement[j.ptr].sql, j.stmt, j.clean)
<1>1. /\ job' = [u \in Threads |-> IF u = t THEN Idle ELSE job[u]]
      /\ UNCHANGED <<scenario, live, WITH_SQL_SCRATCH, PREPARED_SCRATCH, IN_PROGRESS,
                     PREPARED_STATEMENTS, element, lruElement>>
      /\ event' = e /\ job[t].at = "emit" /\ job[t].fn = "execute"
  BY DEF ExecuteEmit, Step, Nobodys, traced, scratch, hash, lru
<1>2. Idle \in JobType /\ Idle.at = "idle" BY IdleFacts DEF Inv
<1>3. JobOK(t)' /\ Undisturbed(t)' BY <1>1, <1>2 DEF JobOK, Undisturbed
<1>4. JobOK(t) /\ Undisturbed(t) /\ j \in JobType BY DEF Inv, MapsOK
<1>5. EventOK'
  <2>1. event'.clean = j.clean /\ event'.truth = j.stmt /\ args' = args
    BY <1>1 DEF Event, args
  <2>2. j.clean \in BOOLEAN /\ j.stmt \in Stmts BY <1>1, <1>4 DEF JobType, JobOK
  <2>3. j.clean => e = Event(Whole(args, j.stmt), Whole(args, j.stmt).sql, j.stmt, TRUE)
    BY <1>1, <1>4, <2>2 DEF Undisturbed
  <2> QED BY <1>1, <2>1, <2>2, <2>3 DEF EventOK
<1>6. \A fn \in Fns : (Idle.fn = fn /\ Idle.at \in {"call", "copy", "emit"})
          <=> (job[t].fn = fn /\ job[t].at \in {"call", "copy", "emit"})
  BY <1>1, <1>2 DEF Fns
<1> QED BY <1>1, <1>2, <1>3, <1>5, <1>6, QuietStep

-----------------------------------------------------------------------------
(* try_prepare_exit                                                        *)

(* The header goes to the buffer of the probe's CPU; the entry stays.      *)
LEMMA PrepareHeaderStep ==
    ASSUME Inv, NEW t \in Threads, NEW c \in Cpus, NEW r \in Requests, PrepareHeader(t, c, r)
    PROVE  Inv'
<1> DEFINE e == IN_PROGRESS["prepare"][t]
           v == element["prepare"][e]
           w == [v EXCEPT !.sql = PREPARED_SCRATCH[c].sql]
           next == [job[t] EXCEPT !.at = "copy", !.cpu = c, !.req = r, !.ptr = e]
<1>1. /\ MapsOK /\ job[t] \in JobType /\ job[t].at = "call" /\ job[t].fn = "prepare"
      /\ Entered /\ JobOK(t) /\ Undisturbed(t) /\ "prepare" \in Fns
  BY DEF Inv, MapsOK, PrepareHeader, Fns
<1>2. /\ UNCHANGED <<scenario, live, WITH_SQL_SCRATCH, IN_PROGRESS, element,
                     PREPARED_STATEMENTS, lruElement, event>>
      /\ PREPARED_SCRATCH' = [PREPARED_SCRATCH EXCEPT ![c] = w]
  BY DEF PrepareHeader, traced, lru, Buffer, Held
<1>3. job' = [u \in Threads |->
                IF u = t THEN next
                ELSE IF UsesPrepared(u, c) THEN [job[u] EXCEPT !.clean = FALSE] ELSE job[u]]
  BY DEF PrepareHeader, Step
<1>4. e \in Elements /\ v \in Captures /\ PREPARED_SCRATCH[c] \in Captures
  BY <1>1 DEF MapsOK, Entered
<1>5. w \in Captures /\ w.sql = PREPARED_SCRATCH[c].sql BY <1>4 DEF Captures
<1>6. /\ next \in JobType /\ next.at = "copy" /\ next.fn = "prepare"
      /\ next.stmt = job[t].stmt /\ next.cpu = c /\ next.ptr = e
      /\ next.clean = job[t].clean
  BY <1>1, <1>4 DEF JobType
<1>7. next.clean => /\ v = Whole(args, next.stmt)
                    /\ w = [Whole(args, next.stmt) EXCEPT !.sql = w.sql]
  BY <1>1, <1>5, <1>6 DEF Undisturbed
<1> HIDE DEF next, w
<1>8. PREPARED_SCRATCH' \in [Cpus -> Captures] /\ PREPARED_SCRATCH'[c] = w
      /\ \A d \in Cpus : d # c => PREPARED_SCRATCH'[d] = PREPARED_SCRATCH[d]
  BY <1>1, <1>2, <1>5 DEF MapsOK
<1>9. args' = args BY <1>2 DEF args
<1>10. ASSUME NEW u \in Threads, u # t
       PROVE  /\ job'[u] \in JobType
              /\ job'[u].at = job[u].at /\ job'[u].fn = job[u].fn
              /\ JobOK(u)' /\ Undisturbed(u)'
  <2>1. JobOK(u) BY DEF Inv
  <2>2. job'[u] = job[u] \/ job'[u] = [job[u] EXCEPT !.clean = FALSE] BY <1>3, <1>10
  <2>3. job[u] \in JobType BY <1>1 DEF MapsOK
  <2>4. ASSUME job'[u].clean, job[u].at \in {"copy", "publish"}
        PROVE  PREPARED_SCRATCH'[job[u].cpu] = PREPARED_SCRATCH[job[u].cpu]
    <3>1. ~UsesPrepared(u, c) BY <1>3, <1>10, <2>3, <2>4 DEF JobType
    <3>2. job[u].cpu \in Cpus /\ job[u].cpu # c BY <2>1, <2>4, <3>1 DEF JobOK, UsesPrepared
    <3> QED BY <1>8, <3>2
  <2> QED BY <1>2, <2>2, <2>4, OthersKept
<1>11. job'[t] = next BY <1>3
<1>12. JobOK(t)' BY <1>1, <1>2, <1>6, <1>11 DEF JobOK
<1>13. Undisturbed(t)' BY <1>2, <1>6, <1>7, <1>8, <1>9, <1>11 DEF Undisturbed
<1>14. MapsOK'
  <2>1. job' \in [Threads -> JobType] BY <1>3, <1>6, <1>10, <1>11
  <2> QED BY <1>1, <1>2, <1>8, <2>1 DEF MapsOK
<1>15. Entered' BY <1>1, <1>2, <1>6, <1>10, <1>11 DEF Entered
<1>16. PreparedOK' /\ EventOK' BY <1>2, <1>9 DEF Inv, PreparedOK, EventOK
<1> QED BY <1>10, <1>12, <1>13, <1>14, <1>15, <1>16 DEF Inv

(* The text follows through the pointer, then the entry goes.              *)
LEMMA PrepareTextStep ==
    ASSUME Inv, NEW t \in Threads, PrepareText(t)
    PROVE  Inv'
<1> DEFINE s == job[t].stmt
           c == job[t].cpu
           old == PREPARED_SCRATCH[c]
           x == element["prepare"][job[t].ptr].sql
           w == [old EXCEPT !.sql = x]
           next == [job[t] EXCEPT !.at = "publish"]
<1>1. /\ MapsOK /\ job[t] \in JobType /\ job[t].at = "copy" /\ "prepare" \in Fns
      /\ Entered /\ JobOK(t) /\ Undisturbed(t)
  BY DEF Inv, MapsOK, PrepareText, Fns
<1>2. /\ s \in Stmts /\ c \in Cpus /\ job[t].fn = "prepare"
      /\ job[t].ptr = IN_PROGRESS["prepare"][t]
  BY <1>1 DEF JobOK
<1>3. /\ UNCHANGED <<scenario, live, WITH_SQL_SCRATCH, element,
                     PREPARED_STATEMENTS, lruElement, event>>
      /\ IN_PROGRESS' = Removed(t, "prepare")
      /\ PREPARED_SCRATCH' = [PREPARED_SCRATCH EXCEPT ![c] = w]
  BY <1>1, <1>2 DEF PrepareText, traced, lru, Buffer, MapsOK
<1>4. job' = [u \in Threads |->
                IF u = t THEN next
                ELSE IF UsesPrepared(u, c) THEN [job[u] EXCEPT !.clean = FALSE] ELSE job[u]]
  BY DEF PrepareText, Step
<1>5. /\ job[t].ptr \in Elements /\ element["prepare"][job[t].ptr] \in Captures
      /\ old \in Captures
  BY <1>1, <1>2 DEF MapsOK, Entered
<1>6. /\ w \in Captures /\ w.sql = x /\ w.stmt = old.stmt /\ w.sql_len = old.sql_len
      /\ w.sql_truncated = old.sql_truncated
  BY <1>5 DEF Captures
<1>7. /\ next \in JobType /\ next.at = "publish" /\ next.fn = "prepare" /\ next.stmt = s
      /\ next.cpu = c /\ next.clean = job[t].clean
  BY <1>1, <1>2 DEF JobType
<1>8. ASSUME next.clean PROVE w = Whole(args, s)
  <2> DEFINE g == Whole(args, s)
  <2>1. x = g.sql /\ old = [g EXCEPT !.sql = old.sql]
    BY <1>1, <1>7, <1>8 DEF Undisturbed
  <2>2. g \in Captures BY <1>1, <1>2, CaptureFacts DEF MapsOK
  <2> HIDE DEF g, x, old
  <2>3. old.stmt = g.stmt /\ old.sql_len = g.sql_len /\ old.sql_truncated = g.sql_truncated
    BY <2>1, <2>2 DEF Captures
  <2> HIDE DEF w
  <2>4. w = g BY <1>6, <2>1, <2>2, <2>3 DEF Captures
  <2> QED BY <2>4 DEF g
<1> HIDE DEF next, w
<1>9. PREPARED_SCRATCH' \in [Cpus -> Captures] /\ PREPARED_SCRATCH'[c] = w
      /\ \A d \in Cpus : d # c => PREPARED_SCRATCH'[d] = PREPARED_SCRATCH[d]
  BY <1>1, <1>2, <1>3, <1>6 DEF MapsOK
<1>10. args' = args BY <1>3 DEF args
<1>11. ASSUME NEW u \in Threads, u # t
       PROVE  /\ job'[u] \in JobType
              /\ job'[u].at = job[u].at /\ job'[u].fn = job[u].fn
              /\ JobOK(u)' /\ Undisturbed(u)'
  <2>1. JobOK(u) BY DEF Inv
  <2>2. job'[u] = job[u] \/ job'[u] = [job[u] EXCEPT !.clean = FALSE] BY <1>4, <1>11
  <2>3. job[u] \in JobType BY <1>1 DEF MapsOK
  <2>4. ASSUME job'[u].clean, job[u].at \in {"copy", "publish"}
        PROVE  PREPARED_SCRATCH'[job[u].cpu] = PREPARED_SCRATCH[job[u].cpu]
    <3>1. ~UsesPrepared(u, c) BY <1>4, <1>11, <2>3, <2>4 DEF JobType
    <3>2. job[u].cpu \in Cpus /\ job[u].cpu # c BY <2>1, <2>4, <3>1 DEF JobOK, UsesPrepared
    <3> QED BY <1>9, <3>2
  <2>5. \A fn \in Fns : u \in DOMAIN IN_PROGRESS[fn] => IN_PROGRESS'[fn][u] = IN_PROGRESS[fn][u]
    BY <1>1, <1>3, <1>11, RemovedFacts
  <2> QED BY <1>3, <2>2, <2>4, <2>5, OthersKept
<1>12. job'[t] = next BY <1>4
<1>13. JobOK(t)' BY <1>2, <1>7, <1>12 DEF JobOK
<1>14. Undisturbed(t)' BY <1>7, <1>8, <1>9, <1>10, <1>12 DEF Undisturbed
<1>15. /\ Entered'
       /\ IN_PROGRESS' = [g \in Fns |-> IN_PROGRESS'[g]]
       /\ \A g \in Fns : /\ DOMAIN IN_PROGRESS'[g] \subseteq Threads
                         /\ \A u \in DOMAIN IN_PROGRESS'[g] : IN_PROGRESS'[g][u] \in Elements
  BY <1>1, <1>2, <1>3, <1>7, <1>11, <1>12, RemovedKeeps
<1>16. MapsOK'
  <2>1. job' \in [Threads -> JobType] BY <1>4, <1>7, <1>11, <1>12
  <2> QED BY <1>1, <1>3, <1>9, <1>15, <2>1 DEF MapsOK
<1>17. PreparedOK' /\ EventOK' BY <1>3, <1>10 DEF Inv, PreparedOK, EventOK
<1> QED BY <1>11, <1>13, <1>14, <1>15, <1>16, <1>17 DEF Inv

(* The insert may take an element somebody reads: that one is disturbed.   *)
LEMMA PrepareInsertStep ==
    ASSUME Inv, NEW t \in Threads, NEW e \in LruElements, PrepareInsert(t, e)
    PROVE  Inv'
<1> DEFINE r == job[t].req
           s == job[t].stmt
           w == PREPARED_SCRATCH[job[t].cpu]
           entry == [stmt |-> s, clean |-> job[t].clean]
<1>1. /\ MapsOK /\ job[t] \in JobType /\ job[t].at = "publish" /\ Entered /\ PreparedOK
      /\ JobOK(t) /\ Undisturbed(t)
  BY DEF Inv, MapsOK, PrepareInsert
<1>2. s \in Stmts /\ job[t].cpu \in Cpus /\ job[t].clean \in BOOLEAN BY <1>1 DEF JobOK, JobType
<1>3. /\ UNCHANGED <<scenario, WITH_SQL_SCRATCH, PREPARED_SCRATCH, IN_PROGRESS, element, event>>
      /\ PREPARED_STATEMENTS' = Put(Keep(PREPARED_STATEMENTS,
            {k \in DOMAIN PREPARED_STATEMENTS : PREPARED_STATEMENTS[k] # e}), r, e)
      /\ lruElement' = [lruElement EXCEPT ![e] = w]
      /\ live' = Put(live, r, entry)
  BY DEF PrepareInsert, scratch, hash, Buffer
<1>4. job' = [u \in Threads |->
                IF u = t THEN Idle
                ELSE IF ReadsLru(u, e) THEN [job[u] EXCEPT !.clean = FALSE] ELSE job[u]]
  BY DEF PrepareInsert, Step
<1>5. Idle \in JobType /\ Idle.at = "idle" BY <1>1, IdleFacts
<1>6. w \in Captures /\ (job[t].clean => w = Whole(args, s))
  BY <1>1, <1>2 DEF MapsOK, Undisturbed
<1>7. entry \in [stmt : Stmts, clean : BOOLEAN] /\ entry.stmt = s /\ entry.clean = job[t].clean
  BY <1>2
<1> HIDE DEF w, entry
<1>8. /\ lruElement' \in [LruElements -> Captures] /\ lruElement'[e] = w
      /\ \A d \in LruElements : d # e => lruElement'[d] = lruElement[d]
  BY <1>1, <1>3, <1>6 DEF MapsOK
<1>9. /\ live' = [k \in DOMAIN live' |-> live'[k]]
      /\ DOMAIN live' = DOMAIN live \cup {r} /\ live'[r] = entry
      /\ \A k \in DOMAIN live : k # r => live'[k] = live[k]
  BY <1>3 DEF Put
<1>10. /\ DOMAIN PREPARED_STATEMENTS' =
             {k \in DOMAIN PREPARED_STATEMENTS : PREPARED_STATEMENTS[k] # e} \cup {r}
       /\ PREPARED_STATEMENTS'[r] = e
       /\ \A k \in DOMAIN PREPARED_STATEMENTS' : k # r =>
             PREPARED_STATEMENTS'[k] = PREPARED_STATEMENTS[k]
  BY <1>3 DEF Put, Keep
<1>11. args' = args BY <1>3 DEF args
<1>12. ASSUME NEW u \in Threads, u # t
       PROVE  /\ job'[u] \in JobType
              /\ job'[u].at = job[u].at /\ job'[u].fn = job[u].fn
              /\ JobOK(u)' /\ Undisturbed(u)'
  <2>1. JobOK(u) BY DEF Inv
  <2>2. job'[u] = job[u] \/ job'[u] = [job[u] EXCEPT !.clean = FALSE] BY <1>4, <1>12
  <2>3. job[u] \in JobType BY <1>1 DEF MapsOK
  <2>4. ASSUME job'[u].clean, job[u].at = "emit", job[u].fn = "execute"
        PROVE  lruElement'[job[u].ptr] = lruElement[job[u].ptr]
    <3>1. ~ReadsLru(u, e) BY <1>4, <1>12, <2>3, <2>4 DEF JobType
    <3>2. job[u].ptr \in LruElements /\ job[u].ptr # e
      BY <2>1, <2>4, <3>1 DEF JobOK, ReadsLru
    <3> QED BY <1>8, <3>2
  <2> QED BY <1>3, <2>2, <2>4, OthersKept
<1>13. job'[t] = Idle BY <1>4
<1>14. JobOK(t)' /\ Undisturbed(t)' BY <1>5, <1>13 DEF JobOK, Undisturbed
<1>15. MapsOK'
  <2>1. job' \in [Threads -> JobType] BY <1>4, <1>5, <1>12, <1>13
  <2>2. \A k \in DOMAIN live' : live'[k] \in [stmt : Stmts, clean : BOOLEAN]
    BY <1>1, <1>7, <1>9 DEF MapsOK
  <2>3. /\ DOMAIN PREPARED_STATEMENTS' \subseteq DOMAIN live'
        /\ \A k \in DOMAIN PREPARED_STATEMENTS' : PREPARED_STATEMENTS'[k] \in LruElements
    BY <1>1, <1>9, <1>10 DEF MapsOK
  <2> QED BY <1>1, <1>3, <1>8, <1>9, <2>1, <2>2, <2>3 DEF MapsOK
<1>16. Entered' BY <1>1, <1>3, <1>5, <1>12, <1>13 DEF Entered
<1>17. PreparedOK'
  <2>1. ASSUME NEW k \in DOMAIN PREPARED_STATEMENTS', live'[k].clean
        PROVE  lruElement'[PREPARED_STATEMENTS'[k]] = Whole(args', live'[k].stmt)
    <3>1. CASE k = r BY <1>6, <1>7, <1>8, <1>9, <1>10, <1>11, <2>1, <3>1
    <3>2. CASE k # r
      <4>1. /\ k \in DOMAIN PREPARED_STATEMENTS /\ PREPARED_STATEMENTS[k] # e
            /\ PREPARED_STATEMENTS[k] \in LruElements
            /\ PREPARED_STATEMENTS'[k] = PREPARED_STATEMENTS[k] /\ live'[k] = live[k]
        BY <1>1, <1>9, <1>10, <2>1, <3>2 DEF MapsOK
      <4> QED BY <1>1, <1>8, <1>11, <2>1, <4>1 DEF PreparedOK
    <3> QED BY <3>1, <3>2
  <2>2. \A k, l \in DOMAIN PREPARED_STATEMENTS' :
            PREPARED_STATEMENTS'[k] = PREPARED_STATEMENTS'[l] => k = l
    BY <1>1, <1>10 DEF PreparedOK
  <2> QED BY <2>1, <2>2 DEF PreparedOK
<1>18. EventOK' BY <1>3, <1>11 DEF Inv, EventOK
<1> QED BY <1>12, <1>14, <1>15, <1>16, <1>17, <1>18 DEF Inv

-----------------------------------------------------------------------------
(* Every step keeps the invariant.                                         *)

(* At the start all is empty and idle.                                     *)
LEMMA InitInv == Init => Inv
<1> SUFFICES ASSUME Init PROVE Inv OBVIOUS
<1>1. scenario \in Scenarios BY DEF Init
<1>2. NoSql \in Captures BY <1>1, CaptureFacts
<1>3. Idle \in JobType /\ Idle.at = "idle" BY <1>2 DEF Idle, JobType, Fns
<1>4. \A t \in Threads : job[t] = Idle BY DEF Init
<1>5. \A fn \in Fns : DOMAIN IN_PROGRESS[fn] = {} BY DEF Init, NoEntries
<1>6. DOMAIN PREPARED_STATEMENTS = {} /\ DOMAIN live = {} BY DEF Init, NoEntries
<1>7. MapsOK
  <2>1. live = [r \in DOMAIN live |-> live[r]] BY DEF Init, NoEntries
  <2>2. job \in [Threads -> JobType] BY <1>3 DEF Init
  <2>3. WITH_SQL_SCRATCH \in [Cpus -> Captures] /\ PREPARED_SCRATCH \in [Cpus -> Captures]
    BY <1>2 DEF Init
  <2>4. element \in [Fns -> [Elements -> Captures]] BY <1>2 DEF Init
  <2>5. lruElement \in [LruElements -> Captures] BY <1>2 DEF Init
  <2>6. IN_PROGRESS = [fn \in Fns |-> IN_PROGRESS[fn]] BY DEF Init
  <2> QED BY <1>1, <1>5, <1>6, <2>1, <2>2, <2>3, <2>4, <2>5, <2>6 DEF MapsOK
<1>8. Entered BY <1>3, <1>4, <1>5 DEF Entered
<1>9. PreparedOK BY <1>6 DEF PreparedOK
<1>10. EventOK
  <2>1. event = Event(NoSql, NoText, Nobody, TRUE) BY DEF Init
  <2>2. event.truth = Nobody BY <2>1 DEF Event
  <2> QED BY <2>1, <2>2 DEF EventOK
<1>11. \A t \in Threads : JobOK(t) /\ Undisturbed(t)
  BY <1>3, <1>4 DEF JobOK, Undisturbed
<1> QED BY <1>7, <1>8, <1>9, <1>10, <1>11 DEF Inv

(* One lemma above per action.                                             *)
LEMMA NextInv == Inv /\ [Next]_vars => Inv'
<1> SUFFICES ASSUME Inv, [Next]_vars PROVE Inv' OBVIOUS
<1>1. CASE UNCHANGED vars
  <2>1. MapsOK' /\ Entered' BY <1>1 DEF vars, Inv, MapsOK, Entered
  <2>2. PreparedOK' /\ EventOK' BY <1>1 DEF vars, Inv, PreparedOK, EventOK, args
  <2>3. \A t \in Threads : JobOK(t)' /\ Undisturbed(t)'
    BY <1>1 DEF vars, Inv, JobOK, Undisturbed, args
  <2> QED BY <2>1, <2>2, <2>3 DEF Inv
<1>2. CASE Next
  <2>1. PICK t \in scenario.threads :
          \/ \E fn \in Fns : \E s \in Stmts : \E c \in Cpus : CaptureHeader(t, fn, s, c)
          \/ CaptureText(t)
          \/ \E e \in Elements : CaptureInsert(t, e)
          \/ PrepareFails(t)
          \/ \E c \in Cpus : \E r \in Requests : PrepareHeader(t, c, r)
          \/ PrepareText(t)
          \/ \E e \in LruElements : PrepareInsert(t, e)
          \/ \E r \in Requests : ExecuteHeader(t, r)
          \/ ExecuteEmit(t)
          \/ ImmediateHeader(t)
          \/ ImmediateEmit(t)
    BY <1>2 DEF Next
  <2>2. t \in Threads BY <2>1, CaptureAssumption DEF Inv, MapsOK
  <2> QED BY <2>1, <2>2, CaptureHeaderStep, CaptureTextStep, CaptureInsertStep,
             PrepareFailsStep, PrepareHeaderStep, PrepareTextStep, PrepareInsertStep,
             ExecuteHeaderStep, ExecuteEmitStep, ImmediateHeaderStep, ImmediateEmitStep
<1> QED BY <1>1, <1>2

(* Hence it holds in every state.                                          *)
LEMMA AlwaysInv == Spec => []Inv
BY InitInv, NextInv, PTL DEF Spec

-----------------------------------------------------------------------------
(* What the invariant says of the code.                                    *)

(* The scratch buffers and the map elements always hold captures, no two   *)
(* requests share an element of PREPARED_STATEMENTS, and only a thread     *)
(* inside a call has an entry in the IN_PROGRESS map of that call.         *)
THEOREM CaptureTypeCorrect == Spec => []TypeOK
<1>1. Inv => TypeOK BY DEF Inv, MapsOK, PreparedOK, Entered, TypeOK
<1> QED BY <1>1, AlwaysInv, PTL

(* The fields of the event of an undisturbed statement.                    *)
LEMMA EventFields ==
    ASSUME Inv, event.clean, event.stmt # Nobody
    PROVE  /\ event.truth \in Stmts /\ event.stmt = event.truth
           /\ event.sql_len = Whole(args, event.truth).sql_len
           /\ event.sql_truncated = Whole(args, event.truth).sql_truncated
           /\ event.sql = Whole(args, event.truth).sql
<1>1. EventOK /\ scenario \in Scenarios BY DEF Inv, MapsOK
<1>2. event # Event(NoSql, NoText, event.truth, TRUE)
  <2>1. Event(NoSql, NoText, event.truth, TRUE).stmt = Nobody BY DEF Event, NoSql
  <2> QED BY <2>1
<1>3. /\ event.truth \in Stmts
      /\ event = Event(Whole(args, event.truth), Whole(args, event.truth).sql, event.truth, TRUE)
  BY <1>1, <1>2 DEF EventOK
<1>4. Whole(args, event.truth).stmt = event.truth BY <1>1, <1>3, CaptureFacts
<1> QED BY <1>3, <1>4 DEF Event

(* Header and text of an event nothing was overwritten under are both of   *)
(* the statement that ran, or it is the empty one of an evicted prepare.   *)
THEOREM UndisturbedEventIsWhole == Spec => []WholeEvent
<1>1. ASSUME Inv, event.clean, event # Event(NoSql, NoText, event.truth, TRUE)
      PROVE  event.stmt = event.truth /\ event.sql.of \in {event.truth, Nobody}
  <2> DEFINE s == event.truth
  <2>1. s \in Stmts /\ event = Event(Whole(args, s), Whole(args, s).sql, s, TRUE)
    BY <1>1 DEF Inv, EventOK
  <2>2. Whole(args, s).stmt = s BY <1>1, <2>1, CaptureFacts DEF Inv, MapsOK
  <2>3. event.stmt = s /\ event.sql = Whole(args, s).sql BY <2>1, <2>2 DEF Event
  <2>4. Whole(args, s).sql.of \in {s, Nobody} BY DEF Whole, NoSql, NoText
  <2> QED BY <2>3, <2>4
<1>2. Inv => WholeEvent BY <1>1 DEF WholeEvent
<1> QED BY <1>2, AlwaysInv, PTL

(* What the event of an undisturbed statement shows, and how it is flagged. *)
LEMMA ShownFacts ==
    ASSUME Inv, event.clean, event.stmt # Nobody
    PROVE  /\ Arg \in Calls /\ event.stmt = event.truth
           /\ ~Arg.ptr => Shown = 0
           /\ Arg.ptr => /\ Shown = Visible(SqlLen(Arg), Copied(Arg))
                         /\ event.sql_truncated = IsTruncated(Arg)
<1> DEFINE s == event.truth
<1>1. /\ s \in Stmts /\ event.stmt = s /\ event.sql_len = Whole(args, s).sql_len
      /\ event.sql_truncated = Whole(args, s).sql_truncated /\ event.sql = Whole(args, s).sql
  BY EventFields
<1>2. args[s] \in Calls BY <1>1, CaptureFacts DEF Inv, MapsOK
<1>3. CASE Arg.ptr
  <2>1. Whole(args, s) = [stmt |-> s, sql_len |-> SqlLen(Arg), sql_truncated |-> IsTruncated(Arg),
                          sql |-> [of |-> s, n |-> Copied(Arg)]]
    BY <1>3 DEF Whole, Arg
  <2>2. event.sql_len = SqlLen(Arg) /\ event.sql.n = Copied(Arg)
        /\ event.sql_truncated = IsTruncated(Arg)
    BY <1>1, <2>1
  <2> QED BY <1>1, <1>2, <1>3, <2>2 DEF Shown, Arg
<1>4. CASE ~Arg.ptr
  <2>1. Whole(args, s) = [NoSql EXCEPT !.stmt = s] BY <1>4 DEF Whole, Arg
  <2>2. event.sql_len = 0 /\ event.sql.n = 0 BY <1>1, <2>1 DEF NoSql, NoText
  <2>3. Shown = 0 BY <2>2, SqlAssumption DEF Shown, Visible, MinOf
  <2> QED BY <1>1, <1>2, <1>4, <2>3 DEF Arg
<1> QED BY <1>3, <1>4

(* An undisturbed event shows the longest prefix of its statement that     *)
(* fits and has no NUL: nothing behind the statement and nothing less,     *)
(* for every SQL_MAX and every length the statement comes with.            *)
THEOREM LongestPrefixIsShown == Spec => []ShownIsLongestPrefix
<1>1. ASSUME Inv, event.clean, event.stmt # Nobody
      PROVE  Shown = IF Readable THEN MinOf(MinOf(Arg.stmt, Arg.nul), SQL_MAX - 1) ELSE 0
  <2>1. /\ Arg \in Calls /\ event.stmt = event.truth
        /\ ~Arg.ptr => Shown = 0
        /\ Arg.ptr => Shown = Visible(SqlLen(Arg), Copied(Arg))
    BY <1>1, ShownFacts
  <2>2. /\ Arg.stmt \in Nat /\ Arg.nul \in Nat /\ Arg.length \in Nat
        /\ Arg.length = 0 => Arg.stmt = Arg.nul
        /\ Arg.length # 0 => Arg.stmt = Arg.length
    BY <2>1, TextFacts, SqlAssumption
  <2>3. CASE ~Arg.ptr BY <2>1, <2>3 DEF Readable
  <2>4. CASE Arg.ptr /\ Arg.fault
    BY <2>1, <2>2, <2>4, SqlAssumption DEF Readable, Visible, SqlLen, Copied, MinOf
  <2>5. CASE Arg.ptr /\ ~Arg.fault
    <3>1. Readable BY <1>1, <2>1, <2>5 DEF Readable
    <3> QED BY <2>1, <2>2, <2>5, <3>1, SqlAssumption DEF Visible, SqlLen, Copied, MinOf
  <2> QED BY <2>3, <2>4, <2>5
<1>2. Inv => ShownIsLongestPrefix BY <1>1 DEF ShownIsLongestPrefix
<1> QED BY <1>2, AlwaysInv, PTL

(* When Firebird passes a length, sql_truncated says exactly that the      *)
(* statement did not fit, for every SQL_MAX.                               *)
THEOREM FlagIsExact == Spec => []FlagIsExactForGivenLength
<1>1. ASSUME Inv, event.stmt # Nobody, Readable, Arg.length # 0, Arg.nul >= Arg.stmt
      PROVE  event.sql_truncated <=> Shown < Arg.stmt
  <2>1. event.clean /\ Arg.ptr /\ ~Arg.fault BY <1>1 DEF Readable
  <2>2. /\ Arg \in Calls /\ Shown = Visible(SqlLen(Arg), Copied(Arg))
        /\ event.sql_truncated = IsTruncated(Arg)
    BY <1>1, <2>1, ShownFacts
  <2>3. /\ Arg.stmt \in Nat /\ Arg.nul \in Nat /\ Arg.length \in Nat
        /\ Arg.stmt = Arg.length
    BY <1>1, <2>2, TextFacts, SqlAssumption
  <2>4. Copied(Arg) = MinOf(Arg.nul, SQL_MAX - 1) /\ SqlLen(Arg) = Arg.stmt
    BY <1>1, <2>1, <2>2, <2>3, TextFacts DEF SqlLen
  <2>5. IsTruncated(Arg) <=> Shown < Arg.stmt
    <3>1. IsTruncated(Arg) <=> Copied(Arg) >= SQL_MAX - 1 /\ Arg.stmt > Copied(Arg)
      BY <2>3 DEF IsTruncated
    <3>2. Shown = MinOf(MinOf(Arg.stmt, SQL_MAX), MinOf(Arg.nul, SQL_MAX - 1))
      BY <2>2, <2>4 DEF Visible
    <3>3. Arg.nul >= Arg.stmt BY <1>1
    <3> QED BY <2>3, <2>4, <3>1, <3>2, <3>3, SqlAssumption DEF MinOf
  <2> QED BY <2>2, <2>5
<1>2. Inv => FlagIsExactForGivenLength BY <1>1 DEF FlagIsExactForGivenLength
<1> QED BY <1>2, AlwaysInv, PTL
=============================================================================
