-------------------------- MODULE StatementCapture --------------------------
(***************************************************************************)
(* How the SQL of a statement gets from the arguments of DSQL_prepare or   *)
(* DSQL_execute_immediate into an event, instruction by instruction: the   *)
(* per-CPU WITH_SQL_SCRATCH and PREPARED_SCRATCH are filled in several     *)
(* steps and then inserted, and exit probes read map elements through      *)
(* pointers.  (SlowQuery takes each probe body as one step.)               *)
(*                                                                         *)
(* Kernel facts: a uprobe program stays on its CPU but may be preempted    *)
(* there by a thread that fires another probe; an insert copies its value  *)
(* under the bucket lock; a removed or evicted element is free at once,    *)
(* even while a program on another CPU holds a pointer to it.              *)
(*                                                                         *)
(* A capture is WithSql or PreparedStatement: stmt stands for the header   *)
(* (attachment, times), sql for the text: the first n bytes of text `of'.  *)
(* All probes are attached, the *_IN_PROGRESS maps and the ring have room. *)
(***************************************************************************)
EXTENDS Naturals, FiniteSets, BpfMaps, SqlText

CONSTANTS Threads, Requests, Stmts,
          Nobody,        \* the statement of an event without a prepare
          Cpus,
          Elements,      \* elements of PREPARE_ and IMMEDIATE_IN_PROGRESS
          LruElements,   \* elements of PREPARED_STATEMENTS
          Scenarios      \* bound: the threads of a behaviour, the calls they make
                         \* and the arguments the statements come with

ASSUME CaptureAssumption ==
    /\ Nobody \notin Stmts
    /\ Cardinality(Elements) >= Cardinality(Threads)
    /\ \A sc \in Scenarios :
          sc.threads \subseteq Threads /\ sc.calls \in Nat /\ sc.args \in [Stmts -> Calls]

Fns == {"prepare", "immediate"}

NoText == [of |-> Nobody, n |-> 0]
NoSql == [stmt |-> Nobody, sql_len |-> 0, sql_truncated |-> FALSE, sql |-> NoText]

VARIABLES
    scenario,              \* Firebird: who calls, with what
    calls,                 \* Firebird: calls made
    live,                  \* Firebird: DsqlRequest* -> its statement, and (history)
                           \* whether its capture was left alone
    job,                   \* what each thread's probe, or its call, is at
    WITH_SQL_SCRATCH, PREPARED_SCRATCH,
    IN_PROGRESS,           \* PREPARE_ and IMMEDIATE_IN_PROGRESS: tid -> element
    PREPARED_STATEMENTS,   \* DsqlRequest* -> element
    element,               \* the values in IN_PROGRESS's elements
    lruElement,            \* the values in PREPARED_STATEMENTS's elements
    event                  \* the event submitted last

traced == <<scenario, calls, live>>
scratch == <<WITH_SQL_SCRATCH, PREPARED_SCRATCH>>
hash == <<IN_PROGRESS, element>>
lru == <<PREPARED_STATEMENTS, lruElement>>
vars == <<scenario, calls, live, job, WITH_SQL_SCRATCH, PREPARED_SCRATCH, IN_PROGRESS,
          PREPARED_STATEMENTS, element, lruElement, event>>

(* cpu: where the probe runs; clean (history): nobody wrote to what it is  *)
(* using; reg: the header it has read; at: its next step.                  *)
Idle == [at |-> "idle", fn |-> "prepare", stmt |-> Nobody, cpu |-> Nobody, req |-> Nobody,
         ptr |-> Nobody, reg |-> NoSql, clean |-> TRUE]

(* A SlowQueryEvent; truth and clean are history: the statement that ran,  *)
(* and that nothing the event was put together from was written to.        *)
Event(head, sql, truth, clean) ==
    [stmt |-> head.stmt, sql_len |-> head.sql_len, sql_truncated |-> head.sql_truncated,
     sql |-> sql, truth |-> truth, clean |-> clean]

args == scenario.args

Init ==
    /\ scenario \in Scenarios
    /\ calls = 0
    /\ live = NoEntries
    /\ job = [t \in Threads |-> Idle]
    /\ WITH_SQL_SCRATCH = [c \in Cpus |-> NoSql]
    /\ PREPARED_SCRATCH = [c \in Cpus |-> NoSql]
    /\ IN_PROGRESS = [fn \in Fns |-> NoEntries]
    /\ PREPARED_STATEMENTS = NoEntries
    /\ element = [fn \in Fns |-> [e \in Elements |-> NoSql]]
    /\ lruElement = [e \in LruElements |-> NoSql]
    /\ event = Event(NoSql, NoText, Nobody, TRUE)

(* Threads between the first write to the scratch buffer and the insert.   *)
UsesWithSql(u, c) == job[u].at \in {"read", "insert"} /\ job[u].cpu = c
UsesPrepared(u, c) == job[u].at \in {"copy", "publish"} /\ job[u].cpu = c
(* A thread that holds a pointer to element e of PREPARED_STATEMENTS.      *)
ReadsLru(u, e) == job[u].at = "emit" /\ job[u].fn = "execute" /\ job[u].ptr = e

(* t goes on to `next'; whoever is disturbed by this step is not clean.    *)
Step(t, next, Disturbed(_)) ==
    job' = [u \in Threads |->
              IF u = t THEN next
              ELSE IF Disturbed(u) THEN [job[u] EXCEPT !.clean = FALSE] ELSE job[u]]

Nobodys(u) == FALSE

(* Mutant: one buffer for all CPUs.                                        *)
BufferShared(c) == CHOOSE d \in Cpus : TRUE
(* PerCpuArray::get_ptr_mut(0) *)
Buffer(c) == c

-----------------------------------------------------------------------------
(* try_capture_sql_entry                                                   *)

(* The header, and zeros for the text.                                     *)
CaptureHeader(t, fn, s, c) ==
    /\ job[t].at = "idle" /\ calls < scenario.calls
    /\ calls' = calls + 1
    /\ WITH_SQL_SCRATCH' = [WITH_SQL_SCRATCH EXCEPT ![Buffer(c)] =
          [NoSql EXCEPT !.stmt = s, !.sql_len = args[s].length]]
    /\ Step(t, [Idle EXCEPT !.at = "read", !.fn = fn, !.stmt = s, !.cpu = c],
            LAMBDA u : UsesWithSql(u, c))
    /\ UNCHANGED <<scenario, live, PREPARED_SCRATCH, hash, lru, event>>

(* The text, and what is known only now of sql_len and sql_truncated.      *)
CaptureText(t) ==
    /\ job[t].at = "read"
    /\ LET a == args[job[t].stmt]
       IN  WITH_SQL_SCRATCH' = [WITH_SQL_SCRATCH EXCEPT ![Buffer(job[t].cpu)] =
             IF a.ptr
             THEN [stmt |-> @.stmt,
                   sql |-> [of |-> job[t].stmt, n |-> Copied(a)],
                   sql_len |-> IF a.length = 0 THEN SqlLen(a) ELSE @.sql_len,
                   sql_truncated |-> @.sql_truncated \/ IsTruncated(a)]
             ELSE [@ EXCEPT !.sql_len = 0]]
    /\ Step(t, [job[t] EXCEPT !.at = "insert"],
            LAMBDA u : UsesWithSql(u, job[t].cpu))
    /\ UNCHANGED <<traced, PREPARED_SCRATCH, hash, lru, event>>

Free(fn) == Elements \ {IN_PROGRESS[fn][u] : u \in DOMAIN IN_PROGRESS[fn]}

CaptureInsert(t, e) ==
    LET fn == job[t].fn IN
    /\ job[t].at = "insert" /\ e \in Free(fn)
    /\ IN_PROGRESS' = [IN_PROGRESS EXCEPT ![fn] = Put(@, t, e)]
    /\ element' = [element EXCEPT ![fn][e] = WITH_SQL_SCRATCH[Buffer(job[t].cpu)]]
    /\ Step(t, [job[t] EXCEPT !.at = "call"], Nobodys)
    /\ UNCHANGED <<traced, scratch, lru, event>>

-----------------------------------------------------------------------------
(* try_prepare_exit: header, text, remove and insert.                      *)

(* Mutant: the entry is not removed.                                       *)
RemovedNever(t, fn) == IN_PROGRESS
Removed(t, fn) == [IN_PROGRESS EXCEPT ![fn] = Del(@, t)]

(* Mutant: the entry is removed as soon as its header has been read.       *)
HeldRemoved(t, fn) == [IN_PROGRESS EXCEPT ![fn] = Del(@, t)]
(* The entry stays in the map for as long as the probe has its pointer.    *)
Held(t, fn) == IN_PROGRESS

PrepareFails(t) ==
    /\ job[t].at = "call" /\ job[t].fn = "prepare"
    /\ IN_PROGRESS' = Removed(t, "prepare")
    /\ Step(t, Idle, Nobodys)
    /\ UNCHANGED <<traced, scratch, element, lru, event>>

(* prepare returns r: a new address, or that of a freed request.           *)
PrepareHeader(t, c, r) ==
    LET e == IN_PROGRESS["prepare"][t] IN
    /\ job[t].at = "call" /\ job[t].fn = "prepare"
    /\ \A u \in Threads : job[u].req # r
    /\ PREPARED_SCRATCH' = [PREPARED_SCRATCH EXCEPT ![Buffer(c)] =
          [element["prepare"][e] EXCEPT !.sql = PREPARED_SCRATCH[Buffer(c)].sql]]
    /\ IN_PROGRESS' = Held(t, "prepare")
    /\ Step(t, [job[t] EXCEPT !.at = "copy", !.cpu = c, !.req = r, !.ptr = e],
            LAMBDA u : UsesPrepared(u, c))
    /\ UNCHANGED <<traced, WITH_SQL_SCRATCH, element, lru, event>>

PrepareText(t) ==
    /\ job[t].at = "copy"
    /\ PREPARED_SCRATCH' = [PREPARED_SCRATCH EXCEPT ![Buffer(job[t].cpu)].sql =
          element["prepare"][job[t].ptr].sql]
    /\ IN_PROGRESS' = Removed(t, "prepare")
    /\ Step(t, [job[t] EXCEPT !.at = "publish"],
            LAMBDA u : UsesPrepared(u, job[t].cpu))
    /\ UNCHANGED <<traced, WITH_SQL_SCRATCH, element, lru, event>>

(* PREPARED_STATEMENTS.insert: any element may be taken, and loses its key. *)
PrepareInsert(t, e) ==
    LET r == job[t].req IN
    /\ job[t].at = "publish"
    /\ PREPARED_STATEMENTS' = Put(Keep(PREPARED_STATEMENTS,
          {k \in DOMAIN PREPARED_STATEMENTS : PREPARED_STATEMENTS[k] # e}), r, e)
    /\ lruElement' = [lruElement EXCEPT ![e] = PREPARED_SCRATCH[Buffer(job[t].cpu)]]
    /\ live' = Put(live, r, [stmt |-> job[t].stmt, clean |-> job[t].clean])
    /\ Step(t, Idle, LAMBDA u : ReadsLru(u, e))
    /\ UNCHANGED <<scenario, calls, scratch, hash, event>>

-----------------------------------------------------------------------------
(* try_execute_exit, try_fetch_next_exit at EOF, try_immediate_exit: the   *)
(* header is read first, emit_event then copies the text.                  *)

ExecuteHeader(t, r) ==
    /\ job[t].at = "idle" /\ calls < scenario.calls
    /\ r \in DOMAIN live /\ \A u \in Threads : job[u].req # r
    /\ calls' = calls + 1
    /\ IF r \in DOMAIN PREPARED_STATEMENTS
       THEN /\ Step(t, [Idle EXCEPT !.at = "emit", !.fn = "execute", !.req = r,
                            !.stmt = live[r].stmt, !.clean = live[r].clean,
                            !.ptr = PREPARED_STATEMENTS[r],
                            !.reg = lruElement[PREPARED_STATEMENTS[r]]], Nobodys)
            /\ UNCHANGED event
       ELSE event' = Event(NoSql, NoText, live[r].stmt, live[r].clean) /\ UNCHANGED job
    /\ UNCHANGED <<scenario, live, scratch, hash, lru>>

ExecuteEmit(t) ==
    /\ job[t].at = "emit" /\ job[t].fn = "execute"
    /\ event' = Event(job[t].reg, lruElement[job[t].ptr].sql, job[t].stmt, job[t].clean)
    /\ Step(t, Idle, Nobodys)
    /\ UNCHANGED <<traced, scratch, hash, lru>>

ImmediateHeader(t) ==
    LET e == IN_PROGRESS["immediate"][t] IN
    /\ job[t].at = "call" /\ job[t].fn = "immediate"
    /\ IN_PROGRESS' = Held(t, "immediate")
    /\ Step(t, [job[t] EXCEPT !.at = "emit", !.ptr = e, !.reg = element["immediate"][e]],
            Nobodys)
    /\ UNCHANGED <<traced, scratch, element, lru, event>>

ImmediateEmit(t) ==
    /\ job[t].at = "emit" /\ job[t].fn = "immediate"
    /\ event' = Event(job[t].reg, element["immediate"][job[t].ptr].sql, job[t].stmt,
                      job[t].clean)
    /\ IN_PROGRESS' = Removed(t, "immediate")
    /\ Step(t, Idle, Nobodys)
    /\ UNCHANGED <<traced, scratch, element, lru>>

-----------------------------------------------------------------------------
Next ==
    \E t \in scenario.threads :
        \/ \E fn \in Fns : \E s \in Stmts : \E c \in Cpus : CaptureHeader(t, fn, s, c)
        \/ CaptureText(t)
        \/ \E e \in Elements : CaptureInsert(t, e)
        \/ PrepareFails(t)
        \/ \E c \in Cpus : \E r \in Requests : PrepareHeader(t, c, r)
        \/ PrepareText(t)
        \/ \E e \in LruElements : PrepareInsert(t, e)
        \/ \E r \in Requests : ExecuteHeader(t, r)
        \/ ExecuteEmit(t)
        \/ ImmediateHeader(t)
        \/ ImmediateEmit(t)

Spec == Init /\ [][Next]_vars

-----------------------------------------------------------------------------
(* Properties.                                                             *)

Texts == [of : Stmts \cup {Nobody}, n : 0..SQL_MAX]
Captures == [stmt : Stmts \cup {Nobody}, sql_len : 0..MaxBytes, sql_truncated : BOOLEAN,
             sql : Texts]

(* Buffers and elements hold captures, no two keys share an element, and   *)
(* only a thread inside a call has an entry in the map of that call.       *)
TypeOK ==
    /\ WITH_SQL_SCRATCH \in [Cpus -> Captures] /\ PREPARED_SCRATCH \in [Cpus -> Captures]
    /\ element \in [Fns -> [Elements -> Captures]]
    /\ lruElement \in [LruElements -> Captures]
    /\ \A k, l \in DOMAIN PREPARED_STATEMENTS :
          PREPARED_STATEMENTS[k] = PREPARED_STATEMENTS[l] => k = l
    /\ \A fn \in Fns : \A t \in DOMAIN IN_PROGRESS[fn] :
          job[t].fn = fn /\ job[t].at # "idle"

(* The header and the text of an event are both those of the statement     *)
(* that ran, or the event is the empty one of an evicted prepare: although *)
(* they are captured and copied in separate steps through buffers and      *)
(* elements that other threads use too.  Excepted are a probe preempted by *)
(* another on its CPU that used the same scratch buffer, and an execute    *)
(* whose PREPARED_STATEMENTS element was evicted and refilled under it.    *)
WholeEvent ==
    event.clean =>
        \/ event = Event(NoSql, NoText, event.truth, TRUE)
        \/ event.stmt = event.truth /\ event.sql.of \in {event.truth, Nobody}

Shown == Visible(event.sql_len, event.sql.n)
Arg == args[event.truth]
Readable == event.clean /\ event.stmt = event.truth /\ Arg.ptr /\ ~Arg.fault

(* The longest prefix of the statement that fits and has no NUL is shown:  *)
(* nothing that lies behind the statement in memory, and nothing less,     *)
(* whether or not Firebird passes a length.  What fits is SQL_MAX - 1 (511) *)
(* bytes, since bpf_probe_read_user_str ends the buffer with a NUL; the    *)
(* docs' "up to 512 bytes" is one more than is ever shown.                 *)
ShownIsLongestPrefix ==
    event.stmt # Nobody /\ event.clean =>
        Shown = IF Readable THEN MinOf(MinOf(Arg.stmt, Arg.nul), SQL_MAX - 1) ELSE 0

(* With an explicit length, sql_truncated says exactly that less than the  *)
(* statement is shown.  That includes one of exactly SQL_MAX bytes, which  *)
(* loses its last byte, and which the docs take to be complete             *)
(* (TruncatedIffLonger).                                                   *)
FlagIsExactForGivenLength ==
    event.stmt # Nobody /\ Readable /\ Arg.length # 0 /\ Arg.nul >= Arg.stmt =>
        (event.sql_truncated <=> Shown < Arg.stmt)

(* README.md: `truncated' is "true when SQL exceeded 512 bytes"; event.rs: *)
(* "anything longer [than SQL_MAX] is truncated and sql_truncated is set". *)
TruncatedIffLonger ==
    event.stmt # Nobody /\ Readable /\ Arg.nul >= Arg.stmt =>
        (event.sql_truncated <=> Arg.stmt > SQL_MAX)
=============================================================================
