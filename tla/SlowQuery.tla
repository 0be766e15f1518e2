----------------------------- MODULE SlowQuery -----------------------------
(***************************************************************************)
(* tragach-slowquery: ten uprobes on five functions of libEngine13.so and  *)
(* the BPF maps that join a statement's prepare to its executions.         *)
(*                                                                         *)
(* The traced side is Firebird: every thread has a stack of calls to the   *)
(* probed functions (PSQL run by a call makes further calls on the same    *)
(* thread), DsqlRequest and DsqlCursor addresses are allocated, freed and  *)
(* reused, and none of the frees is probed.  The tracer sees only the      *)
(* probe firings; a probe body runs to completion on its CPU, so each one  *)
(* is part of the action of the call or return that fires it (preemption   *)
(* inside a probe body, which the per-CPU scratch buffers are exposed to,  *)
(* is what StatementCapture is about).  Likewise one step here: the get of *)
(* OPEN_CURSORS and the copy of the 16 bytes it points to, between which   *)
(* another CPU could evict and refill the element; StatementCapture shows  *)
(* that race for PREPARED_STATEMENTS, AttachLifecycle for LIVE.            *)
(*                                                                         *)
(* A statement stands for one captured (Attachment, SQL text) pair; Unknown *)
(* is the all-zero capture of an event emitted without a prepare.          *)
(***************************************************************************)
EXTENDS Naturals, Sequences, FiniteSets, BpfMaps

CONSTANTS Threads, Requests, Cursors, Stmts,
          Unknown,
          InProgressMax,    \* 8192: entries of each *_IN_PROGRESS map
          PreparedMax,      \* 1024: entries of PREPARED_STATEMENTS
          CursorsMax,       \* 1024: entries of OPEN_CURSORS
          RingSlots,        \* records that fit the 256 KiB EVENTS ring
          Workloads,        \* bound: in one behaviour, the functions Firebird's clients
                            \* call (fns), the threads that do (threads), whether calls
                            \* start only when every probe is attached (quiet), and how
                            \* many calls and returns there are (steps)
          MaxDepth          \* bound: nested probed calls of a thread

(* A request and a cursor may get the same address at different times, but *)
(* no map holds both, so addresses are told apart by what they point to.   *)
ASSUME ConstantsAssumption ==
    /\ Requests \cap Cursors = {}
    /\ Unknown \notin Stmts
    /\ \A w \in Workloads : w.quiet \in BOOLEAN /\ w.steps \in Nat
    /\ MaxDepth \in Nat
    /\ RingSlots \in Nat

Fns == {"prepare", "execute", "immediate", "openCursor", "fetchNext"}

(* main attaches the pairs one by one, the entry probe of a pair first.    *)
PairNo == [prepare |-> 1, execute |-> 2, immediate |-> 3,
           openCursor |-> 4, fetchNext |-> 5]
Probes == 10

(* The functions that run a compiled request, and so PSQL that calls back. *)
RunsPsql == {"execute", "immediate", "openCursor", "fetchNext"}

VARIABLES
    clients,              \* the workload of this behaviour
    attached,             \* probes attached so far, in main's order
    clock,                \* bpf_ktime_get_ns, advanced by every call and return
    stack,                \* Firebird: the probed calls each thread is in
    stmtAt,               \* Firebird: live DsqlRequest* -> its statement
    cursorAt,             \* Firebird: live DsqlCursor* -> its openCursor call
    inProgress,           \* the five *_IN_PROGRESS maps, keyed by tid
    PREPARED_STATEMENTS,
    OPEN_CURSORS,
    EVENTS,
    missed                \* history: live pointers whose creation was not recorded

traced == <<clock, stack, stmtAt, cursorAt>>
maps == <<inProgress, PREPARED_STATEMENTS, OPEN_CURSORS, EVENTS>>
vars == <<clients, attached, clock, stack, stmtAt, cursorAt, inProgress,
          PREPARED_STATEMENTS, OPEN_CURSORS, EVENTS, missed>>

Init ==
    /\ clients \in Workloads
    /\ attached = 0
    /\ clock = 0
    /\ stack = [t \in Threads |-> <<>>]
    /\ stmtAt = NoEntries
    /\ cursorAt = NoEntries
    /\ inProgress = [fn \in Fns |-> NoEntries]
    /\ PREPARED_STATEMENTS = NoEntries
    /\ OPEN_CURSORS = NoEntries
    /\ EVENTS = <<>>
    /\ missed = {}

-----------------------------------------------------------------------------
(* Attaching.                                                              *)

EntryAttached(fn) == attached >= 2 * PairNo[fn] - 1
ExitAttached(fn) == attached >= 2 * PairNo[fn]

AttachNext ==
    /\ attached < Probes
    /\ attached' = attached + 1
    /\ UNCHANGED <<clients, traced, maps, missed>>

-----------------------------------------------------------------------------
(* Calls: the entry probes.                                                *)

(* What an entry probe stores under the tid; FETCH_IN_PROGRESS has no time. *)
(* The probes' null checks never fire: Firebird passes no null request,    *)
(* cursor or statement to these functions.                                 *)
EntryOf(fn, arg, now) ==
    [arg |-> arg, ts |-> IF fn = "fetchNext" THEN 0 ELSE now]

Recorded(t, fn, arg) ==
    /\ EntryAttached(fn)
    /\ HasRoom(inProgress[fn], t, InProgressMax)

(* A call in progress.  armed: the exit probe was attached at entry, so    *)
(* the kernel planted the return trampoline.  kept (history): the entry    *)
(* was stored and no nested call to the same function replaced it.         *)
Frame(t, fn, arg) ==
    [fn |-> fn, arg |-> arg, ts |-> clock,
     armed |-> ExitAttached(fn), kept |-> Recorded(t, fn, arg)]

Shadowed(frames, fn) ==
    [i \in 1..Len(frames) |->
        IF frames[i].fn = fn THEN [frames[i] EXCEPT !.kept = FALSE] ELSE frames[i]]

CanCall(t, fn) ==
    /\ t \in clients.threads /\ fn \in clients.fns
    /\ clients.quiet => attached = Probes
    /\ clock < clients.steps
    /\ Len(stack[t]) < MaxDepth
    /\ stack[t] # <<>> => stack[t][Len(stack[t])].fn \in RunsPsql

Call(t, fn, arg) ==
    /\ CanCall(t, fn)
    /\ clock' = clock + 1
    /\ stack' = [stack EXCEPT ![t] = Append(Shadowed(@, fn), Frame(t, fn, arg))]
    /\ inProgress' = [inProgress EXCEPT ![fn] =
          IF Recorded(t, fn, arg) THEN Put(@, t, EntryOf(fn, arg, clock)) ELSE @]
    /\ UNCHANGED <<clients, attached, stmtAt, cursorAt, PREPARED_STATEMENTS,
                   OPEN_CURSORS, EVENTS, missed>>

InUse(ptr) == \E t \in Threads : \E i \in 1..Len(stack[t]) : stack[t][i].arg = ptr
HasCursor(r) == \E c \in DOMAIN cursorAt : cursorAt[c].req = r

CallPrepare(t, s) == Call(t, "prepare", s)
CallImmediate(t, s) == Call(t, "immediate", s)
CallExecute(t, r) ==
    r \in DOMAIN stmtAt /\ ~InUse(r) /\ ~HasCursor(r) /\ Call(t, "execute", r)
CallOpenCursor(t, r) ==
    r \in DOMAIN stmtAt /\ ~InUse(r) /\ ~HasCursor(r) /\ Call(t, "openCursor", r)
CallFetchNext(t, c) ==
    c \in DOMAIN cursorAt /\ ~InUse(c) /\ Call(t, "fetchNext", c)

-----------------------------------------------------------------------------
(* Returns: the exit probes.                                               *)

Top(t) == stack[t][Len(stack[t])]
Pop(frames) == SubSeq(frames, 1, Len(frames) - 1)

(* The exit probe fires and finds an entry of this thread.                 *)
Found(t, fn) == Top(t).armed /\ t \in DOMAIN inProgress[fn]

(* Mutant: the exit probe forgets to remove the thread's entry.            *)
ReturnKeepsEntry(t, fn) ==
    /\ stack[t] # <<>>
    /\ Top(t).fn = fn
    /\ clock < clients.steps
    /\ clock' = clock + 1
    /\ stack' = [stack EXCEPT ![t] = Pop(@)]
    /\ UNCHANGED <<clients, attached, inProgress>>

(* Common part of the five returns: the frame goes, and the exit probe, if *)
(* it fires, removes the thread's entry.                                   *)
Return(t, fn) ==
    /\ stack[t] # <<>>
    /\ Top(t).fn = fn
    /\ clock < clients.steps
    /\ clock' = clock + 1
    /\ stack' = [stack EXCEPT ![t] = Pop(@)]
    /\ inProgress' = [inProgress EXCEPT ![fn] = IF Found(t, fn) THEN Del(@, t) ELSE @]
    /\ UNCHANGED <<clients, attached>>

(* Mutant: the last free slot of the ring is not used.                     *)
EmitUnlessNearlyFull(event) ==
    EVENTS' = IF Len(EVENTS) + 1 < RingSlots THEN Append(EVENTS, event) ELSE EVENTS

(* EVENTS.reserve fails when the ring is full and the event is lost.       *)
emit_event(event) ==
    EVENTS' = IF Len(EVENTS) < RingSlots THEN Append(EVENTS, event) ELSE EVENTS

(* PREPARED_STATEMENTS.get, and the zeros emitted for None.                *)
PreparedOr0(r) ==
    IF r \in DOMAIN PREPARED_STATEMENTS THEN PREPARED_STATEMENTS[r]
    ELSE [stmt |-> Unknown, prepare_ns |-> 0]

(* Mutant: attachment_id and prepare_ns, both u64, swapped.                *)
EventSwapped(t, prepared, execute_ns, truth) ==
    [tid |-> t, stmt |-> prepared.prepare_ns, prepare_ns |-> prepared.stmt,
     execute_ns |-> execute_ns, truth |-> truth]

(* A SlowQueryEvent; truth is history: what the event is really about.     *)
Event(t, prepared, execute_ns, truth) ==
    [tid |-> t, stmt |-> prepared.stmt, prepare_ns |-> prepared.prepare_ns,
     execute_ns |-> execute_ns, truth |-> truth]

Truth(prepared, execute_ns, sureStmt, sureTime) ==
    [stmt |-> prepared.stmt, prepare_ns |-> prepared.prepare_ns,
     execute_ns |-> execute_ns, sureStmt |-> sureStmt, sureTime |-> sureTime]

Remember(ptr, recorded) == IF recorded THEN missed \ {ptr} ELSE missed \cup {ptr}

Elapsed(entry) == SaturatingSub(clock, entry.ts)

ReturnPrepareFails(t) ==
    /\ Return(t, "prepare")
    /\ UNCHANGED <<stmtAt, cursorAt, PREPARED_STATEMENTS, OPEN_CURSORS, EVENTS, missed>>

ReturnPrepare(t, r) ==
    /\ r \notin DOMAIN stmtAt
    /\ Return(t, "prepare")
    /\ stmtAt' = Put(stmtAt, r, [stmt |-> Top(t).arg, prepare_ns |-> clock - Top(t).ts])
    /\ IF Found(t, "prepare")
       THEN PREPARED_STATEMENTS' \in LruInserts(PREPARED_STATEMENTS, r,
              [stmt |-> inProgress["prepare"][t].arg,
               prepare_ns |-> Elapsed(inProgress["prepare"][t])],
              PreparedMax)
       ELSE UNCHANGED PREPARED_STATEMENTS
    /\ missed' = Remember(r, Found(t, "prepare"))
    /\ UNCHANGED <<cursorAt, OPEN_CURSORS, EVENTS>>

ReturnExecute(t) ==
    /\ Return(t, "execute")
    /\ IF Found(t, "execute")
       THEN emit_event(Event(t, PreparedOr0(inProgress["execute"][t].arg),
              Elapsed(inProgress["execute"][t]),
              Truth(stmtAt[Top(t).arg], clock - Top(t).ts,
                    Top(t).arg \notin missed, TRUE)))
       ELSE UNCHANGED EVENTS
    /\ UNCHANGED <<stmtAt, cursorAt, PREPARED_STATEMENTS, OPEN_CURSORS, missed>>

ReturnImmediate(t) ==
    /\ Return(t, "immediate")
    /\ IF Found(t, "immediate")
       THEN emit_event(Event(t, [stmt |-> inProgress["immediate"][t].arg, prepare_ns |-> 0],
              Elapsed(inProgress["immediate"][t]),
              Truth([stmt |-> Top(t).arg, prepare_ns |-> 0], clock - Top(t).ts,
                    TRUE, TRUE)))
       ELSE UNCHANGED EVENTS
    /\ UNCHANGED <<stmtAt, cursorAt, PREPARED_STATEMENTS, OPEN_CURSORS, missed>>

ReturnOpenCursorFails(t) ==
    /\ Return(t, "openCursor")
    /\ UNCHANGED <<stmtAt, cursorAt, PREPARED_STATEMENTS, OPEN_CURSORS, EVENTS, missed>>

ReturnOpenCursor(t, c) ==
    /\ c \notin DOMAIN cursorAt
    /\ Return(t, "openCursor")
    /\ cursorAt' = Put(cursorAt, c,
          [req |-> Top(t).arg, ts |-> Top(t).ts, reports |-> 0])
    /\ IF Found(t, "openCursor")
       THEN OPEN_CURSORS' \in LruInserts(OPEN_CURSORS, c,
              inProgress["openCursor"][t], CursorsMax)
       ELSE UNCHANGED OPEN_CURSORS
    /\ missed' = Remember(c, Found(t, "openCursor"))
    /\ UNCHANGED <<stmtAt, PREPARED_STATEMENTS, EVENTS>>

(* fetchNext returns a row: 0, not EOF.                                    *)
ReturnFetchRow(t) ==
    /\ Return(t, "fetchNext")
    /\ UNCHANGED <<stmtAt, cursorAt, PREPARED_STATEMENTS, OPEN_CURSORS, EVENTS, missed>>

(* The cursor looked up is the one the entry probe stored.                 *)
OpenFound(t) ==
    /\ Found(t, "fetchNext")
    /\ inProgress["fetchNext"][t].arg \in DOMAIN OPEN_CURSORS

(* Mutant: timed from the entry of the last fetchNext, not of openCursor.  *)
EofEventFromFetch(t, c, opened, cursor) ==
    Event(t, PreparedOr0(opened.arg), Elapsed(inProgress["fetchNext"][t]),
          Truth(stmtAt[cursor.req], clock - cursor.ts,
                c \notin missed /\ cursor.req \notin missed, c \notin missed))

(* At EOF: the span from openCursor's entry, under the cursor's statement. *)
EofEvent(t, c, opened, cursor) ==
    Event(t, PreparedOr0(opened.arg), Elapsed(opened),
          Truth(stmtAt[cursor.req], clock - cursor.ts,
                c \notin missed /\ cursor.req \notin missed, c \notin missed))

(* Mutant: the cursor stays in OPEN_CURSORS after its EOF was reported.    *)
ReturnFetchEofKeepsCursor(t) ==
    /\ Return(t, "fetchNext")
    /\ IF OpenFound(t)
       THEN /\ emit_event(EofEvent(t, Top(t).arg,
                  OPEN_CURSORS[inProgress["fetchNext"][t].arg], cursorAt[Top(t).arg]))
            /\ cursorAt' = [cursorAt EXCEPT ![Top(t).arg].reports = @ + 1]
       ELSE UNCHANGED <<EVENTS, cursorAt>>
    /\ UNCHANGED <<OPEN_CURSORS, stmtAt, PREPARED_STATEMENTS, missed>>

(* fetchNext returns EOF: the cursor is reported and forgotten.            *)
ReturnFetchEof(t) ==
    /\ Return(t, "fetchNext")
    /\ IF OpenFound(t)
       THEN /\ OPEN_CURSORS' = Del(OPEN_CURSORS, inProgress["fetchNext"][t].arg)
            /\ emit_event(EofEvent(t, Top(t).arg,
                  OPEN_CURSORS[inProgress["fetchNext"][t].arg], cursorAt[Top(t).arg]))
            /\ cursorAt' = [cursorAt EXCEPT ![Top(t).arg].reports = @ + 1]
       ELSE UNCHANGED <<OPEN_CURSORS, EVENTS, cursorAt>>
    /\ UNCHANGED <<stmtAt, PREPARED_STATEMENTS, missed>>

-----------------------------------------------------------------------------
(* What Firebird does unprobed, and the reader of the ring (EventLoop).    *)

DSQL_free_statement(r) ==
    /\ r \in DOMAIN stmtAt /\ ~InUse(r) /\ ~HasCursor(r)
    /\ stmtAt' = Del(stmtAt, r)
    /\ UNCHANGED <<clients, attached, clock, stack, cursorAt, maps, missed>>

CloseCursor(c) ==
    /\ c \in DOMAIN cursorAt /\ ~InUse(c)
    /\ cursorAt' = Del(cursorAt, c)
    /\ UNCHANGED <<clients, attached, clock, stack, stmtAt, maps, missed>>

(* run_event_loop starts once main has attached every probe.               *)
ReadEvent ==
    /\ attached = Probes
    /\ EVENTS # <<>>
    /\ EVENTS' = Tail(EVENTS)
    /\ UNCHANGED <<clients, attached, traced, inProgress, PREPARED_STATEMENTS,
                   OPEN_CURSORS, missed>>

-----------------------------------------------------------------------------
Next ==
    \/ AttachNext
    \/ \E t \in Threads :
          \/ \E s \in Stmts : CallPrepare(t, s) \/ CallImmediate(t, s)
          \/ \E r \in Requests : CallExecute(t, r) \/ CallOpenCursor(t, r)
          \/ \E c \in Cursors : CallFetchNext(t, c)
          \/ ReturnPrepareFails(t)
          \/ \E r \in Requests : ReturnPrepare(t, r)
          \/ ReturnExecute(t)
          \/ ReturnImmediate(t)
          \/ ReturnOpenCursorFails(t)
          \/ \E c \in Cursors : ReturnOpenCursor(t, c)
          \/ ReturnFetchRow(t)
          \/ ReturnFetchEof(t)
    \/ \E r \in Requests : DSQL_free_statement(r)
    \/ \E c \in Cursors : CloseCursor(c)
    \/ ReadEvent

Spec == Init /\ [][Next]_vars

-----------------------------------------------------------------------------
(* Properties.                                                             *)

ArgsOf(fn) ==
    IF fn \in {"prepare", "immediate"} THEN Stmts
    ELSE IF fn = "fetchNext" THEN Cursors ELSE Requests

FrameType == [fn : Fns, arg : Stmts \cup Requests \cup Cursors, ts : Nat,
              armed : BOOLEAN, kept : BOOLEAN]
EntryType(fn) == [arg : ArgsOf(fn), ts : Nat]
PreparedType == [stmt : Stmts, prepare_ns : Nat]
CursorType == [req : Requests, ts : Nat, reports : Nat]
TruthType == [stmt : Stmts, prepare_ns : Nat, execute_ns : Nat,
              sureStmt : BOOLEAN, sureTime : BOOLEAN]
EventType == [tid : Threads, stmt : Stmts \cup {Unknown}, prepare_ns : Nat,
              execute_ns : Nat, truth : TruthType]

IsMap(map, keys, values) ==
    /\ map = [k \in DOMAIN map |-> map[k]]
    /\ DOMAIN map \subseteq keys
    /\ \A k \in DOMAIN map : map[k] \in values

CallsOK ==
    /\ attached \in 0..Probes
    /\ clock \in Nat
    /\ stack \in [Threads -> Seq(FrameType)]
    /\ \A t \in Threads : \A i \in 1..Len(stack[t]) :
          stack[t][i].arg \in ArgsOf(stack[t][i].fn)
    /\ inProgress = [fn \in Fns |-> inProgress[fn]]
    /\ \A fn \in Fns : IsMap(inProgress[fn], Threads, EntryType(fn))

DataOK ==
    /\ IsMap(stmtAt, Requests, PreparedType)
    /\ IsMap(cursorAt, Cursors, CursorType)
    /\ IsMap(PREPARED_STATEMENTS, Requests, PreparedType)
    /\ IsMap(OPEN_CURSORS, Cursors, EntryType("openCursor"))
    /\ EVENTS \in Seq(EventType)
    /\ missed \in SUBSET (Requests \cup Cursors)

(* The variables have the types of the structs and maps they stand for.    *)
TypeOK == CallsOK /\ DataOK

Events == {EVENTS[i] : i \in 1..Len(EVENTS)}

NoneAbove(t, i) ==
    \A j \in (i + 1)..Len(stack[t]) : stack[t][j].fn # stack[t][i].fn

(* The pairing of entry and exit probes by tid: a call whose entry was     *)
(* kept has exactly its own entry in the map, and a call that lost it      *)
(* finds none, never the entry of another call, unless the exit probe was  *)
(* not there yet when it started.                                          *)
EntryPairing ==
    \A t \in Threads : \A i \in 1..Len(stack[t]) :
        /\ stack[t][i].kept =>
              /\ NoneAbove(t, i)
              /\ t \in DOMAIN inProgress[stack[t][i].fn]
              /\ inProgress[stack[t][i].fn][t] =
                    EntryOf(stack[t][i].fn, stack[t][i].arg, stack[t][i].ts)
        /\ (stack[t][i].armed /\ ~stack[t][i].kept /\ NoneAbove(t, i))
              => t \notin DOMAIN inProgress[stack[t][i].fn]

(* Pointers may be freed and reused unseen, yet what the LRU maps hold for *)
(* a live pointer whose creation was recorded is what Firebird has there.  *)
MapsTellTruth ==
    /\ \A r \in DOMAIN PREPARED_STATEMENTS \cap DOMAIN stmtAt :
          r \notin missed => PREPARED_STATEMENTS[r] = stmtAt[r]
    /\ \A c \in DOMAIN OPEN_CURSORS \cap DOMAIN cursorAt :
          c \notin missed =>
            /\ OPEN_CURSORS[c].arg = cursorAt[c].req
            /\ OPEN_CURSORS[c].ts = cursorAt[c].ts

(* execute_ns is the wall-clock of the very call (or openCursor..EOF span) *)
(* the event reports, however calls nest, whatever the maps lost; only a   *)
(* cursor whose openCursor return was not recorded is excepted.            *)
ExactTiming ==
    \A e \in Events : e.truth.sureTime => e.execute_ns = e.truth.execute_ns

(* The SQL, attachment and prepare time of an event are those of the       *)
(* statement that ran, or Unknown with zeros, despite pointer reuse after  *)
(* unprobed frees, LRU eviction, nesting and full maps; only a request or  *)
(* cursor whose creation was not recorded is excepted.                     *)
OwnStatement ==
    \A e \in Events : e.truth.sureStmt =>
        \/ e.stmt = e.truth.stmt /\ e.prepare_ns = e.truth.prepare_ns
        \/ e.stmt = Unknown /\ e.prepare_ns = 0

(* An event never shows another statement's SQL (it may show none): what   *)
(* the comment in run_event_loop says of executes whose prepare was not    *)
(* seen because the probes were attached mid-flight.                       *)
StatementNeverForeign ==
    \A e \in Events : e.stmt \in {Unknown, e.truth.stmt}

(* A cursor opened once is reported at most once, even if fetchNext is     *)
(* called again after EOF.                                                 *)
CursorReportedOnce == \A c \in DOMAIN cursorAt : cursorAt[c].reports <= 1

(* With every probe attached before the first call, an *_IN_PROGRESS entry *)
(* belongs to a call that is still on its thread's stack: finished calls   *)
(* leave nothing that could fill the maps.                                 *)
NoLeak ==
    clients.quiet => \A fn \in Fns : \A t \in DOMAIN inProgress[fn] :
        \E i \in 1..Len(stack[t]) : stack[t][i].fn = fn

(* The call on top of t's stack returns in this step.                      *)
Returning(t, fns) ==
    /\ stack[t] # <<>>
    /\ Top(t).fn \in fns
    /\ stack'[t] = Pop(stack[t])

Reported == EVENTS' # EVENTS /\ Len(EVENTS') = Len(EVENTS) + 1

(* A DSQL_execute or DSQL_execute_immediate whose entry was stored with    *)
(* the exit probe attached, and in which no call to the same function was  *)
(* nested, is reported when it returns, unless the ring is full.           *)
EventUnlessClobbered ==
    [][\A t \in Threads :
        /\ Returning(t, {"execute", "immediate"})
        /\ Top(t).armed /\ Top(t).kept
        /\ Len(EVENTS) < RingSlots
        => Reported]_vars

(* SPECS.md: one event per DSQL_execute or DSQL_execute_immediate call     *)
(* (made with the probes attached and room in the ring).                   *)
OneEventPerExecute ==
    [][\A t \in Threads :
        /\ Returning(t, {"execute", "immediate"})
        /\ Top(t).armed
        /\ Len(EVENTS) < RingSlots
        => Reported]_vars
=============================================================================
