----------------------------- MODULE AttachTool -----------------------------
(***************************************************************************)
(* tragach-attach as a whole: main finds the probe offsets in the debug    *)
(* file, attaches the probes of AttachLifecycle to a Firebird that is      *)
(* already running, and prints what run_event_loop lets through.           *)
(***************************************************************************)
EXTENDS AttachLifecycle, SymbolResolve

CONSTANTS DebugFiles,    \* symbol tables the tool may be given
          MinDuration    \* --min-duration; 0: not given

ASSUME ToolAssumption == DebugFiles \subseteq Seq(Symbols) /\ MinDuration \in Nat

VARIABLES
    boot,        \* "paths", "read", "scan", "resolved" or "failed" (main returned an error)
    symtab,      \* the debug file; dropped by resolve
    scanned,     \* symbols resolve has been through
    offsets,     \* AttachOffsets
    announced,   \* history: attachments whose Opened line was printed
    missed,      \* history: attachments whose Opened record found no room
    mistaken     \* history: subjects of Closed records copied after an eviction

starting == <<boot, symtab, scanned, offsets>>
printing == <<announced, missed, mistaken>>
toolVars == <<vars, starting, printing>>

ToolInit ==
    /\ Init
    /\ boot = "paths"
    /\ symtab \in DebugFiles
    /\ scanned = 0
    /\ offsets = NoOffsets
    /\ announced = {} /\ missed = {} /\ mistaken = {}

-----------------------------------------------------------------------------
(* main *)

(* The process ends, and its probes with it.                               *)
Fail == boot' = "failed" /\ UNCHANGED <<vars, symtab, scanned, offsets, printing>>

ensure_paths(exist) ==
    /\ boot = "paths"
    /\ IF exist THEN boot' = "read" /\ UNCHANGED <<vars, symtab, scanned, offsets, printing>>
       ELSE Fail

(* resolve reads the file and parses it as ELF.                            *)
ReadDebugFile(parsed) ==
    /\ boot = "read"
    /\ IF parsed THEN boot' = "scan" /\ UNCHANGED <<vars, symtab, scanned, offsets, printing>>
       ELSE Fail

(* One symbol of the loop in resolve; a clash is an error.                 *)
ResolveSymbol ==
    /\ boot = "scan" /\ scanned < Len(symtab)
    /\ LET sym == symtab[scanned + 1] IN
       IF Clashes(offsets, sym) THEN Fail
       ELSE /\ offsets' = check_unique(offsets, sym)
            /\ scanned' = scanned + 1
            /\ UNCHANGED <<vars, boot, symtab, printing>>

ResolveEnd ==
    /\ boot = "scan" /\ scanned = Len(symtab)
    /\ IF Complete(offsets)
       THEN /\ boot' = "resolved"
            /\ symtab' = <<>> /\ scanned' = 0
            /\ UNCHANGED <<vars, offsets, printing>>
       ELSE Fail

(* Loading the BPF object or attaching a probe may fail at any point.      *)
StartFails ==
    /\ boot = "resolved" /\ attached < 2
    /\ Fail

AttachProbe ==
    /\ boot = "resolved"
    /\ AttachNext
    /\ UNCHANGED <<starting, printing>>

-----------------------------------------------------------------------------
(* Firebird, and the event loop.                                           *)

ConstructSeen(p) ==
    /\ Construct(p)
    /\ missed' = IF attached >= 1 /\ EVENTS' = EVENTS THEN missed \cup {<<p, clock>>} ELSE missed
    /\ UNCHANGED <<starting, announced, mistaken>>

ReleaseSeen(p, open_ts_ns) ==
    /\ Release(p, open_ts_ns)
    /\ mistaken' = IF p \in DOMAIN LIVE THEN mistaken ELSE mistaken \cup {<<p, open_ts_ns>>}
    /\ UNCHANGED <<starting, announced, missed>>

Firebird(p) ==
    /\ boot # "failed"
    /\ \/ ConstructSeen(p)
       \/ \E open_ts_ns \in 0..MaxClock : ReleaseSeen(p, open_ts_ns)
       \/ (ReleaseGet(p) \/ Destroy(p)) /\ UNCHANGED <<starting, printing>>

(* Mutant: --min-duration applied to every event.                          *)
SkippedAny(ev) == ev.duration_ns < MinDuration

(* min_duration only applies to Closed events.                             *)
Skipped(ev) == ev.kind = "Closed" /\ ev.duration_ns < MinDuration

(* An attachment: its address, and when it was constructed.                *)
Subject(ev) == <<ev.ptr, ev.ts_ns - ev.duration_ns>>

run_event_loop ==
    /\ boot = "resolved"
    /\ ReadEvent
    /\ announced' = IF Head(EVENTS).kind = "Opened" /\ ~Skipped(Head(EVENTS))
                    THEN announced \cup {Subject(Head(EVENTS))} ELSE announced
    /\ UNCHANGED <<starting, missed, mistaken>>

ToolNext ==
    \/ \E exist \in BOOLEAN : ensure_paths(exist)
    \/ \E parsed \in BOOLEAN : ReadDebugFile(parsed)
    \/ ResolveSymbol
    \/ ResolveEnd
    \/ StartFails
    \/ AttachProbe
    \/ \E p \in Attachments : Firebird(p)
    \/ run_event_loop

ToolSpec == ToolInit /\ [][ToolNext]_toolVars

-----------------------------------------------------------------------------
(* The addresses at which the debug file has code of fn.                   *)
CodeOf(fn) ==
    {symtab[i].addr : i \in {j \in DOMAIN symtab : symtab[j].class = "text" /\ symtab[j].fn = fn}}

(* Of a debug file that could be read and parsed, symbols::resolve gives   *)
(* every function the one address the file has for it, and succeeds        *)
(* exactly if there is one: a constructor variant at another address stops *)
(* the tool instead of escaping it, while cold clones, data, unreadable    *)
(* names and aliases (C1 and C2) do not matter.                            *)
ResolvesExactly ==
    [][boot = "scan" /\ boot' # "scan" =>
        /\ boot' = "resolved" <=> \A fn \in Functions : Cardinality(CodeOf(fn)) = 1
        /\ boot' = "resolved" => \A fn \in Functions : offsets[fn] = CodeOf(fn)]_toolVars

(* "opened lifecycle boundary should always be visible" (run_event_loop):  *)
(* a Closed record is read after the Opened line of the same attachment    *)
(* was printed, whatever --min-duration, unless that one found the ring    *)
(* full, or the Closed record was made of an element taken away from under *)
(* the release probe.                                                      *)
ClosedFollowsOpened ==
    [][EVENTS # <<>> /\ EVENTS' = Tail(EVENTS) /\ Head(EVENTS).kind = "Closed" =>
        Subject(Head(EVENTS)) \in announced \cup missed \cup mistaken]_toolVars
=============================================================================
