-------------------------- MODULE AttachLifecycle --------------------------
(***************************************************************************)
(* tragach-attach: two entry probes, on the Attachment constructor and on  *)
(* release_attachment, joined by the LRU map LIVE.  Attachments may be     *)
(* open before the probes are, may be destroyed on paths that are not      *)
(* probed, and their addresses are reused; release_attachment is called    *)
(* from several disconnect paths, perhaps twice for one attachment, though *)
(* not (it is assumed) by two threads at once.                             *)
(*                                                                         *)
(* LIVE.get returns a pointer into the map.  If the entry is evicted       *)
(* before the probe copies it, the kernel may give its element to another  *)
(* attachment, constructed meanwhile on another CPU, and the copy is of    *)
(* that one.  The pid and tid an event carries play no part in the         *)
(* correlation and are left out.                                           *)
(***************************************************************************)
EXTENDS Naturals, Sequences, FiniteSets, BpfMaps

CONSTANTS Attachments,
          LiveMax,      \* 1024: entries of LIVE
          RingSlots,    \* records that fit the 256 KiB EVENTS ring
          MaxClock      \* bound: probed calls of a behaviour

ASSUME AttachAssumption == RingSlots \in Nat /\ MaxClock \in Nat

VARIABLES
    attached,   \* probes attached: 0, 1 (the constructor's) or 2
    clock,      \* bpf_ktime_get_ns
    alive,      \* Firebird: constructed Attachment* -> since when; closed is
                \* history: its Closed event was emitted (or found no room)
    LIVE,       \* Attachment* -> open_ts_ns
    found,      \* Attachment* -> what the element may hold by now: the release probes
                \* between LIVE.get and the copy
    EVENTS

vars == <<attached, clock, alive, LIVE, found, EVENTS>>

Init ==
    /\ attached = 0
    /\ clock = 0
    /\ alive = NoEntries
    /\ LIVE = NoEntries /\ found = NoEntries
    /\ EVENTS = <<>>

AttachNext ==
    /\ attached < 2
    /\ attached' = attached + 1
    /\ UNCHANGED <<clock, alive, LIVE, found, EVENTS>>

(* Mutant: the pointer and the timestamp, both u64, swapped.               *)
AttachEventSwapped(kind, p, duration_ns) ==
    [kind |-> kind, ptr |-> clock, ts_ns |-> p, duration_ns |-> duration_ns]

AttachEvent(kind, p, duration_ns) ==
    [kind |-> kind, ptr |-> p, ts_ns |-> clock, duration_ns |-> duration_ns]

Submit(event) ==
    EVENTS' = IF Len(EVENTS) < RingSlots THEN Append(EVENTS, event) ELSE EVENTS

(* Any element that is not in the map any more may have got the new entry. *)
Refilled(live, ts) ==
    [p \in DOMAIN found |-> IF p \in DOMAIN live THEN found[p] ELSE found[p] \cup {ts}]

(* The constructor runs; its entry probe, if attached, stores and reports. *)
Construct(p) ==
    /\ p \notin DOMAIN alive
    /\ clock < MaxClock
    /\ clock' = clock + 1
    /\ alive' = Put(alive, p, [since |-> clock, closed |-> FALSE])
    /\ IF attached >= 1
       THEN /\ LIVE' \in LruInserts(LIVE, p, clock, LiveMax)
            /\ found' = Refilled(LIVE', clock)
            /\ Submit(AttachEvent("Opened", p, 0))
       ELSE UNCHANGED <<LIVE, found, EVENTS>>
    /\ UNCHANGED attached

(* release_attachment is entered, up to LIVE.get.  The probe returns if    *)
(* there is no entry.                                                      *)
ReleaseGet(p) ==
    /\ attached = 2
    /\ p \in DOMAIN alive \ DOMAIN found
    /\ p \in DOMAIN LIVE
    /\ found' = Put(found, p, {LIVE[p]})
    /\ UNCHANGED <<attached, clock, alive, LIVE, EVENTS>>

(* Mutant: the entry stays in LIVE.                                        *)
ReleaseKeepsEntry(p, open_ts_ns) ==
    /\ p \in DOMAIN found /\ open_ts_ns \in found[p]
    /\ clock < MaxClock
    /\ clock' = clock + 1
    /\ found' = Del(found, p)
    /\ Submit(AttachEvent("Closed", p, SaturatingSub(clock, open_ts_ns)))
    /\ alive' = [alive EXCEPT ![p].closed = TRUE]
    /\ UNCHANGED <<attached, LIVE>>

(* The copy, and the rest of the probe: it reports what it has copied.     *)
Release(p, open_ts_ns) ==
    /\ p \in DOMAIN found /\ open_ts_ns \in found[p]
    /\ clock < MaxClock
    /\ clock' = clock + 1
    /\ found' = Del(found, p)
    /\ LIVE' = Del(LIVE, p)
    /\ Submit(AttachEvent("Closed", p, SaturatingSub(clock, open_ts_ns)))
    /\ alive' = [alive EXCEPT ![p].closed = TRUE]
    /\ UNCHANGED attached

(* The memory is freed, after release_attachment or on an unprobed path    *)
(* (a constructor that throws, an abnormal shutdown).                      *)
Destroy(p) ==
    /\ p \in DOMAIN alive \ DOMAIN found
    /\ alive' = Del(alive, p)
    /\ UNCHANGED <<attached, clock, LIVE, found, EVENTS>>

ReadEvent ==
    /\ attached = 2
    /\ EVENTS # <<>>
    /\ EVENTS' = Tail(EVENTS)
    /\ UNCHANGED <<attached, clock, alive, LIVE, found>>

Next ==
    \/ AttachNext
    \/ \E p \in Attachments :
          \/ Construct(p)
          \/ ReleaseGet(p)
          \/ \E open_ts_ns \in 0..MaxClock : Release(p, open_ts_ns)
          \/ Destroy(p)
    \/ ReadEvent

Spec == Init /\ [][Next]_vars

-----------------------------------------------------------------------------
AttachEventType == [kind : {"Opened", "Closed"}, ptr : Attachments,
                    ts_ns : Nat, duration_ns : Nat]

(* The variables have the types of the structs and maps they stand for.    *)
TypeOK ==
    /\ attached \in 0..2
    /\ clock \in Nat
    /\ alive = [p \in DOMAIN alive |-> alive[p]]
    /\ DOMAIN alive \subseteq Attachments
    /\ \A p \in DOMAIN alive : alive[p] \in [since : Nat, closed : BOOLEAN]
    /\ LIVE = [p \in DOMAIN LIVE |-> LIVE[p]]
    /\ DOMAIN LIVE \subseteq Attachments
    /\ \A p \in DOMAIN LIVE : LIVE[p] \in Nat
    /\ DOMAIN found \subseteq Attachments
    /\ \A p \in DOMAIN found : found[p] \subseteq Nat
    /\ EVENTS \in Seq(AttachEventType)

(* LIVE may keep the addresses of attachments destroyed unseen, but what   *)
(* it says of an address in use is about the attachment now there, and it  *)
(* says nothing of one already reported closed.                            *)
LiveIsCurrent ==
    \A p \in DOMAIN LIVE \cap DOMAIN alive :
        LIVE[p] = alive[p].since /\ ~alive[p].closed

Reports == INSTANCE AttachReports
           WITH now <- clock, alive <- alive, log <- EVENTS,
                disturbed <- DOMAIN found \ DOMAIN LIVE

(* SPECS.md 5.3: a Closed event is emitted at most once per attachment and *)
(* carries exactly its own lifetime, whatever the LRU map evicted before,  *)
(* however addresses are reused and whichever probes were attached when;   *)
(* only an attachment constructed in the middle of a release, evicting the *)
(* entry the probe has found, may give its Closed event another duration.  *)
ReportsLifetimes == Reports!Spec
=============================================================================
