----------------------------- MODULE EventLoop -----------------------------
(***************************************************************************)
(* run_event_loop of tragach-slowquery: the EVENTS ring written by the BPF *)
(* programs of several CPUs, the epoll/tokio machinery that tells the loop *)
(* that there is something to read, the loop itself and Ctrl-C.            *)
(* tragach-attach runs the same loop, without the small ids.               *)
(*                                                                         *)
(* The kernel, aya and tokio are modelled from how the loop uses them: the *)
(* kernel wakes the poller only for the record at the consumer position,   *)
(* the ring's fd is registered edge-triggered, AsyncFd remembers readiness *)
(* until clear_ready, which does nothing if a newer readiness event came.  *)
(***************************************************************************)
EXTENDS Naturals, Sequences, FiniteSets

CONSTANTS Attachments,   \* non-zero attachment_id values
          NoAttachment,  \* attachment_id == 0
          Durations,     \* execute_ns values
          Threshold,     \* --threshold (0: as if not given)
          RingSlots,     \* records that fit the 256 KiB ring
          MaxRecords     \* bound: records of a behaviour

ASSUME LoopAssumption ==
    /\ NoAttachment \notin Attachments
    /\ Durations \subseteq Nat
    /\ Threshold \in Nat
    /\ RingSlots \in Nat
    /\ MaxRecords \in Nat

VARIABLES
    rec,         \* every record reserved so far; Len(rec) is the producer position
    cons,        \* records consumed: the consumer position
    unchecked,   \* records committed, whose wake-up check has not run yet
    epReady,     \* the ring's fd is on epoll's ready list
    readiness,   \* AsyncFd: the fd is readable
    fresh,       \* readiness was set again since the loop took its guard
    pc,          \* "attach", "select", "drain", "clear", "stopped", "failed"
    sub,         \* the ctrl_c() future: "none", "subscribed", "notified"
    installed,   \* tokio's SIGINT handler is installed (for good)
    sigPending,  \* SIGINT caught, not yet broadcast by tokio's driver
    id_table, next_id,
    shown        \* what was written to stdout: <<record number, small id>>

ring == <<rec, cons, unchecked>>
tokio == <<epReady, readiness, fresh>>
signals == <<sub, installed, sigPending>>
printed == <<id_table, next_id, shown>>
vars == <<ring, tokio, pc, signals, printed>>

Init ==
    /\ rec = <<>> /\ cons = 0 /\ unchecked = {}
    /\ epReady = FALSE /\ readiness = FALSE /\ fresh = FALSE
    /\ pc = "attach"
    /\ sub = "none" /\ installed = FALSE /\ sigPending = FALSE
    /\ id_table = [a \in {} |-> 0] /\ next_id = 0 /\ shown = <<>>

Running == pc \notin {"stopped", "failed"}
Unread == cons < Len(rec)
HeadCommitted == Unread /\ ~rec[cons + 1].busy

-----------------------------------------------------------------------------
(* The producers: bpf_ringbuf_reserve and bpf_ringbuf_submit.              *)

(* No room: reserve returns None and the event is lost without a trace.    *)
Reserve(a, d) ==
    /\ Running
    /\ Len(rec) < MaxRecords
    /\ Len(rec) - cons < RingSlots
    /\ rec' = Append(rec, [busy |-> TRUE, att |-> a, execute_ns |-> d])
    /\ UNCHANGED <<cons, unchecked, tokio, pc, signals, printed>>

Commit(i) ==
    /\ Running
    /\ rec[i].busy
    /\ rec' = [rec EXCEPT ![i].busy = FALSE]
    /\ unchecked' = unchecked \cup {i}
    /\ UNCHANGED <<cons, tokio, pc, signals, printed>>

(* Wake the poller only if the consumer has reached this very record.      *)
CheckNotify(i) ==
    /\ Running
    /\ i \in unchecked
    /\ unchecked' = unchecked \ {i}
    /\ epReady' = (epReady \/ (cons = i - 1 /\ pc # "attach"))
    /\ UNCHANGED <<rec, cons, readiness, fresh, pc, signals, printed>>

-----------------------------------------------------------------------------
(* tokio's driver, on whichever worker thread is parked in epoll_wait.     *)

(* The poll callback of the ring reports any unconsumed record, even BUSY. *)
EpollWait ==
    /\ Running
    /\ epReady
    /\ epReady' = FALSE
    /\ readiness' = (readiness \/ Unread)
    /\ fresh' = (fresh \/ Unread)
    /\ UNCHANGED <<ring, pc, signals, printed>>

(* Until tokio's handler is installed SIGINT kills the process.            *)
PressCtrlC ==
    /\ Running
    /\ IF installed
       THEN sigPending' = TRUE /\ UNCHANGED pc
       ELSE pc' = "stopped" /\ UNCHANGED sigPending
    /\ UNCHANGED <<ring, tokio, sub, installed, printed>>

(* A broadcast reaches the futures subscribed at that moment, no others.   *)
Broadcast ==
    /\ Running
    /\ sigPending
    /\ sigPending' = FALSE
    /\ sub' = IF sub = "subscribed" THEN "notified" ELSE sub
    /\ UNCHANGED <<ring, tokio, pc, installed, printed>>

-----------------------------------------------------------------------------
(* The loop.                                                               *)

(* AsyncFd::with_interest: adding the fd to epoll polls it once.           *)
Register ==
    /\ pc = "attach"
    /\ pc' = "select"
    /\ epReady' = Unread
    /\ UNCHANGED <<ring, readiness, fresh, signals, printed>>

(* select! polls ctrl_c() for the first time.                              *)
SelectSubscribe ==
    /\ pc = "select" /\ sub = "none"
    /\ sub' = "subscribed"
    /\ installed' = TRUE
    /\ UNCHANGED <<ring, tokio, pc, sigPending, printed>>

(* Mutant: the ctrl_c branch reports and goes round the loop.              *)
SelectStopGoesOn ==
    /\ pc = "select" /\ sub = "notified"
    /\ sub' = "none"
    /\ UNCHANGED <<ring, tokio, pc, installed, sigPending, printed>>

SelectStop ==
    /\ pc = "select" /\ sub = "notified"
    /\ pc' = "stopped"
    /\ UNCHANGED <<ring, tokio, signals, printed>>

(* select! takes the other branch, also when both are ready (it starts at  *)
(* a random one), and drops the ctrl_c() future.                           *)
SelectRead ==
    /\ pc = "select" /\ readiness
    /\ pc' = "drain"
    /\ sub' = "none"
    /\ fresh' = FALSE
    /\ UNCHANGED <<ring, epReady, readiness, installed, sigPending, printed>>

(* What the loop makes of a record: nothing below the threshold, and a     *)
(* small id for a known attachment, the next one if it has none.           *)
IsShown(r) == r.execute_ns >= Threshold
(* Mutant: id_table.insert instead of entry().or_insert_with.              *)
NeedsIdAlways(r) == r.att # NoAttachment
NeedsId(r) == r.att # NoAttachment /\ r.att \notin DOMAIN id_table

(* Mutant: the id is taken before next_id is advanced.                     *)
WriteOutPostIncrement(r) ==
    LET ids == IF NeedsId(r)
               THEN [a \in DOMAIN id_table \cup {r.att} |->
                        IF a = r.att THEN next_id ELSE id_table[a]]
               ELSE id_table
    IN  /\ id_table' = ids
        /\ next_id' = IF NeedsId(r) THEN next_id + 1 ELSE next_id
        /\ shown' = Append(shown, [no |-> cons + 1,
                      id |-> IF r.att = NoAttachment THEN 0 ELSE ids[r.att]])

WriteOut(r) ==
    LET ids == IF NeedsId(r)
               THEN [a \in DOMAIN id_table \cup {r.att} |->
                        IF a = r.att THEN next_id + 1 ELSE id_table[a]]
               ELSE id_table
    IN  /\ id_table' = ids
        /\ next_id' = IF NeedsId(r) THEN next_id + 1 ELSE next_id
        /\ shown' = Append(shown, [no |-> cons + 1,
                      id |-> IF r.att = NoAttachment THEN 0 ELSE ids[r.att]])

(* Mutant: `if let' instead of `while let': one record per wake-up.        *)
DrainOnlyOne ==
    /\ pc = "drain" /\ HeadCommitted
    /\ IF IsShown(rec[cons + 1])
       THEN WriteOut(rec[cons + 1])
       ELSE UNCHANGED printed
    /\ cons' = cons + 1
    /\ pc' = "clear"
    /\ UNCHANGED <<rec, unchecked, tokio, signals>>

(* ring.next() returns the head record; it is consumed when item drops.    *)
DrainOne ==
    /\ pc = "drain" /\ HeadCommitted
    /\ IF IsShown(rec[cons + 1])
       THEN WriteOut(rec[cons + 1])
       ELSE UNCHANGED printed
    /\ cons' = cons + 1
    /\ UNCHANGED <<rec, unchecked, tokio, pc, signals>>

(* A write to stdout fails and `?' ends the loop; the item still drops.    *)
StdoutFails ==
    /\ pc = "drain" /\ HeadCommitted
    /\ IsShown(rec[cons + 1])
    /\ pc' = "failed"
    /\ cons' = cons + 1
    /\ UNCHANGED <<rec, unchecked, tokio, signals, printed>>

(* ring.next() returns None: nothing there, or the head is still BUSY.     *)
DrainEnd ==
    /\ pc = "drain" /\ ~HeadCommitted
    /\ pc' = "clear"
    /\ UNCHANGED <<ring, tokio, signals, printed>>

ClearReady ==
    /\ pc = "clear"
    /\ pc' = "select"
    /\ readiness' = fresh
    /\ UNCHANGED <<ring, epReady, fresh, signals, printed>>

Loop == \/ Register \/ SelectSubscribe \/ SelectStop \/ SelectRead
        \/ DrainOne \/ DrainEnd \/ ClearReady

-----------------------------------------------------------------------------
Done == ~Running /\ UNCHANGED vars

Next ==
    \/ \E a \in Attachments \cup {NoAttachment} : \E d \in Durations : Reserve(a, d)
    \/ \E i \in 1..Len(rec) : Commit(i) \/ CheckNotify(i)
    \/ EpollWait
    \/ PressCtrlC
    \/ Broadcast
    \/ Loop
    \/ StdoutFails
    \/ Done

(* A BPF program that reserved a record finishes; tokio's driver keeps     *)
(* polling; the loop's thread is scheduled.  Nothing makes clients run     *)
(* statements, users press Ctrl-C or stdout fail.                          *)
Fairness ==
    /\ \A i \in 1..MaxRecords :
          WF_vars(i <= Len(rec) /\ (Commit(i) \/ CheckNotify(i)))
    /\ WF_vars(EpollWait)
    /\ WF_vars(Broadcast)
    /\ WF_vars(Loop)
    /\ WF_vars(SelectSubscribe)
    /\ WF_vars(SelectStop)

Spec == Init /\ [][Next]_vars /\ Fairness

-----------------------------------------------------------------------------
(* Properties.                                                             *)

RecordType == [busy : BOOLEAN, att : Attachments \cup {NoAttachment},
               execute_ns : Durations]

(* The variables have the types of the values they stand for.              *)
TypeOK ==
    /\ rec \in Seq(RecordType)
    /\ cons \in 0..Len(rec)
    /\ unchecked \in SUBSET (1..Len(rec))
    /\ epReady \in BOOLEAN /\ readiness \in BOOLEAN /\ fresh \in BOOLEAN
    /\ pc \in {"attach", "select", "drain", "clear", "stopped", "failed"}
    /\ sub \in {"none", "subscribed", "notified"}
    /\ installed \in BOOLEAN /\ sigPending \in BOOLEAN
    /\ id_table \in [DOMAIN id_table -> 1..next_id]
    /\ DOMAIN id_table \subseteq Attachments
    /\ next_id \in Nat
    /\ shown \in Seq([no : 1..cons, id : 0..next_id])

(* A committed record at the head of the ring is never forgotten: the loop *)
(* is about to read it, or the news of it is still under way (its own      *)
(* wake-up check, epoll's ready list, or a readiness that clear_ready will *)
(* not wipe out).                                                          *)
NoLostWakeup ==
    (Running /\ HeadCommitted) =>
        \/ cons + 1 \in unchecked
        \/ epReady
        \/ pc \in {"attach", "drain"}
        \/ pc = "select" /\ readiness
        \/ pc = "clear" /\ fresh

(* The records that take no less than --threshold, out of the first n.     *)
ShownUpTo(n) == {i \in 1..n : rec[i].execute_ns >= Threshold}
FirstOf(a, n) == CHOOSE i \in ShownUpTo(n) :
    rec[i].att = a /\ \A j \in ShownUpTo(n) : rec[j].att = a => i <= j
(* The reference numbering: attachments in the order of their first shown  *)
(* record.                                                                 *)
IdOf(a, n) == Cardinality({rec[j].att : j \in
    {j \in ShownUpTo(n) : j <= FirstOf(a, n) /\ rec[j].att # NoAttachment}})

(* Output: the consumed records that reach the threshold, each once and in *)
(* ring order, and numbered 1, 2, 3... in the order in which their         *)
(* attachments first show up, 0 ("?") if there is none.  A record of       *)
(* exactly the threshold is among them, which contradicts SPECS.md and the *)
(* help of --threshold: "only emit if execute exceeds threshold".          *)
OutputIsFilteredPrefix ==
    pc # "failed" =>
        /\ {shown[k].no : k \in 1..Len(shown)} = ShownUpTo(cons)
        /\ \A k \in 1..Len(shown) :
              /\ \A m \in 1..Len(shown) : k < m => shown[k].no < shown[m].no
              /\ shown[k].id = IF rec[shown[k].no].att = NoAttachment THEN 0
                               ELSE IdOf(rec[shown[k].no].att, cons)

(* Every committed record is read, in spite of edge-triggered epoll, wake- *)
(* ups only for the head record and records committed out of order.        *)
EveryRecordRead ==
    \A i \in 1..MaxRecords :
        (i <= Len(rec) /\ ~rec[i].busy) ~> (cons >= i \/ ~Running)

(* Someone who keeps pressing Ctrl-C gets out in the end.                  *)
PersistentCtrlCStops == ([]<>(sigPending \/ ~Running)) => <>(~Running)

(* "streaming events. Ctrl-C to stop.": a caught Ctrl-C ends the loop.     *)
CtrlCStops == sigPending ~> ~Running
=============================================================================
