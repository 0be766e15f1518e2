--------------------------- MODULE AttachReports ---------------------------
(***************************************************************************)
(* What tragach-attach promises (SPECS.md 5.3), without maps, probes or    *)
(* eviction: attachments open and close, the log may miss an event, but a  *)
(* Closed event carries the exact lifetime of the attachment that is being *)
(* released and an attachment is reported closed at most once, even though *)
(* an Attachment address is reused by later attachments.  Nothing but      *)
(* another one opened while it closes can disturb that duration.           *)
(***************************************************************************)
EXTENDS Naturals, Sequences, BpfMaps

CONSTANT Attachments

VARIABLES now, alive, log,
          disturbed    \* attachments being closed whose duration is not certain

Opened(p) == [kind |-> "Opened", ptr |-> p, ts_ns |-> now, duration_ns |-> 0]
Closed(p, lifetime) == [kind |-> "Closed", ptr |-> p, ts_ns |-> now, duration_ns |-> lifetime]

LogOrLose(event) == log' = log \/ log' = Append(log, event)

Init == now = 0 /\ alive = NoEntries /\ log = <<>> /\ disturbed = {}

Open(p) ==
    /\ p \notin DOMAIN alive
    /\ alive' = Put(alive, p, [since |-> now, closed |-> FALSE])
    /\ LogOrLose(Opened(p))
    /\ now' = now + 1
    /\ disturbed \subseteq disturbed' /\ disturbed' \subseteq DOMAIN alive

Close(p) ==
    /\ p \in DOMAIN alive /\ ~alive[p].closed
    /\ alive' = [alive EXCEPT ![p].closed = TRUE]
    /\ \E lifetime \in 0..now :
          /\ p \notin disturbed => lifetime = now - alive[p].since
          /\ LogOrLose(Closed(p, lifetime))
    /\ now' = now + 1
    /\ disturbed' = disturbed \ {p}

Destroy(p) ==
    /\ p \in DOMAIN alive
    /\ alive' = Del(alive, p)
    /\ UNCHANGED <<now, log, disturbed>>

Read == log # <<>> /\ log' = Tail(log) /\ UNCHANGED <<now, alive, disturbed>>

Next ==
    \/ \E p \in Attachments : Open(p) \/ Close(p) \/ Destroy(p)
    \/ Read

Spec == Init /\ [][Next]_<<now, alive, log, disturbed>>
=============================================================================
