------------------------------ MODULE Classify ------------------------------
(***************************************************************************)
(* tragach-iowait's classify.rs and kallsyms.rs: from the instruction      *)
(* pointers of a kernel stack to the reason a thread slept.  A symbol name *)
(* is its class: what is_block_io, is_futex and the two tests for schedule *)
(* make of it ("none": no test matches, as for "?" and "0x...").           *)
(***************************************************************************)
EXTENDS Naturals, Sequences, FiniteSets

CONSTANT KallsymsFile   \* lines of /proc/kallsyms that parse: [addr, name]

Names == {"block", "futex", "schedule", "none"}
Reasons == {"BlockIo", "Futex", "SchedDelay", "Other"}

ASSUME KallsymsAssumption == KallsymsFile \in Seq([addr : Nat, name : Names])

(* Kallsyms::load drops addresses of 0 and sorts, keeping lines with the   *)
(* same address in their order.                                            *)
Known == {i \in DOMAIN KallsymsFile : KallsymsFile[i].addr # 0}
Before(j, i) == \/ KallsymsFile[j].addr < KallsymsFile[i].addr
                \/ KallsymsFile[j].addr = KallsymsFile[i].addr /\ j <= i
Rank(i) == Cardinality({j \in Known : Before(j, i)})
syms == [n \in 1..Cardinality(Known) |-> KallsymsFile[CHOOSE i \in Known : Rank(i) = n]]

partition_point(ip) == Cardinality({i \in DOMAIN syms : syms[i].addr <= ip})

(* Mutant: the first symbol behind the address.                            *)
lookupNext(ip) ==
    IF partition_point(ip) < Len(syms) THEN syms[partition_point(ip) + 1].name ELSE "none"

lookup(ip) ==
    IF ip = 0 \/ partition_point(ip) = 0 THEN "none" ELSE syms[partition_point(ip)].name

(* Mutant: any block I/O frame wins over any futex frame.                  *)
classifyBlockFirst(frames) ==
    IF \E i \in DOMAIN frames : frames[i] = "block" THEN "BlockIo"
    ELSE IF \E i \in DOMAIN frames : frames[i] = "futex" THEN "Futex"
    ELSE IF \E i \in DOMAIN frames : frames[i] = "schedule" THEN "SchedDelay"
    ELSE "Other"

(* Two scans from the leaf: for block I/O or futex, then for schedule.     *)
classify(frames) ==
    LET specific == {i \in DOMAIN frames : frames[i] \in {"block", "futex"}}
        first == CHOOSE i \in specific : \A j \in specific : i <= j
    IN  IF specific # {} THEN IF frames[first] = "block" THEN "BlockIo" ELSE "Futex"
        ELSE IF \E i \in DOMAIN frames : frames[i] = "schedule" THEN "SchedDelay"
        ELSE "Other"
=============================================================================
