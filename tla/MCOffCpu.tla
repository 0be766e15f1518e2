------------------------------ MODULE MCOffCpu ------------------------------
(* OffCpu on small sets; the two stacks share a slot of STACKS, or do not. *)
EXTENDS OffCpu, TLC

CONSTANTS s1, s2

OneSlot == (s1 :> 0) @@ (s2 :> 0)
TwoSlots == (s1 :> 0) @@ (s2 :> 1)

(* The buckets of one stack id share a chain.                              *)
ByStackId == [k \in Keys |-> k[2] + 1]

(* Functions of 10 bytes, one of a module, out of order and one hidden.    *)
Symbols == <<[addr |-> 20, name |-> "futex"], [addr |-> 30, name |-> "block"],
             [addr |-> 0, name |-> "block"], [addr |-> 10, name |-> "schedule"]>>
Functions4 == (15 :> "schedule") @@ (20 :> "futex") @@ (35 :> "block") @@ (5 :> "none")

(* A futex wait under a block I/O call, and a plain schedule.              *)
TwoStacks == (s1 :> <<15, 20, 35>>) @@ (s2 :> <<5, 15>>)

Symmetry == Permutations(Tids)
=============================================================================
