------------------------- MODULE MCStatementCapture -------------------------
(* StatementCapture: one thread, with every kind of argument for one of    *)
(* the statements, and all threads, with one statement that is cut and one *)
(* that is not.                                                            *)
EXTENDS StatementCapture, TLC

CONSTANTS s1, s2

Given(n) == [stmt |-> n, nul |-> n, length |-> n, ptr |-> TRUE, fault |-> FALSE]

OneThread == [threads : {{t} : t \in Threads}, calls : {2},
              args : {(s1 :> a) @@ (s2 :> Given(1)) : a \in Calls}]
AllThreads == [threads : {Threads}, calls : {3},
               args : {(s1 :> Given(MaxBytes)) @@ (s2 :> Given(1))}]
Cases == OneThread \cup AllThreads

Symmetry == Permutations(Threads) \cup Permutations(Requests) \cup Permutations(Cpus)
            \cup Permutations(Elements) \cup Permutations(LruElements)
=============================================================================
