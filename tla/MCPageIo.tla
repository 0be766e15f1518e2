------------------------------ MODULE MCPageIo ------------------------------
(* PageIo on small sets of threads, requests and sectors.  The fetches and *)
(* the block requests share no word of COUNTERS, so a behaviour has one or *)
(* the other.  Matching is about who has a tid or a sector, Windows about  *)
(* the flush, which sees only that words of two CPUs change under it.      *)
EXTENDS PageIo, TLC

Pairs(S) == {T \in SUBSET S : Cardinality(T) = 2}

Reuses == [who : Pairs(Tids), cpus : {{1}}, reused : {Tids}, bytes : {1}, windows : {0}]
Overlaps == [who : {T \cup Keys : T \in Pairs(Reqs)}, cpus : {Cpus}, reused : {{}}, bytes : {1}, windows : {0}]
Matching == Reuses \cup Overlaps

Fetches == [who : Pairs(Tids \cap Target), cpus : {Cpus}, reused : {{}}, bytes : {5}, windows : {2}]
Requests == [who : {{r, k} : r \in Reqs \cap Target, k \in Keys}, cpus : {Cpus}, reused : {{}},
             bytes : {5}, windows : {2}]
Windows == Fetches \cup Requests

MatchingAndWindows == Matching \cup Windows

Symmetry == Permutations(Target \cap Tids) \cup Permutations(Target \cap Reqs)
            \cup Permutations(Keys)
=============================================================================
