---------------------------- MODULE MCSlowQuery ----------------------------
(* SlowQuery on small sets; see the .cfg files for the bounds of each run. *)
EXTENDS SlowQuery, TLC

(* Threads, addresses and statements are interchangeable.                  *)
Symmetry == Permutations(Threads) \cup Permutations(Requests)
            \cup Permutations(Cursors) \cup Permutations(Stmts)

(* Two threads running statements, or one running cursors while the probes *)
(* are being attached.                                                     *)
Dml == [fns : {{"prepare", "execute", "immediate"}}, threads : {Threads},
        quiet : {TRUE}, steps : {8}]
Mixed == [fns : {{"prepare", "execute", "openCursor", "fetchNext"}},
          threads : {{t} : t \in Threads}, quiet : {FALSE}, steps : {10}]
DmlAndMixed == Dml \cup Mixed

Late == [fns : {{"prepare", "execute"}}, threads : {Threads}, quiet : {FALSE}, steps : {8}]
Nested == [fns : {{"prepare", "execute"}}, threads : {Threads}, quiet : {TRUE}, steps : {8}]
=============================================================================
