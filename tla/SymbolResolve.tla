--------------------------- MODULE SymbolResolve ---------------------------
(***************************************************************************)
(* symbols::resolve, which three of the tools have in the same form: one   *)
(* pass over the symbol table of libEngine13.so's debug file finds the     *)
(* offset of every function to probe.  A symbol is its class (text, data,  *)
(* a name that cannot be read, a .cold clone), the function its mangled    *)
(* prefix stands for, and its address.                                     *)
(***************************************************************************)
EXTENDS Naturals, Sequences

CONSTANTS Functions,   \* the functions the tool probes
          Other        \* what any other symbol stands for

ASSUME FunctionsAssumption == Other \notin Functions

Classes == {"text", "data", "unreadable", "cold"}
Symbols == [class : Classes, fn : Functions \cup {Other}, addr : Nat]

(* An Option<u64> is {} or {addr}.                                         *)
NoOffsets == [fn \in Functions |-> {}]

(* Mutant: .cold clones are not skipped.                                   *)
MatchesCold(sym) == sym.class \in {"text", "cold"} /\ sym.fn \in Functions

Matches(sym) == sym.class = "text" /\ sym.fn \in Functions

(* Mutant: the first address wins, without an error.                       *)
ClashesNever(offsets, sym) == FALSE

(* check_unique: the same address again is no clash (C1 and C2).           *)
Clashes(offsets, sym) == Matches(sym) /\ offsets[sym.fn] \notin {{}, {sym.addr}}

check_unique(offsets, sym) ==
    IF Matches(sym) THEN [offsets EXCEPT ![sym.fn] = IF @ = {} THEN {sym.addr} ELSE @]
    ELSE offsets

Complete(offsets) == \A fn \in Functions : offsets[fn] # {}
=============================================================================
