---------------------------- MODULE MCAttachTool ----------------------------
(* AttachTool with all debug files of up to four symbols of these kinds.   *)
EXTENDS AttachTool, TLC

CONSTANTS ctor, release

Sym(class, fn, addr) == [class |-> class, fn |-> fn, addr |-> addr]

SymbolKinds == {Sym("text", ctor, 1), Sym("text", ctor, 2), Sym("text", release, 3),
                Sym("text", Other, 1), Sym("cold", ctor, 4), Sym("data", release, 4),
                Sym("unreadable", release, 4)}

SmallFiles == UNION {[1..n -> SymbolKinds] : n \in 0..4}

Symmetry == Permutations(Attachments)
=============================================================================
