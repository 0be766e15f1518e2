------------------------------ MODULE BpfMaps ------------------------------
(***************************************************************************)
(* The kernel's BPF maps as the tragach programs use them.  A map is a     *)
(* function whose domain is the set of keys present.  The kernel is not    *)
(* part of the repository: these operators are modelled from how the BPF   *)
(* programs use the maps (insert with flags 0, i.e. BPF_ANY).              *)
(***************************************************************************)
EXTENDS Naturals, FiniteSets

NoEntries == [k \in {} |-> k]

Put(map, key, value) ==
    [k \in DOMAIN map \cup {key} |-> IF k = key THEN value ELSE map[k]]

Del(map, key) == [k \in DOMAIN map \ {key} |-> map[k]]

Keep(map, keys) == [k \in DOMAIN map \cap keys |-> map[k]]

(* A preallocated BPF_MAP_TYPE_HASH: replacing the value of a present key  *)
(* always succeeds, a new key needs a free element.                        *)
HasRoom(map, key, max) ==
    key \in DOMAIN map \/ Cardinality(DOMAIN map) < max

(* Mutant: inserted with BPF_NOEXIST, which leaves a present key alone.     *)
LruInsertsNoExist(map, key, value, max) ==
    IF key \in DOMAIN map THEN {map}
    ELSE {Put(Keep(map, survivors), key, value) :
            survivors \in {S \in SUBSET DOMAIN map : Cardinality(S) < max}}

(* BPF_MAP_TYPE_LRU_HASH: the insert takes an element from a free list and *)
(* evicts other entries to refill it.  The per-CPU free lists hold spare   *)
(* elements, so it may evict before the map is full, and several entries   *)
(* at once; the key inserted is always present afterwards.                 *)
LruInserts(map, key, value, max) ==
    {Put(Keep(map, survivors), key, value) :
        survivors \in {S \in SUBSET (DOMAIN map \ {key}) : Cardinality(S) < max}}

(* u64::saturating_sub *)
SaturatingSub(a, b) == IF a >= b THEN a - b ELSE 0
=============================================================================
