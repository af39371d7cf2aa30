------------------------------ MODULE BpfHash ------------------------------
(***************************************************************************)
(* The kernel's BPF_MAP_TYPE_HASH as the XDP program of                    *)
(* project_submit/ebpf_control/src/xdp_blacklist.bpf.c uses it: the map is *)
(* preallocated, bpf_map_lookup_elem returns a POINTER into an element     *)
(* that the program then reads and writes with plain loads and stores, and *)
(* bpf_map_update_elem never writes an element in place: an insertion      *)
(* takes a free element, a replacement swaps the element of the key with a *)
(* spare element owned by the updating CPU.  A pointer obtained before a   *)
(* replacement or a deletion therefore refers to an element that has left  *)
(* the map and may later hold the value of another key.                    *)
(*                                                                         *)
(* A map is a record: at[k] is the element of key k (or NoElem), val[e]    *)
(* the value stored in element e, spare[c] the spare element of CPU c.     *)
(***************************************************************************)
EXTENDS Naturals, FiniteSets

CONSTANTS
    CPU,        \* the CPUs that run the XDP program
    IP,         \* the source addresses, the keys of every map
    NoElem,     \* the null pointer of a failed lookup
    MapSize     \* max_entries of flow_stats, syn_counter and port_scan_map

ASSUME MapSizeAssumption == MapSize \in Nat
ASSUME CPUAssumption == CPU \cap (1..MapSize) = {}
ASSUME FiniteAssumption == IsFiniteSet(CPU) /\ IsFiniteSet(IP)
ASSUME NoElemAssumption == NoElem \notin CPU \cup (1..MapSize)

(***************************************************************************)
(* max_entries elements plus one spare per CPU; the spare is named after   *)
(* the CPU that owns it at the start.                                      *)
(***************************************************************************)
Elem == CPU \cup (1..MapSize)

EmptyHash(v) == [at    |-> [k \in IP |-> NoElem],
                 val   |-> [e \in Elem |-> v],
                 spare |-> [c \in CPU |-> c]]

HashType(V) == [at : [IP -> Elem \cup {NoElem}], val : [Elem -> V], spare : [CPU -> Elem]]

Lookup(h, k) == h.at[k]

Free(h) == Elem \ ({h.at[k] : k \in IP} \cup {h.spare[c] : c \in CPU})

Full(h) == Free(h) = {}

Replace(h, c, k, v) ==
    [at    |-> [h.at EXCEPT ![k] = h.spare[c]],
     val   |-> [h.val EXCEPT ![h.spare[c]] = v],
     spare |-> [h.spare EXCEPT ![c] = h.at[k]]]

Insert(h, k, e, v) == [h EXCEPT !.at[k] = e, !.val[e] = v]

(***************************************************************************)
(* bpf_map_update_elem(h, k, v, BPF_ANY) on CPU c: the maps it may leave.  *)
(* A full map refuses a new key (-E2BIG), and the program ignores that     *)
(* result.  Any element of the free list may be taken for a new key: one   *)
(* that a deletion gave back is as good as one never used.                 *)
(***************************************************************************)
Update(h, c, k, v) ==
    IF h.at[k] # NoElem THEN {Replace(h, c, k, v)}
    ELSE IF Full(h) THEN {h}
    ELSE {Insert(h, k, e, v) : e \in Free(h)}

(***************************************************************************)
(* bpf_map_delete_elem, called by clean_maps only: the element of a        *)
(* preallocated map goes back to the free list at once, its value and the  *)
(* pointers into it stay as they are.                                      *)
(***************************************************************************)
Delete(h, k) == [h EXCEPT !.at[k] = NoElem]

Store(h, e, v) == [h EXCEPT !.val[e] = v]
=============================================================================
