------------------------------ MODULE XdpSerial ------------------------------
(***************************************************************************)
(* On one CPU nothing comes between the steps of xdp_firewall: the fine-   *)
(* grained handler of XdpFirewall, with its pointers into elements, its    *)
(* loops over bitmap words and its separate loads and stores, implements   *)
(* the atomic one of XdpPackets, as long as clean_maps is not running.     *)
(* The maps of the latter are those the CPU left behind when it was last   *)
(* idle.                                                                   *)
(***************************************************************************)
EXTENDS XdpFirewall

VARIABLE settled    \* history: the maps and the alerts when the CPU was last idle

ASSUME OneCpu == \E c \in CPU : CPU = {c}
ASSUME NoCleaning == MaxCleanings = 0
ASSUME NoElemIsNoValue ==
    NoElem \notin Nat \cup FlowValue /\ \A ports \in SUBSET LowPort : NoElem # ports

Here == CHOOSE c \in CPU : TRUE

Contents(h) == [ip \in IP |-> IF Lookup(h, ip) = NoElem THEN NoElem ELSE h.val[Lookup(h, ip)]]

Current ==
    [blacklist |-> blacklist,
     flow      |-> Contents(flow),
     scan      |-> Contents(scan),
     syn       |-> [ip \in IP |-> IF ip \in synKeys THEN syn[Here][ip] ELSE NoElem],
     raised    |-> [ip \in IP |-> [syn_flood |-> synAlerts[Here][ip],
                                   port_scan |-> scanAlerts[ip]]]]

SerialInit == Init /\ settled = Current

SerialNext == Next /\ settled' = IF Idle' THEN Current' ELSE settled

SerialSpec ==
    /\ SerialInit /\ [][SerialNext]_<<vars, settled>>
    /\ \A c \in CPU : WF_vars(CpuStep(c))

Packets == INSTANCE XdpPackets WITH
    None          <- NoElem,
    blacklist     <- settled.blacklist,
    flow_stats    <- settled.flow,
    syn_counter   <- settled.syn,
    port_scan_map <- settled.scan,
    raised        <- settled.raised

(***************************************************************************)
(* Whatever the packets were, the maps and the alerts after each of them   *)
(* are those of the atomic handler: none of the pointers, loop bounds and  *)
(* early exits of the program makes a difference.  (xdp_firewall,          *)
(* xdp_blacklist.bpf.c:149.)                                               *)
(***************************************************************************)
PacketsAreAtomic == Packets!Spec
=============================================================================
