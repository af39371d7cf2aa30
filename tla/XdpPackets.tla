----------------------------- MODULE XdpPackets -----------------------------
(***************************************************************************)
(* What the firewall does to its maps, one whole packet at a time: the     *)
(* earlier version of the data plane, examples/c/ebpf/xdp_blacklist.bpf.c, *)
(* read as a sequential program.  The handler is one atomic step on maps   *)
(* that are plain partial functions; None is the null pointer of a lookup. *)
(* It is the specification of the fine-grained XdpFirewall: see XdpSerial. *)
(***************************************************************************)
EXTENDS Naturals, FiniteSets

CONSTANTS
    IP, None,
    Packet,         \* [kind, src, syn, ack, port, size]
    LowPort,        \* ports of the bitmap, 0-1023 in the code
    SynThreshold, ScanThreshold,
    MapSize         \* STATS_SIZE

VARIABLES
    blacklist,      \* [IP -> {None, 0, 1}]
    flow_stats,     \* [IP -> counters or None]
    syn_counter,    \* [IP -> count or None]
    port_scan_map,  \* [IP -> set of ports or None]
    raised          \* [IP -> alerts about it, by type]

vars == <<blacklist, flow_stats, syn_counter, port_scan_map, raised>>

NoAlerts == [syn_flood |-> 0, port_scan |-> 0]

Init ==
    /\ blacklist = [ip \in IP |-> None]
    /\ flow_stats = [ip \in IP |-> None]
    /\ syn_counter = [ip \in IP |-> None]
    /\ port_scan_map = [ip \in IP |-> None]
    /\ raised = [ip \in IP |-> NoAlerts]

\* bpf_map_update_elem with BPF_ANY: a full map refuses a new key, silently.
Room(map) == Cardinality({ip \in IP : map[ip] # None}) < MapSize
Holds(map, ip) == map[ip] # None \/ Room(map)
Put(map, ip, v) == IF Holds(map, ip) THEN [map EXCEPT ![ip] = v] ELSE map

\* The maps as each function leaves them.
update_flow_stats(ip, size) ==
    LET old == IF flow_stats[ip] = None THEN [pkts |-> 0, bytes |-> 0] ELSE flow_stats[ip]
    IN  Put(flow_stats, ip, [pkts |-> old.pkts + 1, bytes |-> old.bytes + size])

\* The first SYN only makes the entry; it is not compared.
Flooding(ip) == syn_counter[ip] # None /\ syn_counter[ip] + 1 > SynThreshold

check_syn_flood(ip) ==
    Put(syn_counter, ip, IF Flooding(ip) THEN 0
                         ELSE IF syn_counter[ip] = None THEN 1
                         ELSE syn_counter[ip] + 1)

\* The ports of the bitmap once the packet's is in it, if it is one of them.
Ports(ip, port) ==
    ({port} \cap LowPort) \cup (IF port_scan_map[ip] = None THEN {} ELSE port_scan_map[ip])

Scanning(ip, port) ==
    /\ port \in LowPort /\ Holds(port_scan_map, ip)
    /\ Cardinality(Ports(ip, port)) > ScanThreshold

check_port_scan(ip, port) ==
    Put(port_scan_map, ip, IF Scanning(ip, port) THEN {} ELSE Ports(ip, port))

\* The flags of a packet cut short, or not TCP, are never read.
IsSyn(p) == p.kind = "tcp" /\ p.syn
IsPureSyn(p) == IsSyn(p) /\ ~p.ack

\* bpf_ringbuf_output of either check; the loader takes it from there.
RaisedBy(p) ==
    [syn_flood |-> raised[p.src].syn_flood + (IF IsPureSyn(p) /\ Flooding(p.src) THEN 1 ELSE 0),
     port_scan |-> raised[p.src].port_scan
                   + (IF IsSyn(p) /\ Scanning(p.src, p.port) THEN 1 ELSE 0)]

\* xdp_firewall on a packet that is neither malformed, cut short nor blocked.  The
\* blacklist is read once, first: what is written meanwhile is for later packets.
Handle(p) ==
    /\ p.kind \in {"ipv4", "tcp"} /\ blacklist[p.src] # 1
    /\ syn_counter' = IF IsPureSyn(p) THEN check_syn_flood(p.src) ELSE syn_counter
    /\ port_scan_map' = IF IsSyn(p) THEN check_port_scan(p.src, p.port) ELSE port_scan_map
    /\ raised' = [raised EXCEPT ![p.src] = RaisedBy(p)]
    /\ flow_stats' = update_flow_stats(p.src, p.size)
    /\ blacklist' \in [IP -> {None, 0, 1}]

SetBlacklist(ip, v) ==
    /\ blacklist' = [blacklist EXCEPT ![ip] = v]
    /\ UNCHANGED <<flow_stats, syn_counter, port_scan_map, raised>>

Next ==
    \/ \E p \in Packet : Handle(p)
    \/ \E ip \in IP, v \in {None, 0, 1} : SetBlacklist(ip, v)

Spec == Init /\ [][Next]_vars
=============================================================================
