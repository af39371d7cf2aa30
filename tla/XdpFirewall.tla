---------------------------- MODULE XdpFirewall ----------------------------
(***************************************************************************)
(* The XDP data plane, xdp_firewall() of                                   *)
(* project_submit/ebpf_control/src/xdp_blacklist.bpf.c, run by several     *)
(* CPUs at once.  A CPU handles one packet at a time (XDP runs to          *)
(* completion); the steps of the handler that touch memory other CPUs can  *)
(* touch are separate actions, so every interleaving of the plain loads    *)
(* and stores of flow_stats and port_scan_map is explored.  The per-CPU    *)
(* slot of syn_counter is touched by its own CPU only, so check_syn_flood  *)
(* is one action.                                                          *)
(*                                                                         *)
(* The environment delivers packets, lets an operator write the blacklist, *)
(* lets the loader drain the ring buffer, and lets clean_maps delete       *)
(* entries of flow_stats and port_scan_map.                                *)
(***************************************************************************)
EXTENDS BpfHash, Sequences, Totals

CONSTANTS
    Packet,         \* the packets the environment may deliver
    Words,          \* words of a port bitmap (16 in the code)
    Bits,           \* bits of a word (64 in the code)
    SynThreshold,   \* SYN_THRESHOLD
    ScanThreshold,  \* PORT_SCAN_THRESHOLD
    RingSize,       \* records the ring buffer holds
    MaxPackets,     \* bound: packets delivered in a behaviour
    MaxBlacklist,   \* bound: operator writes of the blacklist
    MaxCleanings    \* bound: entries clean_maps deletes; 0 where it does not run

LowPort == 0..(Words * Bits - 1)

Kind == {"malformed", "ipv4", "tcp_short", "tcp"}

ASSUME ParameterAssumption ==
    /\ Words \in Nat \ {0} /\ Bits \in Nat \ {0}
    /\ SynThreshold \in Nat \ {0} /\ ScanThreshold \in Nat /\ RingSize \in Nat
    /\ MaxPackets \in Nat /\ MaxBlacklist \in Nat /\ MaxCleanings \in Nat
ASSUME PacketAssumption ==
    Packet \subseteq [kind : Kind, src : IP, syn : BOOLEAN, ack : BOOLEAN,
                      port : Nat, size : Nat]

VARIABLES
    blacklist,      \* [IP -> {NoElem, 0, 1}]: the blacklist map
    synKeys, syn,   \* syn_counter: its keys, and the slot of every CPU
    scan,           \* port_scan_map: bitmaps as sets of ports
    flow,           \* flow_stats
    ring,           \* alert_rb: committed records not yet consumed
    pc, pkt, ptr,   \* per CPU: next step, packet, element pointer
    bits, num,      \*   the bitmap word or the counter held in a register
    idx, total      \*   loop index and running popcount

\* What has happened, for the properties only: the code keeps none of it.
VARIABLES
    received, edits, cleaned, \* what the bounds count
    synSeen, synAlerts,     \* per CPU and source: pure SYNs checked, alerts raised
    probes, probed, fresh,  \* per source: low-port probes; their ports ever / since the last alert
    scanAlerts,             \* per source: port-scan alerts raised
    arrived                 \* per source: packets and bytes that reached update_flow_stats

maps   == <<synKeys, syn, scan, flow, ring>>
local  == <<pkt, ptr, bits, num, idx, total>>
bounds == <<received, edits, cleaned>>
synHist  == <<synSeen, synAlerts>>
scanHist == <<probes, probed, fresh, scanAlerts>>
vars == <<blacklist, maps, pc, local, bounds, synHist, scanHist, arrived>>

Zero == [ip \in IP |-> 0]
NoPacket == [kind |-> "malformed", src |-> NoElem, syn |-> FALSE, ack |-> FALSE,
             port |-> 0, size |-> 0]
FlowValue == [pkts : Nat, bytes : Nat]
NoTraffic == [pkts |-> 0, bytes |-> 0]

Init ==
    /\ blacklist = [ip \in IP |-> NoElem]
    /\ synKeys = {} /\ syn = [c \in CPU |-> Zero]
    /\ scan = EmptyHash({}) /\ flow = EmptyHash(NoTraffic)
    /\ ring = <<>>
    /\ pc = [c \in CPU |-> "idle"] /\ pkt = [c \in CPU |-> NoPacket]
    /\ ptr = [c \in CPU |-> NoElem]
    /\ bits = [c \in CPU |-> {}] /\ num = [c \in CPU |-> 0]
    /\ idx = [c \in CPU |-> 0] /\ total = [c \in CPU |-> 0]
    /\ received = 0 /\ edits = 0 /\ cleaned = 0
    /\ synSeen = [c \in CPU |-> Zero] /\ synAlerts = [c \in CPU |-> Zero]
    /\ probes = Zero /\ scanAlerts = Zero
    /\ probed = [ip \in IP |-> {}] /\ fresh = [ip \in IP |-> {}]
    /\ arrived = [ip \in IP |-> NoTraffic]

(***************************************************************************)
(* xdp_firewall: the bounds checks and the blacklist lookup.  Packets that *)
(* are too short or not IPv4 pass unseen, a blacklisted source is dropped, *)
(* a TCP packet whose header is cut short passes without being counted.    *)
(***************************************************************************)
Goto(c, label) == pc' = [pc EXCEPT ![c] = label]
Bump(f, ip) == [f EXCEPT ![ip] = @ + 1]
src(c) == pkt[c].src

IsSyn(p) == p.kind = "tcp" /\ p.syn

FirstStepSynOnly(p) == IF IsSyn(p) /\ ~p.ack THEN "syn" ELSE "flow"
FirstStep(p) ==
    IF IsSyn(p) THEN (IF p.ack THEN "scan" ELSE "syn") ELSE "flow"

\* An entry of the blacklist blocks its source only while its value is 1.
BlockedInverted(ip) == blacklist[ip] = 0
Blocked(ip) == blacklist[ip] = 1

Enter(c, p) ==
    /\ pc[c] = "idle" /\ received < MaxPackets
    /\ received' = received + 1
    /\ LET dropped == p.kind # "malformed" /\ Blocked(p.src)
           handled == p.kind \in {"ipv4", "tcp"} /\ ~dropped
       IN  /\ pkt' = IF handled THEN [pkt EXCEPT ![c] = p] ELSE pkt
           /\ pc' = IF handled THEN [pc EXCEPT ![c] = FirstStep(p)] ELSE pc
    /\ UNCHANGED <<blacklist, maps, ptr, bits, num, idx, total, edits, cleaned,
                   synHist, scanHist, arrived>>

(***************************************************************************)
(* bpf_ringbuf_output: a full ring refuses the record and the program      *)
(* ignores that.                                                           *)
(***************************************************************************)
RingGrows(ip, type) == ring' = Append(ring, [src |-> ip, type |-> type])
RingOutput(ip, type) ==
    ring' = IF Len(ring) < RingSize THEN Append(ring, [src |-> ip, type |-> type]) ELSE ring

(***************************************************************************)
(* check_syn_flood.  Inserting a key zero-fills the slots of the other     *)
(* CPUs; a full map refuses the key.                                       *)
(***************************************************************************)
SynTrippedLate(n) == n > SynThreshold + 1
SynTripped(n) == n > SynThreshold

SynCount(c, ip) ==
    /\ ip \in synKeys /\ ~SynTripped(syn[c][ip] + 1)
    /\ syn' = [syn EXCEPT ![c][ip] = @ + 1]
    /\ UNCHANGED <<synKeys, ring, synAlerts>>

SynAlert(c, ip) ==
    /\ ip \in synKeys /\ SynTripped(syn[c][ip] + 1)
    /\ RingOutput(ip, "syn_flood")
    /\ syn' = [syn EXCEPT ![c][ip] = 0]
    /\ synAlerts' = [synAlerts EXCEPT ![c][ip] = @ + 1]
    /\ UNCHANGED synKeys

SynMapFull == ~(Cardinality(synKeys) < MapSize)

SynFirst(c, ip) ==
    /\ ip \notin synKeys
    /\ IF SynMapFull THEN UNCHANGED <<synKeys, syn>>
       ELSE /\ synKeys' = synKeys \cup {ip}
            /\ syn' = [d \in CPU |-> [syn[d] EXCEPT ![ip] = IF d = c THEN 1 ELSE 0]]
    /\ UNCHANGED <<ring, synAlerts>>

CheckSynFlood(c) ==
    /\ pc[c] = "syn"
    /\ SynCount(c, src(c)) \/ SynAlert(c, src(c)) \/ SynFirst(c, src(c))
    /\ synSeen' = [synSeen EXCEPT ![c][src(c)] = @ + 1]
    /\ Goto(c, "scan")
    /\ UNCHANGED <<blacklist, scan, flow, local, bounds, scanHist, arrived>>

(***************************************************************************)
(* check_port_scan.  Only ports of the bitmap are tracked; the entry of a  *)
(* source is created for any port.                                         *)
(***************************************************************************)
WordOf(port) == port \div Bits
WordBits(w) == {p \in LowPort : WordOf(p) = w}

ScanTrippedEarly(n) == n >= ScanThreshold
ScanTrippedLate(n) == n > ScanThreshold + 1
ScanTripped(n) == n > ScanThreshold

\* The step of both loops over the words, and one store of the clearing loop.
SameWord(w) == w
NextWord(w) == w + 1
WordKept(bitmap, w) == bitmap
WordCleared(bitmap, w) == bitmap \ WordBits(w)

\* What follows a lookup of port_scan_map on CPU c that returned element e.
ScanFound(c, e) ==
    /\ ptr' = [ptr EXCEPT ![c] = e]
    /\ Goto(c, IF pkt[c].port \in LowPort THEN "scanLoad" ELSE "flow")

ScanLookup(c) ==
    /\ pc[c] = "scan"
    /\ LET e == Lookup(scan, src(c))
       IN  IF e = NoElem THEN Goto(c, "scanNew") /\ UNCHANGED ptr ELSE ScanFound(c, e)
    /\ UNCHANGED <<blacklist, maps, pkt, bits, num, idx, total, bounds,
                   synHist, scanHist, arrived>>

ScanCreate(c) ==
    /\ pc[c] = "scanNew"
    /\ scan' \in Update(scan, c, src(c), {})
    /\ Goto(c, "scanAgain")
    /\ UNCHANGED <<blacklist, synKeys, syn, flow, ring, local, bounds,
                   synHist, scanHist, arrived>>

ScanRelookup(c) ==
    /\ pc[c] = "scanAgain"
    /\ LET e == Lookup(scan, src(c))
       IN  IF e = NoElem THEN Goto(c, "flow") /\ UNCHANGED ptr ELSE ScanFound(c, e)
    /\ UNCHANGED <<blacklist, maps, pkt, bits, num, idx, total, bounds,
                   synHist, scanHist, arrived>>

\* bitmap[idx] |= bit: a load of the word ...
ScanLoad(c) ==
    /\ pc[c] = "scanLoad"
    /\ bits' = [bits EXCEPT ![c] = scan.val[ptr[c]] \cap WordBits(WordOf(pkt[c].port))]
    /\ Goto(c, "scanStore")
    /\ UNCHANGED <<blacklist, maps, pkt, ptr, num, idx, total, bounds,
                   synHist, scanHist, arrived>>

\* ... and a store of the word with the bit of the port set.
ScanStore(c) ==
    /\ pc[c] = "scanStore"
    /\ LET port == pkt[c].port
           others == scan.val[ptr[c]] \ WordBits(WordOf(port))
       IN  /\ scan' = Store(scan, ptr[c], others \cup bits[c] \cup {port})
           /\ probed' = [probed EXCEPT ![src(c)] = @ \cup {port}]
           /\ fresh' = [fresh EXCEPT ![src(c)] = @ \cup {port}]
    /\ probes' = Bump(probes, src(c))
    /\ idx' = [idx EXCEPT ![c] = 0] /\ total' = [total EXCEPT ![c] = 0]
    /\ Goto(c, "scanCount")
    /\ UNCHANGED <<blacklist, synKeys, syn, flow, ring, pkt, ptr, bits, num, bounds,
                   synHist, scanAlerts, arrived>>

\* One round of the popcount loop, and after the last one the comparison.
ScanCount(c) ==
    /\ pc[c] = "scanCount"
    /\ total' = [total EXCEPT ![c] = @ + Cardinality(scan.val[ptr[c]] \cap WordBits(idx[c]))]
    /\ idx' = [idx EXCEPT ![c] = NextWord(@)]
    /\ Goto(c, IF NextWord(idx[c]) < Words THEN "scanCount"
               ELSE IF ScanTripped(total'[c]) THEN "scanAlert" ELSE "flow")
    /\ UNCHANGED <<blacklist, maps, pkt, ptr, bits, num, bounds, synHist, scanHist, arrived>>

ScanAlert(c) ==
    /\ pc[c] = "scanAlert"
    /\ RingOutput(src(c), "port_scan")
    /\ scanAlerts' = Bump(scanAlerts, src(c))
    /\ fresh' = [fresh EXCEPT ![src(c)] = {}]
    /\ idx' = [idx EXCEPT ![c] = 0]
    /\ Goto(c, "scanClear")
    /\ UNCHANGED <<blacklist, synKeys, syn, scan, flow, pkt, ptr, bits, num, total, bounds,
                   synHist, probes, probed, arrived>>

\* One round of the loop that clears the bitmap.
ScanClear(c) ==
    /\ pc[c] = "scanClear"
    /\ scan' = Store(scan, ptr[c], WordCleared(scan.val[ptr[c]], idx[c]))
    /\ idx' = [idx EXCEPT ![c] = NextWord(@)]
    /\ Goto(c, IF NextWord(idx[c]) < Words THEN "scanClear" ELSE "flow")
    /\ UNCHANGED <<blacklist, synKeys, syn, flow, ring, pkt, ptr, bits, num, total, bounds,
                   synHist, scanHist, arrived>>

(***************************************************************************)
(* update_flow_stats: pkt_count++ and byte_count += size are a load and a  *)
(* store each; the packet passes when the last of them is done.            *)
(***************************************************************************)
FirstStatsNoBytes(size) == [pkts |-> 1, bytes |-> 0]
FirstStatsTwice(size) == [pkts |-> 2, bytes |-> size]
FirstStats(size) == [pkts |-> 1, bytes |-> size]

FlowLookup(c) ==
    /\ pc[c] = "flow"
    /\ LET e == Lookup(flow, src(c))
       IN  /\ ptr' = [ptr EXCEPT ![c] = e]
           /\ Goto(c, IF e = NoElem THEN "flowNew" ELSE "flowLoadPkts")
    /\ arrived' = [arrived EXCEPT ![src(c)] =
                      [pkts |-> @.pkts + 1, bytes |-> @.bytes + pkt[c].size]]
    /\ UNCHANGED <<blacklist, maps, pkt, bits, num, idx, total, bounds,
                   synHist, scanHist>>

FlowCreate(c) ==
    /\ pc[c] = "flowNew"
    /\ flow' \in Update(flow, c, src(c), FirstStats(pkt[c].size))
    /\ Goto(c, "idle")
    /\ UNCHANGED <<blacklist, synKeys, syn, scan, ring, local, bounds,
                   synHist, scanHist, arrived>>

FlowLoad(c, label, field, next) ==
    /\ pc[c] = label
    /\ num' = [num EXCEPT ![c] = flow.val[ptr[c]][field]]
    /\ Goto(c, next)
    /\ UNCHANGED <<blacklist, maps, pkt, ptr, bits, idx, total, bounds,
                   synHist, scanHist, arrived>>

FlowStore(c, label, field, amount, next) ==
    /\ pc[c] = label
    /\ flow' = Store(flow, ptr[c], [flow.val[ptr[c]] EXCEPT ![field] = num[c] + amount])
    /\ Goto(c, next)
    /\ UNCHANGED <<blacklist, synKeys, syn, scan, ring, local, bounds,
                   synHist, scanHist, arrived>>

FlowLoadPkts(c)   == FlowLoad(c, "flowLoadPkts", "pkts", "flowStorePkts")
FlowStorePkts(c)  == FlowStore(c, "flowStorePkts", "pkts", 1, "flowLoadBytes")
FlowLoadBytes(c)  == FlowLoad(c, "flowLoadBytes", "bytes", "flowStoreBytes")
FlowStoreBytes(c) == FlowStore(c, "flowStoreBytes", "bytes", pkt[c].size, "idle")

CpuStep(c) ==
    \/ CheckSynFlood(c)
    \/ ScanLookup(c) \/ ScanCreate(c) \/ ScanRelookup(c)
    \/ ScanLoad(c) \/ ScanStore(c) \/ ScanCount(c) \/ ScanAlert(c) \/ ScanClear(c)
    \/ FlowLookup(c) \/ FlowCreate(c)
    \/ FlowLoadPkts(c) \/ FlowStorePkts(c) \/ FlowLoadBytes(c) \/ FlowStoreBytes(c)

(***************************************************************************)
(* The environment.                                                        *)
(***************************************************************************)
\* An operator writes or deletes (NoElem) a blacklist entry with bpf(2).
SetBlacklist(ip, v) ==
    /\ edits < MaxBlacklist /\ edits' = edits + 1
    /\ blacklist[ip] # v
    /\ blacklist' = [blacklist EXCEPT ![ip] = v]
    /\ UNCHANGED <<maps, pc, local, received, cleaned, synHist, scanHist, arrived>>

\* The loader consumes the oldest record (ring_buffer__poll).
Consume ==
    /\ ring # <<>> /\ ring' = Tail(ring)
    /\ UNCHANGED <<blacklist, synKeys, syn, scan, flow, pc, local, bounds,
                   synHist, scanHist, arrived>>

\* clean_maps deletes an entry of one of the maps it was told to clean.
Cleaning ==
    /\ cleaned < MaxCleanings /\ cleaned' = cleaned + 1
    /\ UNCHANGED <<blacklist, synKeys, syn, ring, pc, local, received, edits,
                   synHist, scanHist, arrived>>

CleanFlow(ip) ==
    /\ Lookup(flow, ip) # NoElem /\ flow' = Delete(flow, ip) /\ UNCHANGED scan
    /\ Cleaning

CleanScan(ip) ==
    /\ Lookup(scan, ip) # NoElem /\ scan' = Delete(scan, ip) /\ UNCHANGED flow
    /\ Cleaning

Next ==
    \/ \E c \in CPU : (\E p \in Packet : Enter(c, p)) \/ CpuStep(c)
    \/ \E ip \in IP, v \in {NoElem, 0, 1} : SetBlacklist(ip, v)
    \/ Consume
    \/ \E ip \in IP : CleanFlow(ip) \/ CleanScan(ip)

Spec == Init /\ [][Next]_vars

\* A CPU that has started on a packet keeps running (softirq context).
FairSpec == Spec /\ \A c \in CPU : WF_vars(CpuStep(c))

-----------------------------------------------------------------------------
(***************************************************************************)
(* Type correctness of every variable; the ring never holds more than it   *)
(* can, and a CPU in the middle of check_port_scan or update_flow_stats    *)
(* holds a pointer to an element (the verifier demands the null checks).   *)
(***************************************************************************)
PortSteps == {"scanLoad", "scanStore", "scanCount", "scanAlert", "scanClear"}
PtrSteps == PortSteps \cup
            {"flowLoadPkts", "flowStorePkts", "flowLoadBytes", "flowStoreBytes"}
Steps == PtrSteps \cup {"idle", "syn", "scan", "scanNew", "scanAgain", "flow", "flowNew"}

MapTypes ==
    /\ blacklist \in [IP -> {NoElem, 0, 1}]
    /\ synKeys \in SUBSET IP
    /\ syn \in [CPU -> [IP -> 0..SynThreshold]]
    /\ scan \in HashType(SUBSET LowPort)
    /\ flow \in HashType(FlowValue)
    /\ ring \in Seq([src : IP, type : {"syn_flood", "port_scan"}])
    /\ Len(ring) <= RingSize

LocalTypes ==
    /\ pc \in [CPU -> Steps]
    /\ pkt \in [CPU -> Packet \cup {NoPacket}]
    /\ \A c \in CPU : pc[c] # "idle" => pkt[c] \in Packet
    /\ ptr \in [CPU -> Elem \cup {NoElem}]
    /\ \A c \in CPU : pc[c] \in PtrSteps => ptr[c] \in Elem
    /\ \A c \in CPU : pc[c] \in PortSteps => pkt[c].port \in LowPort
    /\ bits \in [CPU -> SUBSET LowPort]
    /\ num \in [CPU -> Nat] /\ idx \in [CPU -> Nat] /\ total \in [CPU -> Nat]

HistoryTypes ==
    /\ received \in Nat /\ edits \in Nat /\ cleaned \in Nat
    /\ synSeen \in [CPU -> [IP -> Nat]] /\ synAlerts \in [CPU -> [IP -> Nat]]
    /\ probes \in [IP -> Nat] /\ scanAlerts \in [IP -> Nat]
    /\ probed \in [IP -> SUBSET LowPort] /\ fresh \in [IP -> SUBSET LowPort]
    /\ arrived \in [IP -> FlowValue]

TypeOK == MapTypes /\ LocalTypes /\ HistoryTypes

(***************************************************************************)
(* check_syn_flood charges every SYN to exactly one alert: on each CPU the *)
(* SYNs of a tracked source are the ones its alerts used up, SynThreshold  *)
(* + 1 each, and the ones still in the slot.  So an alert is never raised  *)
(* early or twice, and a source keeps at most SynThreshold SYNs per CPU    *)
(* below the alarm.  A source that is not tracked raised no alert, and if  *)
(* it sent a SYN then the map was full.                                    *)
(***************************************************************************)
Charged(alerts) == (SynThreshold + 1) * alerts

SynAccounting ==
    \A c \in CPU, ip \in IP :
        IF ip \in synKeys
        THEN synSeen[c][ip] = Charged(synAlerts[c][ip]) + syn[c][ip]
        ELSE /\ synAlerts[c][ip] = 0
             /\ synSeen[c][ip] > 0 => SynMapFull

(***************************************************************************)
(* A port-scan alert about a source is raised only after that source       *)
(* probed more than ScanThreshold different ports.                         *)
(***************************************************************************)
ScanAlertJustified ==
    \A ip \in IP : scanAlerts[ip] > 0 => Cardinality(probed[ip]) > ScanThreshold

(***************************************************************************)
(* No port-scan alert is a repetition: each one consumed more than         *)
(* ScanThreshold probes of its own ("reset the bitmap, against duplicate   *)
(* alerts", examples/c/ebpf/xdp_blacklist.bpf.c:143).                      *)
(***************************************************************************)
NoDuplicateScanAlert ==
    \A ip \in IP : scanAlerts[ip] * (ScanThreshold + 1) <= probes[ip]

Idle == \A c \in CPU : pc[c] = "idle"

(***************************************************************************)
(* No scan of a tracked source goes unreported: when no packet is in       *)
(* flight, the ports it probed since its last alert are not above the      *)
(* threshold.                                                              *)
(***************************************************************************)
ScanComplete == Idle => \A ip \in IP : Cardinality(fresh[ip]) <= ScanThreshold

(***************************************************************************)
(* flow_stats counts every packet that reached update_flow_stats: when no  *)
(* packet is in flight an entry equals what arrived, and a source without  *)
(* an entry either sent nothing or found the map full.                     *)
(***************************************************************************)
FlowExact ==
    Idle => \A ip \in IP :
        LET e == Lookup(flow, ip)
        IN  IF e = NoElem THEN arrived[ip] = NoTraffic \/ Full(flow)
            ELSE flow.val[e] = arrived[ip]

(***************************************************************************)
(* Races lose packets but never invent them: together the entries of       *)
(* flow_stats count no more packets than reached update_flow_stats.        *)
(***************************************************************************)
FlowNeverInvented ==
    LET counted == [ip \in IP |-> IF Lookup(flow, ip) = NoElem THEN 0
                                  ELSE flow.val[Lookup(flow, ip)].pkts]
        pkts == [ip \in IP |-> arrived[ip].pkts]
    IN  Total(counted, IP) <= Total(pkts, IP)

(***************************************************************************)
(* Once a source is blacklisted and its packets in flight are done, that   *)
(* is final until the operator lifts the block: no CPU takes up another    *)
(* packet of it, no SYN of it is counted, no probe tracked, no alert about *)
(* it raised, and no entry created for it or swapped.  Its entries only    *)
(* leave, by the hand of clean_maps, or have their values changed by a CPU *)
(* that works for another source through a pointer it got before the       *)
(* element came to this one.                                               *)
(***************************************************************************)
Silenced(ip) == blacklist[ip] = 1 /\ \A c \in CPU : pc[c] = "idle" \/ src(c) # ip

FlowStores == {"flowStorePkts", "flowStoreBytes"}
ScanStores == {"scanStore", "scanClear"}

\* What may become of the entry of ip when map h becomes hNext.
LeftAlone(h, hNext, ip, stores) ==
    LET e == Lookup(h, ip)
    IN  \/ Lookup(hNext, ip) = NoElem
        \/ /\ Lookup(hNext, ip) = e
           /\ \/ hNext.val[e] = h.val[e]
              \/ \E c \in CPU : pc[c] \in stores /\ ptr[c] = e /\ src(c) # ip

SilentAbout(ip) ==
    /\ \A c \in CPU : synSeen'[c][ip] = synSeen[c][ip] /\ syn'[c][ip] = syn[c][ip]
    /\ probes'[ip] = probes[ip] /\ scanAlerts'[ip] = scanAlerts[ip]
    /\ arrived'[ip] = arrived[ip]
    /\ LeftAlone(flow, flow', ip, FlowStores)
    /\ LeftAlone(scan, scan', ip, ScanStores)

BlockedStaysSilent ==
    [][\A ip \in IP : Silenced(ip) =>
            SilentAbout(ip) /\ (Silenced(ip)' \/ blacklist'[ip] # 1)]_vars

(***************************************************************************)
(* The handler terminates: every packet a CPU takes gets its verdict.      *)
(***************************************************************************)
PacketsFinish == \A c \in CPU : (pc[c] # "idle") ~> (pc[c] = "idle")
=============================================================================
