--------------------------- MODULE MCXdpFirewall ---------------------------
(***************************************************************************)
(* Instances of XdpFirewall for TLC: the packets of each run.              *)
(***************************************************************************)
EXTENDS XdpFirewall, TLC

CONSTANTS a, b     \* two source addresses

Pkt(kind, ip, syn_, ack_, port, size) ==
    [kind |-> kind, src |-> ip, syn |-> syn_, ack |-> ack_, port |-> port, size |-> size]

Syn(ip, port) == Pkt("tcp", ip, TRUE, FALSE, port, 1)
SynAck(ip, port) == Pkt("tcp", ip, TRUE, TRUE, port, 1)
Data(ip, size) == Pkt("ipv4", ip, FALSE, FALSE, 0, size)

\* Every branch of the handler: SYNs to ports of both words and above the
\* bitmap, a SYN-ACK, plain traffic of two sizes, and packets that pass unseen.
MixedPackets ==
    {Syn(a, 0), Syn(a, 2), Syn(a, 4), SynAck(b, 1), Syn(b, 3), Data(b, 2),
     Pkt("tcp_short", a, TRUE, FALSE, 0, 1), Pkt("malformed", a, FALSE, FALSE, 0, 1)}

\* SYNs of two sources, each of which goes to every map.
BusyPackets == {Syn(a, 0), Syn(b, 1)}

\* Scans of two sources, without the SYN counter.
ScanPackets == {SynAck(a, 0), SynAck(a, 1), SynAck(a, 2), SynAck(b, 0)}

Cpus == Permutations(CPU)
=============================================================================
