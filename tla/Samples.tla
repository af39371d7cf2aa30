------------------------------ MODULE Samples ------------------------------
(***************************************************************************)
(* The programs of examples/c a user tries one after the other: in one     *)
(* session either the XDP tools on an interface, or listeners on the ring  *)
(* of a firewall, or one of the process tracers, or tc, or the profiler.   *)
(* They share no state.                                                    *)
(***************************************************************************)
EXTENDS Naturals, Sequences

CONSTANTS
    Tool, IP, ip_to_int,
    Listener, NoRecord, Size, MaxRecords,
    Pid, CPU, MinDuration, MAX_ENTRIES, BufSize, MaxTime, MaxImages,
    Tc, num_cpus, RingSize,
    None

VARIABLES
    session,
    hook, tool_program, tool_pc, blacklist, tool_running, undetached,
    producer_pos, consumer_pos, slot, filling, listener_pc, cons_pos, ready, handled, running,
    overlapped, abandoned,
    program, min_duration, now, images, task, exec_start, buffer, attached, pc, exiting, printed,
    qdisc, filter, tc_pc, hook_created, err, tc_exiting, unflushed,
    online, online_mask, profile_pc, cpu, links, events

tools == <<hook, tool_program, tool_pc, blacklist, tool_running, undetached>>
rings ==
    <<producer_pos, consumer_pos, slot, filling, listener_pc, cons_pos, ready, handled, running,
      overlapped, abandoned>>
trace == <<program, min_duration, now, images, task, exec_start, buffer, attached, pc, exiting, printed>>
ingress == <<qdisc, filter, tc_pc, hook_created, err, tc_exiting, unflushed>>
perf == <<online, online_mask, profile_pc, cpu, links, events>>
vars == <<session, tools, rings, trace, ingress, perf>>

Tools == INSTANCE XdpSamples WITH program <- tool_program, pc <- tool_pc, running <- tool_running
Rings == INSTANCE RingListeners WITH pc <- listener_pc
Trace == INSTANCE ProcessTrace
Ingress == INSTANCE TcIngress WITH pc <- tc_pc, exiting <- tc_exiting
Perf == INSTANCE Profiler WITH pc <- profile_pc

ASSUME SamplesAssumption ==
    /\ Tools!ToolsAssumption /\ Rings!RingAssumption /\ Trace!TraceAssumption
    /\ Ingress!TcAssumption /\ Perf!ProfilerAssumption

Init ==
    /\ session \in {"tools", "rings", "trace", "ingress", "perf"}
    /\ Tools!Init /\ Rings!Init /\ Trace!Init /\ Ingress!Init /\ Perf!Init
    /\ qdisc => session = "ingress"
    /\ online # Perf!Cpus => session = "perf"

Next ==
    /\ UNCHANGED session
    /\ \/ session = "tools" /\ Tools!Next /\ UNCHANGED <<rings, trace, ingress, perf>>
       \/ session = "rings" /\ Rings!Next /\ UNCHANGED <<tools, trace, ingress, perf>>
       \/ session = "trace" /\ Trace!Next /\ UNCHANGED <<tools, rings, ingress, perf>>
       \/ session = "ingress" /\ Ingress!Next /\ UNCHANGED <<tools, rings, trace, perf>>
       \/ session = "perf" /\ Perf!Next /\ UNCHANGED <<tools, rings, trace, ingress>>

Spec == Init /\ [][Next]_vars

FairSpec == Spec /\ Rings!Fairness

(***************************************************************************)
(* The properties of the three modules, for this composition.              *)
(***************************************************************************)
\* An XDP tool whose main has returned has no program on the interface, unless its
\* own bpf_xdp_detach failed.
InterfaceRestored == Tools!InterfaceRestored

\* What blacklist_ctl.py reports as added is blocked by the xdp_blacklist that is on
\* the interface, as the latter's start message has it.
AddedIsBlocked == Tools!AddedIsBlocked

\* A record of the ring is given away only when some rb_listen has printed it.
NoneLost == Rings!NoneLost

\* An rb_listen that never shared the ring prints every record once, in order.
AloneInOrder == Rings!AloneInOrder

\* A full ring has room again as long as an rb_listen has it open, unless one was
\* killed in a pass beside another.
RoomAgain == Rings!RoomAgain

\* A lifetime bootstrap prints is that of the image that exits, or unknown.
DurationTrue == Trace!DurationTrue

\* bootstrap reports the exit of an image once, whatever its threads do.
ExitOnce == Trace!ExitOnce

\* A leader's exit leaves no entry of exec_start for the next process of its pid.
NothingLeftBehind == Trace!NothingLeftBehind

\* A tc whose main has returned leaves its filter on lo only with an error, and only
\* if it did not create the hook or could not flush it.
FilterRemoved == Ingress!FilterRemoved

\* profile samples every CPU that was on line when it started, or stops.
SampledWhole == Perf!SampledWhole
=============================================================================
