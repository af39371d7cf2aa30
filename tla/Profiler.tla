------------------------------ MODULE Profiler ------------------------------
(***************************************************************************)
(* profile.c and profile.bpf.c: a perf event and a link on every CPU that  *)
(* is online when the program starts, and a loop that prints the stack     *)
(* traces they leave in a ring buffer.  CPUs go on and off line meanwhile. *)
(* The CPUs are numbered; the mask of the online ones may have holes.      *)
(***************************************************************************)
EXTENDS Naturals, Sequences

CONSTANTS
    num_cpus,       \* libbpf_num_possible_cpus
    RingSize        \* bound: samples the ring buffer holds

VARIABLES
    online,         \* CPUs on line
    online_mask,    \* those that parse_cpu_mask_file has found
    pc, cpu,        \* where main is, and the loop's variable
    links,          \* CPUs whose event has the program attached
    events          \* samples in the ring buffer, by the CPU they are from

vars == <<online, online_mask, pc, cpu, links, events>>

ProfilerAssumption == num_cpus \in Nat \ {0} /\ RingSize \in Nat

Cpus == 0..num_cpus - 1

\* The mask is as long as its last CPU requires.
num_online_cpus == 1 + (CHOOSE c \in online_mask : \A d \in online_mask : d <= c)

Init ==
    /\ online \in (SUBSET Cpus) \ {{}} /\ online_mask = {}
    /\ pc = "mask" /\ cpu = 0 /\ links = {} /\ events = <<>>

parse_cpu_mask_file ==
    /\ pc = "mask"
    /\ \/ online_mask' = online /\ pc' = "setup"
       \/ UNCHANGED online_mask /\ pc' = "cleanup"
    /\ UNCHANGED <<online, cpu, links, events>>

\* The number of CPUs, the skeleton, the symbolizer, the ring buffer: any may fail.
SetUp ==
    /\ pc = "setup" /\ pc' \in {"cpus", "cleanup"}
    /\ UNCHANGED <<online, online_mask, cpu, links, events>>

\* The loop over the CPUs.
Skipped == cpu >= num_online_cpus \/ cpu \notin online_mask

LoopLeft == num_cpus
Continued == cpu + 1

Skip ==
    /\ pc = "cpus" /\ cpu < num_cpus /\ Skipped /\ cpu' = Continued
    /\ UNCHANGED <<online, online_mask, pc, links, events>>

\* perf_event_open, which refuses a CPU that has gone off line.
Open ==
    /\ pc = "cpus" /\ cpu < num_cpus /\ ~Skipped
    /\ \/ cpu \in online /\ pc' = "attach"
       \/ pc' = "cleanup"
    /\ UNCHANGED <<online, online_mask, cpu, links, events>>

bpf_program__attach_perf_event ==
    /\ pc = "attach"
    /\ \/ links' = links \cup {cpu} /\ cpu' = cpu + 1 /\ pc' = "cpus"
       \/ pc' = "cleanup" /\ UNCHANGED <<links, cpu>>
    /\ UNCHANGED <<online, online_mask, events>>

LoopDone ==
    /\ pc = "cpus" /\ cpu = num_cpus /\ pc' = "poll"
    /\ UNCHANGED <<online, online_mask, cpu, links, events>>

\* The program on a sample; a full ring buffer refuses it.
profile(c) ==
    /\ c \in online \cap links /\ Len(events) < RingSize /\ events' = Append(events, c)
    /\ UNCHANGED <<online, online_mask, pc, cpu, links>>

\* Whether or not it has stacks to print, the event is consumed.
event_handler ==
    /\ pc = "poll" /\ events # <<>> /\ events' = Tail(events)
    /\ UNCHANGED <<online, online_mask, pc, cpu, links>>

\* Only an error ends the loop.
PollFails ==
    /\ pc = "poll" /\ pc' = "cleanup"
    /\ UNCHANGED <<online, online_mask, cpu, links, events>>

\* Links are destroyed, events closed and the ring buffer freed, whichever exist.
cleanup ==
    /\ pc = "cleanup" /\ pc' = "done" /\ links' = {} /\ events' = <<>>
    /\ UNCHANGED <<online, online_mask, cpu>>

Hotplug ==
    /\ \E c \in Cpus : online' = (online \cup {c}) \/ online' = online \ {c}
    /\ online' # {} /\ UNCHANGED <<online_mask, pc, cpu, links, events>>

profile_main ==
    \/ parse_cpu_mask_file \/ SetUp \/ Skip \/ Open \/ bpf_program__attach_perf_event \/ LoopDone
    \/ event_handler \/ PollFails \/ cleanup

Next == profile_main \/ Hotplug \/ \E c \in Cpus : profile(c)

Spec == Init /\ [][Next]_vars

\* Holes in the mask, CPUs that go off line during the start, a failure half way:
\* the program waits for samples only once every CPU of the mask, and no other,
\* is sampled, and it leaves no CPU sampled when it returns.
SampledWhole ==
    /\ pc = "poll" => links = online_mask
    /\ pc = "done" => links = {}
=============================================================================
