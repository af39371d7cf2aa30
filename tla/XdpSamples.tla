----------------------------- MODULE XdpSamples -----------------------------
(***************************************************************************)
(* The first XDP programs of the project, each started by hand on one      *)
(* interface: xdp_blacklist and xdp_parse_ip, which attach a filter until  *)
(* they are interrupted; blacklist_ctl.py, which edits "the" blacklist;    *)
(* and test_ringbuf, which waits for the alerts of the earlier firewall.   *)
(*                                                                         *)
(* Loading gives every process an instance of its own: a program with its  *)
(* own maps, named by the process here.  An instance lives as long as its  *)
(* process or as long as its program is on the interface.  Attaching with  *)
(* XDP_FLAGS_SKB_MODE alone replaces whatever is there, detaching removes  *)
(* whatever is there, and neither follows the process when it dies.        *)
(* Either may fail; a failing detachment goes unnoticed.                   *)
(***************************************************************************)
EXTENDS Naturals, FiniteSets

CONSTANTS
    Tool,           \* processes an operator starts
    IP,
    ip_to_int,      \* [IP -> the address a key of that number stands for]
    None

ToolsAssumption == None \notin Tool /\ ip_to_int \in [IP -> IP]

VARIABLES
    hook,           \* the program on the interface: an instance, or None
    program,        \* [Tool -> what the process runs, or None]
    pc,             \* [Tool -> where main is]
    blacklist,      \* [Tool -> addresses blocked in the instance's map]
    running,        \* [Tool -> running]
    undetached      \* history: tools whose bpf_xdp_detach has failed

vars == <<hook, program, pc, blacklist, running, undetached>>

Filter == {"xdp_blacklist", "xdp_parse_ip"}
Program == Filter \cup {"blacklist_ctl", "test_ringbuf"}

Init ==
    /\ hook = None /\ program = [t \in Tool |-> None] /\ pc = [t \in Tool |-> "idle"]
    /\ blacklist = [t \in Tool |-> {}] /\ running = [t \in Tool |-> TRUE] /\ undetached = {}

At(t, label) == pc[t] = label /\ UNCHANGED program
Goto(t, label) == pc' = [pc EXCEPT ![t] = label]

(***************************************************************************)
(* The programs, for an IP packet with a whole header: whatever else comes *)
(* passes.                                                                 *)
(***************************************************************************)
xdp_parse_ip == "XDP_PASS"

xdp_blacklist_filter(addresses, src_ip) ==
    IF src_ip \in addresses THEN "XDP_DROP" ELSE "XDP_PASS"

Verdict(t, src_ip) ==
    IF program[t] = "xdp_parse_ip" THEN xdp_parse_ip
    ELSE xdp_blacklist_filter(blacklist[t], src_ip)

(***************************************************************************)
(* What they have in common: arguments and interface are checked, then the *)
(* skeleton is opened and loaded.  A failure ends the process, with        *)
(* nothing left behind by the skeleton's own error paths.                  *)
(***************************************************************************)
Start(t, p) ==
    /\ pc[t] = "idle" /\ program' = [program EXCEPT ![t] = p] /\ Goto(t, "open")
    /\ UNCHANGED <<hook, blacklist, running, undetached>>

\* After which the two that attach, the editor and the listener go their ways.
AfterLoad(t) ==
    CASE program[t] \in Filter -> "attach"
      [] program[t] = "blacklist_ctl" -> "edit"
      [] program[t] = "test_ringbuf" -> "skeleton attach"

open_and_load(t) ==
    /\ At(t, "open")
    /\ \E label \in {AfterLoad(t), "ended"} : Goto(t, label)
    /\ UNCHANGED <<hook, blacklist, running, undetached>>

(***************************************************************************)
(* main of xdp_blacklist.c and xdp_parse_ip.c.                             *)
(***************************************************************************)
bpf_xdp_attach(t) ==
    /\ At(t, "attach")
    /\ \/ hook' = t /\ Goto(t, "handlers")
       \/ Goto(t, "ended") /\ UNCHANGED hook
    /\ UNCHANGED <<blacklist, running, undetached>>

\* Only now does a signal no longer kill the process: see Interrupt.
Handlers(t) ==
    /\ At(t, "handlers") /\ Goto(t, "sleep")
    /\ UNCHANGED <<hook, blacklist, running, undetached>>

Sleep(t) ==
    /\ At(t, "sleep") /\ ~running[t] /\ Goto(t, "detach")
    /\ UNCHANGED <<hook, blacklist, running, undetached>>

\* The result is not looked at.
DetachOwn == hook
Detached == None

bpf_xdp_detach(t) ==
    /\ At(t, "detach") /\ Goto(t, "ended")
    /\ \/ hook' = Detached /\ UNCHANGED undetached
       \/ undetached' = undetached \cup {t} /\ UNCHANGED hook
    /\ UNCHANGED <<blacklist, running>>

HookTool(t) == bpf_xdp_attach(t) \/ Handlers(t) \/ Sleep(t) \/ bpf_xdp_detach(t)

xdp_blacklist(t) == program[t] = "xdp_blacklist" /\ HookTool(t)
xdp_parse_ip_main(t) == program[t] = "xdp_parse_ip" /\ HookTool(t)

(***************************************************************************)
(* blacklist_ctl.py compiles and loads the source once more, "only to get  *)
(* at the map", edits the map it has made and ends, which frees it.  (If   *)
(* bcc finds no such table in the source, the script has failed to load.)  *)
(* The number ip_to_int makes of an address is stored in the byte order of *)
(* the host, while the filter looks sources up in that of the network: the *)
(* key may be that of another address.                                     *)
(***************************************************************************)
Table(t) == t

add(t, ip) == blacklist' = [blacklist EXCEPT ![Table(t)] = @ \cup {ip_to_int[ip]}]
del(t, ip) == blacklist' = [blacklist EXCEPT ![Table(t)] = @ \ {ip_to_int[ip]}]
list == UNCHANGED blacklist

blacklist_ctl(t) ==
    /\ At(t, "edit") /\ Goto(t, "ended")
    /\ list \/ \E ip \in IP : add(t, ip) \/ del(t, ip)
    /\ UNCHANGED <<hook, running, undetached>>

(***************************************************************************)
(* test_ringbuf.c.  libbpf attaches no program of a plain "xdp" section by *)
(* itself, and says so with no error: setting the interface index of the   *)
(* loaded program changes nothing either.  The program goes on to wait for *)
(* alerts its firewall never gets a packet for.                            *)
(***************************************************************************)
AttachesProgram(t) == t
Attaches(t) == hook

skeleton_attach(t) ==
    /\ At(t, "skeleton attach") /\ hook' = Attaches(t)
    /\ \E label \in {"ring", "ended"} : Goto(t, label)
    /\ UNCHANGED <<blacklist, running, undetached>>

\* ring_buffer__new, then signal(SIGINT).
NewRing(t) ==
    /\ At(t, "ring")
    /\ \E label \in {"listen", "ended"} : Goto(t, label)
    /\ UNCHANGED <<hook, blacklist, running, undetached>>

\* Errors of ring_buffer__poll are ignored; detaching the skeleton has no link
\* to destroy.
ListenEnds(t) ==
    /\ At(t, "listen") /\ ~running[t] /\ Goto(t, "ended")
    /\ UNCHANGED <<hook, blacklist, running, undetached>>

test_ringbuf(t) == skeleton_attach(t) \/ NewRing(t) \/ ListenEnds(t)

(***************************************************************************)
(* SIGINT: a process that has installed its handler notices in the end,    *)
(* any other dies where it is.                                             *)
(***************************************************************************)
Over == {"idle", "ended", "killed"}

Interrupt(t) ==
    /\ pc[t] \notin Over /\ running[t] /\ UNCHANGED <<hook, program, blacklist, undetached>>
    /\ IF pc[t] \in {"sleep", "detach", "listen"}
       THEN running' = [running EXCEPT ![t] = FALSE] /\ UNCHANGED pc
       ELSE Goto(t, "killed") /\ UNCHANGED running

Step(t) == open_and_load(t) \/ xdp_blacklist(t) \/ xdp_parse_ip_main(t) \/ blacklist_ctl(t) \/ test_ringbuf(t)

Next == \E t \in Tool : (\E p \in Program : Start(t, p)) \/ Step(t) \/ Interrupt(t)

Spec == Init /\ [][Next]_vars

(***************************************************************************)
(* Properties.                                                             *)
(***************************************************************************)
\* However they overlap, replace and detach each other's programs: one whose main
\* has returned has no program on the interface, unless its own detachment failed.
InterfaceRestored ==
    \A t \in Tool : hook = t /\ pc[t] = "ended" => t \in undetached

\* xdp_blacklist.c:48 tells the user to add addresses with the Python script to
\* test the blocking, and blacklist_ctl.py:36 reports that it has: while that
\* filter is on the interface, the address is blocked from then on.
AddedIsBlocked ==
    [][\A t \in Tool, ip \in IP :
          pc[t] = "edit" /\ add(t, ip) /\ hook # None /\ program[hook] = "xdp_blacklist"
              => Verdict(hook, ip)' = "XDP_DROP"]_vars
=============================================================================
