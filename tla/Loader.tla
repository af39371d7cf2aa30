------------------------------- MODULE Loader -------------------------------
(***************************************************************************)
(* The life of loader processes (project_submit/ebpf_control/src/loader.c):*)
(* startup with every early return, the main loop with its signals, the    *)
(* hot reload of the configuration, and cleanup.  Several processes share  *)
(* the machine: the socket file, the XDP hook of the interfaces and the    *)
(* configuration file.  Nothing in the code keeps two loaders apart, so    *)
(* the steps that touch the machine are separate actions.                  *)
(*                                                                         *)
(* A process runs once: "new", then the steps of main, then "exited" (main *)
(* returned) or "killed" (a signal with its default action, or SIGKILL).   *)
(* The rest of the main loop - clients, alerts, flow statistics - is the   *)
(* business of the modules AlertLink and FlowReport.                       *)
(***************************************************************************)
EXTENDS Integers

CONSTANTS
    Proc,           \* loader processes
    If,             \* network interfaces
    Path,           \* socket paths
    None,
    DefaultConfig,  \* what config_defaults writes
    ConfigFile,     \* contents the configuration file may have
    InitialFile,    \* its content at the start
    CliArgs,        \* command lines a loader may be started with
    Overlap,        \* when a loader may be started: see MayStart
    MaxEdits,       \* bound: edits of the configuration file
    Tools           \* which commands of the scripts and the READMEs are used

Mode == {"skb", "drv", "hw", "auto"}
Field == [ifname |-> If, mode |-> Mode, socket |-> Path, log |-> {"file", "unwritable"},
          interval |-> 1..3600, daemon |-> 0..1]
Key == DOMAIN Field
Config == [ifname : If, mode : Mode, socket : Path, log : {"file", "unwritable"},
           interval : 1..3600, daemon : 0..1]
NoFile == [kind |-> "missing", set |-> <<>>]

ASSUME LoaderAssumption ==
    /\ None \notin Proc /\ None \notin If /\ None \notin [owner : Proc, mode : Mode]
    /\ DefaultConfig \in Config
    /\ InitialFile \in ConfigFile
    /\ \A f \in ConfigFile : /\ f.kind \in {"missing", "bad", "good"}
                             /\ DOMAIN f.set \subseteq Key
                             /\ \A k \in DOMAIN f.set : f.set[k] \in Field[k]
    /\ CliArgs \subseteq [ifname : If \cup {None}, daemon : {-1, 1},
                           config : {"relative", "absolute"}]
    /\ Overlap \in {"after exit", "after signal", "any time"}
    /\ MaxEdits \in Nat

VARIABLES
    file, version,      \* the configuration file, and how often it was edited
    sock,               \* [Path -> Proc or None]: who bound the socket file
    hook,               \* [If -> program or None]: the program attached to the interface
    pc, args, cfg, cwd, \* per process: next step of main, command line, cfg, directory
    exiting, reload,    \*   exiting, reload_requested
    server,             \*   server_fd >= 0
    ifindex, attached,  \*   ifindex, xdp_attached
    script              \* stop.sh: "idle" or "signalled"

\* Histories for the properties: the version a process must reread, the one it
\* last read, and the calls that should have undone its work and failed.
VARIABLES owed, seen, failed

os == <<file, version, sock, hook>>
flags == <<exiting, reload>>
held == <<server, ifindex, attached>>
past == <<seen, failed>>
hist == <<owed, past>>
vars == <<os, pc, args, cfg, cwd, flags, held, script, hist>>

NoArgs == [ifname |-> None, daemon |-> -1, config |-> "relative"]

Init ==
    /\ file = InitialFile /\ version = 0
    /\ sock = [s \in Path |-> None]
    /\ hook = [i \in If |-> None]
    /\ pc = [p \in Proc |-> "new"] /\ args = [p \in Proc |-> NoArgs]
    /\ cfg = [p \in Proc |-> DefaultConfig] /\ cwd = [p \in Proc |-> "start"]
    /\ exiting = [p \in Proc |-> FALSE] /\ reload = [p \in Proc |-> FALSE]
    /\ server = [p \in Proc |-> FALSE]
    /\ ifindex = [p \in Proc |-> None] /\ attached = [p \in Proc |-> FALSE]
    /\ script = "idle"
    /\ owed = [p \in Proc |-> 0] /\ seen = [p \in Proc |-> 0] /\ failed = [p \in Proc |-> {}]

Early   == {"config", "daemon", "log"}          \* signals still have their default action
Startup == {"unlinkOld", "bind", "listen", "load", "attach", "ring"}
Loop    == {"check", "reload", "reread", "poll"}
Cleanup == {"detach", "close", "unlink"}
Over    == {"new", "exited", "killed"}
Labels  == Early \cup Startup \cup Loop \cup Cleanup \cup Over
Running(p) == pc[p] \notin Over

Goto(p, label) == pc' = [pc EXCEPT ![p] = label]
Set(f, p, v) == [f EXCEPT ![p] = v]

\* Main is at this step, and the step touches neither the histories nor what
\* belongs to the operator.
At(p, label) ==
    /\ pc[p] = label
    /\ UNCHANGED <<file, version, args, script, owed>>

(***************************************************************************)
(* load_config_file: a missing file changes nothing and is no error; a     *)
(* file with an illegal line is an error whatever it had set before.       *)
(***************************************************************************)
Legal(f) == f.kind # "bad"

OverlayOnly(f, c) == [k \in Key |-> IF k \in DOMAIN f.set THEN f.set[k] ELSE None]
Overlay(f, c) ==
    IF f.kind = "missing" THEN c
    ELSE [k \in Key |-> IF k \in DOMAIN f.set THEN f.set[k] ELSE c[k]]

\* config_path is opened relative to the working directory.
CanRead(p) == args[p].config = "absolute" \/ cwd[p] = "start"
FileSeen(p) == IF CanRead(p) THEN file ELSE NoFile

(***************************************************************************)
(* main, up to the main loop.  Any system call may fail: such a step leads *)
(* to cleanup(), from "detach" on, or before it holds anything to the exit.*)
(***************************************************************************)
\* The command line overrides the file once, before anything uses cfg.
Overridden(c, a) ==
    [k \in Key |-> CASE k = "ifname" /\ a.ifname # None -> a.ifname
                     [] k = "daemon" /\ a.daemon >= 0 -> a.daemon
                     [] OTHER -> c[k]]

LoadConfig(p) ==
    /\ At(p, "config")
    /\ seen' = Set(seen, p, version)
    /\ IF Legal(FileSeen(p))
       THEN /\ cfg' = Set(cfg, p, Overridden(Overlay(FileSeen(p), DefaultConfig), args[p]))
            /\ Goto(p, "daemon")
       ELSE Goto(p, "exited") /\ UNCHANGED cfg
    /\ UNCHANGED <<sock, hook, cwd, flags, held, failed>>

Daemonize(p) ==
    /\ At(p, "daemon")
    /\ \/ cfg[p].daemon = 0 /\ Goto(p, "log") /\ UNCHANGED cwd
       \/ cfg[p].daemon = 1 /\ Goto(p, "log") /\ cwd' = Set(cwd, p, "/")
       \/ cfg[p].daemon = 1 /\ Goto(p, "exited") /\ UNCHANGED cwd
    /\ UNCHANGED <<sock, hook, cfg, flags, held, past>>

\* open_log_file, then signal(): nothing is held yet, a failure just returns.
OpenLog(p) ==
    /\ At(p, "log")
    /\ Goto(p, IF cfg[p].log = "file" THEN "unlinkOld" ELSE "exited")
    /\ UNCHANGED <<sock, hook, cfg, cwd, flags, held, past>>

\* unlink(path), whose result is never looked at.
Unlinked(p) ==
    \/ sock' = Set(sock, cfg[p].socket, None) /\ UNCHANGED failed
    \/ /\ sock[cfg[p].socket] # None
       /\ failed' = Set(failed, p, failed[p] \cup {"unlink"}) /\ UNCHANGED sock

\* setup_unix_server: unlink whatever file is there, bind a new one, listen.
UnlinkOld(p) ==
    /\ At(p, "unlinkOld")
    /\ \/ Goto(p, "detach") /\ UNCHANGED sock
       \/ Goto(p, "bind") /\ sock' \in {sock, Set(sock, cfg[p].socket, None)}
    /\ UNCHANGED <<hook, cfg, cwd, flags, held, past>>

Bind(p) ==
    /\ At(p, "bind")
    /\ \/ /\ sock[cfg[p].socket] = None
          /\ Goto(p, "listen") /\ sock' = Set(sock, cfg[p].socket, p)
       \/ Goto(p, "detach") /\ UNCHANGED sock
    /\ UNCHANGED <<hook, cfg, cwd, flags, held, past>>

Listen(p) ==
    /\ At(p, "listen")
    /\ \/ Goto(p, "load") /\ server' = Set(server, p, TRUE) /\ UNCHANGED <<sock, failed>>
       \/ Goto(p, "detach") /\ Unlinked(p) /\ UNCHANGED server
    /\ UNCHANGED <<hook, cfg, cwd, flags, ifindex, attached, seen>>

\* load_and_attach_bpf: open and load the skeleton, find the interface, attach.
LoadBpf(p) ==
    /\ At(p, "load")
    /\ \/ Goto(p, "attach") /\ ifindex' = Set(ifindex, p, cfg[p].ifname)
       \/ Goto(p, "detach") /\ UNCHANGED ifindex
    /\ UNCHANGED <<sock, hook, cfg, cwd, flags, server, attached, past>>

\* bpf_set_link_xdp_fd with XDP_FLAGS_UPDATE_IF_NOEXIST: an interface that has
\* a program refuses another.  A generic interface runs "auto" as "skb".
Slot(mode) == IF mode = "auto" THEN "skb" ELSE mode

AcceptsAny(i) == TRUE
Accepts(i) == hook[i] = None

Attach(p) ==
    /\ At(p, "attach")
    /\ \/ /\ Accepts(ifindex[p])
          /\ hook' = Set(hook, ifindex[p], [owner |-> p, mode |-> Slot(cfg[p].mode)])
          /\ attached' = Set(attached, p, TRUE)
          /\ Goto(p, "ring")
       \/ Goto(p, "detach") /\ UNCHANGED <<hook, attached>>
    /\ UNCHANGED <<sock, cfg, cwd, flags, server, ifindex, past>>

\* setup_ring_buffer and the descriptor of flow_stats.
SetupRing(p) ==
    /\ At(p, "ring")
    /\ Goto(p, "check") \/ Goto(p, "detach")
    /\ UNCHANGED <<sock, hook, cfg, cwd, flags, held, past>>

(***************************************************************************)
(* The main loop.  Signals may arrive between any two of its steps.        *)
(***************************************************************************)
CheckExit(p) ==
    /\ At(p, "check")
    /\ Goto(p, IF exiting[p] THEN "detach" ELSE "reload")
    /\ UNCHANGED <<sock, hook, cfg, cwd, flags, held, past>>

\* The request is cleared BEFORE the file is read.
CheckReload(p) ==
    /\ At(p, "reload")
    /\ Goto(p, IF reload[p] THEN "reread" ELSE "poll")
    /\ reload' = Set(reload, p, FALSE)
    /\ UNCHANGED <<sock, hook, cfg, cwd, exiting, held, past>>

\* What reload_config_runtime takes over from the file.
HotSwitchAll(new, old) == new
HotSwitchSocket(new, old) ==
    [k \in Key |-> IF k \in {"interval", "socket"} THEN new[k] ELSE old[k]]
HotSwitchMode(new, old) ==
    [k \in Key |-> IF k \in {"interval", "mode"} THEN new[k] ELSE old[k]]
HotSwitch(new, old) ==
    [k \in Key |-> IF k \in {"interval", "daemon", "log"} THEN new[k] ELSE old[k]]

Reread(p) ==
    /\ At(p, "reread")
    /\ cfg' = IF Legal(FileSeen(p))
              THEN Set(cfg, p, HotSwitch(Overlay(FileSeen(p), cfg[p]), cfg[p]))
              ELSE cfg
    /\ seen' = IF CanRead(p) THEN Set(seen, p, version) ELSE seen
    /\ Goto(p, "poll")
    /\ UNCHANGED <<sock, hook, cwd, flags, held, failed>>

\* ring_buffer__poll and read_and_report_stats, which change nothing here.
PollClears(p) ==
    /\ At(p, "poll") /\ Goto(p, "check")
    /\ reload' = Set(reload, p, FALSE)
    /\ UNCHANGED <<sock, hook, cfg, cwd, exiting, held, past>>

Poll(p) ==
    /\ At(p, "poll") /\ Goto(p, "check")
    /\ UNCHANGED <<sock, hook, cfg, cwd, flags, held, past>>

(***************************************************************************)
(* cleanup().  Detaching names the interface and the mode, not a program:  *)
(* it removes whatever program is attached there.                          *)
(***************************************************************************)
MustDetachAlways(p) == ifindex[p] # None
MustDetach(p) == attached[p] /\ ifindex[p] # None

Removed(h, mode) == IF h # None /\ h.mode = Slot(mode) THEN None ELSE h

\* Detaching may fail: that is logged, and cleanup() goes on.
Detach(p) ==
    /\ At(p, "detach")
    /\ \/ /\ MustDetach(p)
          /\ hook' = [hook EXCEPT ![ifindex[p]] = Removed(@, cfg[p].mode)] /\ UNCHANGED failed
       \/ /\ MustDetach(p) /\ hook[ifindex[p]] # None
          /\ failed' = Set(failed, p, failed[p] \cup {"detach"}) /\ UNCHANGED hook
       \/ ~MustDetach(p) /\ UNCHANGED <<hook, failed>>
    /\ attached' = Set(attached, p, FALSE)
    /\ Goto(p, IF server[p] THEN "close" ELSE "exited")
    /\ UNCHANGED <<sock, cfg, cwd, flags, server, ifindex, seen>>

Close(p) ==
    /\ At(p, "close")
    /\ server' = Set(server, p, FALSE)
    /\ Goto(p, "unlink")
    /\ UNCHANGED <<sock, hook, cfg, cwd, flags, ifindex, attached, past>>

Unlink(p) ==
    /\ At(p, "unlink")
    /\ Unlinked(p)
    /\ Goto(p, "exited")
    /\ UNCHANGED <<hook, cfg, cwd, flags, held, seen>>

Step(p) ==
    \/ LoadConfig(p) \/ Daemonize(p) \/ OpenLog(p)
    \/ UnlinkOld(p) \/ Bind(p) \/ Listen(p) \/ LoadBpf(p) \/ Attach(p) \/ SetupRing(p)
    \/ CheckExit(p) \/ CheckReload(p) \/ Reread(p) \/ Poll(p)
    \/ Detach(p) \/ Close(p) \/ Unlink(p)

(***************************************************************************)
(* The operator.                                                           *)
(***************************************************************************)
\* When another loader may be started, or the socket file removed: after the
\* others have exited, after they have been told to (the READMEs' "pkill
\* loader; rm -f xdp_loader.sock; ./loader"), or at any time.
MayStart ==
    \A q \in Proc : Running(q) => \/ Overlap = "any time"
                                  \/ Overlap = "after signal" /\ exiting[q]

Start(p, a) ==
    /\ pc[p] = "new" /\ MayStart
    /\ Goto(p, "config") /\ args' = Set(args, p, a)
    /\ UNCHANGED <<os, cfg, cwd, flags, held, script, hist>>

\* sig_handler, or the default action before signal() was called.
Terminated(S) ==
    /\ pc' = [p \in Proc |-> IF p \in S /\ pc[p] \in Early THEN "killed" ELSE pc[p]]
    /\ exiting' = [p \in Proc |-> exiting[p] \/ (p \in S /\ pc[p] \notin Early)]
    /\ UNCHANGED <<file, version, sock, args, cfg, cwd, reload, held, hist>>

Terminate(p) ==
    /\ Running(p) /\ ~exiting[p]
    /\ Terminated({p})
    /\ UNCHANGED <<hook, script>>

HangupOverwrites(p) ==
    /\ Running(p) /\ pc[p] \notin Early
    /\ reload' = Set(reload, p, TRUE) /\ exiting' = Set(exiting, p, FALSE)
    /\ UNCHANGED <<os, pc, args, cfg, cwd, held, script, hist>>

Hangup(p) ==
    /\ Running(p)
    /\ IF pc[p] \in Early THEN Goto(p, "killed") /\ UNCHANGED <<reload, owed>>
       ELSE /\ reload' = Set(reload, p, TRUE) /\ owed' = Set(owed, p, version)
            /\ UNCHANGED pc
    /\ UNCHANGED <<os, args, cfg, cwd, exiting, held, script, past>>

\* SIGKILL, or a crash: descriptors close, the file and the program stay.
Kill(p) ==
    /\ Running(p)
    /\ Goto(p, "killed")
    /\ server' = Set(server, p, FALSE) /\ attached' = Set(attached, p, FALSE)
    /\ UNCHANGED <<os, args, cfg, cwd, flags, ifindex, script, hist>>

EditConfig(f) ==
    /\ version < MaxEdits /\ f # file /\ file' = f /\ version' = version + 1
    /\ UNCHANGED <<sock, hook, pc, args, cfg, cwd, flags, held, script, hist>>

RemoveSocket(s) ==
    /\ "rm" \in Tools /\ MayStart
    /\ sock[s] # None /\ sock' = Set(sock, s, None)
    /\ UNCHANGED <<file, version, hook, pc, args, cfg, cwd, flags, held, script, hist>>

\* stop.sh: pkill loader, then bpftool net detach xdpgeneric dev lo.
StopSignal ==
    /\ "stop.sh" \in Tools /\ script = "idle" /\ script' = "signalled"
    /\ Terminated({p \in Proc : Running(p)})
    /\ UNCHANGED hook

StopDetach ==
    /\ script = "signalled" /\ script' = "idle"
    /\ hook' = [hook EXCEPT ![DefaultConfig.ifname] = Removed(@, "skb")]
    /\ UNCHANGED <<file, version, sock, pc, args, cfg, cwd, flags, held, hist>>

Operator ==
    \/ \E p \in Proc : \/ \E a \in CliArgs : Start(p, a)
                       \/ Terminate(p) \/ Hangup(p) \/ Kill(p)
    \/ \E f \in ConfigFile : EditConfig(f)
    \/ \E s \in Path : RemoveSocket(s)
    \/ StopSignal \/ StopDetach

Next == (\E p \in Proc : Step(p)) \/ Operator

Spec == Init /\ [][Next]_vars

\* The scheduler runs every loader process, and poll returns.
FairSpec == Spec /\ \A p \in Proc : WF_vars(Step(p))

-----------------------------------------------------------------------------
MachineTypes ==
    /\ file \in ConfigFile /\ version \in Nat
    /\ sock \in [Path -> Proc \cup {None}]
    /\ hook \in [If -> [owner : Proc, mode : Mode] \cup {None}]

ControlTypes ==
    /\ pc \in [Proc -> Labels]
    /\ exiting \in [Proc -> BOOLEAN] /\ reload \in [Proc -> BOOLEAN]
    /\ server \in [Proc -> BOOLEAN] /\ attached \in [Proc -> BOOLEAN]
    /\ ifindex \in [Proc -> If \cup {None}]
    /\ \A p \in Proc : pc[p] \in {"attach", "ring"} \cup Loop => ifindex[p] # None

ConfigTypes ==
    /\ args \in [Proc -> CliArgs \cup {NoArgs}]
    /\ \A p \in Proc : pc[p] # "new" => args[p] \in CliArgs
    /\ cfg \in [Proc -> Config] /\ cwd \in [Proc -> {"start", "/"}]

OtherTypes ==
    /\ script \in {"idle", "signalled"}
    /\ owed \in [Proc -> Nat] /\ seen \in [Proc -> Nat]
    /\ failed \in [Proc -> SUBSET {"detach", "unlink"}]

TypeOK == MachineTypes /\ ControlTypes /\ ConfigTypes /\ OtherTypes

(***************************************************************************)
(* A loader whose main returned left nothing of its own behind, whichever  *)
(* step of startup failed and whatever was reloaded since: a program of    *)
(* its own stays on an interface only if the call that detaches failed, a  *)
(* socket file of its own only if unlink did (cleanup(), loader.c:500-535).*)
(***************************************************************************)
NoOrphans ==
    \A p \in Proc : pc[p] = "exited" =>
        /\ "detach" \in failed[p] \/ \A i \in If : hook[i] = None \/ hook[i].owner # p
        /\ "unlink" \in failed[p] \/ \A s \in Path : sock[s] # p

(***************************************************************************)
(* A loader that has been told nothing and runs its main loop is serving:  *)
(* its program is on the interface and its socket file leads to it.        *)
(***************************************************************************)
InService(p) == pc[p] \in Loop /\ ~exiting[p]

HasHook(p) == ifindex[p] # None /\ hook[ifindex[p]] # None /\ hook[ifindex[p]].owner = p

HookKept == \A p \in Proc : InService(p) => HasHook(p)

Reachable == \A p \in Proc : InService(p) => server[p] /\ sock[cfg[p].socket] = p

(***************************************************************************)
(* An XDP program leaves an interface only by the cleanup of the loader    *)
(* that attached it: a second loader that fails to start does not take the *)
(* protection of the first one down.                                       *)
(***************************************************************************)
OnlyOwnerDetaches ==
    [][\A i \in If : (hook[i] # None /\ hook'[i] # hook[i]) =>
            pc[hook[i].owner] = "detach" /\ pc'[hook[i].owner] # "detach"]_vars

(***************************************************************************)
(* Hot reload never switches what is in use: from the bind of the socket   *)
(* to the end, the interface, the mode and the socket path are those the   *)
(* process started with ("no hot switch at run time", loader.c:639).       *)
(***************************************************************************)
NoHotSwitch ==
    [][\A p \in Proc : pc[p] \in Startup \cup Loop \cup Cleanup =>
            /\ cfg'[p].ifname = cfg[p].ifname
            /\ cfg'[p].mode = cfg[p].mode
            /\ cfg'[p].socket = cfg[p].socket]_vars

(***************************************************************************)
(* "Supports SIGHUP reload" (loader.c:3): after a SIGHUP the configuration *)
(* as it was then, or a later one, is read, or the process ends.           *)
(***************************************************************************)
HangupRereads ==
    \A p \in Proc : (owed[p] > seen[p]) ~> (owed[p] <= seen[p] \/ ~Running(p))

(***************************************************************************)
(* A loader that got SIGINT or SIGTERM ends.                               *)
(***************************************************************************)
TerminationEnds == \A p \in Proc : exiting[p] ~> ~Running(p)
=============================================================================
