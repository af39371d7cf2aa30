---------------------------- MODULE ProcessTrace ----------------------------
(***************************************************************************)
(* The process tracers of the examples: bootstrap (bootstrap.bpf.c and     *)
(* bootstrap.c, over a BPF ring buffer) and bootstrap_legacy (over a perf  *)
(* buffer per CPU).  Two kernel handlers keep the time of the last exec of *)
(* every process in exec_start and report execs and exits with a duration; *)
(* a user-space loop prints what it finds in the buffers.                  *)
(*                                                                         *)
(* The handlers run to completion on the CPU of the process concerned, and *)
(* for one process they cannot overlap, so each is one action.  Attaching  *)
(* the two of them takes two steps, with the system running in between.    *)
(* What a process runs between a fork or an exec and the next exec or exit *)
(* is an image: the properties tell images apart, the programs cannot.     *)
(***************************************************************************)
EXTENDS Naturals, Sequences, FiniteSets

CONSTANTS
    Pid, CPU, None,
    MinDuration,    \* values of min_duration_ns that -d may set
    MAX_ENTRIES,    \* of exec_start (8192)
    BufSize,        \* bound: events a buffer holds
    MaxTime,        \* bound: readings of the clock
    MaxImages       \* bound: forks and execs

\* A process: its image, when the image was executed (None: only forked), and
\* whether the leader of its thread group and whether another thread are there.
Process ==
    [image : 1..MaxImages, exec : 0..MaxTime \cup {None}, leader : BOOLEAN, thread : BOOLEAN]

TraceAssumption ==
    /\ CPU # {} /\ None \notin Nat \cup Pid \cup CPU \cup Process
    /\ MinDuration \subseteq Nat \ {0}
    /\ MAX_ENTRIES \in Nat /\ BufSize \in Nat /\ MaxTime \in Nat /\ MaxImages \in Nat

VARIABLES
    program,        \* which of the two tracers runs, or None
    min_duration,   \* min_duration_ns, written before the load, 0 without -d
    now, images,    \* the clock; forks and execs so far
    task,           \* [Pid -> process or None]
    exec_start,     \* [Pid -> time or None]: the map
    buffer,         \* [CPU -> events]: rb is the buffer of every CPU at once
    attached,       \* handlers on their tracepoints
    pc, exiting,    \* bootstrap.c: where main is; exiting
    printed         \* what handle_event has printed

vars == <<program, min_duration, now, images, task, exec_start, buffer, attached, pc, exiting,
          printed>>

Init ==
    /\ program = None /\ min_duration = 0
    /\ now = 0 /\ images = 0 /\ task = [p \in Pid |-> None]
    /\ exec_start = [p \in Pid |-> None]
    /\ buffer = [c \in CPU |-> <<>>] /\ attached = {}
    /\ pc = "new" /\ exiting = FALSE /\ printed = <<>>

Alive(p) == task[p] # None

(***************************************************************************)
(* Reporting an event.  bpf_ringbuf_reserve returns NULL when rb is full;  *)
(* bpf_perf_event_output fails when the buffer of this CPU is, and before  *)
(* and after bootstrap_legacy has it open.  Either way the event is lost,  *)
(* and what the map has recorded stays.                                    *)
(***************************************************************************)
Shared == CHOOSE c \in CPU : TRUE

Queued(c, e) ==
    IF Len(buffer[c]) < BufSize THEN [buffer EXCEPT ![c] = Append(@, e)] ELSE buffer

Submitted(c, e) == Queued(Shared, e)

Output(c, e) == IF pc \in {"loop", "poll"} THEN Queued(c, e) ELSE buffer

(***************************************************************************)
(* handle_exec: a new key is refused by a full map, which nobody notices.  *)
(* With a minimum duration only exits are reported.                        *)
(***************************************************************************)
Full == Cardinality({p \in Pid : exec_start[p] # None}) >= MAX_ENTRIES

RememberedOnce(p) ==
    IF exec_start[p] # None \/ Full THEN exec_start ELSE [exec_start EXCEPT ![p] = now]

Remembered(p) ==
    IF exec_start[p] = None /\ Full THEN exec_start ELSE [exec_start EXCEPT ![p] = now]

Executed(p) ==
    [kind |-> "exec", pid |-> p, duration |-> 0, image |-> images + 1, exec |-> now, at |-> now]

handle_exec(p, c) ==
    /\ exec_start' = Remembered(p)
    /\ IF min_duration > 0 THEN UNCHANGED buffer
       ELSE buffer' = Submitted(c, Executed(p))

handle_exec_legacy(p, c) ==
    /\ exec_start' = Remembered(p)
    /\ IF min_duration > 0 THEN UNCHANGED buffer
       ELSE buffer' = Output(c, Executed(p))

(***************************************************************************)
(* handle_exit, for the leader only: the exit of another thread is         *)
(* ignored.  The entry goes whether or not the exit is reported.           *)
(***************************************************************************)
Duration(p) == IF exec_start[p] = None THEN 0 ELSE now - exec_start[p]

Unknown(p) == exec_start[p] = None /\ min_duration > 0
TooShort(p) == min_duration > 0 /\ Duration(p) < min_duration

ForgottenIfReported(p) == IF TooShort(p) THEN exec_start ELSE [exec_start EXCEPT ![p] = None]
Forgotten(p) == [exec_start EXCEPT ![p] = None]

Exited(p) ==
    [kind |-> "exit", pid |-> p, duration |-> Duration(p),
     image |-> task[p].image, exec |-> task[p].exec, at |-> now]

handle_exit(p, c) ==
    IF Unknown(p) THEN UNCHANGED <<exec_start, buffer>>
    ELSE /\ exec_start' = Forgotten(p)
         /\ buffer' = IF TooShort(p) THEN buffer ELSE Submitted(c, Exited(p))

handle_exit_legacy(p, c) ==
    IF Unknown(p) THEN UNCHANGED <<exec_start, buffer>>
    ELSE /\ exec_start' = Forgotten(p)
         /\ buffer' = IF TooShort(p) THEN buffer ELSE Output(c, Exited(p))

AnyThread(leaving) == TRUE
ThreadCounts(leaving) == leaving = "leader"

(***************************************************************************)
(* The processes of the system.  A pid is used again once the process and  *)
(* all its threads are gone.                                               *)
(***************************************************************************)
monitor == <<program, min_duration, attached, pc, exiting, printed>>

Fork(p) ==
    /\ ~Alive(p) /\ images < MaxImages /\ images' = images + 1
    /\ \E t \in BOOLEAN :
        task' = [task EXCEPT ![p] = [image |-> images', exec |-> None, leader |-> TRUE, thread |-> t]]
    /\ UNCHANGED <<monitor, now, exec_start, buffer>>

\* The last thread executes.  exec() ends the other threads first, the leader
\* among them when another thread calls it, and the caller becomes the leader.
Exec(p, c) ==
    /\ Alive(p) /\ task[p].leader # task[p].thread
    /\ images < MaxImages /\ images' = images + 1
    /\ task' = [task EXCEPT ![p] =
                   [image |-> images', exec |-> now, leader |-> TRUE, thread |-> FALSE]]
    /\ IF "handle_exec" \notin attached THEN UNCHANGED <<exec_start, buffer>>
       ELSE IF program = "bootstrap" THEN handle_exec(p, c) ELSE handle_exec_legacy(p, c)
    /\ UNCHANGED <<monitor, now>>

Left(p, leaving) == [task[p] EXCEPT ![leaving] = FALSE]

Exit(p, c, leaving) ==
    /\ Alive(p) /\ task[p][leaving]
    /\ task' = [task EXCEPT ![p] =
                   IF Left(p, leaving).leader \/ Left(p, leaving).thread THEN Left(p, leaving)
                   ELSE None]
    /\ IF "handle_exit" \notin attached \/ ~ThreadCounts(leaving)
       THEN UNCHANGED <<exec_start, buffer>>
       ELSE IF program = "bootstrap" THEN handle_exit(p, c) ELSE handle_exit_legacy(p, c)
    /\ UNCHANGED <<monitor, now, images>>

Tick ==
    /\ now < MaxTime /\ now' = now + 1
    /\ UNCHANGED <<monitor, images, task, exec_start, buffer>>

(***************************************************************************)
(* main of bootstrap.c and of bootstrap_legacy.c.  Every failure goes to   *)
(* cleanup, which frees the buffer and destroys the skeleton: links,       *)
(* programs and maps are gone.                                             *)
(***************************************************************************)
kernel == <<program, min_duration, now, images, task>>
At(label) == pc = label /\ UNCHANGED kernel

\* argp_parse: a duration must be a positive number, anything else ends it here.
argp_parse(p) ==
    /\ pc = "new" /\ program' = p
    /\ \/ min_duration' \in MinDuration \cup {0} /\ pc' = "load"
       \/ UNCHANGED min_duration /\ pc' = "done"
    /\ UNCHANGED <<now, images, task, exec_start, buffer, attached, exiting, printed>>

\* bootstrap_bpf__load, then the two links of bootstrap_bpf__attach in order.
Load ==
    /\ At("load") /\ pc' \in {"attach", "cleanup"}
    /\ UNCHANGED <<exec_start, buffer, attached, exiting, printed>>

Attach ==
    /\ At("attach")
    /\ \/ /\ attached = {} /\ attached' = {"handle_exec"} /\ UNCHANGED pc
       \/ /\ attached = {"handle_exec"} /\ attached' = attached \cup {"handle_exit"}
          /\ pc' = "buffer"
       \/ pc' = "cleanup" /\ UNCHANGED attached
    /\ UNCHANGED <<exec_start, buffer, exiting, printed>>

NewBuffer ==
    /\ At("buffer") /\ pc' \in {"loop", "cleanup"}
    /\ UNCHANGED <<exec_start, buffer, attached, exiting, printed>>

\* while (!exiting): the flag is read between two calls of poll only.
Loop ==
    /\ At("loop") /\ pc' = IF exiting THEN "cleanup" ELSE "poll"
    /\ UNCHANGED <<exec_start, buffer, attached, exiting, printed>>

\* ring_buffer__poll and perf_buffer__poll call handle_event for what is there,
\* the latter buffer by buffer ...
handle_event(c) ==
    /\ printed' = Append(printed, Head(buffer[c]))
    /\ buffer' = [buffer EXCEPT ![c] = Tail(@)]

Consume(c) ==
    /\ At("poll") /\ buffer[c] # <<>> /\ handle_event(c)
    /\ UNCHANGED <<exec_start, attached, pc, exiting>>

ring_buffer__poll == Consume(Shared)
perf_buffer__poll == \E c \in CPU : Consume(c)

\* ... and return after 100 ms, or with an error: -EINTR ends the loop as well.
PollReturns ==
    /\ At("poll")
    /\ \/ pc' = "loop" /\ \A c \in CPU : buffer[c] = <<>>
       \/ pc' = "cleanup"
    /\ UNCHANGED <<exec_start, buffer, attached, exiting, printed>>

Cleanup ==
    /\ At("cleanup") /\ pc' = "done"
    /\ attached' = {} /\ exec_start' = [p \in Pid |-> None]
    /\ buffer' = [c \in CPU |-> <<>>]
    /\ UNCHANGED <<exiting, printed>>

sig_handler ==
    /\ pc \notin {"new", "done"} /\ ~exiting /\ exiting' = TRUE
    /\ UNCHANGED <<kernel, exec_start, buffer, attached, pc, printed>>

bootstrap_main ==
    \/ argp_parse("bootstrap")
    \/ program = "bootstrap" /\ (Load \/ Attach \/ NewBuffer \/ Loop \/ ring_buffer__poll \/ PollReturns \/ Cleanup)

bootstrap_legacy_main ==
    \/ argp_parse("bootstrap_legacy")
    \/ program = "bootstrap_legacy" /\ (Load \/ Attach \/ NewBuffer \/ Loop \/ perf_buffer__poll \/ PollReturns \/ Cleanup)

System ==
    \/ \E p \in Pid : Fork(p) \/ \E c \in CPU : Exec(p, c) \/ Exit(p, c, "leader") \/ Exit(p, c, "thread")
    \/ Tick

Next == bootstrap_main \/ bootstrap_legacy_main \/ System \/ sig_handler

Spec == Init /\ [][Next]_vars

(***************************************************************************)
(* Properties.                                                             *)
(***************************************************************************)
\* Where events are: the i-th printed or the i-th of a buffer.
Place == {<<None, i>> : i \in DOMAIN printed} \cup {<<c, i>> : c \in CPU, i \in 1..BufSize}
Filled == {x \in Place : x[1] = None \/ x[2] \in DOMAIN buffer[x[1]]}
EventAt(x) == IF x[1] = None THEN printed[x[2]] ELSE buffer[x[1]][x[2]]

\* A duration is that of the image which exits, or unknown: neither a full map,
\* a process seen late nor the entry a pid had before makes it a wrong one.
\* An image that was forked only may inherit an entry whose exit went unseen
\* while the handlers were being attached, and is left out.
DurationTrue ==
    \A x \in Filled : LET e == EventAt(x) IN
        e.kind = "exit" /\ e.exec # None => e.duration \in {0, e.at - e.exec}

\* An image is reported to exit once, whatever its threads do and in whatever order.
ExitOnce ==
    \A x, y \in Filled :
        EventAt(x).kind = "exit" /\ EventAt(y).kind = "exit"
            /\ EventAt(x).image = EventAt(y).image => x = y

\* Once both handlers are attached, no leader that exits leaves an entry behind
\* for the next process with its pid, however short it lived.
NothingLeftBehind ==
    [][ \A p \in Pid :
          ("handle_exit" \in attached /\ Alive(p) /\ task[p].leader
              /\ (task'[p] = None \/ (task'[p] # None /\ ~task'[p].leader)))
            => exec_start'[p] = None ]_vars

=============================================================================
