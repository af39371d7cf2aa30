------------------------------ MODULE TcIngress ------------------------------
(***************************************************************************)
(* tc.c: each process attaches the program of tc.bpf.c to the ingress hook *)
(* of lo and detaches it when it is interrupted.  The hook is a qdisc that *)
(* anyone may add or remove with tc(8).  All processes use handle 1 and    *)
(* priority 1, so the hook has room for one of their filters.              *)
(*                                                                         *)
(* Destroying the hook for ingress alone flushes the filters there and     *)
(* keeps the qdisc: the filter of another process may be among them.  Each *)
(* of these calls may fail.                                                *)
(***************************************************************************)
EXTENDS Naturals

CONSTANTS Tc, None      \* processes

VARIABLES
    qdisc,          \* whether lo has the qdisc
    filter,         \* the process whose filter has handle 1 and priority 1, or None
    pc,             \* [Tc -> where main is]
    hook_created,   \* [Tc -> hook_created]
    err,            \* [Tc -> err # 0, which main returns]
    exiting,        \* [Tc -> exiting]
    unflushed       \* history: processes whose bpf_tc_hook_destroy has failed

vars == <<qdisc, filter, pc, hook_created, err, exiting, unflushed>>

TcAssumption == None \notin Tc

Init ==
    /\ qdisc \in BOOLEAN /\ filter = None
    /\ pc = [t \in Tc |-> "load"]
    /\ hook_created = [t \in Tc |-> FALSE] /\ err = [t \in Tc |-> FALSE]
    /\ exiting = [t \in Tc |-> FALSE] /\ unflushed = {}

Goto(t, label) == pc' = [pc EXCEPT ![t] = label]

\* goto cleanup with an error.
Fail(t) == Goto(t, "cleanup") /\ err' = [err EXCEPT ![t] = TRUE]

open_and_load(t) ==
    /\ pc[t] = "load" /\ \E label \in {"create", "ended"} : Goto(t, label)
    /\ UNCHANGED <<qdisc, filter, hook_created, err, exiting, unflushed>>

\* -EEXIST is as good as 0, except that cleanup will leave the hook alone.
bpf_tc_hook_create(t) ==
    /\ pc[t] = "create" /\ UNCHANGED <<filter, exiting, unflushed>>
    /\ \/ /\ qdisc' = TRUE /\ hook_created' = [hook_created EXCEPT ![t] = ~qdisc]
          /\ Goto(t, "attach") /\ UNCHANGED err
       \/ Fail(t) /\ UNCHANGED <<qdisc, hook_created>>

\* A filter is neither replaced nor attached to a qdisc that is gone.
bpf_tc_attach(t) ==
    /\ pc[t] = "attach" /\ UNCHANGED <<qdisc, hook_created, exiting, unflushed>>
    /\ \/ qdisc /\ filter = None /\ filter' = t /\ Goto(t, "signal") /\ UNCHANGED err
       \/ Fail(t) /\ UNCHANGED filter

\* signal(SIGINT), which does not fail, then sleeping until exiting is set.
Handler(t) ==
    /\ pc[t] = "signal" /\ Goto(t, "sleep")
    /\ UNCHANGED <<qdisc, filter, hook_created, err, exiting, unflushed>>

Sleep(t) ==
    /\ pc[t] = "sleep" /\ exiting[t] /\ Goto(t, "detach")
    /\ UNCHANGED <<qdisc, filter, hook_created, err, exiting, unflushed>>

\* By handle and priority: whoever's filter it is, and an error if there is none.
\* libbpf refuses unless flags, prog_fd and prog_id have been reset.
DetachRefused == filter
Detached == None

bpf_tc_detach(t) ==
    /\ pc[t] = "detach" /\ UNCHANGED <<qdisc, hook_created, exiting, unflushed>>
    /\ \/ filter # None /\ filter' = Detached /\ Goto(t, "cleanup") /\ UNCHANGED err
       \/ Fail(t) /\ UNCHANGED filter

\* The result of bpf_tc_hook_destroy is not looked at.
cleanup(t) ==
    /\ pc[t] = "cleanup" /\ Goto(t, "ended")
    /\ \/ ~hook_created[t] /\ UNCHANGED <<filter, unflushed>>
       \/ hook_created[t] /\ filter' = None /\ UNCHANGED unflushed
       \/ hook_created[t] /\ unflushed' = unflushed \cup {t} /\ UNCHANGED filter
    /\ UNCHANGED <<qdisc, hook_created, err, exiting>>

\* SIGINT is the end of a process that has not called signal(), on its way to
\* the call or, after a failure, to its exit.
sig_int(t) ==
    /\ pc[t] \notin {"ended", "killed"} /\ ~exiting[t]
    /\ IF pc[t] = "sleep"
       THEN exiting' = [exiting EXCEPT ![t] = TRUE] /\ UNCHANGED pc
       ELSE Goto(t, "killed") /\ UNCHANGED exiting
    /\ UNCHANGED <<qdisc, filter, hook_created, err, unflushed>>

\* tc qdisc add dev lo clsact; tc qdisc del dev lo clsact, with what is on it.
Operator ==
    /\ qdisc' = ~qdisc /\ filter' = None
    /\ UNCHANGED <<pc, hook_created, err, exiting, unflushed>>

tc_main(t) ==
    \/ open_and_load(t) \/ bpf_tc_hook_create(t) \/ bpf_tc_attach(t)
    \/ Handler(t) \/ Sleep(t) \/ bpf_tc_detach(t) \/ cleanup(t)

Next == Operator \/ \E t \in Tc : tc_main(t) \/ sig_int(t)

Spec == Init /\ [][Next]_vars

\* Whoever detached or flushed whose filter, and whoever created the hook: a
\* process whose main has returned leaves a filter on lo only if its detachment
\* failed, which it returns, and, had it created the hook, if the flush failed too.
FilterRemoved ==
    \A t \in Tc : filter = t /\ pc[t] = "ended" => err[t] /\ (hook_created[t] => t \in unflushed)
=============================================================================
