------------------------------ MODULE MCLoader ------------------------------
(***************************************************************************)
(* Instances of Loader for TLC.                                            *)
(***************************************************************************)
EXTENDS Loader, TLC

CONSTANTS lo, eth, s1, s2

MCDefault == [ifname |-> lo, mode |-> "skb", socket |-> s1, log |-> "file",
              interval |-> 5, daemon |-> 0]

Good(set) == [kind |-> "good", set |-> set]

\* A plain file, one that would switch everything, an illegal one that sets the
\* interval first, one that asks for a daemon, and no file at all.
Plain == Good([interval |-> 1])
Switch == Good([ifname |-> eth, mode |-> "drv", socket |-> s2])
Broken == [kind |-> "bad", set |-> [interval |-> 3]]
FewFiles == {Plain, Switch}
LifeFiles == {Plain, Switch, Broken}
MCFiles == LifeFiles \cup {Good([log |-> "unwritable", daemon |-> 1, mode |-> "auto"]), NoFile}

Args(i, d, path) == [ifname |-> i, daemon |-> d, config |-> path]
LifeArgs == {Args(None, 1, "absolute")}
ForegroundArgs == {Args(None, -1, "relative"), Args(eth, -1, "relative")}
DaemonArgs == {Args(None, 1, "relative")}

Procs == Permutations(Proc)
=============================================================================
