--------------------------- MODULE Samples_proofs ---------------------------
(***************************************************************************)
(* Theorems about the sessions of Samples, for any number of processes,    *)
(* CPUs and records.  Each part is about one of the programs: the steps of *)
(* the others change none of its variables.                                *)
(***************************************************************************)
EXTENDS Samples, Totals_proofs

-----------------------------------------------------------------------------
(***************************************************************************)
(* The XDP tools.  The invariant: whose program the interface can have.    *)
(***************************************************************************)
ToolLabels ==
    {"idle", "open", "attach", "edit", "skeleton attach", "handlers", "sleep", "detach", "ring",
     "listen", "ended", "killed"}

ToolTyped ==
    /\ tool_program \in [Tool -> Tools!Program \cup {None}]
    /\ tool_pc \in [Tool -> ToolLabels]
    /\ blacklist \in [Tool -> SUBSET IP]
    /\ hook \in Tool \cup {None}
    /\ \A t \in Tool : tool_pc[t] # "idle" => tool_program[t] \in Tools!Program

\* A program on the interface is that of a tool which is past its attachment and
\* has not come to its detachment, or was killed on the way, or failed to detach it.
ToolAttached ==
    hook # None =>
        \/ tool_pc[hook] \in {"handlers", "sleep", "detach", "killed"}
        \/ tool_pc[hook] = "ended" /\ hook \in undetached

ToolInv == ToolTyped /\ ToolAttached

-----------------------------------------------------------------------------
LEMMA ToolInvInit == Tools!Init => ToolInv
BY DEF Tools!Init, ToolInv, ToolTyped, ToolLabels, ToolAttached

\* What every step but the start of a tool comes to: one tool moves on, and the
\* interface stays as it is, is freed, or has its filter.
LEMMA ToolMoves ==
    ASSUME Tools!ToolsAssumption, ToolInv, NEW t \in Tool, tool_pc[t] \notin {"idle", "ended"},
           NEW label \in ToolLabels \ {"idle"}, tool_pc' = [tool_pc EXCEPT ![t] = label],
           blacklist' \in [Tool -> SUBSET IP], UNCHANGED tool_program,
           hook' \in {hook, None, t}, undetached \subseteq undetached',
           hook' = t => label \in {"handlers", "sleep", "detach", "killed"} \/ (label = "ended" /\ t \in undetached')
    PROVE  ToolInv'
<1> USE DEF ToolInv
<1>1. ToolTyped'
  BY DEF ToolTyped, ToolLabels
<1>2. tool_pc'[t] = label /\ \A other \in Tool : other # t => tool_pc'[other] = tool_pc[other]
  BY DEF ToolTyped
<1>3. ToolAttached'
  <2>1. CASE hook' = t
    BY <1>2, <2>1 DEF ToolAttached
  <2>2. CASE hook' = None
    BY <2>2 DEF ToolAttached
  <2>3. CASE hook' = hook /\ hook # t /\ hook # None
    <3>1. hook \in Tool /\ tool_pc'[hook] = tool_pc[hook]
      BY <1>2, <2>3 DEF ToolTyped
    <3> QED
      BY <2>3, <3>1 DEF ToolAttached
  <2> QED
    BY <2>1, <2>2, <2>3
<1> QED
  BY <1>1, <1>3

LEMMA ToolStarts ==
    ASSUME ToolInv, NEW t \in Tool, NEW p \in Tools!Program, Tools!Start(t, p) PROVE ToolInv'
BY DEF ToolInv, ToolTyped, ToolLabels, ToolAttached, Tools!Start, Tools!Goto, Tools!Program

\* Only a tool that has attached its program has it on the interface.
LEMMA NotAttached ==
    ASSUME Tools!ToolsAssumption, ToolInv, NEW t \in Tool,
           tool_pc[t] \in {"open", "attach", "edit", "skeleton attach", "ring", "listen"}
    PROVE  hook # t
BY DEF Tools!ToolsAssumption, ToolInv, ToolAttached

LEMMA TableEdited ==
    ASSUME Tools!ToolsAssumption, ToolInv, NEW t \in Tool, Tools!blacklist_ctl(t) PROVE ToolInv'
<1>1. blacklist' \in [Tool -> SUBSET IP]
  BY DEF Tools!blacklist_ctl, Tools!add, Tools!del, Tools!list, Tools!Table, Tools!ToolsAssumption, ToolInv, ToolTyped
<1>2. tool_pc[t] = "edit" /\ tool_pc' = [tool_pc EXCEPT ![t] = "ended"] /\ UNCHANGED <<tool_program, hook, undetached>>
  BY DEF Tools!blacklist_ctl, Tools!At, Tools!Goto
<1>3. hook # t
  BY <1>2, NotAttached
<1> QED
  BY <1>1, <1>2, <1>3, ToolMoves DEF ToolLabels

LEMMA ToolInvNext == Tools!ToolsAssumption /\ ToolInv /\ [Tools!Next]_(Tools!vars) => ToolInv'
<1> SUFFICES ASSUME Tools!ToolsAssumption, ToolInv, [Tools!Next]_(Tools!vars) PROVE ToolInv'
  OBVIOUS
<1> USE DEF Tools!At, Tools!Goto
<1>0. blacklist \in [Tool -> SUBSET IP]
  BY DEF ToolInv, ToolTyped
<1>1. CASE UNCHANGED Tools!vars
  BY <1>1 DEF Tools!vars, ToolInv, ToolTyped, ToolAttached
<1>2. ASSUME NEW t \in Tool, Tools!open_and_load(t) PROVE ToolInv'
  <2>1. tool_pc[t] = "open" /\ UNCHANGED <<tool_program, hook, blacklist, undetached>>
    BY <1>2 DEF Tools!open_and_load
  <2>2. PICK label \in {Tools!AfterLoad(t), "ended"} : tool_pc' = [tool_pc EXCEPT ![t] = label]
    BY <1>2 DEF Tools!open_and_load
  <2>3. tool_program[t] \in Tools!Program
    BY <2>1 DEF ToolInv, ToolTyped
  <2>4. label \in {"attach", "edit", "skeleton attach", "ended"}
    BY <2>2, <2>3 DEF Tools!AfterLoad, Tools!Program
  <2>5. hook # t
    BY <2>1, NotAttached
  <2> QED
    BY <1>0, <2>1, <2>2, <2>4, <2>5, ToolMoves DEF ToolLabels
<1>3. ASSUME NEW t \in Tool, Tools!bpf_xdp_attach(t) PROVE ToolInv'
  <2>1. hook # t
    BY <1>3, NotAttached DEF Tools!bpf_xdp_attach
  <2>2. CASE hook' = t /\ tool_pc' = [tool_pc EXCEPT ![t] = "handlers"]
    BY <1>0, <1>3, <2>2, ToolMoves DEF Tools!bpf_xdp_attach, ToolLabels
  <2>3. CASE hook' = hook /\ tool_pc' = [tool_pc EXCEPT ![t] = "ended"]
    BY <1>0, <1>3, <2>1, <2>3, ToolMoves DEF Tools!bpf_xdp_attach, ToolLabels
  <2> QED
    BY <1>3, <2>2, <2>3 DEF Tools!bpf_xdp_attach
<1>4. ASSUME NEW t \in Tool, Tools!Handlers(t) PROVE ToolInv'
  BY <1>0, <1>4, ToolMoves DEF Tools!Handlers, ToolLabels
<1>5. ASSUME NEW t \in Tool, Tools!Sleep(t) PROVE ToolInv'
  BY <1>0, <1>5, ToolMoves DEF Tools!Sleep, ToolLabels
<1>6. ASSUME NEW t \in Tool, Tools!bpf_xdp_detach(t) PROVE ToolInv'
  <2>1. tool_pc[t] = "detach" /\ tool_pc' = [tool_pc EXCEPT ![t] = "ended"] /\ UNCHANGED <<tool_program, blacklist>>
    BY <1>6 DEF Tools!bpf_xdp_detach
  <2>2. CASE hook' = None /\ undetached' = undetached
    BY <1>0, <2>1, <2>2, ToolMoves DEF Tools!ToolsAssumption, ToolLabels
  <2>3. CASE hook' = hook /\ undetached' = undetached \cup {t}
    BY <1>0, <2>1, <2>3, ToolMoves DEF ToolLabels
  <2> QED
    BY <1>6, <2>2, <2>3 DEF Tools!bpf_xdp_detach, Tools!Detached
<1>7. ASSUME NEW t \in Tool, Tools!test_ringbuf(t) PROVE ToolInv'
  <2>1. PICK label \in {"ring", "listen", "ended"} : tool_pc' = [tool_pc EXCEPT ![t] = label]
    BY <1>7 DEF Tools!test_ringbuf, Tools!skeleton_attach, Tools!NewRing, Tools!ListenEnds
  <2>2. tool_pc[t] \in {"skeleton attach", "ring", "listen"} /\ UNCHANGED <<tool_program, blacklist, hook, undetached>>
    BY <1>7 DEF Tools!test_ringbuf, Tools!skeleton_attach, Tools!Attaches, Tools!NewRing, Tools!ListenEnds
  <2>3. hook # t
    BY <2>2, NotAttached
  <2> QED
    BY <1>0, <2>1, <2>2, <2>3, ToolMoves DEF ToolLabels
<1>8. ASSUME NEW t \in Tool, Tools!Interrupt(t) PROVE ToolInv'
  <2>1. CASE UNCHANGED <<hook, tool_program, tool_pc, blacklist, undetached>>
    BY <2>1 DEF ToolInv, ToolTyped, ToolAttached
  <2>2. CASE tool_pc' = [tool_pc EXCEPT ![t] = "killed"]
    BY <1>0, <1>8, <2>2, ToolMoves DEF Tools!Interrupt, Tools!Over, ToolLabels
  <2> QED
    BY <1>8, <2>1, <2>2 DEF Tools!Interrupt
<1> QED
  BY <1>1, <1>2, <1>3, <1>4, <1>5, <1>6, <1>7, <1>8, ToolStarts, TableEdited
     DEF Tools!Next, Tools!Step, Tools!xdp_blacklist, Tools!xdp_parse_ip_main, Tools!HookTool

LEMMA ToolInvariant == Spec => []ToolInv
<1>1. Tools!ToolsAssumption
  BY SamplesAssumption
<1>2. Init => ToolInv
  BY ToolInvInit DEF Init
<1>3. ToolInv /\ [Next]_vars => ToolInv'
  BY <1>1, ToolInvNext DEF Next, vars, tools, Tools!vars
<1> QED
  BY <1>2, <1>3, PTL DEF Spec

\* xdp_blacklist.c and xdp_parse_ip.c give the interface back, in whatever order
\* any number of them attach and detach, unless their own detachment fails.
THEOREM InterfaceGivenBack == Spec => []InterfaceRestored
<1>1. ToolInv => InterfaceRestored
  BY SamplesAssumption DEF Tools!ToolsAssumption, ToolInv, ToolAttached, InterfaceRestored, Tools!InterfaceRestored
<1> QED
  BY <1>1, ToolInvariant, PTL

-----------------------------------------------------------------------------
(***************************************************************************)
(* The ring listeners.  The invariant: everything before the position a    *)
(* listener has reached was printed, by it or by one that got there        *)
(* earlier.                                                                *)
(***************************************************************************)
RingTyped ==
    /\ producer_pos \in Nat /\ consumer_pos \in Nat
    /\ slot \in [0..Size -> Nat \cup {NoRecord}]
    /\ listener_pc \in [Listener -> {"idle", "loop", "pass", "handled", "ended"}]
    /\ cons_pos \in [Listener -> Nat]
    /\ handled \in [Listener -> Seq(Nat \cup {NoRecord})]

Reached ==
    \A l \in Listener :
        /\ listener_pc[l] \in {"pass", "handled"} => cons_pos[l] <= producer_pos
                                            /\ \A r \in 0..cons_pos[l] - 1 : Rings!Printed(r)
        /\ listener_pc[l] = "handled" => cons_pos[l] < producer_pos /\ Rings!Printed(cons_pos[l])

RingInv == RingTyped /\ consumer_pos <= producer_pos /\ Reached /\ Rings!NoneLost

-----------------------------------------------------------------------------
\* Two positions that are less than the ring apart have different slots.
LEMMA SlotsDiffer ==
    ASSUME NEW m \in Nat, NEW n \in Nat, m < n, n - m <= Size, Size \in Nat
    PROVE  Rings!Slot(m) # Rings!Slot(n)
<1> DEFINE M == Size + 1
           a == m \div M
           b == n \div M
<1>1. M \in Nat /\ M > 0
  OBVIOUS
<1>2. a \in Int /\ b \in Int
  BY <1>1
<1>3. m = M * a + (m % M) /\ n = M * b + (n % M)
  BY <1>1
<1>4. SUFFICES ASSUME m % M = n % M PROVE FALSE
  BY DEF Rings!Slot
<1>5. n - m = M * (b - a)
  <2> HIDE DEF a, b
  <2>1. m % M \in Int
    BY <1>1
  <2> QED
    BY <1>1, <1>2, <1>3, <1>4, <2>1
<1>6. b - a >= 1
  <2> HIDE DEF a, b, M
  <2>1. CASE b - a <= 0
    <3>1. M * (b - a) <= 0
      BY <1>1, <1>2, <2>1
    <3> QED
      BY <1>5, <3>1
  <2> QED
    BY <1>2, <2>1
<1>7. M * (b - a) >= M
  <2> HIDE DEF a, b, M
  <2> QED
    BY <1>1, <1>2, <1>6
<1> QED
  BY <1>5, <1>7

LEMMA SlotInRing == ASSUME NEW n \in Nat, Size \in Nat PROVE Rings!Slot(n) \in 0..Size
BY DEF Rings!Slot

\* What has been printed stays printed.
LEMMA PrintedAgain ==
    ASSUME RingTyped, NEW r,
           handled' = handled \/ \E l \in Listener, x \in Nat \cup {NoRecord} :
                                    handled' = [handled EXCEPT ![l] = Append(@, x)],
           Rings!Printed(r)
    PROVE  Rings!Printed(r)'
<1>1. PICK l \in Listener : \E i \in DOMAIN handled[l] : handled[l][i] = r
  BY DEF Rings!Printed
<1>i. PICK i \in DOMAIN handled[l] : handled[l][i] = r
  BY <1>1
<1>2. CASE handled' = handled
  BY <1>i, <1>2 DEF Rings!Printed
<1>3. ASSUME NEW k \in Listener, NEW x \in Nat \cup {NoRecord},
             handled' = [handled EXCEPT ![k] = Append(@, x)]
      PROVE  Rings!Printed(r)'
  <2>1. handled[l] \in Seq(Nat \cup {NoRecord}) /\ handled[k] \in Seq(Nat \cup {NoRecord})
    BY DEF RingTyped
  <2>2. i \in 1..Len(handled'[l]) /\ handled'[l][i] = r
    BY <1>i, <1>3, <2>1 DEF RingTyped
  <2>3. DOMAIN handled'[l] = 1..Len(handled'[l])
    BY <1>3, <2>1 DEF RingTyped
  <2> QED
    BY <2>2, <2>3 DEF Rings!Printed
<1> QED
  BY <1>2, <1>3

LEMMA RingInvInit == Rings!RingAssumption /\ Rings!Init => RingInv
BY DEF Rings!RingAssumption, Rings!Init, RingInv, RingTyped, Reached, Rings!NoneLost

-----------------------------------------------------------------------------
\* A new record takes a slot whose record is at least the ring away, and printed.
LEMMA ReserveStep == ASSUME Rings!RingAssumption, RingInv, Rings!bpf_ringbuf_reserve PROVE RingInv'
<1> USE DEF RingInv, Rings!bpf_ringbuf_reserve
<1>1. Size \in Nat /\ Rings!Slot(producer_pos) \in 0..Size
  BY SlotInRing DEF Rings!RingAssumption, RingTyped
<1>2. RingTyped' /\ (consumer_pos <= producer_pos)'
  BY <1>1 DEF RingTyped
<1>3. \A r \in Nat : Rings!Printed(r)' <=> Rings!Printed(r)
  BY DEF Rings!Printed
<1>4. Reached'
  BY <1>3 DEF Reached, RingTyped
<1>5. ASSUME NEW r \in 0..producer_pos' - 1
      PROVE  Rings!Printed(r)' \/ (consumer_pos' <= r /\ slot'[Rings!Slot(r)] = r)
  <2>1. CASE r = producer_pos
    BY <1>1, <2>1 DEF RingTyped
  <2>2. CASE r < producer_pos /\ consumer_pos <= r
    <3>1. Rings!Slot(r) # Rings!Slot(producer_pos)
      BY <1>1, <2>2, SlotsDiffer DEF RingTyped, Rings!Room
    <3>2. Rings!Slot(r) \in 0..Size
      BY <1>1, SlotInRing
    <3> QED
      BY <1>1, <1>3, <2>2, <3>1, <3>2 DEF RingTyped, Rings!NoneLost
  <2>3. CASE r < producer_pos /\ r < consumer_pos
    BY <1>3, <2>3 DEF RingTyped, Rings!NoneLost
  <2> QED
    BY <2>1, <2>2, <2>3 DEF RingTyped
<1> QED
  BY <1>2, <1>4, <1>5 DEF Rings!NoneLost

\* A pass begins at the consumer position: what lies before it was printed.
LEMMA PollStep == ASSUME RingInv, NEW l \in Listener, Rings!Poll(l) PROVE RingInv'
<1> USE DEF RingInv, Rings!Poll, Rings!ring
<1>1. \A r : Rings!Printed(r)' <=> Rings!Printed(r)
  BY DEF Rings!Printed
<1>2. RingTyped' /\ (consumer_pos <= producer_pos)'
  BY DEF RingTyped
<1>3. \A r \in 0..consumer_pos - 1 : Rings!Printed(r)
  BY DEF Rings!NoneLost, RingTyped
<1>4. Reached'
  BY <1>1, <1>3 DEF Reached, RingTyped
<1>5. Rings!NoneLost'
  BY <1>1 DEF Rings!NoneLost
<1> QED
  BY <1>2, <1>4, <1>5

\* If the slot has been filled again, the record was printed before.
LEMMA HandleStep == ASSUME Rings!RingAssumption, RingInv, NEW l \in Listener, Rings!handle_alert(l) PROVE RingInv'
<1> USE DEF RingInv, Rings!handle_alert, Rings!ring
<1>1. Size \in Nat /\ Rings!Slot(cons_pos[l]) \in 0..Size
  BY SlotInRing DEF Rings!RingAssumption, RingTyped
<1>2. PICK x \in Nat \cup {NoRecord} :
           x = slot[Rings!Slot(cons_pos[l])] /\ handled' = [handled EXCEPT ![l] = Append(@, x)]
  BY <1>1 DEF RingTyped
<1>3. RingTyped' /\ (consumer_pos <= producer_pos)'
  BY <1>2 DEF RingTyped
<1>4. \A r : Rings!Printed(r) => Rings!Printed(r)'
  BY <1>2, PrintedAgain
<1>5. Rings!Printed(x)'
  <2>1. handled[l] \in Seq(Nat \cup {NoRecord})
    BY DEF RingTyped
  <2>2. handled'[l] = Append(handled[l], x)
    BY <1>2 DEF RingTyped
  <2>3. Len(handled[l]) + 1 \in DOMAIN handled'[l] /\ handled'[l][Len(handled[l]) + 1] = x
    BY <1>2, <2>1, <2>2
  <2> QED
    BY <2>3 DEF Rings!Printed
<1>6. Rings!Printed(cons_pos[l])'
  <2>1. PICK n \in 0..producer_pos - 1 : n = cons_pos[l] /\ n = cons_pos'[l]
    BY DEF RingTyped
  <2>2. Rings!Printed(n) \/ x = n
    BY <2>1, <1>2 DEF Rings!NoneLost
  <2>3. Rings!Printed(n)'
    BY <2>2, <1>4, <1>5
  <2> QED
    BY <2>1, <2>3 DEF Rings!Printed
<1>7. Reached'
  BY <1>4, <1>6 DEF Reached, RingTyped
<1>8. Rings!NoneLost'
  BY <1>4 DEF Rings!NoneLost
<1> QED
  BY <1>3, <1>7, <1>8

\* Storing a position behind the current one gives slots back that were printed.
LEMMA ReleaseStep == ASSUME RingInv, NEW l \in Listener, Rings!Release(l) PROVE RingInv'
<1> USE DEF RingInv, Rings!Release, Rings!ring
<1>1. \A r : Rings!Printed(r)' <=> Rings!Printed(r)
  BY DEF Rings!Printed
<1>2. cons_pos[l] \in Nat /\ cons_pos[l] < producer_pos /\ consumer_pos' = cons_pos[l] + 1
  BY DEF RingTyped, Reached, Rings!Stored
<1>3. RingTyped' /\ (consumer_pos <= producer_pos)'
  BY <1>2 DEF RingTyped
<1>4. \A r \in 0..cons_pos[l] : Rings!Printed(r)
  BY <1>2 DEF RingTyped, Reached
<1>5. Reached'
  BY <1>1, <1>2, <1>4 DEF Reached, RingTyped
<1>6. ASSUME NEW r \in 0..producer_pos' - 1
      PROVE  Rings!Printed(r)' \/ (consumer_pos' <= r /\ slot'[Rings!Slot(r)] = r)
  <2>1. CASE r <= cons_pos[l]
    BY <1>1, <1>2, <1>4, <2>1
  <2>2. CASE r > cons_pos[l]
    BY <1>1, <1>2, <2>2 DEF Rings!NoneLost, RingTyped
  <2> QED
    BY <1>2, <2>1, <2>2 DEF RingTyped
<1> QED
  BY <1>3, <1>5, <1>6 DEF Rings!NoneLost

\* All other steps leave the positions, the ring and what is printed alone.
LEMMA OtherStep ==
    ASSUME RingInv, listener_pc' \in [Listener -> {"idle", "loop", "pass", "handled", "ended"}],
           \A l \in Listener : listener_pc'[l] = listener_pc[l] \/ listener_pc'[l] \in {"idle", "loop", "ended"},
           UNCHANGED <<producer_pos, slot, consumer_pos, cons_pos, handled>>
    PROVE  RingInv'
<1>1. \A r : Rings!Printed(r)' <=> Rings!Printed(r)
  BY DEF Rings!Printed
<1>2. RingTyped' /\ (consumer_pos <= producer_pos)' /\ Rings!NoneLost'
  BY <1>1 DEF RingInv, RingTyped, Rings!NoneLost
<1>3. Reached'
  BY <1>1 DEF RingInv, Reached
<1> QED
  BY <1>2, <1>3 DEF RingInv

LEMMA RingInvNext == Rings!RingAssumption /\ RingInv /\ [Rings!Next]_(Rings!vars) => RingInv'
<1> SUFFICES ASSUME Rings!RingAssumption, RingInv, [Rings!Next]_(Rings!vars) PROVE RingInv'
  OBVIOUS
<1>1. CASE UNCHANGED Rings!vars
  BY <1>1, OtherStep DEF Rings!vars, Rings!ring, Rings!history, RingInv, RingTyped
<1>2. ASSUME NEW r \in filling, Rings!bpf_ringbuf_submit(r) PROVE RingInv'
  BY <1>2, OtherStep DEF Rings!bpf_ringbuf_submit, RingInv, RingTyped
<1>3. ASSUME NEW l \in Listener, Rings!Start(l) \/ Rings!PassEnds(l) \/ Rings!LoopEnds(l) \/ Rings!PollFails(l) \/ Rings!Kill(l)
                                \/ Rings!sigint_handler(l)
      PROVE  RingInv'
  BY <1>3, OtherStep DEF Rings!Start, Rings!PassEnds, Rings!LoopEnds, Rings!PollFails, Rings!Kill, Rings!sigint_handler,
     Rings!ring, RingInv, RingTyped
<1> QED
  BY <1>1, <1>2, <1>3, ReserveStep, PollStep, HandleStep, ReleaseStep DEF Rings!Next, Rings!Firewall, Rings!Listening

\* However many listeners of rb_listen.c share the ring, overtake each other and
\* are killed, no record's slot is given away before somebody has printed it.
THEOREM NoRecordLost == Spec => []NoneLost
<1>1. Rings!RingAssumption
  BY SamplesAssumption
<1>2. Init => RingInv
  BY <1>1, RingInvInit DEF Init
<1>3. RingInv /\ [Next]_vars => RingInv'
  BY <1>1, RingInvNext DEF Next, vars, rings, Rings!vars, Rings!ring, Rings!history
<1>4. RingInv => NoneLost
  BY DEF RingInv, NoneLost
<1> QED
  BY <1>2, <1>3, <1>4, PTL DEF Spec

-----------------------------------------------------------------------------
(***************************************************************************)
(* tc.  The filter on the hook is that of a process which has attached it  *)
(* and not come to its own detachment, was killed on the way, or failed to *)
(* detach it; after its cleanup it has either failed to flush the hook or  *)
(* not created it.                                                         *)
(***************************************************************************)
FilterOwned ==
    /\ tc_pc \in [Tc -> {"load", "create", "attach", "signal", "sleep", "detach", "cleanup", "ended", "killed"}]
    /\ filter \in Tc \cup {None}
    /\ hook_created \in [Tc -> BOOLEAN] /\ err \in [Tc -> BOOLEAN]
    /\ filter # None =>
        \/ tc_pc[filter] \in {"signal", "sleep", "detach", "killed"}
        \/ tc_pc[filter] = "cleanup" /\ err[filter]
        \/ tc_pc[filter] = "ended" /\ err[filter] /\ (hook_created[filter] => filter \in unflushed)

LEMMA FilterStep == FilterOwned /\ Ingress!Next => FilterOwned'
<1> SUFFICES ASSUME FilterOwned, Ingress!Next PROVE FilterOwned'
  OBVIOUS
<1>0. None \notin Tc
  BY SamplesAssumption DEF Ingress!TcAssumption
<1> USE <1>0 DEF FilterOwned, Ingress!Goto, Ingress!Fail
<1>1. CASE Ingress!Operator
  BY <1>1 DEF Ingress!Operator
<1>2. ASSUME NEW t \in Tc, Ingress!open_and_load(t) PROVE FilterOwned'
  BY <1>2 DEF Ingress!open_and_load
<1>3. ASSUME NEW t \in Tc, Ingress!bpf_tc_hook_create(t) PROVE FilterOwned'
  BY <1>3 DEF Ingress!bpf_tc_hook_create
<1>4. ASSUME NEW t \in Tc, Ingress!bpf_tc_attach(t) PROVE FilterOwned'
  BY <1>4 DEF Ingress!bpf_tc_attach
<1>5. ASSUME NEW t \in Tc, Ingress!Handler(t) \/ Ingress!Sleep(t) PROVE FilterOwned'
  BY <1>5 DEF Ingress!Handler, Ingress!Sleep
<1>6. ASSUME NEW t \in Tc, Ingress!bpf_tc_detach(t) PROVE FilterOwned'
  BY <1>6 DEF Ingress!bpf_tc_detach, Ingress!Detached
<1>7. ASSUME NEW t \in Tc, Ingress!cleanup(t) PROVE FilterOwned'
  BY <1>7 DEF Ingress!cleanup
<1>8. ASSUME NEW t \in Tc, Ingress!sig_int(t) PROVE FilterOwned'
  BY <1>8 DEF Ingress!sig_int
<1> QED
  BY <1>1, <1>2, <1>3, <1>4, <1>5, <1>6, <1>7, <1>8 DEF Ingress!Next, Ingress!tc_main

\* However many tc processes share the hook and flush it: one whose main has returned
\* leaves a filter only if it could neither detach it nor flush what it created.
THEOREM HookIsClean == Spec => []FilterRemoved
<1>1. Init => FilterOwned
  BY DEF Init, Ingress!Init, FilterOwned
<1>2. FilterOwned /\ [Next]_vars => FilterOwned'
  BY FilterStep DEF Next, vars, ingress, FilterOwned
<1>3. FilterOwned => FilterRemoved
  BY SamplesAssumption DEF Ingress!TcAssumption, FilterOwned, FilterRemoved, Ingress!FilterRemoved
<1> QED
  BY <1>1, <1>2, <1>3, PTL DEF Spec

-----------------------------------------------------------------------------
(***************************************************************************)
(* The profiler.  The invariant: the links are those of the CPUs of the    *)
(* mask the loop has passed.                                               *)
(***************************************************************************)
PerfTyped ==
    /\ online \in (SUBSET Perf!Cpus) \ {{}} /\ online_mask \in SUBSET Perf!Cpus
    /\ profile_pc \in {"mask", "setup", "cpus", "attach", "poll", "cleanup", "done"}
    /\ cpu \in 0..num_cpus
    /\ profile_pc \in {"mask", "setup"} => links = {} /\ cpu = 0
    /\ profile_pc \in {"setup", "cpus", "attach", "poll"} => online_mask # {}
    /\ profile_pc = "attach" => cpu \in online_mask

LinkedSoFar == profile_pc \in {"cpus", "attach"} => links = {c \in online_mask : c < cpu}

PerfInv == PerfTyped /\ LinkedSoFar /\ SampledWhole

-----------------------------------------------------------------------------
\* The length of the mask exceeds every CPU in it.
LEMMA MaskCovers ==
    ASSUME Perf!ProfilerAssumption, online_mask \in SUBSET Perf!Cpus, online_mask # {}
    PROVE  Perf!num_online_cpus \in Int /\ \A d \in online_mask : d < Perf!num_online_cpus
<1> DEFINE T == {num_cpus - c : c \in online_mask}
<1>1. T \in SUBSET Nat /\ T # {}
  <2>1. \A c \in online_mask : num_cpus - c \in Nat
    BY DEF Perf!ProfilerAssumption, Perf!Cpus
  <2> QED
    BY <2>1
<1>2. PICK x \in T : \A y \in T : x <= y
  <2> HIDE DEF T
  <2> QED
    BY <1>1, LeastNatural
<1>3. PICK c \in online_mask : x = num_cpus - c
  BY <1>2
<1>4. \A d \in online_mask : d <= c
  <2> TAKE d \in online_mask
  <2>1. num_cpus - d \in T
    OBVIOUS
  <2>2. num_cpus - c <= num_cpus - d
    BY <1>2, <1>3, <2>1
  <2> QED
    BY <2>2 DEF Perf!ProfilerAssumption, Perf!Cpus
<1> DEFINE m == CHOOSE e \in online_mask : \A d \in online_mask : d <= e
<1>5. m \in online_mask /\ \A d \in online_mask : d <= m
  BY <1>4
<1> HIDE DEF m
<1>6. 1 + m \in Int /\ \A d \in online_mask : d < 1 + m
  BY <1>5 DEF Perf!Cpus, Perf!ProfilerAssumption
<1> QED
  BY <1>6 DEF Perf!num_online_cpus, m

LEMMA PerfInvInit == Perf!ProfilerAssumption /\ Perf!Init => PerfInv
BY DEF Perf!ProfilerAssumption, Perf!Init, PerfInv, PerfTyped, LinkedSoFar, SampledWhole, Perf!SampledWhole

\* A CPU that the loop skips is not in the mask, so the links are still those of
\* the CPUs passed; the end of the loop has passed them all.
LEMMA PassedNext ==
    ASSUME online_mask \subseteq Int, cpu \in Int
    PROVE  {c \in online_mask : c < cpu + 1} = {c \in online_mask : c < cpu} \cup ({cpu} \cap online_mask)
<1>1. \A c \in online_mask : (c < cpu + 1) <=> (c < cpu \/ c = cpu)
  OBVIOUS
<1> QED
  BY <1>1, Zenon

LEMMA PerfInvNext == Perf!ProfilerAssumption /\ PerfInv /\ [Perf!Next]_(Perf!vars) => PerfInv'
<1> SUFFICES ASSUME Perf!ProfilerAssumption, PerfInv, [Perf!Next]_(Perf!vars) PROVE PerfInv'
  OBVIOUS
<1> USE DEF Perf!ProfilerAssumption, PerfInv, PerfTyped, LinkedSoFar, SampledWhole, Perf!SampledWhole
<1>i. online_mask \subseteq Int /\ cpu \in Int
  BY DEF Perf!Cpus
<1>1. CASE UNCHANGED Perf!vars
  BY <1>1 DEF Perf!vars
<1>2. CASE Perf!parse_cpu_mask_file
  BY <1>2 DEF Perf!parse_cpu_mask_file
<1>3. CASE Perf!SetUp
  <2>1. \A c \in online_mask : ~(c < 0)
    BY DEF Perf!Cpus
  <2> QED
    BY <1>3, <2>1 DEF Perf!SetUp
<1>4. CASE Perf!Skip
  <2> DEFINE n == Perf!num_online_cpus
  <2>0. n \in Int /\ \A d \in online_mask : d < n
    BY <1>4, MaskCovers DEF Perf!Skip
  <2>a. cpu >= n \/ cpu \notin online_mask
    BY <1>4 DEF Perf!Skip, Perf!Skipped
  <2> HIDE DEF n
  <2>1. cpu \notin online_mask
    BY <1>i, <2>0, <2>a
  <2>2. {c \in online_mask : c < cpu + 1} = {c \in online_mask : c < cpu}
    BY <1>i, <2>1, PassedNext
  <2> QED
    BY <1>4, <2>2 DEF Perf!Skip, Perf!Continued
<1>5. CASE Perf!Open
  BY <1>5 DEF Perf!Open, Perf!Skipped
<1>6. CASE Perf!bpf_program__attach_perf_event
  <2>1. {c \in online_mask : c < cpu + 1} = {c \in online_mask : c < cpu} \cup {cpu}
    BY <1>i, <1>6, PassedNext DEF Perf!bpf_program__attach_perf_event
  <2>2. cpu \in 0..num_cpus - 1
    BY <1>6 DEF Perf!bpf_program__attach_perf_event, Perf!Cpus
  <2> QED
    BY <1>6, <2>1, <2>2 DEF Perf!bpf_program__attach_perf_event
<1>7. CASE Perf!LoopDone
  <2>1. {c \in online_mask : c < num_cpus} = online_mask
    <3>1. \A c \in online_mask : c < num_cpus
      BY DEF Perf!Cpus
    <3> QED
      BY <3>1, Zenon
  <2> QED
    BY <1>7, <2>1 DEF Perf!LoopDone
<1>8. CASE Perf!event_handler \/ Perf!PollFails \/ Perf!cleanup
  BY <1>8 DEF Perf!event_handler, Perf!PollFails, Perf!cleanup
<1>9. CASE Perf!Hotplug
  BY <1>9 DEF Perf!Hotplug
<1>10. ASSUME NEW c \in Perf!Cpus, Perf!profile(c) PROVE PerfInv'
  BY <1>10 DEF Perf!profile
<1> QED
  BY <1>1, <1>2, <1>3, <1>4, <1>5, <1>6, <1>7, <1>8, <1>9, <1>10 DEF Perf!Next, Perf!profile_main

\* profile.c waits for samples only when every CPU of the mask it read, holes or
\* not, has its link, and leaves none behind.
THEOREM EveryCpuSampled == Spec => []SampledWhole
<1>1. Perf!ProfilerAssumption
  BY SamplesAssumption
<1>2. Init => PerfInv
  BY <1>1, PerfInvInit DEF Init
<1>3. PerfInv /\ [Next]_vars => PerfInv'
  BY <1>1, PerfInvNext DEF Next, vars, perf, Perf!vars
<1>4. PerfInv => SampledWhole
  BY DEF PerfInv
<1> QED
  BY <1>2, <1>3, <1>4, PTL DEF Spec

-----------------------------------------------------------------------------
(***************************************************************************)
(* The process tracers.  The log has a line for what is printed and one    *)
(* for each buffer.  The invariant relates the entries of exec_start to    *)
(* the processes, and the events to the images that are still running.     *)
(***************************************************************************)
Event ==
    [kind : {"exec", "exit"}, pid : Pid, duration : Int, image : Nat, exec : 0..MaxTime \cup {None},
     at : Nat]

Lines == CPU \cup {None}
Log == [c \in Lines |-> IF c = None THEN printed ELSE buffer[c]]

TraceTyped ==
    /\ now \in 0..MaxTime /\ images \in 0..MaxImages
    /\ task \in [Pid -> Trace!Process \cup {None}]
    /\ exec_start \in [Pid -> 0..MaxTime \cup {None}]
    /\ buffer \in [CPU -> Seq(Event)] /\ printed \in Seq(Event)
    /\ \A c \in CPU : Len(buffer[c]) <= BufSize

\* An entry of a process that has executed is of its last execution.
EntriesTrue ==
    /\ "handle_exec" \notin attached => exec_start = [p \in Pid |-> None]
    /\ \A p \in Pid :
        task[p] # None /\ task[p].exec # None => exec_start[p] \in {None, task[p].exec}

\* Images are distinct.
ImagesDistinct ==
    /\ \A p \in Pid : task[p] # None => task[p].image <= images
    /\ \A p, q \in Pid : task[p] # None /\ task[q] # None /\ task[p].image = task[q].image => p = q

\* Of the events of a log: durations are true; an image reported to exit has
\* existed, and is not that of a leader still there; it is reported once.
Measured(e) == e.kind = "exit" /\ e.exec # None => e.duration \in {0, e.at - e.exec}

AllMeasured(log) == \A c \in Lines : \A i \in 1..Len(log[c]) : Measured(log[c][i])

Gone(e, T, n) ==
    e.kind = "exit" =>
        e.image <= n /\ \A p \in DOMAIN T : T[p] # None /\ T[p].leader => T[p].image # e.image

ExitsKnown(log, T, n) == \A c \in Lines : \A i \in 1..Len(log[c]) : Gone(log[c][i], T, n)

SameExit(e, f) == e.kind = "exit" /\ f.kind = "exit" /\ e.image = f.image

ExitsDistinct(log) ==
    \A c, d \in Lines : \A i \in 1..Len(log[c]), j \in 1..Len(log[d]) :
        SameExit(log[c][i], log[d][j]) => c = d /\ i = j

LogTrue(log, T, n) == AllMeasured(log) /\ ExitsKnown(log, T, n) /\ ExitsDistinct(log)

TraceInv == TraceTyped /\ EntriesTrue /\ ImagesDistinct /\ LogTrue(Log, task, images)

-----------------------------------------------------------------------------
LEMMA TraceInvInit == Trace!TraceAssumption /\ Trace!Init => TraceInv
BY DEF Trace!TraceAssumption, Trace!Init, TraceInv, TraceTyped, EntriesTrue, ImagesDistinct,
   LogTrue, AllMeasured, ExitsKnown, ExitsDistinct, Lines, Log

\* A leader of the processes U was one of T, or has an image that is new.
LeadersKept(T, n, U) ==
    \A p \in DOMAIN U : U[p] # None /\ U[p].leader =>
        \/ p \in DOMAIN T /\ T[p] # None /\ T[p].leader /\ U[p].image = T[p].image
        \/ U[p].image \in Nat /\ U[p].image > n

\* Nobody else's exit is undone by a step of the processes.
LEMMA GoneKept ==
    ASSUME NEW e \in Event, NEW T, NEW n \in Nat, NEW U, NEW m \in Nat, n <= m, LeadersKept(T, n, U),
           Gone(e, T, n)
    PROVE  Gone(e, U, m)
BY DEF Event, Gone, LeadersKept

\* Every event of M is one of L, and no two are the same one: line and place say
\* which.
Moved(L, M, line, place) ==
    /\ \A c \in Lines : \A i \in 1..Len(M[c]) :
        \E k \in Lines : \E x \in 1..Len(L[k]) : k = line[c][i] /\ x = place[c][i] /\ M[c][i] = L[k][x]
    /\ \A c, d \in Lines : \A i \in 1..Len(M[c]), j \in 1..Len(M[d]) :
        line[c][i] = line[d][j] /\ place[c][i] = place[d][j] => c = d /\ i = j

\* Events that only move or go keep what holds of them one by one and in pairs.
LEMMA EventsMoved ==
    ASSUME NEW L \in [Lines -> Seq(Event)], NEW M \in [Lines -> Seq(Event)],
           NEW T, NEW n \in Nat, NEW U, NEW m \in Nat, n <= m, LeadersKept(T, n, U),
           LogTrue(L, T, n), NEW line, NEW place, Moved(L, M, line, place)
    PROVE  LogTrue(M, U, m)
<1>1. AllMeasured(M)
  <2> SUFFICES ASSUME NEW c \in Lines, NEW i \in 1..Len(M[c]) PROVE Measured(M[c][i])
    BY DEF AllMeasured
  <2>1. PICK k \in Lines : \E j \in 1..Len(L[k]) : M[c][i] = L[k][j]
    BY DEF Moved
  <2>2. PICK j \in 1..Len(L[k]) : M[c][i] = L[k][j]
    BY <2>1
  <2>3. Measured(L[k][j])
    BY DEF LogTrue, AllMeasured
  <2> QED
    BY <2>2, <2>3
<1>2. ExitsKnown(M, U, m)
  <2> SUFFICES ASSUME NEW c \in Lines, NEW i \in 1..Len(M[c]) PROVE Gone(M[c][i], U, m)
    BY DEF ExitsKnown
  <2>1. PICK k \in Lines : \E j \in 1..Len(L[k]) : M[c][i] = L[k][j]
    BY DEF Moved
  <2>2. PICK j \in 1..Len(L[k]) : M[c][i] = L[k][j]
    BY <2>1
  <2>3. L[k][j] \in Event /\ Gone(L[k][j], T, n)
    BY DEF LogTrue, ExitsKnown
  <2>4. Gone(L[k][j], U, m)
    BY <2>3, GoneKept
  <2> QED
    BY <2>2, <2>4
<1>3. ExitsDistinct(M)
  <2> SUFFICES ASSUME NEW c \in Lines, NEW d \in Lines, NEW i \in 1..Len(M[c]), NEW j \in 1..Len(M[d]),
                      SameExit(M[c][i], M[d][j])
               PROVE  c = d /\ i = j
    BY DEF ExitsDistinct
  <2>1. PICK k \in Lines : \E x \in 1..Len(L[k]) : k = line[c][i] /\ x = place[c][i] /\ M[c][i] = L[k][x]
    BY DEF Moved
  <2>2. PICK x \in 1..Len(L[k]) : x = place[c][i] /\ M[c][i] = L[k][x]
    BY <2>1
  <2>3. PICK h \in Lines : \E y \in 1..Len(L[h]) : h = line[d][j] /\ y = place[d][j] /\ M[d][j] = L[h][y]
    BY DEF Moved
  <2>4. PICK y \in 1..Len(L[h]) : y = place[d][j] /\ M[d][j] = L[h][y]
    BY <2>3
  <2>5. SameExit(L[k][x], L[h][y])
    BY <2>2, <2>4
  <2>6. k = h /\ x = y
    BY <2>5 DEF LogTrue, ExitsDistinct
  <2>7. line[c][i] = line[d][j] /\ place[c][i] = place[d][j]
    BY <2>1, <2>2, <2>3, <2>4, <2>6
  <2> QED
    BY <2>7 DEF Moved
<1> QED
  BY <1>1, <1>2, <1>3 DEF LogTrue

\* One event is added at the end of a line: if it is an exit, it is that of a
\* leader which is no longer there.
LEMMA EventAdded ==
    ASSUME NEW L \in [Lines -> Seq(Event)], NEW M \in [Lines -> Seq(Event)],
           NEW T, NEW n \in Nat, NEW U, NEW m \in Nat, n <= m, LeadersKept(T, n, U),
           LogTrue(L, T, n), NEW d \in Lines, NEW e \in Event, Measured(e), Gone(e, U, m),
           e.kind = "exit" => \E p \in DOMAIN T : T[p] # None /\ T[p].leader /\ T[p].image = e.image,
           M = [L EXCEPT ![d] = Append(L[d], e)]
    PROVE  LogTrue(M, U, m)
<1>1. ASSUME NEW c \in Lines, NEW i \in 1..Len(M[c])
      PROVE  \/ i \in 1..Len(L[c]) /\ M[c][i] = L[c][i]
             \/ c = d /\ i = Len(L[c]) + 1 /\ M[c][i] = e
  <2>1. CASE c = d
    <3>1. M[c] = Append(L[c], e) /\ L[c] \in Seq(Event)
      BY <2>1
    <3> QED
      BY <2>1, <3>1
  <2>2. CASE c # d
    BY <2>2
  <2> QED
    BY <2>1, <2>2
<1>2. \A c \in Lines : \A i \in 1..Len(L[c]) :
         ~SameExit(L[c][i], e) /\ ~SameExit(e, L[c][i])
  <2> SUFFICES ASSUME NEW c \in Lines, NEW i \in 1..Len(L[c]) PROVE ~SameExit(L[c][i], e) /\ ~SameExit(e, L[c][i])
    OBVIOUS
  <2>1. PICK f \in Event : f = L[c][i]
    OBVIOUS
  <2>2. Gone(f, T, n)
    BY <2>1 DEF LogTrue, ExitsKnown
  <2>3. ~(e.kind = "exit" /\ f.kind = "exit" /\ e.image = f.image)
    BY <2>2 DEF Gone
  <2> QED
    BY <2>1, <2>3 DEF SameExit
<1>3. AllMeasured(M)
  BY <1>1 DEF LogTrue, AllMeasured
<1>4. ExitsKnown(M, U, m)
  <2> SUFFICES ASSUME NEW c \in Lines, NEW i \in 1..Len(M[c]) PROVE Gone(M[c][i], U, m)
    BY DEF ExitsKnown
  <2>1. CASE M[c][i] = e
    BY <2>1
  <2>2. CASE i \in 1..Len(L[c]) /\ M[c][i] = L[c][i]
    <3>1. L[c][i] \in Event /\ Gone(L[c][i], T, n)
      BY <2>2 DEF LogTrue, ExitsKnown
    <3> QED
      BY <2>2, <3>1, GoneKept
  <2> QED
    BY <1>1, <2>1, <2>2
<1>5. ExitsDistinct(M)
  <2> SUFFICES ASSUME NEW c \in Lines, NEW k \in Lines, NEW i \in 1..Len(M[c]), NEW j \in 1..Len(M[k]),
                      SameExit(M[c][i], M[k][j])
               PROVE  c = k /\ i = j
    BY DEF ExitsDistinct
  <2>1. CASE i \in 1..Len(L[c]) /\ M[c][i] = L[c][i] /\ j \in 1..Len(L[k]) /\ M[k][j] = L[k][j]
    BY <2>1 DEF LogTrue, ExitsDistinct
  <2>2. CASE M[c][i] = e /\ j \in 1..Len(L[k]) /\ M[k][j] = L[k][j]
    BY <1>2, <2>2
  <2>3. CASE M[k][j] = e /\ i \in 1..Len(L[c]) /\ M[c][i] = L[c][i]
    BY <1>2, <2>3
  <2>4. CASE c = d /\ i = Len(L[c]) + 1 /\ k = d /\ j = Len(L[k]) + 1
    BY <2>4
  <2> QED
    BY <1>1, <2>1, <2>2, <2>3, <2>4
<1> QED
  BY <1>3, <1>4, <1>5 DEF LogTrue

LEMMA LogKept ==
    ASSUME NEW L \in [Lines -> Seq(Event)], NEW T, NEW n \in Nat, NEW U, NEW m \in Nat, n <= m,
           LeadersKept(T, n, U), LogTrue(L, T, n)
    PROVE  LogTrue(L, U, m)
<1>1. ASSUME NEW c \in Lines, NEW i \in 1..Len(L[c]) PROVE Gone(L[c][i], U, m)
  <2>1. L[c][i] \in Event /\ Gone(L[c][i], T, n)
    BY DEF LogTrue, ExitsKnown
  <2> QED
    BY <2>1, GoneKept
<1> QED
  BY <1>1 DEF LogTrue, ExitsKnown

LEMMA LogTyped == ASSUME TraceTyped PROVE Log \in [Lines -> Seq(Event)]
BY DEF TraceTyped, Lines, Log

\* A handler's event is the last of a buffer, or lost.
LEMMA QueuedLog ==
    ASSUME Trace!TraceAssumption, TraceTyped, NEW e \in Event, NEW d \in CPU,
           buffer' \in {buffer, Trace!Queued(d, e)}, UNCHANGED printed
    PROVE  /\ buffer' \in [CPU -> Seq(Event)] /\ \A c \in CPU : Len(buffer'[c]) <= BufSize
           /\ Log' = Log \/ Log' = [Log EXCEPT ![d] = Append(Log[d], e)]
<1> USE DEF TraceTyped, Trace!TraceAssumption
<1>1. CASE buffer' = buffer
  BY <1>1 DEF Log
<1>2. CASE buffer' # buffer
  <2>1. Len(buffer[d]) < BufSize /\ buffer' = [buffer EXCEPT ![d] = Append(buffer[d], e)]
    BY <1>2 DEF Trace!Queued
  <2>2. Append(buffer[d], e) \in Seq(Event) /\ Len(Append(buffer[d], e)) = Len(buffer[d]) + 1
    OBVIOUS
  <2>3. \A c \in CPU : buffer'[c] = IF c = d THEN Append(buffer[d], e) ELSE buffer[c]
    BY <2>1
  <2>4. buffer' \in [CPU -> Seq(Event)] /\ \A c \in CPU : Len(buffer'[c]) <= BufSize
    BY <2>1, <2>2, <2>3
  <2>5. Log' = [Log EXCEPT ![d] = Append(Log[d], e)]
    BY <2>3 DEF Log, Lines
  <2> QED
    BY <2>4, <2>5
<1> QED
  BY <1>1, <1>2

\* A process that has lost its leader, or its other thread.
LEMMA LeftIs ==
    ASSUME NEW p \in Pid, task[p] \in Trace!Process, NEW leaving \in {"leader", "thread"}
    PROVE  /\ Trace!Left(p, leaving) \in Trace!Process
           /\ Trace!Left(p, leaving).image = task[p].image /\ Trace!Left(p, leaving).exec = task[p].exec
           /\ Trace!Left(p, leaving).leader => task[p].leader /\ leaving = "thread"
<1> DEFINE r == task[p]
           l == [r EXCEPT !.leader = FALSE]
           t == [r EXCEPT !.thread = FALSE]
<1>1. l \in Trace!Process /\ l.image = r.image /\ l.exec = r.exec /\ ~l.leader
  BY DEF Trace!Process
<1>2. t \in Trace!Process /\ t.image = r.image /\ t.exec = r.exec /\ t.leader = r.leader
  BY DEF Trace!Process
<1>3. leaving = "leader" => Trace!Left(p, leaving) = l
  BY DEF Trace!Left
<1>4. leaving = "thread" => Trace!Left(p, leaving) = t
  BY DEF Trace!Left
<1> HIDE DEF l, t
<1> QED
  BY <1>1, <1>2, <1>3, <1>4

\* What the exit of a thread does to the processes.
LEMMA ExitTask ==
    ASSUME Trace!TraceAssumption, TraceInv, NEW p \in Pid, NEW leaving \in {"leader", "thread"},
           task[p] # None, task[p][leaving],
           task' = [task EXCEPT ![p] =
                       IF Trace!Left(p, leaving).leader \/ Trace!Left(p, leaving).thread
                       THEN Trace!Left(p, leaving) ELSE None]
    PROVE  /\ task' \in [Pid -> Trace!Process \cup {None}]
           /\ \A q \in Pid : q # p => task'[q] = task[q]
           /\ task'[p] # None => /\ task'[p].image = task[p].image /\ task'[p].exec = task[p].exec
                                 /\ task'[p].leader => task[p].leader /\ leaving = "thread"
           /\ LeadersKept(task, images, task')
<1> DEFINE r == task[p]
           new == Trace!Left(p, leaving)
<1>1. r \in Trace!Process
  BY DEF TraceInv, TraceTyped
<1>3. new \in Trace!Process /\ new.image = r.image /\ new.exec = r.exec
      /\ (new.leader => r.leader /\ leaving = "thread")
  BY <1>1, LeftIs
<1>4. task' = [task EXCEPT ![p] = IF new.leader \/ new.thread THEN new ELSE None]
  OBVIOUS
<1> HIDE DEF new
<1>5. task'[p] \in {new, None} /\ \A q \in Pid : q # p => task'[q] = task[q]
  BY <1>4 DEF TraceInv, TraceTyped
<1>6. task' \in [Pid -> Trace!Process \cup {None}]
  BY <1>3, <1>4 DEF TraceInv, TraceTyped
<1>7. LeadersKept(task, images, task')
  BY <1>3, <1>5, <1>6 DEF LeadersKept, TraceInv, TraceTyped
<1> QED
  BY <1>3, <1>5, <1>6, <1>7

\* What the exit of a leader is reported as.
LEMMA ExitedTrue ==
    ASSUME Trace!TraceAssumption, TraceInv, NEW p \in Pid, task[p] # None
    PROVE  Trace!Exited(p) \in Event /\ Measured(Trace!Exited(p))
           /\ Trace!Exited(p).kind = "exit" /\ Trace!Exited(p).image = task[p].image
<1>1. task[p] \in Trace!Process /\ now \in Nat /\ exec_start[p] \in 0..MaxTime \cup {None}
  BY DEF TraceInv, TraceTyped
<1>2. Trace!Duration(p) \in Int
  BY <1>1 DEF Trace!Duration
<1>3. task[p].exec # None => exec_start[p] \in {None, task[p].exec}
  BY DEF TraceInv, EntriesTrue
<1>4. task[p].exec # None => Trace!Duration(p) \in {0, now - task[p].exec}
  BY <1>3 DEF Trace!Duration
<1>5. task[p].image \in Nat /\ task[p].exec \in 0..MaxTime \cup {None}
  BY <1>1 DEF Trace!Process
<1> HIDE DEF Trace!Duration
<1> QED
  BY <1>1, <1>2, <1>4, <1>5 DEF Trace!Exited, Event, Measured

-----------------------------------------------------------------------------
\* A process with a new image takes a pid.
LEMMA NewImage ==
    ASSUME Trace!TraceAssumption, TraceInv, NEW p \in Pid, NEW r \in Trace!Process,
           images < MaxImages, images' = images + 1, r.image = images', task' = [task EXCEPT ![p] = r]
    PROVE  /\ images' \in 0..MaxImages /\ task' \in [Pid -> Trace!Process \cup {None}]
           /\ ImagesDistinct' /\ LeadersKept(task, images, task')
<1>1. images \in Nat /\ images' \in Nat /\ images' > images
  BY DEF TraceInv, TraceTyped, Trace!TraceAssumption
<1>2. images' \in 0..MaxImages /\ task' \in [Pid -> Trace!Process \cup {None}]
  BY DEF TraceInv, TraceTyped, Trace!TraceAssumption
<1>3. task'[p] = r /\ \A q \in Pid : q # p => task'[q] = task[q]
  BY DEF TraceInv, TraceTyped
<1>4. \A q \in Pid : task[q] # None => task[q].image <= images /\ task[q].image \in Nat
  BY DEF TraceInv, ImagesDistinct, TraceTyped, Trace!Process
<1>5. ImagesDistinct'
  <2>1. \A q \in Pid : task'[q] # None => task'[q].image <= images'
    BY <1>1, <1>3, <1>4
  <2>2. ASSUME NEW q \in Pid, NEW s \in Pid, task'[q] # None, task'[s] # None, task'[q].image = task'[s].image
        PROVE  q = s
    <3>1. CASE q # p /\ s # p
      BY <1>3, <2>2, <3>1 DEF TraceInv, ImagesDistinct
    <3>2. CASE q = p /\ s # p
      BY <1>1, <1>3, <1>4, <2>2, <3>2
    <3>3. CASE s = p /\ q # p
      BY <1>1, <1>3, <1>4, <2>2, <3>3
    <3> QED
      BY <3>1, <3>2, <3>3
  <2> QED
    BY <2>1, <2>2 DEF ImagesDistinct
<1>6. LeadersKept(task, images, task')
  BY <1>1, <1>2, <1>3 DEF LeadersKept, TraceInv, TraceTyped
<1> QED
  BY <1>2, <1>5, <1>6

LEMMA ForkStep == ASSUME Trace!TraceAssumption, TraceInv, NEW p \in Pid, Trace!Fork(p) PROVE TraceInv'
<1> USE DEF Trace!Fork, Trace!monitor, Trace!Alive
<1>1. images < MaxImages /\ images' = images + 1 /\ UNCHANGED <<now, attached, printed, exec_start, buffer>>
  OBVIOUS
<1>2. PICK t \in BOOLEAN :
           task' = [task EXCEPT ![p] = [image |-> images', exec |-> None, leader |-> TRUE, thread |-> t]]
  OBVIOUS
<1>3. PICK r \in Trace!Process : task' = [task EXCEPT ![p] = r] /\ r.image = images' /\ r.exec = None
  <2> DEFINE r == [image |-> images', exec |-> None, leader |-> TRUE, thread |-> t]
  <2>1. images' \in 1..MaxImages
    BY <1>1 DEF TraceInv, TraceTyped, Trace!TraceAssumption
  <2>2. r \in Trace!Process /\ r.image = images' /\ r.exec = None
    BY <2>1 DEF Trace!Process
  <2>3. task' = [task EXCEPT ![p] = r]
    BY <1>2
  <2> HIDE DEF r
  <2> QED
    BY <2>2, <2>3
<1>4. images' \in 0..MaxImages /\ task' \in [Pid -> Trace!Process \cup {None}]
      /\ ImagesDistinct' /\ LeadersKept(task, images, task')
  BY <1>1, <1>3, NewImage
<1>5. TraceTyped'
  BY <1>1, <1>4 DEF TraceInv, TraceTyped
<1>6. EntriesTrue'
  <2>1. \A q \in Pid : task'[q] = IF q = p THEN r ELSE task[q]
    BY <1>3 DEF TraceInv, TraceTyped
  <2> QED
    BY <1>1, <1>3, <2>1 DEF TraceInv, EntriesTrue
<1>7. Log' = Log
  BY <1>1 DEF Log
<1>8. LogTrue(Log, task', images')
  <2>1. images \in Nat /\ images' \in Nat /\ images <= images'
    BY <1>1 DEF TraceInv, TraceTyped
  <2> QED
    BY <1>4, <2>1, LogTyped, LogKept DEF TraceInv
<1> QED
  BY <1>4, <1>5, <1>6, <1>7, <1>8 DEF TraceInv

LEMMA ExecStep ==
    ASSUME Trace!TraceAssumption, TraceInv, NEW p \in Pid, NEW c \in CPU, Trace!Exec(p, c) PROVE TraceInv'
<1> DEFINE r == [image |-> images', exec |-> now, leader |-> TRUE, thread |-> FALSE]
           e == Trace!Executed(p)
<1>1. /\ images < MaxImages /\ images' = images + 1 /\ task' = [task EXCEPT ![p] = r]
      /\ UNCHANGED <<now, attached, printed>>
  BY DEF Trace!Exec, Trace!monitor
<1>2. now \in 0..MaxTime /\ images \in Nat /\ images' \in Nat /\ images <= images'
  BY <1>1 DEF TraceInv, TraceTyped
<1>3. r \in Trace!Process /\ r.image = images' /\ r.exec = now
  BY <1>1, <1>2 DEF Trace!Process, Trace!TraceAssumption
<1> HIDE DEF r
<1>4. images' \in 0..MaxImages /\ task' \in [Pid -> Trace!Process \cup {None}]
      /\ ImagesDistinct' /\ LeadersKept(task, images, task')
  BY <1>1, <1>3, NewImage
<1>5. e \in Event /\ e.kind = "exec"
  BY <1>2 DEF Trace!Executed, Event
<1>6. PICK d \in CPU : buffer' \in {buffer, Trace!Queued(d, e)}
  <2>1. Trace!Shared \in CPU
    BY DEF Trace!Shared, Trace!TraceAssumption
  <2>2. buffer' = buffer \/ buffer' = Trace!Submitted(c, e) \/ buffer' = Trace!Output(c, e)
    BY DEF Trace!Exec, Trace!handle_exec, Trace!handle_exec_legacy
  <2> QED
    BY <2>1, <2>2 DEF Trace!Submitted, Trace!Output
<1>7. /\ exec_start' = exec_start \/ exec_start' = [exec_start EXCEPT ![p] = now]
      /\ "handle_exec" \notin attached => exec_start' = exec_start
      /\ "handle_exec" \in attached => exec_start'[p] \in {None, now}
  <2>1. exec_start' = exec_start \/ exec_start' = Trace!Remembered(p)
    BY DEF Trace!Exec, Trace!handle_exec, Trace!handle_exec_legacy
  <2>2. "handle_exec" \notin attached => exec_start' = exec_start
    BY DEF Trace!Exec
  <2>3. "handle_exec" \in attached => exec_start' = Trace!Remembered(p)
    BY DEF Trace!Exec, Trace!handle_exec, Trace!handle_exec_legacy
  <2> QED
    BY <2>1, <2>2, <2>3 DEF Trace!Remembered, TraceInv, TraceTyped
<1>8. /\ buffer' \in [CPU -> Seq(Event)] /\ \A k \in CPU : Len(buffer'[k]) <= BufSize
      /\ Log' = Log \/ Log' = [Log EXCEPT ![d] = Append(Log[d], e)]
  <2> HIDE DEF e
  <2> QED
    BY <1>1, <1>5, <1>6, QueuedLog DEF TraceInv
<1>9. TraceTyped'
  BY <1>1, <1>2, <1>4, <1>7, <1>8 DEF TraceInv, TraceTyped
<1>10. EntriesTrue'
  <2>1. \A q \in Pid : task'[q] = IF q = p THEN r ELSE task[q]
    BY <1>1 DEF TraceInv, TraceTyped
  <2>2. \A q \in Pid : q # p => exec_start'[q] = exec_start[q]
    BY <1>7 DEF TraceInv, TraceTyped
  <2>3. exec_start'[p] \in {None, now}
    BY <1>7 DEF TraceInv, TraceTyped, EntriesTrue
  <2> QED
    BY <1>1, <1>3, <1>7, <2>1, <2>2, <2>3 DEF TraceInv, EntriesTrue
<1>11. LogTrue(Log', task', images')
  <2>1. Log \in [Lines -> Seq(Event)] /\ Log' \in [Lines -> Seq(Event)]
    BY <1>9, LogTyped DEF TraceInv, TraceTyped, Log, Lines
  <2>2. LogTrue(Log, task, images)
    BY DEF TraceInv
  <2>3. CASE Log' = Log
    BY <1>2, <1>4, <2>1, <2>2, <2>3, LogKept
  <2>4. CASE Log' = [Log EXCEPT ![d] = Append(Log[d], e)]
    <3>1. Measured(e) /\ Gone(e, task', images') /\ e.kind # "exit" /\ d \in Lines
      BY <1>5 DEF Measured, Gone, Lines
    <3> HIDE DEF e
    <3> QED
      BY <1>2, <1>4, <1>5, <2>1, <2>2, <2>4, <3>1, EventAdded
  <2> QED
    BY <1>8, <2>3, <2>4
<1> QED
  BY <1>4, <1>9, <1>10, <1>11 DEF TraceInv

\* The exit of another thread is not reported.
LEMMA ExitStep ==
    ASSUME Trace!TraceAssumption, TraceInv, NEW p \in Pid, NEW c \in CPU, NEW leaving \in {"leader", "thread"},
           Trace!Exit(p, c, leaving)
    PROVE  TraceInv'
<1> DEFINE e == Trace!Exited(p)
<1>1. task[p] # None /\ task[p][leaving] /\ UNCHANGED <<now, images, attached, printed>>
  BY DEF Trace!Exit, Trace!monitor, Trace!Alive
<1>2. /\ task' \in [Pid -> Trace!Process \cup {None}] /\ \A q \in Pid : q # p => task'[q] = task[q]
      /\ task'[p] # None => /\ task'[p].image = task[p].image /\ task'[p].exec = task[p].exec
                            /\ task'[p].leader => task[p].leader /\ leaving = "thread"
      /\ LeadersKept(task, images, task')
  BY <1>1, ExitTask DEF Trace!Exit
<1>3. images \in Nat /\ DOMAIN task = Pid /\ DOMAIN task' = Pid
  BY <1>2 DEF TraceInv, TraceTyped
<1>4. e \in Event /\ Measured(e) /\ e.kind = "exit" /\ e.image = task[p].image
  BY <1>1, ExitedTrue
<1>5. PICK d \in CPU : buffer' \in {buffer, Trace!Queued(d, e)}
  <2>1. Trace!Shared \in CPU
    BY DEF Trace!Shared, Trace!TraceAssumption
  <2>2. buffer' = buffer \/ buffer' = Trace!Submitted(c, e) \/ buffer' = Trace!Output(c, e)
    BY DEF Trace!Exit, Trace!handle_exit, Trace!handle_exit_legacy
  <2> QED
    BY <2>1, <2>2 DEF Trace!Submitted, Trace!Output
<1>6. leaving = "thread" => buffer' = buffer
  BY DEF Trace!Exit, Trace!ThreadCounts
<1>7. exec_start' = exec_start \/ exec_start' = [exec_start EXCEPT ![p] = None]
  BY DEF Trace!Exit, Trace!handle_exit, Trace!handle_exit_legacy, Trace!Forgotten
<1> HIDE DEF e
<1>8. /\ buffer' \in [CPU -> Seq(Event)] /\ \A k \in CPU : Len(buffer'[k]) <= BufSize
      /\ Log' = Log \/ Log' = [Log EXCEPT ![d] = Append(Log[d], e)]
  BY <1>1, <1>4, <1>5, QueuedLog DEF TraceInv
<1>9. TraceTyped'
  BY <1>1, <1>2, <1>7, <1>8 DEF TraceInv, TraceTyped
<1>10. EntriesTrue'
  <2>1. \A q \in Pid : exec_start'[q] \in {exec_start[q], None}
    BY <1>7 DEF TraceInv, TraceTyped
  <2>2. "handle_exec" \notin attached' => exec_start' = [q \in Pid |-> None]
    BY <1>1, <1>7 DEF TraceInv, EntriesTrue
  <2>3. \A q \in Pid : task'[q] # None => task[q] # None /\ task'[q].exec = task[q].exec
    BY <1>1, <1>2
  <2> QED
    BY <2>1, <2>2, <2>3 DEF TraceInv, EntriesTrue
<1>11. ImagesDistinct'
  <2>1. \A q \in Pid : task'[q] # None => task[q] # None /\ task'[q].image = task[q].image
    BY <1>1, <1>2
  <2> QED
    BY <1>1, <2>1 DEF TraceInv, ImagesDistinct
<1>12. LogTrue(Log', task', images')
  <2>1. Log \in [Lines -> Seq(Event)] /\ Log' \in [Lines -> Seq(Event)]
    BY <1>9, LogTyped DEF TraceInv, TraceTyped, Log, Lines
  <2>2. LogTrue(Log, task, images) /\ images' = images /\ images <= images
    BY <1>1, <1>3 DEF TraceInv
  <2>3. CASE Log' = Log
    BY <1>2, <1>3, <2>1, <2>2, <2>3, LogKept
  <2>4. CASE Log' # Log
    <3>1. leaving = "leader" /\ d \in Lines
      BY <1>1, <1>6, <2>4 DEF Log, Lines
    <3>2. task[p].leader
      BY <1>1, <3>1 DEF TraceInv, TraceTyped, Trace!Process
    <3>3. Gone(e, task', images)
      <4>1. e.image <= images
        BY <1>1, <1>4 DEF TraceInv, ImagesDistinct
      <4>2. ASSUME NEW q \in Pid, task'[q] # None, task'[q].leader PROVE task'[q].image # e.image
        <5>1. q # p
          BY <1>2, <3>1, <4>2
        <5> QED
          BY <1>1, <1>2, <1>4, <4>2, <5>1 DEF TraceInv, ImagesDistinct
      <4> QED
        BY <1>3, <4>1, <4>2 DEF Gone
    <3>4. \E q \in DOMAIN task : task[q] # None /\ task[q].leader /\ task[q].image = e.image
      BY <1>1, <1>3, <1>4, <3>2
    <3>5. Log' = [Log EXCEPT ![d] = Append(Log[d], e)]
      BY <1>8, <2>4
    <3> QED
      BY <1>2, <1>3, <1>4, <2>1, <2>2, <3>1, <3>3, <3>4, <3>5, EventAdded
  <2> QED
    BY <2>3, <2>4
<1> QED
  BY <1>9, <1>10, <1>11, <1>12 DEF TraceInv

\* The first event of a buffer becomes the last one printed.
LEMMA ConsumeStep ==
    ASSUME Trace!TraceAssumption, TraceInv, NEW c \in CPU, Trace!Consume(c) PROVE TraceInv'
<1>0. /\ UNCHANGED <<now, images, task, exec_start, attached>> /\ buffer[c] # <<>>
      /\ printed' = Append(printed, Head(buffer[c])) /\ buffer' = [buffer EXCEPT ![c] = Tail(buffer[c])]
  BY DEF TraceInv, TraceTyped, Trace!Consume, Trace!At, Trace!kernel, Trace!handle_event
<1>1. buffer[c] \in Seq(Event) /\ Len(buffer[c]) \in Nat /\ Len(buffer[c]) > 0 /\ printed \in Seq(Event) /\ c # None
  BY <1>0 DEF TraceInv, TraceTyped, Trace!TraceAssumption
<1>2. /\ Head(buffer[c]) = buffer[c][1] /\ Head(buffer[c]) \in Event
      /\ Tail(buffer[c]) \in Seq(Event) /\ Len(Tail(buffer[c])) = Len(buffer[c]) - 1
      /\ \A i \in 1..Len(buffer[c]) - 1 : Tail(buffer[c])[i] = buffer[c][i + 1]
  BY <1>1
<1>3. \A k \in CPU : buffer'[k] = IF k = c THEN Tail(buffer[c]) ELSE buffer[k]
  BY <1>0 DEF TraceInv, TraceTyped
<1>4. TraceTyped'
  <2>1. printed' \in Seq(Event)
    BY <1>0, <1>1, <1>2
  <2>2. buffer' \in [CPU -> Seq(Event)]
    BY <1>0, <1>2 DEF TraceInv, TraceTyped
  <2>3. \A k \in CPU : Len(buffer'[k]) <= BufSize
    <3>1. \A k \in CPU : Len(buffer[k]) <= BufSize
      BY DEF TraceInv, TraceTyped
    <3>2. Len(Tail(buffer[c])) <= BufSize
      BY <1>1, <1>2, <3>1 DEF Trace!TraceAssumption
    <3> QED
      BY <1>3, <3>1, <3>2
  <2> QED
    BY <1>0, <2>1, <2>2, <2>3 DEF TraceInv, TraceTyped
<1> DEFINE n == Len(printed)
           line == [d \in Lines |-> [i \in Nat |-> IF d = None /\ i = n + 1 THEN c ELSE d]]
           place == [d \in Lines |-> [i \in Nat |-> IF d = None /\ i = n + 1 THEN 1 ELSE IF d = c THEN i + 1 ELSE i]]
           L == Log
           M == Log'
<1>5. L \in [Lines -> Seq(Event)] /\ M \in [Lines -> Seq(Event)]
  BY <1>4, LogTyped DEF TraceInv, TraceTyped, Log, Lines
<1>6. /\ M[None] = Append(L[None], L[c][1]) /\ M[c] = Tail(L[c])
      /\ \A d \in Lines \ {None, c} : M[d] = L[d]
      /\ L[None] = printed /\ L[c] = buffer[c]
  BY <1>0, <1>1, <1>2, <1>3 DEF Log, Lines
<1>7. /\ Len(M[None]) = n + 1 /\ M[None][n + 1] = L[c][1] /\ \A i \in 1..n : M[None][i] = L[None][i]
      /\ Len(L[None]) = n /\ n \in Nat /\ Len(L[c]) \in Nat /\ Len(L[c]) > 0
      /\ Len(M[c]) = Len(L[c]) - 1 /\ \A i \in 1..Len(M[c]) : M[c][i] = L[c][i + 1]
  <2>1. L[c][1] \in Event
    BY <1>2, <1>6
  <2> HIDE DEF M, L
  <2> QED
    BY <1>1, <1>2, <1>6, <2>1
<1>8. \A d \in Lines, i \in Nat :
         /\ line[d][i] = IF d = None /\ i = n + 1 THEN c ELSE d
         /\ place[d][i] = IF d = None /\ i = n + 1 THEN 1 ELSE IF d = c THEN i + 1 ELSE i
  OBVIOUS
<1>9. c \in Lines /\ None \in Lines
  BY DEF Lines
<1> HIDE DEF n, line, place, L, M
<1>10. Moved(L, M, line, place)
  <2>1. ASSUME NEW d \in Lines, NEW i \in 1..Len(M[d])
        PROVE  \E k \in Lines : \E x \in 1..Len(L[k]) : k = line[d][i] /\ x = place[d][i] /\ M[d][i] = L[k][x]
    <3>0. Len(M[d]) \in Nat /\ i \in Nat
      BY <1>5
    <3>1. CASE d = None /\ i = n + 1
      <4>1. 1 \in 1..Len(L[c])
        BY <1>7
      <4> QED
        BY <1>7, <1>8, <1>9, <3>0, <3>1, <4>1
    <3>2. CASE d = None /\ i # n + 1
      <4>1. i \in 1..Len(L[None]) /\ M[None][i] = L[None][i]
        BY <1>7, <3>0, <3>2
      <4>2. line[d][i] = None /\ place[d][i] = i
        BY <1>1, <1>8, <3>0, <3>2
      <4> QED
        BY <1>9, <3>2, <4>1, <4>2
    <3>3. CASE d = c
      <4>1. i + 1 \in 1..Len(L[c])
        BY <1>7, <3>0, <3>3
      <4> QED
        BY <1>1, <1>7, <1>8, <1>9, <3>0, <3>3, <4>1
    <3>4. CASE d \notin {None, c}
      <4>1. M[d] = L[d]
        BY <1>6, <3>4
      <4> QED
        BY <1>8, <3>0, <3>4, <4>1
    <3> QED
      BY <3>1, <3>2, <3>3, <3>4
  <2>2. ASSUME NEW d \in Lines, NEW k \in Lines, NEW i \in 1..Len(M[d]), NEW j \in 1..Len(M[k]),
               line[d][i] = line[k][j], place[d][i] = place[k][j]
        PROVE  d = k /\ i = j
    <3>1. i \in Nat /\ j \in Nat /\ i > 0 /\ j > 0
      BY <1>5
    <3>2. CASE d = None /\ i = n + 1 /\ k = None /\ j = n + 1
      BY <3>2
    <3>3. CASE d = None /\ i = n + 1 /\ ~(k = None /\ j = n + 1)
      <4>1. line[d][i] = c /\ place[d][i] = 1 /\ line[k][j] = k
        BY <1>8, <3>1, <3>3
      <4>2. k = c
        BY <2>2, <4>1
      <4>3. place[k][j] = j + 1
        BY <1>1, <1>8, <3>1, <4>2
      <4>4. 1 = j + 1
        BY <2>2, <4>1, <4>3, Zenon
      <4> QED
        BY <3>1, <4>4
    <3>4. CASE ~(d = None /\ i = n + 1) /\ k = None /\ j = n + 1
      <4>1. line[k][j] = c /\ place[k][j] = 1 /\ line[d][i] = d
        BY <1>8, <3>1, <3>4
      <4>2. d = c
        BY <2>2, <4>1
      <4>3. place[d][i] = i + 1
        BY <1>1, <1>8, <3>1, <4>2
      <4>4. 1 = i + 1
        BY <2>2, <4>1, <4>3, Zenon
      <4> QED
        BY <3>1, <4>4
    <3>5. CASE ~(d = None /\ i = n + 1) /\ ~(k = None /\ j = n + 1)
      <4>1. line[k][j] = k /\ line[d][i] = d
        BY <1>8, <3>1, <3>5
      <4>2. d = k
        BY <2>2, <4>1, Zenon
      <4>3. CASE d = c
        <5>1. place[d][i] = i + 1 /\ place[k][j] = j + 1
          BY <1>1, <1>8, <3>1, <4>2, <4>3
        <5>2. i + 1 = j + 1
          BY <2>2, <5>1, Zenon
        <5> QED
          BY <3>1, <4>2, <5>2
      <4>4. CASE d # c
        <5>1. place[d][i] = i /\ place[k][j] = j
          BY <1>8, <3>1, <3>5, <4>2, <4>4
        <5> QED
          BY <2>2, <4>2, <5>1, Zenon
      <4> QED
        BY <4>3, <4>4
    <3> QED
      BY <3>2, <3>3, <3>4, <3>5
  <2> QED
    BY <2>1, <2>2 DEF Moved
<1>11. LogTrue(M, task, images)
  <2>1. LeadersKept(task, images, task) /\ images \in Nat /\ images <= images
    BY DEF LeadersKept, TraceInv, TraceTyped
  <2>2. LogTrue(L, task, images)
    BY DEF TraceInv, L
  <2> QED
    BY <1>5, <1>10, <2>1, <2>2, EventsMoved
<1> QED
  BY <1>0, <1>4, <1>11 DEF TraceInv, EntriesTrue, ImagesDistinct, M

\* The skeleton is destroyed: the map and what was not printed yet are gone.
LEMMA CleanupStep == ASSUME Trace!TraceAssumption, TraceInv, Trace!Cleanup PROVE TraceInv'
<1>1. /\ UNCHANGED <<now, images, task, printed>>
      /\ exec_start' = [p \in Pid |-> None] /\ buffer' = [c \in CPU |-> <<>>]
  BY DEF Trace!Cleanup, Trace!At, Trace!kernel
<1>2. TraceTyped'
  BY <1>1 DEF TraceInv, TraceTyped, Trace!TraceAssumption
<1>3. EntriesTrue'
  BY <1>1 DEF TraceInv, EntriesTrue
<1>4. Log \in [Lines -> Seq(Event)] /\ Log' \in [Lines -> Seq(Event)]
  BY <1>2, LogTyped DEF TraceInv, TraceTyped, Log, Lines
<1> DEFINE line == [d \in Lines |-> [i \in Nat |-> d]]
           place == [d \in Lines |-> [i \in Nat |-> i]]
           L == Log
           M == Log'
<1>5. \A d \in Lines : M[d] = L[d] \/ Len(M[d]) = 0
  BY <1>1 DEF Log, Lines
<1>6. \A d \in Lines, i \in Nat : line[d][i] = d /\ place[d][i] = i
  OBVIOUS
<1> HIDE DEF line, place, L, M
<1>7. Moved(L, M, line, place)
  <2>1. \A d \in Lines : \A i \in 1..Len(M[d]) : i \in Nat /\ i \in 1..Len(L[d]) /\ M[d][i] = L[d][i]
    BY <1>4, <1>5 DEF L, M
  <2> QED
    BY <1>6, <2>1 DEF Moved
<1>8. LogTrue(M, task, images)
  <2>1. LeadersKept(task, images, task) /\ images \in Nat /\ images <= images
    BY DEF LeadersKept, TraceInv, TraceTyped
  <2>2. LogTrue(L, task, images) /\ L \in [Lines -> Seq(Event)] /\ M \in [Lines -> Seq(Event)]
    BY <1>4 DEF TraceInv, L, M
  <2> QED
    BY <1>7, <2>1, <2>2, EventsMoved
<1> QED
  BY <1>1, <1>2, <1>3, <1>8 DEF TraceInv, ImagesDistinct, M

\* Every other step of main changes neither processes nor events nor the map.
LEMMA OtherTraceStep ==
    ASSUME TraceInv, UNCHANGED <<images, task, exec_start, buffer, printed>>,
           now' \in 0..MaxTime, "handle_exec" \in attached => "handle_exec" \in attached'
    PROVE  TraceInv'
<1>1. TraceTyped' /\ EntriesTrue' /\ ImagesDistinct'
  BY DEF TraceInv, TraceTyped, EntriesTrue, ImagesDistinct
<1>2. Log' = Log
  BY DEF Log
<1> QED
  BY <1>1, <1>2 DEF TraceInv

LEMMA TraceInvNext == Trace!TraceAssumption /\ TraceInv /\ [Trace!Next]_(Trace!vars) => TraceInv'
<1> SUFFICES ASSUME Trace!TraceAssumption, TraceInv, [Trace!Next]_(Trace!vars) PROVE TraceInv'
  OBVIOUS
<1>0. now \in 0..MaxTime
  BY DEF TraceInv, TraceTyped
<1>1. CASE UNCHANGED Trace!vars
  BY <1>0, <1>1, OtherTraceStep DEF Trace!vars
<1>2. ASSUME NEW p, Trace!argp_parse(p) PROVE TraceInv'
  BY <1>0, <1>2, OtherTraceStep DEF Trace!argp_parse
<1>3. ASSUME Trace!Load \/ Trace!NewBuffer \/ Trace!Loop \/ Trace!PollReturns \/ Trace!sig_handler PROVE TraceInv'
  BY <1>0, <1>3, OtherTraceStep
     DEF Trace!Load, Trace!NewBuffer, Trace!Loop, Trace!PollReturns, Trace!sig_handler, Trace!At, Trace!kernel
<1>4. ASSUME Trace!Attach PROVE TraceInv'
  BY <1>0, <1>4, OtherTraceStep DEF Trace!Attach, Trace!At, Trace!kernel
<1>5. ASSUME Trace!Tick PROVE TraceInv'
  <2>1. now' \in 0..MaxTime
    BY <1>0, <1>5 DEF Trace!Tick, Trace!TraceAssumption
  <2> QED
    BY <1>5, <2>1, OtherTraceStep DEF Trace!Tick, Trace!monitor
<1>6. ASSUME Trace!ring_buffer__poll \/ Trace!perf_buffer__poll PROVE TraceInv'
  <2>1. Trace!Shared \in CPU
    BY DEF Trace!Shared, Trace!TraceAssumption
  <2> QED
    BY <1>6, <2>1, ConsumeStep DEF Trace!ring_buffer__poll, Trace!perf_buffer__poll
<1>7. ASSUME Trace!System PROVE TraceInv'
  BY <1>5, <1>7, ForkStep, ExecStep, ExitStep DEF Trace!System
<1> QED
  BY <1>1, <1>2, <1>3, <1>4, <1>6, <1>7, CleanupStep DEF Trace!Next, Trace!bootstrap_main, Trace!bootstrap_legacy_main

LEMMA TraceInvariant == Spec => []TraceInv
<1>1. Trace!TraceAssumption
  BY SamplesAssumption
<1>2. Init => TraceInv
  BY <1>1, TraceInvInit DEF Init
<1>3. TraceInv /\ [Next]_vars => TraceInv'
  BY <1>1, TraceInvNext DEF Next, vars, trace, Trace!vars
<1> QED
  BY <1>2, <1>3, PTL DEF Spec

-----------------------------------------------------------------------------
\* The places of the property are those of the log.
LEMMA FilledIs ==
    ASSUME Trace!TraceAssumption, TraceTyped, NEW x \in Trace!Filled
    PROVE  \E c \in Lines : \E i \in 1..Len(Log[c]) : x = <<c, i>> /\ Trace!EventAt(x) = Log[c][i]
<1>0. None \notin CPU /\ None \in Lines /\ CPU \subseteq Lines /\ printed \in Seq(Event)
      /\ \A c \in CPU : buffer[c] \in Seq(Event)
  BY DEF Trace!TraceAssumption, Lines, TraceTyped
<1>1. CASE \E i \in DOMAIN printed : x = <<None, i>>
  <2>1. PICK i \in DOMAIN printed : x = <<None, i>>
    BY <1>1
  <2>2. Log[None] = printed /\ i \in 1..Len(printed)
    BY <1>0, <2>1 DEF Log
  <2>3. x[1] = None /\ x[2] = i
    BY <2>1
  <2> QED
    BY <1>0, <2>1, <2>2, <2>3 DEF Trace!EventAt
<1>2. CASE \E c \in CPU, i \in 1..BufSize : x = <<c, i>>
  <2>1. PICK c \in CPU, i \in 1..BufSize : x = <<c, i>>
    BY <1>2
  <2>2. x[1] = c /\ x[2] = i /\ c # None
    BY <1>0, <2>1
  <2>3. i \in DOMAIN buffer[c]
    BY <2>2 DEF Trace!Filled
  <2>4. Log[c] = buffer[c] /\ i \in 1..Len(buffer[c])
    BY <1>0, <2>2, <2>3 DEF Log
  <2> QED
    BY <1>0, <2>1, <2>2, <2>4 DEF Trace!EventAt
<1> QED
  BY <1>1, <1>2 DEF Trace!Filled, Trace!Place

\* A duration that a tracer prints is that of the image which exits, whatever the
\* map's limit, the moment of the attachment and the reuse of pids did to its entry.
THEOREM DurationsAreTrue == Spec => []DurationTrue
<1>1. ASSUME TraceInv PROVE DurationTrue
  <2> SUFFICES ASSUME NEW x \in Trace!Filled PROVE Measured(Trace!EventAt(x))
    BY DEF DurationTrue, Trace!DurationTrue, Measured
  <2>1. PICK c \in Lines : \E i \in 1..Len(Log[c]) : Trace!EventAt(x) = Log[c][i]
    BY <1>1, SamplesAssumption, FilledIs DEF TraceInv
  <2> QED
    BY <1>1, <2>1 DEF TraceInv, LogTrue, AllMeasured
<1> QED
  BY <1>1, TraceInvariant, PTL

\* An image is reported to exit once, whichever of its threads end in what order.
THEOREM ExitsAreReportedOnce == Spec => []ExitOnce
<1>1. ASSUME TraceInv PROVE ExitOnce
  <2> SUFFICES ASSUME NEW x \in Trace!Filled, NEW y \in Trace!Filled,
                      SameExit(Trace!EventAt(x), Trace!EventAt(y))
               PROVE  x = y
    BY DEF ExitOnce, Trace!ExitOnce, SameExit
  <2>1. PICK c \in Lines : \E i \in 1..Len(Log[c]) : x = <<c, i>> /\ Trace!EventAt(x) = Log[c][i]
    BY <1>1, SamplesAssumption, FilledIs DEF TraceInv
  <2>2. PICK i \in 1..Len(Log[c]) : x = <<c, i>> /\ Trace!EventAt(x) = Log[c][i]
    BY <2>1
  <2>3. PICK d \in Lines : \E j \in 1..Len(Log[d]) : y = <<d, j>> /\ Trace!EventAt(y) = Log[d][j]
    BY <1>1, SamplesAssumption, FilledIs DEF TraceInv
  <2>4. PICK j \in 1..Len(Log[d]) : y = <<d, j>> /\ Trace!EventAt(y) = Log[d][j]
    BY <2>3
  <2>5. SameExit(Log[c][i], Log[d][j])
    BY <2>2, <2>4
  <2>6. c = d /\ i = j
    BY <1>1, <2>5 DEF TraceInv, LogTrue, ExitsDistinct
  <2> QED
    BY <2>2, <2>4, <2>6
<1> QED
  BY <1>1, TraceInvariant, PTL

\* While handle_exit is attached, no leader that ends leaves an entry of exec_start
\* to the next process with its pid.
THEOREM EntriesAreForgotten == Spec => NothingLeftBehind
<1> DEFINE Kept(p) ==
      ("handle_exit" \in attached /\ Trace!Alive(p) /\ task[p].leader
          /\ (task'[p] = None \/ (task'[p] # None /\ ~task'[p].leader)))
        => exec_start'[p] = None
<1>1. ASSUME TraceInv, [Next]_vars PROVE [\A p \in Pid : Kept(p)]_(Trace!vars)
  <2> SUFFICES ASSUME NEW p \in Pid, "handle_exit" \in attached, Trace!Alive(p), task[p].leader,
                      task'[p] = None \/ (task'[p] # None /\ ~task'[p].leader), Trace!vars' # Trace!vars
               PROVE  exec_start'[p] = None
    OBVIOUS
  <2>0. Trace!TraceAssumption /\ TraceTyped /\ task[p] # None
    BY <1>1, SamplesAssumption DEF TraceInv, Trace!Alive
  <2>1. Trace!Next
    BY <1>1 DEF Next, vars, trace, Trace!vars
  <2>2. task' # task
    BY <2>0
  <2>3. PICK q \in Pid, c \in CPU : Trace!Fork(q) \/ Trace!Exec(q, c) \/ Trace!Exit(q, c, "leader") \/ Trace!Exit(q, c, "thread")
    <3>1. CPU # {}
      BY <2>0 DEF Trace!TraceAssumption
    <3> QED
      BY <2>1, <2>2, <3>1 DEF Trace!Next, Trace!System, Trace!Tick, Trace!bootstrap_main, Trace!bootstrap_legacy_main,
         Trace!argp_parse, Trace!Load, Trace!Attach, Trace!NewBuffer, Trace!Loop, Trace!ring_buffer__poll,
         Trace!perf_buffer__poll, Trace!Consume, Trace!PollReturns, Trace!Cleanup, Trace!sig_handler, Trace!At, Trace!kernel
  <2>4. ~Trace!Fork(q)
    <3> SUFFICES ASSUME Trace!Fork(q) PROVE FALSE
      OBVIOUS
    <3>1. q # p
      BY <2>0 DEF Trace!Fork, Trace!Alive
    <3>2. task'[p] = task[p]
      BY <2>0, <3>1 DEF Trace!Fork, TraceTyped
    <3> QED
      BY <2>0, <3>2
  <2>5. ~Trace!Exec(q, c)
    <3> SUFFICES ASSUME Trace!Exec(q, c) PROVE FALSE
      OBVIOUS
    <3> DEFINE r == [image |-> images', exec |-> now, leader |-> TRUE, thread |-> FALSE]
    <3>1. task' = [task EXCEPT ![q] = r] /\ r.leader = TRUE
      BY DEF Trace!Exec
    <3>2. r \in Trace!Process
      BY <2>0 DEF Trace!Exec, Trace!Process, TraceTyped, Trace!TraceAssumption
    <3> HIDE DEF r
    <3>3. task'[p] = task[p] \/ task'[p] = r
      BY <2>0, <3>1 DEF TraceTyped
    <3>4. r # None
      BY <2>0, <3>2 DEF Trace!TraceAssumption
    <3> QED
      BY <2>0, <3>1, <3>3, <3>4
  <2>6. ~Trace!Exit(q, c, "thread")
    <3> SUFFICES ASSUME Trace!Exit(q, c, "thread") PROVE FALSE
      OBVIOUS
    <3>1. q = p
      BY <2>0 DEF Trace!Exit, TraceTyped
    <3>2. task[p] \in Trace!Process
      BY <2>0 DEF TraceTyped
    <3>3. Trace!Left(p, "thread").leader /\ Trace!Left(p, "thread") \in Trace!Process
      BY <3>2 DEF Trace!Left, Trace!Process
    <3>4. task'[p] = Trace!Left(p, "thread")
      BY <2>0, <3>1, <3>3 DEF Trace!Exit, TraceTyped
    <3> QED
      BY <2>0, <3>3, <3>4 DEF Trace!TraceAssumption
  <2>7. Trace!Exit(q, c, "leader")
    BY <2>3, <2>4, <2>5, <2>6
  <2>8. q = p
    BY <2>0, <2>7 DEF Trace!Exit, TraceTyped
  <2>9. Trace!handle_exit(p, c) \/ Trace!handle_exit_legacy(p, c)
    BY <2>7, <2>8 DEF Trace!Exit, Trace!ThreadCounts
  <2> QED
    BY <2>0, <2>9 DEF Trace!handle_exit, Trace!handle_exit_legacy, Trace!Unknown, Trace!Forgotten, TraceTyped
<1> QED
  BY <1>1, TraceInvariant, PTL DEF Spec, NothingLeftBehind, Trace!NothingLeftBehind

-----------------------------------------------------------------------------
(***************************************************************************)
(* A listener alone on the ring.  The invariant, until two have overlapped *)
(* for the first time: the one that has the ring open has printed what     *)
(* lies just before the consumer position, which is its own, and the slots *)
(* ahead of it hold their records.                                         *)
(***************************************************************************)
Consecutive(s) == \A i \in 1..Len(s) - 1 : s[i + 1] = s[i] + 1

LastPrinted(l) == IF listener_pc[l] = "handled" THEN consumer_pos ELSE consumer_pos - 1

RingFilled ==
    /\ producer_pos <= consumer_pos + Size
    /\ \A r \in consumer_pos..producer_pos - 1 : slot[Rings!Slot(r)] = r

OneOpen ==
    /\ \A l, k \in Rings!Open : l = k
    /\ \A l \in Listener : listener_pc[l] \in {"pass", "handled"} => cons_pos[l] = consumer_pos

PrintedInOrder ==
    \A l \in Listener :
        /\ Consecutive(handled[l])
        /\ listener_pc[l] = "idle" => handled[l] = <<>>
        /\ l \in Rings!Open /\ handled[l] # <<>> => handled[l][Len(handled[l])] = LastPrinted(l)

Alone == RingFilled /\ OneOpen /\ PrintedInOrder

AloneInv == RingInv /\ overlapped \in BOOLEAN /\ (~overlapped => Alone)

-----------------------------------------------------------------------------
LEMMA OneMore ==
    ASSUME NEW s \in Seq(Nat \cup {NoRecord}), NEW x \in Nat, Consecutive(s),
           s # <<>> => s[Len(s)] = x - 1
    PROVE  LET t == Append(s, x) IN
           Consecutive(t) /\ t # <<>> /\ t[Len(t)] = x /\ t \in Seq(Nat \cup {NoRecord})
<1> DEFINE t == Append(s, x)
<1>1. Len(t) = Len(s) + 1 /\ t[Len(s) + 1] = x /\ (\A i \in 1..Len(s) : t[i] = s[i])
      /\ t \in Seq(Nat \cup {NoRecord}) /\ Len(s) \in Nat
  OBVIOUS
<1> HIDE DEF t
<1>2. ASSUME NEW i \in 1..Len(t) - 1 PROVE t[i + 1] = t[i] + 1
  <2>1. CASE i < Len(s)
    <3>1. i \in 1..Len(s) - 1 /\ i \in 1..Len(s) /\ i + 1 \in 1..Len(s)
      BY <1>1, <2>1
    <3> QED
      BY <1>1, <3>1 DEF Consecutive
  <2>2. CASE i = Len(s)
    <3>1. s # <<>> /\ i \in 1..Len(s)
      BY <1>1, <2>2
    <3> QED
      BY <1>1, <2>2, <3>1
  <2> QED
    BY <1>1, <2>1, <2>2
<1>3. t # <<>> /\ t[Len(t)] = x
  BY <1>1
<1> QED
  BY <1>1, <1>2, <1>3 DEF Consecutive, t

LEMMA AloneInvInit == Rings!RingAssumption /\ Rings!Init => AloneInv
<1> SUFFICES ASSUME Rings!RingAssumption, Rings!Init PROVE Alone
  BY RingInvInit DEF AloneInv, Rings!Init
<1>1. RingFilled
  BY DEF Rings!RingAssumption, Rings!Init, RingFilled
<1>2. OneOpen /\ PrintedInOrder
  BY DEF Rings!Init, OneOpen, PrintedInOrder, Rings!Open, Consecutive
<1> QED
  BY <1>1, <1>2 DEF Alone

LEMMA AloneReserve ==
    ASSUME Rings!RingAssumption, RingInv, Alone, Rings!bpf_ringbuf_reserve PROVE Alone'
<1> USE DEF Rings!bpf_ringbuf_reserve, RingInv, Alone
<1>1. Size \in Nat /\ producer_pos \in Nat /\ consumer_pos \in Nat /\ Rings!Slot(producer_pos) \in 0..Size
  BY SlotInRing DEF Rings!RingAssumption, RingTyped
<1>2. OneOpen' /\ PrintedInOrder'
  BY DEF OneOpen, PrintedInOrder, Rings!Open, LastPrinted
<1>3. ASSUME NEW r \in consumer_pos..producer_pos PROVE slot'[Rings!Slot(r)] = r
  <2>1. CASE r = producer_pos
    BY <1>1, <2>1 DEF RingTyped
  <2>2. CASE r < producer_pos
    <3>1. Rings!Slot(r) # Rings!Slot(producer_pos)
      BY <1>1, <2>2, SlotsDiffer DEF Rings!Room
    <3>2. Rings!Slot(r) \in 0..Size /\ slot[Rings!Slot(r)] = r
      BY <1>1, <2>2, SlotInRing DEF RingFilled
    <3> QED
      BY <3>1, <3>2 DEF RingTyped
  <2> QED
    BY <1>1, <2>1, <2>2
<1>4. RingFilled'
  BY <1>1, <1>3 DEF RingFilled, Rings!Room
<1> QED
  BY <1>2, <1>4

LEMMA AloneHandle ==
    ASSUME Rings!RingAssumption, RingInv, Alone, NEW l \in Listener, Rings!handle_alert(l) PROVE Alone'
<1> USE DEF RingInv, Alone
<1>1. /\ listener_pc[l] = "pass" /\ cons_pos[l] < producer_pos /\ listener_pc' = [listener_pc EXCEPT ![l] = "handled"]
      /\ handled' = [handled EXCEPT ![l] = Append(@, slot[Rings!Slot(cons_pos[l])])]
      /\ UNCHANGED <<producer_pos, slot, filling, consumer_pos, cons_pos>>
  BY DEF Rings!handle_alert, Rings!ring
<1>2. cons_pos[l] = consumer_pos /\ consumer_pos \in Nat /\ producer_pos \in Nat /\ l \in Rings!Open
  BY <1>1 DEF OneOpen, RingTyped, Rings!Open
<1>3. slot[Rings!Slot(consumer_pos)] = consumer_pos
  BY <1>1, <1>2 DEF RingFilled
<1>4. handled' = [handled EXCEPT ![l] = Append(handled[l], consumer_pos)]
  BY <1>1, <1>2, <1>3
<1>5. handled[l] \in Seq(Nat \cup {NoRecord}) /\ Consecutive(handled[l])
      /\ (handled[l] # <<>> => handled[l][Len(handled[l])] = consumer_pos - 1)
  BY <1>1, <1>2 DEF RingTyped, PrintedInOrder, LastPrinted
<1>6. Consecutive(handled'[l]) /\ handled'[l][Len(handled'[l])] = consumer_pos
  <2>1. handled'[l] = Append(handled[l], consumer_pos)
    BY <1>4 DEF RingTyped
  <2> QED
    BY <1>2, <1>5, <2>1, OneMore
<1>7. \A k \in Listener : k # l => handled'[k] = handled[k] /\ listener_pc'[k] = listener_pc[k]
  BY <1>1, <1>4 DEF RingTyped
<1>8. listener_pc'[l] = "handled"
  BY <1>1 DEF RingTyped
<1>9. \A k \in Listener : k \in Rings!Open' <=> k \in Rings!Open
  BY <1>1, <1>7, <1>8 DEF Rings!Open
<1>10. RingFilled'
  BY <1>1 DEF RingFilled
<1>11. OneOpen'
  BY <1>1, <1>2, <1>7, <1>9 DEF OneOpen, Rings!Open
<1>12. PrintedInOrder'
  BY <1>1, <1>6, <1>7, <1>8, <1>9 DEF PrintedInOrder, LastPrinted
<1> QED
  BY <1>10, <1>11, <1>12

LEMMA AloneRelease ==
    ASSUME Rings!RingAssumption, RingInv, Alone, NEW l \in Listener, Rings!Release(l) PROVE Alone'
<1> USE DEF RingInv, Alone
<1>1. /\ listener_pc[l] = "handled" /\ listener_pc' = [listener_pc EXCEPT ![l] = "pass"]
      /\ consumer_pos' = cons_pos[l] + 1 /\ cons_pos' = [cons_pos EXCEPT ![l] = cons_pos[l] + 1]
      /\ UNCHANGED <<producer_pos, slot, filling, handled>>
  BY DEF Rings!Release, Rings!ring, Rings!Stored, RingTyped
<1>2. /\ cons_pos[l] = consumer_pos /\ consumer_pos \in Nat /\ producer_pos \in Nat /\ Size \in Nat
      /\ l \in Rings!Open /\ consumer_pos < producer_pos
  BY <1>1 DEF OneOpen, RingTyped, Rings!Open, Reached, Rings!RingAssumption
<1>3. /\ listener_pc'[l] = "pass" /\ cons_pos'[l] = consumer_pos'
      /\ \A k \in Listener : k # l => listener_pc'[k] = listener_pc[k] /\ cons_pos'[k] = cons_pos[k]
  BY <1>1 DEF RingTyped
<1>4. \A k \in Listener : k \in Rings!Open' <=> k \in Rings!Open
  BY <1>1, <1>3 DEF Rings!Open
<1>5. \A k \in Rings!Open : k = l
  BY <1>2 DEF OneOpen
<1>6. RingFilled'
  BY <1>1, <1>2 DEF RingFilled
<1>7. OneOpen'
  <2>1. \A k \in Listener : listener_pc'[k] \in {"pass", "handled"} => k = l
    BY <1>3, <1>5 DEF Rings!Open
  <2>2. \A k \in Rings!Open' : k = l
    BY <1>4, <1>5 DEF Rings!Open
  <2>3. \A j, k \in Rings!Open' : j = k
    BY <2>2
  <2>4. \A k \in Listener : listener_pc'[k] \in {"pass", "handled"} => cons_pos'[k] = consumer_pos'
    BY <1>3, <2>1
  <2> QED
    BY <2>3, <2>4 DEF OneOpen
<1>8. PrintedInOrder'
  <2>1. LastPrinted(l) = consumer_pos /\ LastPrinted(l)' = consumer_pos
    BY <1>1, <1>2, <1>3 DEF LastPrinted
  <2> QED
    BY <1>1, <1>2, <1>3, <1>4, <1>5, <2>1 DEF PrintedInOrder
<1> QED
  BY <1>6, <1>7, <1>8

\* A listener that starts alone, begins or ends a pass, or goes: nothing is printed
\* and no position is stored.
LEMMA AloneMoves ==
    ASSUME RingInv, Alone, NEW l \in Listener, NEW label \in {"loop", "pass", "ended"},
           listener_pc[l] # "handled" \/ label = "ended",
           listener_pc' = [listener_pc EXCEPT ![l] = label],
           listener_pc[l] = "idle" => label = "ended" \/ Rings!Open = {},
           listener_pc[l] # "idle" => l \in Rings!Open,
           label = "pass" => cons_pos'[l] = consumer_pos,
           \A k \in Listener : k # l => cons_pos'[k] = cons_pos[k],
           UNCHANGED <<producer_pos, slot, consumer_pos, handled>>
    PROVE  Alone'
<1> USE DEF RingInv, Alone
<1>1. listener_pc'[l] = label /\ \A k \in Listener : k # l => listener_pc'[k] = listener_pc[k]
  BY DEF RingTyped
<1>2. \A k \in Rings!Open' : (k = l \/ k \in Rings!Open) /\ k \in Listener
  BY <1>1 DEF Rings!Open
<1>3. OneOpen'
  <2>1. ASSUME NEW k \in Rings!Open' PROVE k = l \/ (l \notin Rings!Open' /\ k \in Rings!Open)
    <3>1. CASE l \in Rings!Open
      BY <1>2, <2>1, <3>1 DEF OneOpen
    <3>2. CASE l \notin Rings!Open
      BY <1>1, <1>2, <2>1, <3>2 DEF Rings!Open
    <3> QED
      BY <3>1, <3>2
  <2>2. \A j, k \in Rings!Open' : j = k
    BY <2>1 DEF OneOpen
  <2>3. \A k \in Listener : listener_pc'[k] \in {"pass", "handled"} => cons_pos'[k] = consumer_pos
    BY <1>1 DEF OneOpen
  <2> QED
    BY <2>2, <2>3 DEF OneOpen
<1>4. PrintedInOrder'
  <2>1. ASSUME NEW k \in Listener, k \in Rings!Open', handled[k] # <<>>
        PROVE  handled[k][Len(handled[k])] = LastPrinted(k)'
    <3>1. CASE k = l
      <4>1. listener_pc[l] # "idle" /\ listener_pc'[l] # "handled" /\ listener_pc[l] # "handled"
        BY <1>1, <2>1, <3>1 DEF PrintedInOrder, Rings!Open
      <4> QED
        BY <2>1, <3>1, <4>1 DEF PrintedInOrder, LastPrinted
    <3>2. CASE k # l
      BY <1>1, <2>1, <3>2 DEF PrintedInOrder, LastPrinted, Rings!Open
    <3> QED
      BY <3>1, <3>2
  <2>2. \A k \in Listener : listener_pc'[k] = "idle" => listener_pc[k] = "idle"
    BY <1>1
  <2> QED
    BY <2>1, <2>2 DEF PrintedInOrder
<1>5. RingFilled'
  BY DEF RingFilled
<1> QED
  BY <1>3, <1>4, <1>5

LEMMA AloneSame ==
    ASSUME Alone, UNCHANGED <<producer_pos, slot, consumer_pos, listener_pc, cons_pos, handled>> PROVE Alone'
BY DEF Alone, RingFilled, OneOpen, PrintedInOrder, LastPrinted, Rings!Open

LEMMA AloneInvNext == Rings!RingAssumption /\ AloneInv /\ [Rings!Next]_(Rings!vars) => AloneInv'
<1> SUFFICES ASSUME Rings!RingAssumption, AloneInv, [Rings!Next]_(Rings!vars)
             PROVE  overlapped' \in BOOLEAN /\ (~overlapped' => Alone')
  BY RingInvNext DEF AloneInv
<1>1. CASE UNCHANGED Rings!vars
  BY <1>1, AloneSame DEF Rings!vars, Rings!ring, Rings!history, AloneInv
<1>2. CASE Rings!bpf_ringbuf_reserve
  BY <1>2, AloneReserve DEF AloneInv, Rings!bpf_ringbuf_reserve, Rings!history
<1>3. ASSUME NEW r \in filling, Rings!bpf_ringbuf_submit(r) PROVE overlapped' \in BOOLEAN /\ (~overlapped' => Alone')
  BY <1>3, AloneSame DEF AloneInv, Rings!bpf_ringbuf_submit, Rings!history
<1>4. ASSUME NEW l \in Listener, Rings!Start(l) PROVE overlapped' \in BOOLEAN /\ (~overlapped' => Alone')
  <2>1. CASE listener_pc' = [listener_pc EXCEPT ![l] = "loop"] /\ overlapped' = (overlapped \/ Rings!Open # {})
    <3>1. overlapped' \in BOOLEAN /\ (~overlapped' => ~overlapped /\ Rings!Open = {})
      BY <2>1 DEF AloneInv
    <3>2. listener_pc[l] = "idle" /\ UNCHANGED <<producer_pos, slot, consumer_pos, cons_pos, handled>>
      BY <1>4 DEF Rings!Start, Rings!ring
    <3> QED
      BY <2>1, <3>1, <3>2, AloneMoves DEF AloneInv
  <2>2. CASE listener_pc' = [listener_pc EXCEPT ![l] = "ended"] /\ UNCHANGED overlapped
    <3>1. listener_pc[l] = "idle" /\ UNCHANGED <<producer_pos, slot, consumer_pos, cons_pos, handled>>
      BY <1>4 DEF Rings!Start, Rings!ring
    <3> QED
      BY <2>2, <3>1, AloneMoves DEF AloneInv
  <2> QED
    BY <1>4, <2>1, <2>2 DEF Rings!Start
<1>5. ASSUME NEW l \in Listener, Rings!Poll(l) PROVE overlapped' \in BOOLEAN /\ (~overlapped' => Alone')
  <2>1. CASE Rings!Available
    <3>1. /\ listener_pc[l] = "loop" /\ listener_pc' = [listener_pc EXCEPT ![l] = "pass"] /\ l \in Rings!Open
          /\ cons_pos' = [cons_pos EXCEPT ![l] = consumer_pos]
          /\ UNCHANGED <<producer_pos, slot, consumer_pos, handled, overlapped>>
      BY <1>5, <2>1 DEF Rings!Poll, Rings!ring, Rings!Open
    <3>2. cons_pos'[l] = consumer_pos /\ \A k \in Listener : k # l => cons_pos'[k] = cons_pos[k]
      BY <3>1 DEF AloneInv, RingInv, RingTyped
    <3> QED
      BY <3>1, <3>2, AloneMoves DEF AloneInv
  <2>2. CASE ~Rings!Available
    BY <1>5, <2>2, AloneSame DEF AloneInv, Rings!Poll, Rings!ring
  <2> QED
    BY <2>1, <2>2
<1>6. ASSUME NEW l \in Listener, Rings!handle_alert(l) PROVE overlapped' \in BOOLEAN /\ (~overlapped' => Alone')
  BY <1>6, AloneHandle DEF AloneInv, Rings!handle_alert, Rings!history
<1>7. ASSUME NEW l \in Listener, Rings!Release(l) PROVE overlapped' \in BOOLEAN /\ (~overlapped' => Alone')
  BY <1>7, AloneRelease DEF AloneInv, Rings!Release, Rings!history
<1>8. ASSUME NEW l \in Listener, Rings!PassEnds(l) PROVE overlapped' \in BOOLEAN /\ (~overlapped' => Alone')
  <2>1. /\ listener_pc[l] = "pass" /\ listener_pc' = [listener_pc EXCEPT ![l] = "loop"] /\ l \in Rings!Open
        /\ UNCHANGED <<producer_pos, slot, consumer_pos, cons_pos, handled, overlapped>>
    BY <1>8 DEF Rings!PassEnds, Rings!ring, Rings!history, Rings!Open
  <2> QED
    BY <2>1, AloneMoves DEF AloneInv
<1>9. ASSUME NEW l \in Listener, Rings!LoopEnds(l) \/ Rings!PollFails(l) \/ Rings!Kill(l)
      PROVE  overlapped' \in BOOLEAN /\ (~overlapped' => Alone')
  <2>1. /\ listener_pc' = [listener_pc EXCEPT ![l] = "ended"] /\ l \in Rings!Open
        /\ UNCHANGED <<producer_pos, slot, consumer_pos, cons_pos, handled, overlapped>>
    BY <1>9 DEF Rings!LoopEnds, Rings!PollFails, Rings!Kill, Rings!ring, Rings!history, Rings!Open
  <2>2. listener_pc[l] # "idle"
    BY <2>1 DEF Rings!Open
  <2> QED
    BY <2>1, <2>2, AloneMoves DEF AloneInv
<1>10. ASSUME NEW l \in Listener, Rings!sigint_handler(l) PROVE overlapped' \in BOOLEAN /\ (~overlapped' => Alone')
  BY <1>10, AloneSame DEF AloneInv, Rings!sigint_handler, Rings!ring, Rings!history
<1> QED
  BY <1>1, <1>2, <1>3, <1>4, <1>5, <1>6, <1>7, <1>8, <1>9, <1>10 DEF Rings!Next, Rings!Firewall, Rings!Listening

\* Until two listeners have had the ring open at once, each prints every record
\* once and in order from where it starts, whatever kills the ones before it.
THEOREM AlonePrintsInOrder == Spec => []AloneInOrder
<1>1. Rings!RingAssumption
  BY SamplesAssumption
<1>2. Init => AloneInv
  BY <1>1, AloneInvInit DEF Init
<1>3. AloneInv /\ [Next]_vars => AloneInv'
  BY <1>1, AloneInvNext DEF Next, vars, rings, Rings!vars, Rings!ring, Rings!history
<1>4. AloneInv => AloneInOrder
  BY DEF AloneInv, Alone, PrintedInOrder, Consecutive, AloneInOrder, Rings!AloneInOrder
<1> QED
  BY <1>2, <1>3, <1>4, PTL DEF Spec
=============================================================================
