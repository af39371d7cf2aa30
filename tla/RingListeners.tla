--------------------------- MODULE RingListeners ---------------------------
(***************************************************************************)
(* rb_listen.c: a process that opens the alert ring of a running firewall  *)
(* by its map id and prints what it finds.  Any number of them may be      *)
(* started, next to the loader, which polls the same ring in the same way. *)
(*                                                                         *)
(* The ring is shared memory: one producer position, advanced in the       *)
(* kernel, and one consumer position, which every listener stores.  A      *)
(* listener reads it once per pass and then goes on from its own copy, so  *)
(* listeners overtake each other, hand a position back that another had    *)
(* passed, and read slots that have been filled again since.               *)
(*                                                                         *)
(* A listener begins a pass when epoll reports its ring.  The kernel says  *)
(* so to all who wait for it when the record submitted is the next one to  *)
(* be consumed, and only then; who has been told asks again until it finds *)
(* the positions equal (the descriptor is level-triggered).                *)
(*                                                                         *)
(* Positions count records, which all have the same length; the n-th       *)
(* record is number n - 1.  The ring and libbpf's pass over it are code    *)
(* outside the repository, modelled from how rb_listen.c uses them.        *)
(***************************************************************************)
EXTENDS Naturals, Sequences

CONSTANTS
    Listener, NoRecord,
    Size,           \* records the ring holds at once
    MaxRecords      \* bound: alerts raised

RingAssumption ==
    /\ Size \in Nat \ {0} /\ MaxRecords \in Nat /\ NoRecord \notin Nat

VARIABLES
    producer_pos, consumer_pos,
    slot,           \* [slots of the ring -> record number or NoRecord]
    filling,        \* records reserved and not yet submitted (the busy bit)
    pc,             \* [Listener -> where main is]
    cons_pos,       \* [Listener -> its copy of consumer_pos during a pass]
    ready,          \* [Listener -> whether its epoll has the ring on its ready list]
    handled,        \* [Listener -> records printed]
    running,        \* [Listener -> running]
    overlapped,     \* history: two listeners have had the ring open at once
    abandoned       \* history: one was killed in a pass beside another, and no pass has begun since

ring == <<producer_pos, slot, filling>>
history == <<overlapped, abandoned>>
vars == <<ring, consumer_pos, pc, cons_pos, ready, handled, running, history>>

\* The size in bytes is a power of two and a reservation must leave one byte
\* free, so one slot more than the records it holds is never in use.
Slot(pos) == pos % (Size + 1)

Init ==
    /\ producer_pos = 0 /\ consumer_pos = 0
    /\ slot = [i \in 0..Size |-> NoRecord] /\ filling = {}
    /\ pc = [l \in Listener |-> "idle"] /\ cons_pos = [l \in Listener |-> 0]
    /\ ready = [l \in Listener |-> FALSE]
    /\ handled = [l \in Listener |-> <<>>] /\ running = [l \in Listener |-> TRUE]
    /\ overlapped = FALSE /\ abandoned = FALSE

Open == {l \in Listener : pc[l] \in {"loop", "pass", "handled"}}
Available == consumer_pos # producer_pos

(***************************************************************************)
(* The firewall, on several CPUs: records are reserved in order and        *)
(* submitted in any.                                                       *)
(***************************************************************************)
RoomAlways == TRUE
Room == producer_pos < consumer_pos + Size

bpf_ringbuf_reserve ==
    /\ producer_pos < MaxRecords /\ Room
    /\ slot' = [slot EXCEPT ![Slot(producer_pos)] = producer_pos]
    /\ filling' = filling \cup {producer_pos} /\ producer_pos' = producer_pos + 1
    /\ UNCHANGED <<consumer_pos, pc, cons_pos, ready, handled, running, history>>

\* The two positions are compared by their slots.
Woken(r) == IF Slot(consumer_pos) = Slot(r) THEN Open ELSE {}

bpf_ringbuf_submit(r) ==
    /\ r \in filling /\ filling' = filling \ {r}
    /\ ready' = [l \in Listener |-> ready[l] \/ l \in Woken(r)]
    /\ UNCHANGED <<producer_pos, slot, consumer_pos, pc, cons_pos, handled, running, history>>

(***************************************************************************)
(* main of rb_listen.c.                                                    *)
(***************************************************************************)
\* bpf_map_get_fd_by_id and ring_buffer__new, either of which may fail.  The
\* latter gives the ring to epoll, which looks once whether there is anything.
ReadyLater == FALSE
ReadyAtOnce == Available

Start(l) ==
    /\ pc[l] = "idle"
    /\ \/ /\ pc' = [pc EXCEPT ![l] = "loop"] /\ ready' = [ready EXCEPT ![l] = ReadyAtOnce]
          /\ overlapped' = (overlapped \/ Open # {})
       \/ pc' = [pc EXCEPT ![l] = "ended"] /\ UNCHANGED <<ready, overlapped>>
    /\ UNCHANGED <<ring, consumer_pos, cons_pos, handled, running, abandoned>>

\* while (running) ring_buffer__poll(rb, 100): of a listener that is not ready the
\* call returns after 100 ms and is made again.
Poll(l) ==
    /\ pc[l] = "loop" /\ running[l] /\ ready[l]
    /\ IF Available
       THEN /\ pc' = [pc EXCEPT ![l] = "pass"] /\ cons_pos' = [cons_pos EXCEPT ![l] = consumer_pos]
            /\ abandoned' = FALSE /\ UNCHANGED ready
       ELSE ready' = [ready EXCEPT ![l] = FALSE] /\ UNCHANGED <<pc, cons_pos, abandoned>>
    /\ UNCHANGED <<ring, consumer_pos, handled, running, overlapped>>

\* handle_alert prints the record in the slot, whichever it is by now ...
handle_alert(l) ==
    /\ pc[l] = "pass" /\ cons_pos[l] < producer_pos /\ slot[Slot(cons_pos[l])] \notin filling
    /\ handled' = [handled EXCEPT ![l] = Append(@, slot[Slot(cons_pos[l])])]
    /\ pc' = [pc EXCEPT ![l] = "handled"]
    /\ UNCHANGED <<ring, consumer_pos, cons_pos, ready, running, history>>

\* ... and the listener's own position is stored, over whatever is there.
AllStored(l) == producer_pos
Kept(l) == consumer_pos
Stored(l) == cons_pos[l] + 1

Release(l) ==
    /\ pc[l] = "handled" /\ pc' = [pc EXCEPT ![l] = "pass"]
    /\ consumer_pos' = Stored(l) /\ cons_pos' = [cons_pos EXCEPT ![l] = @ + 1]
    /\ UNCHANGED <<ring, ready, handled, running, history>>

PassEnds(l) ==
    /\ pc[l] = "pass"
    /\ cons_pos[l] >= producer_pos \/ slot[Slot(cons_pos[l])] \in filling
    /\ pc' = [pc EXCEPT ![l] = "loop"]
    /\ UNCHANGED <<ring, consumer_pos, cons_pos, ready, handled, running, history>>

\* ring_buffer__free closes the ring's epoll.
LoopEnds(l) ==
    /\ pc[l] = "loop" /\ ~running[l] /\ pc' = [pc EXCEPT ![l] = "ended"]
    /\ ready' = [ready EXCEPT ![l] = FALSE]
    /\ UNCHANGED <<ring, consumer_pos, cons_pos, handled, running, history>>

\* Of any error, a signal's included, the loop ends, too.
PollFails(l) ==
    /\ pc[l] = "loop" /\ running[l] /\ pc' = [pc EXCEPT ![l] = "ended"]
    /\ ready' = [ready EXCEPT ![l] = FALSE]
    /\ UNCHANGED <<ring, consumer_pos, cons_pos, handled, running, history>>

\* SIGINT, once main has got as far as signal().  SIGTERM, and SIGINT before,
\* end the process wherever it is.
sigint_handler(l) ==
    /\ l \in Open /\ running[l] /\ running' = [running EXCEPT ![l] = FALSE]
    /\ UNCHANGED <<ring, consumer_pos, pc, cons_pos, ready, handled, history>>

Kill(l) ==
    /\ l \in Open /\ pc' = [pc EXCEPT ![l] = "ended"] /\ ready' = [ready EXCEPT ![l] = FALSE]
    /\ abandoned' = (abandoned \/ (pc[l] # "loop" /\ Open # {l}))
    /\ UNCHANGED <<ring, consumer_pos, cons_pos, handled, running, overlapped>>

Firewall == bpf_ringbuf_reserve \/ \E r \in filling : bpf_ringbuf_submit(r)
Listening(l) == Poll(l) \/ handle_alert(l) \/ Release(l) \/ PassEnds(l) \/ LoopEnds(l)

Next ==
    \/ Firewall
    \/ \E l \in Listener : Start(l) \/ Listening(l) \/ PollFails(l) \/ sigint_handler(l) \/ Kill(l)

Spec == Init /\ [][Next]_vars

\* A reserved record is submitted at the end of its packet, and listeners run.
Fairness ==
    /\ WF_vars(\E r \in filling : bpf_ringbuf_submit(r))
    /\ \A l \in Listener : WF_vars(Listening(l))

FairSpec == Spec /\ Fairness

(***************************************************************************)
(* Properties.                                                             *)
(***************************************************************************)
Printed(r) == \E l \in Listener : \E i \in DOMAIN handled[l] : handled[l][i] = r

\* However listeners come and go, are killed and overtake each other: a record
\* is passed, and its slot given away, only when some listener has printed it.
NoneLost ==
    \A r \in 0..producer_pos - 1 :
        Printed(r) \/ (consumer_pos <= r /\ slot[Slot(r)] = r)

\* A listener that never shared the ring prints every record once and in order
\* from where it starts.
AloneInOrder ==
    ~overlapped =>
        \A l \in Listener : \A i \in 1..Len(handled[l]) - 1 : handled[l][i + 1] = handled[l][i] + 1

\* A full ring has room again as long as anyone listens, also after one has handed
\* back a position that another had passed.  If it is killed in that pass, this holds
\* from the next pass on only: no submission tells the other one to begin it.
RoomAgain == ~Room ~> (Room \/ Open = {} \/ abandoned)
=============================================================================
