# TLA+ models of eBPF-NIDS

eBPF-NIDS detects SYN floods and port scans in an XDP program, and shows them
in a browser.  These modules model the parts of it where several CPUs, processes,
threads and tools work on shared state: the XDP program and its earlier version, the
loader, the socket between the loader and the Flask backend, the flow statistics,
the backend's database with the page that shows it, and the programs of
`examples/c` the project grew from.  TLC checks the models on small instances,
TLAPS proves the most important properties for every value of the constants.

Paths below are relative to the repository.  `bpf.c` stands for
`project_submit/ebpf_control/src/xdp_blacklist.bpf.c`, `loader.c` for
`project_submit/ebpf_control/src/loader.c`, `app.py` for
`project_submit/backend_flask/app.py`, `early.bpf.c` for
`examples/c/ebpf/xdp_blacklist.bpf.c`.

    tlc -workers 2 -config XdpUp.cfg MCXdpSerial       # one run (section 3 names its module)
    tlapm Loader_proofs.tla                            # the proofs of one module

## 1. The system

| Component | State | Operations | Talks to |
|---|---|---|---|
| XDP data plane, `bpf.c` | maps `blacklist`, `flow_stats`, `syn_counter` (per CPU), `port_scan_map`; ring `alert_rb` | one handler per packet, on every CPU: blacklist, `check_syn_flood`, `check_port_scan`, `update_flow_stats` | the loader through the ring and the maps |
| Loader, `loader.c` | `cfg`, `exiting`, `reload_requested`, `server_fd`, `client_fds`, `ifindex`, `xdp_attached`, `ip_cache` | startup, main loop (accept, reload, poll, report), signals, `cleanup` | interfaces, socket file, configuration file, backends |
| Alert link, `loader.c` and `app.py` | slots, backlog, socket buffers, the client's buffer | accept, broadcast, close; connect, receive, handle | data plane above, database below |
| Flow reporting, `loader.c` | `ip_cache`, `last_stats_ts`, the walk's key | `read_and_report_stats`, `report_flow_rate` | `flow_stats`, written by the data plane, emptied by `clean_maps` |
| Map tools | none | `clean_maps` deletes all entries every hour; `cleanup_maps.py` only prints; `blacklist_ctl.py` loads a BPF program of its own and so edits a map of its own, not the loader's | the maps |
| Flask backend, `app.py` | `alerts`, `flow_rates` in SQLite | socket thread, a thread per request, push by Socket.IO | loader, page, clients of the API |
| Classifier, `inference.py`, `my_detect.py` | a trained model | `predict` | the backend |
| Dashboard, `dashboard.html` | table, counters, charts | refresh every 3 s from five requests (`/api/stats` four times, `/api/alerts`), a button that clears the table | the backend |
| Simulating backend, `backend/app.py` | bounded lists under a lock | a generator thread, request handlers | the dashboard |
| Scripts, `start.sh`, `stop.sh` | none | start and signal the processes, detach `lo` | loader, backend |
| Earlier data plane, `early.bpf.c` | the maps above | one handler per packet | the ring |
| XDP tools, `xdp_blacklist.c`, `xdp_parse_ip.c`, `blacklist_ctl.py`, `test_ringbuf.c` | the hook of an interface, a map per loaded program | load, attach, wait, detach; add and remove addresses | each other, through the hook |
| Ring listeners, `rb_listen.c` | a ring's positions, in shared memory | poll, print, hand back | the data plane, each other |
| Process tracers, `bootstrap*.c` | `exec_start`, one ring or a buffer per CPU | two kernel handlers, a loop that prints | the processes of the system |
| `tc.c`, `profile.c` | a qdisc with its filter; perf events and links per CPU | set up, wait, clean up | each other, through the hook |
| `examples/` otherwise, `tools/`, skeletons | - | vendored samples, build rules | - |

What is hard here:

* *Concurrency in the data plane.*  The handler runs on several CPUs at once and
  works on map elements with plain loads and stores.  `bpf_map_update_elem` does
  not write in place: it swaps the element for a spare one, so a pointer looked
  up earlier may refer to an element that serves another source by then.
* *Processes that overlap.*  Nothing keeps two loaders apart; the socket file
  and the hook of an interface are named, not owned, and `pkill` does not wait.
* *Signals* arrive between any two steps of the main loop, or before `signal()`.
* *Failure.*  Every step of startup may fail; clients die in their slots and are
  noticed by a failing `send` only; an exception in the backend drops what it
  had received; the ring, the maps, the slots and the socket buffers have limits.
* *Signals and threads in the tools.*  The user-space programs share an interface, a
  qdisc or a ring and know nothing of each other: each undoes what it did by the
  *name* of the place, not by what it put there.
* *Requests that overlap.*  The backend serves every request in a thread of its own,
  statement by statement; the page sends the next refresh without waiting for the
  last one.
* *Walking a map that changes*: packets add keys, `clean_maps` deletes them, the
  walk's own key included.

What makes each part correct: counters count and detectors report each event
once (data plane); a serving loader has the hook and can be reached, and one that
ended left nothing behind (loader); alerts reach the database in order and at
most once, and are lost for known reasons only (link); rates are covered by
packets, passes are complete and end (flow reporting); an alert is pushed once and
after its row, statistics agree with each other (backend); the table ends up
showing the newest rows (dashboard); a tool that ended left nothing behind, and a
listener missed nothing (examples).

## 2. The modules

### BpfHash, XdpFirewall - `bpf.c`

`BpfHash` is the kernel's preallocated hash map as the program uses it: `Lookup`
returns an element, `Update` inserts one from the free list or *replaces* the
key's element by the CPU's spare, `Store` writes through a pointer, `Delete`
(`clean_maps.c:21`) gives the element back to the free list while pointers to it live
on.

`XdpFirewall` runs the handler on every CPU of `CPU`.  `Enter` covers all that
needs no shared write: the bounds checks, the blacklist, the choice of the
branches.  The rest is one action for each access to shared memory: `ScanLookup`,
`ScanCreate`, `ScanRelookup`, `ScanLoad`/`ScanStore` (the two halves of `|=`),
`ScanCount` and `ScanClear` (one round of their loops each), `ScanAlert`,
`FlowLookup`, `FlowCreate`, and a load and a store for each of the two counters.
`CheckSynFlood` is one action, as its counter belongs to its CPU.  Insertion into
a full map and output to a full ring are refused and ignored, as in the code.  A
bitmap is a set of ports.  The environment writes the blacklist (`SetBlacklist`),
empties the ring (`Consume`) and deletes entries of `flow_stats` and `port_scan_map`,
the maps `clean_maps` is for (`CleanFlow`, `CleanScan`: at any step of any handler, in
any order; the order of its walk is in `FlowReport`).

The histories `synSeen`, `synAlerts`, `probes`, `probed`, `fresh`, `scanAlerts`
and `arrived` record what happened; no guard reads them.

### Loader - `loader.c`, life cycle

Several processes share the machine (`file`, `sock`, `hook`).  One action per
step of `main`: `LoadConfig`, `Daemonize`, `OpenLog`, `UnlinkOld`, `Bind`,
`Listen`, `LoadBpf`, `Attach`, `SetupRing`; the loop `CheckExit`, `CheckReload`,
`Reread`, `Poll`; `cleanup` as `Detach`, `Close`, `Unlink`.  The steps that touch
the machine are separate because another process may act between them.  A step
whose system call may fail has a disjunct for it, which leads to where the code's
`goto` or `return` leads; where the code goes on after a failure - detaching in
`cleanup` logs it (loader.c:512-513), `unlink` ignores it (`Unlinked`) - the history
`failed` remembers it.  A configuration is a record; a configuration file is
missing, bad, or sets some of the keys.  Signals (`Terminate`, `Hangup`, `Kill`)
arrive at any step, any number of times.  `Overlap` and `Tools` say how the
operator behaves: one loader after the other, the READMEs' `pkill loader; rm -f
socket; ./loader` (*after signal*), or anything at any time; with `rm` and
`stop.sh` (`StopSignal`, then `StopDetach`) or not.

### AlertDelivery, AlertLink - `loader.c` 302-405, `app.py` 244-409

`AlertLink` has the slots, the backlog (an `accept` that fails leaves it as it is,
`AcceptFails`), the broadcast (one `Send` per slot) and
the backends' threads.  Socket buffers hold whole lines: a line is shorter than
512 bytes, and AF_UNIX takes such a write whole or refuses it with `EAGAIN`.
`Recv` takes any number of the lines that are there, as what `recv` cuts is
joined in the buffer.  `HandleFails` is an exception before or after the commit,
`Crash` the end of the process; both drop what was received, as the code does.

`AlertDelivery` is what the path promises to a database: alerts after they were
raised, in order, at most once.  `AlertLink` implements it (`InOrderOnce`, with
the mapping by name: `raised`, `stored`).  Alerts that come by `POST /api/alert`
are not part of it.

### FlowReport - `loader.c` 407-498, `examples/c/ebpf/clean_maps.c`

The main loop's clock (`now` is read at the top of the loop and used after the
poll), the walk (`Begin`, `Lookup`, `Advance`), the rates, a reload of the
interval in between, `clean_map` (`CleanStart`, `CleanNext`, `CleanDelete`) and the data
plane on several CPUs: `flow_stats` is the map of `BpfHash`, and a packet is `Arrive` (the
lookup), then `Create`, or `LoadCount` and `StoreCount` with anything between them.  So
totals fall, by lost updates or deletions, and rise again, by a store through a pointer
into an element that was deleted and given to another source, or to the same one.
`LookupElem` is the loader's `bpf_map_lookup_elem` (loader.c:488), which copies.  Bytes
go the way of packets and are left out.

### XdpPackets, XdpSerial - `early.bpf.c`, and how `bpf.c` implements it

`XdpPackets` is the earlier firewall read as a sequential program: a packet is one step on
maps that are plain partial functions.  `XdpSerial` states that on one CPU and while
`clean_maps` is not at work (`NoCleaning`) `XdpFirewall`, with its pointers into elements,
its loops over bitmap words and its separate loads and stores, is a refinement of it:
`PacketsAreAtomic`.  The maps of the abstract firewall are those the CPU left behind when
it was last idle, kept in the history `settled`.  Both versions keep `syn_counter` per
CPU, which on one CPU is a plain map.  A packet looks at the blacklist once and first;
what the operator writes before its handler is through is, for the atomic handler, part of
the same step and counts for later packets (`Handle`).

### AlertStore, Dashboard, Console - `app.py`, `dashboard.html`

`AlertStore` has the `alerts` table and the threads that use it: `Insert`,
`Commit`, `Emit` for `save_alert`, whoever calls it; `get_alerts`; `stats` and
`CountTypes`; `Delete` and `CommitDelete` for `clear_all`.  What SQLite promises is
modelled: a statement sees what is committed, `INSERT` and `DELETE` need the one write
lock, an exception rolls back and frees it.  Deleting rows does not give their ids
back (`AUTOINCREMENT`): `last_id`.

`Dashboard` has the page: `refreshAll` asks for the statistics (the
four requests of which are one here, as what they draw is left out) and for the
alerts, `Arrives` and
`Rejected` are `Promise.all`, `renderAlerts` draws the first rows, `clearAlerts`
empties the table of the page and nothing else.  `Console` puts them together: an
answer is read on the server (`Serve`) and arrives later (`Deliver`), so refreshes
overtake each other.

### XdpSamples, RingListeners, ProcessTrace, TcIngress, Profiler, Samples - `examples/c`

* `XdpSamples`: `xdp_blacklist.c`, `xdp_parse_ip.c` (attach, wait, detach), `blacklist_ctl.py`
  (`add`, `del`, `list`) and `test_ringbuf.c` on one interface.  A loaded program has maps of
  its own; attaching replaces and detaching removes whatever is there, or fails, which
  `bpf_xdp_detach` here ignores.  The script stores an address in the byte order of the host,
  the filter looks it up in that of the network: `ip_to_int`.
* `RingListeners`: `rb_listen.c`, any number of times on one ring.  Producer and
  consumer position are shared; a listener reads the latter once per pass (`Poll`) and
  goes on from its copy (`handle_alert`, `Release`).  It begins a pass when epoll says so:
  a record that is submitted is told to all who have the ring open if it is the next one
  to be consumed (`Woken`), and to nobody otherwise; who opens the ring finds what is there
  (`ReadyAtOnce`), and who has been told polls until it finds nothing.
* `ProcessTrace`: both kernel handlers and both main programs of `bootstrap` and
  `bootstrap_legacy`.  Processes are forked, exec, end with their threads in any order
  and give their pid to others; the clock ticks; a handler is one action as it cannot be
  interrupted by another event of its process.
* `TcIngress`: `tc.c`; several processes on one qdisc, which an operator adds and removes.
  Every call may fail; one of `bpf_tc_detach` skips to the cleanup, which flushes the hook
  if this process has created it.
* `Profiler`: `profile.c`; the loop over the CPUs while CPUs go on and off line.

`Samples` lets TLC check the five in one run: a session is one of them.  They share no
state.

`Totals` defines the sum in which `FlowNeverInvented` counts packets.  `MC*` modules hold
the values of constants for TLC, `*_proofs` the theorems.

## 3. The runs

Passing runs:

| Run | Shows | Bounds and why they do |
|---|---|---|
| XdpUp (MCXdpSerial) | `PacketsAreAtomic` (refinement of `XdpPackets`), `FlowExact`, `ScanComplete`, `NoDuplicateScanAlert`, `ScanAlertJustified`, `PacketsFinish` on one CPU | two sources, maps of one entry (so the map is full), 2 words of 2 bits, thresholds 1, five packets of every kind: several alerts and a clearing loop of two words; one edit of the blacklist, at any step of the handler |
| XdpSmp (MCXdpFirewall) | `TypeOK`, `SynAccounting`, `FlowNeverInvented`, `BlockedStaysSilent` on two CPUs | SYNs of two sources, each of which goes to every map and, with a scan threshold of 0, through the clearing loop, maps of one entry (so one of them meets a full map, and a deleted element goes to the other), a ring of one record (full after one alert), one blacklist edit and one deletion in flight, three packets: one that holds a pointer, one that takes the element over, one that is blocked |
| LoaderLife (MCLoader) | `TypeOK`, `Reachable`, `NoHotSwitch`, `HangupRereads`, `TerminationEnds`: loaders one after the other, as daemons with an absolute path | two processes, two interfaces and paths, a plain file, one that would switch everything and an illegal one, one edit (so a second SIGHUP can meet a reread under way); faults, signals, SIGKILL and `stop.sh` without a bound |
| LoaderOverlap (MCLoader) | `NoOrphans`, `HookKept`, `OnlyOwnerDetaches`: loaders overlap | two processes, all five kinds of files, one edit; faults - in `cleanup` too - and signals without a bound, `rm` at any time |
| Link (MCAlertLink) | `TypeOK`, `Accounted`, `InOrderOnce` (refinement of `AlertDelivery`), `BackendsAttach` | a backend and two slots, so that its dead connection sits in front of its new one, and three connections, so that dead ones take all slots a living one needs; two faults of the backend or of `accept`, one stop of the loader; two alerts, so order shows |
| Flow (MCFlowReport) | `TypeOK`, `PassComplete`, `PassEnds` on two CPUs, `NeverOverstated` while one of them takes all packets | two sources and two entries, so that the key under the walk may go while one behind it stays, and an element changes its source under a pointer; three packets, so that a total falls below an earlier report or an old one comes back; a round of `clean_maps`, two passes, a reload |
| Console (MCConsole) | `PushedOnceStored`, `StatsAddUp`, `PageCatchesUp` | the socket thread and a client of the API, two refreshes that overlap; two alerts (the second one's id meets the first one's deletion), a deletion, an exception, a click; answers and table of one row, so that a new alert changes it |
| Samples (MCSamples) | `InterfaceRestored`; `NoneLost`, `AloneInOrder`, `RoomAgain`; `DurationTrue`, `ExitOnce`, `NothingLeftBehind`; `FilterRemoved`; `SampledWhole` | three tools on an interface (one replaces, one detaches, one looks on); two listeners on a ring of two records with four alerts, so that slots are filled again; two pids and three images, a map of one entry; three `tc` processes; three CPUs, so that the mask may have a hole |

Runs that end in a counterexample; each states what a document or a comment of the
repository says:

| Run | The claim | What happens |
|---|---|---|
| XdpScanDuplicate | "reset the bitmap, to prevent duplicate alerts", examples/c/ebpf/xdp_blacklist.bpf.c:143 | a second CPU counts before the first has cleared (bpf.c:131) |
| LoaderDaemonReload | SIGHUP reload, loader.c:3 | a daemon runs in `/` and does not find its relative configuration path, which is no error (loader.c:171) |
| SamplesBlocking | add addresses with the Python script to test the blocking, xdp_blacklist.c:48; "added to the blacklist", blacklist_ctl.py:36 | the script loads an instance of its own (blacklist_ctl.py:24) and adds the address to a table that is freed when it ends; the filter on the interface passes it |
| FlowTooFast | pps is packets per second, project_submit/README.md:481-482 | the difference is divided by the configured interval, not by the time that passed (loader.c:453) |

Deadlock is checked in the link, flow and console runs and in LoaderLife, where
`stop.sh` may be called for ever.  It is not in the others: once the bounded number of packets
is handled, or all loaders have ended and the operator's bounds are used up,
nothing is left to do.

**Fairness.**  *XdpFirewall*: a CPU that has started on a packet keeps running
(softirq context, no blocking call in the program).  *Loader*: the scheduler runs
every process, and `ring_buffer__poll` returns (its timeout is 200 ms).
*FlowReport*: loader and `clean_maps` are scheduled; packets are bounded, and so
are rounds of cleaning: without that, deletions could send a walk back to the
first key for ever.  *AlertLink*: loader and backends are scheduled, and the report interval
is over again and again with traffic there (strong fairness of `Report`).
`accept_clients` loops for as long as connections wait, and a backend that was
turned away reconnects at once, so it is assumed that the loader's `accept` is the
faster one now and then (strong fairness of `AcceptDone`); without it the loop
need not end.  *Console*: threads run, a request that was sent is answered or fails, what has
come in is drawn, and `setInterval` goes on refreshing (weak fairness of each); saving,
deleting and failing are bounded, as "once nothing changes any more" requires.
*RingListeners*: a listener is scheduled - it polls when epoll has something for it, and
only then, goes on with a pass and leaves the loop once it has been told to (`LoopEnds`);
that polling fails (`PollFails`) is not asked for -, and a record that was reserved is
submitted (the program between the two is straight-line).

Observations: behaviours of the models that the runs above do not state.  Those about
`FlowExact`, `ScanComplete` and `ScanAlertJustified` on several CPUs show up when the
property is checked with more CPUs and maps of two entries.

* `FlowExact` does not hold on two CPUs: they increment one counter at once, or both
  insert a new source, and packets are lost (bpf.c:79, 83).
* `ScanComplete` does not hold on two CPUs: the two halves of `|=` interleave and a
  port is lost (bpf.c:124).
* `NeverOverstated` needs its premise: on two CPUs, one loads the total of a source
  (bpf.c:79), `clean_maps` deletes the entry, the other CPU creates it again in the same
  element and is reported, the first stores the old total plus one, and the old packets are
  reported a second time (without the premise TLC finds it with one source and six packets).
* `ScanAlertJustified` does not hold on three CPUs: two of
  them create the entry of one source, the replaced element becomes a spare, is
  given to another source and still written through the old pointer (bpf.c:115).
* With `clean_maps` at work `FlowExact` and `ScanComplete` do not hold on one CPU either:
  what was counted is gone, and a scan whose bitmap is deleted starts over.
* The SYN counter has no window of time: SYNs that come slowly add up to an alert,
  although examples/c/ebpf/common.h:29 gives the threshold in packets per second.
* `ip_cache` keeps every source it ever saw (loader.c:419); `clean_maps` does not
  reach it.
* In the restart of README_RUN.md:182-190 (`pkill loader`, `rm -f`, `./loader`) the old
  loader's cleanup unlinks the socket file of the new one (loader.c:532), which then
  runs and cannot be reached; `Reachable` is claimed for loaders one after the other.
* In the same restart the new loader may attach before the old
  one has detached; it is refused and exits.  Likewise `stop.sh` reports that all
  services have stopped when the loader has only been signalled.
* A source whose SYNs arrive on n CPUs may send n times `SYN_THRESHOLD` of them
  without an alert; `SynAccounting` says how many at most.
* The ring refuses a record when it is full, the counter or bitmap is reset all
  the same: that alert is lost.
* TCP packets with a cut header pass without being counted.
* A loader that was killed leaves its program on the interface, and the next one
  is refused until somebody detaches it; hence `Reachable` speaks of loaders that
  serve, and `NoOrphans` of loaders whose `main` returned.
* Alerts are lost when no backend is connected, or its buffer is full.
* A backend pushes an alert whose row a client has just deleted (app.py:282); the
  page's button deletes nothing on the server, so the next refresh brings the
  rows back.
* The page looks at no status: an error of `/api/alerts` is drawn as an empty table
  until the next refresh.
* The page opens a raw WebSocket at `/ws/` (dashboard.html:1116), which neither backend
  serves, while README_BACKEND.md:637 has it receive `new_alarm`: the code that adds a
  row, counts up and shows toasts is never run.
* The container's backend returns alerts oldest first (backend/app.py:154), so the page
  shows the oldest ten of the last twenty.
* The Python script would block another address even if it edited the filter's table: it
  stores the number in the byte order of the host (blacklist_ctl.py:9, 35).
* `xdp_blacklist` reports that its program is unloaded, and returns 0, also when detaching
  failed (xdp_blacklist.c:58-59); the loader logs such a failure and ends all the same.
* A `tc` process whose detachment fails leaves its filter if it did not create the hook
  (tc.c:75-82).
* `test_ringbuf` attaches no XDP program: the skeleton's attach needs an interface for
  that, which `set_ifindex` (test_ringbuf.c:44) does not give it.
* SIGINT between attaching and `signal()` leaves the program of `xdp_blacklist` on the
  interface, and the filter of `tc`; hence the two properties speak of processes that
  were not killed.
* A `tc` process that created the hook flushes, in its cleanup, another one's filter.
* Two listeners on one ring may print a record twice, or, from a stale copy of the
  position, one that has been overwritten by a newer one; none is lost (`NoneLost`).
* A listener hands back a position another had passed and is killed before it goes on: the
  other one, which had found the positions equal, is not told, as the kernel notifies only
  when the consumer has reached the new record.  If the ring is full by that stale position, it
  stays so - for the loader, too - until somebody opens it anew.  `RoomAgain` excepts this
  (`abandoned`); without the exception TLC finds it.
* With a perf buffer per CPU, `bootstrap_legacy` may print an exit before the exec.

## 4. What is proved

For all values of the constants, with the `ASSUME`s of the modules (`NoElem` is no
element, bounds are naturals, packets and files are well formed, ranks differ):

* `Totals_proofs`: lemmas about sums over finite sets (one summand changes, two
  functions compared).  Induction is over sets instead of predicates: a set of
  naturals that is not all of them has a least number missing (`LeastNatural`).
* `XdpFirewall_proofs`: `TypeCorrect`, by induction with one lemma per action.
  `SynAccountingCorrect`: the accounting is inductive on top of the types; it
  speaks of one CPU and source at a time, so only `CheckSynFlood` can disturb it.
  `BlockIsEffective`: a step works for the source of its CPU's packet, a blocked
  source without packets in flight is nobody's source, and `Enter` keeps it so.  What
  others do to its entries rests on `Apart`: no element belongs to two keys, nor to a key
  and to a CPU's spares, so an insertion or a replacement for another source does not reach
  them, and a store only through a pointer to the very element.
  `FlowsAreNotInvented` (`FlowNeverInvented`), on any number of CPUs (the run has two,
  where a pointer becomes stale by a deletion or a replacement): a sum over the map's
  entries is not inductive, as a store through a stale pointer raises the count of another
  source's entry. The invariant `FlowInv` gives each *element* a credit that bounds what
  is in it and what any CPU is about to store there, while all credits together, and one
  for each CPU still on its way to a store, are paid by packets that arrived. A store
  moves the CPU's own unit to the element, whoever it serves.
* `XdpSerial_proofs`, the data plane on one CPU.  The maps are read as partial
  functions (`Value`), and a loop over a bitmap by the words it has passed
  (`LowWords`), which need no induction: each round adds or removes one word.
  `ScanInv` says that what the CPU holds agrees with the map (`ScanRegisters`), that the
  bitmap of a source is what it probed since its last alert and above the threshold only
  between the store and the alert (`ScanRemembered`), and that its probes pay
  for its alerts and its bitmap (`AlertsPaid`): hence `ScansAreReported`,
  `AlertsAreNotRepeated`, `AlertsAreJustified`.  `CountInv` does the same for
  `flow_stats`: what arrived is in the entry or due to be stored (`FlowsAreExact`).
  `HandlesPacketsAtomically` (`PacketsAreAtomic`): `Matches` says, for each step of
  the handler, how far the maps are on the way from those the CPU left when it was last
  idle to the result of the atomic handler; the last step of a packet is then the step
  of `XdpPackets`, all others are stutters.  Two facts make it work: a map has room
  exactly when its partial function has (`RoomLeft`), and what the CPU holds in its
  registers is what the map has (`ScanInv` and `CountInv`).
* `Loader_proofs`: `TypeCorrect`.  `NothingLeftBehind` (`NoOrphans`) is not
  inductive: nothing in it says why `cleanup` finds what must be undone.  The
  invariant `Owned` adds that a process holds a socket or a program at certain
  steps only (`Holding`), and that each program and each file on the machine
  belongs to a killed process, to one whose call to remove it failed, or to one that
  remembers it under the interface, mode and path its configuration still has
  (`HookOwned`, `SockOwned`).
  `NeverHotSwitched` is why "still has" is true.  `HookIsKept` and
  `DetachedByOwner` add `HookHeld`, the converse: who attached has the hook.  They
  assume that `stop.sh` is not used, as it detaches whatever `lo` has.
  `LoaderIsReachable` (`Reachable`) assumes `Overlap = "after exit"`, as the run does
  (with overlaps it is false, see the observations), and adds `Alone`: at most one
  process is past its start and not at its end, and the socket file under its path is its
  own once it is bound (`Serves`).
* `FlowReport_proofs`: `ReportsAreCovered` (`NeverOverstated`), on any number of CPUs of
  which one takes all packets (so the others are never on their way, `Known`), by
  `Covered`: what the *next* report may add and the packet on its way are paid by packets
  that arrived, too (`Tally`), and the element the CPU points to is its source's or
  nobody's, with the count it has loaded (`Pointers`): a deletion takes it out of the map,
  and nobody else puts it back.  `WalksAreComplete` (`PassComplete`) by `Walked`: what was
  there all the time and ranks before the walk's key is done; it rests on
  `NextKeyIsLeast`.  `TypesAreKept` (`TypeOK`), on any number of CPUs, needs that counters
  stay within the bound, stale stores or not.  `Paid`: no element and no loaded value,
  together with the CPUs still on their way, exceeds the packets that arrived; a store
  writes one more and takes one CPU off the way.
* `AlertLink_proofs`: `TypeCorrect` by `TypeInv`, which adds `Distinct`: a connection is
  in one slot or once in the backlog, and belongs to one backend; without it `Closed`
  could free a slot that another one shares.  `LinkImplementsDelivery`
  (`InOrderOnce`): `Ordered` says that the lines on their way to a backend (the line being
  broadcast, its socket's queue, its buffer) ascend and are newer than the rows of
  its database, so what it stores next is new; every step is then a step or a
  stutter of `AlertDelivery`.  `AlertsAccounted` (`Accounted`): `Account` follows an alert
  from slot to buffer, in whichever of these places it is.  Lemmas on ascending
  sequences, cut in two or appended to, come first.
* `Console_proofs`: one invariant for both.  `Locked`: the thread in a transaction
  holds the write lock, so the id it chose is still the next when it commits
  (`Numbered`), and an id that is committed but not pushed is one thread's: hence
  `PushesAreStored`.  `Counted`: the first count is not above the number of rows as
  long as nobody deletes: hence `StatisticsAddUp`.
* `Samples_proofs`, one part per program of `Samples`; the other programs change none of
  its variables.  XDP tools: `InterfaceGivenBack`, by which process a program on the
  hook can belong to.
  Ring: `NoRecordLost`, by `Reached`: all before a listener's own position was printed
  by somebody, also after it was overtaken; with a lemma about the remainder,
  that positions less than the ring apart have different slots.  `AlonePrintsInOrder`
  (`AloneInOrder`): as long as no two listeners have overlapped, the consumer position is
  the one's own, what lies just before it is what it printed last, and the slots ahead hold
  their records (`AloneInv`).  tc: `HookIsClean`, by who can own the filter, and with
  which error behind it.
  Profiler: `EveryCpuSampled`, the links are those of the mask's CPUs which the loop has
  passed (`PerfInv`).  Process tracers: `EntriesAreForgotten` is an action property;
  `DurationsAreTrue` and `ExitsAreReportedOnce` rest on `TraceInv`: an entry of a process
  that has executed is of its last execution (`EntriesTrue`), images are distinct
  (`ImagesDistinct`), and of all events, printed or in a buffer, durations are true and
  exits are of leaders that are gone, each once (`LogTrue`).  The log has a line
  for what is printed and one for each buffer, so that printing moves an event and
  submitting adds one.

Hypotheses of theorems beyond the modules' assumptions are `Overlap = "after exit"` and
`"stop.sh" \notin Tools`, as said above; each is the configuration of the run that checks
the property.  (The module `XdpSerial` itself assumes
one CPU and `NoCleaning`.)

Every safety invariant and every action property a passing run checks is stated by a
theorem.  Model-checked only: the liveness properties (`PacketsFinish`,
`HangupRereads`, `TerminationEnds`, `BackendsAttach`, `PassEnds`, `PageCatchesUp`,
`RoomAgain`), as fairness rests on ENABLED, which is out of the prover's reach.

## 5. What is not modelled

* print_usage, log files beyond whether they open, and the wording of messages.
* `clean_maps` on other maps than `flow_stats` and `port_scan_map`: it takes any map id.
* In `flow_stats`, the order of keys within a bucket is fixed (`Rank`).  In the
  kernel an entry that is inserted or replaced goes to the head of its bucket.  For
  a deleted and re-created entry that makes no difference to `PassComplete`; an
  entry that a second CPU replaces while it is being created may be moved behind
  the walk and be missed once.
* `bpf_map_update_elem` failing for lack of memory or a busy bucket.
* Driver, hardware and generic mode are told apart by name; a second mode on an
  interface that has a program is refused.
* In the backend: the `flow_rates` table and `save_flow_rate` (rows are added and
  counted like alerts, and nothing relates the two), the log file, the index page, and
  the classifier, a pure function whose result is a column.
* In the dashboard: cards, charts and map, which are layout, and the WebSocket client,
  its toasts and its reconnecting, which no backend answers.
* The simulating backend: random data in two lists, each handler one critical section.
* `cleanup_maps.py`, which prints only, and `examples/c/clean_maps.c`, which is the
  loop of `clean_maps` in `FlowReport` for one map.  `xdp_count.bpf.c` has no program
  that loads it.
* In the samples: what is printed about packets, stacks and processes, verbose
  output, and symbolizing.
* The clock in the data plane: it does not look at one.
* The other vendored examples (`minimal`, `sockfilter`, `task_iter`, `usdt`, Rust):
  a handler and a loop each, without state of their own, which the system does not use.
  Skeletons, object files, build rules.

## 6. Plan

Done: all components of section 1 but those of section 5.

1. `FlowReport` with buckets, where replacing an entry moves it; `PassComplete` then
   needs that no entry is replaced while it is created.
2. A clock in `XdpFirewall`, for a rate of SYNs.
3. On several CPUs: a bound on what `flow_stats` loses, and on how many alerts one
   scan can cause, as theorems.
