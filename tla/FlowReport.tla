------------------------------ MODULE FlowReport ------------------------------
(***************************************************************************)
(* The flow statistics of the loader (loader.c, read_and_report_stats and  *)
(* report_flow_rate) while the data plane keeps counting and the tool      *)
(* clean_maps (examples/c/ebpf/clean_maps.c) deletes entries: the loader   *)
(* walks the map key by key, remembers the last totals of every source and *)
(* reports rates.  The map is the hash of the module BpfHash, whose        *)
(* elements are given back by a deletion while a CPU may still hold a      *)
(* pointer to them.  Byte counts are handled like packet counts and left   *)
(* out.                                                                    *)
(***************************************************************************)
EXTENDS BpfHash, Integers

CONSTANTS
    Rank,           \* [IP -> Nat]: the order of the sources in the map's buckets
    NoKey,
    Intervals,      \* values stats_interval_sec is set to
    W,              \* bound: __u64 counters are numbers modulo W
    MaxPackets,     \* bound: packets of all sources
    MaxTime,        \* bound: seconds the clock runs
    MaxCleanings,   \* bound: rounds of clean_maps
    MaxReloads      \* bound: changes of the interval

ASSUME ReportAssumption ==
    /\ NoKey \notin IP
    /\ Rank \in [IP -> Nat] /\ \A x, y \in IP : Rank[x] = Rank[y] => x = y
    /\ Intervals \subseteq 1..3600 /\ Intervals # {}
    /\ MaxPackets \in Nat /\ MaxTime \in Nat
    /\ MaxCleanings \in Nat /\ MaxReloads \in Nat
    /\ W \in Nat /\ W > MaxPackets

\* The clock counts from 1970: it is past any interval when the loader starts.
Epoch == 3600

VARIABLES
    flow,       \* flow_stats: the pkt_count of every element
    cpu,        \* per CPU: its step in update_flow_stats, and src, ptr and a register
    clock,
    stats_interval_sec,
    lpc,        \* the loader: "top" of the loop, "due", "lookup", "next"
    now, last_stats_ts,
    key,        \* where the walk is
    cache,      \* ip_cache: packets at the last report, -1 without an entry
    pps,        \* the rate in the last flow_rate line of a source
    cpc, ckey,  \* clean_map: "idle", "next", "delete", and its key
    cleanings, reloads

\* Histories: packets that arrived, of all sources and of each, the CPUs they came
\* to, the sum of the differences reported, when a source was reported last, and
\* for the walk that is on the sources there since it began and those reported.
VARIABLES received, arrived, served, summed, reportedAt, whole, done

plane == <<flow, cpu, received, arrived, served>>
loader == <<lpc, now, last_stats_ts, key>>
reports == <<cache, pps, summed, reportedAt>>
cleaner == <<cpc, ckey, cleanings>>
vars == <<plane, clock, stats_interval_sec, loader, reports, cleaner, reloads, whole, done>>

\* A CPU that is not in update_flow_stats.
Elsewhere == [step |-> "idle", src |-> NoKey, ptr |-> NoElem, num |-> 0]

Init ==
    /\ flow = EmptyHash(0) /\ cpu = [c \in CPU |-> Elsewhere] /\ received = 0
    /\ clock = Epoch
    /\ stats_interval_sec \in Intervals
    /\ lpc = "top" /\ now = 0 /\ last_stats_ts = 0 /\ key = NoKey
    /\ cache = [ip \in IP |-> -1] /\ pps = [ip \in IP |-> 0]
    /\ cpc = "idle" /\ ckey = NoKey /\ cleanings = 0 /\ reloads = 0
    /\ arrived = [ip \in IP |-> 0] /\ served = {} /\ summed = [ip \in IP |-> 0]
    /\ reportedAt = [ip \in IP |-> 0]
    /\ whole = {} /\ done = {}

Present == {ip \in IP : Lookup(flow, ip) # NoElem}
Count(ip) == IF ip \in Present THEN flow.val[Lookup(flow, ip)] ELSE 0

\* bpf_map_get_next_key: the key after k, the first one if k is not in the map
\* (or NULL), none after the last.
After(k) == IF k \in Present THEN {ip \in Present : Rank[ip] > Rank[k]} ELSE Present

NextKey(k) ==
    IF After(k) = {} THEN NoKey
    ELSE CHOOSE ip \in After(k) : \A x \in After(k) : Rank[ip] <= Rank[x]

(***************************************************************************)
(* The data plane, update_flow_stats: a CPU looks the source up, creates   *)
(* its entry or increments the one it was given a pointer to, by a load    *)
(* and a store with steps of others between them.                          *)
(***************************************************************************)
PlaneOnly == UNCHANGED <<clock, stats_interval_sec, loader, reports, cleaner, reloads, whole, done>>

Arrive(c, ip) ==
    /\ cpu[c].step = "idle" /\ received < MaxPackets
    /\ received' = received + 1 /\ arrived' = [arrived EXCEPT ![ip] = @ + 1]
    /\ served' = served \cup {c}
    /\ cpu' = [cpu EXCEPT ![c] =
                 [step |-> IF ip \in Present THEN "load" ELSE "create",
                  src |-> ip, ptr |-> Lookup(flow, ip), num |-> 0]]
    /\ UNCHANGED flow /\ PlaneOnly

Create(c) ==
    /\ cpu[c].step = "create"
    /\ flow' \in Update(flow, c, cpu[c].src, 1)
    /\ cpu' = [cpu EXCEPT ![c] = Elsewhere]
    /\ UNCHANGED <<received, arrived, served>> /\ PlaneOnly

LoadCount(c) ==
    /\ cpu[c].step = "load"
    /\ cpu' = [cpu EXCEPT ![c].step = "store", ![c].num = flow.val[cpu[c].ptr]]
    /\ UNCHANGED <<flow, received, arrived, served>> /\ PlaneOnly

StoreCount(c) ==
    /\ cpu[c].step = "store"
    /\ flow' = Store(flow, cpu[c].ptr, cpu[c].num + 1)
    /\ cpu' = [cpu EXCEPT ![c] = Elsewhere]
    /\ UNCHANGED <<received, arrived, served>> /\ PlaneOnly

CpuStep(c) == (\E ip \in IP : Arrive(c, ip)) \/ Create(c) \/ LoadCount(c) \/ StoreCount(c)

Tick ==
    /\ clock < Epoch + MaxTime /\ clock' = clock + 1
    /\ UNCHANGED <<plane, stats_interval_sec, loader, reports, cleaner, reloads, whole, done>>

(***************************************************************************)
(* The loader.                                                             *)
(***************************************************************************)
LoopTop ==
    /\ lpc = "top" /\ lpc' = "due" /\ now' = clock
    /\ UNCHANGED <<plane, clock, stats_interval_sec, last_stats_ts, key, reports, cleaner,
                   reloads, whole, done>>

\* SIGHUP: between the reading of the clock and its use.
Reload(n) ==
    /\ lpc = "due" /\ reloads < MaxReloads /\ reloads' = reloads + 1
    /\ stats_interval_sec' = n
    /\ UNCHANGED <<plane, clock, loader, reports, cleaner, whole, done>>

NotDue ==
    /\ lpc = "due" /\ now - last_stats_ts < stats_interval_sec
    /\ lpc' = "top"
    /\ UNCHANGED <<plane, clock, stats_interval_sec, now, last_stats_ts, key, reports, cleaner,
                   reloads, whole, done>>

\* The walk moves to the next key, or ends and stamps the pass.
Walk(k) ==
    /\ key' = k
    /\ IF k = NoKey THEN lpc' = "top" /\ last_stats_ts' = now
                    ELSE lpc' = "lookup" /\ UNCHANGED last_stats_ts

Begin ==
    /\ lpc = "due" /\ now - last_stats_ts >= stats_interval_sec
    /\ Walk(NextKey(NoKey))
    /\ whole' = Present /\ done' = {}
    /\ UNCHANGED <<plane, clock, stats_interval_sec, now, reports, cleaner, reloads>>

\* The difference to the totals of the last report.
DifferenceWraps(new, old) == (new - old) % W
Difference(new, old) == IF new >= old THEN new - old ELSE 0

Rate(d) == d \div (IF stats_interval_sec > 0 THEN stats_interval_sec ELSE 1)

\* report_flow_rate: a source seen for the first time has no rate.
ReportFlow(ip) ==
    LET d == IF cache[ip] = -1 THEN 0 ELSE Difference(Count(ip), cache[ip]) IN
    /\ cache' = [cache EXCEPT ![ip] = Count(ip)]
    /\ pps' = [pps EXCEPT ![ip] = Rate(d)]
    /\ summed' = [summed EXCEPT ![ip] = @ + d]
    /\ reportedAt' = [reportedAt EXCEPT ![ip] = clock]

LookupElem ==
    /\ lpc = "lookup" /\ lpc' = "next"
    /\ IF key \in Present THEN ReportFlow(key) /\ done' = done \cup {key}
                          ELSE UNCHANGED <<reports, done>>
    /\ UNCHANGED <<plane, clock, stats_interval_sec, now, last_stats_ts, key, cleaner, reloads, whole>>

\* A key that was deleted meanwhile sends the walk back to the first one.
OnwardUnlessGone == IF key \in Present THEN NextKey(key) ELSE NoKey
OnwardAgain == IF key \in Present /\ After(key) = {} THEN NextKey(NoKey) ELSE NextKey(key)
Onward == NextKey(key)

Advance ==
    /\ lpc = "next"
    /\ Walk(Onward)
    /\ UNCHANGED <<plane, clock, stats_interval_sec, now, reports, cleaner, reloads, whole, done>>

(***************************************************************************)
(* clean_map: delete the key after the one deleted before - the first one, *)
(* unless that one is back - until there is none.                          *)
(***************************************************************************)
CleanStart ==
    /\ cpc = "idle" /\ cleanings < MaxCleanings /\ cleanings' = cleanings + 1
    /\ cpc' = "next" /\ ckey' = NoKey
    /\ UNCHANGED <<plane, clock, stats_interval_sec, loader, reports, reloads, whole, done>>

CleanNext ==
    /\ cpc = "next" /\ ckey' = NextKey(ckey)
    /\ cpc' = IF ckey' = NoKey THEN "idle" ELSE "delete"
    /\ UNCHANGED <<plane, clock, stats_interval_sec, loader, reports, cleanings, reloads, whole, done>>

CleanDelete ==
    /\ cpc = "delete" /\ cpc' = "next"
    /\ flow' = Delete(flow, ckey) /\ whole' = whole \ {ckey}
    /\ UNCHANGED <<cpu, received, arrived, served, clock, stats_interval_sec, loader, reports,
                   ckey, cleanings, reloads, done>>

LoaderStep == LoopTop \/ NotDue \/ Begin \/ LookupElem \/ Advance
CleanerStep == CleanNext \/ CleanDelete

Next ==
    \/ \E c \in CPU : CpuStep(c)
    \/ Tick \/ LoaderStep \/ (\E n \in Intervals : Reload(n))
    \/ CleanStart \/ CleanerStep

Spec == Init /\ [][Next]_vars

\* The loader and the tool are scheduled.
FairSpec == Spec /\ WF_vars(LoaderStep) /\ WF_vars(CleanerStep)

-----------------------------------------------------------------------------
TypeOK ==
    /\ flow \in HashType(0..MaxPackets)
    /\ cpu \in [CPU -> [step : {"idle", "create", "load", "store"}, src : IP \cup {NoKey},
                        ptr : Elem \cup {NoElem}, num : 0..MaxPackets]]
    /\ \A c \in CPU : /\ cpu[c].step # "idle" => cpu[c].src \in IP
                      /\ cpu[c].step \in {"load", "store"} => cpu[c].ptr \in Elem
    /\ received \in 0..MaxPackets /\ clock \in Epoch..(Epoch + MaxTime)
    /\ stats_interval_sec \in Intervals
    /\ lpc \in {"top", "due", "lookup", "next"}
    /\ now \in 0..clock /\ last_stats_ts \in 0..now
    /\ key \in IP \cup {NoKey} /\ (lpc \in {"lookup", "next"} <=> key # NoKey)
    /\ cache \in [IP -> -1..MaxPackets] /\ pps \in [IP -> 0..MaxPackets]
    /\ cpc \in {"idle", "next", "delete"} /\ ckey \in IP \cup {NoKey}
    /\ cleanings \in 0..MaxCleanings /\ reloads \in 0..MaxReloads
    /\ arrived \in [IP -> Nat] /\ served \subseteq CPU /\ summed \in [IP -> Nat]
    /\ reportedAt \in [IP -> 0..clock]
    /\ whole \subseteq Present /\ done \subseteq IP

(***************************************************************************)
(* The loader never reports packets that did not arrive - pps is "packets  *)
(* per second", README.md:481-482 -: over any number of reports the        *)
(* differences add up to no more than what arrived (report_flow_rate,      *)
(* loader.c:450-457), though totals fall when clean_maps deletes the entry,*)
(* also under a CPU that is about to store through its pointer.  True as   *)
(* long as one CPU takes all packets: there a store into an element that   *)
(* left the map is lost.  With a second one it may bring an old total back.*)
(***************************************************************************)
OneCpuServes == \A c, d \in served : c = d

NeverOverstated == OneCpuServes => \A ip \in IP : summed[ip] <= arrived[ip]

(***************************************************************************)
(* A walk that ends has reported every source that was in the map all the  *)
(* time, though others came and went and the walk's own key may have been  *)
(* deleted under it (read_and_report_stats, loader.c:474-498).             *)
(***************************************************************************)
PassComplete == [][(lpc = "next" /\ lpc' = "top") => whole \subseteq done]_vars

(***************************************************************************)
(* Every walk ends and the loader gets back to its main loop, where it     *)
(* receives alerts and looks at its signals.                               *)
(***************************************************************************)
PassEnds == lpc \in {"lookup", "next"} ~> lpc = "top"

(***************************************************************************)
(* "pps: packets per second" (README.md:481-482): a reported rate is no    *)
(* more than the packets since the previous report divided by the seconds  *)
(* since then, one second of the clock's resolution granted.               *)
(***************************************************************************)
Reported(ip) == lpc = "lookup" /\ key = ip /\ lpc' = "next" /\ ip \in done'

RateIsPerSecond ==
    [][\A ip \in IP : Reported(ip) =>
            pps'[ip] * (clock - reportedAt[ip] - 1) <= summed'[ip] - summed[ip]]_vars
=============================================================================
