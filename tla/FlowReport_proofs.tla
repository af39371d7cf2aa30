-------------------------- MODULE FlowReport_proofs --------------------------
(***************************************************************************)
(* Theorems about FlowReport, for any sources, any order of the buckets,   *)
(* any intervals and any number of rounds of clean_maps: the types and the *)
(* completeness of a walk for CPUs that overwrite each other's counts, the *)
(* cover of the reports as long as one of them takes all packets.          *)
(***************************************************************************)
EXTENDS FlowReport, FiniteSetTheorems, WellFoundedInduction, TLAPS

-----------------------------------------------------------------------------
(***************************************************************************)
(* The operations of the hash keep its type.                               *)
(***************************************************************************)
LEMMA HashWrites ==
    ASSUME NEW V, NEW h \in HashType(V), NEW v \in V
    PROVE  /\ \A e \in Elem : Store(h, e, v) \in HashType(V)
           /\ \A k \in IP : Delete(h, k) \in HashType(V)
           /\ \A c \in CPU, k \in IP : Update(h, c, k, v) \subseteq HashType(V)
<1>1. \A e \in Elem : Store(h, e, v) \in HashType(V)
  BY DEF Store, HashType
<1>2. \A k \in IP : Delete(h, k) \in HashType(V)
  BY DEF Delete, HashType
<1>3. ASSUME NEW c \in CPU, NEW k \in IP PROVE Update(h, c, k, v) \subseteq HashType(V)
  <2>1. \A e \in Free(h) : Insert(h, k, e, v) \in HashType(V)
    BY DEF Free, Insert, HashType
  <2>2. CASE h.at[k] # NoElem
    <3>1. h.at[k] \in Elem /\ h.spare[c] \in Elem
      BY <2>2 DEF HashType
    <3>2. Replace(h, c, k, v) \in HashType(V)
      BY <3>1 DEF Replace, HashType
    <3> QED BY <2>2, <3>2 DEF Update
  <2>3. CASE h.at[k] = NoElem
    BY <2>1, <2>3 DEF Update
  <2> QED BY <2>2, <2>3
<1> QED BY <1>1, <1>2, <1>3

\* What an update of key k leaves of the keys that are there.
LEMMA UpdateKeeps ==
    ASSUME NEW V, NEW h \in HashType(V), NEW c \in CPU, NEW k \in IP, NEW v,
           NEW hn \in Update(h, c, k, v)
    PROVE  /\ \A x \in IP : h.at[x] # NoElem => hn.at[x] # NoElem
           /\ h.at[k] = NoElem => hn = h \/ \E e \in Free(h) : hn = Insert(h, k, e, v)
           /\ \A e \in Elem : hn.val[e] \in {h.val[e], v}
<1>1. CASE h.at[k] # NoElem
  <2>1. h.spare[c] \in Elem /\ h.spare[c] # NoElem /\ hn = Replace(h, c, k, v)
    BY <1>1, NoElemAssumption DEF Update, HashType, Elem
  <2> QED BY <1>1, <2>1 DEF Replace, HashType
<1>2. CASE h.at[k] = NoElem /\ hn = h
  BY <1>2
<1>3. ASSUME h.at[k] = NoElem, NEW e \in Free(h), hn = Insert(h, k, e, v)
      PROVE  /\ \A x \in IP : h.at[x] # NoElem => hn.at[x] # NoElem
             /\ \A x \in Elem : hn.val[x] \in {h.val[x], v}
  BY <1>3 DEF Insert, HashType
<1>4. \/ h.at[k] # NoElem
      \/ h.at[k] = NoElem /\ hn = h
      \/ h.at[k] = NoElem /\ \E e \in Free(h) : hn = Insert(h, k, e, v)
  BY DEF Update
<1> QED BY <1>1, <1>2, <1>3, <1>4

-----------------------------------------------------------------------------
(***************************************************************************)
(* What the proofs need of the types.                                      *)
(***************************************************************************)
CpuTyped ==
    /\ cpu \in [CPU -> [step : {"idle", "create", "load", "store"}, src : IP \cup {NoKey},
                        ptr : Elem \cup {NoElem}, num : Nat]]
    /\ \A c \in CPU : /\ cpu[c].step # "idle" => cpu[c].src \in IP
                      /\ cpu[c].step \in {"load", "store"} => cpu[c].ptr \in Elem

Typed ==
    /\ flow \in HashType(Nat) /\ CpuTyped
    /\ received \in Nat /\ arrived \in [IP -> Nat] /\ summed \in [IP -> Nat]
    /\ cache \in [IP -> Nat \cup {-1}]
    /\ key \in IP \cup {NoKey} /\ ckey \in IP \cup {NoKey}
    /\ lpc \in {"top", "due", "lookup", "next"} /\ cpc \in {"idle", "next", "delete"}
    /\ lpc \in {"lookup", "next"} => key \in IP
    /\ cpc = "delete" => ckey \in IP

\* What a CPU on its way has in its registers.
LEMMA CpuFacts ==
    ASSUME Typed, NEW c \in CPU
    PROVE  /\ cpu[c].num \in Nat
           /\ cpu[c].step = "create" => cpu[c].src \in IP
           /\ cpu[c].step = "load" => cpu[c].src \in IP /\ cpu[c].ptr \in Elem
           /\ cpu[c].step = "store" => cpu[c].src \in IP /\ cpu[c].ptr \in Elem
<1>1. cpu[c].num \in Nat
  BY DEF Typed, CpuTyped
<1>2. /\ cpu[c].step # "idle" => cpu[c].src \in IP
      /\ cpu[c].step \in {"load", "store"} => cpu[c].ptr \in Elem
  BY DEF Typed, CpuTyped
<1> QED BY <1>1, <1>2

LEMMA PresentFacts ==
    ASSUME Typed
    PROVE  /\ Present \subseteq IP
           /\ \A ip \in Present : Lookup(flow, ip) \in Elem
           /\ \A ip \in IP : Count(ip) \in Nat
BY DEF Typed, HashType, Lookup, Present, Count

LEMMA NaturalMinimum ==
    ASSUME NEW T, T \subseteq Nat, T # {}
    PROVE  \E x \in T : \A y \in T : x <= y
<1>1. PICK x \in T : \A y \in T : ~(<<y, x>> \in OpToRel(<, Nat))
  BY NatLessThanWellFounded, WFMin
<1>2. \A y \in T : ~(y < x)
  BY <1>1 DEF OpToRel
<1> QED
  BY <1>2

\* The kernel's walk: the next key is the least of those after k.
LEMMA NextKeyIsLeast ==
    ASSUME NEW k, After(k) # {}
    PROVE  NextKey(k) \in After(k) /\ \A x \in After(k) : Rank[NextKey(k)] <= Rank[x]
<1> DEFINE T == {Rank[x] : x \in After(k)}
<1>1. After(k) \subseteq IP
  BY DEF After, Present
<1>2. T \subseteq Nat /\ T # {}
  BY <1>1, ReportAssumption
<1>3. PICK n \in T : \A y \in T : n <= y
  BY <1>2, NaturalMinimum
<1>4. \E ip \in After(k) : \A x \in After(k) : Rank[ip] <= Rank[x]
  BY <1>3
<1> QED
  BY <1>4 DEF NextKey

LEMMA NextKeyType ==
    ASSUME NEW k
    PROVE  /\ NextKey(k) \in IP \cup {NoKey}
           /\ NextKey(k) = NoKey <=> After(k) = {}
<1>1. After(k) \subseteq IP /\ NoKey \notin IP
  BY ReportAssumption DEF After, Present
<1> QED
  BY <1>1, NextKeyIsLeast DEF NextKey

LEMMA TypedInit == Init => Typed
<1>1. Init => flow \in HashType(Nat)
  BY DEF Init, EmptyHash, HashType, Elem
<1> QED BY <1>1 DEF Init, Typed, CpuTyped, Elsewhere

\* The steps of update_flow_stats.
LEMMA CpuTypedNext ==
    ASSUME Typed, NEW c \in CPU, CpuStep(c)
    PROVE  CpuTyped' /\ flow' \in HashType(Nat) /\ received' \in Nat /\ arrived' \in [IP -> Nat]
<1> USE DEF Typed, CpuTyped
<1>1. ASSUME NEW ip \in IP, Arrive(c, ip) PROVE CpuTyped'
  <2>1. Lookup(flow, ip) \in Elem \cup {NoElem}
    BY DEF HashType, Lookup
  <2>2. /\ cpu'[c].step \in {"load", "create"} /\ cpu'[c].src = ip /\ cpu'[c].num = 0
        /\ cpu'[c].ptr = Lookup(flow, ip) /\ cpu'[c].step = "load" => Lookup(flow, ip) # NoElem
    BY <1>1 DEF Arrive, Present
  <2> QED BY <1>1, <2>1, <2>2 DEF Arrive
<1>2. ASSUME NEW ip \in IP, Arrive(c, ip)
      PROVE  flow' \in HashType(Nat) /\ received' \in Nat /\ arrived' \in [IP -> Nat]
  BY <1>2 DEF Arrive
<1>3. CASE Create(c)
  <2>1. cpu[c].src \in IP /\ 1 \in Nat
    BY <1>3, CpuFacts DEF Create
  <2>2. flow' \in HashType(Nat)
    BY <1>3, <2>1, HashWrites DEF Create
  <2> QED BY <1>3, <2>2 DEF Create, Elsewhere
<1>4. CASE LoadCount(c)
  <2>1. flow.val[cpu[c].ptr] \in Nat
    BY <1>4, CpuFacts DEF LoadCount, HashType
  <2> QED BY <1>4, <2>1 DEF LoadCount
<1>5. CASE StoreCount(c)
  <2>1. cpu[c].ptr \in Elem /\ cpu[c].num + 1 \in Nat
    BY <1>5, CpuFacts DEF StoreCount
  <2>2. flow' \in HashType(Nat)
    BY <1>5, <2>1, HashWrites DEF StoreCount
  <2> QED BY <1>5, <2>2 DEF StoreCount, Elsewhere
<1> QED BY <1>1, <1>2, <1>3, <1>4, <1>5 DEF CpuStep

LEMMA TypedNext == Typed /\ [Next]_vars => Typed'
<1> SUFFICES ASSUME Typed, [Next]_vars PROVE Typed'
  OBVIOUS
<1>1. ASSUME NEW c \in CPU, CpuStep(c) PROVE Typed'
  <2>1. PlaneOnly
    BY <1>1 DEF CpuStep, Arrive, Create, LoadCount, StoreCount
  <2> QED BY <1>1, <2>1, CpuTypedNext DEF Typed, PlaneOnly, loader, reports, cleaner
<1> USE DEF Typed, CpuTyped, plane, loader, reports, cleaner
<1>2. CASE Tick
  BY <1>2 DEF Tick
<1>3. CASE LoopTop
  BY <1>3 DEF LoopTop
<1>4. CASE NotDue
  BY <1>4 DEF NotDue
<1>5. CASE Begin
  BY <1>5, NextKeyType, ReportAssumption DEF Begin, Walk
<1>6. CASE LookupElem
  <2>1. CASE key \in Present
    <3> DEFINE d == IF cache[key] = -1 THEN 0 ELSE Difference(Count(key), cache[key])
    <3>1. key \in IP /\ Count(key) \in Nat
      BY <1>6, PresentFacts DEF LookupElem
    <3>2. d \in Nat
      BY <3>1 DEF Difference
    <3>3. cache' = [cache EXCEPT ![key] = Count(key)] /\ summed' = [summed EXCEPT ![key] = @ + d]
      BY <1>6, <2>1 DEF LookupElem, ReportFlow
    <3> HIDE DEF d
    <3>4. cache' \in [IP -> Nat \cup {-1}]
      BY <3>1, <3>3
    <3>5. summed' \in [IP -> Nat]
      BY <3>1, <3>2, <3>3
    <3> QED
      BY <1>6, <3>4, <3>5 DEF LookupElem
  <2>2. CASE key \notin Present
    BY <1>6, <2>2 DEF LookupElem
  <2> QED
    BY <2>1, <2>2
<1>7. CASE Advance
  BY <1>7, NextKeyType, ReportAssumption DEF Advance, Walk, Onward
<1>8. ASSUME NEW n \in Intervals, Reload(n) PROVE Typed'
  BY <1>8 DEF Reload
<1>9. CASE CleanStart
  BY <1>9 DEF CleanStart
<1>10. CASE CleanNext
  BY <1>10, NextKeyType, ReportAssumption DEF CleanNext
<1>11. CASE CleanDelete
  <2>1. Delete(flow, ckey) \in HashType(Nat)
    BY <1>11, HashWrites DEF CleanDelete
  <2> QED BY <1>11, <2>1 DEF CleanDelete
<1>12. CASE UNCHANGED vars
  BY <1>12 DEF vars
<1> QED
  BY <1>1, <1>2, <1>3, <1>4, <1>5, <1>6, <1>7, <1>8, <1>9, <1>10, <1>11, <1>12
     DEF Next, LoaderStep, CleanerStep

-----------------------------------------------------------------------------
(***************************************************************************)
(* The differences reported, while one CPU takes all packets.              *)
(* NeverOverstated is not inductive: what the next report may add - the count above the cached    *)
(* total - and the packet that is being counted must be covered by packets *)
(* that arrived, too.  The packet is counted once since the element its    *)
(* CPU points to is still the source's or no source's: nobody else writes  *)
(* or creates entries, clean_maps only deletes them.                       *)
(***************************************************************************)
Pending(ip) == IF Count(ip) >= cache[ip] THEN Count(ip) - cache[ip] ELSE 0

Busy(ip) == \E c \in CPU : cpu[c].step # "idle" /\ cpu[c].src = ip
Uncounted(ip) == IF Busy(ip) THEN 1 ELSE 0

Tally ==
    \A ip \in IP :
        IF cache[ip] = -1 THEN summed[ip] = 0 /\ Count(ip) + Uncounted(ip) <= arrived[ip]
                          ELSE summed[ip] + Pending(ip) + Uncounted(ip) <= arrived[ip]

Pointers ==
    /\ \A j, k \in Present : Lookup(flow, j) = Lookup(flow, k) => j = k
    /\ \A c \in CPU :
        /\ cpu[c].step = "create" => cpu[c].src \notin Present
        /\ cpu[c].step \in {"load", "store"} =>
               \A ip \in Present : Lookup(flow, ip) = cpu[c].ptr => ip = cpu[c].src
        /\ cpu[c].step = "store" =>
               \A ip \in Present : Lookup(flow, ip) = cpu[c].ptr => cpu[c].num = Count(ip)

Covered == Tally /\ Pointers

\* The other CPUs are not in update_flow_stats, and do not come to it now.
Alone(c) == \A x \in CPU \ {c} : cpu[x].step = "idle" /\ cpu'[x] = cpu[x]

\* The first two: a packet is on its way; it is counted at most once.
LEMMA CoveredArrive ==
    ASSUME Typed, Covered, NEW c \in CPU, Alone(c), NEW ip \in IP, Arrive(c, ip)
    PROVE  Covered'
<1>1. /\ cpu[c].step = "idle" /\ UNCHANGED <<flow, cache, summed>>
      /\ arrived' = [arrived EXCEPT ![ip] = @ + 1]
      /\ cpu'[c] = [step |-> IF ip \in Present THEN "load" ELSE "create",
                    src |-> ip, ptr |-> Lookup(flow, ip), num |-> 0]
  BY DEF Arrive, PlaneOnly, reports, Typed, CpuTyped
<1>2. Present' = Present /\ \A x \in IP : Count(x)' = Count(x) /\ Lookup(flow, x)' = Lookup(flow, x)
  BY <1>1 DEF Present, Count, Lookup
<1>3. Pointers'
  BY <1>1, <1>2, PresentFacts DEF Covered, Pointers, Alone
<1>4. ASSUME NEW x \in IP
      PROVE  /\ Uncounted(x) = 0 /\ Uncounted(x)' = IF x = ip THEN 1 ELSE 0
             /\ arrived'[x] = IF x = ip THEN arrived[x] + 1 ELSE arrived[x]
  BY <1>1 DEF Uncounted, Busy, Alone, Typed
<1>5. Tally'
  BY <1>1, <1>2, <1>4, PresentFacts DEF Covered, Tally, Pending, Typed
<1> QED BY <1>3, <1>5 DEF Covered

LEMMA CoveredLoad ==
    ASSUME Typed, Covered, NEW c \in CPU, Alone(c), LoadCount(c)
    PROVE  Covered'
<1>1. /\ cpu[c].step = "load" /\ UNCHANGED <<flow, cache, summed, arrived>>
      /\ cpu'[c].step = "store" /\ cpu'[c].num = flow.val[cpu[c].ptr]
      /\ cpu'[c].ptr = cpu[c].ptr /\ cpu'[c].src = cpu[c].src
  BY DEF LoadCount, PlaneOnly, reports, Typed, CpuTyped
<1>2. Present' = Present /\ \A x \in IP : Count(x)' = Count(x) /\ Lookup(flow, x)' = Lookup(flow, x)
  BY <1>1 DEF Present, Count, Lookup
<1>3. Pointers'
  BY <1>1, <1>2, PresentFacts DEF Covered, Pointers, Count, Alone
<1>4. \A x \in IP : Uncounted(x)' = Uncounted(x)
  BY <1>1 DEF Uncounted, Busy, Alone
<1>5. Tally'
  BY <1>1, <1>2, <1>4 DEF Covered, Tally, Pending
<1> QED BY <1>3, <1>5 DEF Covered

\* The packet of source s is counted, or lost; the other sources are as before.
LEMMA CoveredDone ==
    ASSUME Typed, Covered, NEW c \in CPU, Alone(c), UNCHANGED <<cache, summed, arrived>>,
           cpu[c].step # "idle", cpu'[c].step = "idle", NEW s \in IP, cpu[c].src = s,
           Count(s)' \in {Count(s), Count(s) + 1}, \A x \in IP \ {s} : Count(x)' = Count(x)
    PROVE  Tally'
<1>1. \A x \in IP : Uncounted(x)' = 0 /\ Uncounted(x) = IF x = s THEN 1 ELSE 0
  BY DEF Uncounted, Busy, Alone
<1>2. \A x \in IP : Count(x) \in Nat
  BY PresentFacts
<1> QED BY <1>1, <1>2 DEF Covered, Tally, Pending, Typed

LEMMA CoveredCreate ==
    ASSUME Typed, Covered, NEW c \in CPU, Alone(c), Create(c)
    PROVE  Covered'
<1>1. PICK s \in IP : s = cpu[c].src
  BY CpuFacts DEF Create
<1>2. /\ cpu[c].step = "create" /\ UNCHANGED <<cache, summed, arrived>>
      /\ flow' \in Update(flow, c, s, 1) /\ cpu'[c] = Elsewhere
  BY <1>1 DEF Create, PlaneOnly, reports, Typed, CpuTyped
<1>3. flow.at[s] = NoElem /\ s \notin Present /\ Count(s) = 0
  BY <1>1, <1>2 DEF Covered, Pointers, Present, Count, Lookup
<1>4. flow \in HashType(Nat)
  BY DEF Typed
<1>5. flow' = flow \/ \E e \in Free(flow) : flow' = Insert(flow, s, e, 1)
  BY <1>2, <1>3, <1>4, UpdateKeeps
<1>6. CASE flow' = flow
  <2>1. Present' = Present /\ \A x \in IP : Count(x)' = Count(x) /\ Lookup(flow, x)' = Lookup(flow, x)
    BY <1>6 DEF Present, Count, Lookup
  <2>2. Pointers'
    BY <1>2, <2>1, PresentFacts DEF Covered, Pointers, Alone, Elsewhere
  <2>3. Tally'
    BY <1>1, <1>2, <2>1, CoveredDone DEF Elsewhere
  <2> QED BY <2>2, <2>3 DEF Covered
<1>7. ASSUME NEW e \in Free(flow), flow' = Insert(flow, s, e, 1) PROVE Covered'
  <2>1. e \in Elem /\ e # NoElem /\ \A x \in IP : flow.at[x] # e
    BY NoElemAssumption DEF Free, Elem
  <2>2. flow'.at = [flow.at EXCEPT ![s] = e] /\ flow'.val = [flow.val EXCEPT ![e] = 1]
    BY <1>7 DEF Insert, HashType
  <2>3. /\ Present' = Present \cup {s} /\ Lookup(flow, s)' = e
        /\ \A x \in IP \ {s} : Lookup(flow, x)' = Lookup(flow, x)
    BY <1>4, <2>1, <2>2 DEF Present, Lookup, HashType
  <2>4. Count(s)' = 1 /\ \A x \in IP \ {s} : Count(x)' = Count(x)
    BY <1>4, <2>1, <2>2, <2>3, PresentFacts DEF Present, Count, Lookup, HashType
  <2>5. Pointers'
    BY <1>2, <2>1, <2>3, PresentFacts DEF Covered, Pointers, Alone, Elsewhere, Lookup
  <2>6. Tally'
    BY <1>1, <1>2, <1>3, <2>4, CoveredDone DEF Elsewhere
  <2> QED BY <2>5, <2>6 DEF Covered
<1> QED BY <1>5, <1>6, <1>7

LEMMA CoveredStore ==
    ASSUME Typed, Covered, NEW c \in CPU, Alone(c), StoreCount(c)
    PROVE  Covered'
<1>1. PICK s \in IP, e \in Elem : s = cpu[c].src /\ e = cpu[c].ptr
  BY CpuFacts DEF StoreCount
<1>2. /\ cpu[c].step = "store" /\ UNCHANGED <<cache, summed, arrived>>
      /\ flow' = Store(flow, e, cpu[c].num + 1) /\ cpu'[c] = Elsewhere
  BY <1>1 DEF StoreCount, PlaneOnly, reports, Typed, CpuTyped
<1>3. flow \in HashType(Nat)
  BY DEF Typed
<1>4. flow'.at = flow.at /\ flow'.val = [flow.val EXCEPT ![e] = cpu[c].num + 1]
  BY <1>2, <1>3 DEF Store, HashType
<1>5. Present' = Present /\ \A x \in IP : Lookup(flow, x)' = Lookup(flow, x)
  BY <1>4 DEF Present, Lookup
<1>6. Pointers'
  BY <1>2, <1>5, PresentFacts DEF Covered, Pointers, Alone, Elsewhere
<1>7. ASSUME NEW x \in IP
      PROVE  Count(x)' = IF x \in Present /\ Lookup(flow, x) = e THEN cpu[c].num + 1 ELSE Count(x)
  BY <1>3, <1>4, <1>5, PresentFacts DEF Count, Lookup, HashType
<1>8. \A x \in Present : Lookup(flow, x) = e => x = s /\ cpu[c].num = Count(x)
  BY <1>1, <1>2 DEF Covered, Pointers
<1>9. Count(s)' \in {Count(s), Count(s) + 1} /\ \A x \in IP \ {s} : Count(x)' = Count(x)
  BY <1>7, <1>8
<1>10. Tally'
  BY <1>1, <1>2, <1>9, CoveredDone DEF Elsewhere
<1> QED BY <1>6, <1>10 DEF Covered

\* A report moves what was pending to the sum.
LEMMA CoveredReport ==
    ASSUME Typed, Covered, LookupElem
    PROVE  Covered'
<1>1. key \in IP /\ UNCHANGED <<flow, cpu, arrived>>
  BY DEF LookupElem, Typed, plane
<1>2. /\ Present' = Present
      /\ \A x \in IP : /\ Count(x)' = Count(x) /\ Lookup(flow, x)' = Lookup(flow, x)
                       /\ Uncounted(x)' = Uncounted(x) /\ Uncounted(x) \in Nat
  BY <1>1 DEF Present, Count, Lookup, Uncounted, Busy
<1>3. Pointers'
  BY <1>1, <1>2, PresentFacts DEF Covered, Pointers
<1>4. CASE key \in Present
  <2>1. /\ cache' = [cache EXCEPT ![key] = Count(key)]
        /\ summed' = [summed EXCEPT ![key] =
                         @ + IF cache[key] = -1 THEN 0 ELSE Difference(Count(key), cache[key])]
    BY <1>4 DEF LookupElem, ReportFlow
  <2>2. Tally'
    BY <1>1, <1>2, <2>1, PresentFacts DEF Covered, Tally, Pending, Difference, Typed
  <2> QED BY <1>3, <2>2 DEF Covered
<1>5. CASE key \notin Present
  <2>1. UNCHANGED <<cache, summed>>
    BY <1>5 DEF LookupElem, reports
  <2>2. Tally'
    BY <1>1, <1>2, <2>1 DEF Covered, Tally, Pending
  <2> QED BY <1>3, <2>2 DEF Covered
<1> QED BY <1>4, <1>5

\* A deleted entry leaves less pending; a pointer to its element points to no source's.
LEMMA CoveredDelete ==
    ASSUME Typed, Covered, CleanDelete
    PROVE  Covered'
<1>1. /\ ckey \in IP /\ UNCHANGED <<cpu, cache, summed, arrived>> /\ flow' = Delete(flow, ckey)
      /\ flow \in HashType(Nat)
  BY DEF CleanDelete, Typed, reports
<1>2. flow'.at = [flow.at EXCEPT ![ckey] = NoElem] /\ flow'.val = flow.val
  BY <1>1 DEF Delete, HashType
<1>3. /\ Present' = Present \ {ckey}
      /\ \A x \in IP \ {ckey} : Lookup(flow, x)' = Lookup(flow, x)
  BY <1>1, <1>2 DEF Present, Lookup, HashType
<1>4. ASSUME NEW x \in IP PROVE Count(x) \in Nat /\ Count(x)' = IF x = ckey THEN 0 ELSE Count(x)
  <2>1. Count(x) \in Nat
    BY PresentFacts
  <2>2. CASE x = ckey
    BY <1>3, <2>1, <2>2 DEF Count
  <2>3. CASE x # ckey
    BY <1>1, <1>2, <2>1, <2>3 DEF Count, Present, Lookup, HashType
  <2> QED BY <2>2, <2>3
<1>5. Pointers'
  BY <1>1, <1>3, <1>4, PresentFacts DEF Covered, Pointers
<1>6. \A x \in IP : Uncounted(x)' = Uncounted(x) /\ Uncounted(x) \in Nat
  BY <1>1 DEF Uncounted, Busy
<1>7. ASSUME NEW x \in IP
      PROVE  Count(x)' \in Nat /\ Count(x)' <= Count(x) /\ Count(x) \in Nat /\ cache[x] \in Nat \cup {-1}
             /\ summed[x] \in Nat /\ arrived[x] \in Nat
  <2>1. Count(x) \in Nat /\ Count(x)' \in {0, Count(x)}
    BY <1>4
  <2> QED BY <2>1 DEF Typed
<1>8. Tally'
  BY <1>1, <1>6, <1>7 DEF Covered, Tally, Pending
<1> QED BY <1>5, <1>8 DEF Covered

LEMMA CoveredNext ==
    ASSUME Typed, Covered, [Next]_vars, \A c \in CPU : CpuStep(c) => Alone(c)
    PROVE  Covered'
<1>1. ASSUME NEW c \in CPU, CpuStep(c) PROVE Covered'
  BY <1>1, CoveredArrive, CoveredCreate, CoveredLoad, CoveredStore DEF CpuStep
<1>2. CASE UNCHANGED <<flow, cpu, cache, summed, arrived>>
  <2>1. /\ Present' = Present
        /\ \A x \in IP : /\ Count(x)' = Count(x) /\ Lookup(flow, x)' = Lookup(flow, x)
                         /\ Uncounted(x)' = Uncounted(x)
    BY <1>2 DEF Present, Count, Lookup, Uncounted, Busy
  <2>2. Pointers' /\ Tally'
    BY <1>2, <2>1, PresentFacts DEF Covered, Pointers, Tally, Pending
  <2> QED BY <2>2 DEF Covered
<1>3. \/ \E c \in CPU : CpuStep(c)
      \/ LookupElem \/ CleanDelete
      \/ UNCHANGED <<flow, cpu, cache, summed, arrived>>
  BY DEF Next, LoaderStep, CleanerStep, Tick, LoopTop, NotDue, Begin, Advance, Reload,
         CleanStart, CleanNext, vars, plane, reports
<1> QED BY <1>1, <1>2, <1>3, CoveredReport, CoveredDelete

\* Only a CPU that has taken a packet is on its way.
Known == served \subseteq CPU /\ \A c \in CPU : cpu[c].step # "idle" => c \in served

LEMMA KnownNext == Typed /\ Known /\ [Next]_vars => Known' /\ served \subseteq served'
<1> SUFFICES ASSUME Typed, Known, [Next]_vars PROVE Known' /\ served \subseteq served'
  OBVIOUS
<1>1. ASSUME NEW c \in CPU, CpuStep(c) PROVE Known' /\ served \subseteq served'
  BY <1>1 DEF CpuStep, Arrive, Create, LoadCount, StoreCount, Elsewhere, Known, Typed, CpuTyped
<1>2. CASE UNCHANGED <<cpu, served>>
  BY <1>2 DEF Known
<1>3. (\E c \in CPU : CpuStep(c)) \/ UNCHANGED <<cpu, served>>
  BY DEF Next, LoaderStep, CleanerStep, Tick, LoopTop, NotDue, Begin, LookupElem, Advance, Reload,
         CleanStart, CleanNext, CleanDelete, vars, plane
<1> QED BY <1>1, <1>2, <1>3

LEMMA OneIsAlone ==
    ASSUME Typed, Known, [Next]_vars, OneCpuServes', NEW c \in CPU, CpuStep(c)
    PROVE  Alone(c)
<1>1. c \in served' /\ served \subseteq served'
  BY KnownNext DEF CpuStep, Arrive, Create, LoadCount, StoreCount, Known
<1>2. \A x \in CPU \ {c} : cpu[x].step = "idle"
  BY <1>1 DEF OneCpuServes, Known
<1>3. \A x \in CPU \ {c} : cpu'[x] = cpu[x]
  BY DEF CpuStep, Arrive, Create, LoadCount, StoreCount, Typed, CpuTyped
<1> QED BY <1>2, <1>3 DEF Alone

(***************************************************************************)
(* As long as one CPU has taken all packets, of any number there are, the  *)
(* differences reported for a source never add up to more than the packets *)
(* that arrived (report_flow_rate, loader.c:450-457), wherever clean_maps  *)
(* deletes its entry.                                                      *)
(***************************************************************************)
THEOREM ReportsAreCovered == Spec => []NeverOverstated
<1> DEFINE IInv == Known /\ (OneCpuServes => Covered)
<1>1. Init => IInv
  <2> SUFFICES ASSUME Init PROVE IInv
    OBVIOUS
  <2>1. Present = {} /\ \A ip \in IP : Count(ip) = 0 /\ Uncounted(ip) = 0
    BY DEF Init, Present, Count, Lookup, EmptyHash, Uncounted, Busy, Elsewhere
  <2> QED BY <2>1 DEF Init, Covered, Tally, Pointers, Elsewhere, Known
<1>2. Typed /\ IInv => NeverOverstated
  <2> SUFFICES ASSUME Typed, Covered, NEW ip \in IP PROVE summed[ip] <= arrived[ip]
    BY DEF NeverOverstated
  <2>1. Count(ip) \in Nat /\ Uncounted(ip) \in Nat /\ cache[ip] \in Nat \cup {-1}
        /\ summed[ip] \in Nat /\ arrived[ip] \in Nat
    BY PresentFacts DEF Uncounted, Typed
  <2> QED BY <2>1 DEF Covered, Tally, Pending
<1>3. Typed /\ IInv /\ [Next]_vars => IInv'
  <2> SUFFICES ASSUME Typed, IInv, [Next]_vars, OneCpuServes' PROVE Covered'
    BY KnownNext
  <2>1. OneCpuServes
    BY KnownNext DEF OneCpuServes
  <2> QED BY <2>1, OneIsAlone, CoveredNext
<1> QED
  BY <1>1, <1>2, <1>3, TypedInit, TypedNext, PTL DEF Spec

-----------------------------------------------------------------------------
(***************************************************************************)
(* The walk.  What was there all the time and ranks before the walk's key  *)
(* has been reported.                                                      *)
(***************************************************************************)
Walked ==
    /\ whole \subseteq Present
    /\ lpc = "lookup" => \A x \in whole : Rank[x] < Rank[key] => x \in done
    /\ lpc = "next" => \A x \in whole : Rank[x] <= Rank[key] => x \in done

LEMMA CpuKeepsPresent ==
    ASSUME Typed, NEW c \in CPU, CpuStep(c)
    PROVE  Present \subseteq Present'
<1>1. CASE Create(c)
  <2>1. cpu[c].src \in IP /\ flow' \in Update(flow, c, cpu[c].src, 1) /\ flow \in HashType(Nat)
    BY <1>1, CpuFacts DEF Create, Typed
  <2>2. \A x \in IP : flow.at[x] # NoElem => flow'.at[x] # NoElem
    BY <2>1, UpdateKeeps
  <2> QED
    BY <2>2 DEF Present, Lookup
<1>2. CASE StoreCount(c)
  BY <1>2 DEF StoreCount, Store, Present, Lookup, Typed, HashType
<1>3. CASE UNCHANGED flow
  BY <1>3 DEF Present, Lookup
<1> QED
  BY <1>1, <1>2, <1>3 DEF CpuStep, Arrive, LoadCount

LEMMA WalkedNext == Typed /\ Walked /\ [Next]_vars => Walked'
<1> SUFFICES ASSUME Typed, Walked, [Next]_vars PROVE Walked'
  OBVIOUS
<1> USE DEF Walked
<1>0. \A x \in IP : Rank[x] \in Nat
  BY ReportAssumption
<1>1. ASSUME NEW c \in CPU, CpuStep(c) PROVE Walked'
  <2>1. UNCHANGED <<lpc, key, whole, done>>
    BY <1>1 DEF CpuStep, Arrive, Create, LoadCount, StoreCount, PlaneOnly, loader
  <2>2. Present \subseteq Present'
    BY <1>1, CpuKeepsPresent
  <2> QED
    BY <2>1, <2>2
<1>2. CASE Begin
  <2>1. /\ whole' = Present /\ UNCHANGED flow /\ lpc' \in {"top", "lookup"}
        /\ lpc' = "lookup" => key' = NextKey(NoKey) /\ key' # NoKey
    BY <1>2 DEF Begin, Walk, plane
  <2>2. After(NoKey) = Present
    BY ReportAssumption DEF After, Present
  <2>3. lpc' = "lookup" => \A x \in Present : Rank[key'] <= Rank[x] /\ key' \in IP
    BY <2>1, <2>2, NextKeyType, NextKeyIsLeast
  <2>4. Present' = Present
    BY <2>1 DEF Present, Lookup
  <2> QED
    BY <1>0, <2>1, <2>3, <2>4, PresentFacts
<1>3. CASE LookupElem
  <2>1. /\ UNCHANGED <<flow, key, whole>> /\ lpc = "lookup" /\ lpc' = "next"
        /\ done' = IF key \in Present THEN done \cup {key} ELSE done
    BY <1>3 DEF LookupElem, plane
  <2>2. key \in IP
    BY <2>1 DEF Typed
  <2>3. \A x \in whole : Rank[x] <= Rank[key] => x = key \/ Rank[x] < Rank[key]
    BY <1>0, <2>2, ReportAssumption, PresentFacts
  <2>4. Present' = Present
    BY <2>1 DEF Present, Lookup
  <2> QED
    BY <2>1, <2>3, <2>4
<1>4. CASE Advance
  <2>1. /\ UNCHANGED <<flow, whole, done>> /\ lpc = "next" /\ lpc' \in {"top", "lookup"}
        /\ lpc' = "lookup" => key' = NextKey(key) /\ key' # NoKey
    BY <1>4 DEF Advance, Walk, Onward, plane
  <2>2. ASSUME lpc' = "lookup", NEW x \in whole, Rank[x] < Rank[key'] PROVE x \in done
    <3>1. /\ key' \in After(key) /\ \A y \in After(key) : Rank[key'] <= Rank[y]
      BY <2>1, <2>2, NextKeyType, NextKeyIsLeast
    <3>2. x \notin After(key) /\ x \in Present
      BY <1>0, <2>2, <3>1, PresentFacts DEF After
    <3>3. key \in Present /\ Rank[x] <= Rank[key]
      BY <1>0, <3>2, PresentFacts DEF After
    <3> QED
      BY <2>1, <3>3
  <2>3. Present' = Present
    BY <2>1 DEF Present, Lookup
  <2> QED
    BY <2>1, <2>2, <2>3
<1>5. CASE CleanDelete
  <2>1. /\ whole' = whole \ {ckey} /\ UNCHANGED <<lpc, key, done>>
        /\ flow' = Delete(flow, ckey) /\ ckey \in IP /\ flow \in HashType(Nat)
    BY <1>5 DEF CleanDelete, loader, Typed
  <2>2. \A x \in IP \ {ckey} : Lookup(flow, x)' = Lookup(flow, x)
    BY <2>1 DEF Lookup, Delete, HashType
  <2>3. Present \ {ckey} \subseteq Present'
    BY <2>2 DEF Present
  <2> QED
    BY <2>1, <2>3
<1>6. CASE UNCHANGED <<flow, lpc, key, whole, done>>
  BY <1>6 DEF Present, Lookup
<1>7. CASE LoopTop \/ NotDue
  BY <1>7 DEF LoopTop, NotDue, Present, Lookup, plane
<1> QED
  BY <1>1, <1>2, <1>3, <1>4, <1>5, <1>6, <1>7
     DEF Next, LoaderStep, CleanerStep, Tick, Reload, CleanStart, CleanNext, vars, loader, plane

(***************************************************************************)
(* A walk that ends has reported every source that was in the map all the  *)
(* time (read_and_report_stats, loader.c:474-498), however many CPUs count *)
(* and whatever clean_maps deletes.                                        *)
(***************************************************************************)
THEOREM WalksAreComplete == Spec => PassComplete
<1> DEFINE Good == lpc = "next" /\ lpc' = "top" => whole \subseteq done
<1>1. Typed /\ Walked /\ [Next]_vars => [Good]_vars
  <2> SUFFICES ASSUME Typed, Walked, Next, lpc = "next", lpc' = "top"
               PROVE  whole \subseteq done
    OBVIOUS
  <2>1. Advance
    BY DEF Next, LoaderStep, CleanerStep, CpuStep, Arrive, Create, LoadCount, StoreCount, PlaneOnly,
           Tick, LoopTop, NotDue, Begin, LookupElem, Reload, CleanStart, CleanNext, CleanDelete,
           loader
  <2>2. After(key) = {}
    BY <2>1, NextKeyType DEF Advance, Walk, Onward
  <2>3. \A x \in IP : Rank[x] \in Nat
    BY ReportAssumption
  <2>4. \A x \in whole : key \in Present /\ Rank[x] <= Rank[key]
    BY <2>2, <2>3, PresentFacts DEF After, Walked
  <2> QED
    BY <2>4 DEF Walked
<1>2. Init => Walked
  BY DEF Init, Walked
<1> QED
  BY <1>1, <1>2, TypedInit, TypedNext, WalkedNext, PTL DEF Spec, PassComplete

-----------------------------------------------------------------------------
(***************************************************************************)
(* The types in full.  That they are kept takes one fact more: no element  *)
(* and no loaded value, together with the packets still on their way on    *)
(* any CPU, exceeds the packets that arrived, whichever element a stale    *)
(* pointer leads to.                                                       *)
(***************************************************************************)
OnTheWay == {c \in CPU : cpu[c].step # "idle"}

Paid ==
    /\ \A e \in Elem : flow.val[e] + Cardinality(OnTheWay) <= received
    /\ \A c \in CPU : cpu[c].step = "store" => cpu[c].num + Cardinality(OnTheWay) <= received

LEMMA OnTheWayFacts ==
    /\ IsFiniteSet(OnTheWay) /\ Cardinality(OnTheWay) \in Nat
    /\ \A c \in CPU : cpu[c].step # "idle" /\ OnTheWay' = OnTheWay \ {c} =>
           Cardinality(OnTheWay)' = Cardinality(OnTheWay) - 1
    /\ \A c \in CPU : cpu[c].step = "idle" /\ OnTheWay' = OnTheWay \cup {c} =>
           Cardinality(OnTheWay)' = Cardinality(OnTheWay) + 1
<1>1. IsFiniteSet(OnTheWay)
  BY FiniteAssumption, FS_Subset DEF OnTheWay
<1>2. Cardinality(OnTheWay) \in Nat
  BY <1>1, FS_CardinalityType
<1>3. ASSUME NEW c \in CPU, cpu[c].step # "idle", OnTheWay' = OnTheWay \ {c}
      PROVE  Cardinality(OnTheWay)' = Cardinality(OnTheWay) - 1
  <2>1. c \in OnTheWay
    BY <1>3 DEF OnTheWay
  <2>2. Cardinality(OnTheWay \ {c}) = Cardinality(OnTheWay) - 1
    BY <1>1, <2>1, FS_RemoveElement
  <2> QED
    BY <1>3, <2>2
<1>4. ASSUME NEW c \in CPU, cpu[c].step = "idle", OnTheWay' = OnTheWay \cup {c}
      PROVE  Cardinality(OnTheWay)' = Cardinality(OnTheWay) + 1
  BY <1>1, <1>4, FS_AddElement DEF OnTheWay
<1> QED
  BY <1>1, <1>2, <1>3, <1>4

LEMMA PaidCpu ==
    ASSUME Typed, Paid, NEW c \in CPU, CpuStep(c)
    PROVE  Paid'
<1> USE DEF Typed, CpuTyped
<1> DEFINE n == Cardinality(OnTheWay)
<1>1. /\ n \in Nat /\ flow.val \in [Elem -> Nat] /\ c \in Elem
      /\ \A x \in CPU : cpu[x].num \in Nat
  BY OnTheWayFacts DEF HashType, Elem
<1>2. \A e \in Elem : flow.val[e] + n <= received
  BY DEF Paid
<1>3. n <= received
  BY <1>1, <1>2
<1>4. \A x \in CPU : cpu[x].step = "store" => cpu[x].num + n <= received
  BY DEF Paid
<1>5. ASSUME NEW ip \in IP, Arrive(c, ip) PROVE Paid'
  <2>1. OnTheWay' = OnTheWay \cup {c} /\ cpu[c].step = "idle"
    BY <1>5 DEF Arrive, OnTheWay
  <2>2. Cardinality(OnTheWay)' = n + 1
    BY <2>1, OnTheWayFacts
  <2>3. /\ received' = received + 1 /\ flow' = flow
        /\ \A x \in CPU : cpu'[x].step = "store" => cpu[x].step = "store" /\ cpu'[x].num = cpu[x].num
    BY <1>5 DEF Arrive
  <2> QED
    BY <1>1, <1>2, <1>4, <2>2, <2>3 DEF Paid
<1>6. ASSUME OnTheWay' = OnTheWay \ {c}, cpu[c].step # "idle", received' = received,
             \A x \in CPU : cpu'[x].step = "store" => cpu[x].step = "store" /\ cpu'[x].num = cpu[x].num,
             NEW v \in Nat, v + n <= received + 1,
             \A e \in Elem : flow'.val[e] \in {flow.val[e], v}
      PROVE  Paid'
  <2>1. Cardinality(OnTheWay)' = n - 1
    BY <1>6, OnTheWayFacts
  <2>2. ASSUME NEW e \in Elem PROVE flow'.val[e] + (n - 1) <= received
    <3>1. flow'.val[e] = flow.val[e] \/ flow'.val[e] = v
      BY <1>6
    <3>2. flow.val[e] + n <= received /\ flow.val[e] \in Nat /\ received \in Nat
      BY <1>1, <1>2
    <3> QED
      BY <1>1, <1>6, <3>1, <3>2
  <2>3. ASSUME NEW x \in CPU, cpu'[x].step = "store" PROVE cpu'[x].num + (n - 1) <= received
    <3>1. cpu'[x].num = cpu[x].num /\ cpu[x].num + n <= received /\ cpu[x].num \in Nat
      BY <1>1, <1>4, <1>6, <2>3
    <3> QED
      BY <1>1, <3>1
  <2> QED
    BY <1>6, <2>1, <2>2, <2>3 DEF Paid
<1>7. CASE Create(c)
  <2>1. /\ OnTheWay' = OnTheWay \ {c} /\ cpu[c].step # "idle" /\ received' = received
        /\ \A x \in CPU : cpu'[x].step = "store" => cpu[x].step = "store" /\ cpu'[x].num = cpu[x].num
    BY <1>7 DEF Create, OnTheWay, Elsewhere
  <2>2. cpu[c].src \in IP /\ flow' \in Update(flow, c, cpu[c].src, 1) /\ flow \in HashType(Nat)
    BY <1>7, CpuFacts DEF Create
  <2>3. \A e \in Elem : flow'.val[e] \in {flow.val[e], 1}
    BY <2>2, UpdateKeeps
  <2> QED
    BY <1>1, <1>3, <1>6, <2>1, <2>3
<1>8. CASE LoadCount(c)
  <2>1. OnTheWay' = OnTheWay
    BY <1>8 DEF LoadCount, OnTheWay
  <2>2. /\ received' = received /\ flow' = flow /\ cpu[c].ptr \in Elem
        /\ cpu' = [cpu EXCEPT ![c].step = "store", ![c].num = flow.val[cpu[c].ptr]]
    BY <1>8, CpuFacts DEF LoadCount
  <2>3. \A x \in CPU : cpu'[x].step = "store" => cpu'[x].num + n <= received
    BY <1>2, <1>4, <2>2
  <2> QED
    BY <1>2, <2>1, <2>2, <2>3 DEF Paid
<1>9. CASE StoreCount(c)
  <2>1. /\ OnTheWay' = OnTheWay \ {c} /\ cpu[c].step # "idle" /\ received' = received
        /\ \A x \in CPU : cpu'[x].step = "store" => cpu[x].step = "store" /\ cpu'[x].num = cpu[x].num
    BY <1>9 DEF StoreCount, OnTheWay, Elsewhere
  <2>2. /\ cpu[c].num + 1 \in Nat /\ (cpu[c].num + 1) + n <= received + 1
        /\ \A e \in Elem : flow'.val[e] \in {flow.val[e], cpu[c].num + 1}
    BY <1>1, <1>4, <1>9 DEF StoreCount, Store, HashType
  <2> QED
    BY <1>6, <2>1, <2>2
<1> QED
  BY <1>5, <1>7, <1>8, <1>9 DEF CpuStep

LEMMA PaidNext == Typed /\ Paid /\ [Next]_vars => Paid'
<1> SUFFICES ASSUME Typed, Paid, [Next]_vars PROVE Paid'
  OBVIOUS
<1>1. CASE CleanDelete
  BY <1>1 DEF CleanDelete, Delete, Paid, OnTheWay, Typed, HashType
<1>2. CASE UNCHANGED <<flow, cpu, received>>
  BY <1>2 DEF Paid, OnTheWay
<1>3. \/ \E c \in CPU : CpuStep(c)
      \/ CleanDelete
      \/ UNCHANGED <<flow, cpu, received>>
  BY DEF Next, LoaderStep, CleanerStep, Tick, LoopTop, NotDue, Begin, LookupElem, Advance, Reload,
         CleanStart, CleanNext, vars, plane
<1> QED
  BY <1>1, <1>2, <1>3, PaidCpu

Low == received <= MaxPackets

Bounded ==
    /\ flow \in HashType(0..MaxPackets)
    /\ \A ip \in IP : Count(ip) \in 0..MaxPackets
    /\ \A c \in CPU : cpu[c].step = "store" => cpu[c].num \in 0..MaxPackets

LEMMA PaidBounds == Typed /\ Paid /\ Low => Bounded
<1> SUFFICES ASSUME Typed, Paid, Low PROVE Bounded
  OBVIOUS
<1>1. Cardinality(OnTheWay) \in Nat /\ MaxPackets \in Nat /\ received \in Nat
  BY OnTheWayFacts, ReportAssumption DEF Typed
<1>2. \A e \in Elem : flow.val[e] \in 0..MaxPackets
  BY <1>1 DEF Paid, Typed, HashType, Low
<1>3. flow \in HashType(0..MaxPackets)
  BY <1>2 DEF Typed, HashType
<1>4. \A c \in CPU : cpu[c].step = "store" => cpu[c].num \in 0..MaxPackets
  BY <1>1, CpuFacts DEF Paid, Low
<1>5. \A ip \in IP : Count(ip) \in 0..MaxPackets
  BY <1>1, <1>2, PresentFacts DEF Count
<1> QED
  BY <1>3, <1>4, <1>5 DEF Bounded

LEMMA BoundedNext == Typed /\ Paid /\ [Next]_vars /\ Low' => Bounded'
BY TypedNext, PaidNext, PaidBounds, PTL

LEMMA CpuSteps ==
    ASSUME Typed, NEW c \in CPU, CpuStep(c), received \in 0..MaxPackets
    PROVE  /\ PlaneOnly /\ received' \in 0..MaxPackets
           /\ \A x \in CPU : cpu'[x].step = "store" \/ cpu'[x].num \in {0, cpu[x].num}
<1>1. PlaneOnly
  BY DEF CpuStep, Arrive, Create, LoadCount, StoreCount
<1>2. received' \in 0..MaxPackets
  <2>1. ASSUME NEW ip \in IP, Arrive(c, ip) PROVE received' \in 0..MaxPackets
    BY <2>1, ReportAssumption DEF Arrive
  <2>2. CASE Create(c) \/ LoadCount(c) \/ StoreCount(c)
    BY <2>2 DEF Create, LoadCount, StoreCount
  <2> QED
    BY <2>1, <2>2 DEF CpuStep
<1>3. cpu \in [CPU -> [step : {"idle", "create", "load", "store"}, src : IP \cup {NoKey},
                      ptr : Elem \cup {NoElem}, num : Nat]]
  BY DEF Typed, CpuTyped
<1>4. \A x \in CPU : cpu'[x].step = "store" \/ cpu'[x].num \in {0, cpu[x].num}
  <2>1. ASSUME NEW ip \in IP, Arrive(c, ip), NEW x \in CPU PROVE cpu'[x].num \in {0, cpu[x].num}
    BY <1>3, <2>1 DEF Arrive
  <2>2. ASSUME Create(c) \/ StoreCount(c), NEW x \in CPU PROVE cpu'[x].num \in {0, cpu[x].num}
    BY <1>3, <2>2 DEF Create, StoreCount, Elsewhere
  <2>3. ASSUME LoadCount(c), NEW x \in CPU
        PROVE  cpu'[x].step = "store" \/ cpu'[x].num = cpu[x].num
    BY <1>3, <2>3 DEF LoadCount
  <2> QED
    BY <2>1, <2>2, <2>3 DEF CpuStep
<1> QED
  BY <1>1, <1>2, <1>4

LEMMA Quotient ==
    ASSUME NEW d \in Nat, NEW n \in Nat, n > 0
    PROVE  d \div n \in Nat /\ d \div n <= d
<1> DEFINE q == d \div n
           r == d % n
<1>1. q \in Int /\ r \in 0..n - 1 /\ d = n * q + r
  OBVIOUS
<1> HIDE DEF q, r
<1>2. q >= 0
  <2> SUFFICES ASSUME q <= -1 PROVE FALSE
    BY <1>1
  <2>1. n * q <= -n
    BY <1>1
  <2> QED
    BY <1>1, <2>1
<1>3. n * q >= q
  BY <1>1, <1>2
<1> QED
  BY <1>1, <1>2, <1>3 DEF q

LEMMA TypeInit == Init => TypeOK /\ Paid
<1> SUFFICES ASSUME Init PROVE TypeOK /\ Paid
  OBVIOUS
<1>1. MaxPackets \in Nat /\ flow \in HashType(0..MaxPackets)
  BY ReportAssumption DEF Init, EmptyHash, HashType, Elem
<1>2. TypeOK
  BY <1>1, ReportAssumption DEF Init, TypeOK, Epoch, Elsewhere
<1>3. OnTheWay = {} /\ Cardinality({}) = 0
  BY FS_EmptySet DEF Init, OnTheWay, Elsewhere
<1>4. Paid
  BY <1>3 DEF Init, Paid, EmptyHash, Elsewhere
<1> QED
  BY <1>2, <1>4

LEMMA TypeCpu ==
    ASSUME Typed, TypeOK, Paid, NEW c \in CPU, CpuStep(c)
    PROVE  TypeOK'
<1>0. MaxPackets \in Nat /\ received \in 0..MaxPackets
  BY ReportAssumption DEF TypeOK
<1>1. PlaneOnly /\ received' \in 0..MaxPackets
  BY <1>0, CpuSteps
<1>2. [Next]_vars /\ Low'
  BY <1>0, <1>1 DEF Next, Low
<1>3. Typed' /\ Bounded' /\ Present \subseteq Present'
  BY <1>2, TypedNext, BoundedNext, CpuKeepsPresent
<1>4. \A x \in CPU : cpu'[x].num \in 0..MaxPackets
  <2>1. \A x \in CPU : cpu'[x].step = "store" \/ cpu'[x].num \in {0, cpu[x].num}
    BY <1>0, CpuSteps
  <2>2. \A x \in CPU : cpu'[x].step = "store" => cpu'[x].num \in 0..MaxPackets
    BY <1>3 DEF Bounded
  <2>3. \A x \in CPU : cpu[x].num \in 0..MaxPackets
    BY DEF TypeOK
  <2> QED
    BY <1>0, <2>1, <2>2, <2>3
<1>5. CpuTyped'
  BY <1>3 DEF Typed
<1>6. cpu' \in [CPU -> [step : {"idle", "create", "load", "store"}, src : IP \cup {NoKey},
                       ptr : Elem \cup {NoElem}, num : 0..MaxPackets]]
  BY <1>4, <1>5 DEF CpuTyped
<1>7. \A x \in CPU : /\ cpu'[x].step # "idle" => cpu'[x].src \in IP
                     /\ cpu'[x].step \in {"load", "store"} => cpu'[x].ptr \in Elem
  BY <1>5 DEF CpuTyped
<1>8. flow' \in HashType(0..MaxPackets) /\ arrived' \in [IP -> Nat]
  BY <1>3 DEF Typed, Bounded
<1>9. served' \subseteq CPU
  BY DEF TypeOK, CpuStep, Arrive, Create, LoadCount, StoreCount
<1> QED
  BY <1>1, <1>3, <1>6, <1>7, <1>8, <1>9 DEF PlaneOnly, TypeOK, loader, reports, cleaner

LEMMA TypeWalk ==
    ASSUME Typed, TypeOK, Begin \/ Advance
    PROVE  TypeOK'
<1>1. /\ key' = NextKey(NoKey) \/ key' = NextKey(key)
      /\ whole' \in {Present, whole} /\ done' \in {{}, done}
      /\ \/ key' = NoKey /\ lpc' = "top" /\ last_stats_ts' = now
         \/ key' # NoKey /\ lpc' = "lookup" /\ UNCHANGED last_stats_ts
  BY DEF Begin, Advance, Onward, Walk
<1>2. key' \in IP \cup {NoKey} /\ (lpc' \in {"lookup", "next"} <=> key' # NoKey)
  BY <1>1, NextKeyType
<1>3. UNCHANGED <<flow, cpu, received, arrived, served, clock, stats_interval_sec, now, cache, pps, summed,
                  reportedAt, cpc, ckey, cleanings, reloads>>
  BY DEF Begin, Advance, plane, reports, cleaner
<1>4. whole' \subseteq Present' /\ done' \subseteq IP
  <2>1. Present' = Present
    BY <1>3 DEF Present, Lookup
  <2> QED
    BY <1>1, <2>1 DEF TypeOK
<1>5. lpc' \in {"top", "due", "lookup", "next"} /\ now' \in 0..clock' /\ last_stats_ts' \in 0..now'
  <2>1. now \in 0..clock /\ last_stats_ts \in 0..now /\ clock \in Nat
    BY ReportAssumption DEF TypeOK, Epoch
  <2>2. now \in 0..now
    BY <2>1
  <2> QED
    BY <1>1, <1>3, <2>1, <2>2
<1> QED
  BY <1>2, <1>3, <1>4, <1>5 DEF TypeOK

LEMMA TypeLookup ==
    ASSUME Typed, TypeOK, Paid, LookupElem
    PROVE  TypeOK'
<1>0. MaxPackets \in Nat /\ Low /\ Bounded /\ key \in IP
  <2>1. MaxPackets \in Nat
    BY ReportAssumption
  <2>2. Low
    BY <2>1 DEF TypeOK, Low
  <2>3. key \in IP
    BY DEF Typed, LookupElem
  <2> QED
    BY <2>1, <2>2, <2>3, PaidBounds
<1>1. Present' = Present /\ lpc' = "next" /\ lpc = "lookup"
  BY DEF LookupElem, Present, Lookup, plane
<1>2. CASE key \in Present
  <2> DEFINE d == IF cache[key] = -1 THEN 0 ELSE Difference(Count(key), cache[key])
             n == IF stats_interval_sec > 0 THEN stats_interval_sec ELSE 1
  <2>1. Count(key) \in 0..MaxPackets
    BY <1>0 DEF Bounded
  <2>2. cache[key] \in -1..MaxPackets /\ stats_interval_sec \in Nat
    BY <1>0, ReportAssumption DEF TypeOK
  <2>3. d \in 0..MaxPackets
    BY <1>0, <2>1, <2>2 DEF Difference
  <2>4. n \in Nat /\ n > 0
    BY <2>2
  <2>5. /\ cache' = [cache EXCEPT ![key] = Count(key)] /\ summed' = [summed EXCEPT ![key] = @ + d]
        /\ pps' = [pps EXCEPT ![key] = d \div n] /\ reportedAt' = [reportedAt EXCEPT ![key] = clock]
        /\ done' = done \cup {key}
    BY <1>2 DEF LookupElem, ReportFlow, Rate
  <2> HIDE DEF d, n
  <2>6. d \div n \in 0..MaxPackets
    <3>1. d \div n \in Nat /\ d \div n <= d
      BY <2>3, <2>4, Quotient
    <3> QED
      BY <1>0, <2>3, <3>1
  <2>7. cache' \in [IP -> -1..MaxPackets]
    BY <1>0, <2>1, <2>5 DEF TypeOK
  <2>8. summed' \in [IP -> Nat]
    BY <1>0, <2>3, <2>5 DEF TypeOK
  <2>9. pps' \in [IP -> 0..MaxPackets] /\ reportedAt' \in [IP -> 0..clock]
    <3>1. clock \in Nat
      BY ReportAssumption DEF TypeOK, Epoch
    <3> QED
      BY <1>0, <2>5, <2>6, <3>1 DEF TypeOK
  <2> QED
    BY <1>0, <1>1, <2>5, <2>7, <2>8, <2>9 DEF LookupElem, TypeOK, plane, cleaner
<1>3. CASE key \notin Present
  BY <1>1, <1>3 DEF LookupElem, TypeOK, plane, reports, cleaner
<1> QED
  BY <1>2, <1>3

LEMMA TypeNext == Typed /\ TypeOK /\ Paid /\ [Next]_vars => TypeOK'
<1> SUFFICES ASSUME Typed, TypeOK, Paid, [Next]_vars PROVE TypeOK'
  OBVIOUS
<1>1. ASSUME NEW c \in CPU, CpuStep(c) PROVE TypeOK'
  BY <1>1, TypeCpu
<1>5. CASE Begin \/ Advance
  BY <1>5, TypeWalk
<1>6. CASE LookupElem
  BY <1>6, TypeLookup
<1> USE DEF TypeOK, plane, loader, reports, cleaner
<1>0. MaxPackets \in Nat /\ MaxTime \in Nat /\ Epoch \in Nat /\ MaxCleanings \in Nat /\ MaxReloads \in Nat
      /\ NoKey \notin IP
  BY ReportAssumption DEF Epoch
<1>p. flow' = flow => Present' = Present
  BY DEF Present, Lookup
<1>2. CASE Tick
  BY <1>0, <1>2, <1>p DEF Tick
<1>3. CASE LoopTop
  BY <1>0, <1>3, <1>p DEF LoopTop
<1>4. CASE NotDue
  BY <1>4, <1>p DEF NotDue
<1>8. ASSUME NEW n \in Intervals, Reload(n) PROVE TypeOK'
  BY <1>0, <1>8, <1>p DEF Reload
<1>9. CASE CleanStart
  BY <1>0, <1>9, <1>p DEF CleanStart
<1>10. CASE CleanNext
  BY <1>10, <1>p, NextKeyType DEF CleanNext
<1>11. CASE CleanDelete
  <2>1. /\ ckey \in IP /\ flow' = Delete(flow, ckey) /\ whole' = whole \ {ckey}
        /\ UNCHANGED <<cpu, received, arrived, served, clock, stats_interval_sec, loader, reports, ckey,
                       cleanings, reloads, done>>
    BY <1>11 DEF CleanDelete, Typed
  <2>2. \A x \in IP \ {ckey} : Lookup(flow, x)' = Lookup(flow, x)
    BY <2>1 DEF Lookup, Delete, HashType
  <2>3. Present \ {ckey} \subseteq Present'
    BY <2>2 DEF Present
  <2>4. flow' \in HashType(0..MaxPackets)
    BY <2>1 DEF Delete, HashType
  <2> QED
    BY <1>11, <2>1, <2>3, <2>4 DEF CleanDelete
<1>12. CASE UNCHANGED vars
  BY <1>12, <1>p DEF vars
<1> QED
  BY <1>1, <1>2, <1>3, <1>4, <1>5, <1>6, <1>8, <1>9, <1>10, <1>11, <1>12
     DEF Next, LoaderStep, CleanerStep

(***************************************************************************)
(* The types, among them: the walk has a key exactly while it is under way,*)
(* no report is from the future, and no count of the map and no rate       *)
(* exceeds the packets of all sources (read_and_report_stats,              *)
(* loader.c:474-498), on any number of CPUs.                               *)
(***************************************************************************)
THEOREM TypesAreKept == Spec => []TypeOK
BY TypedInit, TypedNext, TypeInit, TypeNext, PaidNext, PTL DEF Spec
=============================================================================
