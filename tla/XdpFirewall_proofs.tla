------------------------- MODULE XdpFirewall_proofs -------------------------
(***************************************************************************)
(* Theorems about the XDP data plane, for any number of CPUs and sources,  *)
(* any map and ring size and any thresholds: type correctness, and the     *)
(* accounting of check_syn_flood.                                          *)
(***************************************************************************)
EXTENDS XdpFirewall, Totals_proofs

(***************************************************************************)
(* The operators of the kernel's hash map keep a map well formed.          *)
(***************************************************************************)
LEMMA EmptyHashType ==
    ASSUME NEW V, NEW v \in V
    PROVE  EmptyHash(v) \in HashType(V)
BY DEF EmptyHash, HashType, Elem

LEMMA LookupType ==
    ASSUME NEW V, NEW h \in HashType(V), NEW k \in IP
    PROVE  Lookup(h, k) \in Elem \cup {NoElem}
BY DEF Lookup, HashType

LEMMA ValueType ==
    ASSUME NEW V, NEW h \in HashType(V), NEW e \in Elem
    PROVE  h.val[e] \in V
BY DEF HashType

LEMMA StoreType ==
    ASSUME NEW V, NEW h \in HashType(V), NEW e \in Elem, NEW v \in V
    PROVE  Store(h, e, v) \in HashType(V)
BY DEF Store, HashType

\* The three things an update may do.
LEMMA UpdateCases ==
    ASSUME NEW V, NEW h \in HashType(V), NEW c \in CPU, NEW k \in IP, NEW v,
           NEW hn \in Update(h, c, k, v)
    PROVE  \/ h.at[k] \in Elem /\ hn = Replace(h, c, k, v)
           \/ hn = h
           \/ h.at[k] = NoElem /\ \E e \in Free(h) : hn = Insert(h, k, e, v)
BY DEF Update, HashType

LEMMA UpdateType ==
    ASSUME NEW V, NEW h \in HashType(V), NEW c \in CPU, NEW k \in IP, NEW v \in V,
           NEW hn \in Update(h, c, k, v)
    PROVE  hn \in HashType(V)
<1>1. CASE h.at[k] \in Elem /\ hn = Replace(h, c, k, v)
  <2>1. h.spare[c] \in Elem
    BY DEF HashType
  <2> QED BY <1>1, <2>1 DEF Replace, HashType
<1>2. ASSUME NEW e \in Free(h), hn = Insert(h, k, e, v) PROVE hn \in HashType(V)
  <2>1. e \in Elem
    BY DEF Free
  <2> QED BY <1>2, <2>1 DEF Insert, HashType
<1> QED BY <1>1, <1>2, UpdateCases

LEMMA DeleteType ==
    ASSUME NEW V, NEW h \in HashType(V), NEW k \in IP
    PROVE  Delete(h, k) \in HashType(V)
BY DEF Delete, HashType

(***************************************************************************)
(* No element serves two keys, or a key and a CPU's next replacement.      *)
(***************************************************************************)
Disjoint(h) ==
    /\ \A j, k \in IP : h.at[j] = h.at[k] /\ h.at[j] # NoElem => j = k
    /\ \A b, c \in CPU : h.spare[b] = h.spare[c] => b = c
    /\ \A k \in IP, c \in CPU : h.at[k] # h.spare[c]

LEMMA EmptyDisjoint == ASSUME NEW v PROVE Disjoint(EmptyHash(v))
BY NoElemAssumption DEF Disjoint, EmptyHash

LEMMA StoreDisjoint ==
    ASSUME NEW V, NEW h \in HashType(V), Disjoint(h), NEW e, NEW v
    PROVE  Disjoint(Store(h, e, v))
BY DEF Disjoint, Store, HashType

LEMMA DeleteDisjoint ==
    ASSUME NEW V, NEW h \in HashType(V), Disjoint(h), NEW k \in IP
    PROVE  Disjoint(Delete(h, k))
<1>1. \A c \in CPU : h.spare[c] \in Elem /\ h.spare[c] # NoElem
  BY NoElemAssumption DEF HashType, Elem
<1> QED BY <1>1 DEF Disjoint, Delete, HashType

LEMMA UpdateDisjoint ==
    ASSUME NEW V, NEW h \in HashType(V), Disjoint(h), NEW c \in CPU, NEW k \in IP, NEW v,
           NEW hn \in Update(h, c, k, v)
    PROVE  Disjoint(hn)
<1>1. CASE h.at[k] \in Elem /\ hn = Replace(h, c, k, v)
  BY <1>1, NoElemAssumption DEF Replace, Disjoint, HashType, Elem
<1>2. ASSUME NEW e \in Free(h), hn = Insert(h, k, e, v) PROVE Disjoint(hn)
  <2>1. e \in Elem /\ (\A j \in IP : h.at[j] # e) /\ \A b \in CPU : h.spare[b] # e
    BY DEF Free
  <2> QED BY <1>2, <2>1 DEF Insert, Disjoint, HashType
<1> QED BY <1>1, <1>2, UpdateCases

\* An update writes one element, if it writes at all.
LEMMA UpdateWrites ==
    ASSUME NEW V, NEW h \in HashType(V), NEW c \in CPU, NEW k \in IP, NEW v,
           NEW hn \in Update(h, c, k, v)
    PROVE  hn = h \/ \E e \in Elem : hn.val = [h.val EXCEPT ![e] = v]
<1>1. CASE h.at[k] \in Elem /\ hn = Replace(h, c, k, v)
  <2>1. h.spare[c] \in Elem /\ hn.val = [h.val EXCEPT ![h.spare[c]] = v]
    BY <1>1 DEF Replace, HashType
  <2> QED BY <2>1
<1>2. ASSUME NEW e \in Free(h), hn = Insert(h, k, e, v)
      PROVE  \E x \in Elem : hn.val = [h.val EXCEPT ![x] = v]
  <2>1. e \in Elem /\ hn.val = [h.val EXCEPT ![e] = v]
    BY <1>2 DEF Free, Insert, HashType
  <2> QED BY <2>1
<1> QED BY <1>1, <1>2, UpdateCases

\* It leaves the entries of the other keys alone, their values included.
LEMMA UpdateElsewhere ==
    ASSUME NEW V, NEW h \in HashType(V), Disjoint(h), NEW c \in CPU, NEW k \in IP, NEW v,
           NEW hn \in Update(h, c, k, v), NEW other \in IP, other # k
    PROVE  /\ Lookup(hn, other) = Lookup(h, other)
           /\ Lookup(h, other) # NoElem =>
                  hn.val[Lookup(h, other)] = h.val[Lookup(h, other)]
<1>1. CASE h.at[k] \in Elem /\ hn = Replace(h, c, k, v)
  <2>1. h.at[other] # h.spare[c] /\ hn.at[other] = h.at[other]
    BY <1>1 DEF Disjoint, Replace, HashType
  <2>2. ASSUME h.at[other] # NoElem PROVE hn.val[h.at[other]] = h.val[h.at[other]]
    BY <1>1, <2>1, <2>2 DEF Replace, HashType
  <2> QED BY <2>1, <2>2 DEF Lookup
<1>2. ASSUME NEW e \in Free(h), hn = Insert(h, k, e, v)
      PROVE  /\ hn.at[other] = h.at[other]
             /\ h.at[other] # NoElem => hn.val[h.at[other]] = h.val[h.at[other]]
  <2>1. h.at[other] # e
    BY DEF Free
  <2> QED BY <1>2, <2>1 DEF Insert, HashType
<1> QED BY <1>1, <1>2, UpdateCases DEF Lookup

LEMMA StoreElsewhere ==
    ASSUME NEW V, NEW h \in HashType(V), NEW e, NEW v, NEW k \in IP
    PROVE  /\ Lookup(Store(h, e, v), k) = Lookup(h, k)
           /\ Lookup(h, k) # NoElem /\ Lookup(h, k) # e =>
                  Store(h, e, v).val[Lookup(h, k)] = h.val[Lookup(h, k)]
BY DEF Store, Lookup, HashType

-----------------------------------------------------------------------------
(***************************************************************************)
(* A CPU that is not idle handles a packet of the environment, so the      *)
(* source it reads is an address and the port and size are numbers.        *)
(***************************************************************************)
LEMMA BusyPacket ==
    ASSUME TypeOK, NEW c \in CPU, pc[c] # "idle"
    PROVE  /\ pkt[c] \in Packet /\ src(c) \in IP
           /\ pkt[c].port \in Nat /\ pkt[c].size \in Nat
BY PacketAssumption DEF TypeOK, LocalTypes, src

LEMMA RingType ==
    ASSUME TypeOK, NEW ip \in IP, NEW type \in {"syn_flood", "port_scan"},
           RingOutput(ip, type)
    PROVE  /\ ring' \in Seq([src : IP, type : {"syn_flood", "port_scan"}])
           /\ Len(ring') <= RingSize
<1> DEFINE Record == [src : IP, type : {"syn_flood", "port_scan"}]
           record == [src |-> ip, type |-> type]
<1>1. record \in Record
  OBVIOUS
<1>2. ring \in Seq(Record) /\ Len(ring) <= RingSize /\ RingSize \in Nat
  BY ParameterAssumption DEF TypeOK, MapTypes
<1>3. ring' = IF Len(ring) < RingSize THEN Append(ring, record) ELSE ring
  BY DEF RingOutput
<1> HIDE DEF Record, record
<1>4. ring' \in Seq(Record) /\ Len(ring') <= RingSize
  BY <1>1, <1>2, <1>3
<1> QED BY <1>4 DEF Record

LEMMA TypeInit == Init => TypeOK
<1> SUFFICES ASSUME Init PROVE TypeOK
  OBVIOUS
<1>1. scan \in HashType(SUBSET LowPort)
  BY EmptyHashType DEF Init
<1>2. flow \in HashType(FlowValue)
  BY EmptyHashType DEF Init, NoTraffic, FlowValue
<1>3. MapTypes
  BY <1>1, <1>2, ParameterAssumption DEF Init, MapTypes, Zero
<1>4. LocalTypes
  BY DEF Init, LocalTypes, Steps, PtrSteps, PortSteps
<1>5. HistoryTypes
  BY DEF Init, HistoryTypes, Zero, NoTraffic, FlowValue
<1> QED BY <1>3, <1>4, <1>5 DEF TypeOK

LEMMA EnterType ==
    ASSUME TypeOK, NEW c \in CPU, NEW p \in Packet, Enter(c, p)
    PROVE  TypeOK'
<1>1. MapTypes'
  BY DEF TypeOK, Enter, MapTypes, maps
<1>2. LocalTypes'
  BY PacketAssumption DEF TypeOK, Enter, LocalTypes, Steps, PtrSteps, PortSteps, FirstStep, IsSyn
<1>3. HistoryTypes'
  BY DEF TypeOK, Enter, HistoryTypes, synHist, scanHist
<1> QED BY <1>1, <1>2, <1>3 DEF TypeOK

LEMMA CheckSynFloodType ==
    ASSUME TypeOK, NEW c \in CPU, CheckSynFlood(c)
    PROVE  TypeOK'
<1> DEFINE ip == src(c)
<1>0. ip \in IP
  BY BusyPacket DEF CheckSynFlood
<1>1. syn' \in [CPU -> [IP -> 0..SynThreshold]] /\ synKeys' \in SUBSET IP
  <2>1. CASE SynCount(c, ip)
    BY <1>0, <2>1, ParameterAssumption DEF TypeOK, MapTypes, SynCount, SynTripped
  <2>2. CASE SynAlert(c, ip)
    BY <1>0, <2>2, ParameterAssumption DEF TypeOK, MapTypes, SynAlert
  <2>3. CASE SynFirst(c, ip)
    <3> HIDE DEF ip
    <3>1. CASE UNCHANGED <<synKeys, syn>>
      BY <3>1 DEF TypeOK, MapTypes
    <3>2. CASE ~UNCHANGED <<synKeys, syn>>
      <4>1. synKeys' = synKeys \cup {ip}
        BY <2>3, <3>2 DEF SynFirst
      <4>2. syn' = [d \in CPU |-> [syn[d] EXCEPT ![ip] = IF d = c THEN 1 ELSE 0]]
        BY <2>3, <3>2 DEF SynFirst
      <4>3. \A d \in CPU : [syn[d] EXCEPT ![ip] = IF d = c THEN 1 ELSE 0]
                              \in [IP -> 0..SynThreshold]
        <5> TAKE d \in CPU
        <5>1. syn[d] \in [IP -> 0..SynThreshold]
          BY DEF TypeOK, MapTypes
        <5>2. (IF d = c THEN 1 ELSE 0) \in 0..SynThreshold
          BY ParameterAssumption
        <5> QED BY <5>1, <5>2
      <4> QED BY <1>0, <4>1, <4>2, <4>3 DEF TypeOK, MapTypes
    <3> QED BY <3>1, <3>2
  <2> QED BY <2>1, <2>2, <2>3 DEF CheckSynFlood
<1>2. /\ ring' \in Seq([src : IP, type : {"syn_flood", "port_scan"}])
      /\ Len(ring') <= RingSize
  <2>1. CASE UNCHANGED ring
    BY <2>1 DEF TypeOK, MapTypes
  <2>2. CASE SynAlert(c, ip)
    <3>1. RingOutput(ip, "syn_flood")
      BY <2>2 DEF SynAlert
    <3> HIDE DEF ip
    <3> QED BY <1>0, <3>1, RingType
  <2> QED BY <2>1, <2>2 DEF CheckSynFlood, SynCount, SynFirst
<1>3. MapTypes'
  BY <1>1, <1>2 DEF TypeOK, MapTypes, CheckSynFlood
<1>4. LocalTypes'
  BY DEF TypeOK, CheckSynFlood, LocalTypes, local, Goto, Steps, PtrSteps, PortSteps
<1>5. synAlerts' \in [CPU -> [IP -> Nat]]
  <2>1. CASE SynAlert(c, ip)
    BY <1>0, <2>1 DEF TypeOK, HistoryTypes, SynAlert
  <2>2. CASE UNCHANGED synAlerts
    BY <2>2 DEF TypeOK, HistoryTypes
  <2> QED BY <2>1, <2>2 DEF CheckSynFlood, SynCount, SynFirst
<1>6. synSeen' \in [CPU -> [IP -> Nat]]
  BY <1>0 DEF TypeOK, CheckSynFlood, HistoryTypes
<1>7. HistoryTypes'
  BY <1>5, <1>6 DEF TypeOK, CheckSynFlood, HistoryTypes, bounds, scanHist
<1> QED BY <1>3, <1>4, <1>7 DEF TypeOK

(***************************************************************************)
(* check_port_scan.                                                        *)
(***************************************************************************)
LEMMA ScanFoundType ==
    ASSUME TypeOK, NEW c \in CPU, pc[c] \in {"scan", "scanAgain"},
           NEW e \in Elem, ScanFound(c, e), UNCHANGED <<pkt, bits, num, idx, total>>
    PROVE  LocalTypes'
BY DEF TypeOK, LocalTypes, ScanFound, Goto, Steps, PtrSteps, PortSteps

LEMMA ScanLookupType ==
    ASSUME TypeOK, NEW c \in CPU, ScanLookup(c) \/ ScanRelookup(c)
    PROVE  TypeOK'
<1>1. MapTypes' /\ HistoryTypes'
  BY DEF TypeOK, ScanLookup, ScanRelookup, MapTypes, maps, HistoryTypes, bounds, synHist, scanHist
<1> DEFINE e == Lookup(scan, src(c))
<1>2. e \in Elem \cup {NoElem}
  BY BusyPacket, LookupType DEF TypeOK, MapTypes, ScanLookup, ScanRelookup
<1>3. LocalTypes'
  <2>1. CASE e = NoElem
    BY <2>1 DEF TypeOK, ScanLookup, ScanRelookup, LocalTypes, Goto, Steps, PtrSteps, PortSteps
  <2>2. CASE e # NoElem
    <3>1. /\ pc[c] \in {"scan", "scanAgain"} /\ ScanFound(c, e)
          /\ UNCHANGED <<pkt, bits, num, idx, total>>
      BY <2>2 DEF ScanLookup, ScanRelookup
    <3> HIDE DEF e
    <3> QED BY <1>2, <2>2, <3>1, ScanFoundType
  <2> QED BY <2>1, <2>2
<1> QED BY <1>1, <1>3 DEF TypeOK

LEMMA ScanCreateType ==
    ASSUME TypeOK, NEW c \in CPU, ScanCreate(c)
    PROVE  TypeOK'
<1>1. scan' \in HashType(SUBSET LowPort)
  <2>1. src(c) \in IP /\ scan \in HashType(SUBSET LowPort) /\ {} \in SUBSET LowPort
    BY BusyPacket DEF ScanCreate, TypeOK, MapTypes
  <2>2. scan' \in Update(scan, c, src(c), {})
    BY DEF ScanCreate
  <2> QED BY <2>1, <2>2, UpdateType
<1>2. MapTypes'
  BY <1>1 DEF TypeOK, ScanCreate, MapTypes
<1>3. LocalTypes'
  BY DEF TypeOK, ScanCreate, LocalTypes, local, Goto, Steps, PtrSteps, PortSteps
<1>4. HistoryTypes'
  BY DEF TypeOK, ScanCreate, HistoryTypes, bounds, synHist, scanHist
<1> QED BY <1>2, <1>3, <1>4 DEF TypeOK

\* The bitmap a CPU points to in the steps that use it.
LEMMA BitmapType ==
    ASSUME TypeOK, NEW c \in CPU, pc[c] \in PortSteps
    PROVE  ptr[c] \in Elem /\ scan.val[ptr[c]] \in SUBSET LowPort
<1>1. ptr[c] \in Elem
  BY DEF TypeOK, LocalTypes, PtrSteps
<1>2. scan \in HashType(SUBSET LowPort)
  BY DEF TypeOK, MapTypes
<1> QED BY <1>1, <1>2, ValueType

LEMMA ScanLoadType ==
    ASSUME TypeOK, NEW c \in CPU, ScanLoad(c)
    PROVE  TypeOK'
<1>1. scan.val[ptr[c]] \in SUBSET LowPort
  BY BitmapType DEF ScanLoad, PortSteps
<1>2. MapTypes' /\ HistoryTypes'
  BY DEF TypeOK, ScanLoad, MapTypes, maps, HistoryTypes, bounds, synHist, scanHist
<1>3. LocalTypes'
  BY <1>1 DEF TypeOK, ScanLoad, LocalTypes, Goto, Steps, PtrSteps, PortSteps
<1> QED BY <1>2, <1>3 DEF TypeOK

LEMMA ScanStoreType ==
    ASSUME TypeOK, NEW c \in CPU, ScanStore(c)
    PROVE  TypeOK'
<1> DEFINE port == pkt[c].port
           bitmap == (scan.val[ptr[c]] \ WordBits(WordOf(port))) \cup bits[c] \cup {port}
<1>1. ptr[c] \in Elem /\ scan.val[ptr[c]] \in SUBSET LowPort
  BY BitmapType DEF ScanStore, PortSteps
<1>2. src(c) \in IP /\ port \in LowPort
  BY BusyPacket DEF TypeOK, LocalTypes, ScanStore, PortSteps
<1>3. bitmap \in SUBSET LowPort
  BY <1>1, <1>2 DEF TypeOK, LocalTypes
<1>4. scan' = Store(scan, ptr[c], bitmap)
  BY DEF ScanStore
<1>5. scan' \in HashType(SUBSET LowPort)
  <2> HIDE DEF bitmap
  <2> QED BY <1>1, <1>3, <1>4, StoreType DEF TypeOK, MapTypes
<1>6. MapTypes'
  BY <1>5 DEF TypeOK, ScanStore, MapTypes
<1>7. LocalTypes'
  BY DEF TypeOK, ScanStore, LocalTypes, Goto, Steps, PtrSteps, PortSteps
<1>8. HistoryTypes'
  BY <1>2 DEF TypeOK, ScanStore, HistoryTypes, bounds, synHist, Bump
<1> QED BY <1>6, <1>7, <1>8 DEF TypeOK

LEMMA ScanCountType ==
    ASSUME TypeOK, NEW c \in CPU, ScanCount(c)
    PROVE  TypeOK'
<1> DEFINE set == scan.val[ptr[c]] \cap WordBits(idx[c])
<1>1. set \subseteq LowPort
  BY BitmapType DEF ScanCount, PortSteps
<1>2. IsFiniteSet(LowPort)
  BY ParameterAssumption, FS_Interval DEF LowPort
<1>3. Cardinality(set) \in Nat
  <2> HIDE DEF set
  <2> QED BY <1>1, <1>2, FS_Subset, FS_CardinalityType
<1>4. MapTypes' /\ HistoryTypes'
  BY DEF TypeOK, ScanCount, MapTypes, maps, HistoryTypes, bounds, synHist, scanHist
<1>5. total' = [total EXCEPT ![c] = @ + Cardinality(set)]
  BY DEF ScanCount
<1>6. total' \in [CPU -> Nat]
  <2> HIDE DEF set
  <2> QED BY <1>3, <1>5 DEF TypeOK, LocalTypes
<1>7. pc' \in [CPU -> Steps] /\ \A d \in CPU : d # c => pc'[d] = pc[d]
  BY DEF TypeOK, ScanCount, LocalTypes, Goto, Steps, PtrSteps, PortSteps
<1>8. pc'[c] \in {"scanCount", "scanAlert", "flow"} /\ pc[c] = "scanCount"
  BY DEF TypeOK, ScanCount, LocalTypes, Goto
<1>9. idx' \in [CPU -> Nat]
  BY DEF TypeOK, ScanCount, LocalTypes, NextWord
<1>10. UNCHANGED <<pkt, ptr, bits, num>>
  BY DEF ScanCount
<1>11. LocalTypes'
  BY <1>6, <1>7, <1>8, <1>9, <1>10 DEF TypeOK, LocalTypes, PtrSteps, PortSteps
<1> QED BY <1>4, <1>11 DEF TypeOK

LEMMA ScanAlertType ==
    ASSUME TypeOK, NEW c \in CPU, ScanAlert(c)
    PROVE  TypeOK'
<1>1. src(c) \in IP
  BY BusyPacket DEF ScanAlert
<1>2. RingOutput(src(c), "port_scan")
  BY DEF ScanAlert
<1>3. /\ ring' \in Seq([src : IP, type : {"syn_flood", "port_scan"}])
      /\ Len(ring') <= RingSize
  BY <1>1, <1>2, RingType
<1>4. MapTypes'
  BY <1>3 DEF TypeOK, ScanAlert, MapTypes
<1>5. LocalTypes'
  BY DEF TypeOK, ScanAlert, LocalTypes, Goto, Steps, PtrSteps, PortSteps
<1>6. HistoryTypes'
  BY <1>1 DEF TypeOK, ScanAlert, HistoryTypes, bounds, synHist, Bump
<1> QED BY <1>4, <1>5, <1>6 DEF TypeOK

LEMMA ScanClearType ==
    ASSUME TypeOK, NEW c \in CPU, ScanClear(c)
    PROVE  TypeOK'
<1> DEFINE bitmap == WordCleared(scan.val[ptr[c]], idx[c])
<1>1. ptr[c] \in Elem /\ bitmap \in SUBSET LowPort
  BY BitmapType DEF ScanClear, PortSteps, WordCleared
<1>2. scan' = Store(scan, ptr[c], bitmap)
  BY DEF ScanClear
<1>3. scan' \in HashType(SUBSET LowPort)
  <2> HIDE DEF bitmap
  <2> QED BY <1>1, <1>2, StoreType DEF TypeOK, MapTypes
<1>4. MapTypes'
  BY <1>3 DEF TypeOK, ScanClear, MapTypes
<1>5. LocalTypes'
  BY DEF TypeOK, ScanClear, LocalTypes, NextWord, Goto, Steps, PtrSteps, PortSteps
<1>6. HistoryTypes'
  BY DEF TypeOK, ScanClear, HistoryTypes, bounds, synHist, scanHist
<1> QED BY <1>4, <1>5, <1>6 DEF TypeOK

(***************************************************************************)
(* update_flow_stats.                                                      *)
(***************************************************************************)
LEMMA FlowLookupType ==
    ASSUME TypeOK, NEW c \in CPU, FlowLookup(c)
    PROVE  TypeOK'
<1> DEFINE e == Lookup(flow, src(c))
<1>1. src(c) \in IP /\ pkt[c].size \in Nat
  BY BusyPacket DEF FlowLookup
<1>2. e \in Elem \cup {NoElem}
  BY <1>1, LookupType DEF TypeOK, MapTypes
<1>3. MapTypes'
  BY DEF TypeOK, FlowLookup, MapTypes, maps
<1>4. /\ ptr' = [ptr EXCEPT ![c] = e]
      /\ pc' = [pc EXCEPT ![c] = IF e = NoElem THEN "flowNew" ELSE "flowLoadPkts"]
      /\ pc[c] = "flow" /\ UNCHANGED <<pkt, bits, num, idx, total>>
  BY DEF FlowLookup, Goto
<1>5. LocalTypes'
  <2> HIDE DEF e
  <2> QED BY <1>2, <1>4 DEF TypeOK, LocalTypes, Steps, PtrSteps, PortSteps
<1>6. arrived' \in [IP -> FlowValue]
  BY <1>1 DEF TypeOK, FlowLookup, HistoryTypes, FlowValue
<1>7. HistoryTypes'
  BY <1>6 DEF TypeOK, FlowLookup, HistoryTypes, bounds, synHist, scanHist
<1> QED BY <1>3, <1>5, <1>7 DEF TypeOK

LEMMA FlowCreateType ==
    ASSUME TypeOK, NEW c \in CPU, FlowCreate(c)
    PROVE  TypeOK'
<1> DEFINE v == FirstStats(pkt[c].size)
<1>1. src(c) \in IP /\ pkt[c].size \in Nat
  BY BusyPacket DEF FlowCreate
<1>2. v \in FlowValue
  BY <1>1 DEF FirstStats, FlowValue
<1>3. flow' \in Update(flow, c, src(c), v)
  BY DEF FlowCreate
<1>4. flow' \in HashType(FlowValue)
  <2> HIDE DEF v
  <2> QED BY <1>1, <1>2, <1>3, UpdateType DEF TypeOK, MapTypes
<1>5. MapTypes'
  BY <1>4 DEF TypeOK, FlowCreate, MapTypes
<1>6. LocalTypes'
  BY DEF TypeOK, FlowCreate, LocalTypes, local, Goto, Steps, PtrSteps, PortSteps
<1>7. HistoryTypes'
  BY DEF TypeOK, FlowCreate, HistoryTypes, bounds, synHist, scanHist
<1> QED BY <1>5, <1>6, <1>7 DEF TypeOK

\* The entry a CPU points to while it increments the counters.
LEMMA StatsType ==
    ASSUME TypeOK, NEW c \in CPU, pc[c] \in PtrSteps
    PROVE  /\ ptr[c] \in Elem
           /\ flow.val[ptr[c]] \in FlowValue
           /\ num[c] \in Nat
<1>1. ptr[c] \in Elem /\ num[c] \in Nat
  BY DEF TypeOK, LocalTypes
<1>2. flow \in HashType(FlowValue)
  BY DEF TypeOK, MapTypes
<1> QED BY <1>1, <1>2, ValueType

LEMMA FlowLoadType ==
    ASSUME TypeOK, NEW c \in CPU, FlowLoadPkts(c) \/ FlowLoadBytes(c)
    PROVE  TypeOK'
<1> DEFINE v == flow.val[ptr[c]]
<1>1. v \in FlowValue
  BY StatsType DEF FlowLoadPkts, FlowLoadBytes, FlowLoad, PtrSteps
<1>2. v.pkts \in Nat /\ v.bytes \in Nat
  BY <1>1 DEF FlowValue
<1>3. \E n \in Nat : num' = [num EXCEPT ![c] = n]
  BY <1>2 DEF FlowLoadPkts, FlowLoadBytes, FlowLoad
<1>4. MapTypes' /\ HistoryTypes'
  BY DEF TypeOK, FlowLoadPkts, FlowLoadBytes, FlowLoad, MapTypes, maps, HistoryTypes,
         bounds, synHist, scanHist
<1>5. LocalTypes'
  BY <1>3 DEF TypeOK, FlowLoadPkts, FlowLoadBytes, FlowLoad, LocalTypes, Goto, Steps,
              PtrSteps, PortSteps
<1> QED BY <1>4, <1>5 DEF TypeOK

LEMMA FlowStoreType ==
    ASSUME TypeOK, NEW c \in CPU, FlowStorePkts(c) \/ FlowStoreBytes(c)
    PROVE  TypeOK'
<1> DEFINE v == flow.val[ptr[c]]
<1>1. ptr[c] \in Elem /\ v \in FlowValue /\ num[c] \in Nat /\ pkt[c].size \in Nat
  BY StatsType, BusyPacket DEF FlowStorePkts, FlowStoreBytes, FlowStore, PtrSteps
<1>2. /\ [v EXCEPT !["pkts"] = num[c] + 1] \in FlowValue
      /\ [v EXCEPT !["bytes"] = num[c] + pkt[c].size] \in FlowValue
  BY <1>1 DEF FlowValue
<1>3. \E w \in FlowValue : flow' = Store(flow, ptr[c], w)
  BY <1>2 DEF FlowStorePkts, FlowStoreBytes, FlowStore
<1>4. flow' \in HashType(FlowValue)
  BY <1>1, <1>3, StoreType DEF TypeOK, MapTypes
<1>5. MapTypes'
  BY <1>4 DEF TypeOK, FlowStorePkts, FlowStoreBytes, FlowStore, MapTypes
<1>6. LocalTypes'
  BY DEF TypeOK, FlowStorePkts, FlowStoreBytes, FlowStore, LocalTypes, local, Goto, Steps,
         PtrSteps, PortSteps
<1>7. HistoryTypes'
  BY DEF TypeOK, FlowStorePkts, FlowStoreBytes, FlowStore, HistoryTypes, bounds,
         synHist, scanHist
<1> QED BY <1>5, <1>6, <1>7 DEF TypeOK

(***************************************************************************)
(* The environment, and all of Next.                                       *)
(***************************************************************************)
LEMMA EnvironmentType ==
    ASSUME TypeOK,
           \/ \E ip \in IP, v \in {NoElem, 0, 1} : SetBlacklist(ip, v)
           \/ Consume
           \/ \E ip \in IP : CleanFlow(ip) \/ CleanScan(ip)
    PROVE  TypeOK'
<1>1. CASE \E ip \in IP, v \in {NoElem, 0, 1} : SetBlacklist(ip, v)
  BY <1>1 DEF TypeOK, SetBlacklist, MapTypes, maps, LocalTypes, local, HistoryTypes,
              synHist, scanHist
<1>2. CASE Consume
  <2> DEFINE Record == [src : IP, type : {"syn_flood", "port_scan"}]
  <2>1. /\ ring \in Seq(Record) /\ Len(ring) <= RingSize /\ RingSize \in Nat
        /\ ring # <<>> /\ ring' = Tail(ring)
    BY <1>2, ParameterAssumption DEF TypeOK, MapTypes, Consume
  <2> HIDE DEF Record
  <2>2. ring' \in Seq(Record) /\ Len(ring') <= RingSize
    BY <2>1
  <2>3. MapTypes'
    BY <1>2, <2>2 DEF TypeOK, Consume, MapTypes, Record
  <2> QED BY <1>2, <2>3 DEF TypeOK, Consume, LocalTypes, local, HistoryTypes, bounds,
                            synHist, scanHist
<1>3. ASSUME NEW ip \in IP, CleanFlow(ip) \/ CleanScan(ip) PROVE TypeOK'
  <2>1. flow' \in HashType(FlowValue) /\ scan' \in HashType(SUBSET LowPort)
    BY <1>3, DeleteType DEF TypeOK, MapTypes, CleanFlow, CleanScan
  <2>2. MapTypes'
    BY <1>3, <2>1 DEF TypeOK, CleanFlow, CleanScan, Cleaning, MapTypes
  <2>3. LocalTypes' /\ HistoryTypes'
    BY <1>3 DEF TypeOK, CleanFlow, CleanScan, Cleaning, LocalTypes, local, HistoryTypes,
                synHist, scanHist
  <2> QED BY <2>2, <2>3 DEF TypeOK
<1> QED BY <1>1, <1>2, <1>3

LEMMA TypeNext == TypeOK /\ [Next]_vars => TypeOK'
<1> SUFFICES ASSUME TypeOK, [Next]_vars PROVE TypeOK'
  OBVIOUS
<1>1. CASE UNCHANGED vars
  BY <1>1 DEF TypeOK, MapTypes, LocalTypes, HistoryTypes, vars, maps, local, bounds,
              synHist, scanHist
<1>2. ASSUME NEW c \in CPU, NEW p \in Packet, Enter(c, p) PROVE TypeOK'
  BY <1>2, EnterType
<1>3. ASSUME NEW c \in CPU, CpuStep(c) PROVE TypeOK'
  BY <1>3, CheckSynFloodType, ScanLookupType, ScanCreateType, ScanLoadType, ScanStoreType,
     ScanCountType, ScanAlertType, ScanClearType, FlowLookupType, FlowCreateType,
     FlowLoadType, FlowStoreType DEF CpuStep
<1> QED BY <1>1, <1>2, <1>3, EnvironmentType DEF Next

(***************************************************************************)
(* Every variable of the data plane keeps its type, the ring its bound,    *)
(* and no step of check_port_scan or update_flow_stats runs on a null      *)
(* pointer.                                                                *)
(***************************************************************************)
THEOREM TypeCorrect == Spec => []TypeOK
<1>1. Init => TypeOK
  BY TypeInit
<1>2. TypeOK /\ [Next]_vars => TypeOK'
  BY TypeNext
<1> QED BY <1>1, <1>2, PTL DEF Spec

-----------------------------------------------------------------------------
(***************************************************************************)
(* The accounting of SYNs.  SynAccounting is inductive relative to TypeOK; *)
(* it speaks of one CPU and one source at a time, so the steps that leave  *)
(* the counter alone preserve it whatever the other maps do.               *)
(***************************************************************************)
LEMMA ChargedFacts ==
    ASSUME NEW n \in Nat
    PROVE  /\ Charged(n) \in Nat /\ Charged(0) = 0
           /\ Charged(n + 1) = Charged(n) + SynThreshold + 1
BY ParameterAssumption DEF Charged

LEMMA SynAccountingUnchanged ==
    ASSUME SynAccounting, UNCHANGED <<synKeys, syn, synSeen, synAlerts>>
    PROVE  SynAccounting'
BY DEF SynAccounting, SynMapFull

LEMMA SynAccountingStep ==
    ASSUME TypeOK, SynAccounting, NEW c \in CPU, CheckSynFlood(c)
    PROVE  SynAccounting'
<1> PICK s \in IP : s = src(c)
  BY BusyPacket DEF CheckSynFlood
<1> DEFINE Balanced(d, ip) == synSeen[d][ip] = Charged(synAlerts[d][ip]) + syn[d][ip]
<1>1. /\ SynThreshold \in Nat \ {0}
      /\ syn \in [CPU -> [IP -> 0..SynThreshold]]
      /\ synSeen \in [CPU -> [IP -> Nat]] /\ synAlerts \in [CPU -> [IP -> Nat]]
  BY ParameterAssumption DEF TypeOK, MapTypes, HistoryTypes
<1>0. \A d \in CPU, ip \in IP : Charged(synAlerts[d][ip]) \in Nat
  BY <1>1, ChargedFacts
<1>2. synSeen' = [synSeen EXCEPT ![c][s] = @ + 1]
  BY DEF CheckSynFlood
<1>3. SynCount(c, s) \/ SynAlert(c, s) \/ SynFirst(c, s)
  BY DEF CheckSynFlood
<1>4. CASE SynCount(c, s)
  <2>1. s \in synKeys /\ syn' = [syn EXCEPT ![c][s] = @ + 1]
        /\ UNCHANGED <<synKeys, synAlerts>>
    BY <1>4 DEF SynCount
  <2> QED BY <1>0, <1>1, <1>2, <2>1 DEF SynAccounting, SynMapFull
<1>5. CASE SynAlert(c, s)
  <2>1. /\ s \in synKeys /\ syn' = [syn EXCEPT ![c][s] = 0]
        /\ synAlerts' = [synAlerts EXCEPT ![c][s] = @ + 1] /\ UNCHANGED synKeys
    BY <1>5 DEF SynAlert
  <2>2. syn[c][s] = SynThreshold
    <3>1. PICK n \in 0..SynThreshold : n = syn[c][s]
      BY <1>1
    <3>2. n + 1 > SynThreshold
      BY <1>5, <3>1 DEF SynAlert, SynTripped
    <3>3. SynThreshold \in Nat
      BY <1>1
    <3>4. n = SynThreshold
      BY <3>1, <3>2, <3>3
    <3> QED BY <3>1, <3>4
  <2>3. Balanced(c, s)'
    <3>1. Balanced(c, s)
      BY <1>1, <2>1 DEF SynAccounting
    <3>2. /\ Charged(synAlerts[c][s]) \in Nat
          /\ Charged(synAlerts[c][s] + 1) = Charged(synAlerts[c][s]) + SynThreshold + 1
      BY <1>1, ChargedFacts
    <3> QED BY <1>1, <1>2, <2>1, <2>2, <3>1, <3>2
  <2>4. \A d \in CPU, ip \in IP : <<d, ip>> # <<c, s>> =>
          UNCHANGED <<synSeen[d][ip], synAlerts[d][ip], syn[d][ip]>>
    BY <1>1, <1>2, <2>1
  <2> QED BY <1>1, <2>1, <2>3, <2>4 DEF SynAccounting, SynMapFull
<1>6. CASE SynFirst(c, s)
  <2>1. s \notin synKeys /\ UNCHANGED synAlerts
    BY <1>6 DEF SynFirst
  <2>2. CASE SynMapFull
    <3>1. UNCHANGED <<synKeys, syn>>
      BY <1>6, <2>2 DEF SynFirst
    <3> QED BY <1>1, <1>2, <2>1, <2>2, <3>1 DEF SynAccounting, SynMapFull
  <2>3. CASE ~SynMapFull
    <3>1. /\ synKeys' = synKeys \cup {s}
          /\ syn' = [d \in CPU |-> [syn[d] EXCEPT ![s] = IF d = c THEN 1 ELSE 0]]
      BY <1>6, <2>3 DEF SynFirst
    <3>2. \A d \in CPU, ip \in IP : ip \notin synKeys =>
            synSeen[d][ip] = 0 /\ synAlerts[d][ip] = 0
      BY <1>1, <2>3 DEF SynAccounting
    <3>3. \A d \in CPU : Balanced(d, s)'
      BY <1>1, <1>2, <2>1, <3>1, <3>2, ChargedFacts
    <3>4. \A d \in CPU, ip \in IP : ip # s =>
            UNCHANGED <<synSeen[d][ip], synAlerts[d][ip], syn[d][ip]>>
      BY <1>1, <1>2, <2>1, <3>1
    <3> QED BY <1>1, <3>1, <3>2, <3>3, <3>4 DEF SynAccounting
  <2> QED BY <2>2, <2>3
<1> QED BY <1>3, <1>4, <1>5, <1>6

(***************************************************************************)
(* On every CPU the SYNs of a tracked source are SynThreshold + 1 for each *)
(* alert raised there plus what its slot holds; an untracked source raised *)
(* none, and was seen only because the map was full.                       *)
(***************************************************************************)
THEOREM SynAccountingCorrect == Spec => []SynAccounting
<1>1. Init => SynAccounting
  BY ChargedFacts DEF Init, SynAccounting, Zero
<1>2. TypeOK /\ SynAccounting /\ [Next]_vars => SynAccounting'
  <2> SUFFICES ASSUME TypeOK, SynAccounting, [Next]_vars PROVE SynAccounting'
    OBVIOUS
  <2>1. CASE UNCHANGED vars
    BY <2>1, SynAccountingUnchanged DEF vars, maps, synHist
  <2>2. ASSUME NEW c \in CPU, CheckSynFlood(c) PROVE SynAccounting'
    BY <2>2, SynAccountingStep
  <2>3. ASSUME NEW c \in CPU, CpuStep(c), ~CheckSynFlood(c) PROVE SynAccounting'
    BY <2>3, SynAccountingUnchanged
       DEF CpuStep, ScanLookup, ScanCreate, ScanRelookup, ScanLoad, ScanStore, ScanCount,
           ScanAlert, ScanClear, FlowLookup, FlowCreate, FlowLoadPkts, FlowStorePkts,
           FlowLoadBytes, FlowStoreBytes, FlowLoad, FlowStore, maps, synHist
  <2>4. CASE \/ \E c \in CPU, p \in Packet : Enter(c, p)
             \/ \E ip \in IP, v \in {NoElem, 0, 1} : SetBlacklist(ip, v)
             \/ Consume
             \/ \E ip \in IP : CleanFlow(ip) \/ CleanScan(ip)
    BY <2>4, SynAccountingUnchanged
       DEF Enter, SetBlacklist, Consume, CleanFlow, CleanScan, Cleaning, maps, synHist
  <2> QED BY <2>1, <2>2, <2>3, <2>4 DEF Next
<1> QED BY <1>1, <1>2, TypeCorrect, PTL DEF Spec

-----------------------------------------------------------------------------
(***************************************************************************)
(* The blacklist.  A step that works for one source leaves every other     *)
(* source alone, and while a source is blocked and has no packet in        *)
(* flight no step works for it.                                            *)
(***************************************************************************)
Apart == Disjoint(flow) /\ Disjoint(scan)

\* A step of a CPU that creates no entry leaves both maps apart by storing only.
LEMMA ApartNext == TypeOK /\ Apart /\ [Next]_vars => Apart'
<1> SUFFICES ASSUME TypeOK, Apart, [Next]_vars PROVE Apart'
  OBVIOUS
<1>1. flow \in HashType(FlowValue) /\ scan \in HashType(SUBSET LowPort)
  BY DEF TypeOK, MapTypes
<1>2. CASE UNCHANGED <<flow, scan>>
  BY <1>2 DEF Apart
<1>3. ASSUME NEW c \in CPU, ScanCreate(c) PROVE Apart'
  BY <1>1, <1>3, BusyPacket, UpdateDisjoint DEF Apart, ScanCreate
<1>4. ASSUME NEW c \in CPU, FlowCreate(c) PROVE Apart'
  BY <1>1, <1>4, BusyPacket, UpdateDisjoint DEF Apart, FlowCreate
<1>5. ASSUME NEW c \in CPU, ScanStore(c) \/ ScanClear(c) PROVE Apart'
  BY <1>1, <1>5, StoreDisjoint DEF Apart, ScanStore, ScanClear
<1>6. ASSUME NEW c \in CPU, FlowStorePkts(c) \/ FlowStoreBytes(c) PROVE Apart'
  BY <1>1, <1>6, StoreDisjoint DEF Apart, FlowStorePkts, FlowStoreBytes, FlowStore
<1>7. ASSUME NEW ip \in IP, CleanFlow(ip) \/ CleanScan(ip) PROVE Apart'
  BY <1>1, <1>7, DeleteDisjoint DEF Apart, CleanFlow, CleanScan
<1>8. CASE UNCHANGED vars
  BY <1>2, <1>8 DEF vars, maps
<1>9. ASSUME NEW c \in CPU,
             \/ CheckSynFlood(c) \/ ScanLookup(c) \/ ScanRelookup(c) \/ ScanLoad(c)
             \/ ScanCount(c) \/ ScanAlert(c) \/ FlowLookup(c) \/ FlowLoadPkts(c)
             \/ FlowLoadBytes(c) \/ (\E p \in Packet : Enter(c, p))
      PROVE  Apart'
  BY <1>2, <1>9 DEF CheckSynFlood, ScanLookup, ScanRelookup, ScanLoad, ScanCount, ScanAlert,
     FlowLookup, FlowLoadPkts, FlowLoadBytes, FlowLoad, Enter, maps
<1>10. CASE (\E ip \in IP, v \in {NoElem, 0, 1} : SetBlacklist(ip, v)) \/ Consume
  BY <1>2, <1>10 DEF SetBlacklist, Consume, maps
<1> QED BY <1>3, <1>4, <1>5, <1>6, <1>7, <1>8, <1>9, <1>10 DEF Next, CpuStep

LEMMA MapsApart == Spec => []Apart
<1>1. Init => Apart
  BY EmptyDisjoint DEF Init, Apart
<1> QED BY <1>1, ApartNext, TypeCorrect, PTL DEF Spec

LEMMA LeftAloneUnchanged ==
    ASSUME NEW h, NEW ip, NEW stores
    PROVE  LeftAlone(h, h, ip, stores)
BY DEF LeftAlone

LEMMA SilentUnchanged ==
    ASSUME NEW ip \in IP,
           UNCHANGED <<synSeen, syn, probes, scanAlerts, arrived, flow, scan>>
    PROVE  SilentAbout(ip)
BY LeftAloneUnchanged DEF SilentAbout

\* A creation for another source, and a store made for another source.
LEMMA LeftAloneByUpdate ==
    ASSUME NEW V, NEW h \in HashType(V), Disjoint(h), NEW c \in CPU, NEW k \in IP, NEW v,
           NEW hn \in Update(h, c, k, v), NEW ip \in IP, ip # k, NEW stores
    PROVE  LeftAlone(h, hn, ip, stores)
BY UpdateElsewhere DEF LeftAlone

LEMMA LeftAloneByStore ==
    ASSUME NEW V, NEW h \in HashType(V), NEW c \in CPU, NEW v, NEW ip \in IP,
           NEW stores, pc[c] \in stores, src(c) # ip
    PROVE  LeftAlone(h, Store(h, ptr[c], v), ip, stores)
BY StoreElsewhere DEF LeftAlone

LEMMA LeftAloneByDelete ==
    ASSUME NEW V, NEW h \in HashType(V), NEW k \in IP, NEW ip \in IP, NEW stores
    PROVE  LeftAlone(h, Delete(h, k), ip, stores)
BY DEF LeftAlone, Delete, Lookup, HashType

LEMMA SilentStep ==
    ASSUME TypeOK, Apart, NEW ip \in IP, Silenced(ip), NEW c \in CPU, CpuStep(c)
    PROVE  SilentAbout(ip)
<1> PICK s \in IP : s = src(c)
  BY BusyPacket DEF CpuStep, CheckSynFlood, ScanLookup, ScanCreate, ScanRelookup, ScanLoad,
     ScanStore, ScanCount, ScanAlert, ScanClear, FlowLookup, FlowCreate, FlowLoadPkts,
     FlowStorePkts, FlowLoadBytes, FlowStoreBytes, FlowLoad, FlowStore
<1>1. s # ip
  BY DEF Silenced, CpuStep, CheckSynFlood, ScanLookup, ScanCreate, ScanRelookup, ScanLoad,
     ScanStore, ScanCount, ScanAlert, ScanClear, FlowLookup, FlowCreate, FlowLoadPkts,
     FlowStorePkts, FlowLoadBytes, FlowStoreBytes, FlowLoad, FlowStore
<1>2. /\ synSeen \in [CPU -> [IP -> Nat]] /\ probes \in [IP -> Nat]
      /\ scanAlerts \in [IP -> Nat] /\ arrived \in [IP -> FlowValue]
      /\ syn \in [CPU -> [IP -> 0..SynThreshold]]
      /\ flow \in HashType(FlowValue) /\ scan \in HashType(SUBSET LowPort)
  BY DEF TypeOK, MapTypes, HistoryTypes
<1>3. CASE CheckSynFlood(c)
  <2>1. \A d \in CPU : syn'[d][ip] = syn[d][ip]
    BY <1>1, <1>2, <1>3 DEF CheckSynFlood, SynCount, SynAlert, SynFirst
  <2>2. UNCHANGED <<flow, scan, probes, scanAlerts, arrived>>
    BY <1>3 DEF CheckSynFlood, scanHist
  <2> QED BY <1>1, <1>2, <1>3, <2>1, <2>2, LeftAloneUnchanged DEF CheckSynFlood, SilentAbout
<1>4. CASE ScanStore(c) \/ ScanClear(c)
  <2>1. PICK v : scan' = Store(scan, ptr[c], v)
    BY <1>4 DEF ScanStore, ScanClear
  <2>2. LeftAlone(scan, scan', ip, ScanStores)
    BY <1>1, <1>2, <1>4, <2>1, LeftAloneByStore DEF ScanStore, ScanClear, ScanStores
  <2>3. /\ UNCHANGED <<flow, syn, synSeen, scanAlerts, arrived>>
        /\ probes' = Bump(probes, s) \/ UNCHANGED probes
    BY <1>4 DEF ScanStore, ScanClear, synHist, scanHist
  <2> QED BY <1>1, <1>2, <2>2, <2>3, LeftAloneUnchanged DEF SilentAbout, Bump
<1>5. CASE ScanAlert(c)
  BY <1>1, <1>2, <1>5, LeftAloneUnchanged DEF ScanAlert, SilentAbout, Bump, synHist
<1>6. CASE FlowLookup(c)
  BY <1>1, <1>2, <1>6, LeftAloneUnchanged DEF FlowLookup, SilentAbout, maps, synHist, scanHist
<1>7. CASE ScanCreate(c)
  <2>1. LeftAlone(scan, scan', ip, ScanStores)
    BY <1>1, <1>2, <1>7, LeftAloneByUpdate DEF ScanCreate, Apart
  <2> QED BY <1>7, <2>1, LeftAloneUnchanged DEF ScanCreate, SilentAbout, synHist, scanHist
<1>8. CASE FlowCreate(c)
  <2>1. LeftAlone(flow, flow', ip, FlowStores)
    BY <1>1, <1>2, <1>8, LeftAloneByUpdate DEF FlowCreate, Apart
  <2> QED BY <1>8, <2>1, LeftAloneUnchanged DEF FlowCreate, SilentAbout, synHist, scanHist
<1>9. CASE FlowStorePkts(c) \/ FlowStoreBytes(c)
  <2>1. PICK v : flow' = Store(flow, ptr[c], v)
    BY <1>9 DEF FlowStorePkts, FlowStoreBytes, FlowStore
  <2>2. LeftAlone(flow, flow', ip, FlowStores)
    BY <1>1, <1>2, <1>9, <2>1, LeftAloneByStore
       DEF FlowStorePkts, FlowStoreBytes, FlowStore, FlowStores
  <2> QED BY <1>9, <2>2, LeftAloneUnchanged
          DEF FlowStorePkts, FlowStoreBytes, FlowStore, SilentAbout, synHist, scanHist
<1>10. CASE \/ ScanLookup(c) \/ ScanRelookup(c) \/ ScanLoad(c) \/ ScanCount(c)
            \/ FlowLoadPkts(c) \/ FlowLoadBytes(c)
  BY <1>10, SilentUnchanged
     DEF ScanLookup, ScanRelookup, ScanLoad, ScanCount, FlowLoadPkts, FlowLoadBytes, FlowLoad,
         maps, synHist, scanHist
<1> QED BY <1>3, <1>4, <1>5, <1>6, <1>7, <1>8, <1>9, <1>10 DEF CpuStep

LEMMA SilencedStep ==
    ASSUME NEW ip \in IP, Silenced(ip), NEW c \in CPU, CpuStep(c), pc \in [CPU -> Steps]
    PROVE  Silenced(ip)'
<1>1. src(c) # ip
  BY DEF Silenced, CpuStep, CheckSynFlood, ScanLookup, ScanCreate, ScanRelookup, ScanLoad,
     ScanStore, ScanCount, ScanAlert, ScanClear, FlowLookup, FlowCreate, FlowLoadPkts,
     FlowStorePkts, FlowLoadBytes, FlowStoreBytes, FlowLoad, FlowStore
<1>2. UNCHANGED <<blacklist, pkt>>
  BY DEF CpuStep, CheckSynFlood, ScanLookup, ScanCreate, ScanRelookup, ScanLoad,
     ScanStore, ScanCount, ScanAlert, ScanClear, FlowLookup, FlowCreate, FlowLoadPkts,
     FlowStorePkts, FlowLoadBytes, FlowStoreBytes, FlowLoad, FlowStore, local
<1>3. \A d \in CPU : d # c => pc'[d] = pc[d]
  BY DEF CpuStep, CheckSynFlood, ScanLookup, ScanCreate, ScanRelookup, ScanLoad,
     ScanStore, ScanCount, ScanAlert, ScanClear, ScanFound, FlowLookup, FlowCreate,
     FlowLoadPkts, FlowStorePkts, FlowLoadBytes, FlowStoreBytes, FlowLoad, FlowStore, Goto
<1> QED BY <1>1, <1>2, <1>3 DEF Silenced, src

\* A packet of a blocked source is dropped before a CPU takes it up.
LEMMA SilencedEnter ==
    ASSUME TypeOK, NEW ip \in IP, Silenced(ip), NEW c \in CPU, NEW p \in Packet, Enter(c, p)
    PROVE  Silenced(ip)'
<1>1. CASE p.src = ip
  <2>1. UNCHANGED <<pkt, pc, blacklist>>
    BY <1>1 DEF Enter, Silenced, Blocked
  <2> QED BY <2>1 DEF Silenced, src
<1>2. CASE p.src # ip
  <2>1. pkt \in [CPU -> Packet \cup {NoPacket}] /\ pc \in [CPU -> Steps]
    BY DEF TypeOK, LocalTypes
  <2> QED BY <1>2, <2>1 DEF Enter, Silenced, src
<1> QED BY <1>1, <1>2

(***************************************************************************)
(* A blocked source whose packets in flight are done is neither taken up   *)
(* nor counted nor reported by any step until the block is lifted.  Its    *)
(* entries are never created or swapped: they only leave, deleted by       *)
(* clean_maps, and their values change only by the store of a CPU that     *)
(* works for another source and holds a stale pointer to the element.      *)
(***************************************************************************)
THEOREM BlockIsEffective == Spec => BlockedStaysSilent
<1> DEFINE Final(ip) == Silenced(ip)' \/ blacklist'[ip] # 1
           Quiet == \A ip \in IP : Silenced(ip) => SilentAbout(ip) /\ Final(ip)
<1>1. TypeOK /\ Apart /\ [Next]_vars => [Quiet]_vars
  <2> SUFFICES ASSUME TypeOK, Apart, Next, NEW ip \in IP, Silenced(ip)
               PROVE  SilentAbout(ip) /\ Final(ip)
    OBVIOUS
  <2>1. ASSUME NEW c \in CPU, CpuStep(c) PROVE SilentAbout(ip) /\ Final(ip)
    BY <2>1, SilentStep, SilencedStep DEF TypeOK, LocalTypes
  <2>2. ASSUME NEW c \in CPU, NEW p \in Packet, Enter(c, p)
        PROVE  SilentAbout(ip) /\ Final(ip)
    BY <2>2, SilentUnchanged, SilencedEnter DEF Enter, maps, synHist, scanHist
  <2>3. CASE (\E k \in IP, v \in {NoElem, 0, 1} : SetBlacklist(k, v)) \/ Consume
    <3>1. SilentAbout(ip)
      BY <2>3, SilentUnchanged DEF SetBlacklist, Consume, maps, synHist, scanHist
    <3>2. Final(ip)
      BY <2>3 DEF SetBlacklist, Consume, Silenced, src, local
    <3> QED BY <3>1, <3>2
  <2>4. ASSUME NEW k \in IP, CleanFlow(k) \/ CleanScan(k) PROVE SilentAbout(ip) /\ Final(ip)
    <3>1. flow \in HashType(FlowValue) /\ scan \in HashType(SUBSET LowPort)
      BY DEF TypeOK, MapTypes
    <3>2. LeftAlone(flow, flow', ip, FlowStores) /\ LeftAlone(scan, scan', ip, ScanStores)
      BY <2>4, <3>1, LeftAloneByDelete, LeftAloneUnchanged DEF CleanFlow, CleanScan
    <3>3. SilentAbout(ip)
      BY <2>4, <3>2 DEF CleanFlow, CleanScan, Cleaning, SilentAbout, synHist, scanHist
    <3>4. Final(ip)
      BY <2>4 DEF CleanFlow, CleanScan, Cleaning, Silenced, src, local
    <3> QED BY <3>3, <3>4
  <2> QED BY <2>1, <2>2, <2>3, <2>4 DEF Next
<1>2. Spec => [][Quiet]_vars
  BY <1>1, TypeCorrect, MapsApart, PTL DEF Spec
<1> QED BY <1>2 DEF BlockedStaysSilent

-----------------------------------------------------------------------------
(***************************************************************************)
(* Packets counted twice.  An element that leaves flow_stats is reused     *)
(* while old pointers to it are still written through, so no bound on one  *)
(* source's counter holds.  The invariant keeps an account for every       *)
(* element instead: a creation and an increment credit the element they    *)
(* write.  What an element holds, and what a CPU has read from it and will *)
(* write back, never exceeds its credit; all credit together, and the      *)
(* packets on their way to a counter, were paid for by packets.            *)
(***************************************************************************)

LEMMA ElemFinite == IsFiniteSet(Elem)
<1>1. IsFiniteSet(1..MapSize)
  BY MapSizeAssumption, FS_Interval
<1> QED
  BY <1>1, FiniteAssumption, FS_Union DEF Elem

-----------------------------------------------------------------------------
OnTheWay == {c \in CPU : pc[c] \in {"flowNew", "flowLoadPkts", "flowStorePkts"}}
ArrivedPkts == [ip \in IP |-> arrived[ip].pkts]

Credited(credit) ==
    /\ \A e \in Elem : flow.val[e].pkts <= credit[e]
    /\ \A c \in CPU : pc[c] = "flowStorePkts" => num[c] <= credit[ptr[c]]
    /\ Total(credit, Elem) + Cardinality(OnTheWay) <= Total(ArrivedPkts, IP)

FlowInv == Disjoint(flow) /\ \E credit \in [Elem -> Nat] : Credited(credit)

LEMMA FlowInvInit == Init => FlowInv
<1> SUFFICES ASSUME Init PROVE FlowInv
  OBVIOUS
<1> DEFINE credit == [e \in Elem |-> 0]
<1>1. Disjoint(flow)
  BY EmptyDisjoint DEF Init
<1>2. OnTheWay = {} /\ Cardinality({}) = 0
  BY FS_EmptySet DEF Init, OnTheWay
<1>3. Total(credit, Elem) = 0
  BY ElemFinite, TotalZero
<1>4. Total(ArrivedPkts, IP) = 0
  <2>1. \A ip \in IP : ArrivedPkts[ip] = 0
    BY DEF Init, ArrivedPkts, NoTraffic
  <2> QED
    BY <2>1, FiniteAssumption, TotalZero
<1>5. \A e \in Elem : flow.val[e].pkts <= credit[e]
  BY DEF Init, EmptyHash, NoTraffic
<1>6. \A c \in CPU : pc[c] = "flowStorePkts" => num[c] <= credit[ptr[c]]
  BY DEF Init
<1>7. Credited(credit)
  <2> HIDE DEF credit
  <2> QED
    BY <1>2, <1>3, <1>4, <1>5, <1>6 DEF Credited
<1>8. credit \in [Elem -> Nat]
  OBVIOUS
<1> HIDE DEF credit
<1> QED
  BY <1>1, <1>7, <1>8 DEF FlowInv

LEMMA FlowTypes ==
    ASSUME TypeOK
    PROVE  /\ ArrivedPkts \in [IP -> Nat] /\ Total(ArrivedPkts, IP) \in Nat
           /\ IsFiniteSet(OnTheWay) /\ Cardinality(OnTheWay) \in Nat
           /\ \A credit \in [Elem -> Nat] : Total(credit, Elem) \in Nat
<1>1. ArrivedPkts \in [IP -> Nat]
  BY DEF ArrivedPkts, TypeOK, HistoryTypes, FlowValue
<1>2. Total(ArrivedPkts, IP) \in Nat
  BY <1>1, FiniteAssumption, TotalType
<1>3. OnTheWay \subseteq CPU
  BY DEF OnTheWay
<1>4. IsFiniteSet(OnTheWay)
  BY <1>3, FiniteAssumption, FS_Subset
<1>5. Cardinality(OnTheWay) \in Nat
  BY <1>4, FS_CardinalityType
<1>6. ASSUME NEW credit \in [Elem -> Nat] PROVE Total(credit, Elem) \in Nat
  BY ElemFinite, TotalType
<1> QED
  BY <1>1, <1>2, <1>4, <1>5, <1>6

\* Steps that touch neither the counters nor the packets on their way to them.
LEMMA FlowInvUnchanged ==
    ASSUME FlowInv, UNCHANGED <<flow.val, arrived>>, Disjoint(flow'), OnTheWay' = OnTheWay,
           \A c \in CPU : pc'[c] = "flowStorePkts" =>
               pc[c] = "flowStorePkts" /\ UNCHANGED <<num[c], ptr[c]>>
    PROVE  FlowInv'
<1>1. PICK credit \in [Elem -> Nat] : Credited(credit)
  BY DEF FlowInv
<1>2. ArrivedPkts' = ArrivedPkts
  BY DEF ArrivedPkts
<1>3. Credited(credit)'
  BY <1>1, <1>2 DEF Credited
<1> QED
  BY <1>1, <1>3 DEF FlowInv

\* A packet that arrives is on its way until it is counted.
LEMMA FlowInvLookup ==
    ASSUME TypeOK, FlowInv, NEW c \in CPU, FlowLookup(c) PROVE FlowInv'
<1>1. PICK credit \in [Elem -> Nat] : Credited(credit)
  BY DEF FlowInv
<1>2. PICK s \in IP : s = src(c)
  BY BusyPacket DEF FlowLookup
<1>3. ArrivedPkts' = [ArrivedPkts EXCEPT ![s] = @ + 1]
  BY <1>2 DEF FlowLookup, ArrivedPkts, TypeOK, HistoryTypes, FlowValue
<1>4. Total(ArrivedPkts', IP) = Total(ArrivedPkts, IP) + 1
  BY <1>3, FlowTypes, FiniteAssumption, TotalBump
<1>5. pc \in [CPU -> Steps] /\ pc[c] = "flow" /\ pc'[c] \in {"flowNew", "flowLoadPkts"}
      /\ \A d \in CPU \ {c} : pc'[d] = pc[d]
  BY DEF FlowLookup, TypeOK, LocalTypes, Goto
<1>6. c \notin OnTheWay /\ OnTheWay' = OnTheWay \cup {c}
  BY <1>5 DEF OnTheWay
<1>7. Cardinality(OnTheWay') = Cardinality(OnTheWay) + 1
  BY <1>6, FlowTypes, FS_AddElement
<1>8. UNCHANGED <<flow, num>> /\ \A d \in CPU \ {c} : ptr'[d] = ptr[d]
  BY DEF FlowLookup, maps, TypeOK, LocalTypes
<1>9. Total(credit, Elem) + Cardinality(OnTheWay') <= Total(ArrivedPkts', IP)
  BY <1>1, <1>4, <1>7, FlowTypes DEF Credited
<1>10. Credited(credit)'
  BY <1>1, <1>5, <1>8, <1>9 DEF Credited
<1> QED
  BY <1>1, <1>8, <1>10 DEF FlowInv

\* What a CPU reads is covered by the credit of the element it reads.
LEMMA FlowInvLoad ==
    ASSUME TypeOK, FlowInv, NEW c \in CPU, FlowLoadPkts(c) PROVE FlowInv'
<1>1. PICK credit \in [Elem -> Nat] : Credited(credit)
  BY DEF FlowInv
<1>2. /\ pc[c] = "flowLoadPkts" /\ pc' = [pc EXCEPT ![c] = "flowStorePkts"]
      /\ num' = [num EXCEPT ![c] = flow.val[ptr[c]].pkts]
      /\ UNCHANGED <<flow, ptr, arrived>>
  BY DEF FlowLoadPkts, FlowLoad, Goto, maps
<1>3. ptr[c] \in Elem /\ pc \in [CPU -> Steps] /\ num \in [CPU -> Nat]
  BY <1>2 DEF TypeOK, LocalTypes, PtrSteps
<1>4. OnTheWay' = OnTheWay /\ ArrivedPkts' = ArrivedPkts
  BY <1>2, <1>3 DEF OnTheWay, ArrivedPkts
<1>5. ASSUME NEW d \in CPU, pc'[d] = "flowStorePkts" PROVE num'[d] <= credit[ptr'[d]]
  <2>1. CASE d = c
    BY <1>1, <1>2, <1>3, <2>1 DEF Credited
  <2>2. CASE d # c
    BY <1>1, <1>2, <1>3, <1>5, <2>2 DEF Credited
  <2> QED
    BY <2>1, <2>2
<1>6. Credited(credit)'
  BY <1>1, <1>2, <1>4, <1>5 DEF Credited
<1> QED
  BY <1>1, <1>2, <1>6 DEF FlowInv

\* A packet is counted: the element written is credited.
LEMMA FlowInvCounted ==
    ASSUME TypeOK, FlowInv, NEW c \in CPU, c \in OnTheWay, UNCHANGED <<arrived, num, ptr>>,
           NEW label \in Steps \ {"flowNew", "flowLoadPkts", "flowStorePkts"},
           pc' = [pc EXCEPT ![c] = label], Disjoint(flow'),
           NEW e \in Elem,
           \A x \in Elem \ {e} : flow'.val[x].pkts = flow.val[x].pkts,
           \A credit \in [Elem -> Nat] : Credited(credit) =>
               flow'.val[e].pkts <= credit[e] + 1
    PROVE  FlowInv'
<1>1. PICK credit \in [Elem -> Nat] : Credited(credit)
  BY DEF FlowInv
<1> DEFINE more == [credit EXCEPT ![e] = @ + 1]
<1>2. more \in [Elem -> Nat] /\ more[e] = credit[e] + 1 /\ \A x \in Elem \ {e} : more[x] = credit[x]
  OBVIOUS
<1>3. Total(more, Elem) = Total(credit, Elem) + 1
  BY ElemFinite, TotalBump
<1> HIDE DEF more
<1>4. ArrivedPkts' = ArrivedPkts
  BY DEF ArrivedPkts
<1>5. pc \in [CPU -> Steps]
  BY DEF TypeOK, LocalTypes
<1>6. OnTheWay' = OnTheWay \ {c}
  BY <1>5 DEF OnTheWay
<1>7. Cardinality(OnTheWay') = Cardinality(OnTheWay) - 1
  BY <1>6, FlowTypes, FS_RemoveElement
<1>8. Total(more, Elem) + Cardinality(OnTheWay') <= Total(ArrivedPkts', IP)
  BY <1>1, <1>3, <1>4, <1>7, FlowTypes DEF Credited
<1>9. \A x \in Elem : flow'.val[x].pkts <= more[x]
  BY <1>1, <1>2 DEF Credited
<1>10. ASSUME NEW d \in CPU, pc'[d] = "flowStorePkts" PROVE num'[d] <= more[ptr'[d]]
  <2>1. d # c /\ pc[d] = "flowStorePkts"
    BY <1>5, <1>10
  <2>2. ptr[d] \in Elem /\ num[d] \in Nat /\ num[d] <= credit[ptr[d]]
    BY <1>1, <2>1 DEF TypeOK, LocalTypes, PtrSteps, Credited
  <2>3. credit[ptr[d]] <= more[ptr[d]] /\ credit[ptr[d]] \in Nat /\ more[ptr[d]] \in Nat
    BY <1>2, <2>2
  <2> QED
    BY <2>2, <2>3
<1>11. Credited(more)'
  BY <1>8, <1>9, <1>10 DEF Credited
<1> QED
  BY <1>2, <1>11 DEF FlowInv

LEMMA FlowInvCreate ==
    ASSUME TypeOK, FlowInv, NEW c \in CPU, FlowCreate(c) PROVE FlowInv'
<1>1. PICK s \in IP : s = src(c)
  BY BusyPacket DEF FlowCreate
<1>2. PICK v \in FlowValue : flow' \in Update(flow, c, s, v) /\ v.pkts = 1
  BY <1>1, BusyPacket DEF FlowCreate, FirstStats, FlowValue
<1>3. /\ pc[c] = "flowNew" /\ pc' = [pc EXCEPT ![c] = "idle"]
      /\ UNCHANGED <<arrived, num, ptr>>
  BY DEF FlowCreate, Goto, local
<1>4. flow \in HashType(FlowValue) /\ Disjoint(flow)
  BY DEF TypeOK, MapTypes, FlowInv
<1>5. Disjoint(flow')
  BY <1>2, <1>4, UpdateDisjoint
<1>6. c \in OnTheWay /\ "idle" \in Steps \ {"flowNew", "flowLoadPkts", "flowStorePkts"}
  BY <1>3 DEF OnTheWay, Steps
<1>7. CASE flow' = flow
  <2>1. PICK e \in Elem : TRUE
    BY DEF Elem
  <2>2. \A credit \in [Elem -> Nat] : Credited(credit) => flow'.val[e].pkts <= credit[e] + 1
    <3> SUFFICES ASSUME NEW credit \in [Elem -> Nat], Credited(credit)
                 PROVE  flow.val[e].pkts <= credit[e] + 1
      BY <1>7
    <3>1. flow.val[e] \in FlowValue
      BY <1>4, ValueType
    <3> QED
      BY <3>1 DEF Credited, FlowValue
  <2> QED
    BY <1>3, <1>5, <1>6, <1>7, <2>2, FlowInvCounted
<1>8. ASSUME NEW e \in Elem, flow'.val = [flow.val EXCEPT ![e] = v] PROVE FlowInv'
  <2>1. flow'.val[e].pkts = 1 /\ \A x \in Elem \ {e} : flow'.val[x].pkts = flow.val[x].pkts
    BY <1>2, <1>4, <1>8 DEF HashType
  <2>2. \A credit \in [Elem -> Nat] : Credited(credit) => flow'.val[e].pkts <= credit[e] + 1
    BY <2>1
  <2> QED
    BY <1>3, <1>5, <1>6, <2>1, <2>2, FlowInvCounted
<1>9. flow' = flow \/ \E e \in Elem : flow'.val = [flow.val EXCEPT ![e] = v]
  BY <1>2, <1>4, UpdateWrites
<1> QED
  BY <1>7, <1>8, <1>9

LEMMA FlowInvStorePkts ==
    ASSUME TypeOK, FlowInv, NEW c \in CPU, FlowStorePkts(c) PROVE FlowInv'
<1>1. /\ pc[c] = "flowStorePkts" /\ pc' = [pc EXCEPT ![c] = "flowLoadBytes"]
      /\ flow' = Store(flow, ptr[c], [flow.val[ptr[c]] EXCEPT !["pkts"] = num[c] + 1])
      /\ UNCHANGED <<arrived, num, ptr>>
  BY DEF FlowStorePkts, FlowStore, Goto, local
<1>2. PICK e \in Elem : e = ptr[c]
  BY <1>1 DEF TypeOK, LocalTypes, PtrSteps
<1>3. flow \in HashType(FlowValue) /\ Disjoint(flow) /\ flow.val[e] \in FlowValue
  BY ValueType DEF TypeOK, MapTypes, FlowInv
<1>4. Disjoint(flow')
  BY <1>1, <1>3, StoreDisjoint
<1>5. flow'.val[e].pkts = num[c] + 1 /\ \A x \in Elem \ {e} : flow'.val[x].pkts = flow.val[x].pkts
  BY <1>1, <1>2, <1>3 DEF Store, HashType, FlowValue
<1>6. \A credit \in [Elem -> Nat] : Credited(credit) => flow'.val[e].pkts <= credit[e] + 1
  BY <1>1, <1>2, <1>5 DEF Credited, TypeOK, LocalTypes
<1>7. c \in OnTheWay /\ "flowLoadBytes" \in Steps \ {"flowNew", "flowLoadPkts", "flowStorePkts"}
  BY <1>1 DEF OnTheWay, Steps, PtrSteps
<1> QED
  BY <1>1, <1>4, <1>5, <1>6, <1>7, FlowInvCounted

\* The store of the bytes leaves the packets of every element alone.
LEMMA FlowInvStoreBytes ==
    ASSUME TypeOK, FlowInv, NEW c \in CPU, FlowStoreBytes(c) PROVE FlowInv'
<1>1. PICK credit \in [Elem -> Nat] : Credited(credit)
  BY DEF FlowInv
<1>2. /\ pc[c] = "flowStoreBytes" /\ pc' = [pc EXCEPT ![c] = "idle"]
      /\ flow' = Store(flow, ptr[c], [flow.val[ptr[c]] EXCEPT !["bytes"] = num[c] + pkt[c].size])
      /\ UNCHANGED <<arrived, num, ptr>>
  BY DEF FlowStoreBytes, FlowStore, Goto, local
<1>3. ptr[c] \in Elem /\ flow \in HashType(FlowValue) /\ Disjoint(flow)
  BY <1>2 DEF TypeOK, LocalTypes, PtrSteps, MapTypes, FlowInv
<1>4. Disjoint(flow')
  BY <1>2, <1>3, StoreDisjoint
<1>5. flow.val[ptr[c]] \in FlowValue
  BY <1>3, ValueType
<1>6. \A e \in Elem : flow'.val[e].pkts = flow.val[e].pkts
  BY <1>2, <1>3, <1>5 DEF Store, HashType, FlowValue
<1>7. pc \in [CPU -> Steps]
  BY DEF TypeOK, LocalTypes
<1>8. OnTheWay' = OnTheWay /\ ArrivedPkts' = ArrivedPkts
  BY <1>2, <1>7 DEF OnTheWay, ArrivedPkts
<1>9. \A d \in CPU : pc'[d] = "flowStorePkts" => pc[d] = "flowStorePkts"
  BY <1>2, <1>7
<1>10. Credited(credit)'
  BY <1>1, <1>2, <1>6, <1>8, <1>9 DEF Credited
<1> QED
  BY <1>1, <1>4, <1>10 DEF FlowInv

LEMMA FlowInvNext == TypeOK /\ FlowInv /\ [Next]_vars => FlowInv'
<1> SUFFICES ASSUME TypeOK, FlowInv, [Next]_vars PROVE FlowInv'
  OBVIOUS
<1>0. pc \in [CPU -> Steps]
  BY DEF TypeOK, LocalTypes
<1>1. CASE UNCHANGED vars
  BY <1>1, FlowInvUnchanged DEF vars, maps, local, OnTheWay, FlowInv
<1>2. ASSUME NEW c \in CPU, NEW p \in Packet, Enter(c, p) PROVE FlowInv'
  <2>1. UNCHANGED <<flow, arrived, num, ptr>>
    BY <1>2 DEF Enter, maps
  <2>2. \A d \in CPU : pc'[d] = pc[d] \/ (pc[d] = "idle" /\ pc'[d] \in {"syn", "scan", "flow"})
    BY <1>0, <1>2 DEF Enter, FirstStep
  <2>3. OnTheWay' = OnTheWay
    BY <2>2 DEF OnTheWay
  <2> QED
    BY <2>1, <2>2, <2>3, FlowInvUnchanged DEF FlowInv
<1>3. ASSUME NEW c \in CPU,
             \/ CheckSynFlood(c) \/ ScanLookup(c) \/ ScanCreate(c) \/ ScanRelookup(c)
             \/ ScanLoad(c) \/ ScanStore(c) \/ ScanCount(c) \/ ScanAlert(c) \/ ScanClear(c)
      PROVE  FlowInv'
  <2>1. UNCHANGED <<flow, arrived, num>> /\ \A d \in CPU \ {c} : ptr'[d] = ptr[d] /\ pc'[d] = pc[d]
    BY <1>0, <1>3 DEF CheckSynFlood, ScanLookup, ScanCreate, ScanRelookup, ScanFound, ScanLoad,
         ScanStore, ScanCount, ScanAlert, ScanClear, Goto, maps, local, TypeOK, LocalTypes
  <2>2. /\ pc[c] \notin {"flowNew", "flowLoadPkts", "flowStorePkts"}
        /\ pc'[c] \notin {"flowNew", "flowLoadPkts", "flowStorePkts"}
    BY <1>0, <1>3 DEF CheckSynFlood, ScanLookup, ScanCreate, ScanRelookup, ScanFound, ScanLoad,
         ScanStore, ScanCount, ScanAlert, ScanClear, Goto
  <2>3. OnTheWay' = OnTheWay
    BY <2>1, <2>2 DEF OnTheWay
  <2>4. \A d \in CPU : pc'[d] = "flowStorePkts" =>
            pc[d] = "flowStorePkts" /\ UNCHANGED <<num[d], ptr[d]>>
    BY <2>1, <2>2
  <2> QED
    BY <2>1, <2>3, <2>4, FlowInvUnchanged DEF FlowInv
<1>4. ASSUME NEW c \in CPU, FlowLoadBytes(c) PROVE FlowInv'
  <2>1. /\ UNCHANGED <<flow, arrived, ptr>> /\ pc[c] = "flowLoadBytes"
        /\ pc' = [pc EXCEPT ![c] = "flowStoreBytes"] /\ \A d \in CPU \ {c} : num'[d] = num[d]
    BY <1>4 DEF FlowLoadBytes, FlowLoad, Goto, maps, TypeOK, LocalTypes
  <2>2. OnTheWay' = OnTheWay
    BY <1>0, <2>1 DEF OnTheWay
  <2> QED
    BY <1>0, <2>1, <2>2, FlowInvUnchanged DEF FlowInv
<1>5. CASE (\E ip \in IP, v \in {NoElem, 0, 1} : SetBlacklist(ip, v)) \/ Consume
  <2>1. UNCHANGED <<flow, arrived, pc, num, ptr>>
    BY <1>5 DEF SetBlacklist, Consume, maps, local
  <2> QED
    BY <2>1, FlowInvUnchanged DEF OnTheWay, FlowInv
<1>6. ASSUME NEW ip \in IP, CleanFlow(ip) \/ CleanScan(ip) PROVE FlowInv'
  <2>1. flow \in HashType(FlowValue) /\ Disjoint(flow)
    BY DEF TypeOK, MapTypes, FlowInv
  <2>2. Disjoint(flow') /\ flow'.val = flow.val
    <3>1. Disjoint(Delete(flow, ip)) /\ Delete(flow, ip).val = flow.val
      BY <1>6, <2>1, DeleteDisjoint DEF Delete, HashType
    <3> QED
      BY <1>6, <2>1, <3>1 DEF CleanFlow, CleanScan
  <2>3. UNCHANGED <<arrived, pc, num, ptr>>
    BY <1>6 DEF CleanFlow, CleanScan, Cleaning, local
  <2>4. OnTheWay' = OnTheWay
    BY <2>3 DEF OnTheWay
  <2>5. \A c \in CPU : pc'[c] = "flowStorePkts" =>
            pc[c] = "flowStorePkts" /\ UNCHANGED <<num[c], ptr[c]>>
    BY <2>3
  <2> QED
    BY <2>2, <2>3, <2>4, <2>5, FlowInvUnchanged
<1> QED
  BY <1>1, <1>2, <1>3, <1>4, <1>5, <1>6, FlowInvLookup, FlowInvCreate, FlowInvLoad, FlowInvStorePkts,
     FlowInvStoreBytes DEF Next, CpuStep

(***************************************************************************)
(* On any number of CPUs, whatever they overwrite of each other's counts   *)
(* and through whatever stale pointers: flow_stats counts no more packets  *)
(* than reached update_flow_stats.                                         *)
(***************************************************************************)
THEOREM FlowsAreNotInvented == Spec => []FlowNeverInvented
<1>1. TypeOK /\ FlowInv => FlowNeverInvented
  <2> SUFFICES ASSUME TypeOK, FlowInv PROVE FlowNeverInvented
    OBVIOUS
  <2> DEFINE counted == [ip \in IP |-> IF Lookup(flow, ip) = NoElem THEN 0
                                       ELSE flow.val[Lookup(flow, ip)].pkts]
             Tracked == {ip \in IP : Lookup(flow, ip) # NoElem}
  <2>1. PICK credit \in [Elem -> Nat] : Credited(credit)
    BY DEF FlowInv
  <2>2. flow \in HashType(FlowValue)
    BY DEF TypeOK, MapTypes
  <2>3. \A ip \in Tracked : Lookup(flow, ip) \in Elem /\ flow.at[ip] \in Elem
    BY <2>2 DEF HashType, Lookup
  <2>4. ASSUME NEW ip \in Tracked
        PROVE  counted[ip] \in Nat /\ counted[ip] <= credit[flow.at[ip]]
    <3>1. flow.val[flow.at[ip]] \in FlowValue
      BY <2>2, <2>3, ValueType
    <3>2. counted[ip] = flow.val[flow.at[ip]].pkts
      BY DEF Lookup
    <3> QED
      BY <2>1, <2>3, <3>1, <3>2 DEF Credited, FlowValue
  <2>5. \A j, k \in Tracked : flow.at[j] = flow.at[k] => j = k
    BY DEF FlowInv, Disjoint, Lookup
  <2>6. IsFiniteSet(Tracked) /\ Tracked \subseteq IP /\ \A ip \in IP \ Tracked : counted[ip] = 0
    BY FiniteAssumption, FS_Subset
  <2>7. Total(counted, IP) <= Total(ArrivedPkts, IP)
    <3> HIDE DEF counted, Tracked
    <3>1. Total(counted, Tracked) <= Total(credit, Elem)
      BY <2>3, <2>4, <2>5, <2>6, ElemFinite, TotalInjective
    <3>2. Total(counted, IP) = Total(counted, Tracked)
      BY <2>4, <2>6, FiniteAssumption, TotalSupport
    <3>3. Total(counted, Tracked) \in Nat
      BY <2>4, <2>6, TotalType
    <3> QED
      BY <2>1, <3>1, <3>2, <3>3, FlowTypes DEF Credited
  <2> QED
    BY <2>7 DEF FlowNeverInvented, ArrivedPkts
<1> QED
  BY <1>1, FlowInvInit, FlowInvNext, TypeCorrect, PTL DEF Spec
=============================================================================
