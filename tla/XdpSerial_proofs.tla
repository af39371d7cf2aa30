-------------------------- MODULE XdpSerial_proofs --------------------------
(***************************************************************************)
(* Theorems about the XDP program on one CPU, for any number of sources,   *)
(* any map, ring and bitmap size and any thresholds: its counters and      *)
(* detectors are exact, and it implements the atomic handler.              *)
(***************************************************************************)
EXTENDS XdpSerial, XdpFirewall_proofs

LEMMA HereIs == Here \in CPU /\ CPU = {Here}
<1>1. PICK c \in CPU : CPU = {c}
  BY OneCpu
<1>2. Here \in CPU
  BY <1>1 DEF Here
<1> QED
  BY <1>1, <1>2

LEMMA SerialImplements == SerialSpec => Spec
<1>1. SerialInit => Init
  BY DEF SerialInit
<1>2. [SerialNext]_<<vars, settled>> => [Next]_vars
  BY DEF SerialNext
<1> QED
  BY <1>1, <1>2, PTL DEF SerialSpec, Spec

-----------------------------------------------------------------------------
(***************************************************************************)
(* The hash map as a partial function.                                     *)
(***************************************************************************)
\* The value of key k, or none where there is no entry.
Value(h, k, none) == IF Lookup(h, k) = NoElem THEN none ELSE h.val[Lookup(h, k)]

\* A store through a pointer that was just looked up changes that key's value.
LEMMA StoreValue ==
    ASSUME NEW V, NEW h \in HashType(V), Disjoint(h), NEW k \in IP, Lookup(h, k) # NoElem,
           NEW v, NEW none, NEW j \in IP
    PROVE  /\ Lookup(Store(h, Lookup(h, k), v), j) = Lookup(h, j)
           /\ Value(Store(h, Lookup(h, k), v), j, none) = IF j = k THEN v ELSE Value(h, j, none)
           /\ Full(Store(h, Lookup(h, k), v)) <=> Full(h)
<1>1. Lookup(h, k) \in Elem
  BY LookupType
<1>2. Lookup(h, j) = Lookup(h, k) => j = k
  BY DEF Disjoint, Lookup
<1>3. Lookup(Store(h, Lookup(h, k), v), j) = Lookup(h, j)
  BY DEF Store, Lookup, HashType
<1>4. Store(h, Lookup(h, k), v).val = [h.val EXCEPT ![Lookup(h, k)] = v]
  BY DEF Store, HashType
<1>5. Value(Store(h, Lookup(h, k), v), j, none) = IF j = k THEN v ELSE Value(h, j, none)
  <2>1. h.val \in [Elem -> V] /\ Lookup(h, j) \in Elem \cup {NoElem}
    BY LookupType DEF HashType
  <2>2. CASE j = k
    BY <1>1, <1>3, <1>4, <2>1, <2>2 DEF Value
  <2>3. CASE j # k
    BY <1>1, <1>2, <1>3, <1>4, <2>1, <2>3 DEF Value
  <2> QED
    BY <2>2, <2>3
<1>6. Full(Store(h, Lookup(h, k), v)) <=> Full(h)
  BY DEF Full, Free, Store, HashType
<1> QED
  BY <1>3, <1>5, <1>6

\* Updating a key without an entry gives it one, if there is a free element.
LEMMA InsertValue ==
    ASSUME NEW V, NEW h \in HashType(V), Disjoint(h), NEW c \in CPU, NEW k \in IP,
           Lookup(h, k) = NoElem, NEW v, ~Full(h), NEW none, NEW j \in IP,
           NEW hn \in Update(h, c, k, v)
    PROVE  /\ Lookup(hn, k) # NoElem
           /\ j # k => Lookup(hn, j) = Lookup(h, j)
           /\ Value(hn, j, none) = IF j = k THEN v ELSE Value(h, j, none)
<1>1. PICK e \in Free(h) : hn = Insert(h, k, e, v)
  BY DEF Update, Full, Lookup
<1>2. e \in Elem /\ e # NoElem /\ Lookup(h, j) # e
  BY <1>1, NoElemAssumption DEF Free, Lookup, Elem
<1>3. Insert(h, k, e, v).at = [h.at EXCEPT ![k] = e] /\ Insert(h, k, e, v).val = [h.val EXCEPT ![e] = v]
  BY DEF Insert, HashType
<1>4. h.at \in [IP -> Elem \cup {NoElem}] /\ h.val \in [Elem -> V]
  BY DEF HashType
<1> QED
  BY <1>1, <1>2, <1>3, <1>4 DEF Value, Lookup

LEMMA UpdateFull ==
    ASSUME NEW V, NEW h \in HashType(V), NEW c \in CPU, NEW k \in IP,
           Lookup(h, k) = NoElem, Full(h), NEW v
    PROVE  Update(h, c, k, v) = {h}
BY DEF Update, Lookup

LEMMA EmptyValue ==
    ASSUME NEW v, NEW none, NEW k \in IP
    PROVE  Lookup(EmptyHash(v), k) = NoElem /\ Value(EmptyHash(v), k, none) = none
BY DEF Value, Lookup, EmptyHash

LEMMA NothingCleaned ==
    ASSUME TypeOK
    PROVE  ~\E ip \in IP : CleanFlow(ip) \/ CleanScan(ip)
BY NoCleaning DEF TypeOK, HistoryTypes, CleanFlow, CleanScan, Cleaning

-----------------------------------------------------------------------------
(***************************************************************************)
(* The words of a bitmap, which the loops go through one after the other.  *)
(***************************************************************************)
LowWords(n) == {p \in LowPort : WordOf(p) < n}

LEMMA PortFinite == ASSUME NEW A \in SUBSET LowPort
                    PROVE  IsFiniteSet(A) /\ Cardinality(A) \in Nat
<1>1. Words \in Nat /\ Bits \in Nat
  BY ParameterAssumption
<1>2. Words * Bits \in Nat
  BY <1>1
<1>3. IsFiniteSet(LowPort)
  BY <1>2, FS_Interval DEF LowPort
<1> QED
  BY <1>3, FS_Subset, FS_CardinalityType

LEMMA WordInRange == ASSUME NEW p \in LowPort PROVE WordOf(p) \in 0..Words - 1
<1> DEFINE q == p \div Bits
           r == p % Bits
<1>1. Words \in Nat /\ Bits \in Nat /\ Bits > 0 /\ Words * Bits \in Nat
  BY ParameterAssumption
<1>2. p \in Nat /\ p < Words * Bits
  BY <1>1 DEF LowPort
<1>3. q \in Int /\ r \in 0..Bits - 1 /\ p = Bits * q + r
  BY <1>1, <1>2
<1>4. q \in Nat
  BY <1>1, <1>2
<1>5. q < Words
  <2> HIDE DEF q, r
  <2>1. SUFFICES ASSUME q >= Words PROVE FALSE
    BY <1>1, <1>3
  <2>2. Bits * q >= Bits * Words
    BY <1>1, <1>3, <2>1
  <2> QED
    BY <1>1, <1>2, <1>3, <2>2
<1> QED
  BY <1>1, <1>4, <1>5 DEF WordOf

LEMMA WordLoop ==
    ASSUME NEW A \in SUBSET LowPort, NEW n \in 0..Words - 1
    PROVE  /\ LowWords(0) = {} /\ LowWords(Words) = LowPort
           /\ LowWords(n + 1) = LowWords(n) \cup WordBits(n)
           /\ Cardinality(A \cap LowWords(n + 1))
                = Cardinality(A \cap LowWords(n)) + Cardinality(A \cap WordBits(n))
<1>0. Words \in Nat
  BY ParameterAssumption
<1>1. LowWords(0) = {} /\ LowWords(Words) = LowPort
  BY <1>0, WordInRange DEF LowWords
<1>2. LowWords(n + 1) = LowWords(n) \cup WordBits(n)
  BY <1>0, WordInRange DEF LowWords, WordBits
<1>3. LowWords(n) \cap WordBits(n) = {}
  BY <1>0, WordInRange DEF LowWords, WordBits
<1>b. PICK B \in SUBSET LowPort : B = A \cap LowWords(n)
  OBVIOUS
<1>c. PICK C \in SUBSET LowPort : C = A \cap WordBits(n)
  OBVIOUS
<1>4. IsFiniteSet(B) /\ IsFiniteSet(C) /\ Cardinality(B) \in Nat /\ Cardinality(C) \in Nat
  BY PortFinite
<1>5. B \cap C = {} /\ B \cup C = A \cap LowWords(n + 1)
  BY <1>2, <1>3, <1>b, <1>c
<1>6. Cardinality(B \cup C) = Cardinality(B) + Cardinality(C) - Cardinality(B \cap C)
  BY <1>4, FS_Union
<1>7. Cardinality(B \cap C) = 0
  BY <1>5, FS_EmptySet
<1>8. /\ Cardinality(A \cap LowWords(n + 1)) = Cardinality(B \cup C)
      /\ Cardinality(A \cap LowWords(n)) = Cardinality(B)
      /\ Cardinality(A \cap WordBits(n)) = Cardinality(C)
  BY <1>5, <1>b, <1>c, Zenon
<1> QED
  BY <1>1, <1>2, <1>4, <1>6, <1>7, <1>8

LEMMA LastWord ==
    ASSUME NEW A \in SUBSET LowPort, NEW n \in 0..Words - 1, ~(n + 1 < Words)
    PROVE  A \cap LowWords(n + 1) = A
<1>1. n + 1 = Words
  BY ParameterAssumption
<1>2. LowWords(n + 1) = LowPort
  BY <1>1, WordLoop
<1> QED
  BY <1>2

-----------------------------------------------------------------------------
(***************************************************************************)
(* check_port_scan.  ScanRegisters: what the CPU holds agrees with the map *)
(* at every step, as nobody else writes it.  ScanRemembered: the bitmap of *)
(* a source is the set of ports probed since its last alert, and it is     *)
(* above the threshold only between the store and the alert.  AlertsPaid:  *)
(* the probes of a source pay for its alerts and for its bitmap.           *)
(***************************************************************************)
Source == src(Here)
Port == pkt[Here].port
Held(ip) == Value(scan, ip, {})

ScanRegisters ==
    /\ pc[Here] = "scanNew" => Lookup(scan, Source) = NoElem
    /\ pc[Here] \in PortSteps => ptr[Here] = Lookup(scan, Source)
    /\ pc[Here] = "scanStore" => bits[Here] = Held(Source) \cap WordBits(WordOf(Port))
    /\ pc[Here] = "scanCount" =>
           /\ idx[Here] < Words
           /\ total[Here] = Cardinality(Held(Source) \cap LowWords(idx[Here]))
    /\ pc[Here] = "scanAlert" => Cardinality(Held(Source)) > ScanThreshold
    /\ pc[Here] = "scanClear" =>
           /\ idx[Here] < Words
           /\ Held(Source) \cap LowWords(idx[Here]) = {}

ScanRemembered ==
    \A ip \in IP :
        /\ fresh[ip] = IF pc[Here] = "scanClear" /\ ip = Source THEN {} ELSE Held(ip)
        /\ Cardinality(fresh[ip]) > ScanThreshold =>
               ip = Source /\ pc[Here] \in {"scanCount", "scanAlert"}

Paid(ip) ==
    /\ scanAlerts[ip] * (ScanThreshold + 1) + Cardinality(fresh[ip]) <= probes[ip]
    /\ fresh[ip] \subseteq probed[ip]
    /\ scanAlerts[ip] > 0 => Cardinality(probed[ip]) > ScanThreshold

AlertsPaid == \A ip \in IP : Paid(ip)

ScanInv == Disjoint(scan) /\ ScanRegisters /\ ScanRemembered /\ AlertsPaid

Loops == {"scanCount", "scanAlert", "scanClear"}

LEMMA HeldType ==
    ASSUME TypeOK, NEW ip \in IP
    PROVE  Held(ip) \in SUBSET LowPort
<1>1. scan \in HashType(SUBSET LowPort)
  BY DEF TypeOK, MapTypes
<1>2. Lookup(scan, ip) # NoElem => scan.val[Lookup(scan, ip)] \in SUBSET LowPort
  BY <1>1, LookupType, ValueType
<1> QED
  BY <1>2 DEF Held, Value

\* In the middle of check_port_scan: the source, its port and its element.
LEMMA PortStep ==
    ASSUME TypeOK, ScanRegisters, pc[Here] \in PortSteps
    PROVE  /\ Source \in IP /\ Port \in LowPort
           /\ Lookup(scan, Source) # NoElem /\ ptr[Here] = Lookup(scan, Source)
           /\ scan.val[ptr[Here]] = Held(Source)
<1>1. Source \in IP
  BY HereIs, BusyPacket DEF PortSteps, Source
<1>2. Port \in LowPort /\ ptr[Here] \in Elem /\ ptr[Here] = Lookup(scan, Source)
  BY HereIs DEF TypeOK, LocalTypes, PtrSteps, ScanRegisters, Port
<1>3. Lookup(scan, Source) # NoElem
  BY <1>2, NoElemAssumption DEF Elem
<1> QED
  BY <1>1, <1>2, <1>3 DEF Held, Value

\* A store through the pointer changes the bitmap of the source and nothing else.
LEMMA HeldStore ==
    ASSUME TypeOK, ScanInv, pc[Here] \in PortSteps, NEW v, scan' = Store(scan, ptr[Here], v)
    PROVE  /\ Disjoint(scan')
           /\ \A ip \in IP : Lookup(scan', ip) = Lookup(scan, ip)
           /\ \A ip \in IP : Value(scan', ip, {}) = IF ip = Source THEN v ELSE Held(ip)
<1>1. scan \in HashType(SUBSET LowPort) /\ Disjoint(scan) /\ ScanRegisters
  BY DEF TypeOK, MapTypes, ScanInv
<1>2. Source \in IP /\ Lookup(scan, Source) # NoElem /\ ptr[Here] = Lookup(scan, Source)
  BY <1>1, PortStep
<1>3. Disjoint(scan')
  BY <1>1, StoreDisjoint
<1> QED
  BY <1>1, <1>2, <1>3, StoreValue DEF Held

\* Steps outside the loops that leave the bitmaps alone.
LEMMA ScanQuiet ==
    ASSUME TypeOK, ScanInv, UNCHANGED <<scan, scanHist>>,
           pc[Here] \notin Loops, pc'[Here] \notin Loops, ScanRegisters'
    PROVE  ScanInv'
<1>1. Disjoint(scan)' /\ AlertsPaid'
  BY DEF ScanInv, AlertsPaid, Paid, scanHist
<1>2. ASSUME NEW ip \in IP
      PROVE  /\ fresh'[ip] = Held(ip)'
             /\ ~(Cardinality(fresh'[ip]) > ScanThreshold)
  BY DEF ScanInv, ScanRemembered, scanHist, Held, Loops
<1>3. ScanRemembered'
  BY <1>2 DEF ScanRemembered, Loops
<1> QED
  BY <1>1, <1>3 DEF ScanInv

LEMMA ScanInvInit == Init => ScanInv
<1> SUFFICES ASSUME Init PROVE ScanInv
  OBVIOUS
<1>1. Disjoint(scan)
  BY EmptyDisjoint DEF Init
<1>2. pc[Here] = "idle"
  BY HereIs DEF Init
<1>3. ScanRegisters
  BY <1>2 DEF ScanRegisters, PortSteps
<1>4. \A ip \in IP : Held(ip) = {} /\ fresh[ip] = {} /\ probed[ip] = {} /\ scanAlerts[ip] = 0 /\ probes[ip] = 0
  BY EmptyValue DEF Init, Held, Zero
<1>5. Cardinality({}) = 0 /\ ScanThreshold \in Nat
  BY FS_EmptySet, ParameterAssumption
<1>6. \A ip \in IP : fresh[ip] = Held(ip) /\ Cardinality(fresh[ip]) = 0
  BY <1>4, <1>5
<1>7. ScanRemembered
  BY <1>2, <1>5, <1>6 DEF ScanRemembered
<1>8. ASSUME NEW ip \in IP PROVE Paid(ip)
  <2>1. scanAlerts[ip] * (ScanThreshold + 1) = 0
    BY <1>4, <1>5
  <2> QED
    BY <1>4, <1>6, <2>1 DEF Paid
<1> QED
  BY <1>1, <1>3, <1>7, <1>8 DEF ScanInv, AlertsPaid

LEMMA ScanCreateInv == ASSUME TypeOK, ScanInv, ScanCreate(Here) PROVE ScanInv'
<1>1. /\ pc[Here] = "scanNew" /\ scan' \in Update(scan, Here, Source, {})
      /\ pc' = [pc EXCEPT ![Here] = "scanAgain"] /\ UNCHANGED <<pkt, scanHist>>
  BY DEF ScanCreate, Source, Goto, local
<1>2. scan \in HashType(SUBSET LowPort) /\ Disjoint(scan) /\ pc \in [CPU -> Steps]
  BY DEF TypeOK, MapTypes, LocalTypes, ScanInv
<1>3. Source \in IP /\ Here \in CPU /\ Lookup(scan, Source) = NoElem
  BY <1>1, HereIs, BusyPacket DEF Source, ScanInv, ScanRegisters
<1>4. Disjoint(scan')
  BY <1>1, <1>2, <1>3, UpdateDisjoint
<1>5. \A ip \in IP : Held(ip)' = Held(ip)
  <2>1. CASE Full(scan)
    <3>1. Update(scan, Here, Source, {}) = {scan}
      BY <1>2, <1>3, <2>1, UpdateFull
    <3>2. scan' = scan
      BY <1>1, <3>1
    <3> QED
      BY <3>2 DEF Held
  <2>2. CASE ~Full(scan)
    <3>1. \A ip \in IP : Value(scan', ip, {}) = IF ip = Source THEN {} ELSE Held(ip)
      BY <1>1, <1>2, <1>3, <2>2, InsertValue DEF Held
    <3>2. Held(Source) = {}
      BY <1>3 DEF Held, Value
    <3> QED
      BY <3>1, <3>2 DEF Held
  <2> QED
    BY <2>1, <2>2
<1>6. pc'[Here] = "scanAgain"
  BY <1>1, <1>2, <1>3
<1>7. ScanRegisters'
  BY <1>6 DEF ScanRegisters, PortSteps
<1>8. ScanRemembered' /\ AlertsPaid'
  BY <1>1, <1>5, <1>6 DEF ScanInv, ScanRemembered, AlertsPaid, Paid, scanHist
<1> QED
  BY <1>4, <1>7, <1>8 DEF ScanInv

\* The store of |= : the other words as they were, this one with the bit set.
LEMMA ScanStoreInv == ASSUME TypeOK, ScanInv, ScanStore(Here) PROVE ScanInv'
<1>0. Here \in CPU /\ pc[Here] = "scanStore" /\ ScanRegisters
  BY HereIs DEF ScanStore, ScanInv
<1>1. Source \in IP /\ Port \in LowPort /\ scan.val[ptr[Here]] = Held(Source)
      /\ ptr[Here] = Lookup(scan, Source)
  BY <1>0, PortStep DEF PortSteps
<1>2. bits[Here] = Held(Source) \cap WordBits(WordOf(Port))
  BY <1>0 DEF ScanRegisters
<1>3. (Held(Source) \ WordBits(WordOf(Port))) \cup bits[Here] \cup {Port} = Held(Source) \cup {Port}
  BY <1>2
<1>4. scan' = Store(scan, ptr[Here], Held(Source) \cup {Port})
  BY <1>1, <1>3 DEF ScanStore, Port
<1>5. /\ pc' = [pc EXCEPT ![Here] = "scanCount"]
      /\ idx' = [idx EXCEPT ![Here] = 0] /\ total' = [total EXCEPT ![Here] = 0]
      /\ probed' = [probed EXCEPT ![Source] = @ \cup {Port}]
      /\ fresh' = [fresh EXCEPT ![Source] = @ \cup {Port}]
      /\ probes' = [probes EXCEPT ![Source] = @ + 1]
      /\ UNCHANGED <<pkt, ptr, scanAlerts>>
  BY DEF ScanStore, Source, Port, Goto, Bump
<1>6. /\ pc \in [CPU -> Steps] /\ idx \in [CPU -> Nat] /\ total \in [CPU -> Nat]
      /\ probed \in [IP -> SUBSET LowPort] /\ fresh \in [IP -> SUBSET LowPort]
      /\ probes \in [IP -> Nat] /\ scanAlerts \in [IP -> Nat]
  BY DEF TypeOK, LocalTypes, HistoryTypes
<1>7. pc'[Here] = "scanCount" /\ idx'[Here] = 0 /\ total'[Here] = 0 /\ Source' = Source
      /\ ptr'[Here] = ptr[Here]
  BY <1>0, <1>5, <1>6 DEF Source, src
<1>8. /\ Disjoint(scan') /\ Lookup(scan', Source) = Lookup(scan, Source)
      /\ \A ip \in IP : Held(ip)' = IF ip = Source THEN Held(Source) \cup {Port} ELSE Held(ip)
  BY <1>0, <1>1, <1>4, HeldStore DEF PortSteps, Held
<1>9. ScanRegisters'
  <2>0. LowWords(0) = {}
    <3>1. 0 \in 0..Words - 1 /\ {} \in SUBSET LowPort
      BY ParameterAssumption
    <3> QED
      BY <3>1, WordLoop
  <2>1. Held(Source)' \cap LowWords(0) = {}
    BY <2>0
  <2>2. Cardinality(Held(Source)' \cap LowWords(0)) = 0
    BY <2>1, FS_EmptySet
  <2>3. 0 < Words
    BY ParameterAssumption
  <2> QED
    BY <1>1, <1>7, <1>8, <2>2, <2>3 DEF ScanRegisters, PortSteps
<1>10. ScanRemembered'
  BY <1>0, <1>1, <1>5, <1>6, <1>7, <1>8 DEF ScanInv, ScanRemembered
<1>11. ASSUME NEW ip \in IP PROVE Paid(ip)'
  <2>0. Paid(ip)
    BY DEF ScanInv, AlertsPaid
  <2>1. CASE ip # Source
    BY <1>5, <1>6, <2>0, <2>1 DEF Paid
  <2>2. CASE ip = Source
    <3>1. /\ fresh'[ip] = fresh[ip] \cup {Port} /\ probed'[ip] = probed[ip] \cup {Port}
          /\ probes'[ip] = probes[ip] + 1 /\ scanAlerts'[ip] = scanAlerts[ip]
      BY <1>5, <1>6, <2>2
    <3>2. /\ IsFiniteSet(fresh[ip]) /\ Cardinality(fresh[ip]) \in Nat
          /\ IsFiniteSet(probed'[ip]) /\ Cardinality(probed'[ip]) \in Nat
          /\ Cardinality(probed[ip]) \in Nat
      <4>1. fresh[ip] \in SUBSET LowPort /\ probed[ip] \in SUBSET LowPort
            /\ probed'[ip] \in SUBSET LowPort
        BY <1>1, <1>6, <3>1
      <4> QED
        BY <4>1, PortFinite
    <3>3. Cardinality(fresh[ip] \cup {Port}) <= Cardinality(fresh[ip]) + 1
      <4>1. Cardinality(fresh[ip] \cup {Port})
              = IF Port \in fresh[ip] THEN Cardinality(fresh[ip]) ELSE Cardinality(fresh[ip]) + 1
        BY <3>2, FS_AddElement
      <4> QED
        BY <3>2, <4>1
    <3>4. Cardinality(fresh'[ip]) <= Cardinality(fresh[ip]) + 1
      BY <3>1, <3>3
    <3>5. fresh'[ip] \in SUBSET LowPort
      BY <1>1, <1>6, <3>1
    <3>6. Cardinality(fresh'[ip]) \in Nat
      BY <3>5, PortFinite
    <3>7. Cardinality(probed[ip]) <= Cardinality(probed'[ip])
      BY <3>1, <3>2, FS_Subset
    <3>8. scanAlerts[ip] * (ScanThreshold + 1) \in Nat /\ ScanThreshold \in Nat
      BY <1>6, ParameterAssumption
    <3>9. scanAlerts'[ip] * (ScanThreshold + 1) + Cardinality(fresh'[ip]) <= probes'[ip]
      BY <1>6, <2>0, <3>1, <3>2, <3>4, <3>6, <3>8 DEF Paid
    <3>10. fresh'[ip] \subseteq probed'[ip]
      BY <2>0, <3>1 DEF Paid
    <3>11. scanAlerts'[ip] > 0 => Cardinality(probed'[ip]) > ScanThreshold
      BY <2>0, <3>1, <3>2, <3>7, <3>8 DEF Paid
    <3> QED
      BY <3>9, <3>10, <3>11 DEF Paid
  <2> QED
    BY <2>1, <2>2
<1> QED
  BY <1>8, <1>9, <1>10, <1>11 DEF ScanInv, AlertsPaid

\* One round of the popcount loop, and the comparison after the last.
LEMMA ScanCountInv == ASSUME TypeOK, ScanInv, ScanCount(Here) PROVE ScanInv'
<1>0. Here \in CPU /\ pc[Here] = "scanCount" /\ ScanRegisters
  BY HereIs DEF ScanCount, ScanInv
<1>1. Source \in IP /\ scan.val[ptr[Here]] = Held(Source) /\ Held(Source) \in SUBSET LowPort
      /\ Port \in LowPort
  BY <1>0, PortStep, HeldType DEF PortSteps
<1> DEFINE n == idx[Here]
           sum == Cardinality(Held(Source) \cap LowWords(n + 1))
<1>2. n \in 0..Words - 1 /\ total[Here] = Cardinality(Held(Source) \cap LowWords(n))
  BY <1>0, ParameterAssumption DEF ScanRegisters, TypeOK, LocalTypes
<1>3. total[Here] + Cardinality(Held(Source) \cap WordBits(n)) = sum
  BY <1>1, <1>2, WordLoop
<1>4. /\ pc \in [CPU -> Steps] /\ idx \in [CPU -> Nat] /\ total \in [CPU -> Nat]
  BY DEF TypeOK, LocalTypes
<1>5. /\ total'[Here] = sum /\ idx'[Here] = n + 1
      /\ pc'[Here] = IF n + 1 < Words THEN "scanCount"
                     ELSE IF sum > ScanThreshold THEN "scanAlert" ELSE "flow"
      /\ UNCHANGED <<scan, scanHist, pkt, ptr>>
  <2>1. total'[Here] = sum
    BY <1>0, <1>1, <1>3, <1>4 DEF ScanCount
  <2> HIDE DEF sum
  <2> QED
    BY <1>0, <1>4, <2>1 DEF ScanCount, NextWord, Goto, ScanTripped, maps
<1>6. n + 1 < Words \/ Held(Source) \cap LowWords(n + 1) = Held(Source)
  BY <1>1, <1>2, LastWord
<1>7. n + 1 < Words \/ sum = Cardinality(Held(Source))
  BY <1>6
<1> HIDE DEF n
<1>8. Source' = Source /\ Held(Source)' = Held(Source)
  BY <1>5 DEF Source, src, Held
<1>9. ScanRegisters'
  BY <1>0, <1>5, <1>7, <1>8 DEF ScanRegisters, PortSteps
<1>10. fresh' = fresh /\ \A ip \in IP : Held(ip)' = Held(ip)
  BY <1>5 DEF scanHist, Held
<1>11. fresh[Source] = Held(Source)
  BY <1>0, <1>1 DEF ScanInv, ScanRemembered
<1>12. ScanRemembered'
  <2>1. ASSUME NEW ip \in IP PROVE fresh'[ip] = Held(ip)' /\ pc'[Here] # "scanClear"
    BY <1>0, <1>5, <1>10 DEF ScanInv, ScanRemembered
  <2>2. ASSUME NEW ip \in IP, Cardinality(fresh'[ip]) > ScanThreshold
        PROVE  ip = Source' /\ pc'[Here] \in {"scanCount", "scanAlert"}
    <3>1. ip = Source
      BY <1>10, <2>2 DEF ScanInv, ScanRemembered
    <3> QED
      BY <1>5, <1>7, <1>8, <1>10, <1>11, <2>2, <3>1
  <2> QED
    BY <2>1, <2>2 DEF ScanRemembered
<1>13. AlertsPaid' /\ Disjoint(scan)'
  BY <1>5 DEF ScanInv, AlertsPaid, Paid, scanHist
<1> QED
  BY <1>9, <1>12, <1>13 DEF ScanInv

\* The alert uses up the ports of the bitmap: ScanThreshold + 1 probes at least.
LEMMA ScanAlertInv == ASSUME TypeOK, ScanInv, ScanAlert(Here) PROVE ScanInv'
<1>0. Here \in CPU /\ pc[Here] = "scanAlert" /\ ScanRegisters
  BY HereIs DEF ScanAlert, ScanInv
<1>1. Source \in IP /\ Cardinality(Held(Source)) > ScanThreshold
  BY <1>0, PortStep DEF PortSteps, ScanRegisters
<1>2. /\ pc' = [pc EXCEPT ![Here] = "scanClear"] /\ idx' = [idx EXCEPT ![Here] = 0]
      /\ scanAlerts' = [scanAlerts EXCEPT ![Source] = @ + 1]
      /\ fresh' = [fresh EXCEPT ![Source] = {}]
      /\ UNCHANGED <<scan, pkt, ptr, probes, probed>>
  BY DEF ScanAlert, Source, Goto, Bump
<1>3. /\ pc \in [CPU -> Steps] /\ idx \in [CPU -> Nat] /\ scanAlerts \in [IP -> Nat]
      /\ fresh \in [IP -> SUBSET LowPort] /\ probed \in [IP -> SUBSET LowPort] /\ probes \in [IP -> Nat]
  BY DEF TypeOK, LocalTypes, HistoryTypes
<1>4. pc'[Here] = "scanClear" /\ idx'[Here] = 0 /\ Source' = Source
      /\ \A ip \in IP : Held(ip)' = Held(ip)
  BY <1>0, <1>2, <1>3 DEF Source, src, Held
<1>5. fresh[Source] = Held(Source)
  BY <1>0, <1>1 DEF ScanInv, ScanRemembered
<1>6. ScanRegisters'
  <2>1. LowWords(0) = {} /\ 0 < Words
    <3>1. 0 \in 0..Words - 1 /\ {} \in SUBSET LowPort /\ 0 < Words
      BY ParameterAssumption
    <3> QED
      BY <3>1, WordLoop
  <2> QED
    BY <1>0, <1>2, <1>4, <2>1 DEF ScanRegisters, PortSteps
<1>7. ScanRemembered'
  <2>1. Cardinality({}) = 0 /\ ScanThreshold \in Nat
    BY FS_EmptySet, ParameterAssumption
  <2>2. fresh'[Source] = {} /\ \A ip \in IP : ip # Source => fresh'[ip] = fresh[ip]
    BY <1>1, <1>2, <1>3
  <2>3. ~(Cardinality(fresh'[Source]) > ScanThreshold)
    BY <2>1, <2>2
  <2> QED
    BY <1>0, <1>4, <2>2, <2>3 DEF ScanInv, ScanRemembered
<1>8. ASSUME NEW ip \in IP PROVE Paid(ip)'
  <2>0. Paid(ip)
    BY DEF ScanInv, AlertsPaid
  <2>1. CASE ip # Source
    BY <1>2, <1>3, <2>0, <2>1 DEF Paid
  <2>2. CASE ip = Source
    <3>1. scanAlerts'[ip] = scanAlerts[ip] + 1 /\ fresh'[ip] = {} /\ Cardinality({}) = 0
          /\ UNCHANGED <<probes, probed>>
      BY <1>1, <1>2, <1>3, <2>2, FS_EmptySet
    <3>2. Cardinality(fresh'[ip]) = 0
      BY <3>1
    <3>3. Cardinality(fresh[ip]) \in Nat /\ Cardinality(fresh[ip]) > ScanThreshold
      <4>1. Cardinality(fresh[ip]) \in Nat
        BY <1>3, PortFinite
      <4> QED
        BY <1>1, <1>5, <2>2, <4>1
    <3>4. ScanThreshold \in Nat /\ scanAlerts[ip] \in Nat /\ probes[ip] \in Nat
      BY <1>3, ParameterAssumption
    <3>5. (scanAlerts[ip] + 1) * (ScanThreshold + 1)
            = scanAlerts[ip] * (ScanThreshold + 1) + ScanThreshold + 1
      BY <3>4
    <3>6. scanAlerts[ip] * (ScanThreshold + 1) \in Nat
      BY <3>4
    <3>7. scanAlerts'[ip] * (ScanThreshold + 1) + Cardinality(fresh'[ip]) <= probes'[ip]
      BY <2>0, <3>1, <3>2, <3>3, <3>4, <3>5, <3>6 DEF Paid
    <3>8. Cardinality(probed[ip]) > ScanThreshold
      <4>1. probed[ip] \in SUBSET LowPort /\ fresh[ip] \in SUBSET probed[ip]
        BY <1>3, <2>0 DEF Paid
      <4>2. IsFiniteSet(probed[ip]) /\ Cardinality(probed[ip]) \in Nat
        BY <4>1, PortFinite
      <4>3. Cardinality(fresh[ip]) <= Cardinality(probed[ip])
        BY <4>1, <4>2, FS_Subset
      <4> QED
        BY <3>3, <3>4, <4>2, <4>3
    <3> QED
      BY <3>1, <3>7, <3>8 DEF Paid
  <2> QED
    BY <2>1, <2>2
<1> QED
  BY <1>2, <1>6, <1>7, <1>8 DEF ScanInv, AlertsPaid

\* One round of the loop that clears the bitmap, and all of it after the last.
LEMMA ScanClearInv == ASSUME TypeOK, ScanInv, ScanClear(Here) PROVE ScanInv'
<1>0. Here \in CPU /\ pc[Here] = "scanClear" /\ ScanRegisters
  BY HereIs DEF ScanClear, ScanInv
<1> DEFINE n == idx[Here]
           left == Held(Source) \ WordBits(n)
<1>1. Source \in IP /\ scan.val[ptr[Here]] = Held(Source) /\ Held(Source) \in SUBSET LowPort
      /\ ptr[Here] = Lookup(scan, Source)
  BY <1>0, PortStep, HeldType DEF PortSteps
<1>2. n \in 0..Words - 1 /\ Held(Source) \cap LowWords(n) = {}
  BY <1>0, ParameterAssumption DEF ScanRegisters, TypeOK, LocalTypes
<1>3. scan' = Store(scan, ptr[Here], left)
  BY <1>1 DEF ScanClear, WordCleared
<1>4. pc \in [CPU -> Steps] /\ idx \in [CPU -> Nat]
  BY DEF TypeOK, LocalTypes
<1>5. /\ idx'[Here] = n + 1 /\ pc'[Here] = IF n + 1 < Words THEN "scanClear" ELSE "flow"
      /\ UNCHANGED <<scanHist, pkt, ptr>>
  BY <1>0, <1>4 DEF ScanClear, NextWord, Goto
<1>6. /\ Disjoint(scan') /\ Lookup(scan', Source) = Lookup(scan, Source)
      /\ \A ip \in IP : Held(ip)' = IF ip = Source THEN left ELSE Held(ip)
  BY <1>0, <1>1, <1>3, HeldStore DEF PortSteps, Held
<1>7. left \cap LowWords(n + 1) = {}
  BY <1>1, <1>2, WordLoop
<1>8. n + 1 < Words \/ left = {}
  <2>1. left \in SUBSET LowPort
    BY <1>1
  <2> HIDE DEF n, left
  <2>2. n + 1 < Words \/ left \cap LowWords(n + 1) = left
    BY <1>2, <2>1, LastWord
  <2> QED
    BY <1>7, <2>2
<1> HIDE DEF n, left
<1>9. Source' = Source
  BY <1>5 DEF Source, src
<1>10. ScanRegisters'
  BY <1>0, <1>1, <1>5, <1>6, <1>7, <1>9 DEF ScanRegisters, PortSteps
<1>11. ScanRemembered'
  <2>1. fresh' = fresh
    BY <1>5 DEF scanHist
  <2>2. \A ip \in IP : fresh'[ip] = IF pc'[Here] = "scanClear" /\ ip = Source' THEN {} ELSE Held(ip)'
    BY <1>0, <1>5, <1>6, <1>8, <1>9, <2>1 DEF ScanInv, ScanRemembered
  <2>3. \A ip \in IP : ~(Cardinality(fresh'[ip]) > ScanThreshold)
    BY <1>0, <2>1 DEF ScanInv, ScanRemembered
  <2> QED
    BY <2>2, <2>3 DEF ScanRemembered
<1>12. AlertsPaid'
  BY <1>5 DEF ScanInv, AlertsPaid, Paid, scanHist
<1> QED
  BY <1>6, <1>10, <1>11, <1>12 DEF ScanInv

LEMMA ScanInvNext == TypeOK /\ ScanInv /\ [Next]_vars => ScanInv'
<1> SUFFICES ASSUME TypeOK, ScanInv, [Next]_vars PROVE ScanInv'
  OBVIOUS
<1>0. /\ Here \in CPU /\ pc \in [CPU -> Steps] /\ ptr \in [CPU -> Elem \cup {NoElem}]
      /\ bits \in [CPU -> SUBSET LowPort] /\ scan \in HashType(SUBSET LowPort) /\ ScanRegisters
  BY HereIs DEF TypeOK, MapTypes, LocalTypes, ScanInv
<1>1. CASE UNCHANGED <<scan, scanHist, pc, local>>
  BY <1>1 DEF ScanInv, ScanRegisters, ScanRemembered, AlertsPaid, Paid, scanHist, local, Source,
              Port, src, Held
<1>2. ASSUME NEW p \in Packet, Enter(Here, p) PROVE ScanInv'
  <2>1. UNCHANGED <<scan, scanHist>> /\ pc[Here] = "idle"
    BY <1>2 DEF Enter, maps
  <2>2. pc'[Here] \in {"idle", "syn", "scan", "flow"}
    BY <1>0, <1>2 DEF Enter, FirstStep
  <2>3. ScanRegisters'
    BY <2>2 DEF ScanRegisters, PortSteps
  <2> QED
    BY <2>1, <2>2, <2>3, ScanQuiet DEF Loops
<1>3. CASE CheckSynFlood(Here)
  <2>1. UNCHANGED <<scan, scanHist>> /\ pc[Here] = "syn" /\ pc'[Here] = "scan"
    BY <1>0, <1>3 DEF CheckSynFlood, Goto
  <2>2. ScanRegisters'
    BY <2>1 DEF ScanRegisters, PortSteps
  <2> QED
    BY <2>1, <2>2, ScanQuiet DEF Loops
<1>4. CASE ScanLookup(Here) \/ ScanRelookup(Here)
  <2>1. UNCHANGED <<scan, scanHist, pkt>> /\ pc[Here] \in {"scan", "scanAgain"}
    BY <1>4 DEF ScanLookup, ScanRelookup, maps
  <2>2. /\ pc'[Here] \in {"scanNew", "scanLoad", "flow"}
        /\ pc'[Here] = "scanNew" => Lookup(scan, Source) = NoElem
        /\ pc'[Here] = "scanLoad" => ptr'[Here] = Lookup(scan, Source)
    BY <1>0, <1>4 DEF ScanLookup, ScanRelookup, ScanFound, Goto, Source
  <2>3. Source' = Source
    BY <2>1 DEF Source, src
  <2>4. ScanRegisters'
    BY <2>1, <2>2, <2>3 DEF ScanRegisters, PortSteps
  <2> QED
    BY <2>1, <2>2, <2>4, ScanQuiet DEF Loops
<1>5. CASE ScanLoad(Here)
  <2>1. /\ UNCHANGED <<scan, scanHist, pkt, ptr>> /\ pc[Here] = "scanLoad" /\ pc'[Here] = "scanStore"
        /\ bits'[Here] = scan.val[ptr[Here]] \cap WordBits(WordOf(Port))
    BY <1>0, <1>5 DEF ScanLoad, maps, Goto, Port
  <2>2. scan.val[ptr[Here]] = Held(Source) /\ ptr[Here] = Lookup(scan, Source)
    BY <1>0, <2>1, PortStep DEF PortSteps
  <2>3. Source' = Source /\ Held(Source)' = Held(Source) /\ Port' = Port
    BY <2>1 DEF Source, src, Held, Port
  <2>4. ScanRegisters'
    BY <2>1, <2>2, <2>3 DEF ScanRegisters, PortSteps
  <2> QED
    BY <2>1, <2>4, ScanQuiet DEF Loops
<1>6. CASE \/ FlowLookup(Here) \/ FlowCreate(Here) \/ FlowLoadPkts(Here) \/ FlowStorePkts(Here)
           \/ FlowLoadBytes(Here) \/ FlowStoreBytes(Here)
  <2>1. UNCHANGED <<scan, scanHist>>
    BY <1>6 DEF FlowLookup, FlowCreate, FlowLoadPkts, FlowStorePkts, FlowLoadBytes, FlowStoreBytes,
                FlowLoad, FlowStore, maps
  <2>2. /\ pc[Here] \in {"flow", "flowNew", "flowLoadPkts", "flowStorePkts", "flowLoadBytes", "flowStoreBytes"}
        /\ pc'[Here] \in {"idle", "flowNew", "flowLoadPkts", "flowStorePkts", "flowLoadBytes", "flowStoreBytes"}
    BY <1>0, <1>6 DEF FlowLookup, FlowCreate, FlowLoadPkts, FlowStorePkts, FlowLoadBytes, FlowStoreBytes,
                FlowLoad, FlowStore, Goto
  <2>3. ScanRegisters'
    BY <2>2 DEF ScanRegisters, PortSteps
  <2> QED
    BY <2>1, <2>2, <2>3, ScanQuiet DEF Loops
<1>7. CASE UNCHANGED vars \/ Consume \/ \E ip \in IP, v \in {NoElem, 0, 1} : SetBlacklist(ip, v)
  BY <1>1, <1>7 DEF vars, maps, Consume, SetBlacklist
<1>8. ASSUME NEW c \in CPU, CpuStep(c) PROVE ScanInv'
  <2>1. CpuStep(Here)
    BY <1>8, HereIs
  <2> QED
    BY <1>3, <1>4, <1>5, <1>6, <2>1, ScanCreateInv, ScanStoreInv, ScanCountInv, ScanAlertInv,
       ScanClearInv DEF CpuStep
<1> QED
  BY <1>2, <1>7, <1>8, HereIs, NothingCleaned DEF Next

LEMMA ScanInvariant == SerialSpec => [](TypeOK /\ ScanInv)
BY SerialImplements, TypeCorrect, ScanInvInit, ScanInvNext, PTL DEF Spec

\* On one CPU a source is reported before it has probed more than ScanThreshold
\* ports since its last alert, whatever words of the bitmap they are in.
THEOREM ScansAreReported == SerialSpec => []ScanComplete
<1>1. TypeOK /\ ScanInv => ScanComplete
  <2> SUFFICES ASSUME TypeOK, ScanInv, Idle, NEW ip \in IP
               PROVE  Cardinality(fresh[ip]) <= ScanThreshold
    BY DEF ScanComplete
  <2>1. pc[Here] = "idle"
    BY HereIs DEF Idle
  <2>2. ~(Cardinality(fresh[ip]) > ScanThreshold)
    BY <2>1 DEF ScanInv, ScanRemembered
  <2>3. Cardinality(fresh[ip]) \in Nat /\ ScanThreshold \in Nat
    BY PortFinite, ParameterAssumption DEF TypeOK, HistoryTypes
  <2> QED
    BY <2>2, <2>3
<1> QED
  BY <1>1, ScanInvariant, PTL

\* On one CPU no alert is a repetition: each has more than ScanThreshold probes of
\* its own, since the whole bitmap is cleared before the next packet.
THEOREM AlertsAreNotRepeated == SerialSpec => []NoDuplicateScanAlert
<1>1. TypeOK /\ ScanInv => NoDuplicateScanAlert
  <2> SUFFICES ASSUME TypeOK, ScanInv, NEW ip \in IP
               PROVE  scanAlerts[ip] * (ScanThreshold + 1) <= probes[ip]
    BY DEF NoDuplicateScanAlert
  <2>1. Paid(ip)
    BY DEF ScanInv, AlertsPaid
  <2>2. /\ Cardinality(fresh[ip]) \in Nat /\ ScanThreshold \in Nat
        /\ scanAlerts[ip] \in Nat /\ probes[ip] \in Nat
    BY PortFinite, ParameterAssumption DEF TypeOK, HistoryTypes
  <2>3. scanAlerts[ip] * (ScanThreshold + 1) \in Nat
    BY <2>2
  <2> QED
    BY <2>1, <2>2, <2>3 DEF Paid
<1> QED
  BY <1>1, ScanInvariant, PTL

\* On one CPU an alert is raised only about a source that has probed more than
\* ScanThreshold different ports.
THEOREM AlertsAreJustified == SerialSpec => []ScanAlertJustified
<1>1. ScanInv => ScanAlertJustified
  BY DEF ScanInv, AlertsPaid, Paid, ScanAlertJustified
<1> QED
  BY <1>1, ScanInvariant, PTL

-----------------------------------------------------------------------------
(***************************************************************************)
(* update_flow_stats.  FlowRegisters: pointer and register agree with the  *)
(* map.  FlowCounted: what arrived is in the entry of the source or is     *)
(* about to be stored there; a source without an entry sent nothing, or    *)
(* its first packet is about to make one, or the map is full.              *)
(***************************************************************************)
Counted(ip) == Value(flow, ip, NoTraffic)

PktsDue == {"flowLoadPkts", "flowStorePkts"}
BytesDue == PktsDue \cup {"flowLoadBytes", "flowStoreBytes"}

FlowRegisters ==
    /\ pc[Here] = "flowNew" => Lookup(flow, Source) = NoElem
    /\ pc[Here] \in BytesDue => ptr[Here] = Lookup(flow, Source)
    /\ pc[Here] = "flowStorePkts" => num[Here] = Counted(Source).pkts
    /\ pc[Here] = "flowStoreBytes" => num[Here] = Counted(Source).bytes

Due(ip) == [pkts  |-> IF ip = Source /\ pc[Here] \in PktsDue THEN 1 ELSE 0,
            bytes |-> IF ip = Source /\ pc[Here] \in BytesDue THEN pkt[Here].size ELSE 0]

FlowCounted ==
    \A ip \in IP :
        IF Lookup(flow, ip) # NoElem
        THEN /\ arrived[ip].pkts = Counted(ip).pkts + Due(ip).pkts
             /\ arrived[ip].bytes = Counted(ip).bytes + Due(ip).bytes
        ELSE \/ Full(flow)
             \/ arrived[ip] = IF ip = Source /\ pc[Here] = "flowNew"
                              THEN FirstStats(pkt[Here].size) ELSE NoTraffic

CountInv == Disjoint(flow) /\ FlowRegisters /\ FlowCounted

LEMMA CountedType ==
    ASSUME TypeOK, NEW ip \in IP
    PROVE  /\ Counted(ip) \in FlowValue /\ arrived[ip] \in FlowValue
           /\ Counted(ip).pkts \in Nat /\ Counted(ip).bytes \in Nat
           /\ arrived[ip].pkts \in Nat /\ arrived[ip].bytes \in Nat
<1>1. flow \in HashType(FlowValue) /\ arrived[ip] \in FlowValue
  BY DEF TypeOK, MapTypes, HistoryTypes
<1>2. Lookup(flow, ip) # NoElem => flow.val[Lookup(flow, ip)] \in FlowValue
  BY <1>1, LookupType, ValueType
<1>3. Counted(ip) \in FlowValue
  BY <1>2 DEF Counted, Value, NoTraffic, FlowValue
<1> QED
  BY <1>1, <1>3 DEF FlowValue

LEMMA CountInvInit == Init => CountInv
<1> SUFFICES ASSUME Init PROVE CountInv
  OBVIOUS
<1>1. Disjoint(flow)
  BY EmptyDisjoint DEF Init
<1>2. pc[Here] = "idle"
  BY HereIs DEF Init
<1>3. \A ip \in IP : Lookup(flow, ip) = NoElem /\ arrived[ip] = NoTraffic
  BY EmptyValue DEF Init
<1> QED
  BY <1>1, <1>2, <1>3 DEF CountInv, FlowRegisters, FlowCounted, BytesDue, PktsDue

\* Steps that neither write flow_stats nor hold anything of it.
FlowLabels == BytesDue \cup {"flowNew"}

LEMMA CountQuiet ==
    ASSUME CountInv, UNCHANGED <<flow, arrived>>,
           pc[Here] \notin FlowLabels, pc'[Here] \notin FlowLabels
    PROVE  CountInv'
BY DEF CountInv, FlowRegisters, FlowCounted, FlowLabels, BytesDue, PktsDue, Due, Counted

\* In the middle of update_flow_stats.
LEMMA FlowStep ==
    ASSUME TypeOK, CountInv, pc[Here] \in FlowLabels
    PROVE  /\ Source \in IP /\ pkt[Here].size \in Nat /\ Here \in CPU
           /\ pc[Here] \in BytesDue =>
                  /\ Lookup(flow, Source) # NoElem /\ ptr[Here] = Lookup(flow, Source)
                  /\ flow.val[ptr[Here]] = Counted(Source)
<1>1. Source \in IP /\ pkt[Here].size \in Nat /\ Here \in CPU
  BY HereIs, BusyPacket DEF FlowLabels, BytesDue, PktsDue, Source
<1>2. pc[Here] \in BytesDue => ptr[Here] \in Elem /\ ptr[Here] = Lookup(flow, Source)
  BY <1>1 DEF TypeOK, LocalTypes, PtrSteps, BytesDue, PktsDue, CountInv, FlowRegisters
<1>3. NoElem \notin Elem
  BY NoElemAssumption DEF Elem
<1> QED
  BY <1>1, <1>2, <1>3 DEF Counted, Value

LEMMA CountLookupInv == ASSUME TypeOK, CountInv, FlowLookup(Here) PROVE CountInv'
<1>1. /\ pc[Here] = "flow" /\ UNCHANGED <<flow, pkt>> /\ Here \in CPU
      /\ pc' = [pc EXCEPT ![Here] = IF Lookup(flow, Source) = NoElem THEN "flowNew" ELSE "flowLoadPkts"]
      /\ ptr' = [ptr EXCEPT ![Here] = Lookup(flow, Source)]
      /\ arrived' = [arrived EXCEPT ![Source] =
                       [pkts |-> @.pkts + 1, bytes |-> @.bytes + pkt[Here].size]]
  BY HereIs DEF FlowLookup, maps, Goto, Source
<1>2. /\ pc \in [CPU -> Steps] /\ ptr \in [CPU -> Elem \cup {NoElem}] /\ arrived \in [IP -> FlowValue]
  BY DEF TypeOK, LocalTypes, HistoryTypes
<1>3. Source \in IP /\ pkt[Here].size \in Nat
  BY <1>1, BusyPacket DEF Source
<1>4. /\ Source' = Source /\ pkt' = pkt
      /\ pc'[Here] = IF Lookup(flow, Source) = NoElem THEN "flowNew" ELSE "flowLoadPkts"
      /\ ptr'[Here] = Lookup(flow, Source)
  BY <1>1, <1>2 DEF Source, src
<1>5. \A ip \in IP : Lookup(flow', ip) = Lookup(flow, ip) /\ Counted(ip)' = Counted(ip)
  BY <1>1 DEF Counted
<1>6. FlowRegisters'
  BY <1>1, <1>4 DEF FlowRegisters, BytesDue, PktsDue
<1>7. ASSUME NEW ip \in IP, Lookup(flow, ip) # NoElem
      PROVE  /\ arrived'[ip].pkts = Counted(ip).pkts + Due(ip)'.pkts
             /\ arrived'[ip].bytes = Counted(ip).bytes + Due(ip)'.bytes
  <2>1. /\ arrived[ip].pkts = Counted(ip).pkts /\ arrived[ip].bytes = Counted(ip).bytes
        /\ Counted(ip).pkts \in Nat /\ Counted(ip).bytes \in Nat
    BY <1>1, <1>7, CountedType DEF CountInv, FlowCounted, Due, PktsDue, BytesDue
  <2>2. CASE ip = Source
    <3>1. Due(ip)'.pkts = 1 /\ Due(ip)'.bytes = pkt[Here].size
      BY <1>4, <1>7, <2>2 DEF Due, PktsDue, BytesDue
    <3>2. arrived'[ip].pkts = arrived[ip].pkts + 1 /\ arrived'[ip].bytes = arrived[ip].bytes + pkt[Here].size
      BY <1>1, <1>2, <1>3, <2>2
    <3> QED
      BY <2>1, <3>1, <3>2
  <2>3. CASE ip # Source
    <3>1. Due(ip)'.pkts = 0 /\ Due(ip)'.bytes = 0
      BY <1>4, <2>3 DEF Due
    <3>2. arrived'[ip] = arrived[ip]
      BY <1>1, <1>2, <2>3
    <3> QED
      BY <2>1, <3>1, <3>2
  <2> QED
    BY <2>2, <2>3
<1>8. ASSUME NEW ip \in IP, Lookup(flow, ip) = NoElem, ~Full(flow)
      PROVE  arrived'[ip] = IF ip = Source /\ pc'[Here] = "flowNew"
                            THEN FirstStats(pkt[Here].size) ELSE NoTraffic
  <2>1. arrived[ip] = NoTraffic
    BY <1>1, <1>8 DEF CountInv, FlowCounted
  <2> QED
    BY <1>1, <1>2, <1>3, <1>4, <1>8, <2>1 DEF FirstStats, NoTraffic
<1>9. FlowCounted'
  BY <1>1, <1>4, <1>5, <1>7, <1>8 DEF FlowCounted
<1> QED
  BY <1>1, <1>6, <1>9 DEF CountInv

LEMMA CountCreateInv == ASSUME TypeOK, CountInv, FlowCreate(Here) PROVE CountInv'
<1> DEFINE v == FirstStats(pkt[Here].size)
<1>1. /\ pc[Here] = "flowNew" /\ flow' \in Update(flow, Here, Source, v)
      /\ pc' = [pc EXCEPT ![Here] = "idle"] /\ UNCHANGED arrived
  BY DEF FlowCreate, Goto, Source
<1>2. Source \in IP /\ pkt[Here].size \in Nat /\ Here \in CPU /\ Lookup(flow, Source) = NoElem
  BY <1>1, FlowStep DEF FlowLabels, CountInv, FlowRegisters
<1>3. flow \in HashType(FlowValue) /\ Disjoint(flow) /\ pc \in [CPU -> Steps]
  BY DEF TypeOK, MapTypes, LocalTypes, CountInv
<1>4. pc'[Here] = "idle"
  BY <1>1, <1>2, <1>3
<1>5. Disjoint(flow')
  BY <1>1, <1>2, <1>3, UpdateDisjoint
<1>6. FlowRegisters'
  BY <1>4 DEF FlowRegisters, BytesDue, PktsDue
<1>7. v = [pkts |-> 1, bytes |-> pkt[Here].size]
  BY DEF FirstStats
<1> HIDE DEF v
<1>8. \A ip \in IP : Due(ip)'.pkts = 0 /\ Due(ip)'.bytes = 0
  BY <1>4 DEF Due, PktsDue, BytesDue
<1>9. CASE Full(flow)
  <2>1. flow' = flow
    <3>1. Update(flow, Here, Source, v) = {flow}
      BY <1>2, <1>3, <1>9, UpdateFull
    <3> QED
      BY <1>1, <3>1
  <2>2. \A ip \in IP : Counted(ip)' = Counted(ip) /\ Due(ip).pkts = 0 /\ Due(ip).bytes = 0
    BY <1>1, <2>1 DEF Counted, Due, PktsDue, BytesDue
  <2>3. FlowCounted'
    BY <1>1, <1>8, <1>9, <2>1, <2>2 DEF CountInv, FlowCounted
  <2> QED
    BY <1>5, <1>6, <2>3 DEF CountInv
<1>10. CASE ~Full(flow)
  <2>1. /\ Lookup(flow', Source) # NoElem
        /\ \A ip \in IP : /\ ip # Source => Lookup(flow', ip) = Lookup(flow, ip)
                          /\ Counted(ip)' = IF ip = Source THEN v ELSE Counted(ip)
    BY <1>1, <1>2, <1>3, <1>10, InsertValue DEF Counted
  <2>2. arrived[Source] = v
    BY <1>1, <1>2, <1>10 DEF CountInv, FlowCounted, v
  <2>3. ASSUME NEW ip \in IP, Lookup(flow', ip) # NoElem
        PROVE  /\ arrived'[ip].pkts = Counted(ip)'.pkts + Due(ip)'.pkts
               /\ arrived'[ip].bytes = Counted(ip)'.bytes + Due(ip)'.bytes
    <3>1. CASE ip = Source
      BY <1>1, <1>2, <1>7, <1>8, <2>1, <2>2, <3>1
    <3>2. CASE ip # Source
      <4>1. Counted(ip)' = Counted(ip) /\ Lookup(flow, ip) # NoElem /\ Due(ip).pkts = 0 /\ Due(ip).bytes = 0
        BY <2>1, <2>3, <3>2 DEF Due
      <4> QED
        BY <1>1, <1>8, <4>1 DEF CountInv, FlowCounted
    <3> QED
      BY <3>1, <3>2
  <2>4. ASSUME NEW ip \in IP, Lookup(flow', ip) = NoElem
        PROVE  arrived'[ip] = NoTraffic
    <3>1. ip # Source /\ Lookup(flow, ip) = NoElem
      BY <2>1, <2>4
    <3> QED
      BY <1>1, <1>10, <3>1 DEF CountInv, FlowCounted
  <2>5. FlowCounted'
    BY <1>4, <2>3, <2>4 DEF FlowCounted
  <2> QED
    BY <1>5, <1>6, <2>5 DEF CountInv
<1> QED
  BY <1>9, <1>10

LEMMA CountLoadInv ==
    ASSUME TypeOK, CountInv, FlowLoadPkts(Here) \/ FlowLoadBytes(Here)
    PROVE  CountInv'
<1>1. /\ UNCHANGED <<flow, pkt, ptr, arrived>>
      /\ \/ /\ pc[Here] = "flowLoadPkts" /\ pc' = [pc EXCEPT ![Here] = "flowStorePkts"]
            /\ num' = [num EXCEPT ![Here] = flow.val[ptr[Here]].pkts]
         \/ /\ pc[Here] = "flowLoadBytes" /\ pc' = [pc EXCEPT ![Here] = "flowStoreBytes"]
            /\ num' = [num EXCEPT ![Here] = flow.val[ptr[Here]].bytes]
  BY DEF FlowLoadPkts, FlowLoadBytes, FlowLoad, maps, Goto
<1>2. pc \in [CPU -> Steps] /\ num \in [CPU -> Nat]
  BY DEF TypeOK, LocalTypes
<1>3. Here \in CPU /\ flow.val[ptr[Here]] = Counted(Source) /\ ptr[Here] = Lookup(flow, Source)
  BY <1>1, FlowStep DEF FlowLabels, BytesDue, PktsDue
<1>4. /\ Source' = Source /\ \A ip \in IP : Counted(ip)' = Counted(ip)
      /\ Counted(Source)' = Counted(Source)
  BY <1>1 DEF Source, src, Counted
<1>5. \/ pc[Here] = "flowLoadPkts" /\ pc'[Here] = "flowStorePkts" /\ num'[Here] = Counted(Source).pkts
      \/ pc[Here] = "flowLoadBytes" /\ pc'[Here] = "flowStoreBytes" /\ num'[Here] = Counted(Source).bytes
  BY <1>1, <1>2, <1>3
<1>6. FlowRegisters'
  BY <1>1, <1>3, <1>4, <1>5 DEF FlowRegisters, BytesDue, PktsDue
<1>7. \A ip \in IP : Due(ip)' = Due(ip)
  BY <1>1, <1>4, <1>5 DEF Due, BytesDue, PktsDue
<1>8. FlowCounted'
  BY <1>1, <1>4, <1>5, <1>7 DEF CountInv, FlowCounted
<1> QED
  BY <1>1, <1>6, <1>8 DEF CountInv

LEMMA CountStoreInv ==
    ASSUME TypeOK, CountInv, FlowStorePkts(Here) \/ FlowStoreBytes(Here)
    PROVE  CountInv'
<1> DEFINE F == Counted(Source)
           v == IF pc[Here] = "flowStorePkts" THEN [F EXCEPT !.pkts = num[Here] + 1]
                ELSE [F EXCEPT !.bytes = num[Here] + pkt[Here].size]
<1>1. /\ UNCHANGED <<pkt, ptr, arrived>>
      /\ \/ /\ pc[Here] = "flowStorePkts" /\ pc' = [pc EXCEPT ![Here] = "flowLoadBytes"]
            /\ flow' = Store(flow, ptr[Here], [flow.val[ptr[Here]] EXCEPT !["pkts"] = num[Here] + 1])
         \/ /\ pc[Here] = "flowStoreBytes" /\ pc' = [pc EXCEPT ![Here] = "idle"]
            /\ flow' = Store(flow, ptr[Here], [flow.val[ptr[Here]] EXCEPT !["bytes"] = num[Here] + pkt[Here].size])
  BY DEF FlowStorePkts, FlowStoreBytes, FlowStore, local, Goto
<1>2. /\ Here \in CPU /\ Source \in IP /\ pkt[Here].size \in Nat
      /\ flow.val[ptr[Here]] = F /\ ptr[Here] = Lookup(flow, Source) /\ Lookup(flow, Source) # NoElem
  BY <1>1, FlowStep DEF FlowLabels, BytesDue, PktsDue
<1>3. flow \in HashType(FlowValue) /\ Disjoint(flow) /\ pc \in [CPU -> Steps]
  BY DEF TypeOK, MapTypes, LocalTypes, CountInv
<1>4. /\ Source' = Source /\ pkt' = pkt /\ ptr' = ptr
      /\ \/ pc[Here] = "flowStorePkts" /\ pc'[Here] = "flowLoadBytes"
         \/ pc[Here] = "flowStoreBytes" /\ pc'[Here] = "idle"
  BY <1>1, <1>2, <1>3 DEF Source, src
<1>5. flow' = Store(flow, Lookup(flow, Source), v)
  BY <1>1, <1>2
<1>6. F \in FlowValue /\ F.pkts \in Nat /\ F.bytes \in Nat
  BY <1>2, CountedType
<1>7. /\ pc[Here] = "flowStorePkts" => v.pkts = F.pkts + 1 /\ v.bytes = F.bytes
      /\ pc[Here] = "flowStoreBytes" => v.pkts = F.pkts /\ v.bytes = F.bytes + pkt[Here].size
  BY <1>6 DEF FlowValue, CountInv, FlowRegisters
<1> HIDE DEF F, v
<1>8. Disjoint(flow')
  BY <1>3, <1>5, StoreDisjoint
<1>9. /\ Full(flow') <=> Full(flow)
      /\ \A ip \in IP : /\ Lookup(flow', ip) = Lookup(flow, ip)
                        /\ Counted(ip)' = IF ip = Source THEN v ELSE Counted(ip)
  BY <1>2, <1>3, <1>5, StoreValue DEF Counted
<1>10. FlowRegisters'
  BY <1>2, <1>4, <1>9 DEF FlowRegisters, CountInv, BytesDue, PktsDue
<1>11. ASSUME NEW ip \in IP, Lookup(flow, ip) # NoElem
       PROVE  /\ arrived'[ip].pkts = Counted(ip)'.pkts + Due(ip)'.pkts
              /\ arrived'[ip].bytes = Counted(ip)'.bytes + Due(ip)'.bytes
  <2>1. /\ arrived[ip].pkts = Counted(ip).pkts + Due(ip).pkts
        /\ arrived[ip].bytes = Counted(ip).bytes + Due(ip).bytes
    BY <1>11 DEF CountInv, FlowCounted
  <2>2. CASE ip = Source
    <3>1. Counted(ip)' = v /\ Counted(ip) = F
      BY <1>2, <1>9, <2>2 DEF F
    <3>2. CASE pc[Here] = "flowStorePkts"
      <4>1. /\ Due(ip).pkts = 1 /\ Due(ip)'.pkts = 0
            /\ Due(ip).bytes = pkt[Here].size /\ Due(ip)'.bytes = pkt[Here].size
        BY <1>4, <2>2, <3>2 DEF Due, PktsDue, BytesDue
      <4> QED
        BY <1>1, <1>2, <1>6, <1>7, <2>1, <3>1, <3>2, <4>1
    <3>3. CASE pc[Here] = "flowStoreBytes"
      <4>1. /\ Due(ip).pkts = 0 /\ Due(ip)'.pkts = 0
            /\ Due(ip).bytes = pkt[Here].size /\ Due(ip)'.bytes = 0
        BY <1>4, <2>2, <3>3 DEF Due, PktsDue, BytesDue
      <4> QED
        BY <1>1, <1>2, <1>6, <1>7, <2>1, <3>1, <3>3, <4>1
    <3> QED
      BY <1>4, <3>2, <3>3
  <2>3. CASE ip # Source
    <3>1. Due(ip).pkts = 0 /\ Due(ip).bytes = 0 /\ Due(ip)'.pkts = 0 /\ Due(ip)'.bytes = 0
      BY <1>4, <2>3 DEF Due
    <3> QED
      BY <1>1, <1>9, <2>1, <2>3, <3>1
  <2> QED
    BY <2>2, <2>3
<1>12. FlowCounted'
  BY <1>1, <1>4, <1>9, <1>11 DEF FlowCounted, CountInv
<1> QED
  BY <1>8, <1>10, <1>12 DEF CountInv

LEMMA CountInvNext == TypeOK /\ CountInv /\ [Next]_vars => CountInv'
<1> SUFFICES ASSUME TypeOK, CountInv, [Next]_vars PROVE CountInv'
  OBVIOUS
<1>0. Here \in CPU /\ pc \in [CPU -> Steps]
  BY HereIs DEF TypeOK, LocalTypes
<1>1. CASE UNCHANGED <<flow, arrived, pc, local>>
  BY <1>1 DEF CountInv, FlowRegisters, FlowCounted, Due, local, Source, src, Counted
<1>2. ASSUME NEW p \in Packet, Enter(Here, p) PROVE CountInv'
  <2>1. /\ UNCHANGED <<flow, arrived>> /\ pc[Here] = "idle"
        /\ pc'[Here] \in {"idle", "syn", "scan", "flow"}
    BY <1>0, <1>2 DEF Enter, maps, FirstStep
  <2> QED
    BY <2>1, CountQuiet DEF FlowLabels, BytesDue, PktsDue
<1>3. CASE \/ CheckSynFlood(Here) \/ ScanLookup(Here) \/ ScanCreate(Here) \/ ScanRelookup(Here)
           \/ ScanLoad(Here) \/ ScanStore(Here) \/ ScanCount(Here) \/ ScanAlert(Here) \/ ScanClear(Here)
  <2>1. UNCHANGED <<flow, arrived>>
    BY <1>3 DEF CheckSynFlood, ScanLookup, ScanCreate, ScanRelookup, ScanLoad, ScanStore, ScanCount,
                ScanAlert, ScanClear, maps, scanHist
  <2>2. /\ pc[Here] \in PortSteps \cup {"syn", "scan", "scanNew", "scanAgain"}
        /\ pc'[Here] \in PortSteps \cup {"scan", "scanNew", "scanAgain", "flow"}
    BY <1>0, <1>3 DEF CheckSynFlood, ScanLookup, ScanCreate, ScanRelookup, ScanFound, ScanLoad, ScanStore,
                      ScanCount, ScanAlert, ScanClear, Goto, PortSteps
  <2> QED
    BY <2>1, <2>2, CountQuiet DEF FlowLabels, BytesDue, PktsDue, PortSteps
<1>4. CASE UNCHANGED vars \/ Consume \/ \E ip \in IP, v \in {NoElem, 0, 1} : SetBlacklist(ip, v)
  BY <1>1, <1>4 DEF vars, maps, Consume, SetBlacklist
<1>5. ASSUME NEW c \in CPU, CpuStep(c) PROVE CountInv'
  <2>1. CpuStep(Here)
    BY <1>5, HereIs
  <2> QED
    BY <1>3, <2>1, CountLookupInv, CountCreateInv, CountLoadInv, CountStoreInv DEF CpuStep
<1> QED
  BY <1>2, <1>4, <1>5, HereIs, NothingCleaned DEF Next

LEMMA CountInvariant == SerialSpec => [](TypeOK /\ CountInv)
BY SerialImplements, TypeCorrect, CountInvInit, CountInvNext, PTL DEF Spec

\* On one CPU flow_stats is exact: no packet is missed or counted twice, as long as
\* its source found room in the map.
THEOREM FlowsAreExact == SerialSpec => []FlowExact
<1>1. TypeOK /\ CountInv => FlowExact
  <2> SUFFICES ASSUME TypeOK, CountInv, Idle, NEW ip \in IP
               PROVE  IF Lookup(flow, ip) = NoElem THEN arrived[ip] = NoTraffic \/ Full(flow)
                      ELSE flow.val[Lookup(flow, ip)] = arrived[ip]
    BY DEF FlowExact
  <2>1. pc[Here] = "idle"
    BY HereIs DEF Idle
  <2>2. Due(ip).pkts = 0 /\ Due(ip).bytes = 0
    BY <2>1 DEF Due, PktsDue, BytesDue
  <2>3. CASE Lookup(flow, ip) = NoElem
    BY <2>1, <2>3 DEF CountInv, FlowCounted
  <2>4. CASE Lookup(flow, ip) # NoElem
    <3>1. arrived[ip].pkts = Counted(ip).pkts /\ arrived[ip].bytes = Counted(ip).bytes
      BY <2>2, <2>4, CountedType DEF CountInv, FlowCounted
    <3>2. arrived[ip] \in FlowValue /\ Counted(ip) \in FlowValue
      BY CountedType
    <3>3. arrived[ip] = Counted(ip)
      BY <3>1, <3>2 DEF FlowValue
    <3> QED
      BY <2>4, <3>3 DEF Counted, Value
  <2> QED
    BY <2>3, <2>4
<1> QED
  BY <1>1, CountInvariant, PTL

-----------------------------------------------------------------------------
(***************************************************************************)
(* The maps of the atomic handler.  A hash without races is a partial      *)
(* function of at most MapSize keys: every element is in use by a key or   *)
(* free, but for the one spare of the only CPU.                            *)
(***************************************************************************)
LEMMA ContentsAt ==
    ASSUME NEW V, NoElem \notin V, NEW h \in HashType(V), NEW k \in IP
    PROVE  /\ Contents(h) \in [IP -> V \cup {NoElem}]
           /\ Contents(h)[k] = Value(h, k, NoElem)
           /\ Contents(h)[k] = NoElem <=> Lookup(h, k) = NoElem
<1>1. ASSUME NEW ip \in IP, Lookup(h, ip) # NoElem PROVE h.val[Lookup(h, ip)] \in V
  BY <1>1, LookupType, ValueType
<1> QED
  BY <1>1 DEF Contents, Value

LEMMA SameCount == ASSUME NEW S PROVE Packets!Cardinality(S) = Cardinality(S)
BY Zenon DEF Packets!Cardinality, Cardinality

LEMMA RoomLeft ==
    ASSUME NEW V, NoElem \notin V, NEW h \in HashType(V), Disjoint(h)
    PROVE  Packets!Room(Contents(h)) <=> ~Full(h)
<1> DEFINE Keys == {ip \in IP : Contents(h)[ip] # NoElem}
           At == [ip \in Keys |-> h.at[ip]]
           Taken == {h.at[ip] : ip \in Keys}
           Used == Taken \cup {h.spare[Here]}
<1>0. Here \in CPU /\ CPU = {Here} /\ MapSize \in Nat /\ h.spare[Here] \in Elem
  BY HereIs, MapSizeAssumption DEF HashType
<1>1. Keys = {ip \in IP : h.at[ip] # NoElem} /\ IsFiniteSet(Keys)
  BY ContentsAt, FiniteAssumption, FS_Subset DEF Lookup
<1>2. Cardinality(Taken) = Cardinality(Keys) /\ IsFiniteSet(Taken)
  <2>1. At \in Bijection(Keys, Taken)
    BY <1>1 DEF Disjoint, Bijection, Injection, Surjection, IsInjective
  <2>2. ExistsBijection(Keys, Taken)
    BY <2>1 DEF ExistsBijection
  <2> QED
    BY <1>1, <2>2, FS_Bijection
<1>3. h.spare[Here] \notin Taken
  BY <1>0 DEF Disjoint
<1>4. IsFiniteSet(Used) /\ Cardinality(Used) = Cardinality(Keys) + 1
  BY <1>2, <1>3, FS_AddElement
<1>5. IsFiniteSet(Elem) /\ Cardinality(Elem) = MapSize + 1
  <2>1. IsFiniteSet(1..MapSize) /\ Cardinality(1..MapSize) = MapSize
    BY <1>0, FS_Interval
  <2>2. Here \notin 1..MapSize
    BY <1>0, CPUAssumption
  <2>3. Elem = (1..MapSize) \cup {Here}
    BY <1>0 DEF Elem
  <2> QED
    BY <2>1, <2>2, <2>3, FS_AddElement
<1>6. Used \in SUBSET Elem
  BY <1>0, <1>1 DEF HashType
<1>7. Free(h) = Elem \ Used
  BY <1>0, <1>1, NoElemAssumption DEF Free, Elem
<1>8. Cardinality(Keys) \in Nat
  BY <1>1, FS_CardinalityType
<1>9. Packets!Room(Contents(h)) <=> Cardinality(Keys) < MapSize
  BY SameCount DEF Packets!Room
<1>10. Cardinality(Used) <= Cardinality(Elem) /\ (Cardinality(Used) = Cardinality(Elem) => Used = Elem)
  BY <1>5, <1>6, FS_Subset
<1>11. Full(h) <=> Used = Elem
  BY <1>6, <1>7 DEF Full
<1>12. Full(h) <=> Cardinality(Used) = Cardinality(Elem)
  BY <1>10, <1>11, Zenon
<1> QED
  BY <1>0, <1>4, <1>5, <1>8, <1>9, <1>10, <1>12

LEMMA ContentsStore ==
    ASSUME NEW V, NoElem \notin V, NEW h \in HashType(V), Disjoint(h),
           NEW k \in IP, Lookup(h, k) # NoElem, NEW v
    PROVE  Contents(Store(h, Lookup(h, k), v)) = [Contents(h) EXCEPT ![k] = v]
<1> DEFINE g == Store(h, Lookup(h, k), v)
<1>1. \A ip \in IP : Value(g, ip, NoElem) = IF ip = k THEN v ELSE Value(h, ip, NoElem)
  BY StoreValue
<1> HIDE DEF g
<1>2. Contents(g) = [ip \in IP |-> Value(g, ip, NoElem)] /\ Contents(h) = [ip \in IP |-> Value(h, ip, NoElem)]
  BY DEF Contents, Value
<1>3. Contents(g) = [Contents(h) EXCEPT ![k] = v]
  BY <1>1, <1>2
<1> QED
  BY <1>3 DEF g

LEMMA ContentsUpdate ==
    ASSUME NEW V, NoElem \notin V, NEW h \in HashType(V), Disjoint(h), NEW c \in CPU,
           NEW k \in IP, Lookup(h, k) = NoElem, NEW v, NEW g \in Update(h, c, k, v)
    PROVE  Contents(g) = Packets!Put(Contents(h), k, v)
<1>1. Packets!Put(Contents(h), k, v) = IF ~Full(h) THEN [Contents(h) EXCEPT ![k] = v] ELSE Contents(h)
  BY ContentsAt, RoomLeft DEF Packets!Put, Packets!Holds
<1>2. CASE Full(h)
  BY <1>1, <1>2, UpdateFull
<1>3. CASE ~Full(h)
  <2>1. \A ip \in IP : Value(g, ip, NoElem) = IF ip = k THEN v ELSE Value(h, ip, NoElem)
    BY <1>3, InsertValue
  <2>2. Contents(g) = [ip \in IP |-> Value(g, ip, NoElem)] /\ Contents(h) = [ip \in IP |-> Value(h, ip, NoElem)]
    BY DEF Contents, Value
  <2>3. Contents(g) = [Contents(h) EXCEPT ![k] = v]
    BY <2>1, <2>2
  <2> QED
    BY <1>1, <1>3, <2>3
<1> QED
  BY <1>2, <1>3

-----------------------------------------------------------------------------
(***************************************************************************)
(* The refinement.  While a packet is handled the maps of the atomic       *)
(* handler stay as they were when the CPU was last idle, and at every step *)
(* the maps of the program are as far on the way from those to the result  *)
(* of the atomic handler as that step says: before, within or after        *)
(* check_syn_flood, check_port_scan and update_flow_stats.                 *)
(***************************************************************************)
Handled == pkt[Here]
Remembered == IF settled.scan[Source] = NoElem THEN {} ELSE settled.scan[Source]
Probed == Packets!Ports(Source, Port)
ScanWith(ports) == [settled.scan EXCEPT ![Source] = ports]

FlowSteps == FlowLabels \cup {"flow"}

SettledType ==
    /\ settled.blacklist \in [IP -> {NoElem, 0, 1}]
    /\ settled.flow \in [IP -> FlowValue \cup {NoElem}]
    /\ settled.scan \in [IP -> (SUBSET LowPort) \cup {NoElem}]
    /\ settled.syn \in [IP -> Nat \cup {NoElem}]
    /\ settled.raised \in [IP -> [syn_flood : Nat, port_scan : Nat]]

SynMatches ==
    LET checked == pc[Here] # "syn" /\ Packets!IsPureSyn(Handled)
    IN  /\ Current.syn = IF checked THEN Packets!check_syn_flood(Source) ELSE settled.syn
        /\ \A ip \in IP :
               synAlerts[Here][ip] =
                   settled.raised[ip].syn_flood
                   + (IF ip = Source /\ checked /\ Packets!Flooding(Source) THEN 1 ELSE 0)

BitmapMatches ==
    /\ pc[Here] \in {"syn", "scan", "scanNew"} => Contents(scan) = settled.scan
    /\ pc[Here] = "scanAgain" =>
           /\ settled.scan[Source] = NoElem
           /\ Contents(scan) = Packets!Put(settled.scan, Source, {})
    /\ pc[Here] \in PortSteps => Packets!Holds(settled.scan, Source)
    /\ pc[Here] \in {"scanLoad", "scanStore"} => Contents(scan) = ScanWith(Remembered)
    /\ pc[Here] \in {"scanCount", "scanAlert"} => Contents(scan) = ScanWith(Probed)
    /\ pc[Here] = "scanClear" =>
           /\ Cardinality(Probed) > ScanThreshold
           /\ Contents(scan) = ScanWith(Probed \ LowWords(idx[Here]))
    /\ pc[Here] \in FlowSteps =>
           Contents(scan) = IF Packets!IsSyn(Handled) THEN Packets!check_port_scan(Source, Port)
                            ELSE settled.scan

AlertMatches ==
    \A ip \in IP :
        scanAlerts[ip] =
            settled.raised[ip].port_scan
            + (IF /\ ip = Source
                  /\ \/ pc[Here] = "scanClear"
                     \/ /\ pc[Here] \in FlowSteps /\ Packets!IsSyn(Handled)
                        /\ Packets!Scanning(Source, Port)
               THEN 1 ELSE 0)

FlowMatches ==
    IF pc[Here] \in {"flowLoadBytes", "flowStoreBytes"}
    THEN /\ settled.flow[Source] # NoElem
         /\ Contents(flow) =
                [settled.flow EXCEPT ![Source].pkts = @ + 1]
    ELSE Contents(flow) = settled.flow

\* What holds of each map while a packet is handled, and when none is.
Busy == pc[Here] # "idle"

Matches ==
    /\ SettledType
    /\ ~Busy => settled = Current
    /\ Busy => /\ Handled.kind \in {"ipv4", "tcp"} /\ settled.blacklist[Source] # 1
               /\ pc[Here] \notin FlowSteps => Packets!IsSyn(Handled)
               /\ pc[Here] = "syn" => Packets!IsPureSyn(Handled)
               /\ SynMatches /\ BitmapMatches /\ AlertMatches /\ FlowMatches

LEMMA NoElemFacts == NoElem \notin Nat /\ NoElem \notin FlowValue /\ NoElem \notin SUBSET LowPort
BY NoElemIsNoValue

LEMMA BusyFacts ==
    ASSUME TypeOK, Busy
    PROVE  /\ Here \in CPU /\ Source \in IP /\ Handled \in Packet
           /\ Port \in Nat /\ Handled.size \in Nat /\ Handled.src = Source /\ Handled.port = Port
BY HereIs, BusyPacket DEF Busy, Source, Port, Handled, src

LEMMA CurrentType ==
    ASSUME TypeOK
    PROVE  /\ Current.blacklist \in [IP -> {NoElem, 0, 1}]
           /\ Current.flow = Contents(flow) /\ Current.flow \in [IP -> FlowValue \cup {NoElem}]
           /\ Current.scan = Contents(scan) /\ Current.scan \in [IP -> (SUBSET LowPort) \cup {NoElem}]
           /\ Current.syn \in [IP -> Nat \cup {NoElem}]
           /\ Current.raised \in [IP -> [syn_flood : Nat, port_scan : Nat]]
<1>1. Here \in CPU /\ SynThreshold \in Nat
  BY HereIs, ParameterAssumption
<1>2. /\ Current.blacklist = blacklist /\ Current.flow = Contents(flow) /\ Current.scan = Contents(scan)
      /\ Current.syn = [ip \in IP |-> IF ip \in synKeys THEN syn[Here][ip] ELSE NoElem]
      /\ Current.raised = [ip \in IP |-> [syn_flood |-> synAlerts[Here][ip], port_scan |-> scanAlerts[ip]]]
  BY DEF Current
<1>3. flow \in HashType(FlowValue) /\ scan \in HashType(SUBSET LowPort)
  BY DEF TypeOK, MapTypes
<1>4. /\ Contents(flow) \in [IP -> FlowValue \cup {NoElem}]
      /\ Contents(scan) \in [IP -> (SUBSET LowPort) \cup {NoElem}]
  <2>1. \A ip \in IP : Lookup(flow, ip) # NoElem => flow.val[Lookup(flow, ip)] \in FlowValue
    BY <1>3, LookupType, ValueType
  <2>2. \A ip \in IP : Lookup(scan, ip) # NoElem => scan.val[Lookup(scan, ip)] \in SUBSET LowPort
    BY <1>3, LookupType, ValueType
  <2> QED
    BY <2>1, <2>2 DEF Contents
<1>5. \A ip \in IP : syn[Here][ip] \in Nat /\ synAlerts[Here][ip] \in Nat /\ scanAlerts[ip] \in Nat
  BY <1>1 DEF TypeOK, MapTypes, HistoryTypes
<1>6. blacklist \in [IP -> {NoElem, 0, 1}]
  BY DEF TypeOK, MapTypes
<1> QED
  BY <1>2, <1>4, <1>5, <1>6

\* What a step leaves alone stays as far on its way.
LEMMA SynKept ==
    ASSUME SynMatches, UNCHANGED <<synKeys, syn, synAlerts, pkt, settled>>,
           pc[Here] # "syn", pc'[Here] # "syn"
    PROVE  SynMatches'
<1>1. Current'.syn = Current.syn
  BY DEF Current
<1>2. Source' = Source /\ Handled' = Handled
  BY DEF Source, src, Handled
<1> QED
  BY <1>1, <1>2 DEF SynMatches, Packets!check_syn_flood, Packets!Flooding

LEMMA FlowKept ==
    ASSUME FlowMatches, UNCHANGED <<flow, settled>>,
           pc[Here] \notin {"flowLoadBytes", "flowStoreBytes"},
           pc'[Here] \notin {"flowLoadBytes", "flowStoreBytes"}
    PROVE  FlowMatches'
BY DEF FlowMatches, Contents

LEMMA AlertKept ==
    ASSUME AlertMatches, UNCHANGED <<scanAlerts, settled, pkt>>,
           pc[Here] \in FlowSteps <=> pc'[Here] \in FlowSteps,
           pc[Here] # "scanClear", pc'[Here] # "scanClear"
    PROVE  AlertMatches'
<1>1. Source' = Source /\ Handled' = Handled /\ Port' = Port
  BY DEF Source, src, Handled, Port
<1> QED
  BY <1>1 DEF AlertMatches, Packets!Scanning, Packets!Ports, Packets!Holds, Packets!Room

LEMMA CurrentSettles == TypeOK /\ settled = Current => SettledType
BY CurrentType DEF SettledType

LEMMA MatchesWhenSettled ==
    ASSUME TypeOK', pc'[Here] = "idle", settled' = Current'
    PROVE  Matches'
<1>1. (TypeOK /\ settled = Current)'
  OBVIOUS
<1>2. SettledType'
  BY <1>1, CurrentSettles, PTL
<1> QED
  BY <1>2 DEF Matches, Busy

\* How far the maps are when a packet is taken up: not at all.
LEMMA EnterMatches ==
    ASSUME TypeOK, Matches, NEW p \in Packet, Enter(Here, p),
           settled' = IF Idle' THEN Current' ELSE settled
    PROVE  Matches' /\ settled' = settled
<1>1. /\ Here \in CPU /\ pc \in [CPU -> Steps] /\ pkt \in [CPU -> Packet \cup {NoPacket}]
      /\ Idle' <=> pc'[Here] = "idle"
  BY HereIs DEF TypeOK, LocalTypes, Idle
<1>2. /\ pc[Here] = "idle" /\ SettledType /\ settled = Current
      /\ UNCHANGED <<blacklist, synKeys, syn, scan, flow, synAlerts, scanAlerts>>
  BY DEF Enter, Matches, Busy, maps, synHist, scanHist
<1>3. Current' = Current
  BY <1>2 DEF Current, Contents
<1>4. /\ settled.blacklist = blacklist /\ settled.flow = Contents(flow) /\ settled.scan = Contents(scan)
      /\ settled.syn = Current.syn
      /\ \A ip \in IP : /\ settled.raised[ip].syn_flood = synAlerts[Here][ip]
                        /\ settled.raised[ip].port_scan = scanAlerts[ip]
  BY <1>2 DEF Current
<1>5. CASE p.kind \in {"ipv4", "tcp"} /\ blacklist[p.src] # 1
  <2>1. pkt' = [pkt EXCEPT ![Here] = p] /\ pc' = [pc EXCEPT ![Here] = FirstStep(p)]
    BY <1>5 DEF Enter, Blocked
  <2>2. Handled' = p /\ Source' = p.src /\ pc'[Here] = FirstStep(p)
    BY <1>1, <2>1 DEF Handled, Source, src
  <2>3. FirstStep(p) \in {"syn", "scan", "flow"}
    BY DEF FirstStep
  <2>4. settled' = settled
    BY <1>1, <2>2, <2>3
  <2>5. /\ FirstStep(p) = "syn" => Packets!IsPureSyn(p)
        /\ FirstStep(p) = "scan" => Packets!IsSyn(p) /\ ~Packets!IsPureSyn(p)
        /\ FirstStep(p) = "flow" => ~Packets!IsSyn(p) /\ ~Packets!IsPureSyn(p)
    BY DEF FirstStep, IsSyn, Packets!IsSyn, Packets!IsPureSyn
  <2>6. ~(pc'[Here] # "syn" /\ Packets!IsPureSyn(Handled)')
    BY <2>2, <2>3, <2>5 DEF Packets!IsPureSyn, Packets!IsSyn
  <2>7. \A ip \in IP : /\ settled.raised[ip].syn_flood \in Nat /\ settled.raised[ip].port_scan \in Nat
    BY <1>2 DEF SettledType
  <2>8. SynMatches'
    BY <1>2, <1>3, <1>4, <2>4, <2>6, <2>7 DEF SynMatches
  <2>9. Contents(scan)' = settled.scan /\ Contents(flow)' = settled.flow
    BY <1>2, <1>4 DEF Contents
  <2>10. Packets!IsSyn(Handled)' <=> Packets!IsSyn(p)
    BY <2>2 DEF Packets!IsSyn
  <2>11. BitmapMatches'
    BY <2>2, <2>3, <2>4, <2>5, <2>9, <2>10
       DEF BitmapMatches, PortSteps, FlowSteps, FlowLabels, BytesDue, PktsDue
  <2>12. AlertMatches'
    BY <1>2, <1>4, <2>2, <2>3, <2>4, <2>5, <2>7, <2>10 DEF AlertMatches, FlowSteps, FlowLabels, BytesDue, PktsDue
  <2>13. FlowMatches'
    BY <2>2, <2>3, <2>4, <2>9 DEF FlowMatches
  <2>14. Handled'.kind \in {"ipv4", "tcp"} /\ settled'.blacklist[Source'] # 1
    BY <1>4, <1>5, <2>2, <2>4
  <2>15. /\ pc'[Here] \notin FlowSteps => Packets!IsSyn(Handled)'
         /\ pc'[Here] = "syn" => Packets!IsPureSyn(Handled)'
    BY <2>2, <2>3, <2>5, <2>10 DEF FlowSteps, Packets!IsPureSyn, Packets!IsSyn
  <2>16. SettledType'
    BY <1>2, <2>4 DEF SettledType
  <2> QED
    BY <2>2, <2>3, <2>4, <2>8, <2>11, <2>12, <2>13, <2>14, <2>15, <2>16 DEF Matches, Busy
<1>6. CASE ~(p.kind \in {"ipv4", "tcp"} /\ blacklist[p.src] # 1)
  <2>1. pc' = pc
    BY <1>6 DEF Enter, Blocked
  <2>2. settled' = settled
    BY <1>1, <1>2, <1>3, <2>1
  <2> QED
    BY <1>2, <1>3, <2>1, <2>2 DEF Matches, Busy, SettledType
<1> QED
  BY <1>5, <1>6

\* check_syn_flood does to its map what the atomic one does.
LEMMA SynStepMatches ==
    ASSUME TypeOK, Matches, CheckSynFlood(Here), settled' = settled
    PROVE  Matches'
<1>1. /\ Here \in CPU /\ pc \in [CPU -> Steps] /\ pc[Here] = "syn" /\ Source \in IP /\ Busy
      /\ pc' = [pc EXCEPT ![Here] = "scan"] /\ UNCHANGED <<scan, flow, scanAlerts, pkt>>
      /\ syn \in [CPU -> [IP -> 0..SynThreshold]] /\ synKeys \in SUBSET IP
      /\ synAlerts \in [CPU -> [IP -> Nat]] /\ SynThreshold \in Nat \ {0}
  BY HereIs, BusyPacket, ParameterAssumption
     DEF CheckSynFlood, Goto, local, scanHist, TypeOK, MapTypes, LocalTypes, HistoryTypes, Source, Busy
<1>2. /\ pc'[Here] = "scan" /\ Source' = Source /\ Handled' = Handled
      /\ SynMatches /\ BitmapMatches /\ AlertMatches /\ FlowMatches /\ SettledType
      /\ Packets!IsSyn(Handled) /\ Packets!IsPureSyn(Handled)
      /\ Handled.kind \in {"ipv4", "tcp"} /\ settled.blacklist[Source] # 1
  BY <1>1 DEF Source, src, Handled, Matches, FlowSteps, FlowLabels, BytesDue, PktsDue
<1> DEFINE S == settled.syn
<1>3. /\ S = [ip \in IP |-> IF ip \in synKeys THEN syn[Here][ip] ELSE NoElem]
      /\ \A ip \in IP : synAlerts[Here][ip] = settled.raised[ip].syn_flood
  <2>1. Current.syn = S /\ \A ip \in IP : synAlerts[Here][ip] = settled.raised[ip].syn_flood + 0
    BY <1>1, <1>2 DEF SynMatches
  <2>2. \A ip \in IP : settled.raised[ip].syn_flood \in Nat
    BY <1>2 DEF SettledType
  <2> QED
    BY <2>1, <2>2 DEF Current
<1>4. \A ip \in IP : /\ S[ip] # NoElem <=> ip \in synKeys
                     /\ ip \in synKeys => S[ip] = syn[Here][ip] /\ S[ip] \in Nat
  BY <1>1, <1>3, NoElemFacts
<1>5. Packets!Room(S) <=> ~SynMapFull
  <2>1. {ip \in IP : S[ip] # NoElem} = synKeys
    BY <1>1, <1>4
  <2>2. Packets!Cardinality({ip \in IP : S[ip] # NoElem}) = Cardinality(synKeys)
    BY <2>1, SameCount, Zenon
  <2> QED
    BY <2>2 DEF Packets!Room, SynMapFull
<1>6. Current'.syn = [ip \in IP |-> IF ip \in synKeys' THEN syn'[Here][ip] ELSE NoElem]
  BY DEF Current
<1> DEFINE tripped == Packets!Flooding(Source)
           alerted == \A ip \in IP : synAlerts'[Here][ip] = synAlerts[Here][ip]
                                        + (IF ip = Source /\ tripped THEN 1 ELSE 0)
<1>7. tripped <=> Source \in synKeys /\ S[Source] + 1 > SynThreshold
  BY <1>1, <1>4 DEF Packets!Flooding
<1>8. Packets!check_syn_flood(Source) =
        IF S[Source] # NoElem \/ Packets!Room(S)
        THEN [S EXCEPT ![Source] = IF tripped THEN 0 ELSE IF S[Source] = NoElem THEN 1 ELSE S[Source] + 1]
        ELSE S
  BY DEF Packets!check_syn_flood, Packets!Put, Packets!Holds
<1> HIDE DEF tripped, S
<1>9. Current'.syn = Packets!check_syn_flood(Source) /\ alerted
  <2>1. CASE SynCount(Here, Source)
    <3>1. /\ Source \in synKeys /\ ~(syn[Here][Source] + 1 > SynThreshold)
          /\ syn' = [syn EXCEPT ![Here][Source] = @ + 1] /\ UNCHANGED <<synKeys, synAlerts>>
      BY <2>1 DEF SynCount, SynTripped
    <3>2. ~tripped
      BY <1>1, <1>4, <1>7, <3>1
    <3>3. alerted
      BY <1>1, <3>1, <3>2
    <3>4. Packets!check_syn_flood(Source) = [S EXCEPT ![Source] = S[Source] + 1]
      BY <1>1, <1>4, <1>8, <3>1, <3>2
    <3>5. Current'.syn = [S EXCEPT ![Source] = S[Source] + 1]
      BY <1>1, <1>3, <1>4, <1>6, <3>1
    <3> QED
      BY <3>3, <3>4, <3>5
  <2>2. CASE SynAlert(Here, Source)
    <3>1. /\ Source \in synKeys /\ syn[Here][Source] + 1 > SynThreshold
          /\ syn' = [syn EXCEPT ![Here][Source] = 0] /\ UNCHANGED synKeys
          /\ synAlerts' = [synAlerts EXCEPT ![Here][Source] = @ + 1]
      BY <2>2 DEF SynAlert, SynTripped
    <3>2. tripped
      BY <1>1, <1>4, <1>7, <3>1
    <3>3. alerted
      BY <1>1, <3>1, <3>2
    <3>4. Packets!check_syn_flood(Source) = [S EXCEPT ![Source] = 0]
      BY <1>1, <1>4, <1>8, <3>1, <3>2
    <3>5. Current'.syn = [S EXCEPT ![Source] = 0]
      BY <1>1, <1>3, <1>4, <1>6, <3>1
    <3> QED
      BY <3>3, <3>4, <3>5
  <2>3. CASE SynFirst(Here, Source)
    <3>1. Source \notin synKeys /\ S[Source] = NoElem /\ ~tripped /\ UNCHANGED synAlerts
      BY <1>1, <1>4, <1>7, <2>3 DEF SynFirst
    <3>2. alerted
      BY <1>1, <3>1
    <3>3. CASE SynMapFull
      <4>1. UNCHANGED <<synKeys, syn>>
        BY <2>3, <3>3 DEF SynFirst
      <4> QED
        BY <1>3, <1>5, <1>6, <1>8, <3>1, <3>2, <3>3, <4>1
    <3>4. CASE ~SynMapFull
      <4>1. /\ synKeys' = synKeys \cup {Source}
            /\ syn' = [d \in CPU |-> [syn[d] EXCEPT ![Source] = IF d = Here THEN 1 ELSE 0]]
        BY <2>3, <3>4 DEF SynFirst
      <4>2. syn'[Here] = [syn[Here] EXCEPT ![Source] = 1]
        BY <1>1, <4>1
      <4>3. Packets!check_syn_flood(Source) = [S EXCEPT ![Source] = 1]
        BY <1>5, <1>8, <3>1, <3>4
      <4>4. Current'.syn = [S EXCEPT ![Source] = 1]
        BY <1>1, <1>3, <1>6, <4>1, <4>2
      <4> QED
        BY <3>2, <4>3, <4>4
    <3> QED
      BY <3>3, <3>4
  <2> QED
    BY <2>1, <2>2, <2>3 DEF CheckSynFlood, Source
<1>10. SynMatches'
  <2>1. /\ Packets!check_syn_flood(Source)' = Packets!check_syn_flood(Source)
        /\ Packets!IsPureSyn(Handled)' /\ (Packets!Flooding(Source)' <=> tripped)
    BY <1>2 DEF Packets!check_syn_flood, Packets!Flooding, Packets!IsPureSyn, Packets!IsSyn, tripped
  <2> QED
    BY <1>2, <1>3, <1>9, <2>1 DEF SynMatches
<1>11. AlertMatches' /\ FlowMatches'
  BY <1>1, <1>2, AlertKept, FlowKept DEF FlowSteps, FlowLabels, BytesDue, PktsDue
<1>12. BitmapMatches'
  BY <1>1, <1>2 DEF BitmapMatches, PortSteps, FlowSteps, FlowLabels, BytesDue, PktsDue, Contents
<1> QED
  BY <1>2, <1>10, <1>11, <1>12 DEF Matches, SettledType, Busy, FlowSteps, Packets!IsSyn

ScanSteps == PortSteps \cup {"scan", "scanNew", "scanAgain"}

\* In check_port_scan only the bitmaps and the alerts move on.
LEMMA ScanStepMatches ==
    ASSUME Matches, pc[Here] \in ScanSteps, pc'[Here] \in ScanSteps \cup {"flow"},
           UNCHANGED <<synKeys, syn, synAlerts, flow, pkt, settled>>,
           BitmapMatches', AlertMatches'
    PROVE  Matches'
<1>1. /\ Source' = Source /\ Handled' = Handled
      /\ pc[Here] \notin FlowSteps \cup {"idle", "syn"} /\ pc'[Here] \notin FlowLabels \cup {"idle", "syn"}
  BY DEF Source, src, Handled, ScanSteps, PortSteps, FlowSteps, FlowLabels, BytesDue, PktsDue
<1>2. /\ SynMatches /\ FlowMatches /\ SettledType /\ Packets!IsSyn(Handled)
      /\ Handled.kind \in {"ipv4", "tcp"} /\ settled.blacklist[Source] # 1
  BY <1>1 DEF Matches, Busy
<1>3. SynMatches' /\ FlowMatches'
  BY <1>1, <1>2, SynKept, FlowKept DEF FlowLabels, FlowSteps, BytesDue, PktsDue
<1> QED
  BY <1>1, <1>2, <1>3 DEF Matches, SettledType, Busy, Packets!IsSyn

LEMMA ScanFacts ==
    ASSUME TypeOK, ScanInv, Matches, pc[Here] \in ScanSteps
    PROVE  /\ Here \in CPU /\ Source \in IP /\ Port \in Nat /\ pc \in [CPU -> Steps]
           /\ scan \in HashType(SUBSET LowPort) /\ Disjoint(scan) /\ NoElem \notin SUBSET LowPort
           /\ settled.scan \in [IP -> (SUBSET LowPort) \cup {NoElem}]
           /\ Remembered \in SUBSET LowPort /\ Probed \in SUBSET LowPort
           /\ Probed = ({Port} \cap LowPort) \cup Remembered
           /\ Contents(scan)[Source] = NoElem <=> Lookup(scan, Source) = NoElem
           /\ BitmapMatches /\ AlertMatches /\ Packets!IsSyn(Handled)
<1>1. pc[Here] \notin FlowSteps /\ Busy
  BY DEF Busy, ScanSteps, PortSteps, FlowSteps, FlowLabels, BytesDue, PktsDue
<1>2. /\ Here \in CPU /\ Source \in IP /\ Port \in Nat /\ pc \in [CPU -> Steps]
      /\ scan \in HashType(SUBSET LowPort) /\ Disjoint(scan) /\ NoElem \notin SUBSET LowPort
      /\ settled.scan \in [IP -> (SUBSET LowPort) \cup {NoElem}]
  BY <1>1, BusyFacts, NoElemFacts DEF TypeOK, MapTypes, LocalTypes, ScanInv, Matches, SettledType
<1>3. BitmapMatches /\ AlertMatches /\ Packets!IsSyn(Handled)
  BY <1>1 DEF Matches
<1>4. Remembered \in SUBSET LowPort
  BY <1>2 DEF Remembered
<1>5. Probed = ({Port} \cap LowPort) \cup Remembered
  BY DEF Probed, Packets!Ports, Remembered
<1>6. Contents(scan)[Source] = NoElem <=> Lookup(scan, Source) = NoElem
  BY <1>2, ContentsAt
<1> QED
  BY <1>2, <1>3, <1>4, <1>5, <1>6

\* Putting into a map that holds or can take the key.
LEMMA PutHeld ==
    ASSUME NEW ip, NEW v
    PROVE  /\ Packets!Holds(settled.scan, ip) => Packets!Put(settled.scan, ip, v) = [settled.scan EXCEPT ![ip] = v]
           /\ ~Packets!Holds(settled.scan, ip) => Packets!Put(settled.scan, ip, v) = settled.scan
           /\ settled.scan[ip] # NoElem => Packets!Holds(settled.scan, ip)
BY DEF Packets!Put, Packets!Holds

LEMMA ScanResult ==
    /\ Packets!Scanning(Source, Port) <=>
           /\ Port \in LowPort /\ Packets!Holds(settled.scan, Source)
           /\ Cardinality(Probed) > ScanThreshold
    /\ Packets!check_port_scan(Source, Port) =
           Packets!Put(settled.scan, Source, IF Packets!Scanning(Source, Port) THEN {} ELSE Probed)
<1>1. Packets!Cardinality(Packets!Ports(Source, Port)) = Cardinality(Packets!Ports(Source, Port))
  BY SameCount
<1> QED
  BY <1>1 DEF Packets!Scanning, Packets!check_port_scan, Probed

\* How check_port_scan leaves the maps when it raises no alert.
LEMMA ScanOver ==
    ASSUME Packets!IsSyn(Handled), AlertMatches, UNCHANGED <<scan, scanAlerts, settled, pkt>>,
           pc[Here] \in ScanSteps \ {"scanClear"}, pc'[Here] = "flow",
           ~Packets!Scanning(Source, Port),
           Contents(scan) = Packets!Put(settled.scan, Source, Probed)
    PROVE  BitmapMatches' /\ AlertMatches'
<1>1. /\ Source' = Source /\ Handled' = Handled /\ Port' = Port
      /\ Contents(scan)' = Contents(scan) /\ Packets!IsSyn(Handled)'
      /\ (Packets!Scanning(Source, Port)' <=> Packets!Scanning(Source, Port))
      /\ Packets!check_port_scan(Source, Port)' = Packets!check_port_scan(Source, Port)
  BY DEF Source, src, Handled, Port, Contents, Packets!Scanning, Packets!check_port_scan, Packets!Ports,
         Packets!Holds, Packets!Room, Packets!Put, Packets!IsSyn
<1>2. Contents(scan) = Packets!check_port_scan(Source, Port)
  BY ScanResult
<1>3. pc[Here] \notin FlowSteps
  BY DEF ScanSteps, PortSteps, FlowSteps, FlowLabels, BytesDue, PktsDue
<1>4. AlertMatches'
  BY <1>1, <1>3 DEF AlertMatches
<1>5. BitmapMatches'
  BY <1>1, <1>2 DEF BitmapMatches, PortSteps
<1> QED
  BY <1>4, <1>5

\* The two lookups, when they find an element.
LEMMA ScanFoundMatches ==
    ASSUME TypeOK, ScanInv, Matches, pc[Here] \in {"scan", "scanAgain"}, NEW e, ScanFound(Here, e),
           UNCHANGED <<scan, scanAlerts, settled, pkt>>,
           Packets!Holds(settled.scan, Source), Contents(scan) = ScanWith(Remembered)
    PROVE  BitmapMatches' /\ AlertMatches' /\ pc'[Here] \in ScanSteps \cup {"flow"}
<1>0. pc[Here] \in ScanSteps \ {"scanClear"}
  BY DEF ScanSteps, PortSteps
<1>1. /\ Here \in CPU /\ Source \in IP /\ pc \in [CPU -> Steps]
      /\ Probed = ({Port} \cap LowPort) \cup Remembered
      /\ AlertMatches /\ Packets!IsSyn(Handled)
  BY <1>0, ScanFacts
<1>2. pc'[Here] = IF Port \in LowPort THEN "scanLoad" ELSE "flow"
  BY <1>1 DEF ScanFound, Goto, Port
<1>3. CASE Port \in LowPort
  <2>1. AlertMatches'
    BY <1>0, <1>1, <1>2, <1>3, AlertKept DEF ScanSteps, PortSteps, FlowSteps, FlowLabels, BytesDue, PktsDue
  <2>2. /\ Contents(scan)' = Contents(scan) /\ ScanWith(Remembered)' = ScanWith(Remembered)
        /\ (Packets!Holds(settled.scan, Source)' <=> Packets!Holds(settled.scan, Source))
    BY DEF Contents, ScanWith, Remembered, Source, src, Packets!Holds, Packets!Room
  <2>3. BitmapMatches'
    BY <1>2, <1>3, <2>2 DEF BitmapMatches, PortSteps, FlowSteps, FlowLabels, BytesDue, PktsDue
  <2> QED
    BY <1>2, <1>3, <2>1, <2>3 DEF ScanSteps, PortSteps
<1>4. CASE Port \notin LowPort
  <2>1. Probed = Remembered /\ ~Packets!Scanning(Source, Port)
    BY <1>1, <1>4, ScanResult
  <2>2. Contents(scan) = Packets!Put(settled.scan, Source, Probed)
    BY <2>1, PutHeld DEF ScanWith
  <2> QED
    BY <1>0, <1>1, <1>2, <1>4, <2>1, <2>2, ScanOver
<1> QED
  BY <1>3, <1>4

LEMMA ScanLookupMatches ==
    ASSUME TypeOK, ScanInv, Matches, ScanLookup(Here) \/ ScanRelookup(Here), settled' = settled
    PROVE  Matches'
<1>1. /\ UNCHANGED <<synKeys, syn, synAlerts, scan, scanAlerts, flow, pkt>>
      /\ pc[Here] \in {"scan", "scanAgain"}
  BY DEF ScanLookup, ScanRelookup, maps, synHist, scanHist
<1>2. pc[Here] \in ScanSteps /\ pc[Here] \in ScanSteps \ {"scanClear"}
  BY <1>1 DEF ScanSteps, PortSteps
<1>3. /\ Here \in CPU /\ Source \in IP /\ pc \in [CPU -> Steps]
      /\ settled.scan \in [IP -> (SUBSET LowPort) \cup {NoElem}]
      /\ Contents(scan)[Source] = NoElem <=> Lookup(scan, Source) = NoElem
      /\ BitmapMatches /\ AlertMatches /\ Packets!IsSyn(Handled)
      /\ NoElem \notin SUBSET LowPort
  BY <1>2, ScanFacts
<1>4. CASE Lookup(scan, Source) # NoElem
  <2>1. ScanFound(Here, Lookup(scan, Source))
    BY <1>4 DEF ScanLookup, ScanRelookup, Source
  <2>2. Packets!Holds(settled.scan, Source) /\ Contents(scan) = ScanWith(Remembered)
    <3>1. CASE pc[Here] = "scan"
      <4>1. Contents(scan) = settled.scan /\ settled.scan[Source] # NoElem
        BY <1>3, <1>4, <3>1 DEF BitmapMatches
      <4>2. Remembered = settled.scan[Source]
        BY <4>1 DEF Remembered
      <4>3. ScanWith(Remembered) = settled.scan
        BY <1>3, <4>2 DEF ScanWith
      <4> QED
        BY <4>1, <4>3, PutHeld
    <3>2. CASE pc[Here] = "scanAgain"
      <4>1. settled.scan[Source] = NoElem /\ Contents(scan) = Packets!Put(settled.scan, Source, {})
        BY <1>3, <3>2 DEF BitmapMatches
      <4>2. Packets!Holds(settled.scan, Source)
        BY <1>3, <1>4, <4>1, PutHeld
      <4>3. Remembered = {}
        BY <4>1 DEF Remembered
      <4> QED
        BY <4>1, <4>2, <4>3, PutHeld DEF ScanWith
    <3> QED
      BY <1>1, <3>1, <3>2
  <2>3. BitmapMatches' /\ AlertMatches' /\ pc'[Here] \in ScanSteps \cup {"flow"}
    BY <1>1, <2>1, <2>2, ScanFoundMatches
  <2> QED
    BY <1>1, <1>2, <2>3, ScanStepMatches
<1>5. CASE Lookup(scan, Source) = NoElem /\ pc[Here] = "scan"
  <2>1. pc'[Here] = "scanNew"
    BY <1>3, <1>5 DEF ScanLookup, ScanRelookup, Goto, Source
  <2>2. AlertMatches'
    BY <1>1, <1>2, <1>3, <2>1, AlertKept DEF ScanSteps, PortSteps, FlowSteps, FlowLabels, BytesDue, PktsDue
  <2>3. BitmapMatches'
    BY <1>1, <1>3, <1>5, <2>1 DEF BitmapMatches, PortSteps, FlowSteps, FlowLabels, BytesDue, PktsDue, Contents
  <2> QED
    BY <1>1, <1>2, <2>1, <2>2, <2>3, ScanStepMatches DEF ScanSteps
<1>6. CASE Lookup(scan, Source) = NoElem /\ pc[Here] = "scanAgain"
  <2>1. pc'[Here] = "flow"
    BY <1>3, <1>6 DEF ScanLookup, ScanRelookup, Goto, Source
  <2>2. settled.scan[Source] = NoElem /\ Contents(scan) = Packets!Put(settled.scan, Source, {})
    BY <1>3, <1>6 DEF BitmapMatches
  <2>3. ~Packets!Holds(settled.scan, Source)
    <3>1. SUFFICES ASSUME Packets!Holds(settled.scan, Source) PROVE FALSE
      OBVIOUS
    <3>2. Packets!Put(settled.scan, Source, {}) = [settled.scan EXCEPT ![Source] = {}]
      BY <3>1, PutHeld
    <3>3. Contents(scan)[Source] = {}
      BY <1>3, <2>2, <3>2
    <3> QED
      BY <1>3, <1>6, <3>3
  <2>4. Contents(scan) = Packets!Put(settled.scan, Source, Probed) /\ ~Packets!Scanning(Source, Port)
    BY <2>2, <2>3, PutHeld, ScanResult
  <2>5. BitmapMatches' /\ AlertMatches'
    BY <1>1, <1>2, <1>3, <2>1, <2>4, ScanOver
  <2> QED
    BY <1>1, <1>2, <2>1, <2>5, ScanStepMatches
<1> QED
  BY <1>1, <1>4, <1>5, <1>6

LEMMA ScanCreateMatches ==
    ASSUME TypeOK, ScanInv, Matches, ScanCreate(Here), settled' = settled
    PROVE  Matches'
<1>1. /\ UNCHANGED <<synKeys, syn, synAlerts, scanAlerts, flow, pkt>> /\ pc[Here] = "scanNew"
      /\ pc' = [pc EXCEPT ![Here] = "scanAgain"] /\ scan' \in Update(scan, Here, Source, {})
  BY DEF ScanCreate, Source, local, synHist, scanHist, Goto
<1>2. pc[Here] \in ScanSteps
  BY <1>1 DEF ScanSteps
<1>3. /\ Here \in CPU /\ Source \in IP /\ pc \in [CPU -> Steps]
      /\ scan \in HashType(SUBSET LowPort) /\ Disjoint(scan) /\ NoElem \notin SUBSET LowPort
      /\ Contents(scan)[Source] = NoElem <=> Lookup(scan, Source) = NoElem
      /\ BitmapMatches /\ AlertMatches
  BY <1>2, ScanFacts
<1>4. Contents(scan) = settled.scan /\ Lookup(scan, Source) = NoElem
  BY <1>1, <1>3 DEF BitmapMatches, ScanInv, ScanRegisters
<1>5. Contents(scan') = Packets!Put(settled.scan, Source, {}) /\ settled.scan[Source] = NoElem
  BY <1>1, <1>3, <1>4, ContentsUpdate
<1>6. /\ pc'[Here] = "scanAgain" /\ Source' = Source /\ Contents(scan)' = Contents(scan')
      /\ Packets!Put(settled.scan, Source, {})' = Packets!Put(settled.scan, Source, {})
  BY <1>1, <1>3 DEF Source, src, Contents, Packets!Put, Packets!Holds, Packets!Room
<1>7. AlertMatches'
  BY <1>1, <1>3, <1>6, AlertKept DEF FlowSteps, FlowLabels, BytesDue, PktsDue
<1>8. BitmapMatches'
  BY <1>5, <1>6 DEF BitmapMatches, PortSteps, FlowSteps, FlowLabels, BytesDue, PktsDue
<1> QED
  BY <1>1, <1>2, <1>6, <1>7, <1>8, ScanStepMatches DEF ScanSteps

\* In the middle of check_port_scan the bitmap of the source is the element pointed to.
LEMMA BitmapAt ==
    ASSUME TypeOK, ScanInv, Matches, pc[Here] \in PortSteps
    PROVE  /\ pc[Here] \in ScanSteps
           /\ Lookup(scan, Source) # NoElem /\ ptr[Here] = Lookup(scan, Source) /\ Port \in LowPort
           /\ scan.val[ptr[Here]] = Held(Source) /\ Contents(scan)[Source] = Held(Source)
           /\ Packets!Holds(settled.scan, Source)
           /\ \A ports : ScanWith(ports)[Source] = ports
           /\ \A ports : Contents(scan) = ScanWith(ports) => Held(Source) = ports
           /\ \A v, ports : Contents(scan) = ScanWith(ports) =>
                  Contents(Store(scan, ptr[Here], v)) = ScanWith(v)
<1>1. pc[Here] \in ScanSteps
  BY DEF ScanSteps
<1>2. /\ Source \in IP /\ scan \in HashType(SUBSET LowPort) /\ Disjoint(scan) /\ NoElem \notin SUBSET LowPort
      /\ settled.scan \in [IP -> (SUBSET LowPort) \cup {NoElem}] /\ BitmapMatches
  BY <1>1, ScanFacts
<1>3. /\ Lookup(scan, Source) # NoElem /\ ptr[Here] = Lookup(scan, Source) /\ Port \in LowPort
      /\ scan.val[ptr[Here]] = Held(Source)
  BY PortStep DEF ScanInv
<1>4. Contents(scan)[Source] = Held(Source)
  BY <1>2, <1>3, ContentsAt DEF Held, Value
<1>5. \A ports : ScanWith(ports)[Source] = ports
  BY <1>2 DEF ScanWith
<1>6. ASSUME NEW v, NEW ports, Contents(scan) = ScanWith(ports)
      PROVE  Contents(Store(scan, ptr[Here], v)) = ScanWith(v)
  <2>1. Contents(Store(scan, Lookup(scan, Source), v)) = [Contents(scan) EXCEPT ![Source] = v]
    BY <1>2, <1>3, ContentsStore
  <2>2. [ScanWith(ports) EXCEPT ![Source] = v] = ScanWith(v)
    BY <1>2 DEF ScanWith
  <2> QED
    BY <1>3, <1>6, <2>1, <2>2
<1> QED
  BY <1>1, <1>2, <1>3, <1>4, <1>5, <1>6 DEF BitmapMatches

LEMMA ScanOrMatches ==
    ASSUME TypeOK, ScanInv, Matches, ScanLoad(Here) \/ ScanStore(Here), settled' = settled
    PROVE  Matches'
<1>1. /\ UNCHANGED <<synKeys, syn, synAlerts, scanAlerts, flow, pkt>> /\ pc[Here] \in {"scanLoad", "scanStore"}
      /\ pc' = [pc EXCEPT ![Here] = IF pc[Here] = "scanLoad" THEN "scanStore" ELSE "scanCount"]
  BY DEF ScanLoad, ScanStore, maps, synHist, scanHist, Goto
<1>2. pc[Here] \in PortSteps
  BY <1>1 DEF PortSteps
<1>3. /\ pc[Here] \in ScanSteps /\ scan.val[ptr[Here]] = Held(Source) /\ Port \in LowPort
      /\ Packets!Holds(settled.scan, Source)
      /\ \A ports : Contents(scan) = ScanWith(ports) => Held(Source) = ports
      /\ \A v, ports : Contents(scan) = ScanWith(ports) => Contents(Store(scan, ptr[Here], v)) = ScanWith(v)
  BY <1>2, BitmapAt
<1>4. /\ Here \in CPU /\ pc \in [CPU -> Steps] /\ BitmapMatches /\ AlertMatches
      /\ Probed = ({Port} \cap LowPort) \cup Remembered
  BY <1>3, ScanFacts
<1>5. pc'[Here] = IF pc[Here] = "scanLoad" THEN "scanStore" ELSE "scanCount"
  BY <1>1, <1>4
<1>6. AlertMatches'
  BY <1>1, <1>4, <1>5, AlertKept DEF FlowSteps, FlowLabels, BytesDue, PktsDue
<1>7. Contents(scan) = ScanWith(Remembered)
  BY <1>1, <1>4 DEF BitmapMatches
<1>8. IF pc[Here] = "scanLoad" THEN Contents(scan') = ScanWith(Remembered)
                               ELSE Contents(scan') = ScanWith(Probed)
  <2>1. CASE pc[Here] = "scanLoad"
    BY <1>7, <2>1 DEF ScanLoad, ScanStore, maps, Contents
  <2>2. CASE pc[Here] = "scanStore"
    <3>1. Held(Source) = Remembered /\ bits[Here] = Held(Source) \cap WordBits(WordOf(Port))
      BY <1>3, <1>7, <2>2 DEF ScanInv, ScanRegisters
    <3>2. scan' = Store(scan, ptr[Here],
                        (Remembered \ WordBits(WordOf(Port))) \cup bits[Here] \cup {Port})
      BY <1>3, <2>2, <3>1 DEF ScanLoad, ScanStore, Port
    <3>3. (Remembered \ WordBits(WordOf(Port))) \cup bits[Here] \cup {Port} = Probed
      BY <1>3, <1>4, <3>1
    <3>4. scan' = Store(scan, ptr[Here], Probed)
      BY <3>2, <3>3, Zenon
    <3> QED
      BY <1>3, <1>7, <2>2, <3>4
  <2> QED
    BY <1>1, <2>1, <2>2
<1>9. /\ ScanWith(Remembered)' = ScanWith(Remembered) /\ ScanWith(Probed)' = ScanWith(Probed)
      /\ Contents(scan)' = Contents(scan')
      /\ (Packets!Holds(settled.scan, Source)' <=> Packets!Holds(settled.scan, Source))
  BY <1>1 DEF ScanWith, Remembered, Probed, Source, src, Port, Contents, Packets!Ports, Packets!Holds, Packets!Room
<1>10. BitmapMatches'
  BY <1>1, <1>3, <1>5, <1>8, <1>9 DEF BitmapMatches, PortSteps, FlowSteps, FlowLabels, BytesDue, PktsDue
<1> QED
  BY <1>1, <1>3, <1>5, <1>6, <1>10, ScanStepMatches DEF ScanSteps, PortSteps

LEMMA ScanCountMatches ==
    ASSUME TypeOK, ScanInv, Matches, ScanCount(Here), settled' = settled
    PROVE  Matches'
<1> DEFINE i == idx[Here]
           n == Cardinality(scan.val[ptr[Here]] \cap WordBits(i))
           last == ~(i + 1 < Words)
<1>1. /\ UNCHANGED <<synKeys, syn, synAlerts, scan, scanAlerts, flow, pkt, ptr>> /\ pc[Here] = "scanCount"
      /\ total' = [total EXCEPT ![Here] = @ + n]
      /\ pc' = [pc EXCEPT ![Here] = IF ~last THEN "scanCount"
                                    ELSE IF total'[Here] > ScanThreshold THEN "scanAlert" ELSE "flow"]
  BY DEF ScanCount, maps, synHist, scanHist, Goto, NextWord, ScanTripped
<1>2. pc[Here] \in PortSteps
  BY <1>1 DEF PortSteps
<1>3. /\ pc[Here] \in ScanSteps /\ scan.val[ptr[Here]] = Held(Source) /\ Port \in LowPort
      /\ Packets!Holds(settled.scan, Source)
      /\ \A ports : Contents(scan) = ScanWith(ports) => Held(Source) = ports
  BY <1>2, BitmapAt
<1>4. /\ Here \in CPU /\ pc \in [CPU -> Steps] /\ BitmapMatches /\ AlertMatches
      /\ Packets!IsSyn(Handled) /\ Probed \in SUBSET LowPort
  BY <1>3, ScanFacts
<1>5. Contents(scan) = ScanWith(Probed) /\ Held(Source) = Probed
  BY <1>1, <1>3, <1>4 DEF BitmapMatches
<1>6. CASE pc'[Here] = "flow"
  <2>1. last /\ ~(total'[Here] > ScanThreshold)
    BY <1>1, <1>4, <1>6
  <2>2. i \in 0..Words - 1 /\ total[Here] = Cardinality(Probed \cap LowWords(i)) /\ total \in [CPU -> Nat]
    BY <1>1, <1>4, <1>5, ParameterAssumption DEF ScanInv, ScanRegisters, TypeOK, LocalTypes
  <2>3. total'[Here] = Cardinality(Probed \cap LowWords(i + 1))
    <3>1. total'[Here] = Cardinality(Probed \cap LowWords(i)) + Cardinality(Probed \cap WordBits(i))
      BY <1>1, <1>3, <1>4, <1>5, <2>2
    <3> QED
      BY <1>4, <2>2, <3>1, WordLoop
  <2>4. Probed \cap LowWords(i + 1) = Probed
    BY <1>4, <2>1, <2>2, LastWord
  <2>5. total'[Here] = Cardinality(Probed)
    BY <2>3, <2>4, Zenon
  <2>6. ~Packets!Scanning(Source, Port)
    BY <2>1, <2>5, ScanResult
  <2>7. Contents(scan) = Packets!Put(settled.scan, Source, Probed)
    BY <1>3, <1>5, PutHeld DEF ScanWith
  <2>8. BitmapMatches' /\ AlertMatches'
    BY <1>1, <1>3, <1>4, <1>6, <2>6, <2>7, ScanOver
  <2> QED
    BY <1>1, <1>3, <1>6, <2>8, ScanStepMatches
<1>7. CASE pc'[Here] \in {"scanCount", "scanAlert"}
  <2>1. AlertMatches'
    BY <1>1, <1>4, <1>7, AlertKept DEF FlowSteps, FlowLabels, BytesDue, PktsDue
  <2>2. /\ ScanWith(Probed)' = ScanWith(Probed) /\ Contents(scan)' = Contents(scan)
        /\ (Packets!Holds(settled.scan, Source)' <=> Packets!Holds(settled.scan, Source))
    BY <1>1 DEF ScanWith, Probed, Source, src, Port, Contents, Packets!Ports, Packets!Holds, Packets!Room
  <2>3. BitmapMatches'
    BY <1>3, <1>5, <1>7, <2>2 DEF BitmapMatches, PortSteps, FlowSteps, FlowLabels, BytesDue, PktsDue
  <2> QED
    BY <1>1, <1>3, <1>7, <2>1, <2>3, ScanStepMatches DEF ScanSteps, PortSteps
<1> QED
  BY <1>1, <1>4, <1>6, <1>7

LEMMA ScanAlertMatches ==
    ASSUME TypeOK, ScanInv, Matches, ScanAlert(Here), settled' = settled
    PROVE  Matches'
<1>1. /\ UNCHANGED <<synKeys, syn, synAlerts, scan, flow, pkt>> /\ pc[Here] = "scanAlert"
      /\ pc' = [pc EXCEPT ![Here] = "scanClear"] /\ idx' = [idx EXCEPT ![Here] = 0]
      /\ scanAlerts' = [scanAlerts EXCEPT ![Source] = @ + 1]
  BY DEF ScanAlert, maps, synHist, Goto, Bump, Source
<1>2. pc[Here] \in PortSteps
  BY <1>1 DEF PortSteps
<1>3. /\ pc[Here] \in ScanSteps /\ Packets!Holds(settled.scan, Source)
      /\ \A ports : Contents(scan) = ScanWith(ports) => Held(Source) = ports
  BY <1>2, BitmapAt
<1>4. /\ Here \in CPU /\ Source \in IP /\ pc \in [CPU -> Steps] /\ BitmapMatches /\ AlertMatches
      /\ Packets!IsSyn(Handled) /\ Probed \in SUBSET LowPort
  BY <1>3, ScanFacts
<1>5. Contents(scan) = ScanWith(Probed) /\ Held(Source) = Probed
  BY <1>1, <1>3, <1>4 DEF BitmapMatches
<1>6. Cardinality(Probed) > ScanThreshold
  <2>1. Cardinality(Held(Source)) > ScanThreshold
    BY <1>1 DEF ScanInv, ScanRegisters
  <2> QED
    BY <1>5, <2>1, Zenon
<1>7. pc'[Here] = "scanClear" /\ idx'[Here] = 0 /\ Source' = Source
  BY <1>1, <1>4 DEF TypeOK, LocalTypes, Source, src
<1>8. AlertMatches'
  <2>1. /\ scanAlerts \in [IP -> Nat] /\ SettledType
    BY DEF TypeOK, HistoryTypes, Matches
  <2>2. \A ip \in IP : settled.raised[ip].port_scan \in Nat
    BY <2>1 DEF SettledType
  <2>3. \A ip \in IP : scanAlerts[ip] = settled.raised[ip].port_scan
    BY <1>1, <1>4, <2>2 DEF AlertMatches, FlowSteps, FlowLabels, BytesDue, PktsDue
  <2>4. \A ip \in IP : scanAlerts'[ip] = settled.raised[ip].port_scan + (IF ip = Source THEN 1 ELSE 0)
    BY <1>1, <1>4, <2>1, <2>2, <2>3
  <2> QED
    BY <1>7, <2>4 DEF AlertMatches
<1>9. Probed \ LowWords(0) = Probed
  BY ParameterAssumption, WordInRange DEF LowWords
<1>10. /\ ScanWith(Probed \ LowWords(idx[Here]))' = ScanWith(Probed \ LowWords(0)) /\ Probed' = Probed
       /\ (Packets!Holds(settled.scan, Source)' <=> Packets!Holds(settled.scan, Source))
       /\ Contents(scan)' = Contents(scan)
  BY <1>1, <1>7 DEF ScanWith, Probed, Source, src, Port, Contents, Packets!Ports, Packets!Holds, Packets!Room,
                    LowWords
<1>11. (Cardinality(Probed) > ScanThreshold)'
  BY <1>6, <1>10, Zenon
<1>12. Contents(scan)' = ScanWith(Probed \ LowWords(idx[Here]))'
  BY <1>5, <1>9, <1>10, Zenon
<1>13. BitmapMatches'
  BY <1>3, <1>7, <1>10, <1>11, <1>12 DEF BitmapMatches, PortSteps, FlowSteps, FlowLabels, BytesDue, PktsDue
<1> QED
  BY <1>1, <1>3, <1>7, <1>8, <1>13, ScanStepMatches DEF ScanSteps, PortSteps

LEMMA ScanClearMatches ==
    ASSUME TypeOK, ScanInv, Matches, ScanClear(Here), settled' = settled
    PROVE  Matches'
<1> DEFINE i == idx[Here]
           rest == Probed \ LowWords(i + 1)
<1>1. /\ UNCHANGED <<synKeys, syn, synAlerts, scanAlerts, flow, pkt, ptr>> /\ pc[Here] = "scanClear"
      /\ scan' = Store(scan, ptr[Here], scan.val[ptr[Here]] \ WordBits(i))
      /\ idx' = [idx EXCEPT ![Here] = i + 1]
      /\ pc' = [pc EXCEPT ![Here] = IF i + 1 < Words THEN "scanClear" ELSE "flow"]
  BY DEF ScanClear, synHist, scanHist, Goto, NextWord, WordCleared
<1>2. pc[Here] \in PortSteps
  BY <1>1 DEF PortSteps
<1>3. /\ pc[Here] \in ScanSteps /\ scan.val[ptr[Here]] = Held(Source) /\ Port \in LowPort
      /\ Packets!Holds(settled.scan, Source)
      /\ \A ports : Contents(scan) = ScanWith(ports) => Held(Source) = ports
      /\ \A v, ports : Contents(scan) = ScanWith(ports) => Contents(Store(scan, ptr[Here], v)) = ScanWith(v)
  BY <1>2, BitmapAt
<1>4. /\ Here \in CPU /\ pc \in [CPU -> Steps] /\ idx \in [CPU -> Nat] /\ BitmapMatches /\ AlertMatches
      /\ Packets!IsSyn(Handled) /\ Probed \in SUBSET LowPort
  BY <1>3, ScanFacts DEF TypeOK, LocalTypes
<1>5. /\ Cardinality(Probed) > ScanThreshold /\ Contents(scan) = ScanWith(Probed \ LowWords(i))
      /\ Held(Source) = Probed \ LowWords(i) /\ i \in 0..Words - 1
  BY <1>1, <1>3, <1>4, ParameterAssumption DEF BitmapMatches, ScanInv, ScanRegisters
<1>6. Contents(scan') = ScanWith(rest)
  <2>1. LowWords(i + 1) = LowWords(i) \cup WordBits(i)
    BY <1>5, WordLoop
  <2>2. scan.val[ptr[Here]] \ WordBits(i) = rest
    BY <1>3, <1>5, <2>1
  <2>3. scan' = Store(scan, ptr[Here], rest)
    BY <1>1, <2>2, Zenon
  <2> QED
    BY <1>3, <1>5, <2>3
<1>7. /\ pc'[Here] = IF i + 1 < Words THEN "scanClear" ELSE "flow"
      /\ idx'[Here] = i + 1 /\ Source' = Source /\ Handled' = Handled /\ Port' = Port
  BY <1>1, <1>4 DEF Source, src, Handled, Port
<1>8. /\ ScanWith(Probed \ LowWords(idx[Here]))' = ScanWith(rest) /\ Probed' = Probed
      /\ (Packets!Holds(settled.scan, Source)' <=> Packets!Holds(settled.scan, Source))
      /\ (Packets!Scanning(Source, Port)' <=> Packets!Scanning(Source, Port))
      /\ Packets!check_port_scan(Source, Port)' = Packets!check_port_scan(Source, Port)
      /\ (Packets!IsSyn(Handled)' <=> Packets!IsSyn(Handled)) /\ Contents(scan)' = Contents(scan')
  BY <1>1, <1>7 DEF ScanWith, Probed, Contents, Packets!Ports, Packets!Holds, Packets!Room, Packets!Scanning,
                    Packets!check_port_scan, Packets!Put, Packets!IsSyn, LowWords
<1>9. (Cardinality(Probed) > ScanThreshold)'
  BY <1>5, <1>8, Zenon
<1>10. Packets!Scanning(Source, Port)
  BY <1>3, <1>5, ScanResult
<1> HIDE DEF rest
<1>11. AlertMatches'
  BY <1>1, <1>4, <1>7, <1>8, <1>10 DEF AlertMatches, FlowSteps, FlowLabels, BytesDue, PktsDue
<1>12. BitmapMatches'
  <2>1. CASE i + 1 < Words
    BY <1>3, <1>6, <1>7, <1>8, <1>9, <2>1 DEF BitmapMatches, PortSteps, FlowSteps, FlowLabels, BytesDue, PktsDue
  <2>2. CASE ~(i + 1 < Words)
    <3>1. rest = {}
      BY <1>4, <1>5, <2>2, LastWord DEF rest
    <3>2. Packets!check_port_scan(Source, Port) = ScanWith({})
      BY <1>3, <1>10, ScanResult, PutHeld DEF ScanWith
    <3>3. Contents(scan)' = Packets!check_port_scan(Source, Port)'
      BY <1>6, <1>8, <3>1, <3>2
    <3> QED
      BY <1>4, <1>7, <1>8, <2>2, <3>3 DEF BitmapMatches, PortSteps
  <2> QED
    BY <2>1, <2>2
<1>13. pc'[Here] \in ScanSteps \cup {"flow"}
  BY <1>7 DEF ScanSteps, PortSteps
<1> QED
  BY <1>1, <1>3, <1>11, <1>12, <1>13, ScanStepMatches

\* In update_flow_stats the checks are over.
LEMMA FlowFacts ==
    ASSUME TypeOK, Matches, pc[Here] \in FlowSteps
    PROVE  /\ Here \in CPU /\ Source \in IP /\ Handled \in Packet /\ Handled.src = Source
           /\ Handled.port = Port /\ Handled.size \in Nat /\ pc \in [CPU -> Steps]
           /\ flow \in HashType(FlowValue) /\ NoElem \notin FlowValue
           /\ SettledType /\ settled.flow \in [IP -> FlowValue \cup {NoElem}]
           /\ Handled.kind \in {"ipv4", "tcp"} /\ settled.blacklist[Source] # 1
           /\ SynMatches /\ BitmapMatches /\ AlertMatches /\ FlowMatches
<1>1. Busy
  BY DEF Busy, FlowSteps, FlowLabels, BytesDue, PktsDue
<1> QED
  BY <1>1, BusyFacts, NoElemFacts DEF Matches, SettledType, TypeOK, MapTypes, LocalTypes

\* The steps of update_flow_stats before the last.
LEMMA FlowWalkMatches ==
    ASSUME TypeOK, CountInv, Matches, settled' = settled,
           FlowLookup(Here) \/ FlowLoadPkts(Here) \/ FlowStorePkts(Here) \/ FlowLoadBytes(Here)
    PROVE  Matches'
<1>1. /\ UNCHANGED <<synKeys, syn, synAlerts, scan, scanAlerts, pkt>>
      /\ pc[Here] \in {"flow", "flowLoadPkts", "flowStorePkts", "flowLoadBytes"}
  BY DEF FlowLookup, FlowLoadPkts, FlowStorePkts, FlowLoadBytes, FlowLoad, FlowStore, maps, local,
         synHist, scanHist
<1>2. pc[Here] \in FlowSteps
  BY <1>1 DEF FlowSteps, FlowLabels, BytesDue, PktsDue
<1>3. /\ Here \in CPU /\ Source \in IP /\ pc \in [CPU -> Steps]
      /\ flow \in HashType(FlowValue) /\ NoElem \notin FlowValue
      /\ SettledType /\ settled.flow \in [IP -> FlowValue \cup {NoElem}]
      /\ Handled.kind \in {"ipv4", "tcp"} /\ settled.blacklist[Source] # 1
      /\ SynMatches /\ BitmapMatches /\ AlertMatches /\ FlowMatches
  BY <1>2, FlowFacts
<1>4. /\ pc[Here] = "flow" => pc'[Here] \in {"flowNew", "flowLoadPkts"}
      /\ pc[Here] = "flowLoadPkts" => pc'[Here] = "flowStorePkts"
      /\ pc[Here] = "flowStorePkts" => pc'[Here] = "flowLoadBytes"
      /\ pc[Here] = "flowLoadBytes" => pc'[Here] = "flowStoreBytes"
      /\ pc[Here] # "flowStorePkts" => flow' = flow
  BY <1>3 DEF FlowLookup, FlowLoadPkts, FlowStorePkts, FlowLoadBytes, FlowLoad, FlowStore, Goto, maps
<1>5. pc'[Here] \in FlowLabels \ {"idle"} /\ pc'[Here] \in FlowSteps /\ pc'[Here] \notin PortSteps
  BY <1>1, <1>4 DEF FlowSteps, FlowLabels, BytesDue, PktsDue, PortSteps
<1>6. /\ Source' = Source /\ Handled' = Handled /\ Port' = Port
      /\ Contents(scan)' = Contents(scan)
      /\ Packets!check_port_scan(Source, Port)' = Packets!check_port_scan(Source, Port)
      /\ (Packets!IsSyn(Handled)' <=> Packets!IsSyn(Handled))
  BY <1>1 DEF Source, src, Handled, Port, Contents, Packets!check_port_scan, Packets!Scanning, Packets!Ports,
              Packets!Holds, Packets!Room, Packets!Put, Packets!IsSyn
<1>7. SynMatches'
  BY <1>1, <1>3, <1>5, SynKept DEF FlowLabels, BytesDue, PktsDue
<1>8. AlertMatches'
  BY <1>1, <1>2, <1>3, <1>5, AlertKept DEF FlowSteps, FlowLabels, BytesDue, PktsDue
<1>9. BitmapMatches'
  BY <1>2, <1>3, <1>5, <1>6 DEF BitmapMatches, FlowSteps, FlowLabels, BytesDue, PktsDue, PortSteps
<1>10. FlowMatches'
  <2>1. CASE pc[Here] \in {"flow", "flowLoadPkts"}
    BY <1>1, <1>3, <1>4, <2>1, FlowKept
  <2>2. CASE pc[Here] = "flowStorePkts"
    <3>1. /\ flow' = Store(flow, ptr[Here], [flow.val[ptr[Here]] EXCEPT !["pkts"] = num[Here] + 1])
          /\ pc'[Here] = "flowLoadBytes"
      BY <1>4, <2>2 DEF FlowLookup, FlowLoadPkts, FlowStorePkts, FlowLoadBytes, FlowLoad, FlowStore
    <3>2. /\ Lookup(flow, Source) # NoElem /\ ptr[Here] = Lookup(flow, Source)
          /\ flow.val[ptr[Here]] = Counted(Source) /\ num[Here] = Counted(Source).pkts /\ Disjoint(flow)
      BY <2>2, FlowStep DEF FlowLabels, BytesDue, PktsDue, CountInv, FlowRegisters
    <3>3. Contents(flow) = settled.flow /\ settled.flow[Source] # NoElem /\ settled.flow[Source] = Counted(Source)
      <4>1. Contents(flow) = settled.flow
        BY <1>3, <2>2 DEF FlowMatches
      <4>2. Contents(flow)[Source] = Value(flow, Source, NoElem) /\ (Contents(flow)[Source] = NoElem <=> Lookup(flow, Source) = NoElem)
        BY <1>3, ContentsAt
      <4> QED
        BY <3>2, <4>1, <4>2 DEF Counted, Value
    <3> DEFINE C == Counted(Source)
               v == [C EXCEPT !["pkts"] = C.pkts + 1]
    <3>4. flow' = Store(flow, Lookup(flow, Source), v)
      BY <3>1, <3>2
    <3>5. v = [C EXCEPT !.pkts = C.pkts + 1]
      OBVIOUS
    <3> HIDE DEF v
    <3>6. Contents(flow') = [settled.flow EXCEPT ![Source] = v]
      BY <1>3, <3>2, <3>3, <3>4, ContentsStore
    <3>7. [settled.flow EXCEPT ![Source] = v] = [settled.flow EXCEPT ![Source].pkts = @ + 1]
      BY <1>3, <3>3, <3>5
    <3> QED
      BY <1>6, <3>1, <3>3, <3>6, <3>7 DEF FlowMatches, Contents
  <2>3. CASE pc[Here] = "flowLoadBytes"
    BY <1>3, <1>4, <1>6, <2>3 DEF FlowMatches, Contents
  <2> QED
    BY <1>1, <2>1, <2>2, <2>3
<1> QED
  BY <1>3, <1>5, <1>6, <1>7, <1>8, <1>9, <1>10 DEF Matches, SettledType, Busy, FlowLabels, BytesDue, PktsDue

\* With the last step of update_flow_stats the atomic handler has run.
LEMMA Handles ==
    ASSUME TypeOK, TypeOK', Matches, pc[Here] \in FlowLabels,
           UNCHANGED <<synKeys, syn, synAlerts, scan, scanAlerts>>, settled' = Current',
           Contents(flow)' = Packets!update_flow_stats(Source, Handled.size)
    PROVE  Packets!Handle(Handled)
<1>1. pc[Here] \in FlowSteps /\ pc[Here] \notin {"syn", "idle", "scanClear"}
  BY DEF FlowSteps, FlowLabels, BytesDue, PktsDue
<1>2. /\ Here \in CPU /\ Source \in IP /\ Handled.src = Source /\ Handled.port = Port
      /\ SettledType /\ Handled.kind \in {"ipv4", "tcp"} /\ settled.blacklist[Source] # 1
      /\ SynMatches /\ BitmapMatches /\ AlertMatches
  BY <1>1, FlowFacts
<1>3. /\ settled'.syn = Current.syn /\ settled'.scan = Contents(scan) /\ settled'.flow = Contents(flow)'
      /\ settled'.blacklist = blacklist'
      /\ settled'.raised = [ip \in IP |-> [syn_flood |-> synAlerts[Here][ip], port_scan |-> scanAlerts[ip]]]
  BY DEF Current, Contents
<1>4. settled'.blacklist \in [IP -> {NoElem, 0, 1}]
  BY <1>3 DEF TypeOK, MapTypes
<1>5. settled'.syn = IF Packets!IsPureSyn(Handled) THEN Packets!check_syn_flood(Source) ELSE settled.syn
  BY <1>1, <1>2, <1>3 DEF SynMatches
<1>6. settled'.scan = IF Packets!IsSyn(Handled) THEN Packets!check_port_scan(Source, Port) ELSE settled.scan
  BY <1>1, <1>2, <1>3 DEF BitmapMatches
<1>7. settled'.raised = [settled.raised EXCEPT ![Source] = Packets!RaisedBy(Handled)]
  <2>1. /\ settled.raised \in [IP -> [syn_flood : Nat, port_scan : Nat]]
        /\ \A ip \in IP : /\ settled.raised[ip].syn_flood \in Nat /\ settled.raised[ip].port_scan \in Nat
                          /\ settled.raised[ip] = [syn_flood |-> settled.raised[ip].syn_flood,
                                                   port_scan |-> settled.raised[ip].port_scan]
    BY <1>2 DEF SettledType
  <2>2. \A ip \in IP : ip # Source =>
            synAlerts[Here][ip] = settled.raised[ip].syn_flood /\ scanAlerts[ip] = settled.raised[ip].port_scan
    BY <1>1, <1>2, <2>1 DEF SynMatches, AlertMatches
  <2>3. [syn_flood |-> synAlerts[Here][Source], port_scan |-> scanAlerts[Source]] = Packets!RaisedBy(Handled)
    <3>1. /\ synAlerts[Here][Source] = settled.raised[Source].syn_flood
               + (IF Packets!IsPureSyn(Handled) /\ Packets!Flooding(Source) THEN 1 ELSE 0)
          /\ scanAlerts[Source] = settled.raised[Source].port_scan
               + (IF Packets!IsSyn(Handled) /\ Packets!Scanning(Source, Port) THEN 1 ELSE 0)
      BY <1>1, <1>2 DEF SynMatches, AlertMatches
    <3> QED
      BY <1>2, <3>1 DEF Packets!RaisedBy
  <2>4. \A ip \in IP : settled'.raised[ip] = IF ip = Source THEN Packets!RaisedBy(Handled) ELSE settled.raised[ip]
    BY <1>3, <2>1, <2>2, <2>3
  <2>5. settled'.raised = [ip \in IP |-> settled'.raised[ip]]
    BY <1>3
  <2> QED
    BY <2>1, <2>4, <2>5
<1> QED
  BY <1>2, <1>3, <1>4, <1>5, <1>6, <1>7 DEF Packets!Handle

LEMMA FlowCreateHandles ==
    ASSUME TypeOK, TypeOK', CountInv, Matches, FlowCreate(Here), settled' = Current'
    PROVE  Packets!Handle(Handled)
<1> DEFINE size == Handled.size
           v == FirstStats(size)
<1>1. /\ pc[Here] = "flowNew" /\ UNCHANGED <<synKeys, syn, synAlerts, scan, scanAlerts>>
      /\ flow' \in Update(flow, Here, Source, v)
  BY DEF FlowCreate, Source, Handled, synHist, scanHist
<1>2. pc[Here] \in FlowLabels /\ pc[Here] \in FlowSteps
  BY <1>1 DEF FlowSteps, FlowLabels
<1>3. /\ Here \in CPU /\ Source \in IP /\ size \in Nat /\ FlowMatches
      /\ flow \in HashType(FlowValue) /\ NoElem \notin FlowValue
  BY <1>2, FlowFacts
<1>4. /\ Lookup(flow, Source) = NoElem /\ Disjoint(flow) /\ Contents(flow) = settled.flow
  BY <1>1, <1>3 DEF CountInv, FlowRegisters, FlowMatches
<1>5. Contents(flow)' = Contents(flow')
  BY DEF Contents
<1>6. Contents(flow') = Packets!Put(settled.flow, Source, v)
  BY <1>1, <1>3, <1>4, ContentsUpdate
<1>7. settled.flow[Source] = NoElem
  BY <1>3, <1>4, ContentsAt
<1>8. v = [pkts |-> 0 + 1, bytes |-> 0 + size]
  BY <1>3 DEF FirstStats
<1> HIDE DEF v
<1>9. Packets!update_flow_stats(Source, size) = Packets!Put(settled.flow, Source, v)
  BY <1>7, <1>8 DEF Packets!update_flow_stats
<1> QED
  BY <1>1, <1>2, <1>5, <1>6, <1>9, Handles

LEMMA FlowStoreHandles ==
    ASSUME TypeOK, TypeOK', CountInv, Matches, FlowStoreBytes(Here), settled' = Current'
    PROVE  Packets!Handle(Handled)
<1> DEFINE size == Handled.size
           old == settled.flow[Source]
           C == Counted(Source)
           v == [C EXCEPT !["bytes"] = C.bytes + size]
<1>1. /\ pc[Here] = "flowStoreBytes" /\ UNCHANGED <<synKeys, syn, synAlerts, scan, scanAlerts>>
      /\ flow' = Store(flow, ptr[Here], [flow.val[ptr[Here]] EXCEPT !["bytes"] = num[Here] + size])
  BY DEF FlowStoreBytes, FlowStore, Handled, synHist, scanHist
<1>2. pc[Here] \in FlowLabels /\ pc[Here] \in FlowSteps /\ pc[Here] \in BytesDue
  BY <1>1 DEF FlowSteps, FlowLabels, BytesDue, PktsDue
<1>3. /\ Here \in CPU /\ Source \in IP /\ size \in Nat /\ FlowMatches
      /\ flow \in HashType(FlowValue) /\ NoElem \notin FlowValue
      /\ settled.flow \in [IP -> FlowValue \cup {NoElem}]
  BY <1>2, FlowFacts
<1>4. /\ Lookup(flow, Source) # NoElem /\ ptr[Here] = Lookup(flow, Source)
      /\ flow.val[ptr[Here]] = C /\ num[Here] = C.bytes /\ Disjoint(flow)
  BY <1>1, <1>2, FlowStep DEF CountInv, FlowRegisters
<1>5. old # NoElem /\ Contents(flow) = [settled.flow EXCEPT ![Source].pkts = @ + 1]
  BY <1>1, <1>3 DEF FlowMatches
<1>6. old \in FlowValue
  BY <1>3, <1>5
<1>7. C = [old EXCEPT !.pkts = old.pkts + 1]
  <2>1. Contents(flow)[Source] = C
    BY <1>3, <1>4, ContentsAt DEF Counted, Value
  <2> QED
    BY <1>3, <1>5, <2>1
<1>8. v = [pkts |-> old.pkts + 1, bytes |-> old.bytes + size]
  <2>1. C = [pkts |-> old.pkts + 1, bytes |-> old.bytes]
    BY <1>6, <1>7 DEF FlowValue
  <2> HIDE DEF C
  <2> QED
    BY <2>1 DEF v
<1>9. flow' = Store(flow, Lookup(flow, Source), v)
  BY <1>1, <1>4
<1> HIDE DEF v, C
<1>10. Contents(flow') = [Contents(flow) EXCEPT ![Source] = v]
  BY <1>3, <1>4, <1>9, ContentsStore
<1>11. [Contents(flow) EXCEPT ![Source] = v] = [settled.flow EXCEPT ![Source] = v]
  BY <1>3, <1>5
<1>12. Packets!update_flow_stats(Source, size) = [settled.flow EXCEPT ![Source] = v]
  BY <1>5, <1>8 DEF Packets!update_flow_stats, Packets!Put, Packets!Holds
<1>13. Contents(flow)' = Contents(flow')
  BY DEF Contents
<1> QED
  BY <1>1, <1>2, <1>10, <1>11, <1>12, <1>13, Handles

\* Every step but those two leaves the packet being handled.
LEMMA StillBusy ==
    ASSUME TypeOK, CpuStep(Here), ~FlowCreate(Here), ~FlowStoreBytes(Here)
    PROVE  pc'[Here] # "idle" /\ ~Idle'
<1>1. Here \in CPU /\ pc \in [CPU -> Steps]
  BY HereIs DEF TypeOK, LocalTypes
<1>2. pc'[Here] # "idle"
  BY <1>1 DEF CpuStep, CheckSynFlood, ScanLookup, ScanCreate, ScanRelookup, ScanFound, ScanLoad, ScanStore,
              ScanCount, ScanAlert, ScanClear, FlowLookup, FlowLoadPkts, FlowStorePkts, FlowLoadBytes,
              FlowLoad, FlowStore, Goto
<1> QED
  BY <1>1, <1>2 DEF Idle

LEMMA MatchesInit == SerialInit => Matches /\ Packets!Init
<1> SUFFICES ASSUME SerialInit PROVE Matches /\ Packets!Init
  OBVIOUS
<1>1. Init /\ settled = Current /\ TypeOK
  BY TypeInit DEF SerialInit
<1>2. pc[Here] = "idle" /\ Here \in CPU
  BY <1>1, HereIs DEF Init
<1>3. Matches
  BY <1>1, <1>2, CurrentSettles DEF Matches, Busy
<1>4. /\ Contents(flow) = [ip \in IP |-> NoElem] /\ Contents(scan) = [ip \in IP |-> NoElem]
  BY <1>1, EmptyValue DEF Init, Contents
<1>5. /\ settled.blacklist = [ip \in IP |-> NoElem] /\ settled.syn = [ip \in IP |-> NoElem]
      /\ settled.raised = [ip \in IP |-> [syn_flood |-> 0, port_scan |-> 0]]
      /\ settled.flow = Contents(flow) /\ settled.scan = Contents(scan)
  BY <1>1, <1>2 DEF Init, Current, Zero
<1> QED
  BY <1>3, <1>4, <1>5 DEF Packets!Init, Packets!NoAlerts

\* The environment moves nothing of a packet being handled.
LEMMA MatchesKept ==
    ASSUME Matches, Busy,
           UNCHANGED <<synKeys, syn, scan, flow, synAlerts, scanAlerts, pc, pkt, idx, settled>>
    PROVE  Matches'
<1>1. /\ Source' = Source /\ Handled' = Handled /\ Port' = Port /\ Contents(scan)' = Contents(scan)
      /\ Contents(flow)' = Contents(flow) /\ Current'.syn = Current.syn
  BY DEF Source, src, Handled, Port, Contents, Current
<1>2. /\ Packets!check_syn_flood(Source)' = Packets!check_syn_flood(Source)
      /\ (Packets!Flooding(Source)' <=> Packets!Flooding(Source))
      /\ Packets!check_port_scan(Source, Port)' = Packets!check_port_scan(Source, Port)
      /\ (Packets!Scanning(Source, Port)' <=> Packets!Scanning(Source, Port))
      /\ (Packets!IsSyn(Handled)' <=> Packets!IsSyn(Handled))
      /\ (Packets!IsPureSyn(Handled)' <=> Packets!IsPureSyn(Handled))
      /\ (Packets!Holds(settled.scan, Source)' <=> Packets!Holds(settled.scan, Source))
      /\ Packets!Put(settled.scan, Source, {})' = Packets!Put(settled.scan, Source, {})
  BY <1>1 DEF Packets!check_syn_flood, Packets!Flooding, Packets!check_port_scan, Packets!Scanning,
       Packets!Ports, Packets!Holds, Packets!Room, Packets!Put, Packets!IsSyn, Packets!IsPureSyn
<1>3. /\ ScanWith(Remembered)' = ScanWith(Remembered) /\ ScanWith(Probed)' = ScanWith(Probed)
      /\ ScanWith(Probed \ LowWords(idx[Here]))' = ScanWith(Probed \ LowWords(idx[Here]))
      /\ Probed' = Probed
  BY <1>1 DEF ScanWith, Remembered, Probed, Packets!Ports, LowWords
<1>4. SettledType /\ SynMatches /\ BitmapMatches /\ AlertMatches /\ FlowMatches
  BY DEF Matches
<1>5. SettledType' /\ FlowMatches'
  BY <1>1, <1>4 DEF SettledType, FlowMatches
<1>6. SynMatches'
  BY <1>1, <1>2, <1>4 DEF SynMatches
<1>7. AlertMatches'
  BY <1>1, <1>2, <1>4 DEF AlertMatches
<1>8. (Cardinality(Probed) > ScanThreshold)' <=> Cardinality(Probed) > ScanThreshold
  BY <1>3, Zenon
<1>9. BitmapMatches'
  BY <1>1, <1>2, <1>3, <1>4, <1>8 DEF BitmapMatches
<1> QED
  BY <1>1, <1>2, <1>5, <1>6, <1>7, <1>9 DEF Matches, Busy

LEMMA EnvironmentMatches ==
    ASSUME TypeOK, TypeOK', Matches, settled' = IF Idle' THEN Current' ELSE settled,
           Consume \/ \E ip \in IP, v \in {NoElem, 0, 1} : SetBlacklist(ip, v)
    PROVE  Matches' /\ [Packets!Next]_(Packets!vars)
<1>1. /\ UNCHANGED <<synKeys, syn, scan, flow, synAlerts, scanAlerts, pc, pkt, idx>>
      /\ Idle' <=> pc[Here] = "idle"
  BY HereIs DEF Consume, SetBlacklist, maps, local, synHist, scanHist, Idle
<1>2. CASE pc[Here] # "idle"
  <2>1. settled' = settled
    BY <1>1, <1>2
  <2>5. Matches'
    BY <1>1, <1>2, <2>1, MatchesKept DEF Busy
  <2>6. UNCHANGED Packets!vars
    BY <2>1 DEF Packets!vars
  <2> QED
    BY <2>5, <2>6
<1>3. CASE pc[Here] = "idle"
  <2>1. settled' = Current' /\ settled = Current /\ pc'[Here] = "idle"
    BY <1>1, <1>3 DEF Matches, Busy
  <2>2. /\ settled'.flow = settled.flow /\ settled'.scan = settled.scan /\ settled'.syn = settled.syn
        /\ settled'.raised = settled.raised
        /\ settled'.blacklist = blacklist' /\ settled.blacklist = blacklist
    BY <1>1, <2>1 DEF Current, Contents
  <2>3. CASE Consume
    BY <2>1, <2>2, <2>3, MatchesWhenSettled DEF Consume, Packets!vars
  <2>4. ASSUME NEW ip \in IP, NEW v \in {NoElem, 0, 1}, SetBlacklist(ip, v)
        PROVE  Packets!Next
    BY <2>2, <2>4 DEF SetBlacklist, Packets!Next, Packets!SetBlacklist
  <2> QED
    BY <2>1, <2>3, <2>4, MatchesWhenSettled
<1> QED
  BY <1>2, <1>3

\* Every step of the program is one of the atomic handler or leaves its maps alone.
LEMMA SerialStep ==
    TypeOK /\ TypeOK' /\ ScanInv /\ CountInv /\ Matches /\ [SerialNext]_<<vars, settled>>
        => Matches' /\ [Packets!Next]_(Packets!vars)
<1> SUFFICES ASSUME TypeOK, TypeOK', ScanInv, CountInv, Matches, [SerialNext]_<<vars, settled>>
             PROVE  Matches' /\ [Packets!Next]_(Packets!vars)
  OBVIOUS
<1>1. ASSUME settled' = settled PROVE UNCHANGED Packets!vars
  BY <1>1 DEF Packets!vars
<1>2. CASE UNCHANGED <<vars, settled>>
  <2>1. UNCHANGED <<pc, pkt, idx, scan, flow, blacklist, synKeys, syn, synAlerts, scanAlerts, settled>>
    BY <1>2 DEF vars, maps, local, synHist, scanHist
  <2>2. ASSUME Busy PROVE Matches'
    BY <2>1, <2>2, MatchesKept
  <2>3. ASSUME ~Busy PROVE Matches'
    <3>1. Current' = Current
      BY <2>1 DEF Current, Contents
    <3> QED
      BY <2>1, <2>3, <3>1 DEF Matches, Busy, SettledType
  <2> QED
    BY <1>1, <2>1, <2>2, <2>3
<1>3. CASE SerialNext
  <2>1. settled' = IF Idle' THEN Current' ELSE settled
    BY <1>3 DEF SerialNext
  <2>2. ASSUME NEW p \in Packet, Enter(Here, p) PROVE Matches' /\ [Packets!Next]_(Packets!vars)
    BY <1>1, <2>1, <2>2, EnterMatches
  <2>3. CASE FlowCreate(Here) \/ FlowStoreBytes(Here)
    <3>1. pc[Here] \in FlowLabels /\ pc' = [pc EXCEPT ![Here] = "idle"]
      BY <2>3 DEF FlowCreate, FlowStoreBytes, FlowStore, Goto, FlowLabels, BytesDue, PktsDue
    <3>2. pc'[Here] = "idle" /\ Idle' /\ Handled \in Packet
      BY <3>1, HereIs, FlowFacts DEF Idle, TypeOK, LocalTypes, FlowSteps
    <3>3. settled' = Current'
      BY <2>1, <3>2
    <3>4. Packets!Handle(Handled)
      BY <2>3, <3>3, FlowCreateHandles, FlowStoreHandles
    <3> QED
      BY <3>2, <3>3, <3>4, MatchesWhenSettled DEF Packets!Next
  <2>4. CASE CpuStep(Here) /\ ~FlowCreate(Here) /\ ~FlowStoreBytes(Here)
    <3>1. settled' = settled
      BY <2>1, <2>4, StillBusy
    <3>2. Matches'
      BY <2>4, <3>1, SynStepMatches, ScanLookupMatches, ScanCreateMatches, ScanOrMatches, ScanCountMatches,
         ScanAlertMatches, ScanClearMatches, FlowWalkMatches DEF CpuStep
    <3> QED
      BY <1>1, <3>1, <3>2
  <2>5. CASE Consume \/ \E ip \in IP, v \in {NoElem, 0, 1} : SetBlacklist(ip, v)
    BY <2>1, <2>5, EnvironmentMatches
  <2>6. ASSUME NEW c \in CPU, CpuStep(c) PROVE CpuStep(Here)
    BY <2>6, HereIs
  <2> QED
    BY <1>3, <2>2, <2>3, <2>4, <2>5, <2>6, HereIs, NothingCleaned DEF SerialNext, Next
<1> QED
  BY <1>2, <1>3

\* On one CPU the program is a refinement of the atomic handler: its pointers, loop
\* bounds, early exits and separate loads and stores make no difference, whatever the
\* number of sources, the size of the maps, of the bitmap and of the ring.
THEOREM HandlesPacketsAtomically == SerialSpec => PacketsAreAtomic
<1>1. SerialSpec => [](TypeOK /\ ScanInv) /\ [](TypeOK /\ CountInv)
  BY ScanInvariant, CountInvariant
<1> QED
  BY <1>1, MatchesInit, SerialStep, PTL DEF SerialSpec, PacketsAreAtomic, Packets!Spec
=============================================================================
