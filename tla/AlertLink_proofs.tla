-------------------------- MODULE AlertLink_proofs --------------------------
(***************************************************************************)
(* Theorems about AlertLink, for any number of backends, connections and   *)
(* slots, and socket buffers of any length: its types, that no alert of a  *)
(* connected backend goes missing unaccounted for, and that the link       *)
(* implements AlertDelivery.                                               *)
(***************************************************************************)
EXTENDS AlertLink, SequenceTheorems, TLAPS

-----------------------------------------------------------------------------
(***************************************************************************)
(* Sequences of lines whose alerts ascend.  As Flow is 0, only the later   *)
(* of two lines has to be an alert.                                        *)
(***************************************************************************)
Ascends(s) == \A i, j \in 1..Len(s) : i < j /\ s[j] # Flow => s[i] < s[j]
Below(s, n) == \A i \in 1..Len(s) : s[i] < n
UpTo(s, n) == \A i \in 1..Len(s) : s[i] <= n
Above(s, n) == \A i \in 1..Len(s) : s[i] # Flow => n < s[i]
Before(s, t) == \A i \in 1..Len(s), j \in 1..Len(t) : t[j] # Flow => s[i] < t[j]

\* A line that is sent behind a sequence.
LEMMA AppendLine ==
    ASSUME NEW s \in Seq(Nat), NEW x \in Nat
    PROVE  /\ Append(s, x) \in Seq(Nat)
           /\ Elems(Append(s, x)) = Elems(s) \cup {x}
           /\ Ascends(s) /\ (x = Flow \/ Below(s, x)) => Ascends(Append(s, x))
           /\ \A n \in Nat : UpTo(s, n) /\ x <= n => UpTo(Append(s, x), n)
           /\ \A n \in Nat : Above(s, n) /\ (x = Flow \/ n < x) => Above(Append(s, x), n)
           /\ \A t \in Seq(Nat) : Before(t, s) /\ (x = Flow \/ Below(t, x)) => Before(t, Append(s, x))
<1>1. /\ Append(s, x) \in Seq(Nat) /\ Len(Append(s, x)) = Len(s) + 1 /\ Len(s) \in Nat
      /\ \A i \in 1..Len(s) : Append(s, x)[i] = s[i] /\ s[i] \in Nat
      /\ Append(s, x)[Len(s) + 1] = x
  OBVIOUS
<1> DEFINE a == Append(s, x)
<1>2. \A i \in 1..Len(a) : i \in 1..Len(s) \/ i = Len(s) + 1
  BY <1>1
<1> HIDE DEF a
<1>3. Elems(a) = Elems(s) \cup {x}
  <2>1. DOMAIN a = 1..Len(a) /\ DOMAIN s = 1..Len(s)
    BY <1>1 DEF a
  <2>2. 1..Len(a) = 1..Len(s) \cup {Len(s) + 1}
    BY <1>1 DEF a
  <2> QED
    BY <1>1, <2>1, <2>2 DEF Elems, a
<1>4. Ascends(s) /\ (x = Flow \/ Below(s, x)) => Ascends(a)
  BY <1>1, <1>2 DEF Ascends, Below, Flow, a
<1>5. \A n \in Nat : UpTo(s, n) /\ x <= n => UpTo(a, n)
  BY <1>1, <1>2 DEF UpTo, a
<1>6. \A n \in Nat : Above(s, n) /\ (x = Flow \/ n < x) => Above(a, n)
  BY <1>1, <1>2 DEF Above, a
<1>7. \A t \in Seq(Nat) : Before(t, s) /\ (x = Flow \/ Below(t, x)) => Before(t, a)
  BY <1>1, <1>2 DEF Before, Below, a
<1> QED
  BY <1>1, <1>3, <1>4, <1>5, <1>6, <1>7 DEF a

\* A sequence that is cut in two.
Cut(s, front, rest) ==
    /\ front # <<>>
    /\ Elems(s) = Elems(front) \cup Elems(rest)
    /\ Ascends(s) => Ascends(front) /\ Ascends(rest) /\ Before(front, rest)
    /\ \A m \in Nat : /\ UpTo(s, m) => UpTo(front, m) /\ UpTo(rest, m)
                      /\ Below(s, m) => Below(front, m) /\ Below(rest, m)
                      /\ Above(s, m) => Above(front, m) /\ Above(rest, m)

LEMMA TwoPieces ==
    ASSUME NEW s \in Seq(Nat), NEW n \in 1..Len(s), NEW front \in Seq(Nat), NEW rest \in Seq(Nat),
           Len(front) = n, \A i \in 1..n : front[i] = s[i],
           Len(rest) = Len(s) - n, \A i \in 1..(Len(s) - n) : rest[i] = s[i + n]
    PROVE  Cut(s, front, rest)
<1>1. Len(front) = n /\ (\A i \in 1..n : front[i] = s[i]) /\ DOMAIN front = 1..n
  OBVIOUS
<1>2. /\ Len(rest) = Len(s) - n /\ \A i \in 1..(Len(s) - n) : rest[i] = s[i + n]
      /\ DOMAIN rest = 1..(Len(s) - n)
  OBVIOUS
<1>3. Len(s) \in Nat /\ n \in 1..Len(s) /\ DOMAIN s = 1..Len(s) /\ \A i \in 1..Len(s) : s[i] \in Nat
  OBVIOUS
<1>4. front # <<>>
  BY <1>1, <1>3
<1>i. /\ \A i \in 1..Len(front) : i \in 1..Len(s) /\ front[i] = s[i] /\ i <= n
      /\ \A i \in 1..Len(rest) : i + n \in 1..Len(s) /\ rest[i] = s[i + n] /\ i + n > n
      /\ \A i, j \in 1..Len(rest) : i < j => i + n < j + n
  BY <1>1, <1>2, <1>3
<1>5. Elems(s) = Elems(front) \cup Elems(rest)
  <2>1. ASSUME NEW i \in 1..Len(s) PROVE s[i] \in Elems(front) \cup Elems(rest)
    <3>1. CASE i <= n
      <4>1. i \in 1..n
        BY <1>3, <3>1
      <4> QED
        BY <1>1, <4>1 DEF Elems
    <3>2. CASE i > n
      <4>1. i - n \in 1..(Len(s) - n) /\ (i - n) + n = i
        BY <1>3, <3>2
      <4>2. rest[i - n] = s[i]
        BY <1>2, <4>1
      <4> QED
        BY <1>2, <4>1, <4>2 DEF Elems
    <3> QED
      BY <1>3, <3>1, <3>2
  <2>2. Elems(front) \subseteq Elems(s)
    BY <1>1, <1>3, <1>i DEF Elems
  <2>3. Elems(rest) \subseteq Elems(s)
    <3>1. ASSUME NEW i \in 1..(Len(s) - n) PROVE rest[i] \in Elems(s)
      <4>1. i + n \in DOMAIN s /\ rest[i] = s[i + n]
        BY <1>2, <1>3, <1>i
      <4> QED
        BY <4>1 DEF Elems
    <3> QED
      BY <1>2, <3>1 DEF Elems
  <2>4. Elems(s) \subseteq Elems(front) \cup Elems(rest)
    BY <1>3, <2>1 DEF Elems
  <2> QED
    BY <2>2, <2>3, <2>4
<1>6. ASSUME Ascends(s) PROVE Ascends(front) /\ Ascends(rest) /\ Before(front, rest)
  <2>1. Ascends(front)
    BY <1>6, <1>i DEF Ascends
  <2>2. Ascends(rest)
    BY <1>6, <1>i DEF Ascends
  <2>3. ASSUME NEW i \in 1..Len(front), NEW j \in 1..Len(rest), rest[j] # Flow
        PROVE  front[i] < rest[j]
    <3>1. i \in 1..Len(s) /\ j + n \in 1..Len(s) /\ i < j + n
      BY <1>i, <1>3
    <3> QED
      BY <1>6, <1>i, <2>3, <3>1 DEF Ascends
  <2> QED
    BY <2>1, <2>2, <2>3 DEF Before
<1>7. ASSUME NEW m \in Nat
      PROVE  /\ UpTo(s, m) => UpTo(front, m) /\ UpTo(rest, m)
             /\ Below(s, m) => Below(front, m) /\ Below(rest, m)
             /\ Above(s, m) => Above(front, m) /\ Above(rest, m)
  BY <1>i DEF UpTo, Below, Above
<1> QED
  BY <1>4, <1>5, <1>6, <1>7 DEF Cut

\* The length of SubSeq(s, n + 1, m).
LEMMA Remaining == ASSUME NEW m \in Nat, NEW n \in 1..m PROVE m - n = IF n + 1 <= m THEN m - (n + 1) + 1 ELSE 0
OBVIOUS

\* What recv takes and what it leaves.
LEMMA CutLines ==
    ASSUME NEW s \in Seq(Nat), NEW n \in 1..Len(s)
    PROVE  \A front, rest : front = SubSeq(s, 1, n) /\ rest = SubSeq(s, n + 1, Len(s)) => Cut(s, front, rest)
<1>1. ASSUME NEW front, NEW rest, front = SubSeq(s, 1, n) /\ rest = SubSeq(s, n + 1, Len(s))
      PROVE  Cut(s, front, rest)
  <2>1. front \in Seq(Nat) /\ Len(front) = n /\ \A i \in 1..n : front[i] = s[i]
    BY <1>1
  <2>2. rest \in Seq(Nat) /\ Len(rest) = Len(s) - n /\ \A i \in 1..(Len(s) - n) : rest[i] = s[i + n]
    <3>1. Len(s) \in Nat /\ n + 1 \in Int /\ n <= Len(s) /\ \A i \in (n + 1)..Len(s) : s[i] \in Nat
      OBVIOUS
    <3>2. /\ SubSeq(s, n + 1, Len(s)) \in Seq(Nat)
          /\ Len(SubSeq(s, n + 1, Len(s))) = IF n + 1 <= Len(s) THEN Len(s) - (n + 1) + 1 ELSE 0
          /\ \A i \in 1..(Len(s) - (n + 1) + 1) : SubSeq(s, n + 1, Len(s))[i] = s[n + 1 + i - 1]
      BY <3>1, SubSeqProperties
    <3>3. /\ rest \in Seq(Nat)
          /\ Len(rest) = IF n + 1 <= Len(s) THEN Len(s) - (n + 1) + 1 ELSE 0
          /\ \A i \in 1..(Len(s) - (n + 1) + 1) : rest[i] = s[n + 1 + i - 1]
      BY <1>1, <3>2, Zenon
    <3>4. n \in Nat /\ Len(s) - (n + 1) + 1 = Len(s) - n /\ \A i \in 1..(Len(s) - n) : n + 1 + i - 1 = i + n
      BY <3>1
    <3>5. Len(rest) = Len(s) - n
      BY <3>1, <3>3, Remaining, Zenon
    <3> QED
      BY <3>3, <3>4, <3>5
  <2> QED
    BY <2>1, <2>2, TwoPieces
<1> QED
  BY <1>1

\* The line that is handled next, and those behind it.
LEMMA FirstLine ==
    ASSUME NEW s \in Seq(Nat), s # <<>>
    PROVE  /\ Head(s) \in Nat /\ Tail(s) \in Seq(Nat)
           /\ Elems(s) = {Head(s)} \cup Elems(Tail(s))
           /\ Tail(s) # <<>> <=> Len(s) # 1
           /\ Ascends(s) => Ascends(Tail(s)) /\ Above(Tail(s), Head(s))
           /\ \A n \in Nat : /\ UpTo(s, n) => Head(s) <= n /\ UpTo(Tail(s), n)
                             /\ Below(s, n) => Head(s) < n /\ Below(Tail(s), n)
                             /\ Above(s, n) => Above(Tail(s), n) /\ (Head(s) = Flow \/ n < Head(s))
           /\ \A t \in Seq(Nat) : Before(s, t) => Before(Tail(s), t) /\ Above(t, Head(s))
<1> DEFINE h == Head(s)
           t == Tail(s)
<1>1. /\ Len(s) \in Nat \ {0} /\ h = s[1] /\ h \in Nat /\ DOMAIN s = 1..Len(s)
      /\ t \in Seq(Nat) /\ Len(t) = Len(s) - 1 /\ DOMAIN t = 1..(Len(s) - 1)
      /\ \A i \in 1..(Len(s) - 1) : t[i] = s[i + 1]
      /\ \A i \in 1..Len(s) : s[i] \in Nat
  OBVIOUS
<1> HIDE DEF h, t
<1>2. t # <<>> <=> Len(s) # 1
  <2>1. t = <<>> <=> Len(t) = 0
    BY <1>1
  <2> QED
    BY <1>1, <2>1
<1>i. /\ 1 \in 1..Len(s)
      /\ \A i \in 1..Len(t) : i + 1 \in 1..Len(s) /\ t[i] = s[i + 1] /\ 1 < i + 1
      /\ \A i, j \in 1..Len(t) : i < j => i + 1 < j + 1
  BY <1>1
<1>3. Elems(s) = {h} \cup Elems(t)
  <2>1. ASSUME NEW i \in 1..Len(s), i # 1 PROVE s[i] \in Elems(t)
    <3>1. i - 1 \in 1..(Len(s) - 1) /\ (i - 1) + 1 = i
      BY <1>1, <2>1
    <3>2. t[i - 1] = s[i]
      BY <1>1, <3>1
    <3> QED
      BY <1>1, <3>1, <3>2 DEF Elems
  <2>2. Elems(t) \subseteq Elems(s) /\ h \in Elems(s)
    BY <1>1, <1>i DEF Elems
  <2>3. Elems(s) \subseteq {h} \cup Elems(t)
    BY <1>1, <2>1 DEF Elems
  <2> QED
    BY <2>2, <2>3
<1>4. ASSUME Ascends(s) PROVE Ascends(t) /\ Above(t, h)
  <2>1. Ascends(t)
    BY <1>4, <1>i DEF Ascends
  <2>2. ASSUME NEW i \in 1..Len(t), t[i] # Flow PROVE h < t[i]
    BY <1>4, <1>1, <1>i, <2>2 DEF Ascends
  <2> QED
    BY <2>1, <2>2 DEF Above
<1>5. ASSUME NEW n \in Nat
      PROVE  /\ UpTo(s, n) => h <= n /\ UpTo(t, n)
             /\ Below(s, n) => h < n /\ Below(t, n)
             /\ Above(s, n) => Above(t, n) /\ (h = Flow \/ n < h)
  BY <1>1, <1>i DEF UpTo, Below, Above
<1>6. ASSUME NEW u \in Seq(Nat), Before(s, u) PROVE Before(t, u) /\ Above(u, h)
  <2>1. Before(t, u)
    BY <1>6, <1>i DEF Before
  <2>2. Above(u, h)
    BY <1>6, <1>1, <1>i DEF Before, Above
  <2> QED
    BY <2>1, <2>2
<1> QED
  BY <1>1, <1>2, <1>3, <1>4, <1>5, <1>6 DEF h, t

LEMMA LastLine ==
    ASSUME NEW S, NEW s \in Seq(S), s # <<>>
    PROVE  Tail(s) \in Seq(S) /\ (Len(s) = 1 <=> Tail(s) = <<>>)
<1>1. Len(s) \in Nat /\ Tail(s) \in Seq(S) /\ Len(Tail(s)) = Len(s) - 1
  OBVIOUS
<1>2. PICK t \in Seq(S) : t = Tail(s)
  BY <1>1
<1>3. t = <<>> <=> Len(t) = 0
  OBVIOUS
<1> QED
  BY <1>1, <1>2, <1>3

LEMMA NoLines ==
    /\ Elems(<<>>) = {} /\ Ascends(<<>>) /\ \A n : UpTo(<<>>, n) /\ Below(<<>>, n) /\ Above(<<>>, n)
    /\ \A t : Before(<<>>, t) /\ Before(t, <<>>)
BY DEF Elems, Ascends, UpTo, Below, Above, Before

-----------------------------------------------------------------------------
(***************************************************************************)
(* The backlog: every connection in it once.                               *)
(***************************************************************************)
OneEach(s) == \A i, j \in DOMAIN s : s[i] = s[j] => i = j

LEMMA FirstWaiting ==
    ASSUME NEW S, NEW s \in Seq(S), s # <<>>, OneEach(s)
    PROVE  /\ Head(s) \in S /\ Head(s) \in Elems(s) /\ Tail(s) \in Seq(S)
           /\ Elems(Tail(s)) = Elems(s) \ {Head(s)} /\ OneEach(Tail(s))
<1> DEFINE h == Head(s)
           t == Tail(s)
<1>1. /\ Len(s) \in Nat \ {0} /\ h = s[1] /\ h \in S /\ DOMAIN s = 1..Len(s)
      /\ t \in Seq(S) /\ Len(t) = Len(s) - 1 /\ DOMAIN t = 1..(Len(s) - 1)
      /\ \A i \in 1..(Len(s) - 1) : t[i] = s[i + 1]
  OBVIOUS
<1> HIDE DEF h, t
<1>2. 1 \in DOMAIN s /\ \A i \in DOMAIN t : i \in Nat /\ i + 1 \in DOMAIN s /\ i + 1 # 1 /\ t[i] = s[i + 1]
  BY <1>1
<1>3. OneEach(t)
  BY <1>2 DEF OneEach
<1>4. Elems(t) \subseteq Elems(s) \ {h} /\ h \in Elems(s)
  BY <1>1, <1>2 DEF Elems, OneEach
<1>5. ASSUME NEW i \in DOMAIN s, i # 1 PROVE s[i] \in Elems(t)
  <2>1. i - 1 \in DOMAIN t /\ (i - 1) + 1 = i
    BY <1>1, <1>5
  <2>2. t[i - 1] = s[i]
    BY <1>2, <2>1
  <2> QED
    BY <2>1, <2>2 DEF Elems
<1>6. Elems(s) \ {h} \subseteq Elems(t)
  BY <1>1, <1>5 DEF Elems
<1> QED
  BY <1>1, <1>3, <1>4, <1>6 DEF h, t

LEMMA LastWaiting ==
    ASSUME NEW S, NEW s \in Seq(S), NEW x \in S, OneEach(s), x \notin Elems(s)
    PROVE  /\ Append(s, x) \in Seq(S) /\ Elems(Append(s, x)) = Elems(s) \cup {x}
           /\ OneEach(Append(s, x))
<1> DEFINE a == Append(s, x)
<1>1. /\ Len(s) \in Nat /\ a \in Seq(S) /\ DOMAIN s = 1..Len(s) /\ DOMAIN a = 1..(Len(s) + 1)
      /\ \A i \in 1..Len(s) : a[i] = s[i] /\ a[Len(s) + 1] = x
      /\ a[Len(s) + 1] = x
  OBVIOUS
<1> HIDE DEF a
<1>2. DOMAIN a = DOMAIN s \cup {Len(s) + 1} /\ \A i \in DOMAIN s : a[i] = s[i]
  BY <1>1
<1>3. Elems(a) = Elems(s) \cup {x}
  BY <1>1, <1>2 DEF Elems
<1>4. \A i \in DOMAIN s : s[i] # x
  BY DEF Elems
<1>5. OneEach(a)
  BY <1>1, <1>2, <1>4 DEF OneEach
<1> QED
  BY <1>1, <1>3, <1>5 DEF a

-----------------------------------------------------------------------------
(***************************************************************************)
(* Types.  A connection waits once, belongs to one backend, and holds      *)
(* nothing once its client has closed it.                                  *)
(***************************************************************************)
Distinct ==
    /\ OneEach(backlog)
    /\ \A b, c \in Backend : client[b] = client[c] /\ client[b] # None => b = c
    /\ \A k \in Conn : ~ClientOpen(k) => queue[k] = <<>>

TypeInv == TypeOK /\ queue \in [Conn -> Seq(Line)] /\ buffer \in [Backend -> Seq(Line)]
           /\ stored \in [Backend -> Seq(Alert)] /\ Distinct

\* The server's and the clients' part of TypeOK.
ServerOK ==
    /\ raised \in 0..MaxAlerts /\ taken \in 0..raised
    /\ lpc \in {"down", "accept", "poll", "send", "report"}
    /\ line \in Line /\ cursor \in 1..(MAX_CLIENTS + 1) /\ file \in BOOLEAN
    /\ backlog \in Seq(Conn) /\ client_fds \in [Slot -> Conn \cup {None}]
    /\ \A i, j \in Slot : client_fds[i] = client_fds[j] => i = j \/ client_fds[i] = None
    /\ Held \cap Waiting = {}

ClientOK ==
    /\ \A k \in Conn : queue[k] \in Seq(Line) /\ Len(queue[k]) <= SockBuf
    /\ offered \in [Backend -> SUBSET Alert] /\ skipped \in [Backend -> SUBSET Line]
    /\ bpc \in [Backend -> {"check", "connect", "recv", "handle"}]
    /\ client \in [Backend -> Conn \cup {None}]
    /\ \A b \in Backend : /\ buffer[b] \in Seq(Line) /\ stored[b] \in Seq(Alert)
                          /\ bpc[b] \in {"recv", "handle"} <=> client[b] # None
                          /\ bpc[b] = "handle" <=> buffer[b] # <<>>
    /\ faults \in 0..MaxFaults /\ stops \in 0..MaxStops

LEMMA TypeParts == (TypeOK <=> ServerOK /\ ClientOK) /\ (TypeOK' <=> ServerOK' /\ ClientOK')
BY DEF TypeOK, ServerOK, ClientOK

LEMMA ServerSame == ServerOK /\ UNCHANGED <<raised, taken, server>> => ServerOK'
<1> SUFFICES ASSUME ServerOK, UNCHANGED <<raised, taken, server>> PROVE ServerOK'
  OBVIOUS
<1>1. Held' = Held /\ Waiting' = Waiting
  BY DEF Held, Waiting, server
<1> QED
  BY <1>1 DEF ServerOK, server

LEMMA HeldSlot == \A k : k \in Held <=> k # None /\ \E i \in Slot : client_fds[i] = k
BY DEF Held

LEMMA TypeInit == Init => TypeInv
<1> SUFFICES ASSUME Init PROVE TypeInv
  OBVIOUS
<1> USE LinkAssumption DEF Init, LinkAssumption
<1>1. Held = {} /\ Waiting = {}
  BY DEF Held, Waiting
<1>2. Distinct
  BY DEF Distinct, ClientOpen, OneEach
<1>3. TypeOK
  <2>1. raised \in 0..MaxAlerts /\ taken \in 0..raised /\ faults \in 0..MaxFaults /\ stops \in 0..MaxStops
    OBVIOUS
  <2>4. cursor \in 1..(MAX_CLIENTS + 1)
    OBVIOUS
  <2>5. line \in Line /\ backlog \in Seq(Conn) /\ lpc \in {"down", "accept", "poll", "send", "report"}
    BY DEF Line
  <2>6. file \in BOOLEAN
    OBVIOUS
  <2>2. /\ client_fds \in [Slot -> Conn \cup {None}]
        /\ \A i, j \in Slot : client_fds[i] = client_fds[j] => i = j \/ client_fds[i] = None
        /\ \A k \in Conn : queue[k] \in Seq(Line) /\ Len(queue[k]) <= SockBuf
    OBVIOUS
  <2>3. /\ offered \in [Backend -> SUBSET Alert] /\ skipped \in [Backend -> SUBSET Line]
        /\ bpc \in [Backend -> {"check", "connect", "recv", "handle"}]
        /\ client \in [Backend -> Conn \cup {None}]
        /\ \A b \in Backend : /\ buffer[b] \in Seq(Line) /\ stored[b] \in Seq(Alert)
                              /\ bpc[b] \in {"recv", "handle"} <=> client[b] # None
                              /\ bpc[b] = "handle" <=> buffer[b] # <<>>
    OBVIOUS
  <2> QED
    BY <1>1, <2>1, <2>2, <2>3, <2>4, <2>5, <2>6 DEF TypeOK
<1> QED
  BY <1>2, <1>3 DEF TypeInv

\* Steps that leave the connections alone.
LEMMA TypeSame ==
    ASSUME TypeInv, raised' \in 0..MaxAlerts, taken' \in 0..raised',
           lpc' \in {"down", "accept", "poll", "send", "report"}, line' \in Line,
           cursor' \in 1..(MAX_CLIENTS + 1), file' \in BOOLEAN,
           UNCHANGED <<backlog, client_fds, queue, bpc, client, buffer, stored>>,
           offered' \in [Backend -> SUBSET Alert], skipped' \in [Backend -> SUBSET Line],
           faults' \in 0..MaxFaults, stops' \in 0..MaxStops
    PROVE  TypeInv'
<1>1. Held' = Held /\ Waiting' = Waiting
  BY DEF Held, Waiting
<1>2. Distinct'
  BY DEF TypeInv, Distinct, ClientOpen
<1>3. TypeOK'
  BY <1>1 DEF TypeInv, TypeOK
<1> QED
  BY <1>2, <1>3 DEF TypeInv

LEMMA TypeAccept == ASSUME TypeInv, Accept PROVE TypeInv'
<1>1. /\ backlog \in Seq(Conn) /\ backlog # <<>> /\ OneEach(backlog) /\ Waiting = Elems(backlog)
      /\ backlog' = Tail(backlog) /\ Waiting' = Elems(Tail(backlog))
  BY DEF TypeInv, TypeOK, Accept, Distinct, Waiting, Elems
<1>2. PICK k \in Conn : /\ k \in Waiting /\ Waiting' = Waiting \ {k}
                        /\ client_fds' = Placed(client_fds, k)
  BY <1>1, FirstWaiting DEF Accept
<1>3. backlog' \in Seq(Conn) /\ OneEach(backlog')
  BY <1>1, FirstWaiting
<1>4. k \notin Held /\ k # None
  BY <1>2, LinkAssumption DEF TypeInv, TypeOK, LinkAssumption
<1>5. client_fds \in [Slot -> Conn \cup {None}]
      /\ \A i, j \in Slot : client_fds[i] = client_fds[j] => i = j \/ client_fds[i] = None
  BY DEF TypeInv, TypeOK
<1>6. client_fds' \in [Slot -> Conn \cup {None}]
      /\ \A i \in Slot : client_fds'[i] = IF i \in FirstFree(client_fds) THEN k ELSE client_fds[i]
  BY <1>2, <1>5 DEF Placed
<1>7. Held' \subseteq Held \cup {k}
  BY <1>6 DEF Held
<1>8. \A i, j \in FirstFree(client_fds) : i = j
  <2>1. ASSUME NEW i \in FirstFree(client_fds), NEW j \in FirstFree(client_fds), i < j PROVE FALSE
    <3>1. i \in Slot /\ j \in Slot /\ i \in 1..(j - 1)
      BY <2>1, LinkAssumption DEF FirstFree, Slot, LinkAssumption
    <3> QED
      BY <3>1 DEF FirstFree
  <2>2. \A i \in FirstFree(client_fds) : i \in Nat
    BY LinkAssumption DEF FirstFree, Slot, LinkAssumption
  <2> QED
    BY <2>1, <2>2
<1>9. \A i, j \in Slot : client_fds'[i] = client_fds'[j] => i = j \/ client_fds'[i] = None
  <2>1. \A i \in Slot : client_fds[i] # k
    BY <1>4 DEF Held
  <2> QED
    BY <1>5, <1>6, <1>8, <2>1
<1>10. Held' \cap Waiting' = {}
  BY <1>2, <1>4, <1>7 DEF TypeInv, TypeOK
<1>11. TypeOK'
  BY <1>3, <1>6, <1>9, <1>10 DEF TypeInv, TypeOK, Accept, thread, hist
<1>12. Distinct'
  BY <1>3 DEF TypeInv, Distinct, Accept, thread, ClientOpen
<1> QED
  BY <1>11, <1>12 DEF TypeInv, Accept, thread

\* A new connection's name is used nowhere else.
LEMMA TypeConnect == ASSUME TypeInv, NEW b \in Backend, Connect(b) PROVE TypeInv'
<1>1. PICK k \in Unused : client' = [client EXCEPT ![b] = k] /\ backlog' = Append(backlog, k)
  BY DEF Connect, Unused
<1>2. k \in Conn /\ k # None /\ k \notin Held /\ k \notin Waiting /\ \A c \in Backend : client[c] # k
  BY <1>1, LinkAssumption DEF Unused, ServerOpen, ClientOpen, LinkAssumption
<1>3. /\ backlog \in Seq(Conn) /\ OneEach(backlog) /\ Waiting = Elems(backlog)
      /\ Waiting' = Elems(backlog')
  BY DEF TypeInv, TypeOK, Distinct, Waiting, Elems
<1>4. backlog' \in Seq(Conn) /\ OneEach(backlog') /\ Waiting' = Waiting \cup {k}
  BY <1>1, <1>2, <1>3, LastWaiting
<1>5. Held' = Held
  BY DEF Held, Connect
<1>6. client[b] = None /\ buffer[b] = <<>> /\ client \in [Backend -> Conn \cup {None}]
      /\ bpc[b] = "connect" /\ bpc' = [bpc EXCEPT ![b] = "recv"]
      /\ bpc \in [Backend -> {"check", "connect", "recv", "handle"}]
  BY DEF TypeInv, TypeOK, Connect
<1>7. /\ client' \in [Backend -> Conn \cup {None}]
      /\ bpc' \in [Backend -> {"check", "connect", "recv", "handle"}]
      /\ \A c \in Backend : c # b => client'[c] = client[c] /\ bpc'[c] = bpc[c]
      /\ client'[b] = k /\ bpc'[b] = "recv"
  BY <1>1, <1>2, <1>6
<1>8. \A c \in Backend : /\ bpc'[c] \in {"recv", "handle"} <=> client'[c] # None
                         /\ bpc'[c] = "handle" <=> buffer[c] # <<>>
  BY <1>2, <1>6, <1>7 DEF TypeInv, TypeOK
<1>9. TypeOK'
  BY <1>2, <1>4, <1>5, <1>7, <1>8 DEF TypeInv, TypeOK, Connect, hist
<1>10. \A c, d \in Backend : client'[c] = client'[d] /\ client'[c] # None => c = d
  BY <1>2, <1>7 DEF TypeInv, Distinct
<1>11. \A u \in Conn : ClientOpen(u) => ClientOpen(u)'
  BY <1>6, <1>7, LinkAssumption DEF ClientOpen, LinkAssumption
<1>12. Distinct'
  BY <1>4, <1>10, <1>11 DEF TypeInv, Distinct, Connect
<1> QED
  BY <1>9, <1>12 DEF TypeInv, Connect

LEMMA LineNat == Line \subseteq Nat /\ Alert \subseteq Nat \ {0}
BY LinkAssumption DEF Line, Alert, Flow, LinkAssumption

LEMMA TypeSend == ASSUME TypeInv, Send PROVE TypeInv'
<1>1. /\ cursor \in Slot /\ cursor' = cursor + 1 /\ cursor' \in 1..(MAX_CLIENTS + 1) /\ line \in Line
      /\ client_fds \in [Slot -> Conn \cup {None}]
      /\ \A i, j \in Slot : client_fds[i] = client_fds[j] => i = j \/ client_fds[i] = None
      /\ queue \in [Conn -> Seq(Line)] /\ \A k \in Conn : Len(queue[k]) <= SockBuf
  BY LinkAssumption DEF TypeInv, TypeOK, Send, Slot, AfterFailure, LinkAssumption
<1>2. client_fds' \in [Slot -> Conn \cup {None}] /\ \A i \in Slot : client_fds'[i] \in {client_fds[i], None}
  <2>1. client_fds' = client_fds \/ client_fds' = Closed(client_fds, cursor)
    BY DEF Send
  <2> QED
    BY <1>1, <2>1 DEF Closed
<1>3. \A i, j \in Slot : client_fds'[i] = client_fds'[j] => i = j \/ client_fds'[i] = None
  BY <1>1, <1>2
<1>4. Held' \subseteq Held /\ Waiting' = Waiting
  BY <1>2 DEF Held, Waiting, Send
<1>5. /\ queue' \in [Conn -> Seq(Line)] /\ \A k \in Conn : Len(queue'[k]) <= SockBuf
      /\ \A k \in Conn : ~ClientOpen(k) => queue'[k] = queue[k]
  <2>1. CASE queue' = queue
    BY <1>1, <2>1
  <2>2. CASE \E k \in Conn : /\ ClientOpen(k) /\ Len(queue[k]) < SockBuf
                             /\ queue' = [queue EXCEPT ![k] = Append(@, line)]
    <3>1. PICK k \in Conn : /\ ClientOpen(k) /\ Len(queue[k]) < SockBuf
                            /\ queue' = [queue EXCEPT ![k] = Append(@, line)]
      BY <2>2
    <3>2. queue[k] \in Seq(Line) /\ Append(queue[k], line) \in Seq(Line)
          /\ Len(Append(queue[k], line)) = Len(queue[k]) + 1 /\ Len(queue[k]) \in Nat
      BY <1>1
    <3>3. Len(queue[k]) + 1 <= SockBuf
      BY <3>1, <3>2, LinkAssumption DEF LinkAssumption
    <3>4. queue' \in [Conn -> Seq(Line)] /\ \A u \in Conn : u # k => queue'[u] = queue[u]
      BY <1>1, <3>1, <3>2
    <3>5. queue'[k] = Append(queue[k], line)
      BY <1>1, <3>1
    <3> QED
      BY <1>1, <3>1, <3>2, <3>3, <3>4, <3>5
  <2>3. client_fds[cursor] \in Conn \cup {None}
    BY <1>1
  <2> QED
    BY <2>1, <2>2, <2>3 DEF Send
<1>6. skipped' \in [Backend -> SUBSET Line]
  <2>1. skipped \in [Backend -> SUBSET Line] /\ \A b \in Backend : skipped[b] \cup {line} \in SUBSET Line
    BY <1>1 DEF TypeInv, TypeOK
  <2>2. \/ skipped' = skipped
        \/ \E k : skipped' = [b \in Backend |-> IF client[b] = k THEN skipped[b] \cup {line} ELSE skipped[b]]
    BY DEF Send
  <2> QED
    BY <2>1, <2>2
<1>7. TypeOK'
  BY <1>1, <1>2, <1>3, <1>4, <1>5, <1>6 DEF TypeInv, TypeOK, Send, thread
<1>8. Distinct'
  BY <1>5 DEF TypeInv, Distinct, Send, thread, ClientOpen
<1> QED
  BY <1>5, <1>7, <1>8 DEF TypeInv, Send, thread

LEMMA TypeDown == ASSUME TypeInv, NEW removed \in BOOLEAN, Down(removed) PROVE TypeInv'
<1>1. /\ client_fds' = [i \in Slot |-> None] /\ backlog' = <<>> /\ cursor' = 1 /\ line' = Flow
      /\ lpc' = "down" /\ file' = (file /\ ~removed) /\ stops < MaxStops /\ stops' = stops + 1
  BY DEF Down
<1>2. client_fds' \in [Slot -> Conn \cup {None}] /\ \A i \in Slot : client_fds'[i] = None
  BY <1>1
<1>3. Held' = {} /\ Waiting' = {}
  BY <1>1 DEF Held, Waiting
<1>4. cursor' \in 1..(MAX_CLIENTS + 1) /\ stops' \in 0..MaxStops
  BY <1>1, LinkAssumption DEF LinkAssumption, TypeInv, TypeOK
<1>5. file' \in BOOLEAN /\ line' \in Line /\ backlog' \in Seq(Conn) /\ OneEach(backlog')
  BY <1>1 DEF TypeInv, TypeOK, Line, OneEach
<1>6. TypeOK'
  BY <1>1, <1>2, <1>3, <1>4, <1>5 DEF TypeInv, TypeOK, Down, thread, hist
<1>7. Distinct'
  BY <1>5 DEF TypeInv, Distinct, Down, thread, ClientOpen
<1> QED
  BY <1>6, <1>7 DEF TypeInv, Down, thread

\* A backend that starts over leaves its connection, emptied, to the server.
LEMMA TypeStartOver ==
    ASSUME TypeInv, NEW b \in Backend, StartOver(b), UNCHANGED <<raised, taken, server, stops>>,
           faults' \in 0..MaxFaults, stored' \in [Backend -> Seq(Alert)]
    PROVE  TypeInv'
<1>1. Held' = Held /\ Waiting' = Waiting
  BY DEF Held, Waiting, server
<1>2. /\ client' \in [Backend -> Conn \cup {None}] /\ client'[b] = None
      /\ buffer' \in [Backend -> Seq(Line)] /\ buffer'[b] = <<>>
      /\ bpc' \in [Backend -> {"check", "connect", "recv", "handle"}] /\ bpc'[b] = "check"
      /\ \A c \in Backend : c # b => client'[c] = client[c] /\ buffer'[c] = buffer[c] /\ bpc'[c] = bpc[c]
      /\ offered' \in [Backend -> SUBSET Alert] /\ skipped' \in [Backend -> SUBSET Line]
  BY DEF TypeInv, TypeOK, StartOver
<1>3. /\ queue' \in [Conn -> Seq(Line)]
      /\ \A k \in Conn : queue'[k] = IF k = client[b] THEN <<>> ELSE queue[k]
  BY DEF TypeInv, StartOver
<1>4. \A k \in Conn : Len(queue'[k]) <= SockBuf
  BY <1>3, LinkAssumption DEF TypeInv, TypeOK, LinkAssumption
<1>5. TypeOK'
  <2>1. \A c \in Backend : /\ buffer'[c] \in Seq(Line) /\ stored'[c] \in Seq(Alert)
                           /\ bpc'[c] \in {"recv", "handle"} <=> client'[c] # None
                           /\ bpc'[c] = "handle" <=> buffer'[c] # <<>>
    BY <1>2 DEF TypeInv, TypeOK
  <2>2. \A k \in Conn : queue'[k] \in Seq(Line) /\ Len(queue'[k]) <= SockBuf
    BY <1>3, <1>4
  <2> QED
    BY <1>1, <1>2, <2>1, <2>2 DEF TypeInv, TypeOK, server
<1>6. \A k \in Conn : ~ClientOpen(k)' => k = client[b] \/ ~ClientOpen(k)
  BY <1>2 DEF ClientOpen
<1>7. \A c, d \in Backend : client'[c] = client'[d] /\ client'[c] # None => c = d
  BY <1>2 DEF TypeInv, Distinct
<1>8. OneEach(backlog)'
  BY DEF TypeInv, Distinct, server
<1>9. Distinct'
  BY <1>3, <1>6, <1>7, <1>8 DEF TypeInv, Distinct
<1> QED
  BY <1>2, <1>3, <1>5, <1>9 DEF TypeInv

\* recv takes lines off the front of the socket.
LEMMA TypeRecv == ASSUME TypeInv, NEW b \in Backend, Recv(b) PROVE TypeInv'
<1> DEFINE k == client[b]
<1>1. CASE queue[k] = <<>> /\ ~ServerOpen(k) /\ StartOver(b)
  BY <1>1, TypeStartOver DEF TypeInv, TypeOK, Recv, BackendAt
<1>2. ASSUME NEW n \in 1..Len(queue[k]),
             buffer' = [buffer EXCEPT ![b] = SubSeq(queue[k], 1, n)],
             queue' = [queue EXCEPT ![k] = SubSeq(@, n + 1, Len(@))],
             bpc' = [bpc EXCEPT ![b] = "handle"], UNCHANGED <<client, hist>>
      PROVE  TypeInv'
  <2>1. k \in Conn /\ queue[k] \in Seq(Line) /\ queue \in [Conn -> Seq(Line)]
    BY DEF TypeInv, TypeOK, Recv, BackendAt
  <2>2. PICK s \in Seq(Line) : s = queue[k]
    BY <2>1
  <2>3. PICK front, rest : front = SubSeq(s, 1, n) /\ rest = SubSeq(s, n + 1, Len(s))
    OBVIOUS
  <2>4. /\ front \in Seq(Line) /\ rest \in Seq(Line) /\ front # <<>> /\ Len(rest) <= Len(s)
        /\ n \in 1..Len(s)
    <3>1. n \in 1..Len(s) /\ front \in Seq(Line) /\ rest \in Seq(Line)
      BY <1>2, <2>2, <2>3
    <3>2. Len(front) = n /\ Len(rest) = Len(s) - n
      BY <1>2, <2>2, <2>3
    <3> QED
      BY <3>1, <3>2
  <2>5. /\ buffer' = [buffer EXCEPT ![b] = front] /\ queue' = [queue EXCEPT ![k] = rest]
        /\ bpc' = [bpc EXCEPT ![b] = "handle"]
    BY <1>2, <2>2, <2>3
  <2>6. /\ buffer' \in [Backend -> Seq(Line)] /\ queue' \in [Conn -> Seq(Line)]
        /\ bpc' \in [Backend -> {"check", "connect", "recv", "handle"}]
        /\ buffer'[b] # <<>> /\ bpc'[b] = "handle"
        /\ \A c \in Backend : c # b => buffer'[c] = buffer[c] /\ bpc'[c] = bpc[c]
        /\ \A u \in Conn : u # k => queue'[u] = queue[u]
        /\ queue'[k] = rest
    <3>1. buffer \in [Backend -> Seq(Line)] /\ bpc \in [Backend -> {"check", "connect", "recv", "handle"}]
      BY DEF TypeInv, TypeOK
    <3> HIDE DEF k
    <3> QED
      BY <2>1, <2>4, <2>5, <3>1
  <2>7. \A u \in Conn : queue'[u] \in Seq(Line) /\ Len(queue'[u]) <= SockBuf
    <3>1. Len(queue[k]) <= SockBuf /\ Len(s) \in Nat /\ Len(rest) \in Nat
      BY <2>1, <2>2, <2>4 DEF TypeInv, TypeOK
    <3> HIDE DEF k
    <3>2. Len(rest) <= SockBuf
      BY <2>2, <2>4, <3>1, LinkAssumption DEF LinkAssumption
    <3> QED
      BY <2>6, <3>2 DEF TypeInv, TypeOK
  <2>8. \A c \in Backend : /\ buffer'[c] \in Seq(Line)
                           /\ bpc'[c] \in {"recv", "handle"} <=> client[c] # None
                           /\ bpc'[c] = "handle" <=> buffer'[c] # <<>>
    BY <2>1, <2>6, LinkAssumption DEF TypeInv, TypeOK, LinkAssumption
  <2>9. ServerOK'
    BY TypeParts, ServerSame DEF TypeInv, Recv, BackendAt
  <2>10. ClientOK'
    BY <1>2, <2>6, <2>7, <2>8 DEF TypeInv, TypeOK, ClientOK, Recv, BackendAt, hist
  <2>11. Distinct'
    <3>1. ClientOpen(k)
      BY DEF ClientOpen
    <3>2. \A u : ClientOpen(u)' <=> ClientOpen(u)
      BY <1>2 DEF ClientOpen
    <3> QED
      BY <1>2, <2>6, <3>1, <3>2 DEF TypeInv, Distinct, Recv, BackendAt, server
  <2> QED
    BY <2>6, <2>9, <2>10, <2>11, TypeParts DEF TypeInv, Recv
<1> QED
  BY <1>1, <1>2 DEF Recv

LEMMA SavedTyped ==
    ASSUME TypeInv, NEW b \in Backend, bpc[b] = "handle"
    PROVE  /\ buffer[b] \in Seq(Line) /\ buffer[b] # <<>> /\ Head(buffer[b]) \in Line
           /\ Saved(b) \in [Backend -> Seq(Alert)]
           /\ \A c \in Backend : c # b => Saved(b)[c] = stored[c]
           /\ Saved(b)[b] = IF Head(buffer[b]) = Flow THEN stored[b]
                            ELSE Append(stored[b], Head(buffer[b]))
<1>1. buffer[b] \in Seq(Line) /\ buffer[b] # <<>>
  BY DEF TypeInv, TypeOK
<1>2. Head(buffer[b]) \in Line /\ stored \in [Backend -> Seq(Alert)]
  BY <1>1 DEF TypeInv
<1>3. PICK x \in Line : x = Head(buffer[b])
  BY <1>2
<1>4. x # Flow => Append(stored[b], x) \in Seq(Alert)
  BY <1>2 DEF Line
<1>5. Saved(b) = IF x = Flow THEN stored ELSE [stored EXCEPT ![b] = Append(@, x)]
  BY <1>3 DEF Saved
<1>6. /\ Saved(b) \in [Backend -> Seq(Alert)]
      /\ \A c \in Backend : c # b => Saved(b)[c] = stored[c]
      /\ Saved(b)[b] = IF x = Flow THEN stored[b] ELSE Append(stored[b], x)
  BY <1>2, <1>4, <1>5
<1> QED
  BY <1>1, <1>3, <1>6

LEMMA TypeHandle == ASSUME TypeInv, NEW b \in Backend, Handle(b) PROVE TypeInv'
<1>1. PICK s \in Seq(Line) : s = buffer[b] /\ s # <<>>
  BY SavedTyped DEF Handle, BackendAt
<1>2. Tail(s) \in Seq(Line) /\ (Len(s) = 1 <=> Tail(s) = <<>>)
  BY <1>1, LastLine
<1>3. /\ buffer' = [buffer EXCEPT ![b] = Tail(s)] /\ buffer \in [Backend -> Seq(Line)]
      /\ bpc' = [bpc EXCEPT ![b] = IF Len(s) = 1 THEN "recv" ELSE "handle"] /\ bpc[b] = "handle"
      /\ bpc \in [Backend -> {"check", "connect", "recv", "handle"}]
  BY <1>1 DEF Handle, BackendAt, TypeInv, TypeOK
<1>4. /\ buffer' \in [Backend -> Seq(Line)] /\ buffer'[b] = Tail(s)
      /\ bpc' \in [Backend -> {"check", "connect", "recv", "handle"}]
      /\ bpc'[b] = IF Tail(s) = <<>> THEN "recv" ELSE "handle"
      /\ \A c \in Backend : c # b => buffer'[c] = buffer[c] /\ bpc'[c] = bpc[c]
  BY <1>2, <1>3
<1>5. stored' \in [Backend -> Seq(Alert)]
  BY SavedTyped DEF Handle, BackendAt
<1>6. ServerOK'
  BY TypeParts, ServerSame DEF TypeInv, Handle, BackendAt
<1>7. \A c \in Backend : /\ buffer'[c] \in Seq(Line) /\ stored'[c] \in Seq(Alert)
                         /\ bpc'[c] \in {"recv", "handle"} <=> client[c] # None
                         /\ bpc'[c] = "handle" <=> buffer'[c] # <<>>
  BY <1>3, <1>4, <1>5 DEF TypeInv, TypeOK
<1>8. ClientOK'
  BY <1>4, <1>5, <1>7 DEF TypeInv, TypeOK, ClientOK, Handle, BackendAt, hist
<1>9. Distinct'
  BY DEF TypeInv, Distinct, ClientOpen, Handle, BackendAt, server
<1> QED
  BY <1>4, <1>5, <1>6, <1>8, <1>9, TypeParts DEF TypeInv, Handle

\* An exception in the handler, before or after the commit.
LEMMA TypeFails ==
    ASSUME TypeInv, NEW b \in Backend, HandleFails(b) \/ Crash(b)
    PROVE  TypeInv'
<1>1. StartOver(b) /\ UNCHANGED <<raised, taken, server, stops>> /\ faults' \in 0..MaxFaults
  BY LinkAssumption DEF HandleFails, Crash, BackendAt, TypeInv, TypeOK, LinkAssumption
<1>2. stored' \in [Backend -> Seq(Alert)]
  BY SavedTyped DEF HandleFails, Crash, BackendAt, TypeInv
<1> QED
  BY <1>1, <1>2, TypeStartOver

LEMMA TypeNext == TypeInv /\ [Next]_vars => TypeInv'
<1> SUFFICES ASSUME TypeInv, [Next]_vars PROVE TypeInv'
  OBVIOUS
<1>0. /\ ServerOK /\ ClientOK /\ raised \in Nat /\ taken \in Nat /\ raised <= MaxAlerts
      /\ taken <= raised /\ Flow \in Line
  BY TypeParts, LinkAssumption DEF TypeInv, ServerOK, LinkAssumption, Line
<1>1. CASE StartLoader
  BY <1>0, <1>1, TypeSame DEF StartLoader, thread, hist, ServerOK, ClientOK
<1>6. CASE AcceptDone \/ NoReport \/ UNCHANGED vars
  BY <1>0, <1>6, TypeSame DEF AcceptDone, NoReport, vars, server, thread, hist, ServerOK, ClientOK
<1>2. CASE Raise
  BY <1>0, <1>2, TypeSame, LinkAssumption
     DEF Raise, server, thread, hist, ServerOK, ClientOK, LinkAssumption
<1>7. CASE AcceptFails
  <2>1. faults' \in 0..MaxFaults
    BY <1>0, <1>7, LinkAssumption DEF AcceptFails, ClientOK, LinkAssumption
  <2> QED
    BY <1>0, <1>7, <2>1, TypeSame DEF AcceptFails, thread, hist, ServerOK, ClientOK
<1>3. CASE Report \/ Sent
  BY <1>0, <1>3, TypeSame, LinkAssumption
     DEF Report, Sent, Broadcast, thread, hist, ServerOK, ClientOK, LinkAssumption
<1>4. CASE PollRing
  <2>1. CASE taken < raised
    <3>1. taken + 1 \in Alert /\ taken + 1 \in Line /\ taken' = taken + 1 /\ line' = taken + 1
      BY <1>0, <1>4, <2>1, LinkAssumption DEF Alert, Line, PollRing, Broadcast, LinkAssumption
    <3>2. offered' \in [Backend -> SUBSET Alert]
      <4>1. offered \in [Backend -> SUBSET Alert]
        BY <1>0 DEF ClientOK
      <4>2. offered' = [b \in Backend |-> IF client[b] \in Held
                                         THEN offered[b] \cup {taken + 1} ELSE offered[b]]
        BY <1>4, <2>1 DEF PollRing
      <4> QED
        BY <3>1, <4>1, <4>2
    <3> QED
      BY <1>0, <1>4, <2>1, <3>1, <3>2, TypeSame, LinkAssumption
         DEF PollRing, Broadcast, thread, ServerOK, ClientOK, LinkAssumption
  <2>2. CASE ~(taken < raised)
    BY <1>0, <1>4, <2>2, TypeSame DEF PollRing, thread, ServerOK, ClientOK
  <2> QED
    BY <2>1, <2>2
<1>5. ASSUME NEW b \in Backend, Exists(b) \/ Refused(b)
      PROVE  TypeInv'
  <2>1. /\ bpc' \in [Backend -> {"check", "connect", "recv", "handle"}]
        /\ \A c \in Backend : bpc'[c] \in {"recv", "handle"} <=> bpc[c] \in {"recv", "handle"}
        /\ \A c \in Backend : bpc'[c] = "handle" <=> bpc[c] = "handle"
    BY <1>0, <1>5 DEF ClientOK, Exists, Refused, BackendAt
  <2>2. ClientOK'
    BY <1>0, <1>5, <2>1 DEF ClientOK, Exists, Refused, BackendAt, hist
  <2>3. ServerOK'
    BY <1>0, <1>5, ServerSame DEF Exists, Refused, BackendAt
  <2>4. Distinct'
    BY <1>5 DEF TypeInv, Distinct, ClientOpen, Exists, Refused, BackendAt, server
  <2> QED
    BY <1>5, <2>2, <2>3, <2>4, TypeParts DEF TypeInv, Exists, Refused
<1> QED
  BY <1>1, <1>2, <1>3, <1>4, <1>5, <1>6, <1>7, TypeAccept, TypeConnect, TypeSend, TypeDown, TypeRecv,
     TypeHandle, TypeFails DEF Next, LoaderStep, BackendStep

\* Connections are in one place of the server and belong to one backend, and all
\* variables keep their types.
THEOREM TypeCorrect == Spec => []TypeOK
<1>1. TypeInv => TypeOK
  BY DEF TypeInv
<1> QED
  BY <1>1, TypeInit, TypeNext, PTL DEF Spec

-----------------------------------------------------------------------------
(***************************************************************************)
(* The order of what is under way.  From its last row over its buffer and  *)
(* its socket to the alert that is being broadcast, the alerts a backend   *)
(* is about to store ascend.                                               *)
(***************************************************************************)
Last(s) == IF s = <<>> THEN 0 ELSE s[Len(s)]

InStore ==
    \A b \in Backend : /\ Last(stored[b]) <= taken
                       /\ UpTo(buffer[b], taken) /\ Ascends(buffer[b]) /\ Above(buffer[b], Last(stored[b]))

InSocket ==
    /\ \A k \in Conn : UpTo(queue[k], taken) /\ Ascends(queue[k])
    /\ \A b \in Backend : client[b] # None =>
           Above(queue[client[b]], Last(stored[b])) /\ Before(buffer[b], queue[client[b]])

OnItsWay ==
    lpc = "send" /\ line # Flow =>
        /\ line = taken
        /\ \A s \in Slot : s >= cursor /\ client_fds[s] # None => Below(queue[client_fds[s]], line)
        /\ \A s \in Slot, b \in Backend : s >= cursor /\ client_fds[s] = client[b] /\ client[b] # None =>
               Below(buffer[b], line) /\ Last(stored[b]) < line

Ordered == InStore /\ InSocket /\ OnItsWay

LEMMA LastRow ==
    ASSUME NEW s \in Seq(Alert)
    PROVE  Last(s) \in Nat /\ \A x \in Alert : Append(s, x) # <<>> /\ Last(Append(s, x)) = x
<1>1. Last(s) \in Nat
  <2>1. CASE s = <<>>
    BY <2>1 DEF Last
  <2>2. CASE s # <<>>
    <3>1. Len(s) \in 1..Len(s) /\ s[Len(s)] \in Alert
      BY <2>2
    <3> QED
      BY <2>2, <3>1, LineNat DEF Last
  <2> QED
    BY <2>1, <2>2
<1>2. ASSUME NEW x \in Alert PROVE Append(s, x) # <<>> /\ Last(Append(s, x)) = x
  <2>1. Len(Append(s, x)) = Len(s) + 1 /\ Append(s, x)[Len(s) + 1] = x /\ Append(s, x) # <<>>
    OBVIOUS
  <2> QED
    BY <2>1 DEF Last
<1> QED
  BY <1>1, <1>2

\* Sequences of lines are sequences of numbers.
LEMMA LinesAreNumbers ==
    TypeInv => /\ \A b \in Backend : buffer[b] \in Seq(Nat) /\ Last(stored[b]) \in Nat
               /\ \A k \in Conn : queue[k] \in Seq(Nat)
               /\ taken \in Nat /\ raised \in Nat /\ taken <= raised /\ line \in Nat
<1> SUFFICES ASSUME TypeInv PROVE /\ \A b \in Backend : buffer[b] \in Seq(Nat) /\ Last(stored[b]) \in Nat
                                  /\ \A k \in Conn : queue[k] \in Seq(Nat)
                                  /\ taken \in Nat /\ raised \in Nat /\ taken <= raised /\ line \in Nat
  OBVIOUS
<1>1. \A s \in Seq(Line) : s \in Seq(Nat)
  BY LineNat, SeqMonotonic
<1>2. /\ \A b \in Backend : buffer[b] \in Seq(Line) /\ stored[b] \in Seq(Alert)
      /\ \A k \in Conn : queue[k] \in Seq(Line)
      /\ raised \in 0..MaxAlerts /\ taken \in 0..raised /\ line \in Line
  BY DEF TypeInv, TypeOK
<1>3. raised \in Nat /\ taken \in Nat /\ taken <= raised
  BY <1>2, LinkAssumption DEF LinkAssumption
<1> QED
  BY <1>1, <1>2, <1>3, LastRow, LineNat

LEMMA UpToMore ==
    ASSUME NEW s \in Seq(Nat), NEW m \in Nat, NEW n \in Nat, m <= n, UpTo(s, m)
    PROVE  UpTo(s, n) /\ Below(s, n + 1)
<1>1. \A i \in 1..Len(s) : s[i] \in Nat
  OBVIOUS
<1> QED
  BY <1>1 DEF UpTo, Below

LEMMA OrderInit == Init => Ordered
<1> SUFFICES ASSUME Init PROVE Ordered
  OBVIOUS
<1>1. \A b \in Backend : /\ stored[b] = <<>> /\ buffer[b] = <<>> /\ client[b] = None /\ taken = 0
                         /\ Last(stored[b]) = 0
  BY DEF Init, Last
<1>2. lpc # "send" /\ \A k \in Conn : queue[k] = <<>>
  BY DEF Init
<1> QED
  BY <1>1, <1>2, NoLines DEF Ordered, InStore, InSocket, OnItsWay

\* Steps that move no line, and send none that is not being sent.
LEMMA OrderSame ==
    ASSUME TypeInv, Ordered, UNCHANGED <<queue, client, buffer, stored>>,
           taken' \in Nat, taken <= taken',
           \/ lpc' # "send" \/ line' = Flow
           \/ UNCHANGED <<lpc, line, cursor, client_fds, taken>>
    PROVE  Ordered'
<1>1. \A s \in Seq(Nat) : UpTo(s, taken) => UpTo(s, taken')
  BY UpToMore, LinesAreNumbers
<1>2. InStore'
  BY <1>1, LinesAreNumbers DEF Ordered, InStore
<1>3. InSocket'
  BY <1>1, LinesAreNumbers DEF Ordered, InSocket
<1>4. OnItsWay'
  BY DEF Ordered, OnItsWay
<1> QED
  BY <1>2, <1>3, <1>4 DEF Ordered

\* The next alert is newer than anything there is.
LEMMA OrderPoll == ASSUME TypeInv, Ordered, PollRing PROVE Ordered'
<1>1. CASE ~(taken < raised)
  BY <1>1, OrderSame, LinesAreNumbers DEF PollRing, thread
<1>2. CASE taken < raised
  <2>1. /\ taken' = taken + 1 /\ line' = taken + 1 /\ cursor' = 1 /\ taken \in Nat
        /\ UNCHANGED <<client_fds, queue, client, buffer, stored>>
    BY <1>2, LinesAreNumbers DEF PollRing, Broadcast, thread
  <2>2. \A s \in Seq(Nat) : UpTo(s, taken) => UpTo(s, taken + 1) /\ Below(s, taken + 1)
    BY <2>1, UpToMore
  <2>3. \A b \in Backend : /\ buffer[b] \in Seq(Nat) /\ UpTo(buffer[b], taken)
                           /\ Last(stored[b]) <= taken /\ Last(stored[b]) \in Nat
    BY LinesAreNumbers DEF Ordered, InStore
  <2>4. \A k \in Conn : queue[k] \in Seq(Nat) /\ UpTo(queue[k], taken)
    BY LinesAreNumbers DEF Ordered, InSocket
  <2>5. InStore'
    BY <2>1, <2>2, <2>3 DEF Ordered, InStore
  <2>6. InSocket'
    BY <2>1, <2>2, <2>4 DEF Ordered, InSocket
  <2>7. \A s \in Slot : client_fds[s] \in Conn \cup {None}
    BY DEF TypeInv, TypeOK
  <2>8. OnItsWay'
    BY <2>1, <2>2, <2>3, <2>4, <2>7 DEF OnItsWay
  <2> QED
    BY <2>5, <2>6, <2>8 DEF Ordered
<1> QED
  BY <1>1, <1>2

LEMMA OrderSend == ASSUME TypeInv, Ordered, Send PROVE Ordered'
<1>1. /\ cursor \in Slot /\ cursor' = cursor + 1 /\ lpc = "send"
      /\ UNCHANGED <<taken, lpc, line, client, buffer, stored>>
      /\ client_fds \in [Slot -> Conn \cup {None}]
      /\ \A i, j \in Slot : client_fds[i] = client_fds[j] => i = j \/ client_fds[i] = None
  BY DEF Send, AfterFailure, thread, TypeInv, TypeOK
<1>2. \A s \in Slot : s >= cursor' => s >= cursor /\ s # cursor
  BY <1>1, LinkAssumption DEF Slot, LinkAssumption
<1>3. CASE queue' = queue /\ \A s \in Slot : client_fds'[s] \in {client_fds[s], None}
  <2>1. InStore' /\ InSocket'
    BY <1>1, <1>3 DEF Ordered, InStore, InSocket
  <2>2. OnItsWay'
    BY <1>1, <1>2, <1>3 DEF Ordered, OnItsWay
  <2> QED
    BY <2>1, <2>2 DEF Ordered
<1>4. ASSUME NEW k \in Conn, k = client_fds[cursor],
             queue' = [queue EXCEPT ![k] = Append(@, line)], client_fds' = client_fds
      PROVE  Ordered'
  <2>1. /\ queue'[k] = Append(queue[k], line) /\ \A u \in Conn : u # k => queue'[u] = queue[u]
        /\ queue[k] \in Seq(Nat) /\ line \in Nat /\ k # None
    BY <1>4, LinesAreNumbers, LinkAssumption DEF TypeInv, LinkAssumption
  <2>2. line = Flow \/ (line = taken /\ Below(queue[k], line))
    BY <1>1, <1>4, <2>1, LinkAssumption DEF Ordered, OnItsWay, Slot, LinkAssumption
  <2>3. \A b \in Backend : client[b] = k => line = Flow \/ (Below(buffer[b], line) /\ Last(stored[b]) < line)
    BY <1>1, <1>4, <2>1, LinkAssumption DEF Ordered, OnItsWay, Slot, LinkAssumption
  <2>4. UpTo(queue'[k], taken) /\ Ascends(queue'[k])
    BY <2>1, <2>2, AppendLine, LinesAreNumbers DEF Ordered, InSocket, Flow
  <2>5. ASSUME NEW b \in Backend, client[b] = k
        PROVE  Above(queue'[k], Last(stored[b])) /\ Before(buffer[b], queue'[k])
    <3>1. buffer[b] \in Seq(Nat) /\ Last(stored[b]) \in Nat
      BY LinesAreNumbers
    <3>2. Above(queue[k], Last(stored[b])) /\ Before(buffer[b], queue[k])
      BY <2>1, <2>5 DEF Ordered, InSocket
    <3> QED
      BY <2>1, <2>3, <2>5, <3>1, <3>2, AppendLine
  <2>6. InStore'
    BY <1>1 DEF Ordered, InStore
  <2>7. \A b \in Backend : client[b] \in Conn \cup {None}
    BY DEF TypeInv, TypeOK
  <2>8. InSocket'
    BY <1>1, <2>1, <2>4, <2>5, <2>7 DEF Ordered, InSocket
  <2>9. \A s \in Slot : s >= cursor' => client_fds[s] # k
    BY <1>1, <1>2, <1>4, <2>1
  <2>10. OnItsWay'
    BY <1>1, <1>2, <1>4, <2>1, <2>9 DEF Ordered, OnItsWay
  <2> QED
    BY <2>6, <2>8, <2>10 DEF Ordered
<1>5. client_fds[cursor] \in Conn \cup {None}
  BY <1>1
<1>6. \/ queue' = queue /\ client_fds' \in {client_fds, Closed(client_fds, cursor)}
      \/ /\ client_fds[cursor] # None /\ client_fds' = client_fds
         /\ queue' = [queue EXCEPT ![client_fds[cursor]] = Append(@, line)]
  BY DEF Send
<1>7. \A fds \in {client_fds, Closed(client_fds, cursor)} : \A s \in Slot : fds[s] \in {client_fds[s], None}
  BY <1>1 DEF Closed
<1> QED
  BY <1>3, <1>4, <1>5, <1>6, <1>7

\* A new connection holds nothing, and its backend has nothing in its buffer.
LEMMA OrderConnect == ASSUME TypeInv, Ordered, NEW b \in Backend, Connect(b) PROVE Ordered'
<1>1. PICK k \in Unused : client' = [client EXCEPT ![b] = k]
  BY DEF Connect, Unused
<1>2. /\ k \in Conn /\ k \notin Held /\ queue[k] = <<>> /\ buffer[b] = <<>>
      /\ client \in [Backend -> Conn \cup {None}]
      /\ UNCHANGED <<taken, lpc, line, cursor, client_fds, queue, buffer, stored>>
  BY <1>1 DEF Unused, ServerOpen, TypeInv, TypeOK, Distinct, Connect
<1>3. client'[b] = k /\ \A c \in Backend : c # b => client'[c] = client[c]
  BY <1>1, <1>2
<1>4. InStore'
  BY <1>2 DEF Ordered, InStore
<1>5. InSocket'
  BY <1>2, <1>3, NoLines DEF Ordered, InSocket
<1>6. \A s \in Slot : client_fds[s] # k \/ k = None
  BY <1>2 DEF Held
<1>7. k # None
  BY <1>2, LinkAssumption DEF LinkAssumption
<1>8. OnItsWay'
  BY <1>2, <1>3, <1>6, <1>7 DEF Ordered, OnItsWay
<1> QED
  BY <1>4, <1>5, <1>8 DEF Ordered

\* What is received is older than what stays in the socket.
LEMMA OrderTake ==
    ASSUME TypeInv, Ordered, NEW b \in Backend, NEW n \in 1..Len(queue[client[b]]), client[b] \in Conn,
           buffer' = [buffer EXCEPT ![b] = SubSeq(queue[client[b]], 1, n)],
           queue' = [queue EXCEPT ![client[b]] = SubSeq(@, n + 1, Len(@))],
           UNCHANGED <<taken, lpc, line, cursor, client_fds, client, stored>>
    PROVE  Ordered'
<1>0. PICK k \in Conn, s \in Seq(Nat) : k = client[b] /\ s = queue[k]
  BY LinesAreNumbers
<1>1. PICK front, rest :
          /\ k = client[b] /\ s = queue[k]
          /\ front = SubSeq(s, 1, n) /\ rest = SubSeq(s, n + 1, Len(s))
          /\ buffer' = [buffer EXCEPT ![b] = front] /\ queue' = [queue EXCEPT ![k] = rest]
  BY <1>0
<1>2. /\ UpTo(s, taken) /\ Ascends(s) /\ Above(s, Last(stored[b])) /\ taken \in Nat /\ line \in Nat
      /\ Last(stored[b]) \in Nat /\ n \in 1..Len(s)
  BY <1>1, LinesAreNumbers, LinkAssumption DEF Ordered, InSocket, LinkAssumption
<1>3. /\ UpTo(front, taken) /\ Ascends(front) /\ Above(front, Last(stored[b]))
      /\ UpTo(rest, taken) /\ Ascends(rest) /\ Above(rest, Last(stored[b])) /\ Before(front, rest)
      /\ Below(s, line) => Below(front, line) /\ Below(rest, line)
  <2>1. front = SubSeq(s, 1, n) /\ rest = SubSeq(s, n + 1, Len(s)) /\ n \in 1..Len(s)
    BY <1>1, <1>2
  <2>2. Cut(s, front, rest)
    BY <2>1, CutLines
  <2> QED
    BY <1>2, <2>2 DEF Cut
<1>4. /\ buffer'[b] = front /\ \A c \in Backend : c # b => buffer'[c] = buffer[c]
      /\ queue'[k] = rest /\ \A u \in Conn : u # k => queue'[u] = queue[u]
      /\ \A c \in Backend : c # b => client[c] # k
      /\ \A c \in Backend : client[c] \in Conn \cup {None}
      /\ k # None /\ client[b] = k
  BY <1>1, LinkAssumption DEF TypeInv, TypeOK, Distinct, LinkAssumption
<1>5. InStore'
  BY <1>3, <1>4 DEF Ordered, InStore
<1>6. InSocket'
  BY <1>3, <1>4 DEF Ordered, InSocket
<1>7. OnItsWay'
  <2>1. ASSUME lpc = "send", line # Flow, NEW i \in Slot, i >= cursor, client_fds[i] = k
        PROVE  Below(s, line)
    BY <1>1, <1>4, <2>1 DEF Ordered, OnItsWay
  <2>2. \A i \in Slot : client_fds[i] \in Conn \cup {None}
    BY DEF TypeInv, TypeOK
  <2>3. ASSUME lpc = "send", line # Flow
        PROVE  \A i \in Slot : i >= cursor /\ client_fds[i] # None => Below(queue'[client_fds[i]], line)
    BY <1>3, <1>4, <2>1, <2>2, <2>3 DEF Ordered, OnItsWay
  <2>4. ASSUME lpc = "send", line # Flow
        PROVE  \A i \in Slot, c \in Backend : i >= cursor /\ client_fds[i] = client[c] /\ client[c] # None =>
                   Below(buffer'[c], line) /\ Last(stored[c]) < line
    BY <1>3, <1>4, <2>1, <2>4 DEF Ordered, OnItsWay
  <2> QED
    BY <2>3, <2>4 DEF Ordered, OnItsWay
<1> QED
  BY <1>5, <1>6, <1>7 DEF Ordered

\* Rows are older than what is in the buffer behind them, and are raised alerts.
LEMMA OrderSaved ==
    ASSUME TypeInv, Ordered, NEW b \in Backend, bpc[b] = "handle"
    PROVE  LET n == Last(Saved(b)[b])
           IN  /\ n \in Nat /\ n <= taken /\ \A c \in Backend : c # b => Saved(b)[c] = stored[c]
               /\ Tail(buffer[b]) \in Seq(Nat) /\ UpTo(Tail(buffer[b]), taken)
               /\ Ascends(Tail(buffer[b])) /\ Above(Tail(buffer[b]), n)
               /\ client[b] # None => /\ Above(queue[client[b]], n)
                                      /\ Before(Tail(buffer[b]), queue[client[b]])
               /\ Below(buffer[b], line) /\ Last(stored[b]) < line =>
                      n < line /\ Below(Tail(buffer[b]), line)
               /\ Saved(b) # stored =>
                      /\ Last(stored[b]) < Head(buffer[b]) /\ Head(buffer[b]) <= taken
                      /\ Saved(b) = [stored EXCEPT ![b] = Append(@, Head(buffer[b]))]
<1>0. PICK s \in Seq(Nat), x \in Line : s = buffer[b] /\ x = Head(s) /\ s # <<>>
  BY SavedTyped, LinesAreNumbers
<1>1. PICK t : s = buffer[b] /\ x = Head(s) /\ t = Tail(s) /\ s # <<>>
  BY <1>0
<1>2. UpTo(s, taken) /\ Ascends(s) /\ Above(s, Last(stored[b])) /\ Last(stored[b]) \in Nat
      /\ Last(stored[b]) <= taken /\ taken \in Nat /\ line \in Nat
  BY <1>1, LinesAreNumbers DEF Ordered, InStore
<1>3. /\ t \in Seq(Nat) /\ UpTo(t, taken) /\ Ascends(t) /\ Above(t, x) /\ Above(t, Last(stored[b]))
      /\ x <= taken /\ (x = Flow \/ Last(stored[b]) < x)
      /\ Below(s, line) => x < line /\ Below(t, line)
      /\ \A u \in Seq(Nat) : Before(s, u) => Before(t, u) /\ Above(u, x)
  BY <1>1, <1>2, FirstLine
<1>4. PICK n \in Nat : n = Last(Saved(b)[b]) /\ n = (IF x = Flow THEN Last(stored[b]) ELSE x)
  <2>1. Saved(b)[b] = (IF x = Flow THEN stored[b] ELSE Append(stored[b], x)) /\ stored[b] \in Seq(Alert)
    BY <1>1, SavedTyped DEF TypeInv
  <2>2. x # Flow => x \in Alert /\ Last(Append(stored[b], x)) = x
    BY <2>1, LastRow DEF Line
  <2> QED
    BY <1>2, <2>1, <2>2, LineNat
<1>5. n <= taken /\ Above(t, n) /\ (Below(s, line) /\ Last(stored[b]) < line => n < line)
  BY <1>2, <1>3, <1>4
<1>6. client[b] # None => Above(queue[client[b]], n) /\ Before(t, queue[client[b]])
  <2>1. client[b] # None => client[b] \in Conn /\ queue[client[b]] \in Seq(Nat)
    BY LinesAreNumbers DEF TypeInv, TypeOK
  <2>2. client[b] # None => /\ Above(queue[client[b]], Last(stored[b]))
                            /\ Before(s, queue[client[b]])
    BY <1>1 DEF Ordered, InSocket
  <2> QED
    BY <1>3, <1>4, <2>1, <2>2
<1>7. Saved(b) # stored => /\ Last(stored[b]) < x
                           /\ Saved(b) = [stored EXCEPT ![b] = Append(@, x)]
  BY <1>1, <1>3 DEF Saved
<1> QED
  BY <1>1, <1>3, <1>4, <1>5, <1>6, <1>7, SavedTyped

LEMMA OrderHandle == ASSUME TypeInv, Ordered, NEW b \in Backend, Handle(b) PROVE Ordered'
<1>1. /\ bpc[b] = "handle" /\ stored' = Saved(b) /\ buffer'[b] = Tail(buffer[b])
      /\ \A c \in Backend : c # b => buffer'[c] = buffer[c]
      /\ UNCHANGED <<taken, lpc, line, cursor, client_fds, queue, client>>
  BY DEF Handle, BackendAt, server, TypeInv
<1>2. PICK n \in Nat, t \in Seq(Nat) :
          /\ n = Last(stored'[b]) /\ t = buffer'[b] /\ n <= taken
          /\ UpTo(t, taken) /\ Ascends(t) /\ Above(t, n)
          /\ client[b] # None => Above(queue[client[b]], n) /\ Before(t, queue[client[b]])
          /\ Below(buffer[b], line) /\ Last(stored[b]) < line => n < line /\ Below(t, line)
  BY <1>1, OrderSaved
<1>3. \A c \in Backend : c # b => stored'[c] = stored[c]
  BY <1>1, OrderSaved
<1>4. InStore'
  BY <1>1, <1>2, <1>3 DEF Ordered, InStore
<1>5. InSocket'
  BY <1>1, <1>2, <1>3 DEF Ordered, InSocket
<1>6. OnItsWay'
  BY <1>1, <1>2, <1>3 DEF Ordered, OnItsWay
<1> QED
  BY <1>4, <1>5, <1>6 DEF Ordered

LEMMA OrderStartOver ==
    ASSUME TypeInv, Ordered, NEW b \in Backend, StartOver(b), UNCHANGED <<taken, server>>,
           stored' = stored \/ (bpc[b] = "handle" /\ stored' = Saved(b))
    PROVE  Ordered'
<1>1. /\ client'[b] = None /\ buffer'[b] = <<>>
      /\ \A c \in Backend : c # b => client'[c] = client[c] /\ buffer'[c] = buffer[c]
      /\ \A k \in Conn : queue'[k] = IF k = client[b] THEN <<>> ELSE queue[k]
      /\ UNCHANGED <<taken, lpc, line, cursor, client_fds>>
  BY DEF StartOver, TypeInv, TypeOK, server
<1>2. /\ Last(stored'[b]) <= taken /\ \A c \in Backend : c # b => stored'[c] = stored[c]
  BY OrderSaved DEF Ordered, InStore
<1>3. InStore'
  BY <1>1, <1>2, NoLines DEF Ordered, InStore
<1>4. \A c \in Backend : c # b /\ client[c] # None => client[c] \in Conn /\ queue'[client[c]] = queue[client[c]]
  BY <1>1 DEF TypeInv, TypeOK, Distinct
<1>5. InSocket'
  BY <1>1, <1>2, <1>4, NoLines DEF Ordered, InSocket
<1>6. \A s \in Slot : client_fds[s] \in Conn \cup {None}
  BY DEF TypeInv, TypeOK
<1>7. OnItsWay'
  BY <1>1, <1>2, <1>6, NoLines DEF Ordered, OnItsWay
<1> QED
  BY <1>3, <1>5, <1>7 DEF Ordered

LEMMA OrderNext == TypeInv /\ Ordered /\ [Next]_vars => Ordered'
<1> SUFFICES ASSUME TypeInv, Ordered, [Next]_vars PROVE Ordered'
  OBVIOUS
<1>1. CASE StartLoader \/ Accept \/ AcceptDone \/ AcceptFails \/ Report \/ NoReport \/ Sent
  BY <1>1, OrderSame, LinesAreNumbers
     DEF StartLoader, Accept, AcceptDone, AcceptFails, Report, NoReport, Sent, Broadcast, thread
<1>2. CASE Raise \/ UNCHANGED vars \/ \E removed \in BOOLEAN : Down(removed)
  BY <1>2, OrderSame, LinesAreNumbers DEF Raise, Down, vars, server, thread
<1>3. ASSUME NEW b \in Backend, Exists(b) \/ Refused(b) PROVE Ordered'
  BY <1>3, OrderSame, LinesAreNumbers DEF Exists, Refused, BackendAt, server
<1>4. ASSUME NEW b \in Backend, Recv(b) PROVE Ordered'
  <2>1. client[b] \in Conn /\ UNCHANGED <<taken, server, stored>>
    BY <1>4 DEF Recv, BackendAt, TypeInv, TypeOK
  <2> QED
    BY <1>4, <2>1, OrderTake, OrderStartOver DEF Recv, server
<1>5. ASSUME NEW b \in Backend, HandleFails(b) \/ Crash(b) PROVE Ordered'
  BY <1>5, OrderStartOver DEF HandleFails, Crash, BackendAt
<1> QED
  BY <1>1, <1>2, <1>3, <1>4, <1>5, OrderPoll, OrderSend, OrderConnect, OrderHandle
     DEF Next, LoaderStep, BackendStep

-----------------------------------------------------------------------------
(***************************************************************************)
(* The link implements AlertDelivery: what is stored is newer than the     *)
(* rows before it and has been raised; all other steps stutter.            *)
(***************************************************************************)
LEMMA DeliveryStep ==
    TypeInv /\ Ordered /\ [Next]_vars => [Delivery!Next]_<<raised, stored>>
<1> SUFFICES ASSUME TypeInv, Ordered, [Next]_vars
             PROVE  Delivery!Next \/ UNCHANGED <<raised, stored>>
  OBVIOUS
<1>1. CASE Raise
  BY <1>1 DEF Raise, Delivery!Next, Delivery!Raise
<1>2. ASSUME NEW b \in Backend, bpc[b] = "handle", stored' \in {stored, Saved(b)}, raised' = raised
      PROVE  Delivery!Next \/ UNCHANGED <<raised, stored>>
  <2>1. CASE stored' # stored
    <3>1. PICK a : /\ a = Head(buffer[b]) /\ Last(stored[b]) < a /\ a <= taken
                   /\ stored' = [stored EXCEPT ![b] = Append(@, a)]
      BY <1>2, <2>1, OrderSaved
    <3>2. a \in Nat /\ Last(stored[b]) \in Nat /\ taken \in Nat /\ raised \in Nat /\ taken <= raised
      BY <1>2, <3>1, SavedTyped, LineNat, LinesAreNumbers
    <3>3. Delivery!Newest(b) = Last(stored[b])
      BY DEF Delivery!Newest, Last
    <3>4. a \in (Delivery!Newest(b) + 1)..raised
      BY <3>1, <3>2, <3>3
    <3>5. Delivery!Store(b)
      BY <1>2, <3>1, <3>4 DEF Delivery!Store
    <3> QED
      BY <3>5 DEF Delivery!Next
  <2> QED
    BY <1>2, <2>1
<1> QED
  BY <1>1, <1>2 DEF Next, LoaderStep, BackendStep, vars, StartLoader, Accept, AcceptDone,
     AcceptFails, PollRing, Report, NoReport, Send, Sent, Down, Exists, Connect, Refused, Recv,
     Handle, HandleFails, Crash, BackendAt

\* Across reconnects, restarts and failing handlers, every database gets the
\* alerts in their order, each at most once: the link implements AlertDelivery.
THEOREM LinkImplementsDelivery == Spec => InOrderOnce
<1>1. Init => Delivery!Init
  BY DEF Init, Delivery!Init
<1> QED
  BY <1>1, TypeInit, TypeNext, OrderInit, OrderNext, DeliveryStep, PTL
     DEF Spec, InOrderOnce, Delivery!Spec

-----------------------------------------------------------------------------
(***************************************************************************)
(* Where an alert is that was broadcast while a backend had a slot: it has *)
(* arrived, met a full buffer, or the broadcast has not reached the slot.  *)
(***************************************************************************)
Arrived(b) == Elems(stored[b]) \cup Elems(buffer[b]) \cup Elems(queue[client[b]]) \cup skipped[b]
ToCome(b, a) == lpc = "send" /\ a = line /\ \E s \in Slot : s >= cursor /\ client_fds[s] = client[b]

Account ==
    \A b \in Backend :
        /\ client[b] \in Held => \A a \in offered[b] : a \in Arrived(b) \/ ToCome(b, a)
        /\ client[b] = None \/ client[b] \in Waiting => offered[b] = {}

LEMMA AccountInit == Init => Account
BY DEF Init, Account, Held, Waiting

\* Steps that move no line and give no connection a slot.
LEMMA AccountSame ==
    ASSUME TypeInv, Account, UNCHANGED <<queue, client, buffer, stored, offered, skipped>>,
           Held' \subseteq Held, Waiting' \subseteq Waiting,
           \/ lpc # "send" \/ cursor \notin Slot
           \/ UNCHANGED <<lpc, line, cursor, client_fds>>
    PROVE  Account'
<1>1. cursor \notin Slot => \A s \in Slot : ~(s >= cursor)
  BY LinkAssumption DEF TypeInv, TypeOK, Slot, LinkAssumption
<1>2. \A b \in Backend : Arrived(b)' = Arrived(b)
  BY DEF Arrived
<1>3. ASSUME NEW b \in Backend, NEW a, ToCome(b, a), ~(lpc # "send" \/ cursor \notin Slot) PROVE ToCome(b, a)'
  BY <1>3 DEF ToCome
<1>4. ASSUME NEW b \in Backend, NEW a, ToCome(b, a) PROVE lpc = "send" /\ cursor \in Slot
  BY <1>1, <1>4 DEF ToCome
<1> QED
  BY <1>2, <1>3, <1>4 DEF Account

LEMMA AccountPoll == ASSUME TypeInv, Account, PollRing PROVE Account'
<1>1. Held' = Held /\ Waiting' = Waiting /\ lpc = "poll"
  BY DEF Held, Waiting, PollRing
<1>2. CASE ~(taken < raised)
  BY <1>1, <1>2, AccountSame DEF PollRing, thread
<1>3. CASE taken < raised
  <2>1. PICK n : /\ n = taken + 1 /\ lpc' = "send" /\ line' = n /\ cursor' = 1
                 /\ offered' = [b \in Backend |-> IF client[b] \in Held THEN offered[b] \cup {n} ELSE offered[b]]
                 /\ UNCHANGED <<client_fds, queue, client, buffer, stored, skipped>>
    BY <1>3 DEF PollRing, Broadcast, thread
  <2>2. \A b \in Backend : Arrived(b)' = Arrived(b)
    BY <2>1 DEF Arrived
  <2>3. ASSUME NEW b \in Backend, client[b] \in Held PROVE ToCome(b, n)'
    <3>1. PICK s \in Slot : client_fds[s] = client[b]
      BY <2>3, HeldSlot
    <3>2. s >= 1
      BY LinkAssumption DEF Slot, LinkAssumption
    <3> QED
      BY <2>1, <3>1, <3>2 DEF ToCome
  <2>4. \A b \in Backend : \A a : ~ToCome(b, a)
    BY <1>1 DEF ToCome
  <2>5. ASSUME NEW b \in Backend, client'[b] \in Held'
        PROVE  \A a \in offered'[b] : a \in Arrived(b)' \/ ToCome(b, a)'
    BY <1>1, <2>1, <2>2, <2>3, <2>4, <2>5 DEF Account
  <2>6. ASSUME NEW b \in Backend, client'[b] = None \/ client'[b] \in Waiting'
        PROVE  offered'[b] = {}
    <3>1. client[b] \notin Held
      BY <1>1, <2>1, <2>6 DEF Held, TypeInv, TypeOK
    <3> QED
      BY <1>1, <2>1, <2>6, <3>1 DEF Account
  <2> QED
    BY <2>5, <2>6 DEF Account
<1> QED
  BY <1>2, <1>3

\* A connection that gets a slot was waiting, and nothing was offered to it.
LEMMA AcceptMoves ==
    ASSUME TypeInv, Accept
    PROVE  \E k \in Waiting : Waiting' = Waiting \ {k} /\ Held' \subseteq Held \cup {k}
<1>1. /\ backlog \in Seq(Conn) /\ backlog # <<>> /\ OneEach(backlog) /\ Waiting = Elems(backlog)
      /\ backlog' = Tail(backlog) /\ Waiting' = Elems(Tail(backlog))
  BY DEF TypeInv, TypeOK, Accept, Distinct, Waiting, Elems
<1>2. PICK k \in Waiting : Waiting' = Waiting \ {k} /\ client_fds' = Placed(client_fds, k)
  BY <1>1, FirstWaiting DEF Accept
<1>3. Held' \subseteq Held \cup {k}
  BY <1>2 DEF Placed, Held
<1> QED
  BY <1>2, <1>3

LEMMA AccountAccept == ASSUME TypeInv, Account, Accept PROVE Account'
<1>1. PICK k \in Waiting : Waiting' = Waiting \ {k} /\ Held' \subseteq Held \cup {k}
  BY AcceptMoves
<1>2. lpc = "accept" /\ UNCHANGED <<queue, client, buffer, stored, offered, skipped>>
  BY DEF Accept, thread, hist
<1>3. \A b \in Backend : Arrived(b)' = Arrived(b)
  BY <1>2 DEF Arrived
<1>4. \A b \in Backend : \A a : ~ToCome(b, a)
  BY <1>2 DEF ToCome
<1>5. ASSUME NEW b \in Backend, client'[b] \in Held', NEW a \in offered'[b]
      PROVE  a \in Arrived(b)'
  BY <1>1, <1>2, <1>3, <1>4, <1>5 DEF Account
<1>6. ASSUME NEW b \in Backend, client'[b] = None \/ client'[b] \in Waiting'
      PROVE  offered'[b] = {}
  BY <1>1, <1>2, <1>6 DEF Account
<1> QED
  BY <1>5, <1>6 DEF Account

LEMMA AccountSend == ASSUME TypeInv, Account, Send PROVE Account'
<1>1. /\ cursor \in Slot /\ cursor' = cursor + 1 /\ lpc = "send"
      /\ UNCHANGED <<lpc, line, backlog, client, buffer, stored, offered>>
      /\ client_fds \in [Slot -> Conn \cup {None}] /\ queue \in [Conn -> Seq(Line)] /\ line \in Line
      /\ \A i, j \in Slot : client_fds[i] = client_fds[j] => i = j \/ client_fds[i] = None
  BY DEF Send, AfterFailure, thread, TypeInv, TypeOK
<1>2. \A i \in Slot : client_fds'[i] \in {client_fds[i], None}
                      /\ (i # cursor => client_fds'[i] = client_fds[i])
  <2>1. client_fds' = client_fds \/ client_fds' = Closed(client_fds, cursor)
    BY DEF Send
  <2> QED
    BY <1>1, <2>1 DEF Closed
<1>3. Waiting' = Waiting /\ Held' \subseteq Held
  BY <1>1, <1>2 DEF Waiting, Held
<1>4. \A k \in Conn : queue'[k] = queue[k] \/ queue'[k] = Append(queue[k], line)
  BY <1>1 DEF Send
<1>5. \A k \in Conn : Elems(queue[k]) \subseteq Elems(queue'[k])
  <2>1. \A k \in Conn : queue[k] \in Seq(Nat) /\ line \in Nat
    BY LinesAreNumbers
  <2>2. ASSUME NEW k \in Conn PROVE Elems(Append(queue[k], line)) = Elems(queue[k]) \cup {line}
    BY <2>1, AppendLine
  <2>3. ASSUME NEW k \in Conn PROVE Elems(queue[k]) \subseteq Elems(queue'[k])
    <3>1. Elems(queue[k]) \subseteq Elems(Append(queue[k], line))
      BY <2>2
    <3> QED
      BY <1>4, <3>1
  <2> QED
    BY <2>3
<1>6. \A b \in Backend : skipped[b] \subseteq skipped'[b]
  <2>1. \/ skipped' = skipped
        \/ \E k : skipped' = [b \in Backend |-> IF client[b] = k THEN skipped[b] \cup {line} ELSE skipped[b]]
    BY DEF Send
  <2> QED
    BY <2>1
<1>7. ASSUME NEW b \in Backend, client[b] \in Held PROVE Arrived(b) \subseteq Arrived(b)'
  <2>1. client[b] \in Conn
    BY <1>1, <1>7 DEF Held
  <2> QED
    BY <1>1, <1>5, <1>6, <2>1 DEF Arrived
<1>8. ASSUME NEW b \in Backend, client[b] = client_fds[cursor], client[b] # None
      PROVE  line \in Arrived(b)'
  <2>1. client[b] \in Conn /\ ClientOpen(client[b]) /\ queue[client[b]] \in Seq(Nat) /\ line \in Nat
    BY <1>1, <1>8, LinesAreNumbers DEF ClientOpen
  <2>2. CASE queue' = [queue EXCEPT ![client[b]] = Append(@, line)]
    <3>1. queue'[client[b]] = Append(queue[client[b]], line)
      BY <1>1, <2>1, <2>2
    <3>2. line \in Elems(queue'[client[b]])
      BY <2>1, <3>1, AppendLine
    <3> QED
      BY <1>1, <3>2 DEF Arrived
  <2>3. CASE skipped' = [c \in Backend |-> IF client[c] = client[b] THEN skipped[c] \cup {line} ELSE skipped[c]]
    BY <2>3 DEF Arrived
  <2> QED
    BY <1>8, <2>1, <2>2, <2>3 DEF Send
<1>9. ASSUME NEW b \in Backend, client[b] \in Held, NEW a, ToCome(b, a)
      PROVE  a \in Arrived(b)' \/ ToCome(b, a)'
  <2>1. PICK s \in Slot : s >= cursor /\ client_fds[s] = client[b] /\ a = line
    BY <1>9 DEF ToCome
  <2>2. client[b] # None
    BY <1>9 DEF Held
  <2>3. CASE s = cursor
    BY <1>8, <2>1, <2>2, <2>3
  <2>4. CASE s # cursor
    <3>1. s >= cursor' /\ client_fds'[s] = client[b]
      BY <1>1, <1>2, <2>1, <2>4, LinkAssumption DEF Slot, LinkAssumption
    <3> QED
      BY <1>1, <2>1, <3>1 DEF ToCome
  <2> QED
    BY <2>3, <2>4
<1> QED
  BY <1>1, <1>3, <1>7, <1>9 DEF Account

LEMMA AccountConnect == ASSUME TypeInv, Account, NEW b \in Backend, Connect(b) PROVE Account'
<1>1. PICK k \in Unused : client' = [client EXCEPT ![b] = k] /\ backlog' = Append(backlog, k)
  BY DEF Connect, Unused
<1>2. /\ k \in Conn /\ k # None /\ k \notin Held /\ \A c \in Backend : client[c] # k
      /\ client[b] = None /\ client \in [Backend -> Conn \cup {None}]
      /\ UNCHANGED <<lpc, line, cursor, client_fds, queue, buffer, stored, offered, skipped>>
  BY <1>1, LinkAssumption DEF Unused, ServerOpen, ClientOpen, TypeInv, TypeOK, Connect, hist, LinkAssumption
<1>3. /\ backlog \in Seq(Conn) /\ OneEach(backlog) /\ Waiting = Elems(backlog)
      /\ Waiting' = Elems(backlog')
  BY DEF TypeInv, TypeOK, Distinct, Waiting, Elems
<1>4. Waiting' = Waiting \cup {k}
  <2>1. k \notin Waiting
    BY <1>1 DEF Unused, ServerOpen
  <2> QED
    BY <1>1, <1>2, <1>3, <2>1, LastWaiting
<1>5. Held' = Held
  BY <1>2 DEF Held
<1>6. client'[b] = k /\ \A c \in Backend : c # b => client'[c] = client[c]
  BY <1>1, <1>2
<1>7. ASSUME NEW c \in Backend, c # b
      PROVE  Arrived(c)' = Arrived(c) /\ \A a : ToCome(c, a)' <=> ToCome(c, a)
  BY <1>2, <1>6, <1>7 DEF Arrived, ToCome
<1>8. ASSUME NEW c \in Backend, c # b
      PROVE  /\ client'[c] \in Held' => \A a \in offered'[c] : a \in Arrived(c)' \/ ToCome(c, a)'
             /\ client'[c] = None \/ client'[c] \in Waiting' => offered'[c] = {}
  BY <1>2, <1>4, <1>5, <1>6, <1>7, <1>8 DEF Account
<1>9. client'[b] \notin Held' /\ offered'[b] = {}
  BY <1>2, <1>5, <1>6 DEF Account
<1> QED
  BY <1>8, <1>9 DEF Account

\* What leaves the socket is in the buffer, what leaves the buffer is stored.
LEMMA AccountTake ==
    ASSUME TypeInv, Account, NEW b \in Backend, client[b] \in Conn, bpc[b] = "recv",
           NEW n \in 1..Len(queue[client[b]]),
           buffer' = [buffer EXCEPT ![b] = SubSeq(queue[client[b]], 1, n)],
           queue' = [queue EXCEPT ![client[b]] = SubSeq(@, n + 1, Len(@))],
           UNCHANGED <<server, client, stored, offered, skipped>>
    PROVE  Account'
<1>0. PICK k \in Conn, s \in Seq(Nat) : k = client[b] /\ s = queue[k]
  BY LinesAreNumbers
<1>1. PICK front, rest :
          /\ k = client[b] /\ s = queue[k]
          /\ front = SubSeq(s, 1, n) /\ rest = SubSeq(s, n + 1, Len(s))
          /\ buffer' = [buffer EXCEPT ![b] = front] /\ queue' = [queue EXCEPT ![k] = rest]
  BY <1>0
<1>2. Elems(s) = Elems(front) \cup Elems(rest)
  <2>1. front = SubSeq(s, 1, n) /\ rest = SubSeq(s, n + 1, Len(s)) /\ n \in 1..Len(s)
    BY <1>1
  <2>2. Cut(s, front, rest)
    BY <2>1, CutLines
  <2> QED
    BY <2>2 DEF Cut
<1>3. /\ k = client[b] /\ s = queue[k] /\ buffer'[b] = front /\ queue'[k] = rest /\ buffer[b] = <<>>
      /\ \A c \in Backend : c # b => buffer'[c] = buffer[c]
      /\ \A u \in Conn : u # k => queue'[u] = queue[u]
      /\ \A c \in Backend : c # b /\ client[c] # None => client[c] # k /\ client[c] \in Conn
  BY <1>1 DEF TypeInv, TypeOK, Distinct
<1>4. Elems(buffer[b]) = {}
  BY <1>3, NoLines
<1>5. Held' = Held /\ Waiting' = Waiting
  BY DEF Held, Waiting, server
<1>6. \A c \in Backend : \A a : ToCome(c, a)' <=> ToCome(c, a)
  BY DEF ToCome, server
<1>7. \A c \in Backend : client[c] \in Held => Arrived(c)' = Arrived(c)
  <2>1. Arrived(b)' = Arrived(b)
    BY <1>2, <1>3, <1>4 DEF Arrived
  <2>2. ASSUME NEW c \in Backend, c # b, client[c] \in Held PROVE Arrived(c)' = Arrived(c)
    <3>1. client[c] # None
      BY <2>2 DEF Held
    <3> QED
      BY <1>3, <2>2, <3>1 DEF Arrived
  <2> QED
    BY <2>1, <2>2
<1> QED
  BY <1>5, <1>6, <1>7 DEF Account

LEMMA AccountHandle == ASSUME TypeInv, Account, NEW b \in Backend, Handle(b) PROVE Account'
<1>1. /\ bpc[b] = "handle" /\ stored' = Saved(b) /\ buffer'[b] = Tail(buffer[b])
      /\ \A c \in Backend : c # b => buffer'[c] = buffer[c] /\ stored'[c] = stored[c]
      /\ UNCHANGED <<lpc, line, cursor, client_fds, backlog, queue, client, offered, skipped>>
  BY SavedTyped DEF Handle, BackendAt, server, hist, TypeInv
<1>2. PICK s \in Seq(Nat), x \in Line, r \in Seq(Nat) :
          s = buffer[b] /\ x = Head(s) /\ s # <<>> /\ r = stored[b]
  <2>1. stored[b] \in Seq(Nat)
    BY LineNat, SeqMonotonic DEF TypeInv
  <2> QED
    BY <1>1, <2>1, SavedTyped, LinesAreNumbers
<1>3. Elems(buffer[b]) = {x} \cup Elems(buffer'[b])
  BY <1>1, <1>2, FirstLine
<1>4. stored'[b] = (IF x = Flow THEN r ELSE Append(r, x)) /\ x \in Nat
  BY <1>1, <1>2, SavedTyped, LineNat
<1>5. Elems(stored'[b]) = Elems(stored[b]) \cup (IF x = Flow THEN {} ELSE {x})
  BY <1>2, <1>4, AppendLine
<1>6. offered[b] \subseteq Alert /\ Flow \notin Alert
  BY LineNat DEF TypeInv, TypeOK, Flow
<1>7. Held' = Held /\ Waiting' = Waiting /\ \A c \in Backend : \A a : ToCome(c, a)' <=> ToCome(c, a)
  BY <1>1 DEF Held, Waiting, ToCome
<1>8. \A a \in offered[b] : a \in Arrived(b) => a \in Arrived(b)'
  BY <1>1, <1>3, <1>5, <1>6 DEF Arrived
<1>9. \A c \in Backend : c # b => Arrived(c)' = Arrived(c)
  BY <1>1 DEF Arrived
<1> QED
  BY <1>1, <1>7, <1>8, <1>9 DEF Account

LEMMA AccountStartOver ==
    ASSUME TypeInv, Account, NEW b \in Backend, StartOver(b), UNCHANGED server,
           \A c \in Backend : c # b => stored'[c] = stored[c]
    PROVE  Account'
<1>1. /\ client'[b] = None /\ offered'[b] = {}
      /\ \A c \in Backend : c # b => /\ client'[c] = client[c] /\ buffer'[c] = buffer[c]
                                     /\ offered'[c] = offered[c] /\ skipped'[c] = skipped[c]
      /\ \A k \in Conn : queue'[k] = IF k = client[b] THEN <<>> ELSE queue[k]
      /\ UNCHANGED <<lpc, line, cursor, backlog, client_fds>>
  BY DEF StartOver, TypeInv, TypeOK, server
<1>2. Held' = Held /\ Waiting' = Waiting /\ None \notin Held
  BY <1>1 DEF Held, Waiting
<1>3. ASSUME NEW c \in Backend, c # b, client[c] \in Held
      PROVE  Arrived(c)' = Arrived(c) /\ \A a : ToCome(c, a)' <=> ToCome(c, a)
  <2>1. client[c] \in Conn /\ client[c] # client[b]
    BY <1>2, <1>3 DEF TypeInv, TypeOK, Distinct
  <2> QED
    BY <1>1, <1>3, <2>1 DEF Arrived, ToCome
<1> QED
  BY <1>1, <1>2, <1>3 DEF Account

LEMMA AccountNext == TypeInv /\ Account /\ [Next]_vars => Account'
<1> SUFFICES ASSUME TypeInv, Account, [Next]_vars PROVE Account'
  OBVIOUS
<1>1. CASE \/ StartLoader \/ AcceptDone \/ AcceptFails \/ Report \/ NoReport \/ Sent
           \/ Raise \/ UNCHANGED vars
  <2>1. Held' = Held /\ Waiting' = Waiting
    BY <1>1 DEF Held, Waiting, StartLoader, AcceptDone, AcceptFails, Report, NoReport, Sent, Raise,
                server, vars
  <2> QED
    BY <1>1, <2>1, AccountSame DEF StartLoader, AcceptDone, AcceptFails, Report, NoReport, Sent,
                                   Broadcast, Raise, server, thread, hist, vars
<1>2. ASSUME NEW removed \in BOOLEAN, Down(removed) PROVE Account'
  <2>1. client_fds' = [i \in Slot |-> None] /\ backlog' = <<>>
    BY <1>2 DEF Down
  <2>2. Held' = {} /\ Waiting' = {}
    BY <2>1 DEF Held, Waiting
  <2>3. UNCHANGED <<client, offered>>
    BY <1>2 DEF Down, thread, hist
  <2> QED
    BY <2>2, <2>3 DEF Account
<1>3. ASSUME NEW b \in Backend, Exists(b) \/ Refused(b) PROVE Account'
  <2>1. Held' = Held /\ Waiting' = Waiting
    BY <1>3 DEF Held, Waiting, Exists, Refused, BackendAt, server
  <2> QED
    BY <1>3, <2>1, AccountSame DEF Exists, Refused, BackendAt, server, hist
<1>4. ASSUME NEW b \in Backend, Recv(b) PROVE Account'
  <2>1. client[b] \in Conn /\ bpc[b] = "recv" /\ UNCHANGED <<server, stored>>
    BY <1>4 DEF Recv, BackendAt, TypeInv, TypeOK
  <2> QED
    BY <1>4, <2>1, AccountTake, AccountStartOver DEF Recv, hist
<1>5. ASSUME NEW b \in Backend, HandleFails(b) \/ Crash(b) PROVE Account'
  <2>1. \A c \in Backend : c # b => stored'[c] = stored[c]
    BY <1>5, SavedTyped DEF HandleFails, Crash, BackendAt
  <2> QED
    BY <1>5, <2>1, AccountStartOver DEF HandleFails, Crash, BackendAt
<1> QED
  BY <1>1, <1>2, <1>3, <1>4, <1>5, AccountPoll, AccountAccept, AccountSend, AccountConnect, AccountHandle
     DEF Next, LoaderStep, BackendStep

\* A connected backend misses an alert only because its own socket was full.
THEOREM AlertsAccounted == Spec => []Accounted
<1>1. Account => Accounted
  BY DEF Account, Accounted, Arrived, ToCome
<1> QED
  BY <1>1, TypeInit, TypeNext, AccountInit, AccountNext, PTL DEF Spec
=============================================================================
