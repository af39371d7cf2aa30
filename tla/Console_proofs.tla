--------------------------- MODULE Console_proofs ---------------------------
(***************************************************************************)
(* Theorems about Console, for any number of threads, rows and refreshes:  *)
(* what the backend pushes, and what its statistics add up to.             *)
(***************************************************************************)
EXTENDS Console, SequenceTheorems, TLAPS

-----------------------------------------------------------------------------
(***************************************************************************)
(* The invariant.  The thread in a transaction is the one that holds the   *)
(* write lock, so the id it has chosen is still the next one when it       *)
(* commits; an id that is committed and not pushed belongs to one thread.  *)
(***************************************************************************)
Local == [id : Nat, counts : Seq(Nat), rows : Seq(Nat), cleared : BOOLEAN]

Typed ==
    /\ alerts \in Seq(Nat) /\ last_id \in Nat /\ emitted \in Seq(Nat)
    /\ op \in [Thread -> {"idle", "commit", "emit", "ready", "types", "delete", "failed"}]
    /\ local \in [Thread -> Local]

Locked == \A t \in Thread : op[t] \in {"commit", "delete"} => writer = t

Numbered ==
    \A t \in Thread :
        /\ op[t] = "commit" => local[t].id = last_id + 1
        /\ op[t] = "emit" => /\ local[t].id <= last_id
                             /\ \A i \in DOMAIN emitted : emitted[i] # local[t].id
                             /\ \A u \in Thread : op[u] = "emit" /\ local[u].id = local[t].id => u = t

Counted ==
    \A t \in Thread :
        /\ op[t] \in {"idle", "delete"} => local[t] = NoLocal
        /\ op[t] = "types" => /\ Len(local[t].counts) = 1
                              /\ local[t].cleared \/ local[t].counts[1] <= Len(alerts)

Inv == Typed /\ Locked /\ Numbered /\ PushedOnceStored /\ Counted /\ StatsAddUp

LEMMA NoLocalTyped == NoLocal \in Local /\ Len(NoLocal.counts) = 0 /\ NoLocal.id = 0
BY DEF NoLocal, Local

LEMMA Appended ==
    ASSUME NEW s \in Seq(Nat), NEW n \in Nat
    PROVE  \E a \in Seq(Nat) : /\ a = Append(s, n) /\ Len(a) = Len(s) + 1 /\ a[Len(s) + 1] = n
                               /\ \A i \in 1..Len(s) : a[i] = s[i]
<1>1. /\ Append(s, n) \in Seq(Nat) /\ Len(Append(s, n)) = Len(s) + 1
      /\ Append(s, n)[Len(s) + 1] = n /\ \A i \in 1..Len(s) : Append(s, n)[i] = s[i]
  BY AppendProperties
<1> WITNESS Append(s, n) \in Seq(Nat)
<1> QED
  BY <1>1

LEMMA InvInit == Init => Inv
<1> SUFFICES ASSUME Init PROVE Inv
  OBVIOUS
<1>1. /\ alerts = <<>> /\ last_id = 0 /\ emitted = <<>>
      /\ op = [t \in Thread |-> "idle"] /\ local = [t \in Thread |-> NoLocal]
  BY DEF Init, StoreInit
<1>2. Typed
  BY <1>1, NoLocalTyped DEF Typed
<1>3. Locked /\ Numbered /\ Counted
  BY <1>1 DEF Locked, Numbered, Counted
<1>4. PushedOnceStored /\ StatsAddUp
  BY <1>1 DEF PushedOnceStored, StatsAddUp
<1> QED
  BY <1>2, <1>3, <1>4 DEF Inv

-----------------------------------------------------------------------------
\* What a thread may know where it is.
Bears(label, r) ==
    /\ label = "idle" => r = NoLocal
    /\ label = "types" => Len(r.counts) = 1 /\ r.counts[1] <= Len(alerts)
    /\ label = "ready" /\ Len(r.counts) = 2 => r.cleared \/ r.counts[2] >= r.counts[1]

LEMMA WithRows ==
    ASSUME NEW q \in Local, NEW s \in Seq(Nat)
    PROVE  [q EXCEPT !.rows = s] \in Local /\ [q EXCEPT !.rows = s].counts = q.counts
BY DEF Local

LEMMA WithCounts ==
    ASSUME NEW q \in Local, NEW s \in Seq(Nat)
    PROVE  /\ [q EXCEPT !.counts = s] \in Local /\ [q EXCEPT !.counts = s].counts = s
           /\ [q EXCEPT !.counts = s].cleared = q.cleared
BY DEF Local

\* A thread that only reads, fails or returns: the tables stay as they are, and
\* what it knows afterwards bears the invariant.
LEMMA OwnStep ==
    ASSUME Inv, NEW t \in Thread, UNCHANGED <<alerts, last_id, emitted>>,
           writer' = writer \/ writer = t,
           NEW label \in {"idle", "ready", "types", "failed"}, NEW r \in Local,
           op' = [op EXCEPT ![t] = label], local' = [local EXCEPT ![t] = r],
           Bears(label, r)
    PROVE  Inv'
<1>1. /\ op'[t] = label /\ local'[t] = r
      /\ \A u \in Thread : u # t => op'[u] = op[u] /\ local'[u] = local[u]
  BY DEF Inv, Typed
<1>2. Typed'
  BY DEF Inv, Typed
<1>3. Locked'
  BY <1>1 DEF Inv, Locked
<1>4. Numbered'
  BY <1>1 DEF Inv, Numbered
<1>5. PushedOnceStored'
  BY DEF Inv, PushedOnceStored
<1>6. Counted'
  BY <1>1 DEF Inv, Counted, Bears
<1>7. StatsAddUp'
  BY <1>1 DEF Inv, StatsAddUp, StatsAnswer, Bears
<1> QED
  BY <1>2, <1>3, <1>4, <1>5, <1>6, <1>7 DEF Inv

LEMMA NewestTyped == ASSUME Typed, NEW n \in Nat PROVE Newest(n) \in Seq(Nat)
<1>1. Len(alerts) \in Nat /\ \A i \in 1..Len(alerts) : alerts[i] \in Nat
  BY DEF Typed
<1>2. PICK m \in Nat : m = (IF Len(alerts) < n THEN Len(alerts) ELSE n) /\ m <= Len(alerts)
  BY <1>1
<1>3. \A i \in 1..m : Len(alerts) + 1 - i \in 1..Len(alerts)
  BY <1>1, <1>2
<1>4. [i \in 1..m |-> alerts[Len(alerts) + 1 - i]] \in Seq(Nat)
  BY <1>1, <1>3, IsASeq
<1> QED
  BY <1>2, <1>4 DEF Newest

LEMMA ReadStep == ASSUME Inv, NEW t \in Thread, get_alerts(t) \/ stats(t) PROVE Inv'
<1>1. CASE get_alerts(t)
  <2>1. Newest(LIMIT) \in Seq(Nat)
    BY NewestTyped, StoreAssumption DEF Inv, StoreAssumption
  <2>2. PICK r \in Local : r = [NoLocal EXCEPT !.rows = Newest(LIMIT)] /\ r.counts = NoLocal.counts
    BY <2>1, NoLocalTyped, WithRows
  <2>3. Bears("ready", r)
    BY <2>2, NoLocalTyped DEF Bears
  <2>4. /\ op' = [op EXCEPT ![t] = "ready"] /\ local' = [local EXCEPT ![t] = r]
        /\ UNCHANGED <<alerts, last_id, emitted, writer>>
    BY <1>1, <2>2 DEF get_alerts, Known, Goto, db
  <2> QED
    BY <2>3, <2>4, OwnStep
<1>2. CASE stats(t)
  <2>1. PICK n \in Nat : n = Len(alerts)
    BY DEF Inv, Typed
  <2>2. local[t] = NoLocal
    BY <1>2 DEF stats, Inv, Counted
  <2>7. PICK e \in Seq(Nat) : e = NoLocal.counts /\ Len(e) = 0
    BY NoLocalTyped DEF Local
  <2>3. PICK s \in Seq(Nat) : s = Append(NoLocal.counts, n) /\ Len(s) = 1 /\ s[1] = n
    <3>1. PICK a \in Seq(Nat) : a = Append(e, n) /\ Len(a) = Len(e) + 1 /\ a[Len(e) + 1] = n
      BY Appended
    <3> WITNESS a \in Seq(Nat)
    <3> QED
      BY <2>7, <3>1
  <2>4. PICK r \in Local : r = [NoLocal EXCEPT !.counts = s] /\ r.counts = s
    BY NoLocalTyped, WithCounts
  <2>5. Bears("types", r)
    BY <2>1, <2>3, <2>4 DEF Bears
  <2>6. /\ op' = [op EXCEPT ![t] = "types"] /\ local' = [local EXCEPT ![t] = r]
        /\ UNCHANGED <<alerts, last_id, emitted, writer>>
    BY <1>2, <2>1, <2>2, <2>3, <2>4 DEF stats, Count, Known, Goto, db
  <2> QED
    BY <2>5, <2>6, OwnStep
<1> QED
  BY <1>1, <1>2

LEMMA CountStep == ASSUME Inv, NEW t \in Thread, CountTypes(t) PROVE Inv'
<1>1. PICK n \in Nat, q \in Local : n = Len(alerts) /\ q = local[t]
  BY DEF Inv, Typed
<1>2. Len(q.counts) = 1 /\ (q.cleared \/ q.counts[1] <= n)
  BY <1>1 DEF CountTypes, Inv, Counted
<1>3. PICK s \in Seq(Nat) : s = q.counts
  BY DEF Local
<1>4. Len(s) = 1
  BY <1>2, <1>3
<1>5. PICK a \in Seq(Nat) : /\ a = Append(s, n) /\ a[Len(s) + 1] = n
                            /\ \A i \in 1..Len(s) : a[i] = s[i]
  BY Appended
<1>6. a[1] = s[1] /\ a[2] = n
  BY <1>4, <1>5
<1>7. PICK r \in Local : r = [q EXCEPT !.counts = a] /\ r.cleared = q.cleared /\ r.counts = a
  BY WithCounts
<1>8. Bears("ready", r)
  BY <1>2, <1>3, <1>7, <1>6 DEF Bears
<1>9. /\ op' = [op EXCEPT ![t] = "ready"] /\ local' = [local EXCEPT ![t] = r]
      /\ UNCHANGED <<alerts, last_id, emitted, writer>>
  BY <1>1, <1>3, <1>5, <1>7 DEF CountTypes, Count, Known, Goto, db
<1> QED
  BY <1>8, <1>9, OwnStep

\* A request returns, or fails with what it held given back.
LEMMA LeaveStep ==
    ASSUME Inv, NEW t \in Thread, NEW label \in {"idle", "failed"}, Goto(t, label), Known(t, NoLocal),
           writer' = writer \/ writer = t, UNCHANGED <<alerts, last_id, emitted>>
    PROVE  Inv'
<1>1. Bears(label, NoLocal)
  BY DEF Bears
<1> QED
  BY <1>1, NoLocalTyped, OwnStep DEF Goto, Known

-----------------------------------------------------------------------------
LEMMA InsertStep == ASSUME Inv, NEW t \in Thread, Insert(t) PROVE Inv'
<1>1. PICK r \in Local : r = [NoLocal EXCEPT !.id = NextId] /\ r.id = last_id + 1
  <2>1. PICK n \in Nat : n = NextId /\ n = last_id + 1
    BY DEF NextId, Inv, Typed
  <2>2. [NoLocal EXCEPT !.id = n] \in Local /\ [NoLocal EXCEPT !.id = n].id = n
    BY NoLocalTyped DEF Local
  <2> QED
    BY <2>1, <2>2
<1>2. /\ local' = [local EXCEPT ![t] = r] /\ op' = [op EXCEPT ![t] = "commit"]
      /\ writer = Free /\ writer' = t /\ UNCHANGED <<alerts, last_id, emitted>>
  BY <1>1 DEF Insert, Known, Goto
<1>3. /\ op'[t] = "commit" /\ local'[t] = r
      /\ \A u \in Thread : u # t => op'[u] = op[u] /\ local'[u] = local[u]
  BY <1>2 DEF Inv, Typed
<1>4. Typed'
  BY <1>2 DEF Inv, Typed
<1>5. Locked'
  BY <1>2, <1>3, StoreAssumption DEF Inv, Locked, StoreAssumption
<1>6. Numbered'
  <2>1. ASSUME NEW u \in Thread, op'[u] = "commit" PROVE local'[u].id = last_id' + 1
    BY <1>1, <1>2, <1>3, <2>1 DEF Inv, Numbered
  <2>2. ASSUME NEW u \in Thread, op'[u] = "emit"
        PROVE  /\ local'[u].id <= last_id' /\ \A i \in DOMAIN emitted' : emitted'[i] # local'[u].id
               /\ \A v \in Thread : op'[v] = "emit" /\ local'[v].id = local'[u].id => v = u
    <3>1. u # t /\ op[u] = "emit" /\ local'[u] = local[u]
      BY <1>3, <2>2
    <3> QED
      BY <1>2, <1>3, <3>1 DEF Inv, Numbered
  <2> QED
    BY <2>1, <2>2 DEF Numbered
<1>7. PushedOnceStored' /\ Counted' /\ StatsAddUp'
  BY <1>2, <1>3 DEF Inv, PushedOnceStored, Counted, StatsAddUp
<1> QED
  BY <1>4, <1>5, <1>6, <1>7 DEF Inv

\* The id that is committed is newer than all before it.
LEMMA CommitStep == ASSUME Inv, NEW t \in Thread, Commit(t) PROVE Inv'
<1>1. /\ op[t] = "commit" /\ op' = [op EXCEPT ![t] = "emit"] /\ writer = t
      /\ last_id' = last_id + 1 /\ local[t].id = last_id + 1 /\ last_id \in Nat
      /\ UNCHANGED <<local, emitted>> /\ alerts' = Append(alerts, last_id + 1)
  BY DEF Commit, Goto, Inv, Locked, Numbered, Typed
<1>2. op'[t] = "emit" /\ \A u \in Thread : u # t => op'[u] = op[u] /\ op[u] \notin {"commit", "delete"}
  BY <1>1 DEF Inv, Typed, Locked
<1>3. alerts' \in Seq(Nat) /\ Len(alerts') = Len(alerts) + 1 /\ Len(alerts) \in Nat
  BY <1>1 DEF Inv, Typed
<1>4. Typed'
  BY <1>1, <1>3 DEF Inv, Typed
<1>5. Locked'
  BY <1>2 DEF Locked
<1>6. \A u \in Thread : local[u].id \in Nat
  BY DEF Inv, Typed, Local
<1>7. \A i \in DOMAIN emitted : emitted[i] \in Nat /\ emitted[i] <= last_id
  BY DEF Inv, Typed, PushedOnceStored
<1>8. Numbered'
  BY <1>1, <1>2, <1>6, <1>7 DEF Inv, Numbered
<1>9. PushedOnceStored'
  BY <1>1, <1>7 DEF Inv, PushedOnceStored
<1>10. ASSUME NEW u \in Thread, op'[u] = "types"
       PROVE  Len(local'[u].counts) = 1 /\ (local'[u].cleared \/ local'[u].counts[1] <= Len(alerts'))
  <2>1. op[u] = "types" /\ local'[u] = local[u] /\ local[u].counts \in Seq(Nat)
    BY <1>1, <1>2, <1>10 DEF Inv, Typed, Local
  <2>2. Len(local[u].counts) = 1 /\ (local[u].cleared \/ local[u].counts[1] <= Len(alerts))
    BY <2>1 DEF Inv, Counted
  <2>3. local[u].counts[1] \in Nat
    BY <2>1, <2>2
  <2> QED
    BY <1>3, <2>1, <2>2, <2>3
<1>11. Counted'
  BY <1>1, <1>2, <1>10 DEF Inv, Counted
<1>12. StatsAddUp'
  BY <1>1, <1>2 DEF Inv, StatsAddUp
<1> QED
  BY <1>4, <1>5, <1>8, <1>9, <1>11, <1>12 DEF Inv

LEMMA EmitStep == ASSUME Inv, NEW t \in Thread, Emit(t) PROVE Inv'
<1>1. PICK n \in Nat : /\ n = local[t].id /\ emitted' = Append(emitted, n) /\ n <= last_id
                       /\ \A i \in DOMAIN emitted : emitted[i] # n
                       /\ \A u \in Thread : op[u] = "emit" /\ local[u].id = n => u = t
  BY DEF Emit, Inv, Typed, Local, Numbered
<1>2. /\ op' = [op EXCEPT ![t] = "idle"] /\ local' = [local EXCEPT ![t] = NoLocal]
      /\ UNCHANGED <<alerts, last_id, writer>>
  BY DEF Emit, Return, Goto, Known
<1>3. /\ op'[t] = "idle" /\ local'[t] = NoLocal
      /\ \A u \in Thread : u # t => op'[u] = op[u] /\ local'[u] = local[u]
  BY <1>2 DEF Inv, Typed
<1>4. /\ emitted' \in Seq(Nat) /\ Len(emitted) \in Nat
      /\ DOMAIN emitted' = DOMAIN emitted \cup {Len(emitted) + 1} /\ DOMAIN emitted = 1..Len(emitted)
      /\ emitted'[Len(emitted) + 1] = n /\ \A i \in DOMAIN emitted : emitted'[i] = emitted[i]
  <2>1. PICK s \in Seq(Nat) : s = emitted
    BY DEF Inv, Typed
  <2>2. PICK a \in Seq(Nat) : a = Append(s, n) /\ Len(a) = Len(s) + 1 /\ a[Len(s) + 1] = n
                              /\ \A i \in 1..Len(s) : a[i] = s[i]
    BY Appended
  <2>3. DOMAIN a = 1..(Len(s) + 1) /\ DOMAIN s = 1..Len(s) /\ Len(s) \in Nat
    BY <2>2
  <2>4. 1..(Len(s) + 1) = 1..Len(s) \cup {Len(s) + 1}
    BY <2>3
  <2> QED
    BY <1>1, <2>1, <2>2, <2>3, <2>4
<1>5. Typed'
  BY <1>2, <1>4, NoLocalTyped DEF Inv, Typed
<1>6. Locked'
  BY <1>2, <1>3 DEF Inv, Locked
<1>7. Numbered'
  BY <1>1, <1>2, <1>3, <1>4 DEF Inv, Numbered
<1>8. PushedOnceStored'
  BY <1>1, <1>2, <1>4 DEF Inv, PushedOnceStored
<1>9. Counted' /\ StatsAddUp'
  BY <1>2, <1>3 DEF Inv, Counted, StatsAddUp
<1> QED
  BY <1>5, <1>6, <1>7, <1>8, <1>9 DEF Inv

LEMMA DeleteStep == ASSUME Inv, NEW t \in Thread, Delete(t) PROVE Inv'
<1>1. /\ op[t] = "idle" /\ op' = [op EXCEPT ![t] = "delete"] /\ writer = Free /\ writer' = t
      /\ UNCHANGED <<alerts, last_id, emitted, local>>
  BY DEF Delete, Goto
<1>2. op'[t] = "delete" /\ \A u \in Thread : u # t => op'[u] = op[u]
  BY <1>1 DEF Inv, Typed
<1>3. Typed'
  BY <1>1 DEF Inv, Typed
<1>4. Locked'
  BY <1>1, <1>2, StoreAssumption DEF Inv, Locked, StoreAssumption
<1>5. Numbered' /\ PushedOnceStored' /\ Counted' /\ StatsAddUp'
  BY <1>1, <1>2 DEF Inv, Numbered, PushedOnceStored, Counted, StatsAddUp
<1> QED
  BY <1>3, <1>4, <1>5 DEF Inv

\* A deletion marks the requests that are counting.
LEMMA CommitDeleteStep == ASSUME Inv, NEW t \in Thread, CommitDelete(t) PROVE Inv'
<1>1. /\ op[t] = "delete" /\ op' = [op EXCEPT ![t] = "idle"] /\ writer = t /\ alerts' = <<>>
      /\ UNCHANGED <<last_id, emitted>>
  BY DEF CommitDelete, Goto, Inv, Locked
<1>2. op'[t] = "idle" /\ \A u \in Thread : u # t => op'[u] = op[u] /\ op[u] \notin {"commit", "delete"}
  BY <1>1 DEF Inv, Typed, Locked
<1>3. \A u \in Thread : /\ [local[u] EXCEPT !.cleared = TRUE] \in Local
                        /\ [local[u] EXCEPT !.cleared = TRUE].cleared = TRUE
                        /\ [local[u] EXCEPT !.cleared = TRUE].counts = local[u].counts
                        /\ [local[u] EXCEPT !.cleared = TRUE].id = local[u].id
  BY DEF Inv, Typed, Local
<1>4. \A u \in Thread : local'[u] = IF op[u] \in {"types", "ready"} THEN [local[u] EXCEPT !.cleared = TRUE]
                                                                    ELSE local[u]
  BY DEF CommitDelete
<1>5. local' \in [Thread -> Local]
  BY <1>3 DEF CommitDelete, Inv, Typed
<1>6. Typed'
  <2>1. alerts' \in Seq(Nat) /\ last_id' \in Nat /\ emitted' \in Seq(Nat)
    BY <1>1, EmptySeq DEF Inv, Typed
  <2> QED
    BY <1>1, <1>5, <2>1 DEF Inv, Typed
<1>7. Locked'
  BY <1>2 DEF Locked
<1>8. \A u \in Thread : local'[u].id = local[u].id /\ local'[u].counts = local[u].counts
  BY <1>3, <1>4
<1>9. Numbered' /\ PushedOnceStored'
  BY <1>1, <1>2, <1>8 DEF Inv, Numbered, PushedOnceStored
<1>10. Counted'
  BY <1>1, <1>2, <1>3, <1>4, <1>8 DEF Inv, Counted
<1>11. StatsAddUp'
  BY <1>1, <1>2, <1>3, <1>4 DEF StatsAddUp
<1> QED
  BY <1>6, <1>7, <1>9, <1>10, <1>11 DEF Inv

\* The page reads answers and changes nothing of the store.
LEMMA StoreSame == ASSUME Inv, UNCHANGED <<db, op, local>> PROVE Inv'
BY DEF Inv, Typed, Locked, Numbered, PushedOnceStored, Counted, StatsAddUp, db

LEMMA FailStep == ASSUME Inv, NEW t \in Thread, WriteFails(t) \/ ReadFails(t) PROVE Inv'
<1>1. PICK label \in {"idle", "failed"} : Raised(t, label)
  BY DEF WriteFails, ReadFails
<1>2. /\ Goto(t, label) /\ Known(t, NoLocal) /\ UNCHANGED <<alerts, last_id, emitted>>
      /\ writer' = writer \/ writer = t
  BY <1>1 DEF Raised
<1> QED
  BY <1>2, LeaveStep

LEMMA ReturnStep == ASSUME Inv, NEW t \in Thread, Return(t), UNCHANGED db PROVE Inv'
BY LeaveStep DEF Return, db

LEMMA InvNext == Inv /\ [Next]_vars => Inv'
<1> SUFFICES ASSUME Inv, [Next]_vars PROVE Inv'
  OBVIOUS
<1>1. CASE UNCHANGED vars \/ PageStep
  BY <1>1, StoreSame DEF vars, PageStep, store
<1>2. ASSUME NEW t \in Client, Begins(t) \/ Continues(t) \/ Breaks(t) PROVE Inv'
  <2>1. t \in Thread
    BY DEF Client
  <2> QED
    BY <1>2, <2>1, InsertStep, DeleteStep, ReadStep, CommitStep, EmitStep, CountStep, CommitDeleteStep,
       ReturnStep, FailStep DEF Begins, Continues, Breaks, StoreStep
<1>3. ASSUME NEW r \in Refresh, Serve(r) \/ Deliver(r) \/ StatsCome(r)
      PROVE  Inv'
  BY <1>3, RefreshAssumption, ReadStep, FailStep, ReturnStep, StoreSame DEF Serve, Deliver, StatsCome, store
<1>4. ASSUME NEW r \in Refresh, NEW request \in {"stats", "alerts"}, Lost(r, request)
      PROVE  Inv'
  BY <1>4, RefreshAssumption, ReturnStep, StoreSame DEF Lost
<1> QED
  BY <1>1, <1>2, <1>3, <1>4 DEF Next

-----------------------------------------------------------------------------
\* Whatever is deleted and whichever threads save at once, an alert is pushed to
\* the browsers at most once, and after its row.
THEOREM PushesAreStored == Spec => []PushedOnceStored
<1>1. Inv => PushedOnceStored
  BY DEF Inv
<1> QED
  BY <1>1, InvInit, InvNext, PTL DEF Spec

\* Without a deletion in between, the types of an answer of stats never add up to
\* less than its total.
THEOREM StatisticsAddUp == Spec => []StatsAddUp
<1>1. Inv => StatsAddUp
  BY DEF Inv
<1> QED
  BY <1>1, InvInit, InvNext, PTL DEF Spec
=============================================================================
