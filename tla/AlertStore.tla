----------------------------- MODULE AlertStore -----------------------------
(***************************************************************************)
(* The Flask backend of project_submit: its SQLite table of alerts and the *)
(* threads that use it.  The socket thread saves the alerts of the loader; *)
(* a thread per HTTP request saves, lists, counts or deletes.  Every       *)
(* statement outside a transaction sees what is committed; INSERT and      *)
(* DELETE open a transaction, which needs the one write lock and is rolled *)
(* back when anything raises before commit().  An answer that is ready is  *)
(* handed to whoever asked: the Dashboard, or a client of the API.         *)
(***************************************************************************)
EXTENDS Naturals, Sequences, FiniteSets

CONSTANTS
    Thread, SocketThread, Free,
    LIMIT,          \* of get_alerts (100)
    MaxAlerts,      \* bound: alerts saved or tried
    MaxClears,      \* bound: DELETE requests
    MaxRaised       \* bound: exceptions

ASSUME StoreAssumption ==
    /\ SocketThread \in Thread /\ Free \notin Thread
    /\ LIMIT \in Nat /\ MaxAlerts \in Nat /\ MaxClears \in Nat /\ MaxRaised \in Nat

VARIABLES
    alerts,         \* ids of the committed rows, oldest first
    last_id,        \* AUTOINCREMENT: the largest id ever committed
    writer,         \* the thread that holds the write lock, or Free
    op,             \* [Thread -> where it is; "ready": the answer is complete]
    local,          \* [Thread -> the request's variables]
    emitted,        \* ids pushed as new_alarm, in order
    saves, clears, raised

db == <<alerts, last_id, writer, emitted>>
budget == <<saves, clears, raised>>
store == <<db, op, local, budget>>

\* id: of the row save_alert inserts; counts: what the statements of stats have
\* returned; rows: what get_alerts answers; cleared: history, whether a clear_all
\* was committed during the request.
NoLocal == [id |-> 0, counts |-> <<>>, rows |-> <<>>, cleared |-> FALSE]

StoreInit ==
    /\ alerts = <<>> /\ last_id = 0 /\ writer = Free /\ emitted = <<>>
    /\ op = [t \in Thread |-> "idle"] /\ local = [t \in Thread |-> NoLocal]
    /\ saves = 0 /\ clears = 0 /\ raised = 0

Goto(t, label) == op' = [op EXCEPT ![t] = label]
Known(t, r) == local' = [local EXCEPT ![t] = r]
Return(t) == Goto(t, "idle") /\ Known(t, NoLocal)

(***************************************************************************)
(* save_alert, for a message of the loader and for POST /api/alert: the    *)
(* alert is classified and located, then inserted, committed and pushed.   *)
(* A thread waits for the write lock before its INSERT.                    *)
(***************************************************************************)
IdAfterNewest == IF alerts = <<>> THEN 1 ELSE alerts[Len(alerts)] + 1
NextId == last_id + 1

Insert(t) ==
    /\ op[t] = "idle" /\ saves < MaxAlerts /\ saves' = saves + 1
    /\ writer = Free /\ writer' = t
    /\ Known(t, [NoLocal EXCEPT !.id = NextId]) /\ Goto(t, "commit")
    /\ UNCHANGED <<alerts, last_id, emitted, clears, raised>>

Commit(t) ==
    /\ op[t] = "commit" /\ writer' = Free
    /\ alerts' = Append(alerts, local[t].id) /\ last_id' = local[t].id
    /\ Goto(t, "emit")
    /\ UNCHANGED <<local, emitted, budget>>

\* socketio.emit, whether or not the row has been deleted meanwhile.
Emit(t) ==
    /\ op[t] = "emit" /\ emitted' = Append(emitted, local[t].id) /\ Return(t)
    /\ UNCHANGED <<alerts, last_id, writer, budget>>

(***************************************************************************)
(* get_alerts: one statement, the newest rows first.                       *)
(***************************************************************************)
Newest(n) == [i \in 1..(IF Len(alerts) < n THEN Len(alerts) ELSE n) |-> alerts[Len(alerts) + 1 - i]]

get_alerts(t) ==
    /\ op[t] = "idle" /\ Known(t, [NoLocal EXCEPT !.rows = Newest(LIMIT)]) /\ Goto(t, "ready")
    /\ UNCHANGED <<db, budget>>

(***************************************************************************)
(* stats: the total, then the number per type, then the flows, each in a   *)
(* statement of its own.  Of the types their sum is kept, of the flows     *)
(* nothing: see FlowReport for what is in them.                            *)
(***************************************************************************)
Count(t, label) ==
    /\ Known(t, [local[t] EXCEPT !.counts = Append(@, Len(alerts))]) /\ Goto(t, label)
    /\ UNCHANGED <<db, budget>>

stats(t) == op[t] = "idle" /\ Count(t, "types")
CountTypes(t) == op[t] = "types" /\ Count(t, "ready")

TypesFirst(counts) == [type_count |-> counts[1], total_alerts |-> counts[2]]
StatsAnswer(counts) == [total_alerts |-> counts[1], type_count |-> counts[2]]

(***************************************************************************)
(* clear_all: both tables in one transaction; the ids go on from there.    *)
(***************************************************************************)
Delete(t) ==
    /\ op[t] = "idle" /\ clears < MaxClears /\ clears' = clears + 1
    /\ writer = Free /\ writer' = t /\ Goto(t, "delete")
    /\ UNCHANGED <<alerts, last_id, emitted, local, saves, raised>>

CommitDelete(t) ==
    /\ op[t] = "delete" /\ writer' = Free /\ alerts' = <<>>
    /\ local' = [u \in Thread |-> IF op[u] \in {"types", "ready"} THEN [local[u] EXCEPT !.cleared = TRUE]
                                                                  ELSE local[u]]
    /\ Goto(t, "idle")
    /\ UNCHANGED <<last_id, emitted, budget>>

(***************************************************************************)
(* Whatever raises (the database is locked for longer than five seconds,   *)
(* above all) leaves the handler: the connection is collected, its         *)
(* transaction rolled back, and a request is answered with an error.       *)
(***************************************************************************)
MayRaise == raised < MaxRaised /\ raised' = raised + 1

Raised(t, label) ==
    /\ MayRaise
    /\ writer' = (IF writer = t THEN Free ELSE writer)
    /\ Goto(t, label) /\ Known(t, NoLocal)
    /\ UNCHANGED <<alerts, last_id, emitted, saves, clears>>

WriteFails(t) == op[t] \in {"commit", "delete"} /\ Raised(t, "idle")
ReadFails(t) == op[t] \in {"idle", "types"} /\ Raised(t, "failed")

StoreStep(t) == Commit(t) \/ Emit(t) \/ CountTypes(t) \/ CommitDelete(t)

(***************************************************************************)
(* Properties.                                                             *)
(***************************************************************************)
\* Whatever is deleted, and whichever threads save at once: no id is pushed
\* twice, and none before its row was committed.
PushedOnceStored ==
    \A i \in DOMAIN emitted :
        emitted[i] <= last_id /\ \A j \in DOMAIN emitted : emitted[i] = emitted[j] => i = j

\* Without a deletion in between, the types of an answer add up to the total or
\* to more, by what was saved between the statements: never to less.
StatsAddUp ==
    \A t \in Thread :
        LET answer == StatsAnswer(local[t].counts)
        IN  op[t] = "ready" /\ Len(local[t].counts) = 2 =>
                local[t].cleared \/ answer.type_count >= answer.total_alerts
=============================================================================
