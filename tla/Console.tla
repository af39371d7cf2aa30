------------------------------ MODULE Console ------------------------------
(***************************************************************************)
(* The page and the backend together.  The server has a thread for every   *)
(* request: the refresh names the one that lists the alerts for it, other  *)
(* threads serve clients of the API, next to the one on the loader's       *)
(* socket.  What the page is told by stats is drawn in cards and charts    *)
(* that are left out, so its four requests for it are one that only comes  *)
(* back, or fails; the clients' requests show what stats answers.          *)
(***************************************************************************)
EXTENDS AlertStore, Dashboard

ASSUME RefreshAssumption == Refresh \subseteq Thread

vars == <<store, page>>

Init == StoreInit /\ PageInit

Client == Thread \ Refresh

\* The list of alerts a refresh asks for is read on the server ...
Serve(r) ==
    /\ "alerts" \in asked[r] /\ (get_alerts(r) \/ ReadFails(r)) /\ UNCHANGED page

\* ... and the answer reaches the page, which does not look at its status: an
\* error, a document without data, is an empty list to it.
Deliver(r) ==
    /\ op[r] \in {"ready", "failed"} /\ Return(r) /\ UNCHANGED <<db, budget>>
    /\ Arrives(r, "alerts", local[r].rows)

StatsCome(r) == "stats" \in asked[r] /\ Arrives(r, "stats", <<>>) /\ UNCHANGED store

\* The connection breaks, or fetchStats finds no latest_flows in an error: the
\* request itself fails.
Lost(r, request) ==
    /\ request \in asked[r] /\ Rejected(r, request)
    /\ MayRaise /\ UNCHANGED <<db, saves, clears>>
    /\ IF request = "alerts" THEN op[r] \in {"ready", "failed"} /\ Return(r)
                             ELSE UNCHANGED <<op, local>>

\* The loader sends an alert; a client of the API posts one, deletes them all, or
\* asks for the statistics and gets them.
Begins(t) ==
    /\ UNCHANGED page
    /\ Insert(t) \/ (t # SocketThread /\ (Delete(t) \/ stats(t)))

Continues(t) ==
    /\ UNCHANGED page
    /\ StoreStep(t) \/ (op[t] \in {"ready", "failed"} /\ Return(t) /\ UNCHANGED <<db, budget>>)

Breaks(t) ==
    /\ UNCHANGED page
    /\ WriteFails(t) \/ (op[t] = "types" /\ ReadFails(t))

PageStep ==
    /\ (\E r \in Refresh : refreshAll(r) \/ renderAlerts(r)) \/ clearAlerts
    /\ UNCHANGED store

Next ==
    \/ \E t \in Client : Begins(t) \/ Continues(t) \/ Breaks(t)
    \/ \E r \in Refresh :
        \/ Serve(r) \/ Deliver(r) \/ StatsCome(r)
        \/ \E request \in {"stats", "alerts"} : Lost(r, request)
    \/ PageStep

Spec == Init /\ [][Next]_vars

\* Threads run, the network delivers, and the page refreshes every three seconds
\* and draws what has come in.  A refresh takes a bounded number of steps.
Fairness ==
    /\ \A t \in Client : WF_vars(Continues(t))
    /\ \A r \in Refresh :
        WF_vars(Serve(r) \/ Deliver(r) \/ StatsCome(r) \/ (renderAlerts(r) /\ UNCHANGED store))
    /\ WF_vars((\E r \in Refresh : refreshAll(r)) /\ UNCHANGED store)

FairSpec == Spec /\ Fairness

\* Once nothing is saved or deleted any more, the table comes to show the newest
\* rows and keeps showing them: no older answer is left to overwrite it.
PageCatchesUp == <>[](rows = FirstRows(Newest(LIMIT)))
=============================================================================
