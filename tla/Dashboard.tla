----------------------------- MODULE Dashboard -----------------------------
(***************************************************************************)
(* The page dashboard.html: every three seconds refreshAll asks for the    *)
(* statistics and for the alerts and draws both once all answers are in.   *)
(* Nothing keeps a refresh from starting while others wait, nor an older   *)
(* one from finishing after a younger one.  The WebSocket is left out: the *)
(* page opens a plain one at /ws/, where neither backend of the repository *)
(* answers (Flask-SocketIO speaks its own protocol, under another path),   *)
(* so nothing is ever pushed to it.                                        *)
(***************************************************************************)
EXTENDS Naturals, Sequences

CONSTANTS
    Refresh,        \* bound: refreshes under way at once
    PageRows,       \* rows the table shows (10)
    MaxClicks       \* bound: uses of the clear button

ASSUME PageAssumption == PageRows \in Nat /\ MaxClicks \in Nat

VARIABLES
    asked,          \* [Refresh -> requests not yet answered: "stats", "alerts"]
    active,         \* refreshes under way
    answer,         \* [Refresh -> the alerts that have come back]
    rows,           \* of the table on the page
    clicks

refreshing == <<asked, active, answer>>
shown == <<rows, clicks>>
page == <<refreshing, shown>>

PageInit ==
    /\ asked = [r \in Refresh |-> {}] /\ active = {} /\ answer = [r \in Refresh |-> <<>>]
    /\ rows = <<>> /\ clicks = 0

refreshAll(r) ==
    /\ r \notin active /\ asked[r] = {} /\ active' = active \cup {r}
    /\ asked' = [asked EXCEPT ![r] = {"stats", "alerts"}]
    /\ UNCHANGED <<answer, shown>>

\* The answer to one request arrives; only the list of alerts is kept.
Arrives(r, request, list) ==
    /\ asked' = [asked EXCEPT ![r] = @ \ {request}]
    /\ answer' = IF request = "alerts" /\ r \in active THEN [answer EXCEPT ![r] = list] ELSE answer
    /\ UNCHANGED <<active, shown>>

\* One request fails: Promise.all rejects and nothing is drawn, whatever else
\* arrives.
Rejected(r, request) ==
    /\ active' = active \ {r} /\ asked' = [asked EXCEPT ![r] = @ \ {request}]
    /\ answer' = [answer EXCEPT ![r] = <<>>] /\ UNCHANGED shown

\* All answers are in: the cards and charts, which are left out, and the table.
FirstRows(s) == SubSeq(s, 1, IF Len(s) < PageRows THEN Len(s) ELSE PageRows)

DrawnIfLonger(r) == IF Len(answer[r]) < Len(rows) THEN rows ELSE FirstRows(answer[r])
Drawn(r) == FirstRows(answer[r])

renderAlerts(r) ==
    /\ r \in active /\ asked[r] = {}
    /\ rows' = Drawn(r) /\ active' = active \ {r} /\ answer' = [answer EXCEPT ![r] = <<>>]
    /\ UNCHANGED <<asked, clicks>>

\* The button empties the table of the page and asks the backend for nothing.
clearAlerts ==
    /\ clicks < MaxClicks /\ clicks' = clicks + 1
    /\ rows' = <<>> /\ UNCHANGED refreshing
=============================================================================
