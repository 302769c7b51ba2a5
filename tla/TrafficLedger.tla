----------------------------- MODULE TrafficLedger -----------------------------
(***************************************************************************)
(* The daily traffic (MainActivity.trafficUpdated and DailyTraffic.kt): the *)
(* activity turns the totals of the engine it is sent every second into    *)
(* differences, and a coroutine for each adds it to the row of the day.    *)
(* The traffic screen (traffic_screen.dart, traffic_history.dart) has the  *)
(* rows read from time to time; each reading first deletes the old ones.   *)
(* Upload and download are treated alike; one stands for both.             *)
(***************************************************************************)
EXTENDS EngineApi, FiniteSetsExt

CONSTANTS
    MaxTraffic,  \* traffic of the engine
    LastDay,     \* days are 0..LastDay
    FirstDays,   \* those on which a month begins
    KeptDays,    \* days before today that are kept: 31, as many as a month has
    MaxJobs,     \* coroutines in progress at the same time
    MaxReads     \* readings in progress at the same time

ASSUME LedgerAssumption ==
    /\ MaxTraffic \in Nat /\ LastDay \in Nat /\ MaxJobs \in Nat \ {0} /\ MaxReads \in Nat
    /\ 0 \in FirstDays /\ FirstDays \subseteq 0..LastDay /\ KeptDays \in Nat
    /\ \A d \in 0..LastDay : \E f \in FirstDays : f <= d /\ d - f < KeptDays

VARIABLES
    total,       \* external: the engine's total of this process
    moved,       \* history: all the engine ever moved
    today, latest, \* the date here, and the latest it has been
    connectedDue,\* stateChanged(Connected) is on its way
    lastTraffic, \* lastTrafficTx
    jobs,        \* the coroutines
    daily,       \* table daily_traffic: day -> row, or NoRow
    reads,       \* getTrafficHistory in progress
    days,        \* _days of TrafficHistory
    added        \* history: days to which something was ever added

dateVars == <<today, latest>>
jobVars == <<jobs, added>>
historyVars == <<reads, days>>
ledgerVars == <<total, moved, dateVars, connectedDue, lastTraffic, jobVars, daily, historyVars>>

Days == 0..LastDay
NoRow == -1
Amount(row) == IF row = NoRow THEN 0 ELSE row
Sum(table, ds) == MapThenSumSet(LAMBDA d : Amount(table[d]), ds)
\* The days of the month that a day is in: no month begins between them.
Month(d) == {e \in Days : \A f \in FirstDays : f <= e <=> f <= d}
NoJob == [at |-> "idle", day |-> 0, delta |-> 0, entry |-> 0]
NoRead == [at |-> "idle", cutoff |-> 0, rows |-> [d \in Days |-> NoRow]]

LedgerInit ==
    /\ total = 0 /\ moved = 0 /\ today = 0 /\ latest = 0 /\ connectedDue = FALSE
    /\ lastTraffic = 0
    /\ jobs = [j \in 1..MaxJobs |-> NoJob] /\ daily = [d \in Days |-> NoRow]
    /\ reads = [r \in 1..MaxReads |-> NoRead] /\ days = [d \in Days |-> NoRow]
    /\ added = {}

-----------------------------------------------------------------------------
\* The engine's total survives a restart unless the process died.
LedgerEngineStarts ==
    /\ total' \in {total, 0} /\ connectedDue' = TRUE
    /\ UNCHANGED <<moved, dateVars, lastTraffic, jobVars, daily, historyVars>>

Move ==
    /\ up /\ moved < MaxTraffic /\ moved' = moved + 1 /\ total' = total + 1
    /\ UNCHANGED <<dateVars, connectedDue, lastTraffic, jobVars, daily, historyVars>>

Midnight ==
    /\ today < LastDay /\ today' = today + 1
    /\ latest' = IF latest < today' THEN today' ELSE latest
    /\ UNCHANGED <<total, moved, connectedDue, lastTraffic, jobVars, daily, historyVars>>

\* The device is taken to a place where it is still the day before.
Travel ==
    /\ today = latest /\ today > 0 /\ today' = today - 1
    /\ UNCHANGED <<latest, total, moved, connectedDue, lastTraffic, jobVars, daily, historyVars>>

-----------------------------------------------------------------------------
(* trafficUpdated. *)

\* stateChanged(Connected)
Connected ==
    /\ connectedDue /\ connectedDue' = FALSE /\ lastTraffic' = 0
    /\ UNCHANGED <<total, moved, dateVars, jobVars, daily, historyVars>>

\* Mutant: the first total is taken for a difference.
DeltaFromZero == total - lastTraffic

\* Nothing is known of what moved before the first total.
Delta == IF lastTraffic > 0 THEN total - lastTraffic ELSE 0

\* trafficUpdated
TrafficUpdated ==
    /\ up /\ lastTraffic' = total
    /\ IF Delta > 0
       THEN \E j \in DOMAIN jobs :
               /\ jobs[j].at = "idle"
               /\ jobs' = [jobs EXCEPT ![j] = [NoJob EXCEPT !.at = "read", !.day = today,
                                                            !.delta = Delta]]
       ELSE UNCHANGED jobs
    /\ UNCHANGED <<total, moved, dateVars, connectedDue, daily, added, historyVars>>

\* getByDate, or a new row.
GetByDate == \E j \in DOMAIN jobs :
    /\ jobs[j].at = "read"
    /\ jobs' = [jobs EXCEPT ![j].at = "write", ![j].entry = Amount(daily[jobs[j].day])]
    /\ UNCHANGED <<total, moved, dateVars, connectedDue, lastTraffic, daily, added, historyVars>>

\* upsert
Upsert == \E j \in DOMAIN jobs :
    /\ jobs[j].at = "write"
    /\ daily' = [daily EXCEPT ![jobs[j].day] = jobs[j].entry + jobs[j].delta]
    /\ added' = added \cup {jobs[j].day}
    /\ jobs' = [jobs EXCEPT ![j] = NoJob]
    /\ UNCHANGED <<total, moved, dateVars, connectedDue, lastTraffic, historyVars>>

-----------------------------------------------------------------------------
(* getTrafficHistory, which the screen asks for when the app opens and after
   every tenth update. *)

NextRead(r, rec) == reads' = [reads EXCEPT ![r] = rec]

\* Mutant: a day less is kept.
CutoffOneLess == today - (KeptDays - 1)
Cutoff == today - KeptDays

GetTrafficHistory == \E r \in DOMAIN reads :
    /\ reads[r].at = "idle"
    /\ NextRead(r, [NoRead EXCEPT !.at = "delete", !.cutoff = Cutoff])
    /\ UNCHANGED <<total, moved, dateVars, connectedDue, lastTraffic, jobVars, daily, days>>

DeleteBefore == \E r \in DOMAIN reads :
    /\ reads[r].at = "delete"
    /\ daily' = [d \in Days |-> IF d < reads[r].cutoff THEN NoRow ELSE daily[d]]
    /\ NextRead(r, [NoRead EXCEPT !.at = "getAll"])
    /\ UNCHANGED <<total, moved, dateVars, connectedDue, lastTraffic, jobVars, days>>

GetAll == \E r \in DOMAIN reads :
    /\ reads[r].at = "getAll"
    /\ NextRead(r, [NoRead EXCEPT !.at = "answer", !.rows = daily])
    /\ UNCHANGED <<total, moved, dateVars, connectedDue, lastTraffic, jobVars, daily, days>>

\* load of TrafficHistory
LoadHistory == \E r \in DOMAIN reads :
    /\ reads[r].at = "answer" /\ days' = reads[r].rows /\ NextRead(r, NoRead)
    /\ UNCHANGED <<total, moved, dateVars, connectedDue, lastTraffic, jobVars, daily>>

\* onDestroy cancels the coroutines; the next activity starts from nothing.
Recreate ==
    /\ lastTraffic' = 0 /\ jobs' = [j \in DOMAIN jobs |-> NoJob]
    /\ reads' = [r \in DOMAIN reads |-> NoRead] /\ days' = [d \in Days |-> NoRow]
    /\ UNCHANGED <<total, moved, dateVars, connectedDue, daily, added>>

-----------------------------------------------------------------------------
LedgerNext ==
    /\ \/ Move \/ Midnight \/ Travel \/ Connected \/ TrafficUpdated \/ GetByDate \/ Upsert
       \/ GetTrafficHistory \/ DeleteBefore \/ GetAll \/ LoadHistory \/ Recreate
    /\ UNCHANGED apiVars

Job == [at : {"idle", "read", "write"}, day : Days, delta : 0..MaxTraffic, entry : 0..MaxTraffic]
Rows == [Days -> NoRow..MaxTraffic]
LedgerTypeOK ==
    /\ total \in 0..moved /\ moved \in 0..MaxTraffic
    /\ today \in Days /\ latest \in {today, today + 1}
    /\ connectedDue \in BOOLEAN /\ lastTraffic \in 0..MaxTraffic
    /\ jobs \in [1..MaxJobs -> Job] /\ daily \in Rows /\ days \in Rows /\ added \subseteq Days
    /\ \A r \in DOMAIN reads :
          /\ reads[r].at \in {"idle", "delete", "getAll", "answer"}
          /\ reads[r].cutoff \in (-KeptDays)..LastDay /\ reads[r].rows \in Rows

-----------------------------------------------------------------------------
(* Properties. *)

\* The days never add up to more than the engine moved, in the table and on the
\* screen: through reconnections that keep or reset its total, new activities that
\* know no earlier total, and coroutines that overlap - which may lose traffic,
\* never invent it.
NeverOvercounts == Sum(daily, Days) <= moved /\ Sum(days, Days) <= moved

\* "This month" can be added up: no reading ever deletes a day of the month it is
\* here, at a month's end or where the date goes back.
MonthIsWhole == \A d \in Month(today) \cap added : daily[d] # NoRow
===============================================================================
