---------------------------- MODULE PaperCampaign ----------------------------
(***************************************************************************)
(* The records of a prospective paper campaign: Engine.initialize,         *)
(* record_session and campaign (signal_foundry/trading/engine.py,          *)
(* trading/campaign.py), as the worker entry runs them on the journal.     *)
(*                                                                         *)
(* Each journal.set is one transaction.  The worker can be killed between  *)
(* two of them, and the operator may call the operation again.  A day has  *)
(* three stretches: before the official close, the minute after it, and    *)
(* the rest of the day.                                                    *)
(***************************************************************************)
EXTENDS Integers, FiniteSets

CONSTANTS LastDay,     \* bound: the last calendar day
          Sessions,    \* the days the calendar schedules
          Equities,    \* values of the account's equity
          MaxDates,    \* the campaign's date budget (366)
          MaxReports,  \* bound: reports in the artifact directory
          None

Days == 0..LastDay

ASSUME CalendarAssumption ==
    /\ LastDay \in Nat
    /\ Sessions \subseteq Days
    /\ MaxDates \in Nat /\ MaxReports \in Nat

VARIABLES
    \* the journal
    config, code, created, state,   \* what initialize records
    session,      \* session[d]: the observation of day d, or None
    dates,        \* observed_dates
    report,       \* the campaign key: the report last published, or None
    last_action,  \* the operation that last returned normally
    artifacts,    \* the artifact directory
    \* the worker
    op, pc, obs, date, ticks,
    \* the world
    time, flat, equity,
    closed        \* closed[d]: whether the account was flat at the close of d

identity == <<config, code, created, state>>
records  == <<session, dates, report>>
world    == <<time, flat, equity, closed>>
vars     == <<identity, records, last_action, artifacts, op, pc, obs, date, ticks, world>>

Observation == [flat : BOOLEAN, equity : Equities]

ASSUME NoneAssumption == None \notin Observation

Day(t)     == t \div 3
Open(d)    == 3 * d
Closing(d) == 3 * d + 1     \* the minute after the official close
Evening(d) == 3 * d + 2

\* campaign: scheduled sessions that closed between creation and now.
Scheduled(now) == {d \in Sessions : created < Closing(d) /\ Closing(d) <= now}

\* A report holds the observations themselves; None stands at every other day.
Reports == [reported_at : Nat, scheduled : SUBSET Sessions, missing : SUBSET Sessions,
            observations : [Days -> Observation \cup {None}]]

Init ==
    /\ config = None /\ code = None /\ created = None /\ state = None
    /\ session = [d \in Days |-> None]
    /\ dates = {}
    /\ report = None
    /\ last_action = None
    /\ artifacts = {}
    /\ op = "none" /\ pc = "idle" /\ obs = None /\ date = None
    /\ ticks = 0
    /\ time = 0 /\ flat = TRUE /\ equity \in Equities
    /\ closed = [d \in Days |-> None]

-----------------------------------------------------------------------------
Begin(o, point) ==
    /\ pc = "idle"
    /\ op' = o /\ pc' = point
    /\ UNCHANGED <<identity, records, last_action, artifacts, obs, date, ticks,
                   world>>

\* bound: the recorded identities are this configuration's and this code's.
Bound == config # None /\ code # None

InitializeNew   == config = None /\ Begin("initialize", "i_config")
InitializeAgain == config # None /\ Bound /\ Begin("initialize", "done")
RecordBegin     == Bound /\ Begin("record-session", "r_account")
CampaignBegin   == Bound /\ Begin("campaign", "c_clock")

Forget ==
    /\ op' = "none" /\ pc' = "idle" /\ obs' = None /\ date' = None
    /\ ticks' = 0

\* The operation raises, or its worker is killed.
OperationEnds ==
    /\ pc # "idle"
    /\ Forget
    /\ UNCHANGED <<identity, records, last_action, artifacts, world>>

\* entry.main: the operation returned.
OperationDone ==
    /\ pc = "done"
    /\ last_action' = op
    /\ Forget
    /\ UNCHANGED <<identity, records, artifacts, world>>

-----------------------------------------------------------------------------
(* initialize: four transactions *)

Initialized(point, next) ==
    /\ pc = point /\ pc' = next
    /\ UNCHANGED <<records, last_action, artifacts, op, obs, date, ticks,
                   world>>

SetConfig  == /\ Initialized("i_config", "i_code") /\ config' = "config"
              /\ UNCHANGED <<code, created, state>>
SetCode    == /\ Initialized("i_code", "i_created") /\ code' = "code"
              /\ UNCHANGED <<config, created, state>>
SetCreated == /\ Initialized("i_created", "i_state") /\ created' = time
              /\ UNCHANGED <<config, code, state>>
SetState   == /\ Initialized("i_state", "done") /\ state' = "initialized"
              /\ UNCHANGED <<config, code, created>>

-----------------------------------------------------------------------------
(* record_session *)

\* The reconciled account the observation is made from.
RecordAccount ==
    /\ pc = "r_account"
    /\ obs' = [flat |-> flat, equity |-> equity]
    /\ pc' = "r_check"
    /\ UNCHANGED <<identity, records, last_action, artifacts, op, date, ticks,
                   world>>

\* The session closed a minute ago, no order is open, the date is new and the
\* budget allows one more.  The clock is read here, after the account.
Recordable(d) ==
    /\ d \in Sessions
    /\ d \notin dates
    /\ Cardinality(dates) < MaxDates

\* Mutant: the minute after the close is not waited for.
RecordCheck_AtClose ==
    /\ pc = "r_check"
    /\ time >= Closing(Day(time))
    /\ Recordable(Day(time))
    /\ pc' = "r_session" /\ date' = Day(time)
    /\ UNCHANGED <<identity, records, last_action, artifacts, op, obs, ticks,
                   world>>

RecordCheck ==
    /\ pc = "r_check"
    /\ time >= Evening(Day(time))
    /\ Recordable(Day(time))
    /\ pc' = "r_session" /\ date' = Day(time)
    /\ UNCHANGED <<identity, records, last_action, artifacts, op, obs, ticks,
                   world>>

\* Mutant: only the date is written.
RecordSession_DateOnly ==
    /\ pc = "r_session" /\ pc' = "done"
    /\ dates' = dates \cup {date}
    /\ UNCHANGED <<identity, session, report, last_action, artifacts, op, obs,
                   date, ticks, world>>

RecordSession ==
    /\ pc = "r_session" /\ pc' = "r_dates"
    /\ session' = [session EXCEPT ![date] = obs]
    /\ UNCHANGED <<identity, dates, report, last_action, artifacts, op, obs,
                   date, ticks, world>>

RecordDates ==
    /\ pc = "r_dates" /\ pc' = "done"
    /\ dates' = dates \cup {date}
    /\ UNCHANGED <<identity, session, report, last_action, artifacts, op, obs,
                   date, ticks, world>>

-----------------------------------------------------------------------------
(* campaign: the report is an artifact, then the journal points to it *)

\* Mutant: the report goes by the list of dates.
Report_ByDates(now) ==
    LET due == Scheduled(now)
    IN  [reported_at  |-> now,
         scheduled    |-> due,
         missing      |-> due \ dates,
         observations |-> [d \in Days |-> IF d \in due \cap dates THEN session[d] ELSE None]]

Report(now) ==
    LET due == Scheduled(now)
    IN  [reported_at  |-> now,
         scheduled    |-> due,
         missing      |-> {d \in due : session[d] = None},
         observations |-> [d \in Days |-> IF d \in due THEN session[d] ELSE None]]

\* The clock, before the calendar is asked for.
CampaignClock ==
    /\ pc = "c_clock" /\ pc' = "c_report"
    /\ obs' = [now |-> time]
    /\ UNCHANGED <<identity, records, last_action, artifacts, op, date, ticks, world>>

\* A campaign without a recorded creation time is refused here.
CampaignReport ==
    /\ pc = "c_report" /\ pc' = "c_publish"
    /\ created # None
    /\ obs' = Report(obs.now)
    /\ artifacts' = artifacts \cup {Report(obs.now)}
    /\ Cardinality(artifacts') <= MaxReports
    /\ UNCHANGED <<identity, records, last_action, op, date, ticks, world>>

CampaignPublish ==
    /\ pc = "c_publish" /\ pc' = "done"
    /\ report' = obs
    /\ UNCHANGED <<identity, session, dates, last_action, artifacts, op, obs,
                   date, ticks, world>>

-----------------------------------------------------------------------------
(* The world *)

\* A worker lives for 30 s and the shortest stretch is a minute.
Tick ==
    /\ Day(time + 1) \in Days
    /\ ticks = 0
    /\ time' = time + 1
    /\ ticks' = IF pc = "idle" THEN 0 ELSE 1
    /\ closed' = IF time = Open(Day(time))
                 THEN [closed EXCEPT ![Day(time)] = flat] ELSE closed
    /\ UNCHANGED <<identity, records, last_action, artifacts, op, pc, obs, date,
                   flat, equity>>

\* Orders trade while the market is open only; equity moves at any time.
Trade ==
    /\ time = Open(Day(time)) /\ Day(time) \in Sessions
    /\ flat' = ~flat
    /\ UNCHANGED <<identity, records, last_action, artifacts, op, pc, obs, date,
                   ticks, time, equity, closed>>

Revalue ==
    /\ \E e \in Equities \ {equity} : equity' = e
    /\ UNCHANGED <<identity, records, last_action, artifacts, op, pc, obs, date,
                   ticks, time, flat, closed>>

-----------------------------------------------------------------------------
Next ==
    \/ InitializeNew \/ InitializeAgain \/ RecordBegin \/ CampaignBegin
    \/ OperationEnds \/ OperationDone
    \/ SetConfig \/ SetCode \/ SetCreated \/ SetState
    \/ RecordAccount \/ RecordCheck \/ RecordSession \/ RecordDates
    \/ CampaignClock \/ CampaignReport \/ CampaignPublish
    \/ Tick \/ Trade \/ Revalue

Spec == Init /\ [][Next]_vars

-----------------------------------------------------------------------------
(* Properties *)

TypeOK ==
    /\ session \in [Days -> Observation \cup {None}]
    /\ dates \in SUBSET Sessions
    /\ artifacts \in SUBSET Reports
    /\ pc \in {"idle", "i_config", "i_code", "i_created", "i_state", "r_account",
              "r_check", "r_session", "r_dates", "c_clock", "c_report", "c_publish", "done"}
    /\ obs \in Observation \cup Reports \cup [now : Nat] \cup {None}
    /\ date \in Sessions \cup {None}
    /\ ticks \in {0, 1}
    /\ time \in Nat /\ Day(time) \in Days
    /\ flat \in BOOLEAN /\ equity \in Equities
    /\ closed \in [Days -> BOOLEAN \cup {None}]

\* A listed date has its observation, whatever the moment the worker was
\* killed at (record_session writes two records).
ListedDatesAreObserved == \A d \in dates : session[d] # None

\* An observation says what the account was at that day's close, although the
\* account is read before the clock: the required minute after the close is
\* longer than a worker lives (record_session, PaperService.action).
ObservationsAreOfTheClose ==
    \A d \in Days : session[d] # None =>
        d \in Sessions /\ session[d].flat = closed[d]

\* The journal never contradicts a report about a day that was over when it was
\* made: what it embeds is what is recorded, and what it counts as missing stays
\* missing.  A report of the same day may be overtaken by the observation of that
\* day or by its repetition after a kill (campaign.py:47-58), but what it embeds was
\* observed and was flat, or not, as the account was at the close (campaign.py:116).
ReportsAreTrue ==
    \A r \in artifacts : \A d \in r.scheduled :
        /\ r.observations[d] = session[d] \/ d = Day(r.reported_at)
        /\ r.observations[d] # None =>
              session[d] # None /\ r.observations[d].flat = closed[d]
        /\ d \in r.missing <=> r.observations[d] = None
=============================================================================
