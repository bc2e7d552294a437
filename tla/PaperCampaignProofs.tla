------------------------- MODULE PaperCampaignProofs -------------------------
(***************************************************************************)
(* The records of a paper campaign, for any calendar, any equities and any *)
(* budget of dates.                                                        *)
(*                                                                         *)
(* The argument: orders trade only while the market is open, so the        *)
(* account is as it was at the close from the close to the end of the day; *)
(* an account read at most one stretch before the second minute after the  *)
(* close was read after the close; and what is recorded then is of a day   *)
(* whose close no later time can change.                                   *)
(***************************************************************************)
EXTENDS PaperCampaign, TLAPS

\* The day is over for trading, and so is every day with an observation.
AfterClose(d) == time >= Evening(d)

\* From the close on the account is as it was at the close.
ClosedInv ==
    time > Open(Day(time)) => closed[Day(time)] = flat

\* An account read since the close, or less than a stretch before now.
ReadInv ==
    pc = "r_check" =>
        /\ obs \in Observation
        /\ time > Open(Day(time)) /\ ticks = 0 => obs.flat = closed[Day(time)]
        /\ time = Evening(Day(time)) => obs.flat = closed[Day(time)]

\* An observation about to be recorded, and one that is.
ObservedInv ==
    /\ pc = "r_session" =>
          /\ date \in Sessions /\ obs \in Observation
          /\ obs.flat = closed[date] /\ AfterClose(date)
    /\ pc = "r_dates" => date \in Sessions /\ session[date] # None
    /\ \A d \in Days : session[d] # None =>
          d \in Sessions /\ session[d].flat = closed[d] /\ AfterClose(d)

\* The moment a report is about is past, and what is being recorded is of its day
\* at the earliest.
ReportInv ==
    /\ ReportsAreTrue
    /\ pc = "c_report" => obs.now \in Nat /\ obs.now <= time
    /\ \A r \in artifacts :
          /\ r.reported_at <= time
          /\ \A d \in r.scheduled : Closing(d) <= r.reported_at
          /\ pc \in {"r_session", "r_dates"} => date >= Day(r.reported_at)

CampaignInv ==
    /\ TypeOK /\ ClosedInv /\ ReadInv /\ ObservedInv /\ ReportInv
    /\ ListedDatesAreObserved

-----------------------------------------------------------------------------
\* A moment is one of the three of its day, and of no other day.
LEMMA DayFacts ==
  ASSUME NEW t \in Nat
  PROVE  /\ Day(t) \in Nat
         /\ t \in {Open(Day(t)), Closing(Day(t)), Evening(Day(t))}
         /\ \A d \in Nat : t \in {Open(d), Closing(d), Evening(d)} => Day(t) = d
         /\ Day(t + 1) = IF t = Evening(Day(t)) THEN Day(t) + 1 ELSE Day(t)
  BY DEF Day, Open, Closing, Evening

\* Days are natural numbers and sessions are days.
LEMMA Calendar == Days \subseteq Nat /\ Sessions \subseteq Days
  BY CalendarAssumption DEF Days

\* Later moments are of later days.
LEMMA DaysFollow ==
  ASSUME NEW t \in Nat, NEW u \in Nat, t <= u
  PROVE  Day(t) <= Day(u)
  BY DEF Day

\* A report is about days that its moment does not precede.
LEMMA ReportTypes ==
  ASSUME CampaignInv, NEW r \in artifacts
  PROVE  /\ r \in Reports /\ r.reported_at \in Nat
         /\ \A d \in r.scheduled : d \in Days /\ d \in Nat /\ d <= Day(r.reported_at)
  <1>1. r \in Reports /\ r.reported_at \in Nat /\ r.scheduled \subseteq Sessions
    BY DEF CampaignInv, TypeOK, Reports
  <1>2. ASSUME NEW d \in r.scheduled PROVE d \in Nat /\ d <= Day(r.reported_at)
    <2>1. d \in Nat /\ Closing(d) <= r.reported_at
      BY <1>1, Calendar DEF CampaignInv, ReportInv
    <2>2. Day(Closing(d)) = d /\ Closing(d) \in Nat
      BY <2>1 DEF Day, Closing
    <2> QED
      BY <1>1, <2>1, <2>2, DaysFollow
  <1> QED
    BY <1>1, <1>2, Calendar

\* Calls that begin or end, and the records no property is about.
Other ==
    \/ InitializeNew \/ InitializeAgain \/ RecordBegin \/ CampaignBegin \/ CampaignClock
    \/ OperationEnds \/ OperationDone
    \/ SetConfig \/ SetCode \/ SetCreated \/ SetState \/ CampaignPublish

\* Calls that begin or end touch no record that the invariant is about.
LEMMA OtherStep ==
  ASSUME CampaignInv, Other PROVE CampaignInv'
  <1>1. /\ session' = session /\ dates' = dates /\ artifacts' = artifacts
        /\ time' = time /\ flat' = flat /\ equity' = equity /\ closed' = closed
        /\ pc' \in {"idle", "i_config", "i_code", "i_created", "i_state", "r_account",
                    "c_clock", "c_report", "done"}
        /\ obs' \in {obs, [now |-> time], None} /\ (pc' = "c_report" => obs' = [now |-> time])
        /\ date' \in {date, None} /\ ticks' \in {ticks, 0}
    BY DEF Other, InitializeNew, InitializeAgain, RecordBegin, CampaignBegin, Begin, CampaignClock,
       OperationEnds, OperationDone, Forget, SetConfig, SetCode, SetCreated, SetState,
       Initialized, CampaignPublish, identity, records, world
  <1>2. TypeOK'
    BY <1>1 DEF CampaignInv, TypeOK
  <1>3. ClosedInv' /\ ReadInv' /\ ObservedInv'
    BY <1>1 DEF CampaignInv, ClosedInv, ReadInv, ObservedInv, AfterClose
  <1>4. ReportInv' /\ ListedDatesAreObserved'
    <2>1. pc' = "c_report" => obs'.now \in Nat /\ obs'.now <= time'
      BY <1>1 DEF CampaignInv, TypeOK
    <2> QED
      BY <1>1, <2>1 DEF CampaignInv, ReportInv, ReportsAreTrue, ListedDatesAreObserved
  <1> QED
    BY <1>2, <1>3, <1>4 DEF CampaignInv

-----------------------------------------------------------------------------
(* record-session.                                                         *)

\* The account is as it was at the close from the close on.
LEMMA RecordAccountStep ==
  ASSUME CampaignInv, RecordAccount PROVE CampaignInv'
  <1>1. /\ session' = session /\ dates' = dates /\ artifacts' = artifacts
        /\ time' = time /\ flat' = flat /\ equity' = equity /\ closed' = closed
        /\ date' = date /\ ticks' = ticks /\ pc' = "r_check"
        /\ obs' = [flat |-> flat, equity |-> equity]
    BY DEF RecordAccount, identity, records, world
  <1>2. /\ obs' \in Observation /\ obs'.flat = flat
    BY <1>1, Zenon DEF CampaignInv, TypeOK, Observation
  <1>3. TypeOK'
    BY <1>1, <1>2 DEF CampaignInv, TypeOK
  <1>4. ReadInv'
    <2>1. time = Evening(Day(time)) => time > Open(Day(time))
      BY DEF CampaignInv, TypeOK, Day, Evening, Open
    <2> QED
      BY <1>1, <1>2, <2>1 DEF CampaignInv, ClosedInv, ReadInv
  <1>5. ClosedInv' /\ ObservedInv'
    BY <1>1 DEF CampaignInv, ClosedInv, ObservedInv, AfterClose
  <1>6. ReportInv' /\ ListedDatesAreObserved'
    BY <1>1 DEF CampaignInv, ReportInv, ReportsAreTrue, ListedDatesAreObserved
  <1> QED
    BY <1>3, <1>4, <1>5, <1>6 DEF CampaignInv

\* The second minute after the close: the account was read after the close.
LEMMA RecordCheckStep ==
  ASSUME CampaignInv, RecordCheck PROVE CampaignInv'
  <1>1. /\ session' = session /\ dates' = dates /\ artifacts' = artifacts
        /\ time' = time /\ flat' = flat /\ equity' = equity /\ closed' = closed
        /\ obs' = obs /\ ticks' = ticks /\ pc = "r_check" /\ pc' = "r_session"
        /\ date' = Day(time) /\ Day(time) \in Sessions /\ time >= Evening(Day(time))
    BY DEF RecordCheck, Recordable, identity, records, world
  <1>2. TypeOK'
    BY <1>1 DEF CampaignInv, TypeOK
  <1>3. ObservedInv'
    <2>1. time = Evening(Day(time))
      BY <1>1 DEF CampaignInv, TypeOK, Day, Evening
    <2> QED
      BY <1>1, <2>1 DEF CampaignInv, ReadInv, ObservedInv, AfterClose
  <1>4. ClosedInv' /\ ReadInv'
    BY <1>1 DEF CampaignInv, ClosedInv, ReadInv
  <1>5. ReportInv' /\ ListedDatesAreObserved'
    <2>1. \A r \in artifacts : Day(r.reported_at) <= Day(time)
      BY ReportTypes, DaysFollow DEF CampaignInv, TypeOK, ReportInv
    <2>2. \A r \in artifacts : date' >= Day(r.reported_at)
      BY <1>1, <2>1, ReportTypes DEF CampaignInv, TypeOK, Day
    <2> QED
      BY <1>1, <2>2 DEF CampaignInv, ReportInv, ReportsAreTrue, ListedDatesAreObserved
  <1> QED
    BY <1>2, <1>3, <1>4, <1>5 DEF CampaignInv

\* The observation is written before its date, over an older one of that day.
LEMMA RecordSessionStep ==
  ASSUME CampaignInv, RecordSession PROVE CampaignInv'
  <1>1. /\ session' = [session EXCEPT ![date] = obs] /\ dates' = dates
        /\ artifacts' = artifacts
        /\ time' = time /\ flat' = flat /\ equity' = equity /\ closed' = closed
        /\ obs' = obs /\ date' = date /\ ticks' = ticks
        /\ pc = "r_session" /\ pc' = "r_dates"
    BY DEF RecordSession, identity, records, world
  <1>2. /\ date \in Sessions /\ date \in Days /\ obs \in Observation /\ obs # None
        /\ obs.flat = closed[date] /\ AfterClose(date)
        /\ session \in [Days -> Observation \cup {None}]
    BY <1>1, Calendar, NoneAssumption DEF CampaignInv, TypeOK, ObservedInv
  <1>3. TypeOK'
    BY <1>1, <1>2 DEF CampaignInv, TypeOK
  <1>4. ObservedInv'
    BY <1>1, <1>2 DEF CampaignInv, ObservedInv, AfterClose
  <1>5. ClosedInv' /\ ReadInv'
    BY <1>1 DEF CampaignInv, ClosedInv, ReadInv
  <1>6. \A d \in Days : session[d] # None => session'[d] # None
    BY <1>1, <1>2
  <1>7. ListedDatesAreObserved'
    BY <1>1, <1>6, Calendar DEF CampaignInv, TypeOK, ListedDatesAreObserved
  <1>8. ReportInv'
    <2>1. ASSUME NEW r \in artifacts, NEW d \in r.scheduled
          PROVE  /\ r.observations[d] = session'[d] \/ d = Day(r.reported_at)
                 /\ r.observations[d] # None =>
                       session'[d] # None /\ r.observations[d].flat = closed[d]
      <3>1. /\ r.observations[d] = session[d] \/ d = Day(r.reported_at)
            /\ r.observations[d] # None =>
                  session[d] # None /\ r.observations[d].flat = closed[d]
            /\ date >= Day(r.reported_at) /\ date \in Nat
        BY <1>1, <1>2, Calendar DEF CampaignInv, ReportInv, ReportsAreTrue
      <3>2. d \in Days /\ d \in Nat /\ d <= Day(r.reported_at) /\ Day(r.reported_at) \in Nat
        BY ReportTypes, DayFacts
      <3>3. CASE d = date
        BY <1>1, <1>2, <3>1, <3>2, <3>3
      <3>4. CASE d # date
        BY <1>1, <1>2, <3>1, <3>2, <3>4
      <3> QED
        BY <3>3, <3>4
    <2>2. \A r \in artifacts : \A d \in r.scheduled : d \in r.missing <=> r.observations[d] = None
      BY DEF CampaignInv, ReportInv, ReportsAreTrue
    <2> QED
      BY <1>1, <2>1, <2>2 DEF CampaignInv, ReportInv, ReportsAreTrue
  <1> QED
    BY <1>3, <1>4, <1>5, <1>7, <1>8 DEF CampaignInv

\* A session is listed only by the recording that observed it.
LEMMA RecordDatesStep ==
  ASSUME CampaignInv, RecordDates PROVE CampaignInv'
  <1>1. /\ session' = session /\ dates' = dates \cup {date} /\ artifacts' = artifacts
        /\ time' = time /\ flat' = flat /\ equity' = equity /\ closed' = closed
        /\ obs' = obs /\ date' = date /\ ticks' = ticks
        /\ pc = "r_dates" /\ pc' = "done"
    BY DEF RecordDates, identity, records, world
  <1>2. date \in Sessions /\ session[date] # None
    BY <1>1 DEF CampaignInv, ObservedInv
  <1>3. TypeOK'
    BY <1>1, <1>2 DEF CampaignInv, TypeOK
  <1>4. ListedDatesAreObserved'
    BY <1>1, <1>2 DEF CampaignInv, ListedDatesAreObserved
  <1>5. ClosedInv' /\ ReadInv' /\ ObservedInv'
    BY <1>1 DEF CampaignInv, ClosedInv, ReadInv, ObservedInv, AfterClose
  <1>6. ReportInv'
    BY <1>1 DEF CampaignInv, ReportInv, ReportsAreTrue
  <1> QED
    BY <1>3, <1>4, <1>5, <1>6 DEF CampaignInv

-----------------------------------------------------------------------------
(* campaign.                                                               *)

\* The report of the moment says what is observed and scheduled at it.
LEMMA CampaignReportStep ==
  ASSUME CampaignInv, CampaignReport PROVE CampaignInv'
  <1>1. /\ session' = session /\ dates' = dates /\ artifacts' = artifacts \cup {Report(obs.now)}
        /\ time' = time /\ flat' = flat /\ equity' = equity /\ closed' = closed
        /\ date' = date /\ ticks' = ticks /\ obs' = Report(obs.now) /\ pc' = "c_publish"
    BY DEF CampaignReport, identity, records, world
  <1> DEFINE made == Report(obs.now)
  <1>2. /\ obs.now \in Nat /\ obs.now <= time /\ Scheduled(obs.now) \subseteq Sessions
        /\ Sessions \subseteq Days /\ session \in [Days -> Observation \cup {None}]
        /\ pc = "c_report"
    BY Calendar DEF CampaignReport, CampaignInv, TypeOK, ReportInv, Scheduled
  <1>3. /\ made.reported_at = obs.now /\ made.scheduled = Scheduled(obs.now)
        /\ made.missing = {d \in Scheduled(obs.now) : session[d] = None}
        /\ \A d \in Scheduled(obs.now) : made.observations[d] = session[d]
        /\ made \in Reports
    <2>1. [d \in Days |-> IF d \in Scheduled(obs.now) THEN session[d] ELSE None]
            \in [Days -> Observation \cup {None}]
      BY <1>2
    <2> QED
      BY <1>2, <2>1 DEF Report, Reports
  <1> HIDE DEF made
  <1>4. TypeOK'
    BY <1>1, <1>3 DEF made, CampaignInv, TypeOK
  <1>6. ReportInv'
    <2>1. ASSUME NEW d \in made.scheduled
          PROVE  /\ made.observations[d] = session[d]
                 /\ made.observations[d] # None =>
                       session[d] # None /\ made.observations[d].flat = closed[d]
                 /\ d \in made.missing <=> made.observations[d] = None
                 /\ Closing(d) <= made.reported_at
      BY <1>2, <1>3 DEF CampaignInv, ObservedInv, Scheduled
    <2> QED
      BY <1>1, <1>2, <1>3, <2>1 DEF made, CampaignInv, ReportInv, ReportsAreTrue
  <1>5. ClosedInv' /\ ReadInv' /\ ObservedInv' /\ ListedDatesAreObserved'
    BY <1>1 DEF CampaignInv, ClosedInv, ReadInv, ObservedInv, AfterClose,
       ListedDatesAreObserved
  <1> QED
    BY <1>4, <1>5, <1>6 DEF CampaignInv

-----------------------------------------------------------------------------
(* The world.                                                              *)

\* What was said of a day that is over stays so.
LEMMA ClosedStays ==
  ASSUME CampaignInv, Tick, NEW d \in Days, AfterClose(d)
  PROVE  closed'[d] = closed[d] /\ AfterClose(d)'
  <1>1. time \in Nat /\ d \in Nat /\ time' = time + 1
    BY Calendar DEF CampaignInv, TypeOK, Tick
  <1>2. ~(time = Open(Day(time)) /\ Day(time) = d)
    BY <1>1 DEF AfterClose, Open, Evening
  <1> QED
    BY <1>1, <1>2 DEF CampaignInv, TypeOK, Tick, AfterClose, Evening

\* Time passes: closed sessions and what a call has read of them stay.
LEMMA TickStep ==
  ASSUME CampaignInv, Tick PROVE CampaignInv'
  <1>1. /\ session' = session /\ dates' = dates /\ artifacts' = artifacts
        /\ time' = time + 1 /\ flat' = flat /\ equity' = equity
        /\ obs' = obs /\ date' = date /\ pc' = pc
        /\ ticks = 0 /\ ticks' \in {0, 1} /\ (pc # "idle" => ticks' = 1)
        /\ Day(time + 1) \in Days
        /\ closed' = IF time = Open(Day(time))
                       THEN [closed EXCEPT ![Day(time)] = flat] ELSE closed
        /\ time \in Nat /\ Day(time) \in Days
        /\ closed \in [Days -> BOOLEAN \cup {None}] /\ flat \in BOOLEAN
    BY DEF CampaignInv, TypeOK, Tick, identity, records, world
  <1>2. TypeOK'
    <2>1. closed' \in [Days -> BOOLEAN \cup {None}]
      BY <1>1, Zenon
    <2> QED
      BY <1>1, <2>1 DEF CampaignInv, TypeOK
  <1>3. ClosedInv'
    <2>1. CASE time = Open(Day(time))
      <3>1. Day(time + 1) = Day(time)
        BY <1>1, <2>1, DayFacts DEF Open, Evening
      <3> QED
        BY <1>1, <2>1, <3>1 DEF ClosedInv
    <2>2. CASE time = Closing(Day(time))
      <3>1. Day(time + 1) = Day(time) /\ time > Open(Day(time))
        BY ONLY <1>1, <2>2 DEF Day, Open, Closing, Evening
      <3>2. closed' = closed
        BY <1>1, <3>1 DEF Open
      <3> QED
        BY <1>1, <3>1, <3>2 DEF CampaignInv, ClosedInv
    <2>3. CASE time = Evening(Day(time))
      <3>1. time + 1 = Open(Day(time + 1))
        BY ONLY <1>1, <2>3 DEF Day, Open, Evening
      <3> QED
        BY <1>1, <3>1 DEF ClosedInv
    <2> QED
      BY <1>1, <2>1, <2>2, <2>3, DayFacts
  <1>4. ReadInv'
    <2> SUFFICES ASSUME pc = "r_check" PROVE ReadInv'
      BY <1>1 DEF ReadInv
    <2>1. ticks' = 1 /\ obs \in Observation
      BY <1>1 DEF CampaignInv, ReadInv
    <2>2. CASE time + 1 = Evening(Day(time + 1))
      <3>1. Day(time + 1) = Day(time) /\ time > Open(Day(time))
        BY ONLY <1>1, <2>2 DEF Day, Open, Closing, Evening
      <3>2. closed' = closed
        BY <1>1, <3>1 DEF Open
      <3> QED
        BY <1>1, <2>1, <3>1, <3>2 DEF CampaignInv, ReadInv
    <2>3. CASE time + 1 # Evening(Day(time + 1))
      BY <1>1, <2>1, <2>3 DEF ReadInv
    <2> QED
      BY <2>2, <2>3
  <1>5. ObservedInv'
    BY <1>1, ClosedStays, Calendar DEF CampaignInv, ObservedInv
  <1>6. ReportInv'
    <2>1. ASSUME NEW r \in artifacts, NEW d \in r.scheduled, r.observations[d] # None
          PROVE  r.observations[d].flat = closed'[d]
      <3>1. d \in Days /\ AfterClose(d) /\ r.observations[d].flat = closed[d]
        BY <2>1, ReportTypes DEF CampaignInv, ReportInv, ReportsAreTrue, ObservedInv
      <3> QED
        BY <3>1, ClosedStays
    <2>2. \A r \in artifacts : r.reported_at <= time'
      BY <1>1, ReportTypes DEF CampaignInv, ReportInv
    <2> QED
      BY <1>1, <2>1, <2>2 DEF CampaignInv, ReportInv, ReportsAreTrue
  <1>7. ListedDatesAreObserved'
    BY <1>1 DEF CampaignInv, ListedDatesAreObserved
  <1> QED
    BY <1>2, <1>3, <1>4, <1>5, <1>6, <1>7 DEF CampaignInv

\* Orders trade before the close only.
LEMMA MarketStep ==
  ASSUME CampaignInv, Trade \/ Revalue PROVE CampaignInv'
  <1>1. /\ session' = session /\ dates' = dates /\ artifacts' = artifacts
        /\ time' = time /\ closed' = closed
        /\ obs' = obs /\ date' = date /\ ticks' = ticks /\ pc' = pc
        /\ equity' \in Equities /\ flat' \in BOOLEAN
        /\ time = Open(Day(time)) \/ flat' = flat
        /\ time \in Nat /\ Open(Day(time)) \in Nat
    <2>1. time \in Nat /\ Open(Day(time)) \in Nat
      BY DEF CampaignInv, TypeOK, Day, Open
    <2>2. CASE Trade
      <3>1. flat' \in BOOLEAN
        BY <2>2, Zenon DEF Trade
      <3> QED
        BY <2>1, <2>2, <3>1 DEF CampaignInv, TypeOK, Trade, identity, records
    <2>3. CASE Revalue
      BY <2>1, <2>3 DEF CampaignInv, TypeOK, Revalue, identity, records
    <2> QED
      BY <2>2, <2>3
  <1>2. TypeOK'
    BY <1>1 DEF CampaignInv, TypeOK
  <1>3. ClosedInv' /\ ReadInv' /\ ObservedInv'
    BY <1>1 DEF CampaignInv, ClosedInv, ReadInv, ObservedInv, AfterClose
  <1>4. ReportInv' /\ ListedDatesAreObserved'
    BY <1>1 DEF CampaignInv, ReportInv, ReportsAreTrue, ListedDatesAreObserved
  <1> QED
    BY <1>2, <1>3, <1>4 DEF CampaignInv

-----------------------------------------------------------------------------
(* The invariant and the theorems.                                         *)

\* The initial states satisfy the invariant.
LEMMA CampaignInit == Init => CampaignInv
  <1> SUFFICES ASSUME Init PROVE CampaignInv
    OBVIOUS
  <1>1. time = 0 /\ Day(time) = 0 /\ 0 \in Days /\ Open(0) = 0
    BY CalendarAssumption DEF Init, Day, Days, Open
  <1>2. TypeOK
    BY <1>1 DEF Init, TypeOK
  <1>3. /\ pc = "idle" /\ time = Open(Day(time)) /\ time \in Nat
        /\ \A d \in Days : session[d] = None
    BY <1>1 DEF Init
  <1>4. ClosedInv /\ ReadInv /\ ObservedInv
    BY <1>1, <1>3 DEF ClosedInv, ReadInv, ObservedInv
  <1>5. ReportInv /\ ListedDatesAreObserved
    BY DEF Init, ReportInv, ReportsAreTrue, ListedDatesAreObserved
  <1> QED
    BY <1>2, <1>4, <1>5 DEF CampaignInv

\* Every step keeps the invariant.
LEMMA CampaignNext == CampaignInv /\ [Next]_vars => CampaignInv'
  <1> SUFFICES ASSUME CampaignInv, [Next]_vars PROVE CampaignInv'
    OBVIOUS
  <1>1. CASE UNCHANGED vars
    BY <1>1 DEF vars, identity, records, world, CampaignInv, TypeOK, ClosedInv, ReadInv,
       ObservedInv, AfterClose, ReportInv, ReportsAreTrue, ListedDatesAreObserved
  <1>2. CASE Next
    BY <1>2, OtherStep, RecordAccountStep, RecordCheckStep, RecordSessionStep,
       RecordDatesStep, CampaignReportStep, TickStep, MarketStep DEF Next, Other
  <1> QED
    BY <1>1, <1>2

\* The invariant holds of every reachable state.
LEMMA CampaignHolds == Spec => []CampaignInv
  BY CampaignInit, CampaignNext, PTL DEF Spec

\* The records keep their types.
THEOREM TypesHold == Spec => []TypeOK
  <1>1. CampaignInv => TypeOK
    BY DEF CampaignInv
  <1> QED
    BY CampaignHolds, <1>1, PTL

\* Wherever record-session is killed, a listed date has its observation.
THEOREM ListedAreObserved == Spec => []ListedDatesAreObserved
  <1>1. CampaignInv => ListedDatesAreObserved
    BY DEF CampaignInv
  <1> QED
    BY CampaignHolds, <1>1, PTL

\* An observation says what the account was at the close of its day, although
\* the account was read before the clock.
THEOREM ObservedAtTheClose == Spec => []ObservationsAreOfTheClose
  <1>1. CampaignInv => ObservationsAreOfTheClose
    BY DEF CampaignInv, ObservedInv, ObservationsAreOfTheClose
  <1> QED
    BY CampaignHolds, <1>1, PTL

\* No report ever made is contradicted by what is recorded later, except about the
\* day it was made on, and there not about whether the account was flat at the close.
THEOREM ReportsStayTrue == Spec => []ReportsAreTrue
  <1>1. CampaignInv => ReportsAreTrue
    BY DEF CampaignInv, ReportInv
  <1> QED
    BY CampaignHolds, <1>1, PTL
=============================================================================
