-------------------------- MODULE PaperEngineProofs --------------------------
(***************************************************************************)
(* What holds of paper trading for every universe, every set of minutes    *)
(* and every limit: an order is submitted at most once, the journal never  *)
(* runs ahead of the broker, one order at most is unsettled, a stop ends   *)
(* dispatch, a completed cancel reaches every order, a journal that says   *)
(* ready is reconciled, the exposure stays within its limits, and the      *)
(* whole implements the PaperDispatch contract.                            *)
(*                                                                         *)
(* DispatchInv is the inductive invariant of the first five.  Its first    *)
(* part keeps the types; the second says what each point of the cycle      *)
(* knows of the order it is about; the third relates the journal to the    *)
(* broker.  ReadyInv, on top of it, says what each point of an operation   *)
(* knows of the account, and ExposureInv, on top of both, that nothing can *)
(* trade between the limits' check and the send.  Positions are sums over  *)
(* minutes and symbols; the lemmas about sums come before those two.       *)
(* The refinement needs DispatchInv and that fills fit their orders.       *)
(***************************************************************************)
EXTENDS PaperEngine, FiniteSetTheorems, TLAPS

Shapes ==
    /\ DOMAIN intent = Keys
    /\ posted \in [Keys -> Nat]
    /\ order \in [Keys -> Orders \cup {None}]
    /\ book \in [Keys -> Orders \cup {None}]
    /\ wire \in SUBSET Keys
    /\ minute \in Minutes
    /\ op = "cycle" \/ pc \in Deciding => sym \in Symbols
    /\ pc \in Deciding \ {"c_decide"} => at \in Minutes /\ delta # 0

\* What is known of a submission before, while and after it is sent.
OnceInv ==
    /\ \A k \in Keys :
          /\ posted[k] <= 1
          /\ intent[k] = 0 => posted[k] = 0
          /\ posted[k] = 0 => k \notin wire /\ book[k] = None
          /\ k \in wire => book[k] = None
    /\ pc = "c_intent" => intent[Key] = 0
    /\ pc \in Sending => intent[Key] # 0 /\ posted[Key] = 0
    /\ pc = "c_reply" => intent[Key] # 0

\* A new intent is committed only when every earlier order is settled.
SettledInv ==
    /\ \A k, l \in Unsettled : k = l
    /\ pc \in {"c_limits", "c_intent"} => Unsettled = {}
    /\ pc \in Sending \cup {"c_reply"} => order[Key] = None

\* A cancel has dealt with the unsettled orders it no longer has to visit.
VisitedInv ==
    pc = "x_orders" =>
        \A k \in Unsettled \ todo :
            book[k] # None /\ (book[k].open => k \in asked)

DispatchInv ==
    Shapes /\ OnceInv /\ RecordedFillsHappened /\ SettledInv /\ VisitedInv

-----------------------------------------------------------------------------
\* The initial states satisfy the invariant.
LEMMA DispatchInit == Init => DispatchInv
  <1> SUFFICES ASSUME Init PROVE DispatchInv
    OBVIOUS
  <1>1. Shapes
    BY DEF Init, Shapes, Deciding
  <1>2. OnceInv /\ RecordedFillsHappened /\ VisitedInv
    BY <1>1 DEF Init, OnceInv, RecordedFillsHappened, VisitedInv, Sending, Shapes
  <1>3. SettledInv
    BY DEF Init, SettledInv, Unsettled, Rows, Sending
  <1> QED
    BY <1>1, <1>2, <1>3 DEF DispatchInv


-----------------------------------------------------------------------------
\* The orders a step makes up are orders, and none is mistaken for None.
LEMMA OrderFacts ==
  /\ \A b \in BOOLEAN, n \in Nat : [open |-> b, filled |-> n] \in Orders
  /\ None \notin Orders
  <1>1. \A b \in BOOLEAN, n \in Nat : [open |-> b, filled |-> n] \in Orders
    BY DEF Orders
  <1> QED
    BY <1>1, NoneAssumption

\* The broker only adds to what is filled.
LEMMA BrokerFills ==
  ASSUME Shapes, NEW k \in Keys, Trade(k) \/ Close(k)
  PROVE  /\ book[k] \in Orders /\ book[k].open
         /\ \E b \in BOOLEAN, n \in Nat :
               /\ n >= book[k].filled
               /\ book' = [book EXCEPT ![k] = [open |-> b, filled |-> n]]
  <1>1. book[k] \in Orders /\ book[k].open
    BY DEF Shapes, Trade, Close
  <1>2. book[k].filled \in Nat /\ book[k].filled + 1 \in Nat
        /\ book[k].filled + 1 >= book[k].filled
        /\ book[k].filled >= book[k].filled
    BY <1>1 DEF Orders
  <1>3. (book[k].filled + 1 < Size(k)) \in BOOLEAN
    OBVIOUS
  <1>4. CASE Trade(k)
    BY <1>1, <1>2, <1>3, <1>4, Zenon DEF Trade
  <1>5. CASE Close(k)
    BY <1>1, <1>2, <1>5, Zenon DEF Close
  <1> QED
    BY <1>1, <1>4, <1>5

-----------------------------------------------------------------------------
\* The types: every step keeps them.
LEMMA ShapesStep ==
  ASSUME DispatchInv, [Next]_vars PROVE Shapes'
  <1> USE DEF DispatchInv, Shapes, Deciding, journal, worker, market
  <1>1. CASE OperatorNext
    BY <1>1 DEF OperatorNext, StartFirst, StartAgain, ReconcileBegin,
       CancelBegin, CycleBegin, Begin, Stop
  <1>2. CASE WorkerNext
    <2> USE DEF Goto, Forget
    <2>1. CASE OperationEnds \/ StartAccount \/ StartBaseline \/ StartSnapshot
               \/ StartReady
      BY <2>1 DEF OperationEnds, StartAccount, StartBaseline, StartSnapshot,
         StartReady
    <2>2. CASE ReconcileMark \/ ReconcileOpen \/ ReconcileCash
               \/ ReconcileAccount \/ ReconcileLoss \/ ReconcileReady
      BY <2>2 DEF ReconcileMark, ReconcileOpen, ReconcileCash,
         ReconcileAccount, ReconcileLoss, ReconcileReady
    <2>3. CASE CycleDecide \/ CycleLimits \/ CycleIntent \/ CycleMark
      BY <2>3 DEF CycleDecide, Decide, CycleLimits, CycleIntent, CycleMark
    <2>4. CASE CycleCheck \/ CycleTransport \/ CycleSend
      BY <2>4 DEF CycleCheck, CycleTransport, CycleSend, Key, Keys
    <2>5. CASE CycleReply
      <3>1. Key \in Keys /\ book[Key] \in Orders
        BY <2>5, NoneAssumption DEF CycleReply, Reply, Key, Keys
      <3>2. [open |-> TRUE, filled |-> 0] \in Orders
        BY DEF Orders
      <3>3. PICK seenOrder \in Orders : order' = [order EXCEPT ![Key] = seenOrder]
        BY <2>5, <3>1, <3>2 DEF CycleReply, Reply
      <3>4. order' \in [Keys -> Orders \cup {None}]
        BY <3>1, <3>3
      <3> QED
        BY <2>5, <3>4 DEF CycleReply, Reply
    <2>6. CASE CancelStop \/ CancelDone
      BY <2>6 DEF CancelStop, CancelDone
    <2>7. ASSUME NEW k \in Keys, ReconcileOrder(k) \/ CancelOrder(k)
          PROVE Shapes'
      BY <2>7 DEF ReconcileOrder, CancelOrder
    <2> QED
      BY <1>2, <2>1, <2>2, <2>3, <2>4, <2>5, <2>6, <2>7 DEF WorkerNext
  <1>3. CASE BrokerNext
    <2>1. ASSUME NEW k \in Keys, Accept(k) PROVE Shapes'
      <3>1. \A b \in BOOLEAN : [open |-> b, filled |-> 0] \in Orders
        BY DEF Orders
      <3> QED
        BY <2>1, <3>1 DEF Accept
    <2>2. ASSUME NEW k \in Keys, Lose(k) PROVE Shapes'
      BY <2>2 DEF Lose
    <2>3. ASSUME NEW k \in Keys, Trade(k) \/ Close(k) PROVE Shapes'
      <3>1. book' \in [Keys -> Orders \cup {None}]
        BY <2>3, BrokerFills, OrderFacts
      <3> QED
        BY <2>3, <3>1 DEF Trade, Close
    <2>4. CASE Outside \/ Tick
      BY <2>4 DEF Outside, Tick
    <2> QED
      BY <1>3, <2>1, <2>2, <2>3, <2>4 DEF BrokerNext
  <1>4. CASE UNCHANGED vars
    BY <1>4 DEF vars
  <1> QED
    BY <1>1, <1>2, <1>3, <1>4 DEF Next

-----------------------------------------------------------------------------
\* An order is sent once, after its intent: every step keeps it so.
LEMMA OnceStep ==
  ASSUME DispatchInv, [Next]_vars PROVE OnceInv'
  <1> USE DEF DispatchInv, Shapes, OnceInv, Sending, Key, Keys, journal,
          worker, market
  <1>1. CASE OperatorNext
    BY <1>1 DEF OperatorNext, StartFirst, StartAgain, ReconcileBegin,
       CancelBegin, CycleBegin, Begin, Stop
  <1>2. CASE WorkerNext
    <2> USE DEF Goto, Forget, Deciding
    <2>1. CASE OperationEnds \/ StartAccount \/ StartBaseline \/ StartSnapshot
               \/ StartReady
      BY <2>1 DEF OperationEnds, StartAccount, StartBaseline, StartSnapshot,
         StartReady
    <2>2. CASE ReconcileMark \/ ReconcileOpen \/ ReconcileCash
               \/ ReconcileAccount \/ ReconcileLoss \/ ReconcileReady
      BY <2>2 DEF ReconcileMark, ReconcileOpen, ReconcileCash,
         ReconcileAccount, ReconcileLoss, ReconcileReady
    <2>3. CASE CycleDecide \/ CycleLimits
      BY <2>3 DEF CycleDecide, Decide, CycleLimits
    <2>4. CASE CycleIntent
      BY <2>4 DEF CycleIntent
    <2>5. CASE CycleMark \/ CycleCheck \/ CycleTransport
      BY <2>5 DEF CycleMark, CycleCheck, CycleTransport
    <2>6. CASE CycleSend
      BY <2>6 DEF CycleSend
    <2>7. CASE CycleReply
      BY <2>7 DEF CycleReply, Reply
    <2>8. CASE CancelStop \/ CancelDone
      BY <2>8 DEF CancelStop, CancelDone
    <2>9. ASSUME NEW k \in Keys, ReconcileOrder(k) \/ CancelOrder(k)
          PROVE OnceInv'
      BY <2>9 DEF ReconcileOrder, CancelOrder
    <2> QED
      BY <1>2, <2>1, <2>2, <2>3, <2>4, <2>5, <2>6, <2>7, <2>8, <2>9
         DEF WorkerNext
  <1>3. CASE BrokerNext
    <2>1. ASSUME NEW k \in Keys, Accept(k) \/ Lose(k) PROVE OnceInv'
      BY <2>1 DEF Accept, Lose
    <2>2. ASSUME NEW k \in Keys, Trade(k) \/ Close(k) PROVE OnceInv'
      BY <2>2 DEF Trade, Close
    <2>3. CASE Outside \/ Tick
      BY <2>3 DEF Outside, Tick
    <2> QED
      BY <1>3, <2>1, <2>2, <2>3 DEF BrokerNext
  <1>4. CASE UNCHANGED vars
    BY <1>4 DEF vars
  <1> QED
    BY <1>1, <1>2, <1>3, <1>4 DEF Next

\* The journal stays behind the broker.
LEMMA RecordsStep ==
  ASSUME DispatchInv, [Next]_vars PROVE RecordedFillsHappened'
  <1> USE DEF DispatchInv, Shapes, RecordedFillsHappened, journal, worker, market
  <1>1. CASE OperatorNext
    BY <1>1 DEF OperatorNext, StartFirst, StartAgain, ReconcileBegin,
       CancelBegin, CycleBegin, Begin, Stop
  <1>2. CASE WorkerNext
    <2> USE DEF Goto
    <2>1. CASE OperationEnds \/ StartAccount \/ StartBaseline \/ StartSnapshot
               \/ StartReady \/ ReconcileMark \/ ReconcileOpen \/ ReconcileCash
               \/ ReconcileAccount \/ ReconcileLoss \/ ReconcileReady
      BY <2>1 DEF OperationEnds, StartAccount, StartBaseline, StartSnapshot,
         StartReady, ReconcileMark, ReconcileOpen, ReconcileCash,
         ReconcileAccount, ReconcileLoss, ReconcileReady
    <2>2. CASE CycleDecide \/ CycleLimits \/ CycleIntent \/ CycleMark
               \/ CycleCheck \/ CycleTransport \/ CycleSend
      BY <2>2 DEF CycleDecide, Decide, CycleLimits, CycleIntent, CycleMark,
         CycleCheck, CycleTransport, CycleSend
    <2>3. CASE CycleReply
      <3>1. Key \in Keys /\ book[Key] \in Orders
        BY <2>3, NoneAssumption DEF CycleReply, Reply, Key, Keys, Deciding
      <3>2. PICK seenOrder \in {book[Key], [open |-> TRUE, filled |-> 0]} :
               order' = [order EXCEPT ![Key] = seenOrder]
        BY <2>3 DEF CycleReply, Reply
      <3>3. seenOrder.filled <= book[Key].filled
            /\ (~seenOrder.open => book[Key] = seenOrder)
        BY <3>1, <3>2 DEF Orders
      <3> QED
        BY <2>3, <3>1, <3>2, <3>3 DEF CycleReply, Reply
    <2>4. CASE CancelStop \/ CancelDone
      BY <2>4 DEF CancelStop, CancelDone
    <2>5. ASSUME NEW k \in Keys, ReconcileOrder(k) PROVE RecordedFillsHappened'
      BY <2>5 DEF ReconcileOrder, Orders
    <2>6. ASSUME NEW k \in Keys, CancelOrder(k) PROVE RecordedFillsHappened'
      BY <2>6 DEF CancelOrder
    <2> QED
      BY <1>2, <2>1, <2>2, <2>3, <2>4, <2>5, <2>6 DEF WorkerNext
  <1>3. CASE BrokerNext
    <2>1. ASSUME NEW k \in Keys, Accept(k) PROVE RecordedFillsHappened'
      BY <2>1 DEF Accept, OnceInv
    <2>2. ASSUME NEW k \in Keys, Lose(k) PROVE RecordedFillsHappened'
      BY <2>2 DEF Lose
    <2>3. ASSUME NEW k \in Keys, Trade(k) \/ Close(k)
          PROVE RecordedFillsHappened'
      <3>1. PICK b \in BOOLEAN, n \in Nat :
               /\ n >= book[k].filled
               /\ book' = [book EXCEPT ![k] = [open |-> b, filled |-> n]]
        BY <2>3, BrokerFills
      <3>2. book'[k] # None /\ book'[k].filled = n
        BY <3>1, OrderFacts
      <3>3. order[k] # None => order[k].open /\ order[k].filled \in Nat
        BY <2>3, BrokerFills DEF Orders
      <3>4. book[k].filled \in Nat /\ UNCHANGED order
        BY <2>3, BrokerFills DEF Trade, Close, Orders
      <3> QED
        BY <3>1, <3>2, <3>3, <3>4
    <2>4. CASE Outside \/ Tick
      BY <2>4 DEF Outside, Tick
    <2> QED
      BY <1>3, <2>1, <2>2, <2>3, <2>4 DEF BrokerNext
  <1>4. CASE UNCHANGED vars
    BY <1>4 DEF vars
  <1> QED
    BY <1>1, <1>2, <1>3, <1>4 DEF Next

-----------------------------------------------------------------------------
\* A step that changes neither an intent nor an observation.
LEMMA UnsettledSame ==
  ASSUME UNCHANGED <<intent, order>> PROVE Unsettled' = Unsettled
  BY DEF Unsettled, Rows, Settled

\* Looking an order up settles it or leaves it: what was settled stays so.
LEMMA UnsettledShrinks ==
  ASSUME Shapes, NEW k \in Keys, ReconcileOrder(k)
  PROVE  Unsettled' \subseteq Unsettled
  BY DEF ReconcileOrder, Unsettled, Rows, Settled, Shapes

\* Only one order is unsettled: every step keeps it so.
LEMMA SettledStep ==
  ASSUME DispatchInv, [Next]_vars PROVE SettledInv'
  <1> USE DEF DispatchInv, SettledInv, Sending, Key, journal, worker, market
  <1>1. CASE OperatorNext
    BY <1>1, UnsettledSame DEF OperatorNext, StartFirst, StartAgain,
       ReconcileBegin, CancelBegin, CycleBegin, Begin, Stop
  <1>2. CASE WorkerNext
    <2> USE DEF Goto, Forget
    <2>1. CASE OperationEnds \/ StartAccount \/ StartBaseline \/ StartSnapshot
               \/ StartReady \/ CancelStop \/ CancelDone
      BY <2>1, UnsettledSame DEF OperationEnds, StartAccount, StartBaseline,
         StartSnapshot, StartReady, CancelStop, CancelDone
    <2>2. CASE ReconcileMark \/ ReconcileOpen \/ ReconcileCash
               \/ ReconcileAccount \/ ReconcileLoss \/ ReconcileReady
      BY <2>2, UnsettledSame DEF ReconcileMark, ReconcileOpen, ReconcileCash,
         ReconcileAccount, ReconcileLoss, ReconcileReady
    <2>3. CASE CycleDecide \/ CycleLimits
      BY <2>3, UnsettledSame DEF CycleDecide, Decide, CycleLimits
    <2>4. CASE CycleIntent
      <3>1. Key \in Keys /\ intent[Key] = 0 /\ order[Key] = None
        BY <2>4, NoneAssumption DEF CycleIntent, OnceInv, RecordedFillsHappened,
           Shapes, Deciding, Keys
      <3>2. Unsettled' \subseteq {Key}
        BY <2>4, <3>1 DEF CycleIntent, Unsettled, Rows, Settled, Shapes
      <3> QED
        BY <2>4, <3>1, <3>2 DEF CycleIntent
    <2>5. CASE CycleMark \/ CycleCheck \/ CycleTransport \/ CycleSend
      BY <2>5, UnsettledSame DEF CycleMark, CycleCheck, CycleTransport, CycleSend
    <2>6. CASE CycleReply
      <3>1. Key \in Unsettled
        BY <2>6 DEF CycleReply, Reply, Unsettled, Rows, Settled, OnceInv, Keys,
           Shapes, Deciding
      <3>2. Unsettled' \subseteq Unsettled
        BY <2>6, <3>1 DEF CycleReply, Reply, Unsettled, Rows, Settled, Shapes
      <3> QED
        BY <2>6, <3>2 DEF CycleReply, Reply
    <2>7. ASSUME NEW k \in Keys, ReconcileOrder(k) PROVE SettledInv'
      BY <2>7, UnsettledShrinks DEF ReconcileOrder
    <2>8. ASSUME NEW k \in Keys, CancelOrder(k) PROVE SettledInv'
      BY <2>8, UnsettledSame DEF CancelOrder
    <2> QED
      BY <1>2, <2>1, <2>2, <2>3, <2>4, <2>5, <2>6, <2>7, <2>8 DEF WorkerNext
  <1>3. CASE BrokerNext
    BY <1>3, UnsettledSame DEF BrokerNext, Accept, Lose, Trade, Close, Outside,
       Tick
  <1>4. CASE UNCHANGED vars
    BY <1>4, UnsettledSame DEF vars
  <1> QED
    BY <1>1, <1>2, <1>3, <1>4 DEF Next

\* What a cancel has visited stays dealt with while the broker trades on.
LEMMA VisitedStep ==
  ASSUME DispatchInv, [Next]_vars PROVE VisitedInv'
  <1> USE DEF DispatchInv, VisitedInv, journal, worker, market
  <1>1. CASE OperatorNext
    BY <1>1, UnsettledSame DEF OperatorNext, StartFirst, StartAgain,
       ReconcileBegin, CancelBegin, CycleBegin, Begin, Stop
  <1>2. CASE WorkerNext
    <2> USE DEF Goto, Forget
    <2>1. CASE CancelStop
      BY <2>1, UnsettledSame DEF CancelStop
    <2>2. ASSUME NEW k \in Keys, CancelOrder(k) PROVE VisitedInv'
      BY <2>2, UnsettledSame DEF CancelOrder
    <2>3. ASSUME NEW k \in Keys, ReconcileOrder(k) PROVE VisitedInv'
      BY <2>3 DEF ReconcileOrder
    <2>4. CASE OperationEnds \/ StartAccount \/ StartBaseline \/ StartSnapshot
               \/ StartReady \/ CancelDone
      BY <2>4 DEF OperationEnds, StartAccount, StartBaseline, StartSnapshot,
         StartReady, CancelDone
    <2>5. CASE ReconcileMark \/ ReconcileOpen \/ ReconcileCash
               \/ ReconcileAccount \/ ReconcileLoss \/ ReconcileReady
      BY <2>5 DEF ReconcileMark, ReconcileOpen, ReconcileCash,
         ReconcileAccount, ReconcileLoss, ReconcileReady
    <2>6. CASE CycleDecide \/ CycleLimits \/ CycleIntent \/ CycleMark
               \/ CycleCheck \/ CycleTransport \/ CycleSend \/ CycleReply
      BY <2>6 DEF CycleDecide, Decide, CycleLimits, CycleIntent, CycleMark,
         CycleCheck, CycleTransport, CycleSend, CycleReply, Reply
    <2> QED
      BY <1>2, <2>1, <2>2, <2>3, <2>4, <2>5, <2>6 DEF WorkerNext
  <1>3. CASE BrokerNext
    <2>1. ASSUME NEW k \in Keys, Accept(k) \/ Lose(k) PROVE VisitedInv'
      <3>1. book[k] = None /\ \A l \in Keys : l # k => book'[l] = book[l]
        BY <2>1 DEF Accept, Lose, OnceInv, Shapes
      <3>2. Unsettled' = Unsettled /\ Unsettled \subseteq Keys
        BY <2>1, UnsettledSame DEF Accept, Lose, Unsettled, Rows
      <3> QED
        BY <2>1, <3>1, <3>2 DEF Accept, Lose
    <2>2. ASSUME NEW k \in Keys, Trade(k) \/ Close(k) PROVE VisitedInv'
      <3>1. PICK b \in BOOLEAN, n \in Nat :
               book' = [book EXCEPT ![k] = [open |-> b, filled |-> n]]
        BY <2>2, BrokerFills
      <3>2. book'[k] # None /\ book[k] # None /\ book[k].open
        BY <2>2, <3>1, OrderFacts, BrokerFills DEF Shapes
      <3>3. \A l \in Keys : l # k => book'[l] = book[l]
        BY <3>1 DEF Shapes
      <3>4. Unsettled' = Unsettled /\ Unsettled \subseteq Keys
        BY <2>2, UnsettledSame DEF Trade, Close, Unsettled, Rows
      <3> QED
        BY <2>2, <3>2, <3>3, <3>4 DEF Trade, Close
    <2>3. CASE Outside \/ Tick
      BY <2>3, UnsettledSame DEF Outside, Tick
    <2> QED
      BY <1>3, <2>1, <2>2, <2>3 DEF BrokerNext
  <1>4. CASE UNCHANGED vars
    BY <1>4, UnsettledSame DEF vars
  <1> QED
    BY <1>1, <1>2, <1>3, <1>4 DEF Next

-----------------------------------------------------------------------------
\* The invariant holds of every reachable state.
THEOREM DispatchCorrect == Spec => []DispatchInv
  <1>1. DispatchInv /\ [Next]_vars => DispatchInv'
    <2> SUFFICES ASSUME DispatchInv, [Next]_vars PROVE DispatchInv'
      OBVIOUS
    <2>1. Shapes' /\ OnceInv' /\ RecordedFillsHappened'
      BY ShapesStep, OnceStep, RecordsStep
    <2>2. SettledInv' /\ VisitedInv'
      BY SettledStep, VisitedStep
    <2> QED
      BY <2>1, <2>2 DEF DispatchInv
  <1> QED
    BY <1>1, DispatchInit, PTL DEF Spec

\* No order is handed to the network twice, or without a committed intent,
\* whatever is killed, lost or repeated (Engine.cycle).
THEOREM SubmitsOnce == Spec => []SubmittedAtMostOnce
  <1>1. DispatchInv => SubmittedAtMostOnce
    BY DEF DispatchInv, OnceInv, SubmittedAtMostOnce
  <1> QED
    BY <1>1, DispatchCorrect, PTL

\* The journal never records a fill or an end that did not happen
\* (Engine.reconcile, Engine.cycle).
THEOREM JournalIsBehind == Spec => []RecordedFillsHappened
  <1>1. DispatchInv => RecordedFillsHappened
    BY DEF DispatchInv
  <1> QED
    BY <1>1, DispatchCorrect, PTL

\* What can still trade is the one unsettled record.
LEMMA WorkingIsUnsettled ==
  ASSUME DispatchInv, NEW k \in Keys,
         k \in wire \/ (book[k] # None /\ book[k].open)
  PROVE  k \in Unsettled
  <1>1. intent[k] # 0
    BY DEF DispatchInv, OnceInv
  <1>2. CASE k \in wire
    BY <1>1, <1>2 DEF DispatchInv, OnceInv, RecordedFillsHappened, Unsettled,
       Rows, Settled
  <1>3. CASE book[k] # None /\ book[k].open
    BY <1>1, <1>3 DEF DispatchInv, RecordedFillsHappened, Unsettled, Rows,
       Settled
  <1> QED
    BY <1>2, <1>3

\* At most one order is unsettled and nothing else can trade (Engine.cycle's
\* working_order check, Engine.reconcile).
THEOREM OneOrderAtATime == Spec => []OneUnsettledOrder
  <1>1. DispatchInv => OneUnsettledOrder
    BY WorkingIsUnsettled DEF DispatchInv, SettledInv, OneUnsettledOrder
  <1> QED
    BY <1>1, DispatchCorrect, PTL

\* A cancel that has visited every order has asked for the end of whatever can
\* still trade (Engine.cancel).
THEOREM CancelIsComplete == Spec => []CancelReachesEveryOrder
  <1>1. DispatchInv => CancelReachesEveryOrder
    <2> SUFFICES ASSUME DispatchInv, pc = "x_orders", todo = {},
                        NEW k \in Keys,
                        k \in wire \/ (book[k] # None /\ book[k].open)
                 PROVE  k \in asked
      BY DEF CancelReachesEveryOrder
    <2>1. k \in Unsettled \ todo
      BY WorkingIsUnsettled
    <2>2. book[k] # None /\ (book[k].open => k \in asked)
      BY <2>1 DEF DispatchInv, VisitedInv
    <2> QED
      BY <2>2 DEF DispatchInv, OnceInv
  <1> QED
    BY <1>1, DispatchCorrect, PTL

\* After the stop nothing passes the transport's check any more, and only what
\* had passed it goes out (HTTPS.request, Journal.stop).
THEOREM StopIsFinal == Spec => StopEndsDispatch
  <1>1. [Next]_vars =>
          [stopped /\ pc # "c_send" => posted' = posted /\ pc' # "c_send"]_vars
    <2> SUFFICES ASSUME Next, stopped, pc # "c_send"
                 PROVE  posted' = posted /\ pc' # "c_send"
      OBVIOUS
    <2> USE DEF journal, worker, market, Goto, Forget
    <2>1. CASE OperatorNext
      BY <2>1 DEF OperatorNext, StartFirst, StartAgain, ReconcileBegin,
         CancelBegin, CycleBegin, Begin, Stop
    <2>2. CASE WorkerNext
      BY <2>2 DEF WorkerNext, OperationEnds, StartAccount, StartBaseline,
         StartSnapshot, StartReady, ReconcileMark, ReconcileOpen, ReconcileCash,
         ReconcileAccount, ReconcileLoss, ReconcileReady, CycleDecide, Decide,
         CycleLimits, CycleIntent, CycleMark, CycleCheck, CycleTransport,
         CycleSend, CycleReply, Reply, CancelStop, CancelDone, ReconcileOrder,
         CancelOrder
    <2>3. CASE BrokerNext
      BY <2>3 DEF BrokerNext, Accept, Lose, Trade, Close, Outside, Tick
    <2> QED
      BY <2>1, <2>2, <2>3 DEF Next
  <1> QED
    BY <1>1, PTL DEF Spec, StopEndsDispatch

-----------------------------------------------------------------------------
(* Sums over a finite set: induction by the smallest set that fails.       *)

\* The element that a sum takes first.
First(s) == CHOOSE x \in s : TRUE

\* One unfolding of the sums of f over the subsets of S.
SumStep(g, f, S) ==
    [s \in SUBSET S |-> IF s = {} THEN 0 ELSE f[First(s)] + g[s \ {First(s)}]]

\* g sums f over every subset of S.
Sums(g, f, S) ==
    /\ g \in [SUBSET S -> Int]
    /\ \A s \in SUBSET S :
          g[s] = IF s = {} THEN 0 ELSE f[First(s)] + g[s \ {First(s)}]

\* A set of natural numbers that is not empty has a smallest member.
LEMMA SmallestMember ==
  ASSUME NEW T \in SUBSET Nat, T # {}
  PROVE  \E n \in T : \A m \in T : n <= m
  <1>1. PICK n \in T : \A m \in T : ~(<<m, n>> \in OpToRel(<, Nat))
    BY NatLessThanWellFounded, WFMin
  <1>2. \A m \in T : <<m, n>> \in OpToRel(<, Nat) <=> m < n
    BY DEF OpToRel
  <1>3. n \in Nat /\ \A m \in T : m \in Nat
    OBVIOUS
  <1>4. \A m \in T : ~(m < n)
    BY <1>1, <1>2
  <1> QED
    BY <1>3, <1>4

\* A set of finite sets that is not empty has a member of the smallest size.
LEMMA SmallestSubset ==
  ASSUME NEW S, IsFiniteSet(S), NEW T \in SUBSET (SUBSET S), T # {}
  PROVE  \E s \in T : \A t \in T : Cardinality(s) <= Cardinality(t)
  <1> DEFINE sizes == {Cardinality(s) : s \in T}
  <1>1. sizes \in SUBSET Nat /\ sizes # {}
    BY FS_Subset, FS_CardinalityType
  <1>2. PICK n \in sizes : \A m \in sizes : n <= m
    BY <1>1, SmallestMember
  <1> QED
    BY <1>2

\* The first element of a set is in it, and the rest is one smaller.
LEMMA FirstTaken ==
  ASSUME NEW S, IsFiniteSet(S), NEW s \in SUBSET S, s # {}
  PROVE  /\ First(s) \in s
         /\ s \ {First(s)} \in SUBSET S
         /\ Cardinality(s) \in Nat /\ Cardinality(s) > 0
         /\ Cardinality(s \ {First(s)}) = Cardinality(s) - 1
  <1>1. First(s) \in s
    BY DEF First
  <1>2. IsFiniteSet(s)
    BY FS_Subset
  <1>3. Cardinality(s) \in Nat /\ Cardinality(s) # 0
    BY <1>2, FS_CardinalityType, FS_EmptySet
  <1>4. Cardinality(s \ {First(s)}) = Cardinality(s) - 1
    BY <1>1, <1>2, FS_RemoveElement
  <1> QED
    BY <1>1, <1>3, <1>4

\* The sums over a finite set exist: one size after the other.
LEMMA SumsExist ==
  ASSUME NEW S, IsFiniteSet(S), NEW f
  PROVE  \E g : g = SumStep(g, f, S)
  <1> DEFINE Upto(n) == {s \in SUBSET S : Cardinality(s) <= n}
  <1> DEFINE Fits(g, n) ==
        g = [s \in Upto(n) |-> IF s = {} THEN 0 ELSE f[First(s)] + g[s \ {First(s)}]]
  <1> DEFINE Bad == {n \in Nat : ~\E g : Fits(g, n)}
  <1>1. Bad = {}
    <2> SUFFICES ASSUME Bad # {} PROVE FALSE
      OBVIOUS
    <2>1. PICK n \in Bad : \A m \in Bad : n <= m
      <3>1. Bad \in SUBSET Nat
        OBVIOUS
      <3> HIDE DEF Bad
      <3> QED
        BY <3>1, SmallestMember
    <2>2. n \in Nat /\ ~\E g : Fits(g, n)
      BY <2>1
    <2>3. CASE n = 0
      <3> DEFINE g == [s \in Upto(0) |-> 0]
      <3>1. \A s \in Upto(0) : s = {}
        BY FS_Subset, FS_EmptySet, FS_CardinalityType
      <3>2. Fits(g, 0)
        BY <3>1
      <3> QED
        BY <2>2, <2>3, <3>2
    <2>4. CASE n > 0
      <3>1. n - 1 \in Nat /\ n - 1 \notin Bad
        <4>1. n - 1 \in Nat /\ ~(n <= n - 1)
          BY <2>2, <2>4
        <4> HIDE DEF Bad
        <4> QED
          BY <2>1, <4>1
      <3>2. PICK g : Fits(g, n - 1)
        BY <3>1
      <3> DEFINE h == [s \in Upto(n) |->
                         IF s = {} THEN 0 ELSE f[First(s)] + g[s \ {First(s)}]]
      <3>3. ASSUME NEW s \in Upto(n), s # {}
            PROVE  s \ {First(s)} \in Upto(n - 1) /\ s \ {First(s)} \in Upto(n)
        <4>1. /\ s \ {First(s)} \in SUBSET S /\ Cardinality(s) \in Nat
              /\ Cardinality(s \ {First(s)}) = Cardinality(s) - 1
          BY <3>3, FirstTaken
        <4> QED
          BY <2>2, <3>3, <4>1
      <3>4. ASSUME NEW t \in Upto(n - 1) PROVE t \in Upto(n) /\ h[t] = g[t]
        <4>1. t \in Upto(n)
          BY <2>2, FS_Subset, FS_CardinalityType
        <4>2. h[t] = IF t = {} THEN 0 ELSE f[First(t)] + g[t \ {First(t)}]
          BY <4>1
        <4>3. g[t] = IF t = {} THEN 0 ELSE f[First(t)] + g[t \ {First(t)}]
          BY <3>2, <3>4
        <4> QED
          BY <4>1, <4>2, <4>3
      <3>5. \A s \in Upto(n) :
               (IF s = {} THEN 0 ELSE f[First(s)] + g[s \ {First(s)}])
                 = (IF s = {} THEN 0 ELSE f[First(s)] + h[s \ {First(s)}])
        BY <3>3, <3>4
      <3>6. Fits(h, n)
        <4> HIDE DEF Upto
        <4> QED
          BY <3>5
      <3> QED
        BY <2>2, <3>6
    <2> QED
      BY <2>2, <2>3, <2>4
  <1>2. Cardinality(S) \in Nat
    BY FS_CardinalityType
  <1>3. PICK g : Fits(g, Cardinality(S))
    BY <1>1, <1>2
  <1>4. Upto(Cardinality(S)) = SUBSET S
    BY FS_Subset
  <1> HIDE DEF Upto
  <1>5. g = [s \in SUBSET S |-> IF s = {} THEN 0 ELSE f[First(s)] + g[s \ {First(s)}]]
    BY <1>3, <1>4
  <1> QED
    BY <1>5 DEF SumStep

\* The sum of a function is the last of the sums over the subsets of its domain.
LEMMA SumIsLast ==
  ASSUME NEW S, IsFiniteSet(S), NEW f \in [S -> Int]
  PROVE  \E g : Sums(g, f, S) /\ SumFunction(f) = g[S]
  <1> DEFINE g == CHOOSE x : x = SumStep(x, f, S)
  <1>1. g = SumStep(g, f, S)
    BY SumsExist
  <1>2. SumFunction(f) = g[DOMAIN f]
    <2>1. SumFunction(f) =
            (CHOOSE x : x = SumStep(x, f, DOMAIN f))[DOMAIN f]
      BY DEF SumStep, SumFunction, SumFunctionOnSet, FoldFunctionOnSet, MapThenFoldSet, First
    <2> QED
      BY <2>1
  <1> HIDE DEF g
  <1>3. /\ DOMAIN g = SUBSET S
        /\ \A s \in SUBSET S :
              g[s] = IF s = {} THEN 0 ELSE f[First(s)] + g[s \ {First(s)}]
    BY <1>1 DEF SumStep
  <1> DEFINE Bad == {s \in SUBSET S : g[s] \notin Int}
  <1>4. Bad = {}
    <2> SUFFICES ASSUME Bad # {} PROVE FALSE
      OBVIOUS
    <2>1. Bad \in SUBSET (SUBSET S)
      OBVIOUS
    <2>2. PICK s \in Bad : \A t \in Bad : Cardinality(s) <= Cardinality(t)
      <3> HIDE DEF Bad
      <3> QED
        BY <2>1, SmallestSubset
    <2>3. s \in SUBSET S /\ g[s] \notin Int
      BY <2>2
    <2>4. s # {}
      <3>1. s = {} => g[s] = 0
        BY <1>3, <2>3
      <3> QED
        BY <2>3, <3>1
    <2>5. /\ First(s) \in s /\ s \ {First(s)} \in SUBSET S
          /\ Cardinality(s) \in Nat
          /\ Cardinality(s \ {First(s)}) = Cardinality(s) - 1
      BY <2>3, <2>4, FirstTaken
    <2>6. s \ {First(s)} \notin Bad
      BY <2>2, <2>5
    <2>7. g[s \ {First(s)}] \in Int /\ f[First(s)] \in Int
      BY <2>3, <2>5, <2>6
    <2> QED
      BY <1>3, <2>3, <2>4, <2>7
  <1>5. g \in [SUBSET S -> Int]
    <2>1. \A s \in SUBSET S : g[s] \in Int
      BY <1>4
    <2>2. g = [s \in SUBSET S |-> g[s]]
      BY <1>1 DEF SumStep
    <2> QED
      BY <2>1, <2>2
  <1> QED
    BY <1>2, <1>3, <1>5 DEF Sums

\* A sum of integers is an integer.
LEMMA SumIsInteger ==
  ASSUME NEW S, IsFiniteSet(S), NEW f \in [S -> Int]
  PROVE  SumFunction(f) \in Int
  <1>1. PICK g : Sums(g, f, S) /\ SumFunction(f) = g[S]
    BY SumIsLast
  <1>2. g \in [SUBSET S -> Int] /\ S \in SUBSET S
    BY <1>1 DEF Sums
  <1> QED
    BY <1>1, <1>2

\* The sum of nothing but zeros.
LEMMA SumOfZeros ==
  ASSUME NEW S, IsFiniteSet(S), NEW f \in [S -> Int], \A x \in S : f[x] = 0
  PROVE  SumFunction(f) = 0
  <1>1. PICK g : Sums(g, f, S) /\ SumFunction(f) = g[S]
    BY SumIsLast
  <1> DEFINE Bad == {s \in SUBSET S : g[s] # 0}
  <1>2. Bad = {}
    <2> SUFFICES ASSUME Bad # {} PROVE FALSE
      OBVIOUS
    <2>1. Bad \in SUBSET (SUBSET S)
      OBVIOUS
    <2>2. PICK s \in Bad : \A t \in Bad : Cardinality(s) <= Cardinality(t)
      <3> HIDE DEF Bad
      <3> QED
        BY <2>1, SmallestSubset
    <2>3. s \in SUBSET S /\ g[s] # 0
      BY <2>2
    <2>4. s # {}
      <3>1. s = {} => g[s] = 0
        BY <1>1, <2>3 DEF Sums
      <3> QED
        BY <2>3, <3>1
    <2>5. /\ First(s) \in s /\ s \ {First(s)} \in SUBSET S
          /\ Cardinality(s) \in Nat
          /\ Cardinality(s \ {First(s)}) = Cardinality(s) - 1
      BY <2>3, <2>4, FirstTaken
    <2>6. s \ {First(s)} \notin Bad
      BY <2>2, <2>5
    <2>7. g[s \ {First(s)}] = 0 /\ f[First(s)] = 0
      BY <2>3, <2>5, <2>6
    <2>8. g[s] = f[First(s)] + g[s \ {First(s)}]
      BY <1>1, <2>3, <2>4 DEF Sums
    <2> QED
      BY <2>3, <2>7, <2>8
  <1> QED
    BY <1>1, <1>2

\* A sum changes by what one of its members changes by.
LEMMA SumOfChange ==
  ASSUME NEW S, IsFiniteSet(S), NEW f \in [S -> Int], NEW h \in [S -> Int],
         NEW k \in S, \A x \in S \ {k} : h[x] = f[x]
  PROVE  SumFunction(h) = SumFunction(f) + h[k] - f[k]
  <1>1. PICK a : Sums(a, f, S) /\ SumFunction(f) = a[S]
    BY SumIsLast
  <1>2. PICK b : Sums(b, h, S) /\ SumFunction(h) = b[S]
    BY SumIsLast
  <1> DEFINE Diff(s) == IF k \in s THEN h[k] - f[k] ELSE 0
  <1> DEFINE Bad == {s \in SUBSET S : b[s] # a[s] + Diff(s)}
  <1>3. Bad = {}
    <2> SUFFICES ASSUME Bad # {} PROVE FALSE
      OBVIOUS
    <2>1. Bad \in SUBSET (SUBSET S)
      OBVIOUS
    <2>2. PICK s \in Bad : \A t \in Bad : Cardinality(s) <= Cardinality(t)
      <3> HIDE DEF Bad
      <3> QED
        BY <2>1, SmallestSubset
    <2>3. s \in SUBSET S /\ b[s] # a[s] + Diff(s)
      BY <2>2
    <2>4. s # {}
      <3>1. s = {} => a[s] = 0 /\ b[s] = 0 /\ Diff(s) = 0
        BY <1>1, <1>2, <2>3 DEF Sums
      <3> QED
        BY <2>3, <3>1
    <2> DEFINE x == First(s)
    <2> DEFINE t == s \ {First(s)}
    <2>5. /\ x \in s /\ t \in SUBSET S
          /\ Cardinality(s) \in Nat
          /\ Cardinality(t) = Cardinality(s) - 1
      BY <2>3, <2>4, FirstTaken
    <2>6. t \notin Bad
      <3> HIDE DEF t
      <3>1. ~(Cardinality(s) <= Cardinality(t))
        BY <2>5
      <3> HIDE DEF Bad
      <3> QED
        BY <2>2, <3>1
    <2>7. b[t] = a[t] + Diff(t)
      BY <2>5, <2>6
    <2>8. a[s] = f[x] + a[t] /\ b[s] = h[x] + b[t]
      BY <1>1, <1>2, <2>3, <2>4 DEF Sums
    <2>9. /\ a[t] \in Int /\ b[t] \in Int /\ f[x] \in Int /\ h[x] \in Int
          /\ h[k] \in Int /\ f[k] \in Int /\ x \in S
      BY <1>1, <1>2, <2>3, <2>5 DEF Sums
    <2>10. CASE x = k
      <3>1. Diff(t) = 0 /\ Diff(s) = h[k] - f[k]
        BY <2>5, <2>10
      <3> HIDE DEF Diff, t, x
      <3> QED
        BY <2>3, <2>7, <2>8, <2>9, <2>10, <3>1
    <2>11. CASE x # k
      <3>1. Diff(t) = Diff(s) /\ h[x] = f[x] /\ Diff(s) \in Int
        BY <2>9, <2>11
      <3> HIDE DEF Diff, t, x
      <3> QED
        BY <2>3, <2>7, <2>8, <2>9, <3>1
    <2> QED
      BY <2>10, <2>11
  <1>4. b[S] = a[S] + Diff(S) /\ Diff(S) = h[k] - f[k]
    BY <1>3
  <1>5. a[S] \in Int /\ h[k] \in Int /\ f[k] \in Int
    BY <1>1 DEF Sums
  <1> QED
    BY <1>1, <1>2, <1>4, <1>5

-----------------------------------------------------------------------------
(* What is known of the account, and of what may still be filled.          *)
Starting == {"s_account", "s_open", "s_snapshot", "s_ready"}
Checking == {"r_orders", "r_cash", "r_positions", "r_ready"}

\* Where the journal can say ready, and what an operation knows of the account
\* on its way there.
ReadyInv ==
    /\ ~baseline \/ pc \in Starting => Rows = {}
    /\ pc \in Checking \cup {"r_mark"} \cup Deciding => baseline
    /\ pc \in Checking \cup {"c_check", "c_transport", "c_send", "c_reply"} =>
          state # "ready"
    /\ pc = "r_orders" => \A k \in Rows \ todo : order[k] # None
    /\ pc \in {"r_cash", "r_positions", "r_ready"} => \A k \in Rows : order[k] # None
    /\ pc = "r_ready" => account = Expected
    /\ pc \in {"r_ready", "c_decide"} => seen = Expected
    /\ pc = "s_ready" => account = Flat
    /\ ReadyIsReconciled

\* An order never fills beyond its size, and is open only while it can fill.
FillsFit ==
    /\ intent \in [Keys -> Int]
    /\ delta \in Int
    /\ \A k \in Keys : book[k] # None =>
          book[k].filled <= Size(k) /\ (book[k].open => book[k].filled < Size(k))

Idle(k) == k \notin wire /\ ~(book[k] # None /\ book[k].open)

\* From the decision to the send nothing can trade, so that the limits that
\* were checked against the account still hold of what the broker holds.
LimitsHold ==
    /\ pc \in {"c_limits", "c_intent"} \cup Sending =>
          seen = Holdings /\ \A k \in Keys : Idle(k)
    /\ pc \in {"c_intent"} \cup Sending =>
          /\ Net(seen) + (IF delta > 0 THEN delta ELSE 0) <= MaxPosition
          /\ delta < 0 => -delta <= seen[sym]
    /\ pc \in Sending => intent[Key] = delta

ExposureInv == FillsFit /\ LimitsHold /\ ExposureBounded

-----------------------------------------------------------------------------
(* Sums of fills.                                                          *)

\* There are finitely many order keys.
LEMMA FiniteKeys == IsFiniteSet(Keys)
  BY MinutesAssumption, SymbolsAssumption, FS_Product DEF Keys

\* A fill is an integer when intents and records are what they should be.
LEMMA FillIsInteger ==
  ASSUME Shapes, FillsFit, NEW k \in Keys,
         NEW rec \in [Keys -> Orders \cup {None}]
  PROVE  Fill(rec, k) \in Int /\ intent[k] \in Int
  <1>1. rec[k] = None \/ rec[k].filled \in Nat
    BY DEF Orders
  <1> QED
    BY <1>1 DEF Fill, FillsFit

\* A position is an integer, whichever record it is summed from.
LEMMA PositionIsInteger ==
  ASSUME Shapes, FillsFit, NEW s \in Symbols,
         NEW rec \in [Keys -> Orders \cup {None}]
  PROVE  /\ [m \in Minutes |-> Fill(rec, <<s, m>>)] \in [Minutes -> Int]
         /\ Position(rec, s) \in Int
  <1>1. [m \in Minutes |-> Fill(rec, <<s, m>>)] \in [Minutes -> Int]
    BY FillIsInteger DEF Keys
  <1> QED
    BY <1>1, MinutesAssumption, SumIsInteger DEF Position

\* What is expected and what is held are functions to integers.
LEMMA HoldingsAreIntegers ==
  ASSUME Shapes, FillsFit
  PROVE  Holdings \in [Symbols -> Int] /\ Expected \in [Symbols -> Int]
  BY PositionIsInteger DEF Holdings, Expected, Shapes

\* Without an intent there is nothing to expect.
LEMMA NothingExpected ==
  ASSUME DispatchInv, Rows = {}
  PROVE  Expected = Flat
  <1>1. ASSUME NEW k \in Keys PROVE Fill(order, k) = 0
    <2>1. intent[k] = 0
      BY DEF Rows
    <2>2. order[k] = None
      BY <2>1 DEF DispatchInv, OnceInv, RecordedFillsHappened, Shapes
    <2> QED
      BY <2>2 DEF Fill
  <1>2. ASSUME NEW s \in Symbols PROVE Position(order, s) = 0
    <2> DEFINE f == [m \in Minutes |-> Fill(order, <<s, m>>)]
    <2>1. f \in [Minutes -> Int] /\ \A m \in Minutes : f[m] = 0
      BY <1>1 DEF Keys
    <2>2. SumFunction(f) = 0
      <3> HIDE DEF f
      <3> QED
        BY <2>1, MinutesAssumption, SumOfZeros
    <2> QED
      BY <2>2 DEF Position
  <1> QED
    BY <1>2 DEF Expected, Flat

\* What is expected depends on what is recorded of each order.
LEMMA ExpectedSame ==
  ASSUME \A k \in Keys : Fill(order, k)' = Fill(order, k)
  PROVE  Expected' = Expected
  <1>1. ASSUME NEW s \in Symbols PROVE Position(order, s)' = Position(order, s)
    <2>1. [m \in Minutes |-> Fill(order, <<s, m>>)]' = [m \in Minutes |-> Fill(order, <<s, m>>)]
      BY DEF Keys
    <2> QED
      BY <2>1 DEF Position
  <1> QED
    BY <1>1 DEF Expected

-----------------------------------------------------------------------------
(* Ready means reconciled.                                                 *)

\* What is known of the records; the account is dealt with below.
RecordsKnown ==
    /\ ~baseline \/ pc \in Starting => Rows = {}
    /\ pc \in Checking \cup {"r_mark"} \cup Deciding => baseline
    /\ pc \in Checking \cup {"c_check", "c_transport", "c_send", "c_reply"} =>
          state # "ready"
    /\ pc = "r_orders" => \A k \in Rows \ todo : order[k] # None
    /\ pc \in {"r_cash", "r_positions", "r_ready"} => \A k \in Rows : order[k] # None
    /\ state = "ready" => \A k \in Keys : posted[k] # 0 => order[k] # None

AccountKnown ==
    /\ pc = "r_ready" => account = Expected
    /\ pc \in {"r_ready", "c_decide"} => seen = Expected
    /\ pc = "s_ready" => account = Flat
    /\ state = "ready" => account = Expected

\* The invariant in two parts: the records, and the account that is compared with them.
LEMMA ReadyParts == ReadyInv <=> RecordsKnown /\ AccountKnown
  BY DEF ReadyInv, RecordsKnown, AccountKnown, ReadyIsReconciled

\* What an operation knows of the records stays known.
LEMMA RecordsKnownStep ==
  ASSUME DispatchInv, RecordsKnown, [Next]_vars PROVE RecordsKnown'
  <1> USE DEF RecordsKnown, Starting, Checking, Deciding, Rows, journal, worker, market
  <1>1. CASE OperatorNext
    BY <1>1 DEF OperatorNext, StartFirst, StartAgain, ReconcileBegin,
       CancelBegin, CycleBegin, Begin, Stop
  <1>2. CASE WorkerNext
    <2> USE DEF Goto, Forget
    <2>0. \A k \in Keys : posted[k] # 0 => intent[k] # 0
      BY DEF DispatchInv, OnceInv
    <2>1. CASE OperationEnds \/ StartAccount \/ StartBaseline \/ StartSnapshot
               \/ StartReady
      BY <2>0, <2>1 DEF OperationEnds, StartAccount, StartBaseline, StartSnapshot,
         StartReady
    <2>2. CASE ReconcileMark \/ ReconcileOpen \/ ReconcileCash
               \/ ReconcileAccount \/ ReconcileLoss
      BY <2>2 DEF ReconcileMark, ReconcileOpen, ReconcileCash,
         ReconcileAccount, ReconcileLoss
    <2>3. CASE ReconcileReady
      BY <2>0, <2>3 DEF ReconcileReady
    <2>4. CASE CycleDecide \/ CycleLimits \/ CycleMark \/ CycleCheck \/ CycleTransport
      BY <2>4 DEF CycleDecide, Decide, CycleLimits, CycleMark, CycleCheck, CycleTransport
    <2>5. CASE CycleIntent
      BY <2>5 DEF CycleIntent, DispatchInv, Shapes
    <2>6. CASE CycleSend \/ CycleReply
      BY <2>6 DEF CycleSend, CycleReply, Reply
    <2>7. CASE CancelStop \/ CancelDone
      BY <2>7 DEF CancelStop, CancelDone
    <2>8. ASSUME NEW k \in Keys, ReconcileOrder(k) PROVE RecordsKnown'
      <3>1. order'[k] # None
        BY <2>8, OrderFacts DEF ReconcileOrder, Settled, DispatchInv, Shapes
      <3>2. \A l \in Keys : l # k => order'[l] = order[l]
        BY <2>8 DEF ReconcileOrder, DispatchInv, Shapes
      <3>3. /\ pc = "r_orders" /\ todo' = todo \ {k}
            /\ UNCHANGED <<state, baseline, intent, pc, posted>>
        BY <2>8 DEF ReconcileOrder
      <3> QED
        BY <3>1, <3>2, <3>3
    <2>9. ASSUME NEW k \in Keys, CancelOrder(k) PROVE RecordsKnown'
      BY <2>9 DEF CancelOrder
    <2> QED
      BY <1>2, <2>1, <2>2, <2>3, <2>4, <2>5, <2>6, <2>7, <2>8, <2>9 DEF WorkerNext
  <1>3. CASE BrokerNext
    BY <1>3 DEF BrokerNext, Accept, Lose, Trade, Close, Outside, Tick
  <1>4. CASE UNCHANGED vars
    BY <1>4 DEF vars
  <1> QED
    BY <1>1, <1>2, <1>3, <1>4 DEF Next

\* The account that was recorded is compared with the same records until the next
\* observation, and an intent without an observation adds nothing.
LEMMA AccountKnownStep ==
  ASSUME DispatchInv, RecordsKnown, AccountKnown, [Next]_vars PROVE AccountKnown'
  <1> USE DEF AccountKnown, journal, worker, market
  <1>0. ASSUME UNCHANGED <<intent, order>> PROVE Expected' = Expected
    BY <1>0, ExpectedSame DEF Fill
  <1> HIDE DEF AccountKnown
  <1>1. CASE OperatorNext
    BY <1>0, <1>1 DEF AccountKnown, OperatorNext, StartFirst, StartAgain, ReconcileBegin,
       CancelBegin, CycleBegin, Begin, Stop
  <1>2. CASE WorkerNext
    <2> USE DEF Goto, Forget
    <2>1. CASE OperationEnds \/ StartAccount \/ StartBaseline
      BY <1>0, <2>1 DEF AccountKnown, OperationEnds, StartAccount, StartBaseline
    <2>2. CASE StartSnapshot \/ StartReady
      <3>1. Rows = {} /\ Expected = Flat
        BY <2>2, NothingExpected DEF RecordsKnown, Starting, StartSnapshot, StartReady
      <3>2. Flat' = Flat
        BY DEF Flat
      <3> QED
        BY <1>0, <2>2, <3>1, <3>2 DEF AccountKnown, StartSnapshot, StartReady
    <2>3. CASE ReconcileMark \/ ReconcileOpen \/ ReconcileCash \/ ReconcileLoss
               \/ ReconcileReady
      BY <1>0, <2>3 DEF AccountKnown, ReconcileMark, ReconcileOpen, ReconcileCash,
         ReconcileLoss, ReconcileReady
    <2>4. CASE ReconcileAccount
      BY <1>0, <2>4 DEF AccountKnown, ReconcileAccount
    <2>5. CASE CycleDecide \/ CycleLimits \/ CycleMark \/ CycleCheck \/ CycleTransport
               \/ CycleSend
      BY <1>0, <2>5 DEF AccountKnown, CycleDecide, Decide, CycleLimits, CycleMark,
         CycleCheck, CycleTransport, CycleSend
    <2>6. CASE CycleIntent
      <3>1. /\ Key \in Keys /\ intent[Key] = 0 /\ pc = "c_intent" /\ DOMAIN intent = Keys
        BY <2>6 DEF CycleIntent, DispatchInv, OnceInv, Shapes, Key, Keys, Deciding
      <3>2. order[Key] = None
        BY <3>1 DEF DispatchInv, OnceInv, RecordedFillsHappened
      <3>3. ASSUME NEW k \in Keys PROVE Fill(order, k)' = Fill(order, k)
        <4>1. UNCHANGED order /\ (k # Key => intent'[k] = intent[k])
          BY <2>6, <3>1 DEF CycleIntent
        <4> QED
          BY <3>2, <4>1 DEF Fill
      <3>4. Expected' = Expected
        BY <3>3, ExpectedSame
      <3> QED
        BY <2>6, <3>4 DEF AccountKnown, CycleIntent
    <2>7. CASE CycleReply
      BY <2>7 DEF AccountKnown, RecordsKnown, CycleReply, Reply
    <2>8. CASE CancelStop \/ CancelDone
      BY <1>0, <2>8 DEF AccountKnown, CancelStop, CancelDone
    <2>9. ASSUME NEW k \in Keys, ReconcileOrder(k) PROVE AccountKnown'
      BY <2>9 DEF AccountKnown, RecordsKnown, Checking, ReconcileOrder
    <2>10. ASSUME NEW k \in Keys, CancelOrder(k) PROVE AccountKnown'
      BY <1>0, <2>10 DEF AccountKnown, CancelOrder
    <2> QED
      BY <1>2, <2>1, <2>2, <2>3, <2>4, <2>5, <2>6, <2>7, <2>8, <2>9, <2>10 DEF WorkerNext
  <1>3. CASE BrokerNext
    BY <1>0, <1>3 DEF AccountKnown, BrokerNext, Accept, Lose, Trade, Close, Outside, Tick
  <1>4. CASE UNCHANGED vars
    BY <1>0, <1>4 DEF AccountKnown, vars
  <1> QED
    BY <1>1, <1>2, <1>3, <1>4 DEF Next

\* Nothing is known, and nothing claimed, at first.
LEMMA ReadyInit == Init => ReadyInv
  <1> SUFFICES ASSUME Init PROVE ReadyInv
    OBVIOUS
  <1>1. Rows = {}
    BY DEF Init, Rows
  <1> QED
    BY <1>1 DEF Init, ReadyInv, Starting, Checking, Deciding, ReadyIsReconciled

\* The invariant holds of every reachable state.
LEMMA ReadyInvHolds == Spec => []ReadyInv
  <1>1. DispatchInv /\ ReadyInv /\ [Next]_vars => ReadyInv'
    <2> SUFFICES ASSUME DispatchInv, ReadyInv, [Next]_vars PROVE ReadyInv'
      OBVIOUS
    <2>1. RecordsKnown' /\ AccountKnown'
      BY ReadyParts, RecordsKnownStep, AccountKnownStep
    <2> QED
      BY <2>1 DEF ReadyInv, RecordsKnown, AccountKnown, ReadyIsReconciled
  <1> QED
    BY <1>1, ReadyInit, DispatchCorrect, PTL DEF Spec

\* A journal that says ready holds an account that equals what its own fills add up to,
\* and knows the outcome of every submission: for any universe, minutes and limits,
\* whatever was lost and wherever a worker was killed (Engine.start, reconcile, cycle).
THEOREM ReadyMeansReconciled == Spec => []ReadyIsReconciled
  <1>1. ReadyInv => ReadyIsReconciled
    BY DEF ReadyInv
  <1> QED
    BY <1>1, ReadyInvHolds, PTL

-----------------------------------------------------------------------------
(* Exposure: what one key adds to the sums.                                *)

\* Max and Min of a number and zero.
LEMMA LargerAndSmaller ==
  ASSUME NEW a \in Int
  PROVE  /\ Max({a, 0}) = IF a > 0 THEN a ELSE 0
         /\ Min({a, 0}) = IF a < 0 THEN a ELSE 0
  <1> DEFINE hi == IF a > 0 THEN a ELSE 0
  <1> DEFINE lo == IF a < 0 THEN a ELSE 0
  <1>1. /\ hi \in {a, 0} /\ \A y \in {a, 0} : hi >= y
        /\ \A x \in {a, 0} : (\A y \in {a, 0} : x >= y) => x = hi
    OBVIOUS
  <1>2. /\ lo \in {a, 0} /\ \A y \in {a, 0} : lo <= y
        /\ \A x \in {a, 0} : (\A y \in {a, 0} : x <= y) => x = lo
    OBVIOUS
  <1> HIDE DEF hi, lo
  <1>3. Max({a, 0}) = hi
    BY <1>1 DEF Max
  <1>4. Min({a, 0}) = lo
    BY <1>2 DEF Min
  <1> QED
    BY <1>3, <1>4 DEF hi, lo

\* Outstanding quantities are integers, before a step and after it.
LEMMA OutstandingIsInteger ==
  ASSUME Shapes, FillsFit, NEW k \in Keys
  PROVE  /\ Outstanding(k) \in Int
         /\ Buying(k) = IF Outstanding(k) > 0 THEN Outstanding(k) ELSE 0
         /\ Selling(k) = IF Outstanding(k) < 0 THEN Outstanding(k) ELSE 0
         /\ Buying(k) \in Int /\ Selling(k) \in Int
  <1>1. Outstanding(k) \in Int
    BY FillIsInteger DEF Outstanding, Shapes
  <1> QED
    BY <1>1, LargerAndSmaller DEF Buying, Selling

\* The same after a step that keeps the intents.
LEMMA OutstandingAfter ==
  ASSUME Shapes, FillsFit, UNCHANGED intent,
         book' \in [Keys -> Orders \cup {None}], NEW k \in Keys
  PROVE  /\ Fill(book, k)' \in Int
         /\ Outstanding(k)' \in Int
         /\ Buying(k)' = IF Outstanding(k)' > 0 THEN Outstanding(k)' ELSE 0
         /\ Selling(k)' = IF Outstanding(k)' < 0 THEN Outstanding(k)' ELSE 0
         /\ Buying(k)' \in Int /\ Selling(k)' \in Int
  <1>1. Fill(book', k) \in Int /\ intent[k] \in Int
    BY FillIsInteger
  <1>2. Fill(book, k)' = Fill(book', k)
    BY DEF Fill
  <1>3. Outstanding(k)' \in Int
    BY <1>1, <1>2 DEF Outstanding
  <1> QED
    BY <1>1, <1>2, <1>3, LargerAndSmaller DEF Buying, Selling

\* The sums are integers.
LEMMA SumsAreIntegers ==
  ASSUME Shapes, FillsFit
  PROVE  /\ Net(Holdings) \in Int /\ Bought \in Int
         /\ [k \in Keys |-> Buying(k)] \in [Keys -> Int]
         /\ \A s \in Symbols : /\ Holdings[s] \in Int /\ Sold(s) \in Int
                               /\ [m \in Minutes |-> Selling(<<s, m>>)] \in [Minutes -> Int]
  <1>1. Net(Holdings) \in Int /\ \A s \in Symbols : Holdings[s] \in Int
    BY HoldingsAreIntegers, SymbolsAssumption, SumIsInteger DEF Net
  <1>2. [k \in Keys |-> Buying(k)] \in [Keys -> Int]
    BY OutstandingIsInteger
  <1>3. Bought \in Int
    BY <1>2, FiniteKeys, SumIsInteger DEF Bought
  <1>4. ASSUME NEW s \in Symbols
        PROVE  /\ [m \in Minutes |-> Selling(<<s, m>>)] \in [Minutes -> Int]
               /\ Sold(s) \in Int
    <2>1. \A m \in Minutes : <<s, m>> \in Keys
      BY DEF Keys
    <2>2. [m \in Minutes |-> Selling(<<s, m>>)] \in [Minutes -> Int]
      BY <2>1, OutstandingIsInteger
    <2> QED
      BY <2>2, MinutesAssumption, SumIsInteger DEF Sold
  <1> QED
    BY <1>1, <1>2, <1>3, <1>4

(***************************************************************************)
(* A step that changes one key changes each sum by what the key changes    *)
(* by, and the position of its symbol alone.                               *)
(***************************************************************************)
LEMMA OneKeyMoves ==
  ASSUME Shapes, FillsFit, UNCHANGED intent,
         book' \in [Keys -> Orders \cup {None}], NEW k \in Keys,
         \A l \in Keys \ {k} : /\ Fill(book, l)' = Fill(book, l)
                               /\ Outstanding(l)' = Outstanding(l)
  PROVE  /\ Net(Holdings)' = Net(Holdings) + (Fill(book, k)' - Fill(book, k))
         /\ Bought' = Bought + Buying(k)' - Buying(k)
         /\ Holdings'[k[1]] = Holdings[k[1]] + (Fill(book, k)' - Fill(book, k))
         /\ Sold(k[1])' = Sold(k[1]) + Selling(k)' - Selling(k)
         /\ \A s \in Symbols \ {k[1]} : Holdings'[s] = Holdings[s] /\ Sold(s)' = Sold(s)
  <1>0. PICK t \in Symbols, n \in Minutes : k = <<t, n>>
    BY DEF Keys
  <1>1. k[1] = t /\ \A s \in Symbols, m \in Minutes :
           <<s, m>> \in Keys /\ (<<s, m>> = k <=> s = t /\ m = n)
    BY <1>0 DEF Keys
  <1>2. \A l \in Keys \ {k} : Buying(l)' = Buying(l) /\ Selling(l)' = Selling(l)
    BY DEF Buying, Selling
  <1>3. Bought' = Bought + Buying(k)' - Buying(k)
    <2> DEFINE f == [l \in Keys |-> Buying(l)]
    <2>1. f \in [Keys -> Int] /\ f' \in [Keys -> Int]
      BY OutstandingIsInteger, OutstandingAfter
    <2>2. /\ \A x \in Keys \ {k} : f'[x] = f[x]
          /\ f'[k] = Buying(k)' /\ f[k] = Buying(k)
      BY <1>2
    <2> HIDE DEF f
    <2>3. SumFunction(f') = SumFunction(f) + f'[k] - f[k]
      BY <2>1, <2>2, FiniteKeys, SumOfChange
    <2> QED
      BY <2>2, <2>3 DEF Bought, f
  <1>4. Sold(t)' = Sold(t) + Selling(k)' - Selling(k)
    <2> DEFINE f == [m \in Minutes |-> Selling(<<t, m>>)]
    <2>1. f \in [Minutes -> Int] /\ f' \in [Minutes -> Int]
      BY <1>1, OutstandingIsInteger, OutstandingAfter
    <2>2. /\ \A x \in Minutes \ {n} : f'[x] = f[x]
          /\ f'[n] = Selling(k)' /\ f[n] = Selling(k)
      BY <1>0, <1>1, <1>2
    <2> HIDE DEF f
    <2>3. SumFunction(f') = SumFunction(f) + f'[n] - f[n]
      <3>1. IsFiniteSet(Minutes)
        BY MinutesAssumption
      <3> QED
        BY <2>1, <2>2, <3>1, SumOfChange
    <2> QED
      BY <2>2, <2>3 DEF Sold, f
  <1>5. Position(book, t)' = Position(book, t) + (Fill(book, k)' - Fill(book, k))
    <2> DEFINE f == [m \in Minutes |-> Fill(book, <<t, m>>)]
    <2>1. f \in [Minutes -> Int] /\ f' \in [Minutes -> Int]
      BY <1>1, FillIsInteger, OutstandingAfter DEF Shapes
    <2>2. /\ \A x \in Minutes \ {n} : f'[x] = f[x]
          /\ f'[n] = Fill(book, k)' /\ f[n] = Fill(book, k)
      BY <1>0, <1>1
    <2> HIDE DEF f
    <2>3. SumFunction(f') = SumFunction(f) + f'[n] - f[n]
      <3>1. IsFiniteSet(Minutes)
        BY MinutesAssumption
      <3> QED
        BY <2>1, <2>2, <3>1, SumOfChange
    <2>4. f'[n] \in Int /\ f[n] \in Int /\ SumFunction(f) \in Int
      BY <2>1, MinutesAssumption, SumIsInteger
    <2> QED
      BY <2>2, <2>3, <2>4 DEF Position, f
  <1>6. ASSUME NEW s \in Symbols, s # t
        PROVE  Position(book, s)' = Position(book, s) /\ Sold(s)' = Sold(s)
    <2>1. [m \in Minutes |-> Fill(book, <<s, m>>)]' = [m \in Minutes |-> Fill(book, <<s, m>>)]
      BY <1>1, <1>6
    <2>2. [m \in Minutes |-> Selling(<<s, m>>)]' = [m \in Minutes |-> Selling(<<s, m>>)]
      BY <1>1, <1>2, <1>6
    <2> QED
      BY <2>1, <2>2 DEF Position, Sold
  <1>7. /\ Holdings \in [Symbols -> Int] /\ Holdings' \in [Symbols -> Int]
        /\ Holdings'[t] = Holdings[t] + (Fill(book, k)' - Fill(book, k))
        /\ \A s \in Symbols \ {t} : Holdings'[s] = Holdings[s]
    <2>1. Holdings \in [Symbols -> Int]
      BY HoldingsAreIntegers
    <2>2. Holdings[t] = Position(book, t)
      BY DEF Holdings
    <2>3. Holdings'[t] = Position(book, t)'
      BY DEF Holdings
    <2>4. \A s \in Symbols : Holdings'[s] = Position(book, s)' /\ Holdings[s] = Position(book, s)
      BY DEF Holdings
    <2>5. Fill(book, k) \in Int /\ Fill(book, k)' \in Int
      BY FillIsInteger, OutstandingAfter DEF Shapes
    <2>6. \A s \in Symbols : Holdings'[s] \in Int
      BY <1>5, <1>6, <2>1, <2>2, <2>4, <2>5
    <2>7. Holdings' = [s \in Symbols |-> Holdings'[s]]
      BY DEF Holdings
    <2> QED
      BY <1>5, <1>6, <2>1, <2>4, <2>6, <2>7
  <1>8. Net(Holdings)' = Net(Holdings) + (Fill(book, k)' - Fill(book, k))
    <2>1. SumFunction(Holdings') = SumFunction(Holdings) + Holdings'[t] - Holdings[t]
      BY <1>7, SymbolsAssumption, SumOfChange
    <2>2. SumFunction(Holdings) \in Int /\ Holdings[t] \in Int
          /\ Fill(book, k) \in Int /\ Fill(book, k)' \in Int
      BY <1>7, SymbolsAssumption, SumIsInteger, FillIsInteger, OutstandingAfter DEF Shapes
    <2> QED
      BY <1>7, <2>1, <2>2 DEF Net
  <1> QED
    BY <1>1, <1>3, <1>4, <1>6, <1>7, <1>8

-----------------------------------------------------------------------------
(* Exposure: the steps.                                                    *)

\* Every step keeps fills within their orders.
LEMMA FillsFitStep ==
  ASSUME DispatchInv, ReadyInv, FillsFit, [Next]_vars PROVE FillsFit'
  <1> USE DEF FillsFit, Size, journal, worker, market
  <1>1. CASE OperatorNext
    BY <1>1 DEF OperatorNext, StartFirst, StartAgain, ReconcileBegin,
       CancelBegin, CycleBegin, Begin, Stop
  <1>2. CASE WorkerNext
    <2> USE DEF Goto, Forget
    <2>1. CASE OperationEnds \/ StartAccount \/ StartBaseline \/ StartSnapshot
               \/ StartReady
      BY <2>1 DEF OperationEnds, StartAccount, StartBaseline, StartSnapshot,
         StartReady
    <2>2. CASE ReconcileMark \/ ReconcileOpen \/ ReconcileCash
               \/ ReconcileAccount \/ ReconcileLoss \/ ReconcileReady
      BY <2>2 DEF ReconcileMark, ReconcileOpen, ReconcileCash,
         ReconcileAccount, ReconcileLoss, ReconcileReady
    <2>3. CASE CycleDecide
      <3>1. pc = "c_decide" /\ sym \in Symbols /\ seen \in [Symbols -> Int]
        BY <2>3, HoldingsAreIntegers DEF CycleDecide, Decide, Deciding, DispatchInv,
           Shapes, ReadyInv
      <3>2. \A target \in {0, Quantity} : target - seen[sym] \in Int
        BY <3>1, LimitAssumption
      <3>3. delta' \in Int
        BY <2>3, <3>2 DEF CycleDecide, Decide
      <3> QED
        BY <2>3, <3>3 DEF CycleDecide, Decide
    <2>4. CASE CycleLimits \/ CycleMark \/ CycleCheck \/ CycleTransport \/ CycleSend
      BY <2>4 DEF CycleLimits, CycleMark, CycleCheck, CycleTransport, CycleSend
    <2>5. CASE CycleIntent
      <3>1. Key \in Keys /\ intent[Key] = 0
        BY <2>5 DEF CycleIntent, DispatchInv, OnceInv, Shapes, Key, Keys, Deciding
      <3>2. book[Key] = None
        BY <3>1 DEF DispatchInv, OnceInv
      <3>3. /\ intent' = [intent EXCEPT ![Key] = delta] /\ UNCHANGED <<book, delta>>
        BY <2>5 DEF CycleIntent
      <3>4. \A k \in Keys : k # Key => intent'[k] = intent[k]
        BY <3>3
      <3> QED
        BY <3>1, <3>2, <3>3, <3>4
    <2>6. CASE CycleReply
      BY <2>6 DEF CycleReply, Reply
    <2>7. CASE CancelStop \/ CancelDone
      BY <2>7 DEF CancelStop, CancelDone
    <2>8. ASSUME NEW k \in Keys, ReconcileOrder(k) \/ CancelOrder(k) PROVE FillsFit'
      BY <2>8 DEF ReconcileOrder, CancelOrder
    <2> QED
      BY <1>2, <2>1, <2>2, <2>3, <2>4, <2>5, <2>6, <2>7, <2>8 DEF WorkerNext
  <1>3. CASE BrokerNext
    <2>1. ASSUME NEW k \in Keys, Accept(k) PROVE FillsFit'
      <3>1. intent[k] # 0 /\ intent[k] \in Int
        BY <2>1 DEF Accept, DispatchInv, OnceInv
      <3>2. Size(k) \in Int /\ Size(k) > 0
        BY <3>1
      <3>3. PICK open \in BOOLEAN :
               book' = [book EXCEPT ![k] = [open |-> open, filled |-> 0]]
        BY <2>1 DEF Accept
      <3>4. /\ book'[k] = [open |-> open, filled |-> 0]
            /\ \A l \in Keys : l # k => book'[l] = book[l]
        BY <3>3 DEF DispatchInv, Shapes
      <3>5. UNCHANGED <<intent, delta>>
        BY <2>1 DEF Accept
      <3> QED
        BY <3>1, <3>2, <3>4, <3>5
    <2>2. ASSUME NEW k \in Keys, Lose(k) PROVE FillsFit'
      BY <2>2 DEF Lose
    <2>3. ASSUME NEW k \in Keys, Trade(k) \/ Close(k) PROVE FillsFit'
      <3>1. /\ book[k] \in Orders /\ book[k].open /\ book[k] # None
            /\ book[k].filled \in Nat /\ intent[k] \in Int
            /\ book[k].filled < Size(k) /\ Size(k) \in Int
        BY <2>3, BrokerFills, NoneAssumption DEF DispatchInv, Trade, Close, Orders
      <3>2. /\ \A l \in Keys : l # k => book'[l] = book[l]
            /\ UNCHANGED <<intent, delta>>
        BY <2>3 DEF Trade, Close, DispatchInv, Shapes
      <3>3. book'[k].filled <= Size(k) /\ (book'[k].open => book'[k].filled < Size(k))
        <4>1. CASE Trade(k)
          <5>1. book'[k] = [open |-> book[k].filled + 1 < Size(k),
                            filled |-> book[k].filled + 1]
            BY <4>1 DEF Trade, DispatchInv, Shapes
          <5> HIDE DEF Size
          <5>2. /\ book'[k].filled = book[k].filled + 1
                /\ book'[k].open = (book[k].filled + 1 < Size(k))
            BY <5>1
          <5>3. book'[k].filled <= Size(k)
            BY <3>1, <5>2
          <5>4. ASSUME book'[k].open PROVE book[k].filled + 1 < Size(k)
            BY <5>2, <5>4
          <5>5. ASSUME book'[k].open PROVE book'[k].filled < Size(k)
            BY <5>2, <5>4, <5>5
          <5> QED
            BY <5>3, <5>5
        <4>2. CASE Close(k)
          <5>1. book'[k] = [open |-> FALSE, filled |-> book[k].filled]
            BY <4>2 DEF Close, DispatchInv, Shapes
          <5> QED
            BY <3>1, <5>1
        <4> QED
          BY <2>3, <4>1, <4>2
      <3> QED
        BY <3>2, <3>3
    <2>4. CASE Outside \/ Tick
      BY <2>4 DEF Outside, Tick
    <2> QED
      BY <1>3, <2>1, <2>2, <2>3, <2>4 DEF BrokerNext
  <1>4. CASE UNCHANGED vars
    BY <1>4 DEF vars
  <1> QED
    BY <1>1, <1>2, <1>3, <1>4 DEF Next

\* What the broker holds depends on the fills alone.
LEMMA HoldingsSame ==
  ASSUME \A k \in Keys : Fill(book, k)' = Fill(book, k)
  PROVE  Holdings' = Holdings
  <1>1. ASSUME NEW s \in Symbols PROVE Position(book, s)' = Position(book, s)
    <2>1. [m \in Minutes |-> Fill(book, <<s, m>>)]' = [m \in Minutes |-> Fill(book, <<s, m>>)]
      BY DEF Keys
    <2> QED
      BY <2>1 DEF Position
  <1> QED
    BY <1>1 DEF Holdings

\* When every order is settled the journal expects what the broker holds.
LEMMA SettledHoldings ==
  ASSUME DispatchInv, Unsettled = {}
  PROVE  Expected = Holdings /\ \A k \in Keys : Idle(k)
  <1>1. ASSUME NEW k \in Keys PROVE Fill(order, k) = Fill(book, k)
    <2>1. CASE intent[k] = 0
      BY <2>1 DEF DispatchInv, OnceInv, RecordedFillsHappened, Fill
    <2>2. CASE intent[k] # 0
      <3>1. Settled(k)
        BY <2>2 DEF Unsettled, Rows
      <3>2. book[k] = order[k]
        BY <3>1 DEF Settled, DispatchInv, RecordedFillsHappened
      <3> QED
        BY <3>2 DEF Fill
    <2> QED
      BY <2>1, <2>2
  <1>2. ASSUME NEW s \in Symbols PROVE Position(order, s) = Position(book, s)
    <2>1. [m \in Minutes |-> Fill(order, <<s, m>>)] = [m \in Minutes |-> Fill(book, <<s, m>>)]
      BY <1>1 DEF Keys
    <2> QED
      BY <2>1 DEF Position
  <1>3. Expected = Holdings
    BY <1>2 DEF Expected, Holdings
  <1>4. ASSUME NEW k \in Keys PROVE Idle(k)
    BY WorkingIsUnsettled DEF Idle
  <1> QED
    BY <1>3, <1>4

\* Nothing trades between the check of the limits and the send.
LEMMA LimitsStep ==
  ASSUME DispatchInv, ReadyInv, FillsFit, LimitsHold, [Next]_vars PROVE LimitsHold'
  <1> USE DEF journal, worker, market
  <1>0. ASSUME UNCHANGED <<intent, book>> PROVE Holdings' = Holdings
    BY <1>0, HoldingsSame DEF Fill
  <1>1. CASE OperatorNext
    BY <1>0, <1>1 DEF LimitsHold, Sending, Idle, Key, OperatorNext, StartFirst,
       StartAgain, ReconcileBegin, CancelBegin, CycleBegin, Begin, Stop
  <1>2. CASE WorkerNext
    <2> USE DEF Goto, Forget
    <2>1. CASE OperationEnds \/ StartAccount \/ StartBaseline \/ StartSnapshot
               \/ StartReady
      BY <2>1 DEF LimitsHold, Sending, OperationEnds, StartAccount, StartBaseline,
         StartSnapshot, StartReady
    <2>2. CASE ReconcileMark \/ ReconcileOpen \/ ReconcileCash
               \/ ReconcileAccount \/ ReconcileLoss \/ ReconcileReady
      BY <2>2 DEF LimitsHold, Sending, ReconcileMark, ReconcileOpen, ReconcileCash,
         ReconcileAccount, ReconcileLoss, ReconcileReady
    <2>3. CASE CycleDecide
      <3>1. Unsettled = {} /\ pc = "c_decide" /\ UNCHANGED <<intent, book, wire>>
        BY <2>3 DEF CycleDecide, Decide
      <3>2. seen = Holdings /\ \A k \in Keys : Idle(k)
        BY <3>1, SettledHoldings DEF ReadyInv
      <3>3. \/ pc' = "idle"
            \/ pc' = "c_limits" /\ UNCHANGED seen
        BY <2>3 DEF CycleDecide, Decide
      <3>4. Holdings' = Holdings
        BY <1>0, <3>1
      <3> QED
        BY <3>1, <3>2, <3>3, <3>4 DEF LimitsHold, Sending, Idle
    <2>4. CASE CycleLimits
      <3>1. /\ pc = "c_limits" /\ pc' = "c_intent"
            /\ UNCHANGED <<intent, book, wire, seen, delta, sym, at>>
            /\ Net(seen) + (IF delta > 0 THEN delta ELSE 0) <= MaxPosition
            /\ delta < 0 => -delta <= seen[sym]
        BY <2>4 DEF CycleLimits
      <3> QED
        BY <1>0, <3>1 DEF LimitsHold, Sending, Idle, Net
    <2>5. CASE CycleIntent
      <3>1. /\ Key \in Keys /\ intent[Key] = 0 /\ pc = "c_intent" /\ pc' = "c_mark"
            /\ DOMAIN intent = Keys
            /\ UNCHANGED <<book, wire, seen, delta, sym, at>>
            /\ intent' = [intent EXCEPT ![Key] = delta]
        BY <2>5 DEF CycleIntent, DispatchInv, OnceInv, Shapes, Key, Keys, Deciding
      <3>2. book[Key] = None
        BY <3>1 DEF DispatchInv, OnceInv
      <3>3. ASSUME NEW k \in Keys PROVE Fill(book, k)' = Fill(book, k)
        <4>1. k # Key => intent'[k] = intent[k]
          BY <3>1
        <4> QED
          BY <3>1, <3>2, <4>1 DEF Fill
      <3>4. Holdings' = Holdings
        BY <3>3, HoldingsSame
      <3>5. intent'[Key] = delta /\ Key' = Key
        BY <3>1 DEF Key
      <3>6. intent'[Key'] = delta'
        BY <3>1, <3>5
      <3> QED
        BY <3>1, <3>4, <3>6 DEF LimitsHold, Sending, Idle, Net
    <2>6. CASE CycleMark \/ CycleCheck \/ CycleTransport
      BY <1>0, <2>6 DEF LimitsHold, Sending, Idle, Key, Net, CycleMark, CycleCheck,
         CycleTransport
    <2>7. CASE CycleSend \/ CycleReply
      BY <2>7 DEF LimitsHold, Sending, CycleSend, CycleReply, Reply
    <2>8. CASE CancelStop \/ CancelDone
      BY <2>8 DEF LimitsHold, Sending, CancelStop, CancelDone
    <2>9. ASSUME NEW k \in Keys, ReconcileOrder(k) \/ CancelOrder(k) PROVE LimitsHold'
      BY <2>9 DEF LimitsHold, Sending, ReconcileOrder, CancelOrder
    <2> QED
      BY <1>2, <2>1, <2>2, <2>3, <2>4, <2>5, <2>6, <2>7, <2>8, <2>9 DEF WorkerNext
  <1>3. CASE BrokerNext
    <2>1. ASSUME NEW k \in Keys, Accept(k) \/ Lose(k) \/ Trade(k) \/ Close(k)
          PROVE LimitsHold'
      <3>1. ~Idle(k) /\ UNCHANGED <<pc>>
        BY <2>1 DEF Idle, Accept, Lose, Trade, Close
      <3>2. pc \notin {"c_limits", "c_intent"} \cup Sending
        BY <3>1 DEF LimitsHold
      <3> QED
        BY <3>1, <3>2 DEF LimitsHold, Sending
    <2>2. CASE Outside \/ Tick
      BY <1>0, <2>2 DEF LimitsHold, Sending, Idle, Key, Net, Outside, Tick
    <2> QED
      BY <1>3, <2>1, <2>2 DEF BrokerNext
  <1>4. CASE UNCHANGED vars
    BY <1>0, <1>4 DEF LimitsHold, Sending, Idle, Key, Net, vars
  <1> QED
    BY <1>1, <1>2, <1>3, <1>4 DEF Next

\* A step that changes no fill and nothing outstanding leaves the exposure.
LEMMA ExposureSame ==
  ASSUME ExposureBounded,
         \A k \in Keys : /\ Fill(book, k)' = Fill(book, k)
                         /\ Outstanding(k)' = Outstanding(k)
  PROVE  ExposureBounded'
  <1>1. Holdings' = Holdings
    BY HoldingsSame
  <1>2. Bought' = Bought /\ \A s \in Symbols : Sold(s)' = Sold(s)
    <2>1. \A k \in Keys : Buying(k)' = Buying(k) /\ Selling(k)' = Selling(k)
      BY DEF Buying, Selling
    <2>2. [k \in Keys |-> Buying(k)]' = [k \in Keys |-> Buying(k)]
      BY <2>1
    <2>3. ASSUME NEW s \in Symbols PROVE Sold(s)' = Sold(s)
      <3>1. [m \in Minutes |-> Selling(<<s, m>>)]' = [m \in Minutes |-> Selling(<<s, m>>)]
        BY <2>1 DEF Keys
      <3> QED
        BY <3>1 DEF Sold
    <2> QED
      BY <2>2, <2>3 DEF Bought
  <1>3. Net(Holdings)' = Net(Holdings)
    BY <1>1 DEF Net
  <1>4. \A s \in Symbols : Holdings'[s] = Holdings[s]
    BY <1>1
  <1> QED
    BY <1>2, <1>3, <1>4 DEF ExposureBounded

\* A step of the broker about one order that adds no more to the fills than it takes
\* from what is outstanding.
LEMMA OrderMoves ==
  ASSUME Shapes, FillsFit, ExposureBounded, UNCHANGED intent,
         book' \in [Keys -> Orders \cup {None}], NEW k \in Keys,
         \A l \in Keys \ {k} : /\ Fill(book, l)' = Fill(book, l)
                               /\ Outstanding(l)' = Outstanding(l),
         (Fill(book, k)' - Fill(book, k)) + (Buying(k)' - Buying(k)) <= 0,
         (Fill(book, k)' - Fill(book, k)) + (Selling(k)' - Selling(k)) >= 0
  PROVE  ExposureBounded'
  <1> DEFINE d == Fill(book, k)' - Fill(book, k)
  <1>1. /\ Fill(book, k) \in Int /\ Fill(book, k)' \in Int /\ d \in Int
        /\ Buying(k) \in Int /\ Buying(k)' \in Int
        /\ Selling(k) \in Int /\ Selling(k)' \in Int /\ k[1] \in Symbols
    <2>1. k[1] \in Symbols
      BY DEF Keys
    <2>2. Fill(book, k) \in Int
      BY FillIsInteger DEF Shapes
    <2>3. Buying(k) \in Int /\ Selling(k) \in Int
      BY OutstandingIsInteger
    <2>4. Fill(book, k)' \in Int /\ Buying(k)' \in Int /\ Selling(k)' \in Int
      BY OutstandingAfter
    <2> QED
      BY <2>1, <2>2, <2>3, <2>4
  <1>2. /\ Net(Holdings)' = Net(Holdings) + d
        /\ Bought' = Bought + Buying(k)' - Buying(k)
        /\ Holdings'[k[1]] = Holdings[k[1]] + d
        /\ Sold(k[1])' = Sold(k[1]) + Selling(k)' - Selling(k)
        /\ \A s \in Symbols \ {k[1]} : Holdings'[s] = Holdings[s] /\ Sold(s)' = Sold(s)
    BY OneKeyMoves
  <1>3. /\ Net(Holdings) \in Int /\ Bought \in Int
        /\ \A s \in Symbols : Holdings[s] \in Int /\ Sold(s) \in Int
    BY SumsAreIntegers
  <1>4. d + (Buying(k)' - Buying(k)) <= 0 /\ d + (Selling(k)' - Selling(k)) >= 0
    OBVIOUS
  <1> HIDE DEF d
  <1>5. /\ Net(Holdings) + Bought <= MaxPosition
        /\ \A s \in Symbols : Holdings[s] + Sold(s) >= 0
    BY DEF ExposureBounded
  <1>6. Net(Holdings)' + Bought' <= MaxPosition
    BY <1>1, <1>2, <1>3, <1>4, <1>5, LimitAssumption
  <1>7. Holdings'[k[1]] + Sold(k[1])' >= 0
    BY <1>1, <1>2, <1>3, <1>4, <1>5
  <1>8. \A s \in Symbols : Holdings'[s] + Sold(s)' >= 0
    BY <1>2, <1>5, <1>7
  <1> QED
    BY <1>6, <1>8 DEF ExposureBounded

\* With nothing on the wire and no open order nothing is outstanding.
LEMMA NothingOutstanding ==
  ASSUME Shapes, FillsFit, \A k \in Keys : Idle(k)
  PROVE  /\ \A k \in Keys : Outstanding(k) = 0 /\ Buying(k) = 0 /\ Selling(k) = 0
         /\ Bought = 0 /\ \A s \in Symbols : Sold(s) = 0
  <1>1. ASSUME NEW k \in Keys
        PROVE  Outstanding(k) = 0 /\ Buying(k) = 0 /\ Selling(k) = 0
    <2>1. Outstanding(k) = 0
      BY DEF Idle, Outstanding
    <2> QED
      BY <2>1, OutstandingIsInteger
  <1>2. Bought = 0
    <2> DEFINE f == [k \in Keys |-> Buying(k)]
    <2>1. f \in [Keys -> Int] /\ \A k \in Keys : f[k] = 0
      BY <1>1
    <2> HIDE DEF f
    <2>2. SumFunction(f) = 0
      BY <2>1, FiniteKeys, SumOfZeros
    <2> QED
      BY <2>2 DEF Bought, f
  <1>3. ASSUME NEW s \in Symbols PROVE Sold(s) = 0
    <2> DEFINE f == [m \in Minutes |-> Selling(<<s, m>>)]
    <2>1. f \in [Minutes -> Int] /\ \A m \in Minutes : f[m] = 0
      BY <1>1 DEF Keys
    <2> HIDE DEF f
    <2>2. SumFunction(f) = 0
      BY <2>1, MinutesAssumption, SumOfZeros
    <2> QED
      BY <2>2 DEF Sold, f
  <1> QED
    BY <1>1, <1>2, <1>3

\* Nothing is held and nothing outstanding at first.
LEMMA ExposureInit == Init => FillsFit /\ LimitsHold /\ ExposureBounded
  <1> SUFFICES ASSUME Init PROVE FillsFit /\ LimitsHold /\ ExposureBounded
    OBVIOUS
  <1>1. Shapes
    BY DispatchInit DEF DispatchInv
  <1>2. FillsFit
    BY DEF Init, FillsFit
  <1>3. LimitsHold
    BY DEF Init, LimitsHold, Sending
  <1>4. \A k \in Keys : Idle(k) /\ Fill(book, k) = 0
    BY DEF Init, Idle, Fill
  <1>5. Bought = 0 /\ \A s \in Symbols : Sold(s) = 0
    BY <1>1, <1>2, <1>4, NothingOutstanding
  <1>6. ASSUME NEW s \in Symbols PROVE Position(book, s) = 0
    <2> DEFINE f == [m \in Minutes |-> Fill(book, <<s, m>>)]
    <2>1. f \in [Minutes -> Int] /\ \A m \in Minutes : f[m] = 0
      BY <1>4 DEF Keys
    <2> HIDE DEF f
    <2>2. SumFunction(f) = 0
      BY <2>1, MinutesAssumption, SumOfZeros
    <2> QED
      BY <2>2 DEF Position, f
  <1>7. Holdings \in [Symbols -> Int] /\ \A s \in Symbols : Holdings[s] = 0
    BY <1>6 DEF Holdings
  <1>8. Net(Holdings) = 0
    <2>1. SumFunction(Holdings) = 0
      BY <1>7, SymbolsAssumption, SumOfZeros
    <2> QED
      BY <2>1 DEF Net
  <1>9. ExposureBounded
    BY <1>5, <1>7, <1>8, LimitAssumption DEF ExposureBounded
  <1> QED
    BY <1>2, <1>3, <1>9

\* An order reaches the broker, or is lost on the way: working, it may fill by what
\* was on the wire; otherwise nothing is outstanding any more.
LEMMA ArrivalExposure ==
  ASSUME DispatchInv, FillsFit, ExposureBounded, NEW k \in Keys, Accept(k) \/ Lose(k),
         book' \in [Keys -> Orders \cup {None}]
  PROVE  ExposureBounded'
  <1>1. /\ k \in wire /\ book[k] = None /\ wire' = wire \ {k} /\ UNCHANGED intent
        /\ intent[k] \in Int
    BY DEF Accept, Lose, DispatchInv, OnceInv, market, worker, journal, FillsFit
  <1>2. Shapes
    BY DEF DispatchInv
  <1>3. \A l \in Keys \ {k} : book'[l] = book[l]
    BY <1>2 DEF Accept, Lose, Shapes
  <1>4. ASSUME NEW l \in Keys \ {k}
        PROVE  Fill(book, l)' = Fill(book, l) /\ Outstanding(l)' = Outstanding(l)
    BY <1>1, <1>3 DEF Fill, Outstanding
  <1>5. book'[k] = None \/ (\E open \in BOOLEAN : book'[k] = [open |-> open, filled |-> 0])
    BY <1>1, <1>2 DEF Accept, Lose, Shapes
  <1>6. Fill(book, k) = 0 /\ Fill(book, k)' = 0
    BY <1>1, <1>5 DEF Fill
  <1>7. Outstanding(k) = intent[k]
    BY <1>1 DEF Outstanding
  <1>8. Outstanding(k)' \in {intent[k], 0}
    BY <1>1, <1>6 DEF Outstanding
  <1>9. Buying(k)' <= Buying(k) /\ Selling(k)' >= Selling(k)
        /\ Buying(k) \in Int /\ Selling(k) \in Int /\ Buying(k)' \in Int /\ Selling(k)' \in Int
    BY <1>1, <1>2, <1>7, <1>8, OutstandingIsInteger, OutstandingAfter
  <1>10. /\ (Fill(book, k)' - Fill(book, k)) + (Buying(k)' - Buying(k)) <= 0
         /\ (Fill(book, k)' - Fill(book, k)) + (Selling(k)' - Selling(k)) >= 0
    BY <1>6, <1>9
  <1> QED
    BY <1>1, <1>2, <1>4, <1>10, OrderMoves

\* An open order fills by one, or ends.
LEMMA FillExposure ==
  ASSUME DispatchInv, FillsFit, ExposureBounded, NEW k \in Keys, Trade(k) \/ Close(k),
         book' \in [Keys -> Orders \cup {None}]
  PROVE  ExposureBounded'
  <1>1. /\ book[k] \in Orders /\ book[k] # None /\ book[k].open
        /\ k \notin wire /\ wire' = wire /\ UNCHANGED intent
        /\ intent[k] \in Int
    BY BrokerFills, NoneAssumption
       DEF Trade, Close, DispatchInv, OnceInv, market, worker, journal, FillsFit
  <1>2. Shapes
    BY DEF DispatchInv
  <1>3. \A l \in Keys \ {k} : book'[l] = book[l]
    BY <1>2 DEF Trade, Close, Shapes
  <1>4. ASSUME NEW l \in Keys \ {k}
        PROVE  Fill(book, l)' = Fill(book, l) /\ Outstanding(l)' = Outstanding(l)
    BY <1>1, <1>3 DEF Fill, Outstanding
  <1> DEFINE b == book[k].filled
  <1> DEFINE w == intent[k]
  <1>5. b \in Nat /\ w \in Int /\ b < Size(k)
    BY <1>1 DEF FillsFit, Orders
  <1>6. w # 0 /\ (w > 0 => b < w) /\ (w < 0 => b < -w)
    BY <1>5 DEF Size
  <1>7. /\ Fill(book, k) = IF w > 0 THEN b ELSE -b
        /\ Outstanding(k) = IF w > 0 THEN w - b ELSE w + b
    BY <1>1, <1>5 DEF Fill, Outstanding
  <1>8. book'[k] \in Orders /\ book'[k] # None
    <2>1. book'[k] = [open |-> b + 1 < Size(k), filled |-> b + 1]
          \/ book'[k] = [open |-> FALSE, filled |-> b]
      BY <1>2 DEF Trade, Close, Shapes
    <2> DEFINE more == b + 1 < Size(k)
    <2>2. more \in BOOLEAN /\ b + 1 \in Nat
      BY <1>5
    <2> HIDE DEF b
    <2>3. [open |-> more, filled |-> b + 1] \in Orders /\ [open |-> FALSE, filled |-> b] \in Orders
      <3> HIDE DEF more
      <3> QED
        BY <1>5, <2>2 DEF Orders
    <2> QED
      BY <2>1, <2>3, NoneAssumption
  <1>9. \/ book'[k].filled = b + 1 /\ book'[k].open = (b + 1 < Size(k))
        \/ book'[k].filled = b /\ ~book'[k].open
    <2>1. book'[k] = [open |-> b + 1 < Size(k), filled |-> b + 1]
          \/ book'[k] = [open |-> FALSE, filled |-> b]
      BY <1>2 DEF Trade, Close, Shapes
    <2> HIDE DEF b
    <2> QED
      BY <2>1
  <1> HIDE DEF b, w
  <1>10. Fill(book, k)' = IF w > 0 THEN book'[k].filled ELSE -book'[k].filled
    BY <1>1, <1>8 DEF Fill, w
  <1>11. Outstanding(k)' = IF book'[k].open THEN w - Fill(book, k)' ELSE 0
    BY <1>1, <1>8 DEF Outstanding, w
  <1>12. Size(k) = IF w < 0 THEN -w ELSE w
    BY DEF Size, w
  <1>13. \/ /\ Fill(book, k)' = Fill(book, k)
            /\ Outstanding(k)' = 0
         \/ /\ w > 0
            /\ Fill(book, k)' = Fill(book, k) + 1
            /\ Outstanding(k)' = Outstanding(k) - 1 /\ Outstanding(k) >= 1
         \/ /\ w < 0
            /\ Fill(book, k)' = Fill(book, k) - 1
            /\ Outstanding(k)' = Outstanding(k) + 1 /\ Outstanding(k) <= -1
    <2>1. CASE book'[k].filled = b /\ ~book'[k].open
      BY <1>7, <1>10, <1>11, <2>1
    <2>2. CASE book'[k].filled = b + 1 /\ book'[k].open = (b + 1 < Size(k)) /\ w > 0
      <3>1. Fill(book, k)' = b + 1 /\ Fill(book, k) = b /\ Outstanding(k) = w - b
        BY <1>7, <1>10, <2>2
      <3>2. CASE b + 1 < Size(k)
        <4>1. book'[k].open
          BY <2>2, <3>2
        <4>2. Outstanding(k)' = w - (b + 1)
          BY <1>11, <3>1, <4>1
        <4> QED
          BY <1>5, <1>6, <2>2, <3>1, <4>2
      <3>3. CASE ~(b + 1 < Size(k))
        <4>1. ~book'[k].open
          BY <2>2, <3>3
        <4>2. Outstanding(k)' = 0
          BY <1>11, <4>1
        <4>3. w = b + 1
          BY <1>5, <1>6, <1>12, <2>2, <3>3
        <4> QED
          BY <1>5, <2>2, <3>1, <4>2, <4>3
      <3> QED
        BY <3>2, <3>3
    <2>3. CASE book'[k].filled = b + 1 /\ book'[k].open = (b + 1 < Size(k)) /\ w < 0
      <3>1. /\ Fill(book, k)' = -(b + 1) /\ Fill(book, k) = -b
            /\ Outstanding(k) = w + b /\ ~(w > 0)
        BY <1>5, <1>7, <1>10, <2>3
      <3>2. CASE b + 1 < Size(k)
        <4>1. book'[k].open
          BY <2>3, <3>2
        <4>2. Outstanding(k)' = w + (b + 1)
          BY <1>5, <1>11, <3>1, <4>1
        <4> QED
          BY <1>5, <1>6, <2>3, <3>1, <4>2
      <3>3. CASE ~(b + 1 < Size(k))
        <4>1. ~book'[k].open
          BY <2>3, <3>3
        <4>2. Outstanding(k)' = 0
          BY <1>11, <4>1
        <4>3. -w = b + 1
          BY <1>5, <1>6, <1>12, <2>3, <3>3
        <4> QED
          BY <1>5, <2>3, <3>1, <4>2, <4>3
      <3> QED
        BY <3>2, <3>3
    <2> QED
      BY <1>5, <1>6, <1>9, <2>1, <2>2, <2>3
  <1>14. /\ Fill(book, k) \in Int /\ Fill(book, k)' \in Int
         /\ Outstanding(k) \in Int /\ Outstanding(k)' \in Int
         /\ Buying(k) = IF Outstanding(k) > 0 THEN Outstanding(k) ELSE 0
         /\ Selling(k) = IF Outstanding(k) < 0 THEN Outstanding(k) ELSE 0
         /\ Buying(k)' = IF Outstanding(k)' > 0 THEN Outstanding(k)' ELSE 0
         /\ Selling(k)' = IF Outstanding(k)' < 0 THEN Outstanding(k)' ELSE 0
    BY <1>1, <1>2, FillIsInteger, OutstandingIsInteger, OutstandingAfter DEF Shapes
  <1>15. /\ (Fill(book, k)' - Fill(book, k)) + (Buying(k)' - Buying(k)) <= 0
         /\ (Fill(book, k)' - Fill(book, k)) + (Selling(k)' - Selling(k)) >= 0
    <2>1. CASE Fill(book, k)' = Fill(book, k) /\ Outstanding(k)' = 0
      BY <1>14, <2>1
    <2>2. CASE /\ Fill(book, k)' = Fill(book, k) + 1
               /\ Outstanding(k)' = Outstanding(k) - 1 /\ Outstanding(k) >= 1
      <3>1. Buying(k)' = Buying(k) - 1 /\ Selling(k) = 0 /\ Selling(k)' = 0
        BY <1>14, <2>2
      <3> QED
        BY <1>14, <2>2, <3>1
    <2>3. CASE /\ Fill(book, k)' = Fill(book, k) - 1
               /\ Outstanding(k)' = Outstanding(k) + 1 /\ Outstanding(k) <= -1
      <3>1. Selling(k)' = Selling(k) + 1 /\ Buying(k) = 0 /\ Buying(k)' = 0
        BY <1>14, <2>3
      <3> QED
        BY <1>14, <2>3, <3>1
    <2> QED
      BY <1>13, <2>1, <2>2, <2>3
  <1> QED
    BY <1>1, <1>2, <1>4, <1>15, OrderMoves

\* The order goes out within the limits that were checked.
LEMMA SendExposure ==
  ASSUME DispatchInv, FillsFit, LimitsHold, ExposureBounded, CycleSend
  PROVE  ExposureBounded'
  <1>1. /\ pc = "c_send" /\ wire' = wire \cup {Key} /\ UNCHANGED <<intent, book>>
        /\ sym \in Symbols /\ at \in Minutes /\ Key \in Keys /\ Key[1] = sym
    BY DEF CycleSend, journal, DispatchInv, Shapes, Deciding, Key, Keys
  <1>2. Shapes /\ book \in [Keys -> Orders \cup {None}]
    BY DEF DispatchInv, Shapes
  <1>3. /\ seen = Holdings /\ \A k \in Keys : Idle(k)
        /\ Net(seen) + (IF delta > 0 THEN delta ELSE 0) <= MaxPosition
        /\ delta < 0 => -delta <= seen[sym]
        /\ intent[Key] = delta /\ delta \in Int
    BY <1>1 DEF LimitsHold, Sending, FillsFit
  <1>4. /\ Outstanding(Key) = 0 /\ Buying(Key) = 0 /\ Selling(Key) = 0
        /\ Bought = 0 /\ \A s \in Symbols : Sold(s) = 0
    BY <1>1, <1>2, <1>3, NothingOutstanding
  <1>5. \A k \in Keys : Fill(book, k)' = Fill(book, k)
    BY <1>1 DEF Fill
  <1>6. \A k \in Keys \ {Key} : Outstanding(k)' = Outstanding(k)
    BY <1>1, <1>5 DEF Outstanding
  <1>7. PICK K \in Keys : K = Key
    BY <1>1
  <1>8. Outstanding(K)' = delta
    BY <1>1, <1>3, <1>7 DEF Outstanding
  <1>9. /\ Net(Holdings)' = Net(Holdings) + (Fill(book, K)' - Fill(book, K))
        /\ Bought' = Bought + Buying(K)' - Buying(K)
        /\ Holdings'[K[1]] = Holdings[K[1]] + (Fill(book, K)' - Fill(book, K))
        /\ Sold(K[1])' = Sold(K[1]) + Selling(K)' - Selling(K)
        /\ \A s \in Symbols \ {K[1]} : Holdings'[s] = Holdings[s] /\ Sold(s)' = Sold(s)
    <2>1. book' \in [Keys -> Orders \cup {None}]
      BY <1>1, <1>2
    <2>2. \A l \in Keys \ {K} : /\ Fill(book, l)' = Fill(book, l)
                               /\ Outstanding(l)' = Outstanding(l)
      BY <1>5, <1>6, <1>7
    <2> QED
      BY <1>1, <1>2, <2>1, <2>2, OneKeyMoves
  <1>10. /\ Fill(book, K) \in Int /\ Fill(book, K)' = Fill(book, K)
         /\ Buying(K) = 0 /\ Selling(K) = 0
    BY <1>2, <1>4, <1>5, <1>7, FillIsInteger
  <1>11. /\ Buying(K)' = IF delta > 0 THEN delta ELSE 0
         /\ Selling(K)' = IF delta < 0 THEN delta ELSE 0
    BY <1>3, <1>8, LargerAndSmaller DEF Buying, Selling
  <1>12. /\ Net(Holdings) \in Int
         /\ \A s \in Symbols : Holdings[s] \in Int
    BY <1>2, SumsAreIntegers
  <1>13. Bought = 0 /\ Sold(K[1]) = 0 /\ K[1] = sym
    BY <1>1, <1>4, <1>7
  <1>14. Net(Holdings)' + Bought' <= MaxPosition
    BY <1>3, <1>9, <1>10, <1>11, <1>12, <1>13, LimitAssumption
  <1>15. Holdings'[K[1]] + Sold(K[1])' >= 0
    <2>1. Holdings'[K[1]] = Holdings[K[1]] /\ Sold(K[1])' = Selling(K)' /\ Holdings[K[1]] \in Int
      <3>1. Selling(K)' \in Int /\ Holdings[K[1]] \in Int
        BY <1>1, <1>3, <1>11, <1>12, <1>13
      <3>2. Holdings'[K[1]] = Holdings[K[1]] + (Fill(book, K)' - Fill(book, K))
        BY <1>9, <1>13
      <3>3. Sold(K[1])' = Sold(K[1]) + Selling(K)' - Selling(K)
        BY <1>9, <1>13
      <3>4. Sold(K[1]) = 0
        BY <1>13
      <3> QED
        BY <1>10, <3>1, <3>2, <3>3, <3>4
    <2>2. Holdings[K[1]] >= 0
      <3>1. K[1] \in Symbols /\ Sold(K[1]) = 0 /\ Holdings[K[1]] \in Int
        BY <1>1, <1>12, <1>13
      <3>2. Holdings[K[1]] + Sold(K[1]) >= 0
        BY <3>1 DEF ExposureBounded
      <3> QED
        BY <3>1, <3>2
    <2>3. delta < 0 => -delta <= Holdings[K[1]]
      BY <1>3, <1>13
    <2> QED
      BY <1>3, <1>11, <2>1, <2>2, <2>3
  <1>16. \A s \in Symbols : Holdings'[s] + Sold(s)' >= 0
    <2>1. ASSUME NEW s \in Symbols, s # K[1] PROVE Holdings'[s] + Sold(s)' >= 0
      <3>1. Holdings'[s] = Holdings[s] /\ Sold(s)' = Sold(s)
        BY <1>9, <1>13, <2>1
      <3>2. Holdings[s] + Sold(s) >= 0
        BY DEF ExposureBounded
      <3> QED
        BY <3>1, <3>2
    <2> QED
      BY <1>15, <2>1
  <1> QED
    BY <1>14, <1>16 DEF ExposureBounded

\* Every step keeps the exposure within its limits.
LEMMA ExposureStep ==
  ASSUME DispatchInv, FillsFit, LimitsHold, ExposureBounded, [Next]_vars
  PROVE  ExposureBounded'
  <1> USE DEF journal, worker, market
  <1>0. ASSUME UNCHANGED <<intent, book, wire>> PROVE ExposureBounded'
    BY <1>0, ExposureSame DEF Fill, Outstanding
  <1>1. CASE OperatorNext
    BY <1>0, <1>1 DEF OperatorNext, StartFirst, StartAgain, ReconcileBegin,
       CancelBegin, CycleBegin, Begin, Stop
  <1>2. CASE WorkerNext
    <2> USE DEF Goto, Forget
    <2>1. CASE OperationEnds \/ StartAccount \/ StartBaseline \/ StartSnapshot
               \/ StartReady
      BY <1>0, <2>1 DEF OperationEnds, StartAccount, StartBaseline, StartSnapshot,
         StartReady
    <2>2. CASE ReconcileMark \/ ReconcileOpen \/ ReconcileCash
               \/ ReconcileAccount \/ ReconcileLoss \/ ReconcileReady
      BY <1>0, <2>2 DEF ReconcileMark, ReconcileOpen, ReconcileCash,
         ReconcileAccount, ReconcileLoss, ReconcileReady
    <2>3. CASE CycleDecide \/ CycleLimits \/ CycleMark \/ CycleCheck \/ CycleTransport
               \/ CycleReply
      BY <1>0, <2>3 DEF CycleDecide, Decide, CycleLimits, CycleMark, CycleCheck,
         CycleTransport, CycleReply, Reply
    <2>4. CASE CycleIntent
      <3>1. /\ Key \in Keys /\ intent[Key] = 0 /\ pc = "c_intent"
            /\ UNCHANGED <<book, wire>>
            /\ intent' = [intent EXCEPT ![Key] = delta]
        BY <2>4 DEF CycleIntent, DispatchInv, OnceInv, Shapes, Key, Keys, Deciding
      <3>2. book[Key] = None
        BY <3>1 DEF DispatchInv, OnceInv
      <3>3. ASSUME NEW k \in Keys
            PROVE  Fill(book, k)' = Fill(book, k) /\ Outstanding(k)' = Outstanding(k)
        <4>1. k # Key => intent'[k] = intent[k]
          BY <3>1
        <4>2. Fill(book, k)' = Fill(book, k)
          BY <3>1, <3>2, <4>1 DEF Fill
        <4>3. Idle(k)
          BY <3>1 DEF LimitsHold
        <4> QED
          BY <3>1, <4>2, <4>3 DEF Idle, Outstanding
      <3> QED
        BY <3>3, ExposureSame
    <2>5. CASE CycleSend
      BY <2>5, SendExposure
    <2>6. CASE CancelStop \/ CancelDone
      BY <1>0, <2>6 DEF CancelStop, CancelDone
    <2>7. ASSUME NEW k \in Keys, ReconcileOrder(k) \/ CancelOrder(k)
          PROVE  ExposureBounded'
      BY <1>0, <2>7 DEF ReconcileOrder, CancelOrder
    <2> QED
      BY <1>2, <2>1, <2>2, <2>3, <2>4, <2>5, <2>6, <2>7 DEF WorkerNext
  <1>3. CASE BrokerNext
    <2>1. book' \in [Keys -> Orders \cup {None}]
      BY ShapesStep DEF Shapes
    <2>2. ASSUME NEW k \in Keys, Accept(k) \/ Lose(k) \/ Trade(k) \/ Close(k)
          PROVE  ExposureBounded'
      BY <2>1, <2>2, ArrivalExposure, FillExposure
    <2>3. CASE Outside \/ Tick
      BY <1>0, <2>3 DEF Outside, Tick
    <2> QED
      BY <1>3, <2>2, <2>3 DEF BrokerNext
  <1>4. CASE UNCHANGED vars
    BY <1>0, <1>4 DEF vars
  <1> QED
    BY <1>1, <1>2, <1>3, <1>4 DEF Next

\* The stronger invariant holds of every reachable state.
LEMMA ExposureInvHolds == Spec => []ExposureInv
  <1>1. Init => ExposureInv
    BY ExposureInit DEF ExposureInv
  <1>2. DispatchInv /\ ReadyInv /\ ExposureInv /\ [Next]_vars => ExposureInv'
    BY FillsFitStep, LimitsStep, ExposureStep DEF ExposureInv
  <1> QED
    BY <1>1, <1>2, DispatchCorrect, ReadyInvHolds, PTL DEF Spec

\* Exposure stays within the ceiling and no position goes short, the order on the wire
\* or open at the broker included: for any universe, minutes, quantity and limits,
\* whatever was lost, filled in parts or killed since the limits were checked
\* (Engine.cycle's notional_limit and short_sale).
THEOREM ExposureIsBounded == Spec => []ExposureBounded
  <1>1. ExposureInv => ExposureBounded
    BY DEF ExposureInv
  <1> QED
    BY <1>1, ExposureInvHolds, PTL

-----------------------------------------------------------------------------
(* The contract: steps that it does not see.                               *)

\* What the contract sees of an order.
SeenSame(k) ==
    /\ Phase(k)' = Phase(k) /\ Size(k)' = Size(k)
    /\ Units(book, k)' = Units(book, k)
    /\ Knowledge(k)' = Knowledge(k) /\ Units(order, k)' = Units(order, k)

\* Nothing is seen of a step that changes nothing of any order.
LEMMA Unseen ==
  ASSUME \A k \in Keys : SeenSame(k), stopped' = stopped
  PROVE  UNCHANGED Dispatch!vars
  BY DEF SeenSame, Dispatch!vars

\* Orders and the journal's records of them are left, and what an operation that holds
\* an order may still do with it.
Quiet ==
    /\ UNCHANGED <<intent, posted, wire, book, order>>
    /\ \/ UNCHANGED <<pc, sym, at>>
       \/ pc \notin Sending /\ pc' \notin Sending
       \/ pc \in Sending \ {"c_send"} /\ pc' \in Sending \ {"c_send"} /\ UNCHANGED <<sym, at>>

\* Such a step changes nothing that the contract sees.
LEMMA QuietSame ==
  ASSUME Quiet, NEW k \in Keys
  PROVE  SeenSame(k)
  <1>1. intent' = intent /\ posted' = posted /\ wire' = wire /\ book' = book /\ order' = order
    BY DEF Quiet
  <1>2. Unposted(k)' = Unposted(k)
    BY DEF Quiet, Unposted, Key, Sending
  <1>3. Posted(k)' = Posted(k)
    BY <1>1 DEF Posted
  <1>4. Phase(k)' = Phase(k)
    BY <1>1, <1>2, <1>3 DEF Phase
  <1>5. Size(k)' = Size(k)
    BY <1>1 DEF Size
  <1>6. Units(book, k)' = Units(book, k) /\ Units(order, k)' = Units(order, k)
    BY <1>1 DEF Units
  <1>7. Knowledge(k)' = Knowledge(k)
    BY <1>1 DEF Knowledge
  <1> QED
    BY <1>4, <1>5, <1>6, <1>7 DEF SeenSame

\* Most steps of an operation are quiet, and so are those of others that only wait.
LEMMA QuietSteps ==
  ASSUME \/ StartFirst \/ StartAgain \/ ReconcileBegin \/ CancelBegin
         \/ \E s \in Symbols : CycleBegin(s)
         \/ OperationEnds /\ pc \notin Sending
         \/ StartAccount \/ StartBaseline \/ StartSnapshot \/ StartReady
         \/ ReconcileMark \/ ReconcileOpen \/ ReconcileCash \/ ReconcileAccount
         \/ ReconcileReady \/ CycleDecide \/ CycleLimits \/ CycleMark \/ CycleCheck
         \/ CancelDone \/ (\E k \in Keys : CancelOrder(k))
         \/ Outside \/ Tick \/ UNCHANGED vars
  PROVE  Quiet /\ stopped' = stopped
  <1> USE DEF Quiet, Sending, journal, worker, market, Goto, Forget
  <1>1. CASE \/ StartFirst \/ StartAgain \/ ReconcileBegin \/ CancelBegin
             \/ \E s \in Symbols : CycleBegin(s)
    BY <1>1 DEF StartFirst, StartAgain, ReconcileBegin, CancelBegin, CycleBegin, Begin
  <1>2. CASE OperationEnds /\ pc \notin Sending
    BY <1>2 DEF OperationEnds
  <1>3. CASE StartAccount \/ StartBaseline \/ StartSnapshot \/ StartReady
    BY <1>3 DEF StartAccount, StartBaseline, StartSnapshot, StartReady
  <1>4. CASE ReconcileMark \/ ReconcileOpen \/ ReconcileCash \/ ReconcileAccount
    BY <1>4 DEF ReconcileMark, ReconcileOpen, ReconcileCash, ReconcileAccount
  <1>5. CASE ReconcileReady
    BY <1>5 DEF ReconcileReady
  <1>6. CASE CycleDecide
    BY <1>6 DEF CycleDecide, Decide
  <1>7. CASE CycleLimits \/ CycleMark \/ CycleCheck
    BY <1>7 DEF CycleLimits, CycleMark, CycleCheck
  <1>8. CASE CancelDone \/ \E k \in Keys : CancelOrder(k)
    BY <1>8 DEF CancelDone, CancelOrder
  <1>9. CASE Outside \/ Tick \/ UNCHANGED vars
    BY <1>9 DEF Outside, Tick, vars
  <1> QED
    BY <1>1, <1>2, <1>3, <1>4, <1>5, <1>6, <1>7, <1>8, <1>9

-----------------------------------------------------------------------------
(* The contract: steps of one order.                                       *)

\* A step that moves one order from phase to phase.
LEMMA MovesOne ==
  ASSUME NEW k \in Keys, NEW from, NEW to, Phase(k) \in from, Phase(k)' \in to,
         \A l \in Keys : l # k => Phase(l)' = Phase(l),
         UNCHANGED <<intent, order, stopped>>,
         \A l \in Keys : Units(book, l)' = Units(book, l)
  PROVE  Dispatch!Moves(k, from, to)
  <1>1. \A l \in Keys : Size(l)' = Size(l) /\ Knowledge(l)' = Knowledge(l)
                        /\ Units(order, l)' = Units(order, l)
    BY DEF Size, Knowledge, Units
  <1>2. UNCHANGED <<[l \in Keys |-> Size(l)], [l \in Keys |-> Units(book, l)],
                    [l \in Keys |-> Knowledge(l)], [l \in Keys |-> Units(order, l)], stopped>>
    BY <1>1
  <1>3. [l \in Keys |-> Phase(l)]' = [[l \in Keys |-> Phase(l)] EXCEPT ![k] = Phase(k)']
    OBVIOUS
  <1>4. [l \in Keys |-> Phase(l)][k] \in from
    OBVIOUS
  <1> QED
    BY <1>2, <1>3, <1>4 DEF Dispatch!Moves

\* A step in which the journal hears of one order.
LEMMA LearnsOne ==
  ASSUME NEW k \in Keys, Phase(k) \in {"working", "done"}, Knowledge(k) # "final",
         UNCHANGED <<intent, book, stopped>>, \A l \in Keys : Phase(l)' = Phase(l),
         NEW rec, order' = [order EXCEPT ![k] = rec],
         order \in [Keys -> Orders \cup {None}], rec \in Orders,
         \/ Knowledge(k) = "nothing" /\ rec = [open |-> TRUE, filled |-> 0]
         \/ rec = book[k] /\ (Phase(k) = "working" <=> rec.open)
  PROVE  Dispatch!Learn(k)
  <1> DEFINE K == [l \in Keys |-> Knowledge(l)]
  <1> DEFINE T == [l \in Keys |-> Units(order, l)]
  <1>1. rec # None /\ order'[k] = rec /\ \A l \in Keys : l # k => order'[l] = order[l]
    BY OrderFacts
  <1>2. K' = [K EXCEPT ![k] = IF rec.open THEN "open" ELSE "final"]
    <2>1. Knowledge(k)' = IF rec.open THEN "open" ELSE "final"
      BY <1>1 DEF Knowledge
    <2>2. \A l \in Keys : l # k => Knowledge(l)' = Knowledge(l)
      BY <1>1 DEF Knowledge
    <2> QED
      BY <2>1, <2>2
  <1>3. T' = [T EXCEPT ![k] = rec.filled]
    <2>1. Units(order, k)' = rec.filled
      BY <1>1 DEF Units
    <2>2. \A l \in Keys : l # k => Units(order, l)' = Units(order, l)
      BY <1>1 DEF Units
    <2> QED
      BY <2>1, <2>2
  <1>4. UNCHANGED <<[l \in Keys |-> Phase(l)], [l \in Keys |-> Size(l)],
                    [l \in Keys |-> Units(book, l)], stopped>>
    BY DEF Size, Units
  <1>5. K[k] = Knowledge(k) /\ [l \in Keys |-> Phase(l)][k] = Phase(k)
        /\ [l \in Keys |-> Units(book, l)][k] = Units(book, k)
    OBVIOUS
  <1>6. CASE Knowledge(k) = "nothing" /\ rec = [open |-> TRUE, filled |-> 0]
    <2>1. Units(order, k) = 0
      BY <1>6 DEF Knowledge, Units
    <2>2. T' = T
      BY <1>3, <1>6, <2>1
    <2>3. K' = [K EXCEPT ![k] = "open"]
      BY <1>2, <1>6
    <2> QED
      BY <1>4, <1>5, <1>6, <2>2, <2>3 DEF Dispatch!Learn
  <1>7. CASE rec = book[k] /\ (Phase(k) = "working" <=> rec.open)
    <2>1. Units(book, k) = rec.filled
      BY <1>1, <1>7 DEF Units
    <2>2. (IF rec.open THEN "open" ELSE "final") = (IF Phase(k) = "done" THEN "final" ELSE "open")
      BY <1>7
    <2>3. K' = [K EXCEPT ![k] = IF Phase(k) = "done" THEN "final" ELSE "open"]
      BY <1>2, <2>2
    <2>4. T' = [T EXCEPT ![k] = Units(book, k)]
      BY <1>3, <2>1
    <2> QED
      BY <1>4, <1>5, <2>3, <2>4 DEF Dispatch!Learn
  <1> QED
    BY <1>6, <1>7

-----------------------------------------------------------------------------
(* The contract: the steps of a cycle and of a reconciliation.             *)

\* A step keeps the phase of an order when it leaves what the phase is told from.
LEMMA PhaseSame ==
  ASSUME NEW l \in Keys, intent'[l] = intent[l], posted'[l] = posted[l],
         book'[l] = book[l], l \in wire' <=> l \in wire, Unposted(l)' = Unposted(l)
  PROVE  Phase(l)' = Phase(l)
  BY DEF Phase, Posted

\* From the intent on the operation knows which order it is about.
LEMMA KeyIsKey ==
  ASSUME DispatchInv, pc \in Deciding \ {"c_decide"}
  PROVE  Key \in Keys
  BY DEF DispatchInv, Shapes, Key, Keys, Deciding

\* Committing an intent adds an order to the contract.
LEMMA IntentIntends ==
  ASSUME DispatchInv, FillsFit, CycleIntent
  PROVE  Dispatch!Intend(Key)
  <1>1. /\ pc = "c_intent" /\ pc' = "c_mark" /\ Key' = Key
        /\ intent' = [intent EXCEPT ![Key] = delta]
        /\ UNCHANGED <<posted, wire, book, order, stopped>>
    BY DEF CycleIntent, Goto, Key, market
  <1>2. Key \in Keys
    BY <1>1, KeyIsKey DEF Deciding
  <1>3. /\ intent \in [Keys -> Int] /\ intent[Key] = 0 /\ posted[Key] = 0
        /\ delta \in Int /\ delta # 0 /\ Unsettled = {}
    BY <1>1, <1>2 DEF DispatchInv, OnceInv, Shapes, SettledInv, FillsFit, Deciding
  <1>4. intent'[Key] = delta /\ \A l \in Keys : l # Key => intent'[l] = intent[l]
    BY <1>1, <1>2, <1>3
  <1>5. Phase(Key) = "none" /\ Phase(Key)' = "intended"
    <2>1. Unposted(Key)' = "intended"
      BY <1>1 DEF Unposted, Sending
    <2>2. Phase(Key) = "none"
      BY <1>3 DEF Phase
    <2>3. intent'[Key] # 0 /\ posted'[Key] = 0
      BY <1>1, <1>3, <1>4
    <2> QED
      BY <1>1, <2>1, <2>2, <2>3 DEF Phase
  <1>6. \A l \in Keys : l # Key => Phase(l)' = Phase(l)
    <2>1. ASSUME NEW l \in Keys, l # Key PROVE Unposted(l)' = Unposted(l)
      BY <1>1, <2>1 DEF Unposted, Sending
    <2> QED
      BY <1>1, <1>4, <2>1, PhaseSame
  <1>7. Size(Key)' \in Int /\ Size(Key)' > 0
    BY <1>1, <1>3, <1>4 DEF Size
  <1>8. \A l \in Keys : l # Key => Size(l)' = Size(l)
    BY <1>4 DEF Size
  <1>9. \A l \in Keys : Units(book, l)' = Units(book, l) /\ Units(order, l)' = Units(order, l)
                        /\ Knowledge(l)' = Knowledge(l)
    BY <1>1 DEF Units, Knowledge
  <1>10. \A l \in Keys : Phase(l) = "none" \/ Knowledge(l) = "final"
    BY <1>3 DEF Unsettled, Rows, Settled, Phase, Knowledge
  <1>11. Dispatch!AllSettled
    BY <1>10 DEF Dispatch!AllSettled
  <1> DEFINE P == [l \in Keys |-> Phase(l)]
  <1> DEFINE S == [l \in Keys |-> Size(l)]
  <1>12. P[Key] = "none" /\ P' = [P EXCEPT ![Key] = "intended"]
    <2>1. PICK k \in Keys : k = Key
      BY <1>2
    <2>2. Phase(k) = "none" /\ Phase(k)' = "intended"
      BY <1>1, <1>5, <2>1
    <2>3. \A l \in Keys : l # k => Phase(l)' = Phase(l)
      BY <1>6, <2>1
    <2>4. P[k] = "none" /\ P' = [P EXCEPT ![k] = "intended"]
      BY <2>2, <2>3
    <2> QED
      BY <2>1, <2>4
  <1>13. S'[Key] > 0 /\ S' = [S EXCEPT ![Key] = S'[Key]]
    <2>1. S'[Key] = Size(Key)'
      BY <1>1, <1>2
    <2> QED
      BY <1>2, <1>7, <1>8, <2>1
  <1>14. UNCHANGED <<[l \in Keys |-> Units(book, l)], [l \in Keys |-> Knowledge(l)],
                     [l \in Keys |-> Units(order, l)], stopped>>
    BY <1>1, <1>9
  <1> QED
    BY <1>11, <1>12, <1>13, <1>14 DEF Dispatch!Intend

\* The transport's look at the stop clears the order.
LEMMA TransportClears ==
  ASSUME DispatchInv, CycleTransport
  PROVE  Dispatch!Clear(Key)
  <1>1. /\ pc = "c_transport" /\ pc' = "c_send" /\ Key' = Key /\ ~stopped
        /\ UNCHANGED <<intent, posted, wire, book, order, stopped>>
    BY DEF CycleTransport, Goto, Key, market, journal
  <1>2. Key \in Keys /\ intent[Key] # 0 /\ posted[Key] = 0
    BY <1>1, KeyIsKey DEF Deciding, DispatchInv, OnceInv, Sending
  <1>3. Phase(Key) = "intended" /\ Phase(Key)' = "cleared"
    BY <1>1, <1>2 DEF Phase, Unposted, Sending
  <1>4. \A l \in Keys : l # Key => Phase(l)' = Phase(l)
    BY <1>1, PhaseSame DEF Unposted
  <1>5. \A l \in Keys : Units(book, l)' = Units(book, l)
    BY <1>1 DEF Units
  <1>6. Dispatch!Moves(Key, {"intended"}, {"cleared"})
    BY <1>1, <1>2, <1>3, <1>4, <1>5, MovesOne
  <1> QED
    BY <1>1, <1>6 DEF Dispatch!Clear

\* A cleared order is sent, once.
LEMMA SendSends ==
  ASSUME DispatchInv, CycleSend
  PROVE  Dispatch!Send(Key)
  <1>1. /\ pc = "c_send" /\ pc' = "c_reply" /\ Key' = Key
        /\ posted' = [posted EXCEPT ![Key] = @ + 1] /\ wire' = wire \cup {Key}
        /\ UNCHANGED <<intent, book, order, stopped>>
    BY DEF CycleSend, Goto, Key, journal
  <1>2. Key \in Keys /\ intent[Key] # 0 /\ posted[Key] = 0 /\ posted \in [Keys -> Nat]
    BY <1>1, KeyIsKey DEF Deciding, DispatchInv, OnceInv, Shapes, Sending
  <1>3. posted'[Key] = 1 /\ Key \in wire'
        /\ \A l \in Keys : l # Key => posted'[l] = posted[l] /\ (l \in wire' <=> l \in wire)
    BY <1>1, <1>2
  <1>4. Phase(Key) = "cleared"
    BY <1>1, <1>2 DEF Phase, Unposted, Sending
  <1>5. Phase(Key)' = "sent"
    BY <1>1, <1>2, <1>3 DEF Phase, Posted
  <1>6. \A l \in Keys : l # Key => Phase(l)' = Phase(l)
    <2>1. ASSUME NEW l \in Keys, l # Key PROVE Unposted(l)' = Unposted(l)
      BY <1>1, <2>1 DEF Unposted, Sending
    <2> QED
      BY <1>1, <1>3, <2>1, PhaseSame
  <1>7. \A l \in Keys : Units(book, l)' = Units(book, l)
    BY <1>1 DEF Units
  <1>8. Dispatch!Moves(Key, {"cleared"}, {"sent"})
    BY <1>1, <1>2, <1>4, <1>5, <1>6, <1>7, MovesOne
  <1> QED
    BY <1>8 DEF Dispatch!Send

\* An operation that ends with its order unsent drops it.
LEMMA EndDrops ==
  ASSUME DispatchInv, OperationEnds, pc \in Sending
  PROVE  Dispatch!Drop(Key)
  <1>1. pc' = "idle" /\ UNCHANGED <<intent, posted, wire, book, order, stopped>>
    BY DEF OperationEnds, Forget, journal, market
  <1>2. Key \in Keys /\ intent[Key] # 0 /\ posted[Key] = 0
    BY KeyIsKey DEF Deciding, DispatchInv, OnceInv, Sending
  <1>3. \A l \in Keys : Unposted(l)' = "dropped"
    BY <1>1 DEF Unposted, Sending
  <1>4. Phase(Key) \in {"intended", "cleared"}
    BY <1>2 DEF Phase, Unposted
  <1>5. \A l \in Keys : l # Key => Phase(l)' = Phase(l)
    <2>1. ASSUME NEW l \in Keys, l # Key PROVE Unposted(l) = "dropped"
      BY <2>1 DEF Unposted
    <2> QED
      BY <1>1, <1>3, <2>1, PhaseSame
  <1>6. PICK k \in Keys : k = Key
    BY <1>2
  <1>7. Phase(k)' = "dropped"
    BY <1>1, <1>2, <1>3, <1>6 DEF Phase
  <1>8. \A l \in Keys : Units(book, l)' = Units(book, l)
    BY <1>1 DEF Units
  <1>9. Dispatch!Moves(k, {"intended", "cleared"}, {"dropped"})
    BY <1>1, <1>4, <1>5, <1>6, <1>7, <1>8, MovesOne
  <1> QED
    BY <1>6, <1>9 DEF Dispatch!Drop

\* The answer of the broker tells the journal of the order for the first time.
LEMMA ReplyLearns ==
  ASSUME DispatchInv, CycleReply
  PROVE  Dispatch!Learn(Key)
  <1>1. /\ pc = "c_reply" /\ pc' = "r_mark" /\ Key' = Key /\ book[Key] # None
        /\ UNCHANGED <<intent, posted, wire, book, stopped>>
    BY DEF CycleReply, Reply, Key, market
  <1>2. PICK rec \in {book[Key], [open |-> TRUE, filled |-> 0]} :
           order' = [order EXCEPT ![Key] = rec]
    BY DEF CycleReply, Reply
  <1>3. Key \in Keys /\ order[Key] = None
    BY <1>1, KeyIsKey DEF Deciding, DispatchInv, SettledInv
  <1>4. /\ order \in [Keys -> Orders \cup {None}]
        /\ book[Key] \in Orders /\ book[Key].open \in BOOLEAN
    BY <1>1, <1>3 DEF DispatchInv, Shapes, Orders
  <1>5. rec \in Orders
    BY <1>2, <1>4, OrderFacts
  <1>6. \A l \in Keys : Phase(l)' = Phase(l)
    BY <1>1, PhaseSame DEF Unposted, Sending
  <1>7. /\ Phase(Key) \in {"working", "done"}
        /\ Phase(Key) = "working" <=> book[Key].open
    BY <1>1, <1>3, <1>4 DEF DispatchInv, OnceInv, Phase, Posted
  <1>8. Knowledge(Key) = "nothing"
    BY <1>3 DEF Knowledge
  <1>9. \/ Knowledge(Key) = "nothing" /\ rec = [open |-> TRUE, filled |-> 0]
        \/ rec = book[Key] /\ (Phase(Key) = "working" <=> rec.open)
    BY <1>2, <1>7, <1>8
  <1> QED
    BY <1>1, <1>2, <1>3, <1>4, <1>5, <1>6, <1>7, <1>8, <1>9, LearnsOne

\* Reconciliation tells the journal of an order it did not know the end of.
LEMMA LookupLearns ==
  ASSUME DispatchInv, NEW k \in Keys, ReconcileOrder(k), ~Settled(k)
  PROVE  Dispatch!Learn(k)
  <1>1. /\ book[k] # None /\ order' = [order EXCEPT ![k] = book[k]]
        /\ UNCHANGED <<intent, posted, wire, book, pc, sym, at, stopped>>
    BY DEF ReconcileOrder, market
  <1>2. /\ order \in [Keys -> Orders \cup {None}]
        /\ book[k] \in Orders /\ book[k].open \in BOOLEAN
    BY <1>1 DEF DispatchInv, Shapes, Orders
  <1>3. \A l \in Keys : Phase(l)' = Phase(l)
    BY <1>1, PhaseSame DEF Unposted, Key
  <1>4. /\ Phase(k) \in {"working", "done"}
        /\ Phase(k) = "working" <=> book[k].open
    BY <1>1, <1>2 DEF DispatchInv, OnceInv, Phase, Posted
  <1>5. Knowledge(k) # "final"
    BY DEF Knowledge, Settled
  <1> QED
    BY <1>1, <1>2, <1>3, <1>4, <1>5, LearnsOne

-----------------------------------------------------------------------------
(* The contract: the stop and the broker.                                  *)

\* The stop, by whichever process.
LEMMA StopStops ==
  ASSUME Stop \/ CancelStop \/ ReconcileLoss
  PROVE  Dispatch!Stop
  <1>1. Quiet /\ stopped' = TRUE
    BY DEF Stop, CancelStop, ReconcileLoss, Quiet, Sending, Forget, journal, worker, market
  <1>2. \A k \in Keys : SeenSame(k)
    BY <1>1, QuietSame
  <1> QED
    BY <1>1, <1>2 DEF SeenSame, Dispatch!Stop

\* Nothing that the worker holds is touched by the network or the broker.
LEMMA BrokerLeaves ==
  ASSUME NEW k \in Keys, Accept(k) \/ Lose(k) \/ Trade(k) \/ Close(k)
  PROVE  /\ UNCHANGED <<intent, posted, order, stopped, pc, sym, at>>
         /\ \A l \in Keys : Unposted(l)' = Unposted(l)
  <1>1. UNCHANGED <<intent, posted, order, stopped, pc, sym, at>>
    BY DEF Accept, Lose, Trade, Close, journal, worker
  <1> QED
    BY <1>1 DEF Unposted, Key

\* A request arrives: the order is working or rejected.
LEMMA AcceptArrives ==
  ASSUME DispatchInv, NEW k \in Keys, Accept(k)
  PROVE  Dispatch!Arrive(k)
  <1>1. k \in wire /\ wire' = wire \ {k} /\ UNCHANGED <<intent, posted, order, stopped>>
    BY BrokerLeaves DEF Accept
  <1>2. PICK open \in BOOLEAN : book' = [book EXCEPT ![k] = [open |-> open, filled |-> 0]]
    BY DEF Accept
  <1>3. /\ intent[k] # 0 /\ posted[k] # 0 /\ book[k] = None
        /\ book \in [Keys -> Orders \cup {None}]
    BY <1>1 DEF DispatchInv, OnceInv, Shapes
  <1>4. /\ book'[k] = [open |-> open, filled |-> 0] /\ book'[k] # None
        /\ \A l \in Keys : l # k => book'[l] = book[l] /\ (l \in wire' <=> l \in wire)
    BY <1>1, <1>2, <1>3, OrderFacts
  <1>5. Phase(k) = "sent" /\ Phase(k)' \in {"working", "done"}
    BY <1>1, <1>3, <1>4 DEF Phase, Posted
  <1>6. \A l \in Keys : l # k => Phase(l)' = Phase(l)
    BY <1>1, <1>4, BrokerLeaves, PhaseSame
  <1>7. \A l \in Keys : Units(book, l)' = Units(book, l)
    BY <1>3, <1>4 DEF Units
  <1> QED
    BY <1>1, <1>5, <1>6, <1>7, MovesOne DEF Dispatch!Arrive

\* A request is lost: its order never exists.
LEMMA LoseLoses ==
  ASSUME DispatchInv, NEW k \in Keys, Lose(k)
  PROVE  Dispatch!Lose(k)
  <1>1. k \in wire /\ wire' = wire \ {k} /\ UNCHANGED <<intent, posted, order, stopped, book>>
    BY BrokerLeaves DEF Lose
  <1>2. intent[k] # 0 /\ posted[k] # 0 /\ book[k] = None
    BY <1>1 DEF DispatchInv, OnceInv
  <1>3. Phase(k) = "sent" /\ Phase(k)' = "lost"
    BY <1>1, <1>2 DEF Phase, Posted
  <1>4. \A l \in Keys : l # k => Phase(l)' = Phase(l)
    BY <1>1, BrokerLeaves, PhaseSame
  <1>5. \A l \in Keys : Units(book, l)' = Units(book, l)
    BY <1>1 DEF Units
  <1> QED
    BY <1>1, <1>3, <1>4, <1>5, MovesOne DEF Dispatch!Lose

\* An open order is closed with what it has filled.
LEMMA CloseCloses ==
  ASSUME DispatchInv, NEW k \in Keys, Close(k)
  PROVE  Dispatch!Close(k)
  <1>1. /\ book[k] # None /\ book[k].open
        /\ book' = [book EXCEPT ![k] = [open |-> FALSE, filled |-> book[k].filled]]
        /\ UNCHANGED <<intent, posted, order, stopped, wire>>
    BY BrokerLeaves DEF Close
  <1>2. /\ book \in [Keys -> Orders \cup {None}] /\ book[k].filled \in Nat
        /\ intent[k] # 0 /\ posted[k] # 0 /\ k \notin wire
    BY <1>1 DEF DispatchInv, OnceInv, Shapes, Orders
  <1>3. /\ book'[k] = [open |-> FALSE, filled |-> book[k].filled] /\ book'[k] # None
        /\ \A l \in Keys : l # k => book'[l] = book[l]
    BY <1>1, <1>2, OrderFacts
  <1>4. Phase(k) = "working" /\ Phase(k)' = "done"
    BY <1>1, <1>2, <1>3 DEF Phase, Posted
  <1>5. \A l \in Keys : l # k => Phase(l)' = Phase(l)
    BY <1>1, <1>3, BrokerLeaves, PhaseSame
  <1>6. \A l \in Keys : Units(book, l)' = Units(book, l)
    <2>1. Units(book, k)' = Units(book, k)
      BY <1>1, <1>3 DEF Units
    <2> QED
      BY <1>3, <2>1 DEF Units
  <1> QED
    <2>1. UNCHANGED <<intent, order, stopped>>
      BY <1>1
    <2>2. Dispatch!Moves(k, {"working"}, {"done"})
      BY <1>4, <1>5, <1>6, <2>1, MovesOne
    <2> QED
      BY <2>2 DEF Dispatch!Close

\* One more unit of a working order is filled.
LEMMA TradeTrades ==
  ASSUME DispatchInv, FillsFit, NEW k \in Keys, Trade(k)
  PROVE  Dispatch!Trade(k)
  <1>1. /\ book[k] # None /\ book[k].open
        /\ book' = [book EXCEPT ![k] = [open |-> book[k].filled + 1 < Size(k),
                                        filled |-> book[k].filled + 1]]
        /\ UNCHANGED <<intent, posted, order, stopped, wire>>
    BY BrokerLeaves DEF Trade
  <1>2. /\ book \in [Keys -> Orders \cup {None}] /\ book[k].filled \in Nat
        /\ intent[k] # 0 /\ posted[k] # 0 /\ k \notin wire
    BY <1>1 DEF DispatchInv, OnceInv, Shapes, Orders
  <1>3. /\ book'[k] = [open |-> book[k].filled + 1 < Size(k), filled |-> book[k].filled + 1]
        /\ \A l \in Keys : l # k => book'[l] = book[l]
    BY <1>1, <1>2
  <1>4. book'[k] # None
    <2>1. book'[k] \in Orders
      BY <1>2, <1>3 DEF Orders
    <2> QED
      BY <2>1, OrderFacts
  <1>5. Units(book, k) = book[k].filled /\ Units(book, k)' = book[k].filled + 1
    BY <1>1, <1>3, <1>4 DEF Units
  <1>6. Phase(k) = "working" /\ Units(book, k) < Size(k)
    BY <1>1, <1>2, <1>5 DEF Phase, Posted, FillsFit
  <1>7. Phase(k)' = IF Units(book, k) + 1 < Size(k) THEN "working" ELSE "done"
    BY <1>1, <1>2, <1>3, <1>4, <1>5 DEF Phase, Posted
  <1>8. \A l \in Keys : l # k => Phase(l)' = Phase(l) /\ Units(book, l)' = Units(book, l)
    BY <1>1, <1>3, BrokerLeaves, PhaseSame DEF Units
  <1> DEFINE P == [l \in Keys |-> Phase(l)]
  <1> DEFINE F == [l \in Keys |-> Units(book, l)]
  <1> DEFINE S == [l \in Keys |-> Size(l)]
  <1>9. P[k] = "working" /\ F[k] < S[k]
    BY <1>6
  <1>10. F' = [F EXCEPT ![k] = @ + 1]
    BY <1>5, <1>8
  <1>11. P' = [P EXCEPT ![k] = IF F[k] + 1 < S[k] THEN @ ELSE "done"]
    BY <1>6, <1>7, <1>8
  <1>12. UNCHANGED <<[l \in Keys |-> Size(l)], [l \in Keys |-> Knowledge(l)],
                     [l \in Keys |-> Units(order, l)], stopped>>
    BY <1>1 DEF Size, Knowledge, Units
  <1> QED
    BY <1>9, <1>10, <1>11, <1>12 DEF Dispatch!Trade

-----------------------------------------------------------------------------
(* The contract: the refinement.                                           *)

\* Before anything is ordered the contract is where it begins.
LEMMA DispatchBegins == Init => Dispatch!Init
  <1> SUFFICES ASSUME Init PROVE Dispatch!Init
    OBVIOUS
  <1>1. \A k \in Keys : /\ Phase(k) = "none" /\ Size(k) = 0 /\ Knowledge(k) = "nothing"
                        /\ Units(book, k) = 0 /\ Units(order, k) = 0
    BY DEF Init, Phase, Size, Knowledge, Units
  <1>2. stopped = FALSE
    BY DEF Init
  <1> QED
    BY <1>1, <1>2 DEF Dispatch!Init

\* A step of the contract for one order is a step of the contract.
LEMMA OneOrderSteps ==
  ASSUME NEW k \in Keys,
         \/ Dispatch!Intend(k) \/ Dispatch!Clear(k) \/ Dispatch!Send(k) \/ Dispatch!Drop(k)
         \/ Dispatch!Learn(k) \/ Dispatch!Arrive(k) \/ Dispatch!Lose(k) \/ Dispatch!Trade(k)
         \/ Dispatch!Close(k)
  PROVE  Dispatch!Next
  BY DEF Dispatch!Next

\* Every step is a step of the contract or none.
LEMMA DispatchSteps ==
  ASSUME DispatchInv, FillsFit, [Next]_vars
  PROVE  [Dispatch!Next]_(Dispatch!vars)
  <1>1. ASSUME Quiet /\ stopped' = stopped PROVE UNCHANGED Dispatch!vars
    BY <1>1, QuietSame, Unseen
  <1>2. ASSUME pc \in Deciding \ {"c_decide"},
               \/ Dispatch!Intend(Key) \/ Dispatch!Clear(Key) \/ Dispatch!Send(Key)
               \/ Dispatch!Drop(Key) \/ Dispatch!Learn(Key)
        PROVE  Dispatch!Next
    BY <1>2, KeyIsKey, OneOrderSteps
  <1>3. CASE Stop \/ CancelStop \/ ReconcileLoss
    <2>1. Dispatch!Stop
      BY <1>3, StopStops
    <2> QED
      BY <2>1 DEF Dispatch!Next
  <1>4. CASE OperationEnds
    <2>1. CASE pc \in Sending
      BY <1>2, <1>4, <2>1, EndDrops DEF Sending, Deciding
    <2>2. CASE pc \notin Sending
      BY <1>1, <1>4, <2>2, QuietSteps
    <2> QED
      BY <2>1, <2>2
  <1>5. CASE CycleIntent
    <2>1. pc \in Deciding \ {"c_decide"}
      BY <1>5 DEF CycleIntent, Deciding
    <2> QED
      BY <1>2, <1>5, <2>1, IntentIntends
  <1>6. CASE CycleTransport
    <2>1. pc \in Deciding \ {"c_decide"}
      BY <1>6 DEF CycleTransport, Deciding
    <2> QED
      BY <1>2, <1>6, <2>1, TransportClears
  <1>7. CASE CycleSend
    <2>1. pc \in Deciding \ {"c_decide"}
      BY <1>7 DEF CycleSend, Deciding
    <2> QED
      BY <1>2, <1>7, <2>1, SendSends
  <1>8. CASE CycleReply
    <2>1. pc \in Deciding \ {"c_decide"}
      BY <1>8 DEF CycleReply, Reply, Deciding
    <2> QED
      BY <1>2, <1>8, <2>1, ReplyLearns
  <1>9. ASSUME NEW k \in Keys, ReconcileOrder(k)
        PROVE  [Dispatch!Next]_(Dispatch!vars)
    <2>1. CASE Settled(k)
      <3>1. Quiet /\ stopped' = stopped
        BY <1>9, <2>1 DEF ReconcileOrder, Quiet, market
      <3> QED
        BY <1>1, <3>1
    <2>2. CASE ~Settled(k)
      BY <1>9, <2>2, LookupLearns, OneOrderSteps
    <2> QED
      BY <2>1, <2>2
  <1>10. ASSUME NEW k \in Keys, Accept(k) \/ Lose(k) \/ Trade(k) \/ Close(k)
         PROVE  Dispatch!Next
    BY <1>10, AcceptArrives, LoseLoses, TradeTrades, CloseCloses, OneOrderSteps
  <1>11. CASE \/ StartFirst \/ StartAgain \/ ReconcileBegin \/ CancelBegin
              \/ \E s \in Symbols : CycleBegin(s)
              \/ StartAccount \/ StartBaseline \/ StartSnapshot \/ StartReady
              \/ ReconcileMark \/ ReconcileOpen \/ ReconcileCash \/ ReconcileAccount
              \/ ReconcileReady \/ CycleDecide \/ CycleLimits \/ CycleMark \/ CycleCheck
              \/ CancelDone \/ (\E k \in Keys : CancelOrder(k))
              \/ Outside \/ Tick \/ UNCHANGED vars
    BY <1>1, <1>11, QuietSteps
  <1> QED
    BY <1>3, <1>4, <1>5, <1>6, <1>7, <1>8, <1>9, <1>10, <1>11
       DEF Next, OperatorNext, WorkerNext, BrokerNext

\* Paper trading implements the PaperDispatch contract: whatever is killed, lost,
\* stopped or traded outside, every step is one step of one order in the contract or
\* none (Engine.cycle, Engine.reconcile, the transport's submit).
THEOREM ImplementsDispatch == Spec => DispatchSpec
  <1>1. DispatchInv /\ ExposureInv /\ [Next]_vars => [Dispatch!Next]_(Dispatch!vars)
    BY DispatchSteps DEF ExposureInv
  <1> QED
    BY <1>1, DispatchBegins, DispatchCorrect, ExposureInvHolds, PTL
       DEF Spec, DispatchSpec, Dispatch!Spec
=============================================================================
