----------------------------- MODULE PaperEngine -----------------------------
(***************************************************************************)
(* Bounded paper trading: the operations of signal_foundry/trading         *)
(* /engine.py over its journal (trading/store.py) and the provider         *)
(* transport (trading/alpaca.py), against an external broker.              *)
(*                                                                         *)
(* One operation runs at a time: it holds the operator lock, and the       *)
(* kernel releases it when its worker process dies.  A stop is another     *)
(* process and does not take the lock.  Every journal transaction and      *)
(* every provider request is a step; between two steps the broker may      *)
(* trade, the request may be lost, a stop may commit and the worker may    *)
(* be killed (the service kills it after 30 s).                            *)
(*                                                                         *)
(* Prices are 1: a position's cost and its value are its quantity.         *)
(***************************************************************************)
EXTENDS Integers, FiniteSets, FiniteSetsExt, Functions

CONSTANTS Symbols,      \* the frozen universe
          Minutes,      \* bound: decision minutes
          None,
          Quantity,     \* config.quantity
          MaxPosition,  \* config.maximum_position_notional
          MaxOrders     \* config.max_orders

ASSUME MinutesAssumption == Minutes \subseteq Nat /\ IsFiniteSet(Minutes)
ASSUME SymbolsAssumption == IsFiniteSet(Symbols)
ASSUME LimitAssumption ==
    Quantity \in Nat \ {0} /\ MaxPosition \in Nat /\ MaxOrders \in Nat

\* An order as the broker reports it.
Orders == [open : BOOLEAN, filled : Nat]

ASSUME NoneAssumption == None \notin Symbols \cup Minutes \cup Orders

\* client_order_id is a hash of the configuration, the symbol and the minute.
Keys == Symbols \X Minutes

VARIABLES
    \* the journal
    state,      \* initialized, reconciliation_required or ready
    baseline,   \* a baseline account is recorded
    account,    \* position quantities of the last recorded account
    intent,     \* intent[k]: signed quantity of the recorded intent, 0 if none
    order,      \* order[k]: last recorded observation, or None
    decision,   \* decision[s]: minute of the last decision, or None
    stopped,    \* the persistent stop
    \* the worker that holds the operator lock
    op, pc, sym,
    at,         \* the minute being decided
    delta,      \* the quantity being ordered
    seen,       \* position quantities of the account just accepted
    todo,       \* order keys still to visit
    \* the network and the broker
    posted,     \* posted[k]: submissions of k handed to the network
    wire,       \* submissions that neither arrived nor got lost
    book,       \* book[k]: the broker's order, or None
    asked,      \* orders whose cancellation was requested
    foreign,    \* an order placed outside this program: none, open, or filled
    minute      \* the clock, as far as the broker clock agrees with it

journal == <<state, baseline, account, intent, order, decision>>
worker  == <<op, pc, sym, at, delta, seen, todo>>
market  == <<posted, wire, book, asked, foreign, minute>>
vars    == <<journal, stopped, worker, market>>

-----------------------------------------------------------------------------
Flat   == [s \in Symbols |-> 0]
Size(k) == IF intent[k] < 0 THEN -intent[k] ELSE intent[k]
Rows    == {k \in Keys : intent[k] # 0}

\* Signed quantity filled of key k according to a record of orders.
Fill(rec, k) ==
    IF rec[k] = None THEN 0
    ELSE IF intent[k] > 0 THEN rec[k].filled ELSE -rec[k].filled

Position(rec, s) == SumFunction([m \in Minutes |-> Fill(rec, <<s, m>>)])
Net(quantities)  == SumFunction(quantities)

\* What the journal's observations add up to, and what the broker holds.
Expected == [s \in Symbols |-> Position(order, s)]
Held     == [s \in Symbols |-> Position(book, s) + IF foreign = s THEN 1 ELSE 0]

Settled(k) == order[k] # None /\ ~order[k].open
Unsettled  == {k \in Rows : ~Settled(k)}

Key == <<sym, at>>

Init ==
    /\ state = "initialized"
    /\ baseline = FALSE
    /\ account = Flat
    /\ intent = [k \in Keys |-> 0]
    /\ order = [k \in Keys |-> None]
    /\ decision = [s \in Symbols |-> None]
    /\ stopped = FALSE
    /\ op = "none" /\ pc = "idle" /\ sym = None /\ at = None
    /\ delta = 0 /\ seen = Flat /\ todo = {}
    /\ posted = [k \in Keys |-> 0]
    /\ wire = {}
    /\ book = [k \in Keys |-> None]
    /\ asked = {}
    /\ foreign = "none"
    /\ minute \in {m \in Minutes : \A n \in Minutes : m <= n}

-----------------------------------------------------------------------------
(* Beginning and ending an operation *)

Begin(o, s, point) ==
    /\ pc = "idle"
    /\ op' = o /\ sym' = s /\ pc' = point
    /\ UNCHANGED <<journal, stopped, at, delta, seen, todo, market>>

\* admission_enabled: bound to its configuration, and not stopped.
StartFirst == ~stopped /\ ~baseline /\ Begin("start", None, "s_account")
StartAgain == ~stopped /\ baseline /\ Begin("start", None, "r_mark")
CycleBegin(s) == ~stopped /\ baseline /\ Begin("cycle", s, "r_mark")
ReconcileBegin == baseline /\ Begin("reconcile", None, "r_mark")
CancelBegin == Begin("cancel", None, "x_stop")

Forget ==
    /\ op' = "none" /\ pc' = "idle" /\ sym' = None /\ at' = None
    /\ delta' = 0 /\ seen' = Flat /\ todo' = {}

\* The operation raises where it stands (a provider error, a failed check, a
\* full journal), or its worker is killed: what it has committed stays.
OperationEnds ==
    /\ pc # "idle"
    /\ Forget
    /\ UNCHANGED <<journal, stopped, market>>

\* Go on to the next step of the operation.
Goto(point) == pc' = point /\ UNCHANGED <<op, sym, at, delta, seen, todo>>

-----------------------------------------------------------------------------
(* start, on a root without a baseline *)

\* Cash and positions of the account; it must be flat.
StartAccount ==
    /\ pc = "s_account"
    /\ Held = Flat
    /\ Goto("s_open")
    /\ UNCHANGED <<journal, stopped, market>>

\* No open order, then the baseline, the account and the state are recorded.
StartBaseline ==
    /\ pc = "s_open"
    /\ foreign # "open"
    /\ baseline' = TRUE
    /\ Goto("s_snapshot")
    /\ UNCHANGED <<state, account, intent, order, decision, stopped, market>>

StartSnapshot ==
    /\ pc = "s_snapshot"
    /\ account' = Flat
    /\ Goto("s_ready")
    /\ UNCHANGED <<state, baseline, intent, order, decision, stopped, market>>

StartReady ==
    /\ pc = "s_ready"
    /\ state' = "ready"
    /\ Forget
    /\ UNCHANGED <<baseline, account, intent, order, decision, stopped, market>>

-----------------------------------------------------------------------------
(* reconcile *)

\* The account identity is read, then the journal says it is being checked.
ReconcileMark ==
    /\ pc = "r_mark"
    /\ state' = "reconciliation_required"
    /\ pc' = "r_orders"
    /\ todo' = Rows
    /\ UNCHANGED <<baseline, account, intent, order, decision, stopped, op, sym,
                   at, delta, seen, market>>

\* Mutant: an order the broker does not know counts as rejected.
ReconcileOrder_AssumesRejected(k) ==
    /\ pc = "r_orders" /\ k \in todo
    /\ order' = [order EXCEPT ![k] =
                   IF Settled(k) THEN @
                   ELSE IF book[k] = None THEN [open |-> FALSE, filled |-> 0]
                   ELSE book[k]]
    /\ todo' = todo \ {k}
    /\ UNCHANGED <<state, baseline, account, intent, decision, stopped, op, pc,
                   sym, at, delta, seen, market>>

\* One order: a recorded terminal observation is kept, anything else is looked
\* up.  An order the broker does not know, or one with fewer fills than
\* recorded, ends the operation.
ReconcileOrder(k) ==
    /\ pc = "r_orders" /\ k \in todo
    /\ \/ Settled(k) /\ UNCHANGED order
       \/ /\ ~Settled(k)
          /\ book[k] # None
          /\ order[k] # None => book[k].filled >= order[k].filled
          /\ order' = [order EXCEPT ![k] = book[k]]
    /\ todo' = todo \ {k}
    /\ UNCHANGED <<state, baseline, account, intent, decision, stopped, op, pc,
                   sym, at, delta, seen, market>>

\* No open order but the recorded ones.
ReconcileOpen ==
    /\ pc = "r_orders" /\ todo = {}
    /\ foreign # "open"
    /\ Goto("r_cash")
    /\ UNCHANGED <<journal, stopped, market>>

\* The second account read, in its two requests: cash, then positions.
ReconcileCash ==
    /\ pc = "r_cash"
    /\ Net(Held) = Net(Expected)
    /\ Goto("r_positions")
    /\ UNCHANGED <<journal, stopped, market>>

\* Mutant: only the cash is compared.
ReconcileAccount_CashOnly ==
    /\ pc = "r_positions"
    /\ account' = Held
    /\ seen' = Held
    /\ pc' = "r_ready"
    /\ UNCHANGED <<state, baseline, intent, order, decision, stopped, op, sym,
                   at, delta, todo, market>>

ReconcileAccount ==
    /\ pc = "r_positions"
    /\ Held = Expected
    /\ account' = Held
    /\ seen' = Held
    /\ pc' = "r_ready"
    /\ UNCHANGED <<state, baseline, intent, order, decision, stopped, op, sym,
                   at, delta, todo, market>>

\* The loss ceiling is reached: the stop is engaged and the operation raises.
ReconcileLoss ==
    /\ pc = "r_positions"
    /\ Held = Expected
    /\ stopped' = TRUE
    /\ Forget
    /\ UNCHANGED <<journal, market>>

\* Only a cycle that has not ordered yet goes on from here.
ReconcileReady ==
    /\ pc = "r_ready"
    /\ state' = "ready"
    /\ IF op = "cycle" THEN Goto("c_decide") ELSE Forget
    /\ UNCHANGED <<baseline, account, intent, order, decision, stopped, market>>

-----------------------------------------------------------------------------
(* cycle, after its reconciliation *)

\* One decision per symbol and minute, and none while any order is unsettled;
\* the target is the configured quantity or nothing.  A decision that changes
\* nothing ends the operation.
Decide ==
    /\ pc = "c_decide"
    /\ decision[sym] # minute
    /\ \E target \in {0, Quantity} :
          LET change == target - seen[sym] IN
             /\ decision' = [decision EXCEPT ![sym] = minute]
             /\ IF change = 0
                THEN Forget
                ELSE /\ at' = minute
                     /\ delta' = change
                     /\ pc' = "c_limits"
                     /\ UNCHANGED <<op, sym, seen, todo>>
    /\ UNCHANGED <<state, baseline, account, intent, order, stopped, market>>

\* Mutant: working orders do not block a decision.
CycleDecide_WhileWorking == Decide

CycleDecide == Unsettled = {} /\ Decide

\* Mutant: the ceiling is compared with the order alone.
CycleLimits_OrderOnly ==
    /\ pc = "c_limits"
    /\ delta <= MaxPosition
    /\ delta < 0 => -delta <= seen[sym]
    /\ Cardinality(Rows) < MaxOrders
    /\ ~stopped
    /\ intent[Key] = 0
    /\ Goto("c_intent")
    /\ UNCHANGED <<journal, stopped, market>>

\* Exposure, order budget, a second look at the stop, no earlier intent.
CycleLimits ==
    /\ pc = "c_limits"
    /\ Net(seen) + (IF delta > 0 THEN delta ELSE 0) <= MaxPosition
    /\ delta < 0 => -delta <= seen[sym]
    /\ Cardinality(Rows) < MaxOrders
    /\ ~stopped
    /\ intent[Key] = 0
    /\ Goto("c_intent")
    /\ UNCHANGED <<journal, stopped, market>>

\* The intent is committed before anything crosses the network.
CycleIntent ==
    /\ pc = "c_intent"
    /\ intent' = [intent EXCEPT ![Key] = delta]
    /\ Goto("c_mark")
    /\ UNCHANGED <<state, baseline, account, order, decision, stopped, market>>

CycleMark ==
    /\ pc = "c_mark"
    /\ state' = "reconciliation_required"
    /\ Goto("c_check")
    /\ UNCHANGED <<baseline, account, intent, order, decision, stopped, market>>

CycleCheck ==
    /\ pc = "c_check"
    /\ ~stopped
    /\ Goto("c_transport")
    /\ UNCHANGED <<journal, stopped, market>>

\* Mutant: the transport relies on the engine's check.
CycleTransport_Unchecked ==
    /\ pc = "c_transport"
    /\ Goto("c_send")
    /\ UNCHANGED <<journal, stopped, market>>

\* The transport's own look at the stop, the last before the socket.
CycleTransport ==
    /\ pc = "c_transport"
    /\ ~stopped
    /\ Goto("c_send")
    /\ UNCHANGED <<journal, stopped, market>>

CycleSend ==
    /\ pc = "c_send"
    /\ posted' = [posted EXCEPT ![Key] = @ + 1]
    /\ wire' = wire \cup {Key}
    /\ Goto("c_reply")
    /\ UNCHANGED <<journal, stopped, book, asked, foreign, minute>>

\* The response: the order as it was accepted or as it is by now.  The cycle
\* ends with another reconciliation.
Reply ==
    /\ pc = "c_reply"
    /\ book[Key] # None
    /\ \E seenOrder \in {book[Key], [open |-> TRUE, filled |-> 0]} :
          order' = [order EXCEPT ![Key] = seenOrder]
    /\ op' = "settle" /\ pc' = "r_mark"
    /\ UNCHANGED <<state, baseline, account, intent, decision, stopped, sym, at,
                   delta, seen, todo, market>>

\* Mutant: a failed request is sent again.
CycleReply_Retries ==
    \/ Reply
    \/ /\ pc = "c_reply" /\ book[Key] = None
       /\ Goto("c_transport")
       /\ UNCHANGED <<journal, stopped, market>>

CycleReply == Reply

-----------------------------------------------------------------------------
(* cancel and stop *)

CancelStop ==
    /\ pc = "x_stop"
    /\ stopped' = TRUE
    /\ pc' = "x_orders"
    /\ todo' = Unsettled
    /\ UNCHANGED <<journal, op, sym, at, delta, seen, market>>

\* Mutant: an order the broker does not know is passed over.
CancelOrder_SkipsUnknown(k) ==
    /\ pc = "x_orders" /\ k \in todo
    /\ asked' = IF book[k] # None /\ book[k].open THEN asked \cup {k} ELSE asked
    /\ todo' = todo \ {k}
    /\ UNCHANGED <<journal, stopped, op, pc, sym, at, delta, seen, posted, wire,
                   book, foreign, minute>>

\* An order the broker does not know ends the operation here.
CancelOrder(k) ==
    /\ pc = "x_orders" /\ k \in todo
    /\ book[k] # None
    /\ asked' = IF book[k].open THEN asked \cup {k} ELSE asked
    /\ todo' = todo \ {k}
    /\ UNCHANGED <<journal, stopped, op, pc, sym, at, delta, seen, posted, wire,
                   book, foreign, minute>>

CancelDone ==
    /\ pc = "x_orders" /\ todo = {}
    /\ Forget
    /\ UNCHANGED <<journal, stopped, market>>

\* journal.stop by another process, at any moment.
Stop ==
    /\ ~stopped
    /\ stopped' = TRUE
    /\ UNCHANGED <<journal, worker, market>>

-----------------------------------------------------------------------------
(* The network and the broker *)

Accept(k) ==
    /\ k \in wire
    /\ wire' = wire \ {k}
    /\ \E open \in BOOLEAN :     \* working, or rejected at once
          book' = [book EXCEPT ![k] = [open |-> open, filled |-> 0]]
    /\ UNCHANGED <<journal, stopped, worker, posted, asked, foreign, minute>>

Lose(k) ==
    /\ k \in wire
    /\ wire' = wire \ {k}
    /\ UNCHANGED <<journal, stopped, worker, posted, book, asked, foreign,
                   minute>>

\* One more unit is filled; a complete order is closed.
Trade(k) ==
    /\ book[k] # None /\ book[k].open
    /\ LET filled == book[k].filled + 1 IN
          book' = [book EXCEPT ![k] = [open |-> filled < Size(k),
                                       filled |-> filled]]
    /\ UNCHANGED <<journal, stopped, worker, posted, wire, asked, foreign,
                   minute>>

\* Cancelled or expired.
Close(k) ==
    /\ book[k] # None /\ book[k].open
    /\ book' = [book EXCEPT ![k] = [open |-> FALSE, filled |-> @.filled]]
    /\ UNCHANGED <<journal, stopped, worker, posted, wire, asked, foreign,
                   minute>>

\* Somebody uses the account outside this program.
Outside ==
    /\ \/ foreign = "none" /\ foreign' = "open"
       \/ foreign = "open" /\ foreign' \in Symbols
    /\ UNCHANGED <<journal, stopped, worker, posted, wire, book, asked, minute>>

Tick ==
    /\ \E m \in Minutes : m = minute + 1 /\ minute' = m
    /\ UNCHANGED <<journal, stopped, worker, posted, wire, book, asked, foreign>>

-----------------------------------------------------------------------------
OperatorNext ==
    \/ StartFirst \/ StartAgain \/ ReconcileBegin \/ CancelBegin \/ Stop
    \/ \E s \in Symbols : CycleBegin(s)

WorkerNext ==
    \/ OperationEnds
    \/ StartAccount \/ StartBaseline \/ StartSnapshot \/ StartReady
    \/ ReconcileMark \/ ReconcileOpen \/ ReconcileCash \/ ReconcileAccount
    \/ ReconcileLoss \/ ReconcileReady
    \/ CycleDecide \/ CycleLimits \/ CycleIntent \/ CycleMark \/ CycleCheck
    \/ CycleTransport \/ CycleSend \/ CycleReply
    \/ CancelStop \/ CancelDone
    \/ \E k \in Keys : ReconcileOrder(k) \/ CancelOrder(k)

BrokerNext ==
    \/ \E k \in Keys : Accept(k) \/ Lose(k) \/ Trade(k) \/ Close(k)
    \/ Outside \/ Tick

Next == OperatorNext \/ WorkerNext \/ BrokerNext

Spec == Init /\ [][Next]_vars

-----------------------------------------------------------------------------
(* Properties *)

Deciding == {"c_decide", "c_limits", "c_intent", "c_mark", "c_check",
             "c_transport", "c_send", "c_reply"}

\* An order is handed to the network at most once, and never without a
\* committed intent: kills, lost requests, lost responses and repeated cycles
\* of one minute included (Engine.cycle).
SubmittedAtMostOnce ==
    \A k \in Keys : posted[k] <= 1 /\ (posted[k] = 1 => intent[k] # 0)

\* At most one recorded order is unsettled, and it is the only one that can
\* still trade: an order on the wire or open at the broker is never recorded
\* as settled, or not at all (Engine.cycle's working_order check, reconcile).
OneUnsettledOrder ==
    /\ \A k, l \in Unsettled : k = l
    /\ \A k \in Keys :
          k \in wire \/ (book[k] # None /\ book[k].open) => k \in Unsettled

\* The journal never runs ahead of the broker: a recorded fill happened, and a
\* settled record is the broker's last word.
RecordedFillsHappened ==
    \A k \in Keys : order[k] # None =>
        /\ book[k] # None
        /\ order[k].filled <= book[k].filled
        /\ ~order[k].open => book[k] = order[k]

\* What the broker holds of the orders placed here, and what may still fill of one.
Holdings == [s \in Symbols |-> Position(book, s)]

Outstanding(k) ==
    IF k \in wire THEN intent[k]
    ELSE IF book[k] # None /\ book[k].open THEN intent[k] - Fill(book, k) ELSE 0

Buying(k)  == Max({Outstanding(k), 0})
Selling(k) == Min({Outstanding(k), 0})
Bought     == SumFunction([k \in Keys |-> Buying(k)])
Sold(s)    == SumFunction([m \in Minutes |-> Selling(<<s, m>>)])

\* Exposure stays within the configured ceiling and no position goes short,
\* also counting every order that may still fill, whatever was lost or
\* repeated (Engine.cycle's notional_limit and short_sale checks are made on
\* a snapshot taken several requests before the order trades).
ExposureBounded ==
    /\ Net(Holdings) + Bought <= MaxPosition
    /\ \A s \in Symbols : Holdings[s] + Sold(s) >= 0

\* The journal calls itself ready only with an account that equals what its
\* own fills add up to, and never while the outcome of a submission is
\* unknown: a worker killed anywhere after the request went out leaves
\* reconciliation_required (Engine.cycle, reconcile, start).
ReadyIsReconciled ==
    state = "ready" =>
        /\ account = Expected
        /\ \A k \in Keys : posted[k] # 0 => order[k] # None

\* A completed cancel has asked for the cancellation of every order that can
\* still trade: none is skipped because another one was unknown, and none is
\* still on its way (Engine.cancel).
CancelReachesEveryOrder ==
    pc = "x_orders" /\ todo = {} =>
        \A k \in Keys :
            k \in wire \/ (book[k] # None /\ book[k].open) => k \in asked

\* Once the stop is committed no submission passes the transport's check: only
\* one that had already passed it can still go out (docs/paper-operations.md:
\* stop "cannot recall an in-flight request").
StopEndsDispatch ==
    [][stopped /\ pc # "c_send" => posted' = posted /\ pc' # "c_send"]_vars

\* Where an order that was not posted still can be, by the operation that holds it.
Sending == {"c_mark", "c_check", "c_transport", "c_send"}

\* The phases of the contract: of an intent that was not posted, and of one that was.
Unposted(k) ==
    IF k # Key \/ pc \notin Sending THEN "dropped"
    ELSE IF pc = "c_send" THEN "cleared" ELSE "intended"

Posted(k) ==
    IF k \in wire THEN "sent"
    ELSE IF book[k] = None THEN "lost"
    ELSE IF book[k].open THEN "working" ELSE "done"

Phase(k) ==
    IF intent[k] = 0 THEN "none"
    ELSE IF posted[k] = 0 THEN Unposted(k) ELSE Posted(k)

\* Units filled and what is known, according to a record of orders.
Units(rec, k) == IF rec[k] = None THEN 0 ELSE rec[k].filled
Knowledge(k)  == IF order[k] = None THEN "nothing" ELSE IF order[k].open THEN "open" ELSE "final"

\* Paper trading keeps the contract of PaperDispatch about every order, kills,
\* lost requests and responses, stops and external trades included
\* (Engine.cycle, reconcile, cancel over the transport).
Dispatch == INSTANCE PaperDispatch
    WITH phase  <- [k \in Keys |-> Phase(k)],
         size   <- [k \in Keys |-> Size(k)],
         filled <- [k \in Keys |-> Units(book, k)],
         known  <- [k \in Keys |-> Knowledge(k)],
         told   <- [k \in Keys |-> Units(order, k)]

DispatchSpec == Dispatch!Spec
=============================================================================
