---------------------------- MODULE EventEngine ----------------------------
(***************************************************************************)
(* Alphaforge's deterministic event engine (backtesting/event_engine.py):  *)
(* a reducer over the events of one run that writes each event to a        *)
(* durable journal (backtesting/journal.py) before it publishes its        *)
(* effect on the orders and on the ledger (backtesting/ledger.py).  A      *)
(* journal whose answer is an error may or may not hold the event: the     *)
(* engine is then poisoned, and only a replay of the journal goes on.      *)
(*                                                                         *)
(* An event's identity is the digest of its content, so an event is its    *)
(* content here; it is named by its coordinate (session, phase, ordinal),  *)
(* a single integer, which the backtest never gives to two events.  The    *)
(* run trades one symbol, and prices and quantities are integers, so that  *)
(* the code's tolerances for rounding are equalities.                      *)
(***************************************************************************)
EXTENDS Integers, FiniteSets, Sequences, SequencesExt

CONSTANTS Bars,          \* bound: sessions of the frozen calendar, 0..n
          OrderIds,      \* bound: order identities
          FillIds,       \* bound: fill identities
          Quantities,    \* bound: signed order quantities, + buys and - sells
          Quote,         \* bound: Quote[kind][bar], the prices of the marks
          Slippage,      \* bound: a fill's price above the open
          Charges,       \* bound: fees and carry charges
          InitialCash,
          MaxEvents,     \* max_events
          MaxOpen,       \* max_open_orders
          MaxPending,    \* max_pending_events
          MaxOrdinal,    \* bound: ordinals within one phase
          Queueable      \* bound: the events a producer may queue ahead

VARIABLES journal,    \* the durable sequence of events
          mode,       \* "live", "poisoned" or "refused" (a replay that raised)
          state,      \* the reducer's state
          pending     \* the queue of submit and drain: a set, its keys order it

vars == <<journal, mode, state, pending>>

ASSUME EngineAssumption ==
    /\ Bars \subseteq Nat /\ Quote \in [{"open", "close"} -> [Bars -> Nat \ {0}]]
    /\ {MaxEvents, MaxOpen, MaxPending, MaxOrdinal} \subseteq Nat
    /\ Slippage \cup Charges \subseteq Nat /\ MaxOrdinal < 10
    /\ OrderIds \cup FillIds \subseteq Nat
    /\ Quantities \subseteq Int \ {0} /\ InitialCash \in Nat \ {0}

-----------------------------------------------------------------------------
(* Events, their coordinates and their constructors.                       *)

PhaseOf == [open |-> 10, submit |-> 20, accept |-> 30, reject |-> 30,
            fill |-> 30, cancel |-> 40, charge |-> 50, close |-> 60,
            signal |-> 70, target |-> 80, halt |-> 90]

NoCause == 0
Control == 0       \* reasons of a halt
Bankruptcy == 1

At(kind, bar, ordinal) == 100 * bar + PhaseOf[kind] + ordinal

\* order: the order acted on; id: the fill, charge, mark, signal or target;
\* amount: a signed quantity, a charge, or the target's eligible session;
\* a mark declares cash (amount), holdings and charges (fee).
Event(kind, bar, ordinal, cause) ==
    [kind |-> kind, bar |-> bar, at |-> At(kind, bar, ordinal), cause |-> cause,
     order |-> 0, id |-> bar, amount |-> 0, holdings |-> 0, price |-> 0,
     ref |-> 0, fee |-> 0, reason |-> Control]

OfOrder == {"accept", "reject", "fill", "cancel"}

\* What the constructors of events and payloads let through.
Events ==
    {e \in [kind : DOMAIN PhaseOf, bar : Bars, at : Int, cause : Int, order : Int,
            id : Int, amount : Int, holdings : Int, price : Int, ref : Int, fee : Int,
            reason : {Control, Bankruptcy}] :
        /\ \E n \in 0..MaxOrdinal : e.at = At(e.kind, e.bar, n)
        /\ e.kind = "submit" => e.amount # 0
        /\ e.kind = "target" => e.amount > e.bar}

ASSUME QueueAssumption == Queueable \subseteq Events

\* _validate_causation: the kinds of cause a kind must have.
CauseOf(kind) ==
    CASE kind = "target" -> {"signal"}
      [] kind = "submit" -> {"target"}
      [] kind \in {"accept", "reject"} -> {"submit"}
      [] kind = "fill" -> {"accept", "fill"}
      [] kind = "cancel" -> {"submit", "accept", "fill"}
      [] OTHER -> DOMAIN PhaseOf

\* Mutant: a fill's identity is its event, so that a second report of it counts.
Identity_EventsOnly(e) ==
    IF e.kind \in {"charge", "open", "close", "signal", "target"}
      THEN {<<e.kind, e.id>>} ELSE {}

\* _identity_key: what must be new besides the event.
Identity(e) ==
    IF e.kind \in {"fill", "charge", "open", "close", "signal", "target"}
      THEN {<<e.kind, e.id>>} ELSE {}

-----------------------------------------------------------------------------
(* The reducer's state.                                                    *)

Fresh ==
    [seen |-> {}, cursor |-> -1, orders |-> <<>>, used |-> {},
     cash |-> InitialCash, position |-> 0, charges |-> 0, worth |-> InitialCash,
     openBar |-> -1, openPrice |-> 0, closeBar |-> -1, due |-> NoCause, halted |-> FALSE]

\* Mutant: a partly filled order no longer counts as open.
OpenOrders_NotPart(s) ==
    {o \in DOMAIN s.orders : s.orders[o].status \in {"submitted", "accepted"}}

\* _open_order_count
OpenOrders(s) ==
    {o \in DOMAIN s.orders : s.orders[o].status \in {"submitted", "accepted", "part"}}

Abs(n) == IF n < 0 THEN -n ELSE n

-----------------------------------------------------------------------------
(* _process: what it requires of an event.                                 *)

\* Mutant: any target explains an order, whatever session it is eligible for.
Caused_AnySession(s, e) ==
    IF e.cause = NoCause
      THEN e.kind \notin OfOrder \cup {"target", "submit"}
      ELSE \E c \in s.seen :
              /\ c.at = e.cause
              /\ c.kind \in CauseOf(e.kind)
              /\ e.kind \in OfOrder => c.bar = e.bar /\ c.order = e.order

Caused(s, e) ==
    IF e.cause = NoCause
      THEN e.kind \notin OfOrder \cup {"target", "submit"}
      ELSE \E c \in s.seen :
              /\ c.at = e.cause
              /\ c.kind \in CauseOf(e.kind)
              /\ e.kind = "submit" => c.amount = e.bar
              /\ e.kind \in OfOrder => c.bar = e.bar /\ c.order = e.order

\* _require_order, but for the cause's order, which Caused compares.
InStatus(s, e, statuses) ==
    /\ e.order \in DOMAIN s.orders
    /\ s.orders[e.order].bar = e.bar
    /\ s.orders[e.order].status \in statuses

Residual(order) == order.qty - order.filled

\* A fill is on the order's side and no larger than what is left of it.
WithinResidual(fill, left) == IF left > 0 THEN fill \in 1..left ELSE -fill \in 1..(-left)

\* The mark declares what the ledger holds.
Reconciles(s, e) ==
    /\ e.amount = s.cash
    /\ e.holdings = s.position * e.price
    /\ e.fee = s.charges

\* _plan_transition's refusals
Planned(s, e) ==
    CASE e.kind = "submit" ->
            /\ Cardinality(OpenOrders(s)) < MaxOpen
            /\ e.order \notin DOMAIN s.orders
            /\ s.openBar = e.bar
      [] e.kind = "accept" ->
            InStatus(s, e, {"submitted"}) /\ e.amount = s.orders[e.order].qty
      [] e.kind = "reject" -> InStatus(s, e, {"submitted"})
      [] e.kind = "fill" ->
            /\ InStatus(s, e, {"accepted", "part"})
            /\ e.ref = s.openPrice
            /\ WithinResidual(e.amount, Residual(s.orders[e.order]))
      [] e.kind = "cancel" ->
            /\ InStatus(s, e, {"submitted", "accepted", "part"})
            /\ e.amount = Residual(s.orders[e.order])
      [] e.kind = "charge" ->
            s.openBar = e.bar /\ s.closeBar # e.bar /\ OpenOrders(s) = {}
      [] e.kind = "open" ->
            OpenOrders(s) = {} /\ s.openBar # e.bar /\ Reconciles(s, e)
      [] e.kind = "close" ->
            /\ s.openBar = e.bar /\ s.closeBar # e.bar
            /\ OpenOrders(s) = {} /\ Reconciles(s, e)
      [] e.kind = "halt" ->
            (s.due = NoCause) = (e.reason # Bankruptcy)
      [] OTHER -> s.closeBar = e.bar

\* Mutant: any halt will do.
HaltRespected_AnyHalt(s, e) ==
    /\ ~s.halted
    /\ s.due # NoCause => e.kind = "halt"

\* A required halt admits nothing but itself, citing the event that bankrupted.
HaltRespected(s, e) ==
    /\ ~s.halted
    /\ s.due # NoCause => e.kind = "halt" /\ e.cause = s.due

Accepts(s, e) ==
    /\ Cardinality(s.seen) < MaxEvents
    /\ e.at > s.cursor
    /\ HaltRespected(s, e)
    /\ Caused(s, e)
    /\ Identity(e) \cap s.used = {}
    /\ Planned(s, e)

-----------------------------------------------------------------------------
(* _process: the effect it publishes.                                      *)

\* apply_fill and apply_charge
Cash(s, e) ==
    CASE e.kind = "fill" -> s.cash - e.amount * e.price - e.fee
      [] e.kind = "charge" -> s.cash - e.amount
      [] OTHER -> s.cash

Position(s, e) == IF e.kind = "fill" THEN s.position + e.amount ELSE s.position

\* The snapshot's equity, where the transition takes one.
Worth(s, e) ==
    CASE e.kind \in {"fill", "charge"} -> Cash(s, e) + Position(s, e) * s.openPrice
      [] e.kind \in {"open", "close"} -> s.cash + s.position * e.price
      [] OTHER -> s.worth

Bankrupt(worth) == worth <= 0

OrderAfter(s, e) ==
    IF e.kind = "submit"
      THEN [qty |-> e.amount, filled |-> 0, status |-> "submitted", bar |-> e.bar]
      ELSE LET old == s.orders[e.order]
               filled == old.filled + e.amount
           IN  CASE e.kind = "accept" -> [old EXCEPT !.status = "accepted"]
                 [] e.kind = "reject" -> [old EXCEPT !.status = "rejected"]
                 [] e.kind = "cancel" -> [old EXCEPT !.status = "cancelled"]
                 [] e.kind = "fill" ->
                       [old EXCEPT !.filled = filled,
                                   !.status = IF filled = old.qty THEN "filled" ELSE "part"]

Publish(s, e) ==
    [seen |-> s.seen \cup {e},
     cursor |-> e.at,
     orders |-> IF e.kind \in OfOrder \cup {"submit"}
                  THEN [o \in DOMAIN s.orders \cup {e.order} |->
                          IF o = e.order THEN OrderAfter(s, e) ELSE s.orders[o]]
                  ELSE s.orders,
     used |-> s.used \cup Identity(e),
     cash |-> Cash(s, e),
     position |-> Position(s, e),
     charges |-> CASE e.kind = "fill" -> s.charges + e.fee
                   [] e.kind = "charge" -> s.charges + e.amount
                   [] OTHER -> s.charges,
     worth |-> Worth(s, e),
     openBar |-> IF e.kind = "open" THEN e.bar ELSE s.openBar,
     openPrice |-> IF e.kind = "open" THEN e.price ELSE s.openPrice,
     closeBar |-> IF e.kind = "close" THEN e.bar ELSE s.closeBar,
     due |-> CASE e.kind = "halt" -> NoCause
               [] e.kind # "halt" /\ Bankrupt(Worth(s, e)) -> e.at
               [] OTHER -> s.due,
     halted |-> e.kind = "halt"]

\* replay: every event of the journal through _process again, from the start.
Refused == [Fresh EXCEPT !.cursor = -2]

Turn(s, e) == IF s # Refused /\ Accepts(s, e) THEN Publish(s, e) ELSE Refused

Replay(events) == FoldLeft(Turn, Fresh, events)

-----------------------------------------------------------------------------
(* What a producer offers: it reads the engine's ledger and its own earlier *)
(* events.  Offers that process refuses in every state are left out.       *)

NextOrdinal(kind, bar) ==
    LET first == At(kind, bar, 0)
    IN  IF state.cursor < first THEN 0 ELSE state.cursor + 1 - first

Fillable == UNION {IF q > 0 THEN 1..q ELSE q..(-1) : q \in Quantities}

\* A mark declares the ledger at its price.
Declaring(e, price) ==
    [e EXCEPT !.amount = state.cash, !.price = price,
              !.holdings = state.position * price, !.fee = state.charges]

\* An event of an order, of the whole of it or of what is left.
Ordering(e, order, quantity) == [e EXCEPT !.order = order, !.amount = quantity]

\* A fill refers to the open and is priced above it.
Filling(e, id, slip, fee) ==
    [e EXCEPT !.id = id, !.ref = state.openPrice, !.price = state.openPrice + slip,
              !.fee = fee]

Made(kind, bar) ==
    LET Citing == {Event(kind, bar, NextOrdinal(kind, bar), c.at) :
                     c \in {c \in state.seen : c.kind \in CauseOf(kind)}}
        Alone == Event(kind, bar, NextOrdinal(kind, bar), NoCause)
    IN  CASE kind \in {"open", "close"} ->
               {Declaring(Alone, Quote[kind][bar])}
          [] kind = "signal" -> {Alone}
          [] kind = "target" ->
               {[e EXCEPT !.amount = eligible] :
                  e \in Citing, eligible \in {b \in Bars : b > bar}}
          [] kind = "charge" -> {[Alone EXCEPT !.amount = charge] : charge \in Charges}
          [] kind = "halt" -> {Alone} \cup {[e EXCEPT !.reason = Bankruptcy] : e \in Citing}
          [] kind = "fill" ->
               {Filling(Ordering(e, o, q), id, slip, fee) :
                  e \in Citing, o \in OrderIds, id \in FillIds, q \in Fillable,
                  slip \in Slippage, fee \in Charges}
          [] kind = "submit" ->
               {Ordering(e, o, q) :
                  e \in Citing, o \in OrderIds, q \in Fillable}
          [] OTHER ->
               {Ordering(e, o, q) :
                  e \in Citing, o \in OrderIds, q \in Fillable \cup {0}}

-----------------------------------------------------------------------------
(* Actions.                                                                *)

Init ==
    /\ journal = <<>>
    /\ mode = "live"
    /\ state = Fresh
    /\ pending = {}

\* Mutant: an error of the journal is taken for a refusal.
Process_GoesOn(e) ==
    \/ /\ journal' = Append(journal, e)
       /\ state' = Publish(state, e)
       /\ mode' = "live"
    \/ /\ journal' \in {journal, Append(journal, e)}
       /\ UNCHANGED <<mode, state>>

\* _process with append: the journal's answer comes before anything is published,
\* and an error of it, raised before or after its commit, poisons the engine.
Process(e) ==
    \/ /\ journal' = Append(journal, e)
       /\ state' = Publish(state, e)
       /\ mode' = "live"
    \/ /\ journal' \in {journal, Append(journal, e)}
       /\ mode' = "poisoned"
       /\ UNCHANGED state

\* process: a refused event changes nothing.
ProcessOne ==
    /\ mode = "live"
    /\ \E kind \in DOMAIN PhaseOf, bar \in Bars :
          /\ NextOrdinal(kind, bar) <= MaxOrdinal
          /\ \E e \in Made(kind, bar) : Accepts(state, e) /\ Process(e)
    /\ UNCHANGED pending

\* submit
Submit ==
    /\ mode = "live"
    /\ \E e \in Queueable \ (state.seen \cup pending) :
          /\ e.at > state.cursor
          /\ Cardinality(pending) < MaxPending
          /\ Cardinality(state.seen) + Cardinality(pending) < MaxEvents
          /\ pending' = pending \cup {e}
    /\ UNCHANGED <<journal, mode, state>>

\* One turn of drain: the event leaves the queue whatever _process says of it.
Drain ==
    /\ mode = "live"
    /\ \E e \in pending :
          /\ \A other \in pending : e.at <= other.at
          /\ pending' = pending \ {e}
          /\ IF Accepts(state, e) THEN Process(e) ELSE UNCHANGED <<journal, mode, state>>

\* A crash, or the recovery of a poisoned engine: replay builds a new engine.
Recover ==
    /\ mode # "refused"
    /\ state' = Replay(journal)
    /\ mode' = IF state' = Refused THEN "refused" ELSE "live"
    /\ pending' = {}
    /\ UNCHANGED journal

Next == ProcessOne \/ Submit \/ Drain \/ Recover

Spec == Init /\ [][Next]_vars

-----------------------------------------------------------------------------
(* Properties.                                                             *)

\* Whatever the journal answered and whenever the process died, a replay is
\* never refused, and an engine that answers has exactly the state the journal
\* replays to (event_engine.py:276, 497).
RecoveryIsExact ==
    /\ mode # "refused"
    /\ mode = "live" => state = Replay(journal)

Entries(kind) == {i \in DOMAIN journal : journal[i].kind = kind}

\* What an event spends, buys and charges, and the sum of that over the journal.
Fee(e)    == IF e.kind = "fill" THEN e.fee ELSE IF e.kind = "charge" THEN e.amount ELSE 0
Bought(e) == IF e.kind = "fill" THEN e.amount ELSE 0
Spent(e)  == Bought(e) * e.price + Fee(e)

Sum(terms)      == FoldLeft(LAMBDA sum, n : sum + n, 0, terms)
Total(Term(_))  == Sum([i \in DOMAIN journal |-> Term(journal[i])])

\* Cash, position and charges are those of the journal's fills and charges, each
\* fill counted once whatever event brings it again (ledger.py:296).
LedgerIsOfTheJournal ==
    mode = "live" =>
        /\ state.cash = InitialCash - Total(Spent)
        /\ state.position = Total(Bought)
        /\ state.charges = Total(Fee)
        /\ \A i, k \in Entries("fill") : journal[i].id = journal[k].id => i = k

\* An order lives within its bar: no mark of another bar, no charge and no close
\* finds it open, and no more of it is filled than was asked (the DAY orders of
\* event_engine.py:777-800).
DayOrdersEnd ==
    mode = "live" =>
        \A o \in DOMAIN state.orders :
            LET order == state.orders[o]
                Of(kind) == {i \in Entries(kind) : journal[i].bar = order.bar}
                filled == Total(LAMBDA e : IF e.order = o THEN Bought(e) ELSE 0)
            IN  /\ order.status \notin {"filled", "rejected", "cancelled"} =>
                      /\ \A i \in DOMAIN journal \ Entries("halt") : journal[i].bar <= order.bar
                      /\ Of("charge") \cup Of("close") = {}
                /\ Abs(filled) <= Abs(order.qty) /\ filled * order.qty >= 0

\* Every fill descends from a signal of an earlier session, through a target
\* that named the fill's session: nothing trades on what its bar revealed
\* (event_engine.py:563).
NoLookahead ==
    \A i \in Entries("fill") :
        \E sig \in Entries("signal"), tgt \in Entries("target"), sub \in Entries("submit") :
            /\ journal[sub].order = journal[i].order
            /\ journal[sub].cause = journal[tgt].at /\ journal[tgt].cause = journal[sig].at
            /\ sig < tgt /\ tgt < sub /\ sub < i
            /\ journal[tgt].amount = journal[i].bar
            /\ journal[sig].bar < journal[i].bar

\* An event that leaves the account without equity is followed by nothing but
\* the halt that cites it, through crashes and replays too, and a halt by nothing
\* (event_engine.py:474-481, 527).  The journal grows by one event at a time, so
\* that its last two are each pair in turn.
BankruptcyHalts ==
    Len(journal) > 1 =>
        LET before == journal[Len(journal) - 1]
            last == journal[Len(journal)]
        IN  /\ before.kind # "halt"
            /\ Bankrupt(Replay(Front(journal)).worth) =>
                  last.kind = "halt" /\ last.cause = before.at
=============================================================================
