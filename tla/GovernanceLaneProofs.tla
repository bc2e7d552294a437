------------------------ MODULE GovernanceLaneProofs -------------------------
(***************************************************************************)
(* A successful request is in the chain once, whatever callers append.     *)
(* When they leave assignments and freezes to apply_assignment and freeze  *)
(* (Disciplined), the cached head of a lane is the projection of its       *)
(* events as long as no event has a key and content to be mistaken for one *)
(* of them, for any number of callers, crashes and replays.                *)
(*                                                                         *)
(* A replayed assignment or freeze never gets as far as an old event of    *)
(* its kind: generations only grow, so no recorded assignment is the one   *)
(* the head would move to next, and the trigger refuses the sequence of a  *)
(* freeze that is older than the last assignment.  LaneInv says so.  That  *)
(* the old event is of the same kind is what ContentTellsKind is for: the  *)
(* chain only grows, so it held before whenever it holds.                  *)
(***************************************************************************)
EXTENDS GovernanceLane, FiniteSetTheorems, TLAPS

\* A caller with a request made it of a registered lane.
CallsAreOfLane ==
    \A w \in Writers :
        /\ pc[w] # "idle" => call[w] # None
        /\ call[w] # None => head # None

\* The unique index on keys.
KeysAreUnique ==
    \A m, n \in DOMAIN events :
        events[m].key # None /\ events[m].key = events[n].key => m = n

\* What holds whatever callers append.
BaseInv == TypeOK /\ CallsAreOfLane /\ KeysAreUnique

\* A lane without a head has no events.
RegisteredFirst == head = None => events = <<>>

\* What the head says of the events: the last assignment, and the last freeze
\* when it is later.
HeadFollows ==
    head # None =>
        /\ \A n \in Numbers(events, "assignment") :
              events[n].payload.generation <= head.generation
        /\ head.state = "unassigned" =>
              /\ Numbers(events, "assignment") = {}
              /\ Numbers(events, "freeze") = {}
              /\ head.generation = 0
              /\ head.sequence = 0
        /\ head.state # "unassigned" =>
              \E a \in Numbers(events, "assignment") :
                  /\ \A m \in Numbers(events, "assignment") : m <= a
                  /\ events[a].payload.champion = head.champion
                  /\ events[a].payload.generation = head.generation
                  /\ head.state = "active" =>
                        /\ head.sequence = a
                        /\ \A n \in Numbers(events, "freeze") : n < a
                  /\ head.state = "frozen" =>
                        /\ head.sequence \in Numbers(events, "freeze")
                        /\ a < head.sequence
                        /\ \A n \in Numbers(events, "freeze") : n <= head.sequence
                        /\ events[head.sequence].payload.trigger = head.trigger

\* What holds when callers are Disciplined.
LaneInv == BaseInv /\ RegisteredFirst /\ (ContentTellsKind => HeadFollows)

-----------------------------------------------------------------------------
\* The greatest number of a set that has one.
LEMMA MaxIs ==
    ASSUME NEW S, S \subseteq Nat, NEW x \in S, \A y \in S : y <= x
    PROVE  Max(S) = x
<1>1. \A z \in S : (\A y \in S : z >= y) => z = x
  OBVIOUS
<1>2. \A y \in S : x >= y
  OBVIOUS
<1> QED
  BY <1>1, <1>2 DEF Max

\* A note's payload is neither an assignment's nor a freeze's.
LEMMA PayloadKinds ==
    \A p \in Note : "champion" \notin DOMAIN p /\ "trigger" \notin DOMAIN p
BY DEF Note

\* An event is of one of three kinds; those that move the head have their content.
LEMMA EventKinds ==
    \A e \in Event :
        /\ e.kind \in {"assignment", "freeze", "note"}
        /\ e.kind = "assignment" => e.payload \in Assignment
        /\ e.kind = "freeze" => e.payload \in Stop
        /\ e.key \in Key
BY DEF Event

\* A request is of one of three kinds.
LEMMA CallKinds ==
    \A c \in Call :
        /\ c.op = "assign" => c.revision \in Revisions /\ c.generation \in Generation
                              /\ c.champion \in Champion
        /\ c.op = "freeze" => c.trigger \in Triggers
        /\ c.op = "append" => c.event \in Appended
        /\ c.op \in {"assign", "freeze", "append"}
        /\ c.key \in Key
BY DEF Call

-----------------------------------------------------------------------------
\* Appending one event changes nothing of the others.
LEMMA AppendFacts ==
    ASSUME NEW es \in Seq(Event), NEW e \in Event
    PROVE  /\ Append(es, e) \in Seq(Event)
           /\ Len(Append(es, e)) = Len(es) + 1
           /\ DOMAIN Append(es, e) = DOMAIN es \cup {Len(es) + 1}
           /\ \A n \in DOMAIN es : n \in Nat /\ n <= Len(es) /\ Append(es, e)[n] = es[n]
           /\ Append(es, e)[Len(es) + 1] = e
           /\ \A kind : Numbers(Append(es, e), kind) =
                 Numbers(es, kind) \cup {n \in {Len(es) + 1} : e.kind = kind}
<1>1. /\ Append(es, e) \in Seq(Event)
      /\ Len(Append(es, e)) = Len(es) + 1
      /\ DOMAIN Append(es, e) = DOMAIN es \cup {Len(es) + 1}
      /\ \A n \in DOMAIN es : n \in Nat /\ n <= Len(es) /\ Append(es, e)[n] = es[n]
      /\ Append(es, e)[Len(es) + 1] = e
  OBVIOUS
<1> QED
  BY <1>1 DEF Numbers

\* Facts of a well-typed state that every step uses.
LEMMA LaneFacts ==
    ASSUME TypeOK
    PROVE  /\ events \in Seq(Event)
           /\ Len(events) \in Nat
           /\ \A n \in DOMAIN events : n \in Nat /\ n <= Len(events) /\ events[n] \in Event
           /\ \A w \in Writers : call[w] # None => call[w] \in Call
BY DEF TypeOK

\* What the transactions record is an event of its kind.
LEMMA RequestsAreEvents ==
    ASSUME NEW c \in Call
    PROVE  /\ c.op = "assign" => AssignmentOf(c) \in Event
           /\ c.op = "freeze" => FreezeOf(c) \in Event
           /\ c.op = "append" => EventOf(c) \in Event
<1>1. ASSUME c.op = "assign" PROVE AssignmentOf(c) \in Event
  <2>1. c.generation + 1 \in Generation
    BY <1>1, CallKinds DEF Generation
  <2> QED
    BY <1>1, <2>1, CallKinds DEF AssignmentOf, Event, Assignment, Key
<1>2. ASSUME c.op = "freeze" PROVE FreezeOf(c) \in Event
  BY <1>2, CallKinds DEF FreezeOf, Event, Stop, Key
<1>3. ASSUME c.op = "append" PROVE EventOf(c) \in Event
  <2>1. c.event \in Appendable /\ c.key \in Key
    BY <1>3, CallKinds, AppendAssumption
  <2>2. \/ c.event.kind = "note" /\ c.event.payload \in Assignment \cup Stop \cup Note
        \/ c.event.kind = "assignment" /\ c.event.payload \in Assignment
        \/ c.event.kind = "freeze" /\ c.event.payload \in Stop
    BY <2>1 DEF Appendable
  <2> QED
    BY <2>1, <2>2 DEF EventOf, Event
<1> QED
  BY <1>1, <1>2, <1>3

\* An assignment is never a replayed one: every recorded generation is older.
LEMMA AssignIsNew ==
    ASSUME LaneInv, ContentTellsKind, NEW w \in Writers, Assign(w)
    PROVE  /\ head # None
           /\ call[w] \in Call /\ call[w].op = "assign"
           /\ call[w].generation = head.generation
           /\ Recorded(AssignmentOf(call[w])) = {}
<1> DEFINE e == AssignmentOf(call[w])
<1>1. /\ pc[w] = "asked" /\ call[w].op = "assign"
      /\ call[w].generation = head.generation
      /\ ~Conflicts(e)
  BY DEF Assign, Asked, Current, AppendLocked
<1>2. call[w] \in Call /\ head # None /\ head \in LaneHead
  BY <1>1 DEF LaneInv, BaseInv, CallsAreOfLane, TypeOK
<1>3. /\ head.generation \in Nat
      /\ e.payload.generation = head.generation + 1
      /\ e.payload = [champion |-> call[w].revision,
                      generation |-> call[w].generation + 1,
                      previous_champion |-> call[w].champion,
                      previous_generation |-> call[w].generation]
  BY <1>1, <1>2, BoundAssumption DEF AssignmentOf, LaneHead, Generation
<1>4. ASSUME NEW n \in Recorded(e) PROVE FALSE
  <2>1. n \in DOMAIN events /\ events[n].payload = e.payload
        /\ e.key # None /\ events[n].key = e.key
    BY <1>1, <1>4 DEF Recorded, Conflicts
  <2>2. events[n] \in Event
    BY <2>1, LaneFacts DEF LaneInv, BaseInv
  <2>3. "champion" \in DOMAIN events[n].payload
    BY <2>1, <1>3
  <2>4. events[n].kind = "assignment"
    <3>1. events[n].kind # "note"
      BY <2>1, <2>3, PayloadKinds DEF ContentTellsKind, Numbers
    <3>2. events[n].kind # "freeze"
      BY <2>2, <2>3, EventKinds DEF Stop
    <3> QED
      BY <2>2, <3>1, <3>2, EventKinds
  <2>5. events[n].payload.generation <= head.generation
    BY <1>2, <2>1, <2>4 DEF LaneInv, HeadFollows, Numbers
  <2> QED
    BY <2>1, <2>5, <1>3
<1> QED
  BY <1>1, <1>2, <1>4

\* A freeze is never a replayed one: the lane would still be frozen, or the
\* last assignment would be newer and the trigger would refuse.
LEMMA FreezeIsNew ==
    ASSUME LaneInv, ContentTellsKind, NEW w \in Writers, Freeze(w)
    PROVE  /\ head # None
           /\ call[w] \in Call /\ call[w].op = "freeze"
           /\ Recorded(FreezeOf(call[w])) = {}
<1> DEFINE e == FreezeOf(call[w])
<1>1. /\ pc[w] = "asked" /\ call[w].op = "freeze"
      /\ head.state = "active" /\ Forward(HeadFrozen(call[w]))
      /\ ~Conflicts(e)
  BY DEF Freeze, Asked, AppendLocked
<1>2. call[w] \in Call /\ head # None /\ head \in LaneHead
  BY <1>1 DEF LaneInv, BaseInv, CallsAreOfLane, TypeOK
<1>3. HeadFrozen(call[w]).sequence = Sequence(e)
  BY <1>2 DEF HeadFrozen, LaneHead
<1>4. ASSUME NEW n \in Recorded(e) PROVE FALSE
  <2>1. n \in DOMAIN events /\ events[n].payload = e.payload
        /\ e.key # None /\ events[n].key = e.key
    BY <1>1, <1>4 DEF Recorded, Conflicts
  <2>2. events[n] \in Event /\ n \in Nat
    BY <2>1, LaneFacts DEF LaneInv, BaseInv
  <2>3. "trigger" \in DOMAIN events[n].payload
    BY <2>1 DEF FreezeOf
  <2>4. n \in Numbers(events, "freeze")
    <3>1. events[n].kind # "note"
      BY <2>1, <2>3, PayloadKinds DEF ContentTellsKind, Numbers
    <3>2. events[n].kind # "assignment"
      BY <2>2, <2>3, EventKinds DEF Assignment
    <3> QED
      BY <2>1, <2>2, <3>1, <3>2, EventKinds DEF Numbers
  <2>5. n < head.sequence
    BY <1>1, <1>2, <2>4 DEF LaneInv, HeadFollows
  <2>6. Recorded(e) = {n}
    BY <1>4, <2>1 DEF Recorded, LaneInv, BaseInv, KeysAreUnique
  <2>7. Max(Recorded(e)) = n
    BY <2>2, <2>6, MaxIs
  <2>8. HeadFrozen(call[w]).sequence = n
    BY <1>3, <2>6, <2>7 DEF Sequence
  <2> QED
    BY <1>1, <1>2, <2>2, <2>5, <2>8 DEF Forward, LaneHead
<1> QED
  BY <1>1, <1>2, <1>4

-----------------------------------------------------------------------------
\* A new lane has no events, and its head says so.
LEMMA LaneInit == Init => LaneInv
<1> SUFFICES ASSUME Init PROVE LaneInv
  OBVIOUS
<1>1. TypeOK
  BY BoundAssumption DEF Init, TypeOK
<1>2. CallsAreOfLane /\ KeysAreUnique /\ RegisteredFirst /\ HeadFollows
  BY DEF Init, CallsAreOfLane, KeysAreUnique, RegisteredFirst, HeadFollows
<1> QED
  BY <1>1, <1>2 DEF LaneInv, BaseInv

\* The steps of callers that leave the lane alone: requests and answers.
LEMMA CallerStep ==
    ASSUME BaseInv, UNCHANGED lane,
           NEW w \in Writers,
           \/ Returns(w) \/ Crash(w) \/ AssignStale(w) \/ AssignRefused(w)
           \/ FreezeRefused(w)
           \/ head # None /\ \E c \in Call : Asks(w, c)
    PROVE  BaseInv'
<1> USE DEF BaseInv, lane
<1>1. events' = events /\ head' = head
  OBVIOUS
<1>2. KeysAreUnique'
  BY <1>1 DEF KeysAreUnique
<1>3. TypeOK' /\ CallsAreOfLane'
  <2> USE DEF TypeOK, CallsAreOfLane
  <2>1. CASE Returns(w) \/ Crash(w)
    BY <1>1, <2>1 DEF Returns, Crash, rebuild
  <2>2. CASE AssignStale(w) \/ AssignRefused(w) \/ FreezeRefused(w)
    <3>1. pc[w] = "asked"
      BY <2>2 DEF AssignStale, AssignRefused, FreezeRefused, Asked
    <3>2. PICK how \in {"stale", "error"} : Answers(w, how)
      BY <2>2 DEF AssignStale, AssignRefused, FreezeRefused
    <3> QED
      BY <1>1, <3>1, <3>2 DEF Answers, rebuild
  <2>3. CASE head # None /\ \E c \in Call : Asks(w, c)
    <3>1. PICK c \in Call : Asks(w, c)
      BY <2>3
    <3>2. c # None
      BY NoneAssumption
    <3>3. /\ pc' = [pc EXCEPT ![w] = "asked"]
          /\ call' = [call EXCEPT ![w] = c]
          /\ answer' = [answer EXCEPT ![w] = "none"]
          /\ seen' = seen /\ verdict' = verdict
      BY <3>1 DEF Asks, rebuild
    <3> QED
      BY <1>1, <2>3, <3>2, <3>3
  <2> QED
    BY <2>1, <2>2, <2>3
<1> QED
  BY <1>2, <1>3

\* rebuild_head reads, and says what it thinks.
LEMMA RebuildStep ==
    ASSUME BaseInv, RebuildLoad \/ RebuildCompare \/ UNCHANGED vars PROVE BaseInv'
<1>1. UNCHANGED <<lane, writers>>
  BY DEF RebuildLoad, RebuildCompare, vars
<1>2. TypeOK'
  BY <1>1 DEF BaseInv, TypeOK, RebuildLoad, RebuildCompare, vars, lane, writers, rebuild
<1>3. CallsAreOfLane' /\ KeysAreUnique'
  BY <1>1 DEF BaseInv, CallsAreOfLane, KeysAreUnique, lane, writers
<1> QED
  BY <1>2, <1>3 DEF BaseInv

\* A registration.
LEMMA RegisterStep == ASSUME BaseInv, Register PROVE BaseInv'
<1> USE DEF BaseInv, Register, writers, rebuild
<1>1. head' \in LaneHead /\ head' # None
  BY BoundAssumption, NoneAssumption DEF LaneHead, Champion, Generation
<1>2. TypeOK' /\ CallsAreOfLane' /\ KeysAreUnique'
  BY <1>1 DEF TypeOK, CallsAreOfLane, KeysAreUnique
<1> QED
  BY <1>2

-----------------------------------------------------------------------------
\* A new event keeps the chain well typed and its keys unique.
LEMMA ChainGrows ==
    ASSUME BaseInv, NEW e \in Event, Recorded(e) = {}, AppendLocked(e)
    PROVE  /\ events' = Append(events, e)
           /\ events' \in Seq(Event) /\ Len(events') <= MaxEvents
           /\ Len(events) + 1 \in 1..MaxEvents
           /\ KeysAreUnique'
<1>1. events' = Append(events, e) /\ Len(events) < MaxEvents
  BY DEF AppendLocked
<1>2. events \in Seq(Event) /\ Len(events) \in Nat
  BY LaneFacts DEF BaseInv
<1>3. events' \in Seq(Event) /\ Len(events') <= MaxEvents
  BY <1>1, <1>2, BoundAssumption, AppendFacts
<1>4. ASSUME NEW m \in DOMAIN events', NEW n \in DOMAIN events',
             events'[m].key # None, events'[m].key = events'[n].key
      PROVE  m = n
  <2>1. \A k \in DOMAIN events : events[k].key = e.key => e.key = None
    BY DEF Recorded
  <2>2. CASE m \in DOMAIN events /\ n \in DOMAIN events
    BY <1>1, <1>2, <1>4, <2>2, AppendFacts DEF BaseInv, KeysAreUnique
  <2>3. CASE m \in DOMAIN events /\ n = Len(events) + 1
    BY <1>1, <1>2, <1>4, <2>1, <2>3, AppendFacts
  <2>4. CASE m = Len(events) + 1 /\ n \in DOMAIN events
    BY <1>1, <1>2, <1>4, <2>1, <2>4, AppendFacts
  <2> QED
    BY <1>1, <1>2, <1>4, <2>2, <2>3, <2>4, AppendFacts
<1> QED
  BY <1>1, <1>2, <1>3, <1>4, BoundAssumption DEF KeysAreUnique

\* The numbers of each kind after a new event.
LEMMA NumbersAfter ==
    ASSUME BaseInv, NEW e \in Event, events' = Append(events, e), NEW kind
    PROVE  /\ e.kind = kind =>
                 Numbers(events', kind) = Numbers(events, kind) \cup {Len(events) + 1}
           /\ e.kind # kind => Numbers(events', kind) = Numbers(events, kind)
<1>1. events \in Seq(Event)
  BY LaneFacts DEF BaseInv
<1>2. Numbers(events', kind) =
         Numbers(events, kind) \cup {n \in {Len(events) + 1} : e.kind = kind}
  BY <1>1, AppendFacts
<1> QED
  BY <1>2

\* The events that were there before a new one.
LEMMA EventsAfter ==
    ASSUME BaseInv, NEW e \in Event, events' = Append(events, e)
    PROVE  /\ Len(events) \in Nat /\ Len(events') = Len(events) + 1
           /\ events'[Len(events) + 1] = e
           /\ \A n \in DOMAIN events :
                 n \in Nat /\ n < Len(events) + 1 /\ events'[n] = events[n]
<1>1. events \in Seq(Event) /\ Len(events) \in Nat
  BY LaneFacts DEF BaseInv
<1>2. \A n \in DOMAIN events : n \in Nat /\ n <= Len(events) /\ events'[n] = events[n]
  BY <1>1, AppendFacts
<1>3. \A n \in DOMAIN events : n < Len(events) + 1
  BY <1>1, <1>2
<1> QED
  BY <1>1, <1>2, <1>3, AppendFacts

\* A transaction keeps the chain in its bounds, also when its key was used.
LEMMA ChainKeeps ==
    ASSUME BaseInv, NEW e \in Event, AppendLocked(e)
    PROVE  /\ events' \in Seq(Event) /\ Len(events') <= MaxEvents
           /\ Sequence(e) \in 1..MaxEvents
           /\ KeysAreUnique'
<1>1. CASE Recorded(e) = {}
  BY <1>1, ChainGrows DEF Sequence
<1>2. CASE Recorded(e) # {}
  <2>1. events' = events
    BY <1>2 DEF AppendLocked
  <2>2. PICK n \in Recorded(e) : TRUE
    BY <1>2
  <2>3. n \in DOMAIN events /\ e.key # None /\ events[n].key = e.key
    BY <2>2 DEF Recorded
  <2>4. Recorded(e) = {n}
    BY <2>2, <2>3 DEF Recorded, BaseInv, KeysAreUnique
  <2>5. /\ events \in Seq(Event) /\ Len(events) \in Nat /\ Len(events) <= MaxEvents
        /\ n \in 1..Len(events)
    BY <2>3 DEF BaseInv, TypeOK
  <2>6. Max(Recorded(e)) = n
    <3>1. n \in Nat /\ n <= n
      BY <2>5
    <3>2. Max({n}) = n
      BY <3>1, MaxIs
    <3> QED
      BY <2>4, <3>2
  <2>7. Sequence(e) \in 1..MaxEvents
    BY <2>4, <2>5, <2>6, BoundAssumption DEF Sequence
  <2>8. KeysAreUnique'
    BY <2>1 DEF BaseInv, KeysAreUnique
  <2> QED
    BY <2>1, <2>5, <2>7, <2>8
<1> QED
  BY <1>1, <1>2

\* A transaction that leaves a coherent head and chain leaves a typed state.
LEMMA AnswersKeep ==
    ASSUME BaseInv, NEW w \in Writers, pc[w] = "asked",
           NEW how \in {"ok", "error"}, Answers(w, how),
           events' \in Seq(Event), Len(events') <= MaxEvents, KeysAreUnique',
           head # None, head' # None, head' \in LaneHead,
           (head'.state = "frozen") <=> (head'.trigger # None),
           (head'.state = "unassigned") <=> (head'.champion = None)
    PROVE  BaseInv'
BY DEF BaseInv, TypeOK, CallsAreOfLane, Answers, rebuild

\* A caller in its transaction, and the head it finds.
LEMMA AskedFacts ==
    ASSUME BaseInv, NEW w \in Writers, pc[w] = "asked"
    PROVE  /\ call[w] \in Call
           /\ head # None /\ head \in LaneHead
           /\ head.state = "active" => head.champion # None
           /\ (head.state = "frozen") <=> (head.trigger # None)
           /\ (head.state = "unassigned") <=> (head.champion = None)
BY DEF BaseInv, CallsAreOfLane, TypeOK

\* An assignment: the head it leaves is coherent.
LEMMA AssignKeeps ==
    ASSUME BaseInv, NEW w \in Writers, Assign(w)
    PROVE  /\ BaseInv' /\ head' # None
           /\ call[w] \in Call /\ call[w].op = "assign"
           /\ AssignmentOf(call[w]) \in Event
<1> DEFINE c == call[w]
           e == AssignmentOf(call[w])
<1>1. /\ AppendLocked(e) /\ head' = HeadAssigned(c) /\ c.op = "assign"
      /\ Answers(w, "ok") /\ pc[w] = "asked"
  BY DEF Assign, Asked
<1>2. c \in Call /\ head # None
  BY <1>1, AskedFacts
<1>3. e \in Event /\ c.revision \in Revisions /\ c.generation \in Nat
  BY <1>1, <1>2, RequestsAreEvents, CallKinds DEF Generation
<1>4. /\ events' \in Seq(Event) /\ Len(events') <= MaxEvents
      /\ Sequence(e) \in 1..MaxEvents /\ KeysAreUnique'
  BY <1>1, <1>3, ChainKeeps
<1>5. head' = [state |-> "active", champion |-> c.revision,
               generation |-> c.generation + 1, trigger |-> None,
               sequence |-> Sequence(e)]
  BY <1>1 DEF HeadAssigned
<1>6. head' \in LaneHead
  <2>1. Sequence(e) \in 0..MaxEvents /\ c.generation + 1 \in Nat
    BY <1>3, <1>4, BoundAssumption
  <2> QED
    BY <1>3, <1>5, <2>1 DEF LaneHead, Champion, Generation
<1>7. /\ head' # None /\ head'.state = "active" /\ head'.trigger = None
      /\ head'.champion # None
  BY <1>3, <1>5, <1>6, NoneAssumption
<1> QED
  BY <1>1, <1>2, <1>3, <1>4, <1>6, <1>7, AnswersKeep

\* A freeze: so is the head it leaves, and it keeps champion and generation.
LEMMA FreezeKeeps ==
    ASSUME BaseInv, NEW w \in Writers, Freeze(w)
    PROVE  /\ BaseInv'
           /\ call[w] \in Call /\ call[w].op = "freeze"
           /\ FreezeOf(call[w]) \in Event
           /\ head' # None
           /\ head'.state = "frozen" /\ head'.champion = head.champion
           /\ head'.generation = head.generation
           /\ head'.trigger = call[w].trigger
           /\ head'.sequence = Sequence(FreezeOf(call[w]))
<1> DEFINE c == call[w]
           e == FreezeOf(call[w])
<1>1. /\ AppendLocked(e) /\ head' = HeadFrozen(c) /\ head.state = "active"
      /\ Answers(w, "ok") /\ pc[w] = "asked" /\ c.op = "freeze"
  BY DEF Freeze, Asked
<1>2. c \in Call /\ head # None /\ head \in LaneHead /\ head.champion # None
  BY <1>1, AskedFacts
<1>3. e \in Event /\ c.trigger \in Triggers
  BY <1>1, <1>2, RequestsAreEvents, CallKinds
<1>4. /\ events' \in Seq(Event) /\ Len(events') <= MaxEvents
      /\ Sequence(e) \in 1..MaxEvents /\ KeysAreUnique'
  BY <1>1, <1>3, ChainKeeps
<1>5. head' = [head EXCEPT !.state = "frozen", !.trigger = c.trigger,
                           !.sequence = Sequence(e)]
  BY <1>1 DEF HeadFrozen
<1>6. /\ head'.state = "frozen" /\ head'.champion = head.champion
      /\ head'.generation = head.generation /\ head'.trigger = c.trigger
      /\ head'.sequence = Sequence(e) /\ head' \in LaneHead
  <2>1. Sequence(e) \in 0..MaxEvents
    BY <1>4, BoundAssumption
  <2>2. PICK st \in {"unassigned", "active", "frozen"}, ch \in Champion,
             ge \in Generation, tr \in Triggers \cup {None}, sq \in 0..MaxEvents :
          head = [state |-> st, champion |-> ch, generation |-> ge,
                  trigger |-> tr, sequence |-> sq]
    BY <1>2, Zenon DEF LaneHead
  <2>3. head' = [state |-> "frozen", champion |-> ch, generation |-> ge,
                 trigger |-> c.trigger, sequence |-> Sequence(e)]
    BY <1>5, <2>2
  <2> QED
    BY <1>3, <2>1, <2>2, <2>3 DEF LaneHead
<1>7. head' # None /\ c.trigger # None
  BY <1>3, <1>6, NoneAssumption
<1>8. BaseInv'
  BY <1>1, <1>2, <1>4, <1>6, <1>7, AnswersKeep
<1> QED
  BY <1>1, <1>2, <1>3, <1>6, <1>7, <1>8

\* An event appended as it is, a replayed or a refused one.
LEMMA AppendKeeps ==
    ASSUME BaseInv, NEW w \in Writers, AppendEvent(w)
    PROVE  /\ BaseInv'
           /\ call[w] \in Call /\ call[w].op = "append"
           /\ EventOf(call[w]) \in Event
           /\ head # None /\ head' = head
<1> DEFINE e == EventOf(call[w])
<1>1. pc[w] = "asked" /\ call[w].op = "append" /\ head' = head
  BY DEF AppendEvent, Asked
<1>2. call[w] \in Call /\ head # None
  BY <1>1, AskedFacts
<1>3. /\ head' \in LaneHead /\ head' # None
      /\ (head'.state = "frozen") <=> (head'.trigger # None)
      /\ (head'.state = "unassigned") <=> (head'.champion = None)
  BY <1>1, AskedFacts
<1>4. e \in Event
  BY <1>1, <1>2, RequestsAreEvents
<1>5. PICK how \in {"ok", "error"} : Answers(w, how)
  BY DEF AppendEvent
<1>6. events' \in Seq(Event) /\ Len(events') <= MaxEvents /\ KeysAreUnique'
  <2>1. CASE AppendLocked(e)
    BY <1>4, <2>1, ChainKeeps
  <2>2. CASE events' = events
    BY <2>2 DEF BaseInv, TypeOK, KeysAreUnique
  <2> QED
    BY <2>1, <2>2 DEF AppendEvent
<1>7. BaseInv'
  BY <1>1, <1>2, <1>3, <1>5, <1>6, AnswersKeep
<1> QED
  BY <1>1, <1>2, <1>4, <1>7

\* What the other steps are: the lane stays as it is, or is registered.
LEMMA OtherSteps ==
    ASSUME BaseInv, [Next]_vars,
           \A w \in Writers : ~Assign(w) /\ ~Freeze(w) /\ ~AppendEvent(w)
    PROVE  /\ BaseInv'
           /\ Register \/ UNCHANGED lane
<1> DEFINE Goal == BaseInv' /\ (Register \/ UNCHANGED lane)
<1>1. CASE Register
  BY <1>1, RegisterStep
<1>2. ASSUME NEW w \in Writers,
             \/ Returns(w) \/ Crash(w)
             \/ AssignStale(w) \/ AssignRefused(w) \/ FreezeRefused(w)
      PROVE  Goal
  <2>1. UNCHANGED lane
    BY <1>2 DEF Returns, Crash, AssignStale, AssignRefused, FreezeRefused
  <2> QED
    BY <1>2, <2>1, CallerStep
<1>3. ASSUME NEW w \in Writers, NEW c \in Call, head # None, Asks(w, c)
      PROVE  Goal
  <2>1. UNCHANGED lane
    BY <1>3 DEF Asks
  <2> QED
    BY <1>3, <2>1, CallerStep
<1>4. ASSUME NEW w \in Writers, Replay(w) PROVE Goal
  <2>1. call[w] \in Call /\ head # None /\ Asks(w, call[w])
    BY <1>4 DEF Replay, BaseInv, TypeOK, CallsAreOfLane
  <2> QED
    BY <1>3, <2>1
<1>5. ASSUME NEW w \in Writers, NEW k \in Key, NEW r \in Revisions, Approve(w, r, k)
      PROVE  Goal
  <2>1. head # None /\ head \in LaneHead
    BY <1>5 DEF Approve, BaseInv, TypeOK
  <2>2. [op |-> "assign", revision |-> r, generation |-> head.generation,
         champion |-> head.champion, key |-> k] \in Call
    BY <2>1 DEF Call, LaneHead, Key
  <2> QED
    BY <1>3, <1>5, <2>1, <2>2 DEF Approve
<1>6. ASSUME NEW w \in Writers, NEW k \in Key, NEW t \in Triggers, head # None,
             Asks(w, [op |-> "freeze", trigger |-> t, key |-> k])
      PROVE  Goal
  <2>1. [op |-> "freeze", trigger |-> t, key |-> k] \in Call
    BY DEF Call, Key
  <2> QED
    BY <1>3, <1>6, <2>1
<1>7. ASSUME NEW w \in Writers, NEW k \in Key, NEW a \in Appended, head # None,
             Asks(w, [op |-> "append", event |-> a, key |-> k])
      PROVE  Goal
  <2>1. [op |-> "append", event |-> a, key |-> k] \in Call
    BY DEF Call, Key
  <2> QED
    BY <1>3, <1>7, <2>1
<1>8. CASE RebuildLoad \/ RebuildCompare \/ UNCHANGED vars
  BY <1>8, RebuildStep DEF RebuildLoad, RebuildCompare, vars
<1> QED
  BY <1>1, <1>2, <1>4, <1>5, <1>6, <1>7, <1>8 DEF Next

\* Every step keeps what holds whatever callers append.
LEMMA BaseStep == ASSUME BaseInv, [Next]_vars PROVE BaseInv'
  BY AssignKeeps, FreezeKeeps, AppendKeeps, OtherSteps

-----------------------------------------------------------------------------
\* A transaction changes nothing of the events there are ...
LEMMA EventsRemain ==
    ASSUME BaseInv, NEW e \in Event, AppendLocked(e)
    PROVE  /\ DOMAIN events \subseteq DOMAIN events'
           /\ \A n \in DOMAIN events : events'[n] = events[n]
<1>1. events' = Append(events, e) \/ events' = events
  BY DEF AppendLocked
<1>2. events \in Seq(Event)
  BY LaneFacts DEF BaseInv
<1>3. CASE events' = Append(events, e)
  BY <1>2, <1>3, AppendFacts
<1>4. CASE events' = events
  BY <1>4
<1> QED
  BY <1>1, <1>3, <1>4

\* ... so content told their kind before if it does so afterwards.
LEMMA KindsBefore ==
    ASSUME DOMAIN events \subseteq DOMAIN events',
           \A n \in DOMAIN events : events'[n] = events[n],
           ContentTellsKind'
    PROVE  ContentTellsKind
BY DEF ContentTellsKind, Numbers

\* An assignment: the head follows its event.
LEMMA AssignStep ==
    ASSUME LaneInv, NEW w \in Writers, Assign(w), ContentTellsKind' PROVE HeadFollows'
<1> DEFINE c == call[w]
           e == AssignmentOf(call[w])
           N == Len(events) + 1
<1>0. ContentTellsKind /\ HeadFollows
  <2>1. BaseInv /\ e \in Event /\ AppendLocked(e)
    BY AssignKeeps DEF LaneInv, Assign
  <2>2. /\ DOMAIN events \subseteq DOMAIN events'
        /\ \A n \in DOMAIN events : events'[n] = events[n]
    BY <2>1, EventsRemain
  <2>3. ContentTellsKind
    BY <2>2, KindsBefore
  <2> QED
    BY <2>3 DEF LaneInv
<1>1. /\ head # None /\ c \in Call /\ c.op = "assign"
      /\ c.generation = head.generation /\ Recorded(e) = {}
  BY <1>0, AssignIsNew
<1>2. AppendLocked(e) /\ head' = HeadAssigned(c)
  BY DEF Assign
<1>3. BaseInv /\ e \in Event
  BY AssignKeeps DEF LaneInv
<1>4. head.generation \in Nat
  BY <1>1 DEF LaneInv, BaseInv, TypeOK, LaneHead, Generation
<1>5. events' = Append(events, e)
  BY <1>1, <1>2, <1>3, ChainGrows
<1>6. /\ head'.state = "active" /\ head'.champion = c.revision
      /\ head'.generation = head.generation + 1 /\ head'.sequence = N
      /\ head' # None
  <2>1. head' = [state |-> "active", champion |-> c.revision,
                 generation |-> head.generation + 1, trigger |-> None,
                 sequence |-> N]
    BY <1>1, <1>2 DEF HeadAssigned, Sequence
  <2>2. head' # None
    BY AssignKeeps, <1>3
  <2> QED
    BY <2>1, <2>2
<1>7. /\ e.kind = "assignment" /\ e.payload.champion = c.revision
      /\ e.payload.generation = head.generation + 1
  BY <1>1 DEF AssignmentOf
<1>8. /\ Numbers(events', "assignment") = Numbers(events, "assignment") \cup {N}
      /\ Numbers(events', "freeze") = Numbers(events, "freeze")
      /\ events'[N] = e /\ N \in Nat
      /\ \A n \in DOMAIN events : n \in Nat /\ n < N /\ events'[n] = events[n]
  <2>1. e.kind # "freeze"
    BY <1>7
  <2>2. /\ Numbers(events', "assignment") = Numbers(events, "assignment") \cup {N}
        /\ Numbers(events', "freeze") = Numbers(events, "freeze")
    BY <1>3, <1>5, <1>7, <2>1, NumbersAfter
  <2>3. /\ events'[N] = e /\ N \in Nat
        /\ \A n \in DOMAIN events : n \in Nat /\ n < N /\ events'[n] = events[n]
    BY <1>3, <1>5, EventsAfter
  <2> QED
    BY <2>2, <2>3
<1>9. \A kind : Numbers(events, kind) \subseteq DOMAIN events
  BY DEF Numbers
<1>10. \A n \in Numbers(events, "assignment") :
          /\ events[n].payload.generation <= head.generation
          /\ events[n].payload.generation \in Nat
  <2> SUFFICES ASSUME NEW n \in Numbers(events, "assignment")
               PROVE  /\ events[n].payload.generation <= head.generation
                      /\ events[n].payload.generation \in Nat
    OBVIOUS
  <2>1. events[n] \in Event /\ events[n].kind = "assignment"
    BY <1>3, <1>9, LaneFacts DEF BaseInv, Numbers
  <2>2. events[n].payload \in Assignment
    BY <2>1, EventKinds
  <2> QED
    BY <1>0, <1>1, <2>2 DEF Assignment, Generation, HeadFollows
<1>11. \A n \in Numbers(events', "assignment") :
          events'[n].payload.generation <= head'.generation
  BY <1>4, <1>6, <1>7, <1>8, <1>9, <1>10
<1> QED
  BY <1>6, <1>7, <1>8, <1>9, <1>11 DEF HeadFollows

\* A freeze: the same.
LEMMA FreezeStep ==
    ASSUME LaneInv, NEW w \in Writers, Freeze(w), ContentTellsKind' PROVE HeadFollows'
<1> DEFINE c == call[w]
           e == FreezeOf(call[w])
           N == Len(events) + 1
<1>0. ContentTellsKind /\ HeadFollows
  <2>1. BaseInv /\ e \in Event /\ AppendLocked(e)
    BY FreezeKeeps DEF LaneInv, Freeze
  <2>2. /\ DOMAIN events \subseteq DOMAIN events'
        /\ \A n \in DOMAIN events : events'[n] = events[n]
    BY <2>1, EventsRemain
  <2>3. ContentTellsKind
    BY <2>2, KindsBefore
  <2> QED
    BY <2>3 DEF LaneInv
<1>1. head # None /\ Recorded(e) = {}
  BY <1>0, FreezeIsNew
<1>2. AppendLocked(e) /\ head.state = "active"
  BY DEF Freeze
<1>3. /\ BaseInv /\ e \in Event /\ head' # None
      /\ head'.state = "frozen" /\ head'.champion = head.champion
      /\ head'.generation = head.generation
      /\ head'.trigger = c.trigger /\ head'.sequence = Sequence(e)
  BY FreezeKeeps DEF LaneInv
<1>4. Sequence(e) = N
  BY <1>1 DEF Sequence
<1>5. events' = Append(events, e)
  BY <1>1, <1>2, <1>3, ChainGrows
<1>6. e.kind = "freeze" /\ e.payload.trigger = c.trigger
  BY DEF FreezeOf
<1>7. /\ Numbers(events', "assignment") = Numbers(events, "assignment")
      /\ Numbers(events', "freeze") = Numbers(events, "freeze") \cup {N}
      /\ events'[N] = e /\ N \in Nat
      /\ \A n \in DOMAIN events : n \in Nat /\ n < N /\ events'[n] = events[n]
  <2>1. e.kind # "assignment"
    BY <1>6
  <2>2. /\ Numbers(events', "assignment") = Numbers(events, "assignment")
        /\ Numbers(events', "freeze") = Numbers(events, "freeze") \cup {N}
    BY <1>3, <1>5, <1>6, <2>1, NumbersAfter
  <2>3. /\ events'[N] = e /\ N \in Nat
        /\ \A n \in DOMAIN events : n \in Nat /\ n < N /\ events'[n] = events[n]
    BY <1>3, <1>5, EventsAfter
  <2> QED
    BY <2>2, <2>3
<1>8. \A kind : Numbers(events, kind) \subseteq DOMAIN events
  BY DEF Numbers
<1>9. PICK a \in Numbers(events, "assignment") :
          /\ \A m \in Numbers(events, "assignment") : m <= a
          /\ events[a].payload.champion = head.champion
          /\ events[a].payload.generation = head.generation
  BY <1>0, <1>1, <1>2 DEF HeadFollows
<1>10. \A n \in Numbers(events, "assignment") :
          events[n].payload.generation <= head.generation
  BY <1>0, <1>1 DEF HeadFollows
<1> QED
  BY <1>3, <1>4, <1>6, <1>7, <1>8, <1>9, <1>10 DEF HeadFollows

\* A disciplined append: the head has nothing to follow.
LEMMA AppendStep ==
    ASSUME Disciplined, LaneInv, NEW w \in Writers, AppendEvent(w), ContentTellsKind'
    PROVE  HeadFollows'
<1> DEFINE c == call[w]
           e == EventOf(call[w])
<1>1. /\ BaseInv /\ e \in Event /\ c \in Call /\ c.op = "append"
      /\ head # None /\ head' = head
  BY AppendKeeps DEF LaneInv
<1>2. e.kind = "note"
  BY <1>1, CallKinds DEF EventOf, Disciplined
<1>3. CASE events' = Append(events, e)
  <2>1. /\ Numbers(events', "assignment") = Numbers(events, "assignment")
        /\ Numbers(events', "freeze") = Numbers(events, "freeze")
        /\ \A n \in DOMAIN events : events'[n] = events[n]
    BY <1>1, <1>2, <1>3, NumbersAfter, EventsAfter
  <2>2. HeadFollows
    <3>1. AppendLocked(e)
      BY <1>3 DEF AppendEvent, AppendLocked
    <3>2. ContentTellsKind
      BY <1>1, <3>1, EventsRemain, KindsBefore
    <3> QED
      BY <3>2 DEF LaneInv
  <2>3. \A kind : Numbers(events, kind) \subseteq DOMAIN events
    BY DEF Numbers
  <2> QED
    BY <1>1, <2>1, <2>2, <2>3 DEF HeadFollows
<1>4. CASE events' = events
  <2>1. ContentTellsKind
    BY <1>4 DEF ContentTellsKind
  <2> QED
    BY <1>1, <1>4, <2>1 DEF LaneInv, HeadFollows
<1> QED
  BY <1>3, <1>4 DEF AppendEvent, AppendLocked

\* Every step of disciplined callers.
LEMMA LaneStep == ASSUME Disciplined, LaneInv, [Next]_vars PROVE LaneInv'
<1>1. BaseInv'
  BY BaseStep DEF LaneInv
<1>2. CASE Register
  <2>1. events' = <<>> /\ \A kind : Numbers(<<>>, kind) = {}
    BY <1>2 DEF Register, LaneInv, RegisteredFirst, Numbers
  <2>2. head' # None
    BY <1>2, NoneAssumption, BoundAssumption DEF Register, LaneHead, Champion, Generation
  <2>3. RegisteredFirst' /\ HeadFollows'
    BY <1>2, <2>1, <2>2 DEF Register, RegisteredFirst, HeadFollows
  <2> QED
    BY <1>1, <2>3 DEF LaneInv
<1>3. CASE UNCHANGED lane
  BY <1>1, <1>3 DEF lane, LaneInv, RegisteredFirst, ContentTellsKind, HeadFollows
<1>4. ASSUME NEW w \in Writers, Assign(w) \/ Freeze(w) \/ AppendEvent(w)
      PROVE  LaneInv'
  <2>1. head' # None
    BY <1>4, AssignKeeps, FreezeKeeps, AppendKeeps DEF LaneInv
  <2>2. ContentTellsKind' => HeadFollows'
    BY <1>4, AssignStep, FreezeStep, AppendStep
  <2> QED
    BY <1>1, <2>1, <2>2 DEF LaneInv, RegisteredFirst
<1> QED
  BY <1>2, <1>3, <1>4, OtherSteps DEF LaneInv

-----------------------------------------------------------------------------
\* The invariant implies that the head is the projection.
LEMMA InvProjects == LaneInv => HeadIsProjection
<1> SUFFICES ASSUME LaneInv, ContentTellsKind, head # None
             PROVE  Stored = Projection(events)
  BY DEF HeadIsProjection
<1> DEFINE A == Numbers(events, "assignment")
           F == {n \in Numbers(events, "freeze") : \A m \in A : m < n}
<1>1. /\ A \subseteq Nat /\ F \subseteq Nat
  BY LaneFacts DEF LaneInv, BaseInv, Numbers
<1>2. /\ head \in LaneHead
      /\ (head.state = "frozen") <=> (head.trigger # None)
      /\ (head.state = "unassigned") <=> (head.champion = None)
  BY DEF LaneInv, BaseInv, TypeOK
<1>3. Projection(events) =
         [state |-> IF F # {} THEN "frozen"
                    ELSE IF A # {} THEN "active" ELSE "unassigned",
          champion |-> IF A = {} THEN None ELSE events[Max(A)].payload.champion,
          generation |-> IF A = {} THEN 0 ELSE events[Max(A)].payload.generation,
          trigger |-> IF F = {} THEN None ELSE events[Max(F)].payload.trigger]
  BY DEF Projection
<1>4. CASE head.state = "unassigned"
  <2>1. A = {} /\ F = {} /\ head.generation = 0
    BY <1>4 DEF LaneInv, HeadFollows
  <2> QED
    BY <1>2, <1>3, <1>4, <2>1 DEF Stored
<1>5. CASE head.state # "unassigned"
  <2>1. PICK a \in A :
            /\ \A m \in A : m <= a
            /\ events[a].payload.champion = head.champion
            /\ events[a].payload.generation = head.generation
            /\ head.state = "active" =>
                  \A n \in Numbers(events, "freeze") : n < a
            /\ head.state = "frozen" =>
                  /\ head.sequence \in Numbers(events, "freeze")
                  /\ a < head.sequence
                  /\ \A n \in Numbers(events, "freeze") : n <= head.sequence
                  /\ events[head.sequence].payload.trigger = head.trigger
    BY <1>5 DEF LaneInv, HeadFollows
  <2>2. Max(A) = a
    BY <1>1, <2>1, MaxIs
  <2>3. CASE head.state = "active"
    <3>1. F = {}
      <4>1. ASSUME NEW n \in F PROVE FALSE
        BY <1>1, <2>1, <2>3, <4>1
      <4> QED
        BY <4>1
    <3>2. head.trigger = None
      BY <1>2, <2>3
    <3> QED
      BY <1>3, <2>1, <2>2, <2>3, <3>1, <3>2 DEF Stored
  <2>4. CASE head.state = "frozen"
    <3>1. head.sequence \in F /\ \A n \in F : n <= head.sequence
      BY <1>1, <1>2, <2>1, <2>4, BoundAssumption DEF LaneHead
    <3>2. Max(F) = head.sequence
      BY <1>1, <3>1, MaxIs
    <3> QED
      BY <1>3, <2>1, <2>2, <2>4, <3>1, <3>2 DEF Stored
  <2> QED
    BY <1>2, <1>5, <2>3, <2>4 DEF LaneHead
<1> QED
  BY <1>4, <1>5

\* Whatever callers append, these hold in every reachable state.
THEOREM BaseCorrect == Spec => []BaseInv
<1>1. Init => BaseInv
  BY LaneInit DEF LaneInv
<1>2. BaseInv /\ [Next]_vars => BaseInv'
  BY BaseStep
<1> QED
  BY <1>1, <1>2, PTL DEF Spec

\* Every variable keeps to its range and every head is coherent, for any
\* number of callers and events (the checks of LaneHead and the schema).
THEOREM TypesHold == Spec => []TypeOK
<1>1. BaseInv => TypeOK
  BY DEF BaseInv
<1> QED
  BY <1>1, BaseCorrect, PTL

\* When callers are Disciplined, so does the invariant of the head.
THEOREM LaneCorrect == ASSUME Disciplined PROVE Spec => []LaneInv
<1>1. Init => LaneInv
  BY LaneInit
<1>2. LaneInv /\ [Next]_vars => LaneInv'
  BY LaneStep
<1> QED
  BY <1>1, <1>2, PTL DEF Spec

\* The cached head is what the events produce, provided that append_event is used
\* for no assignment and no freeze, as long as no event under a key has the content
\* of either: no race, crash or replay of apply_assignment, freeze or append_event
\* makes them differ.  Without the provisos they can (store.py:303, :357).
THEOREM HeadIsOfTheChain == ASSUME Disciplined PROVE Spec => []HeadIsProjection
  BY InvProjects, LaneCorrect, PTL

-----------------------------------------------------------------------------
\* What came before an event does not change when another one is appended.
LEMMA BeforeIsFixed ==
    ASSUME NEW es \in Seq(Event), NEW e \in Event, NEW n \in 1..(Len(es) + 1)
    PROVE  /\ SubSeq(Append(es, e), 1, n - 1) = SubSeq(es, 1, n - 1)
           /\ n = Len(es) + 1 => SubSeq(es, 1, n - 1) = es
<1>1. \A i \in 1..(n - 1) : i \in 1..Len(es) /\ Append(es, e)[i] = es[i]
  OBVIOUS
<1>2. SubSeq(Append(es, e), 1, n - 1) = SubSeq(es, 1, n - 1)
  BY <1>1
<1>3. n = Len(es) + 1 => SubSeq(es, 1, n - 1) = es
  OBVIOUS
<1> QED
  BY <1>2, <1>3

\* The approval of one event, in a chain.
Approved(es, n) ==
    LET before  == Projection(SubSeq(es, 1, n - 1))
        payload == es[n].payload
    IN  /\ payload.previous_generation = before.generation
        /\ payload.previous_champion = before.champion
        /\ payload.generation = before.generation + 1

\* An event keeps every approval; an assignment needs its own.
LEMMA ApprovalsAfter ==
    ASSUME BaseInv, ApprovalsAreCurrent, NEW e \in Event,
           events' = Append(events, e),
           ContentTellsKind /\ e.kind = "assignment" =>
               /\ e.payload.previous_generation = Projection(events).generation
               /\ e.payload.previous_champion = Projection(events).champion
               /\ e.payload.generation = Projection(events).generation + 1
    PROVE  ApprovalsAreCurrent'
<1>1. events \in Seq(Event) /\ Len(events) \in Nat
  BY LaneFacts DEF BaseInv
<1> SUFFICES ASSUME ContentTellsKind'
             PROVE  \A n \in Numbers(events', "assignment") : Approved(events', n)
  BY DEF ApprovalsAreCurrent, Approved
<1>0. ContentTellsKind
  BY <1>1, AppendFacts, KindsBefore
<1>2. ASSUME NEW n \in Numbers(events, "assignment") PROVE Approved(events', n)
  <2>1. n \in DOMAIN events /\ Approved(events, n)
    BY <1>0, <1>2 DEF ApprovalsAreCurrent, Approved, Numbers
  <2>2. n \in 1..(Len(events) + 1)
    BY <1>1, <2>1
  <2>3. /\ SubSeq(events', 1, n - 1) = SubSeq(events, 1, n - 1)
        /\ events'[n] = events[n]
    BY <1>1, <2>1, <2>2, BeforeIsFixed, EventsAfter
  <2> QED
    BY <2>1, <2>3 DEF Approved
<1>3. ASSUME e.kind = "assignment" PROVE Approved(events', Len(events) + 1)
  <2>1. Len(events) + 1 \in 1..(Len(events) + 1)
    BY <1>1
  <2>2. SubSeq(events', 1, (Len(events) + 1) - 1) = events
    BY <1>1, <2>1, BeforeIsFixed
  <2>3. events'[Len(events) + 1] = e
    BY EventsAfter
  <2> QED
    BY <1>0, <1>3, <2>2, <2>3 DEF Approved
<1> QED
  BY <1>2, <1>3, NumbersAfter

\* A step that appends nothing keeps the approvals.
LEMMA ApprovalsUnmoved ==
    ASSUME ApprovalsAreCurrent, events' = events PROVE ApprovalsAreCurrent'
<1> SUFFICES ASSUME ContentTellsKind
             PROVE  \A n \in Numbers(events', "assignment") : Approved(events', n)
  BY DEF ContentTellsKind, ApprovalsAreCurrent, Approved
<1>1. \A n \in Numbers(events, "assignment") : Approved(events, n)
  BY DEF ApprovalsAreCurrent, Approved
<1> QED
  BY <1>1

\* Every step keeps them: an assignment was approved against the head, and the
\* head is the projection.
LEMMA ApprovalsStep ==
    ASSUME Disciplined, LaneInv, ApprovalsAreCurrent, [Next]_vars
    PROVE  ApprovalsAreCurrent'
<1>0. BaseInv
  BY DEF LaneInv
<1>1. ASSUME NEW w \in Writers, Assign(w) PROVE ApprovalsAreCurrent'
  <2> DEFINE c == call[w]
             e == AssignmentOf(call[w])
  <2>1. AppendLocked(e) /\ c.champion = head.champion /\ c.generation = head.generation
    BY <1>1 DEF Assign, Current
  <2>2. e \in Event /\ e.kind = "assignment" /\ head # None
    <3>1. pc[w] = "asked"
      BY <1>1 DEF Assign, Asked
    <3>2. e.kind = "assignment"
      BY DEF AssignmentOf
    <3> QED
      BY <1>0, <1>1, <3>1, <3>2, AssignKeeps, AskedFacts
  <2>3. ContentTellsKind =>
           /\ Projection(events).generation = head.generation
           /\ Projection(events).champion = head.champion
    BY <2>2, InvProjects DEF HeadIsProjection, Stored
  <2>4. /\ e.payload.previous_generation = c.generation
        /\ e.payload.previous_champion = c.champion
        /\ e.payload.generation = c.generation + 1
    BY DEF AssignmentOf
  <2>5. CASE events' = Append(events, e)
    BY <1>0, <2>1, <2>2, <2>3, <2>4, <2>5, ApprovalsAfter
  <2>6. CASE events' = events
    BY <2>6, ApprovalsUnmoved
  <2> QED
    BY <2>1, <2>5, <2>6 DEF AppendLocked
<1>2. ASSUME NEW w \in Writers, Freeze(w) PROVE ApprovalsAreCurrent'
  <2>1. FreezeOf(call[w]) \in Event /\ FreezeOf(call[w]).kind # "assignment"
    BY <1>0, <1>2, FreezeKeeps DEF FreezeOf
  <2>2. events' = Append(events, FreezeOf(call[w])) \/ events' = events
    BY <1>2 DEF Freeze, AppendLocked
  <2> QED
    BY <1>0, <2>1, <2>2, ApprovalsAfter, ApprovalsUnmoved
<1>3. ASSUME NEW w \in Writers, AppendEvent(w) PROVE ApprovalsAreCurrent'
  <2>1. call[w] \in Call /\ call[w].op = "append" /\ EventOf(call[w]) \in Event
    BY <1>0, <1>3, AppendKeeps
  <2>2. EventOf(call[w]).kind # "assignment"
    BY <2>1, CallKinds DEF EventOf, Disciplined
  <2>3. events' = Append(events, EventOf(call[w])) \/ events' = events
    BY <1>3 DEF AppendEvent, AppendLocked
  <2> QED
    BY <1>0, <2>1, <2>2, <2>3, ApprovalsAfter, ApprovalsUnmoved
<1>4. ASSUME events' = events PROVE ApprovalsAreCurrent'
  BY <1>4, ApprovalsUnmoved
<1>5. CASE Register \/ UNCHANGED lane
  BY <1>4, <1>5 DEF Register, lane
<1> QED
  BY <1>0, <1>1, <1>2, <1>3, <1>5, OtherSteps

\* Of any number of racing applications none replaces a champion it was not
\* approved against (apply_assignment's compare-and-swap), also when the same
\* champion was assigned again in between, as long as no event is there to be
\* mistaken for an assignment; assignments that callers append themselves have no
\* approval, so they are left out (Disciplined).
THEOREM ApprovalsHold == ASSUME Disciplined PROVE Spec => []ApprovalsAreCurrent
<1>1. Init => ApprovalsAreCurrent
  BY DEF Init, ApprovalsAreCurrent, Numbers
<1>2. LaneInv /\ ApprovalsAreCurrent /\ [Next]_vars => ApprovalsAreCurrent'
  BY ApprovalsStep
<1> QED
  BY <1>1, <1>2, LaneCorrect, PTL DEF Spec

-----------------------------------------------------------------------------
\* Some event has the key of e, and its content.
Resolved(e) ==
    e.key # None =>
        \E n \in DOMAIN events : events[n].key = e.key /\ events[n].payload = e.payload

\* A caller that was told "ok" still holds its request, and an event resolves it.
AnswersResolve ==
    \A w \in Writers : answer[w] = "ok" => pc[w] = "answered" /\ Resolved(Requested(w))

\* The unique index makes the resolving event the only one.
LEMMA ResolvedIsUnique ==
    ASSUME BaseInv, AnswersResolve PROVE KeysResolve
<1> SUFFICES ASSUME NEW w \in Writers, answer[w] = "ok", call[w].key # None
             PROVE  /\ Cardinality(Recorded(Requested(w))) = 1
                    /\ \A n \in Recorded(Requested(w)) :
                          events[n].payload = Requested(w).payload
  BY DEF KeysResolve
<1> DEFINE e == Requested(w)
<1>1. e.key = call[w].key
  BY DEF Requested, AssignmentOf, FreezeOf, EventOf
<1>2. PICK n \in DOMAIN events : events[n].key = e.key /\ events[n].payload = e.payload
  BY <1>1 DEF AnswersResolve, Resolved
<1>3. Recorded(e) = {n}
  BY <1>1, <1>2 DEF Recorded, BaseInv, KeysAreUnique
<1>4. Cardinality({n}) = 1
  BY FS_Singleton
<1> QED
  BY <1>2, <1>3, <1>4

\* A transaction that appends e resolves it, and unresolves nothing.
LEMMA AppendResolves ==
    ASSUME BaseInv, NEW e \in Event, AppendLocked(e)
    PROVE  /\ Resolved(e)'
           /\ \A n \in DOMAIN events : n \in DOMAIN events' /\ events'[n] = events[n]
<1>1. events \in Seq(Event) /\ Len(events) \in Nat
  BY LaneFacts DEF BaseInv
<1>2. CASE Recorded(e) = {}
  <2>1. events' = Append(events, e)
    BY <1>2 DEF AppendLocked
  <2>2. /\ DOMAIN events' = DOMAIN events \cup {Len(events) + 1}
        /\ events'[Len(events) + 1] = e
        /\ \A n \in DOMAIN events : events'[n] = events[n]
    BY <1>1, <2>1, AppendFacts
  <2> QED
    BY <2>2 DEF Resolved
<1>3. CASE Recorded(e) # {}
  <2>1. events' = events /\ ~Conflicts(e)
    BY <1>3 DEF AppendLocked
  <2>2. PICK n \in Recorded(e) : TRUE
    BY <1>3
  <2>3. n \in DOMAIN events /\ events[n].key = e.key /\ events[n].payload = e.payload
    BY <2>1, <2>2 DEF Recorded, Conflicts
  <2> QED
    BY <2>1, <2>3 DEF Resolved
<1> QED
  BY <1>2, <1>3

\* A resolved request stays so when the chain only grows.
LEMMA ResolvedStays ==
    ASSUME NEW e, Resolved(e),
           \A n \in DOMAIN events : n \in DOMAIN events' /\ events'[n] = events[n]
    PROVE  e.key # None =>
              \E n \in DOMAIN events' :
                 events'[n].key = e.key /\ events'[n].payload = e.payload
BY DEF Resolved

\* Every step keeps the answers resolved.
LEMMA ResolveStep ==
    ASSUME BaseInv, AnswersResolve, [Next]_vars PROVE AnswersResolve'
<1>1. ASSUME \A n \in DOMAIN events : n \in DOMAIN events' /\ events'[n] = events[n],
             \A v \in Writers :
                answer'[v] = "ok" =>
                   \/ answer[v] = "ok" /\ call'[v] = call[v] /\ pc'[v] = pc[v]
                   \/ pc'[v] = "answered" /\ Resolved(Requested(v))'
      PROVE  AnswersResolve'
  <2> SUFFICES ASSUME NEW v \in Writers, answer'[v] = "ok"
               PROVE  pc'[v] = "answered" /\ Resolved(Requested(v))'
    BY DEF AnswersResolve
  <2>1. CASE answer[v] = "ok" /\ call'[v] = call[v] /\ pc'[v] = pc[v]
    <3>1. pc[v] = "answered" /\ Resolved(Requested(v))
      BY <2>1 DEF AnswersResolve
    <3>2. Requested(v)' = Requested(v)
      BY <2>1 DEF Requested, AssignmentOf, FreezeOf, EventOf
    <3> QED
      BY <1>1, <2>1, <3>1, <3>2, ResolvedStays DEF Resolved
  <2> QED
    BY <1>1, <2>1
<1>2. ASSUME NEW w \in Writers, NEW e \in Event, AppendLocked(e), Answers(w, "ok"),
             e = Requested(w)
      PROVE  AnswersResolve'
  <2>1. /\ Resolved(e)'
        /\ \A n \in DOMAIN events : n \in DOMAIN events' /\ events'[n] = events[n]
    BY <1>2, AppendResolves
  <2>2. Requested(w)' = e /\ call' = call
    BY <1>2 DEF Answers, Requested, AssignmentOf, FreezeOf, EventOf
  <2>3. /\ pc'[w] = "answered"
        /\ \A v \in Writers : v # w => pc'[v] = pc[v] /\ answer'[v] = answer[v]
    BY <1>2 DEF Answers, BaseInv, TypeOK
  <2> QED
    BY <1>1, <2>1, <2>2, <2>3 DEF Resolved
<1>3. ASSUME NEW w \in Writers, Assign(w) PROVE AnswersResolve'
  <2>1. /\ call[w].op = "assign" /\ AppendLocked(AssignmentOf(call[w]))
        /\ Answers(w, "ok")
    BY <1>3 DEF Assign, Asked
  <2>2. AssignmentOf(call[w]) \in Event
    BY <1>3, AssignKeeps
  <2>3. Requested(w) = AssignmentOf(call[w])
    BY <2>1 DEF Requested
  <2> QED
    BY <1>2, <2>1, <2>2, <2>3
<1>4. ASSUME NEW w \in Writers, Freeze(w) PROVE AnswersResolve'
  <2>1. /\ call[w] \in Call /\ call[w].op = "freeze"
        /\ AppendLocked(FreezeOf(call[w])) /\ Answers(w, "ok")
    BY <1>4, FreezeKeeps DEF Freeze
  <2>2. FreezeOf(call[w]) \in Event /\ Requested(w) = FreezeOf(call[w])
    BY <2>1, RequestsAreEvents DEF Requested
  <2> QED
    BY <1>2, <2>1, <2>2
<1>5. ASSUME NEW w \in Writers, AppendEvent(w) PROVE AnswersResolve'
  <2>1. call[w] \in Call /\ call[w].op = "append"
    BY <1>5, AppendKeeps
  <2>2. EventOf(call[w]) \in Event /\ Requested(w) = EventOf(call[w])
    BY <2>1, RequestsAreEvents DEF Requested
  <2>3. CASE AppendLocked(EventOf(call[w])) /\ Answers(w, "ok")
    BY <1>2, <2>2, <2>3
  <2>4. CASE Answers(w, "error") /\ UNCHANGED events
    BY <1>1, <2>4 DEF Answers, BaseInv, TypeOK
  <2> QED
    BY <1>5, <2>3, <2>4 DEF AppendEvent
<1>6. CASE Register \/ RebuildLoad \/ RebuildCompare \/ UNCHANGED vars
  BY <1>1, <1>6 DEF Register, RebuildLoad, RebuildCompare, vars, lane, writers
<1>7. ASSUME NEW w \in Writers,
             \/ Returns(w) \/ Crash(w) \/ Replay(w)
             \/ AssignStale(w) \/ AssignRefused(w) \/ FreezeRefused(w)
             \/ \E c : Asks(w, c)
      PROVE  AnswersResolve'
  <2>1. events' = events
    BY <1>7 DEF Returns, Crash, Replay, AssignStale, AssignRefused, FreezeRefused,
                Asks, lane
  <2>2. /\ answer'[w] # "ok"
        /\ \A v \in Writers : v # w => /\ pc'[v] = pc[v] /\ answer'[v] = answer[v]
                                       /\ call'[v] = call[v]
    BY <1>7 DEF Returns, Crash, Replay, AssignStale, AssignRefused, FreezeRefused,
                Asks, Answers, BaseInv, TypeOK
  <2> QED
    BY <1>1, <2>1, <2>2
<1> QED
  BY <1>3, <1>4, <1>5, <1>6, <1>7 DEF Next, Approve

\* A caller that was told its request succeeded finds exactly one event under
\* its key, with the content it asked for, for any number of callers, crashes
\* and replays and whatever is appended (_append_locked, the unique index).
THEOREM RequestsResolve == Spec => []KeysResolve
<1>1. Init => AnswersResolve
  BY DEF Init, AnswersResolve
<1> QED
  BY <1>1, ResolveStep, ResolvedIsUnique, BaseCorrect, PTL DEF Spec
=============================================================================
