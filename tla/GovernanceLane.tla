--------------------------- MODULE GovernanceLane ----------------------------
(***************************************************************************)
(* One governance lane in the registry database: GovernanceStore's         *)
(* register_lane, append_event, apply_assignment, freeze and rebuild_head  *)
(* (packages/signalattice/src/quant_platform/governance/store.py), the     *)
(* transitions of governance/lane.py and the trigger and unique index of   *)
(* tracking/migrations.py.                                                 *)
(*                                                                         *)
(* A write is one BEGIN IMMEDIATE transaction and one step.  An approval   *)
(* is granted against a head read earlier, and rebuild_head reads the      *)
(* events and the head through different connections.  Callers may crash   *)
(* before or after the commit and ask again with the same key.             *)
(***************************************************************************)
EXTENDS Naturals, Sequences, FiniteSets, FiniteSetsExt

CONSTANTS Writers,      \* callers of the store
          Revisions,    \* model revisions that may become champion
          Keys,         \* idempotency keys
          Triggers,     \* trigger and detail of a freeze
          Notes,        \* payloads like no assignment's and no freeze's
          Appended,     \* what is passed to append_event: kind and payload
          MaxEvents,    \* bound: events recorded
          None

ASSUME BoundAssumption == MaxEvents \in Nat

VARIABLES
    events,   \* the lane's event chain
    head,     \* the cached projection, or None before registration
    pc,       \* pc[w]: what writer w does next
    call,     \* call[w]: its request, or None
    answer,   \* answer[w]: how the request ended
    seen,     \* the events rebuild_head has loaded, or None
    verdict   \* what rebuild_head said last

lane    == <<events, head>>
writers == <<pc, call, answer>>
rebuild == <<seen, verdict>>
vars    == <<lane, writers, rebuild>>

Champion   == Revisions \cup {None}
Generation == Nat
Key        == Keys \cup {None}

Assignment == [champion : Revisions, generation : Generation,
               previous_champion : Champion, previous_generation : Generation]
Stop       == [trigger : Triggers]
Note       == [note : Notes]

\* A note is an event of any kind that does not move the head.  append_event takes
\* every kind and every payload; an assignment or freeze that rebuild_head could not
\* read is left out.
Appendable == [kind : {"note"}, payload : Assignment \cup Stop \cup Note]
         \cup [kind : {"assignment"}, payload : Assignment]
         \cup [kind : {"freeze"}, payload : Stop]

ASSUME AppendAssumption == Appended \subseteq Appendable

\* What callers owe the head, and append_event does not check: the kinds that move
\* it are left to apply_assignment and freeze.
Disciplined == \A a \in Appended : a.kind = "note"

Event == [kind : {"assignment"}, payload : Assignment, key : Key]
    \cup [kind : {"freeze"}, payload : Stop, key : Key]
    \cup [kind : {"note"}, payload : Assignment \cup Stop \cup Note, key : Key]

Call == [op : {"assign"}, revision : Revisions, generation : Generation,
         champion : Champion, key : Key]
   \cup [op : {"freeze"}, trigger : Triggers, key : Key]
   \cup [op : {"append"}, event : Appended, key : Key]

\* A head with the number of the event it was built from.
LaneHead ==
    [state : {"unassigned", "active", "frozen"}, champion : Champion,
     generation : Generation, trigger : Triggers \cup {None},
     sequence : 0..MaxEvents]

ASSUME NoneAssumption ==
    None \notin Revisions \cup Keys \cup Triggers \cup Call \cup LaneHead

Init ==
    /\ events = <<>>
    /\ head = None
    /\ pc = [w \in Writers |-> "idle"]
    /\ call = [w \in Writers |-> None]
    /\ answer = [w \in Writers |-> "none"]
    /\ seen = None
    /\ verdict = "agrees"

-----------------------------------------------------------------------------
(* The chain *)

\* The event already recorded under the key of e.
Recorded(e) ==
    {n \in DOMAIN events : e.key # None /\ events[n].key = e.key}

\* Mutant: the recorded content is not compared.
Conflicts_Never(e) == FALSE

\* The key was used for different content; its kind is not compared.
Conflicts(e) == \E n \in Recorded(e) : events[n].payload # e.payload

\* Where e is, or will be, in the chain.
Sequence(e) ==
    IF Recorded(e) = {} THEN Len(events) + 1 ELSE Max(Recorded(e))

\* _append_locked: a repeated key resolves to the event it has.
AppendLocked(e) ==
    /\ ~Conflicts(e)
    /\ Recorded(e) = {} => Len(events) < MaxEvents
    /\ events' = IF Recorded(e) = {} THEN Append(events, e) ELSE events

\* Mutant: without the trigger on the head.
Forward_Unchecked(h) == TRUE

\* The trigger: neither generation nor sequence moves backwards.
Forward(h) == h.generation >= head.generation /\ h.sequence >= head.sequence

-----------------------------------------------------------------------------
(* Callers *)

Asks(w, c) ==
    /\ pc[w] = "idle"
    /\ pc' = [pc EXCEPT ![w] = "asked"]
    /\ call' = [call EXCEPT ![w] = c]
    /\ answer' = [answer EXCEPT ![w] = "none"]
    /\ UNCHANGED <<lane, rebuild>>

\* The transaction of w is over; its answer is on the way.
Answers(w, how) ==
    /\ pc' = [pc EXCEPT ![w] = "answered"]
    /\ answer' = [answer EXCEPT ![w] = how]
    /\ UNCHANGED <<call, rebuild>>

Asked(w, op) == pc[w] = "asked" /\ call[w].op = op

Returns(w) ==
    /\ pc[w] = "answered"
    /\ pc' = [pc EXCEPT ![w] = "idle"]
    /\ call' = [call EXCEPT ![w] = None]
    /\ answer' = [answer EXCEPT ![w] = "none"]
    /\ UNCHANGED <<lane, rebuild>>

\* The caller is interrupted before or after the commit ...
Crash(w) ==
    /\ pc[w] # "idle"
    /\ pc' = [pc EXCEPT ![w] = "idle"]
    /\ answer' = [answer EXCEPT ![w] = "none"]
    /\ UNCHANGED <<lane, call, rebuild>>

\* ... and replays its request.
Replay(w) == call[w] # None /\ Asks(w, call[w])

\* A champion is approved against the head as it is read.
Approve(w, r, k) ==
    /\ head # None
    /\ Asks(w, [op |-> "assign", revision |-> r, generation |-> head.generation,
                champion |-> head.champion, key |-> k])

\* A second registration is ignored.
Register ==
    /\ head = None
    /\ head' = [state |-> "unassigned", champion |-> None, generation |-> 0,
                trigger |-> None, sequence |-> 0]
    /\ UNCHANGED <<events, writers, rebuild>>

-----------------------------------------------------------------------------
(* apply_assignment *)

AssignmentOf(c) ==
    [kind |-> "assignment", key |-> c.key,
     payload |-> [champion |-> c.revision, generation |-> c.generation + 1,
                  previous_champion |-> c.champion,
                  previous_generation |-> c.generation]]

HeadAssigned(c) ==
    [state |-> "active", champion |-> c.revision, generation |-> c.generation + 1,
     trigger |-> None, sequence |-> Sequence(AssignmentOf(c))]

\* Mutant: an approval holds as long as the champion is the same.
Current_ChampionOnly(c) == head.champion = c.champion

\* The head is the one the approval was granted against.
Current(c) == head.generation = c.generation /\ head.champion = c.champion

AssignStale(w) ==
    /\ Asked(w, "assign")
    /\ ~Current(call[w])
    /\ Answers(w, "stale")
    /\ UNCHANGED lane

AssignRefused(w) ==
    /\ Asked(w, "assign")
    /\ Current(call[w])
    /\ Conflicts(AssignmentOf(call[w])) \/ ~Forward(HeadAssigned(call[w]))
    /\ Answers(w, "error")
    /\ UNCHANGED lane

\* Every state of a lane may become active: event and head in one transaction.
Assign(w) ==
    /\ Asked(w, "assign")
    /\ Current(call[w])
    /\ Forward(HeadAssigned(call[w]))
    /\ AppendLocked(AssignmentOf(call[w]))
    /\ head' = HeadAssigned(call[w])
    /\ Answers(w, "ok")

-----------------------------------------------------------------------------
(* freeze, append_event *)

FreezeOf(c) ==
    [kind |-> "freeze", key |-> c.key, payload |-> [trigger |-> c.trigger]]

HeadFrozen(c) ==
    [head EXCEPT !.state = "frozen", !.trigger = c.trigger,
                 !.sequence = Sequence(FreezeOf(c))]

\* Only an active lane may be frozen.
FreezeRefused(w) ==
    /\ Asked(w, "freeze")
    /\ \/ head.state # "active"
       \/ Conflicts(FreezeOf(call[w]))
       \/ ~Forward(HeadFrozen(call[w]))
    /\ Answers(w, "error")
    /\ UNCHANGED lane

Freeze(w) ==
    /\ Asked(w, "freeze")
    /\ head.state = "active"
    /\ Forward(HeadFrozen(call[w]))
    /\ AppendLocked(FreezeOf(call[w]))
    /\ head' = HeadFrozen(call[w])
    /\ Answers(w, "ok")

\* append_event, of whatever kind: the head stays.
EventOf(c) == [kind |-> c.event.kind, key |-> c.key, payload |-> c.event.payload]

AppendEvent(w) ==
    /\ Asked(w, "append")
    /\ \/ /\ AppendLocked(EventOf(call[w]))
          /\ Answers(w, "ok")
       \/ /\ Conflicts(EventOf(call[w]))
          /\ Answers(w, "error")
          /\ UNCHANGED events
    /\ UNCHANGED head

-----------------------------------------------------------------------------
(* rebuild_head *)

Numbers(es, kind) == {n \in DOMAIN es : es[n].kind = kind}

\* The head the events es produce.
Projection(es) ==
    LET assigned == Numbers(es, "assignment")
        frozen   == {n \in Numbers(es, "freeze") : \A m \in assigned : m < n}
        last     == es[Max(assigned)].payload
    IN  [state |-> IF frozen # {} THEN "frozen"
                   ELSE IF assigned # {} THEN "active" ELSE "unassigned",
         champion |-> IF assigned = {} THEN None ELSE last.champion,
         generation |-> IF assigned = {} THEN 0 ELSE last.generation,
         trigger |-> IF frozen = {} THEN None
                     ELSE es[Max(frozen)].payload.trigger]

\* head.to_dict()
Stored == [state |-> head.state, champion |-> head.champion,
           generation |-> head.generation, trigger |-> head.trigger]

\* The events are loaded ...
RebuildLoad ==
    /\ head # None
    /\ seen = None
    /\ seen' = events
    /\ UNCHANGED <<lane, writers, verdict>>

\* ... and what they produce is compared with the head read afterwards.
RebuildCompare ==
    /\ seen # None
    /\ verdict' = IF Projection(seen) = Stored THEN "agrees" ELSE "fault"
    /\ seen' = None
    /\ UNCHANGED <<lane, writers>>

-----------------------------------------------------------------------------
Next ==
    \/ Register
    \/ RebuildLoad \/ RebuildCompare
    \/ \E w \in Writers :
          \/ Returns(w) \/ Crash(w) \/ Replay(w)
          \/ \E k \in Key :
                \/ \E r \in Revisions : Approve(w, r, k)
                \/ \E t \in Triggers :
                      head # None /\ Asks(w, [op |-> "freeze", trigger |-> t, key |-> k])
                \/ \E a \in Appended :
                      head # None /\ Asks(w, [op |-> "append", event |-> a, key |-> k])
          \/ AssignStale(w) \/ AssignRefused(w) \/ Assign(w)
          \/ FreezeRefused(w) \/ Freeze(w)
          \/ AppendEvent(w)

Spec == Init /\ [][Next]_vars

-----------------------------------------------------------------------------
(* Properties *)

\* Every variable keeps to its range, and a head is a coherent LaneHead: only a
\* frozen lane has a trigger, only an unassigned one no champion.
TypeOK ==
    /\ events \in Seq(Event) /\ Len(events) <= MaxEvents
    /\ head # None =>
          /\ head \in LaneHead
          /\ (head.state = "frozen") <=> (head.trigger # None)
          /\ (head.state = "unassigned") <=> (head.champion = None)
    /\ pc \in [Writers -> {"idle", "asked", "answered"}]
    /\ call \in [Writers -> Call \cup {None}]
    /\ answer \in [Writers -> {"none", "ok", "stale", "error"}]
    /\ seen # None => seen \in Seq(Event)
    /\ verdict \in {"agrees", "fault"}

\* No event under a key has the content of an assignment or a freeze and another
\* kind.  The store does not see to it: a repeated key resolves by content alone
\* (store.py:303), so a freeze under the key of such an event moves the head and
\* adds no event.
ContentTellsKind ==
    \A n \in Numbers(events, "note") :
        events[n].key # None => events[n].payload \in Note

\* The cached head is what the events produce, although a replayed key resolves
\* to an old event and writers approve against heads that have moved
\* (apply_assignment, freeze): "a head that moved without its event, or an event
\* without its head update" (store.py:285-287) is impossible as long as the chain
\* has no event that a repeated key can mistake for an assignment or a freeze.
HeadIsProjection ==
    head # None /\ ContentTellsKind => Stored = Projection(events)

\* Every recorded assignment was approved against the champion and generation
\* it replaced: of two racing applications one is refused (apply_assignment).
ApprovalsAreCurrent ==
    ContentTellsKind => \A n \in Numbers(events, "assignment") :
        LET before  == Projection(SubSeq(events, 1, n - 1))
            payload == events[n].payload
        IN  /\ payload.previous_generation = before.generation
            /\ payload.previous_champion = before.champion
            /\ payload.generation = before.generation + 1

\* What w asked to be recorded.
Requested(w) ==
    CASE call[w].op = "assign" -> AssignmentOf(call[w])
      [] call[w].op = "freeze" -> FreezeOf(call[w])
      [] OTHER                 -> EventOf(call[w])

\* A caller that was told its request succeeded finds exactly one event under
\* its key, with the payload it asked for, however often it was replayed
\* (_append_locked, the unique index).  The event may be of another kind.
KeysResolve ==
    \A w \in Writers :
        answer[w] = "ok" /\ call[w].key # None =>
            /\ Cardinality(Recorded(Requested(w))) = 1
            /\ \A n \in Recorded(Requested(w)) :
                  events[n].payload = Requested(w).payload

=============================================================================
