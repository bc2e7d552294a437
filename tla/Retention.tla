----------------------------- MODULE Retention -----------------------------
(***************************************************************************)
(* Deletion of artifacts nobody needs (tracking/retention.py), together    *)
(* with the registry whose runs may link them and the store that holds     *)
(* their bytes.  An operator plans, confirms and executes; the signed plan *)
(* and a pending tombstone for each candidate are committed before the     *)
(* first byte goes, then each object is unlinked and its tombstone         *)
(* finalised, in two steps that no transaction spans.  Any step may be the *)
(* last one of its process.                                                *)
(*                                                                         *)
(* Signatures, deadlines and byte budgets are left out; a plan is what its *)
(* envelope binds: the candidates with the generations that were inspected.*)
(***************************************************************************)
EXTENDS RunRegistry

CONSTANTS Controllers,     \* operator processes
          Pinned,          \* digests registered as pinned
          MaxCandidates    \* RetentionPolicy.max_candidates

VARIABLE ctl    \* ctl[c]: the plan process c executes and how far it is

vars == <<jobVars, row, tomb, storeVars, ctl>>

Plans == UNION {[S -> 1..MaxGen] : S \in (SUBSET Digests) \ {{}}}
Steps == {"planned", "preflighted", "staged", "deleting", "chosen", "inspected",
          "compared", "unlinked"}
Tombstones == [state : {"pending", "deleted"}, plan : Plans]
Executions == [step : Steps, plan : Plans, todo : SUBSET Digests, at : Digests \cup {None}]

ASSUME PolicyAssumption ==
    /\ MaxCandidates \in Nat \ {0}
    /\ Pinned \subseteq Digests
    /\ None \notin Digests \cup Executions

-----------------------------------------------------------------------------
Linked(d) == \E run \in runs : d \in run.links

\* Mutant: work whose lease is still live is not counted.
NoRunningWork_Expired == \A j \in Jobs : Running(j) => ~job[j].live

NoRunningWork == \A j \in Jobs : ~Running(j)

At(c, step) == ctl[c] # None /\ ctl[c].step = step

Advance(c, step, todo, at) ==
    ctl' = [ctl EXCEPT ![c] = [step |-> step, plan |-> @.plan, todo |-> todo, at |-> at]]

\* Mutant: the links of runs are not looked up.
Revalidated_Unlinked(d) == d \notin Pinned /\ row[d] = "old"

\* _revalidate_candidate
Revalidated(d) == d \notin Pinned /\ row[d] = "old" /\ ~Linked(d)

\* _inspect_candidate_generation
Inspected(d, plan) == Verified(d) /\ file[d].gen = plan[d] /\ file[d].aged

InPlan(d, plan) == tomb[d].state # "none" /\ tomb[d].plan = plan

Staged(plan) == \A d \in DOMAIN plan : InPlan(d, plan)

\* _inspect_durable_plan_state: the plan is staged whole, or none of its candidates
\* is governed by another one.
DurableStateFits(plan) ==
    /\ Staged(plan) \/ \A d \in DOMAIN plan : tomb[d].state = "none"
    /\ \A d \in DOMAIN plan : Revalidated(d)

\* _read_intent: what has been finalised must be absent.
FinalizedAreAbsent(plan) ==
    \A d \in DOMAIN plan : tomb[d].state = "deleted" => Absent(d)

Eligible == {d \in Digests : Revalidated(d) /\ tomb[d].state = "none"}

\* plan: a bounded set of eligible rows, all of which pass inspection; those whose
\* generation is within the grace period are left out.
Plan(c) ==
    /\ ctl[c] = None
    /\ NoRunningWork
    /\ \E rows \in SUBSET Eligible :
          /\ Cardinality(rows) =
               IF Cardinality(Eligible) < MaxCandidates
               THEN Cardinality(Eligible) ELSE MaxCandidates
          /\ \A d \in rows : Verified(d)
          /\ LET chosen == {d \in rows : file[d].aged}
             IN  /\ chosen # {}
                 /\ ctl' = [ctl EXCEPT ![c] =
                              [step |-> "planned",
                               plan |-> [d \in chosen |-> file[d].gen],
                               todo |-> {}, at |-> None]]
    /\ UNCHANGED <<jobVars, row, tomb, storeVars>>

\* load_plan, as resume begins: a plan with tombstones, whose finalised ones hold.
LoadPlan(c) ==
    /\ ctl[c] = None
    /\ \E d \in Digests :
          /\ tomb[d].state # "none"
          /\ FinalizedAreAbsent(tomb[d].plan)
          /\ ctl' = [ctl EXCEPT ![c] = [step |-> "planned", plan |-> tomb[d].plan,
                                        todo |-> {}, at |-> None]]
    /\ UNCHANGED <<jobVars, row, tomb, storeVars>>

\* _preflight_new_intent: one read snapshot; a plan not staged yet is inspected.
PreflightIntent(c) ==
    /\ At(c, "planned")
    /\ NoRunningWork
    /\ DurableStateFits(ctl[c].plan)
    /\ Staged(ctl[c].plan) \/ \A d \in DOMAIN ctl[c].plan : Inspected(d, ctl[c].plan)
    /\ Advance(c, "preflighted", {}, None)
    /\ UNCHANGED <<jobVars, row, tomb, storeVars>>

\* _stage: the envelope and all tombstones in one transaction.
Stage(c) ==
    LET plan == ctl[c].plan
    IN  /\ At(c, "preflighted")
        /\ NoRunningWork
        /\ DurableStateFits(plan)
        /\ tomb' = IF Staged(plan) THEN tomb
                   ELSE [d \in Digests |-> IF d \in DOMAIN plan
                                           THEN [state |-> "pending", plan |-> plan]
                                           ELSE tomb[d]]
        /\ Advance(c, "staged", {}, None)
        /\ UNCHANGED <<jobVars, row, storeVars>>

\* execute: every finalised candidate is absent, every pending one is inspected
\* before the first is deleted.
InspectAll(c) ==
    LET plan == ctl[c].plan
        pending == {d \in DOMAIN plan : tomb[d].state = "pending"}
    IN  /\ At(c, "staged")
        /\ FinalizedAreAbsent(plan)
        /\ \A d \in pending : Inspected(d, plan)
        /\ Advance(c, "deleting", pending, None)
        /\ UNCHANGED <<jobVars, row, tomb, storeVars>>

\* _finalize_candidate, _candidate_is_finalized: somebody else finalised it
\* meanwhile, ...
SkipFinalized(c, d) ==
    /\ At(c, "deleting") /\ d \in ctl[c].todo
    /\ tomb[d].state = "deleted"
    /\ Revalidated(d) /\ Absent(d)
    /\ Advance(c, "deleting", ctl[c].todo \ {d}, None)
    /\ UNCHANGED <<jobVars, row, tomb, storeVars>>

\* ... or it is pending; ...
ChooseCandidate(c, d) ==
    /\ At(c, "deleting") /\ d \in ctl[c].todo
    /\ tomb[d].state = "pending"
    /\ Revalidated(d)
    /\ Advance(c, "chosen", ctl[c].todo, d)
    /\ UNCHANGED <<jobVars, row, tomb, storeVars>>

\* ... then inspect its generation, ...
InspectCandidate(c) ==
    /\ At(c, "chosen")
    /\ Inspected(ctl[c].at, ctl[c].plan)
    /\ Advance(c, "inspected", ctl[c].todo, ctl[c].at)
    /\ UNCHANGED <<jobVars, row, tomb, storeVars>>

\* ... compare it once more, ...
CompareCandidate(c) ==
    /\ At(c, "inspected")
    /\ CompareVerified(ctl[c].at, ctl[c].plan[ctl[c].at])
    /\ Advance(c, "compared", ctl[c].todo, ctl[c].at)
    /\ UNCHANGED <<jobVars, row, tomb, storeVars>>

\* Mutant: the tombstone is finalised before the bytes are deleted.
Unlink_FinalizesFirst(c) ==
    /\ At(c, "compared")
    /\ Advance(c, "unlinked", ctl[c].todo, ctl[c].at)
    /\ UNCHANGED <<jobVars, row, tomb, storeVars>>

\* ... delete what has its name, ...
Unlink(c) ==
    /\ At(c, "compared")
    /\ UnlinkNamed(ctl[c].at)
    /\ Advance(c, "unlinked", ctl[c].todo, ctl[c].at)
    /\ UNCHANGED <<jobVars, row, tomb, pub>>

\* ... and then finalise the tombstone in a transaction of its own.
FinalizeTombstone(c) ==
    LET d == ctl[c].at
    IN  /\ At(c, "unlinked")
        /\ Revalidated(d)
        /\ InPlan(d, ctl[c].plan)
        /\ tomb[d].state = "deleted" => Absent(d)
        /\ tomb' = [tomb EXCEPT ![d].state = "deleted"]
        /\ Advance(c, "deleting", ctl[c].todo \ {d}, None)
        /\ UNCHANGED <<jobVars, row, storeVars>>

\* An execution returns, raises or is killed: what it committed and deleted stays.
ControllerStops(c) ==
    /\ ctl[c] # None
    /\ ctl' = [ctl EXCEPT ![c] = None]
    /\ UNCHANGED <<jobVars, row, tomb, storeVars>>

-----------------------------------------------------------------------------
Init ==
    /\ RegistryInit
    /\ StoreInit
    /\ tomb = [d \in Digests |-> NoTombstone]
    /\ ctl = [c \in Controllers |-> None]

Next ==
    \/ RegistryNext /\ UNCHANGED ctl
    \/ \E c \in Controllers :
          \/ Plan(c) \/ LoadPlan(c) \/ PreflightIntent(c) \/ Stage(c) \/ InspectAll(c)
          \/ InspectCandidate(c) \/ CompareCandidate(c) \/ Unlink(c)
          \/ FinalizeTombstone(c) \/ ControllerStops(c)
          \/ \E d \in Digests : SkipFinalized(c, d) \/ ChooseCandidate(c, d)

Spec == Init /\ [][Next]_vars

-----------------------------------------------------------------------------
TypeOK ==
    /\ RegistryTypeOK
    /\ StoreTypeOK
    /\ tomb \in [Digests -> Tombstones \cup {NoTombstone}]
    /\ ctl \in [Controllers -> Executions \cup {None}]

\* Evidence outlives retention: what a run links can be read, whatever was planned,
\* published again, interrupted or resumed before and after the link was made.
EvidenceIsReadable == \A run \in runs : \A d \in run.links : file[d].links = 1

\* While a deletion is under way no attempt runs, so none can link what goes.
RetentionExcludesWork == Pending # {} => \A j \in Jobs : job[j].state # "running"

Unlinked(d) == file[d].links > 0 /\ file'[d].links = 0

\* Bytes go only after the intent to delete this content is durable, in this
\* generation or an earlier one, and while no run links it: also when two
\* executions of a plan race with its republication (retention.py: "Committing
\* intent before unlinking").
IntentPrecedesUnlink ==
    [][\A d \in Digests :
          Unlinked(d) =>
             /\ tomb[d].state # "none"
             /\ tomb[d].plan[d] <= file[d].gen
             /\ ~Linked(d)]_vars

\* What goes is the very generation some pending intent names, so that "a delete
\* and republish of identical bytes fails closed" (cas.py:1599-1600).  One
\* controller suffices for it; two that share a plan do not.
UnlinksAreIntended ==
    [][\A d \in Digests :
          Unlinked(d) => tomb[d].state = "pending" /\ tomb[d].plan[d] = file[d].gen]_vars

\* A finalised tombstone speaks of a generation that is gone.
DeletedIsGone ==
    \A d \in Digests :
        tomb[d].state = "deleted" => file[d].links = 0 \/ file[d].gen # tomb[d].plan[d]
=============================================================================
