---------------------------- MODULE JobLifecycle ----------------------------
(***************************************************************************)
(* What the research control plane promises about a job, whatever the      *)
(* scheduler, its callers, SQLite and the operating system do: a job is    *)
(* admitted once under one idempotency key and within both budgets, is     *)
(* begun at most once, ends at most once, never leaves the state it ended  *)
(* in, and has an evidence artifact exactly when it succeeded.  This is    *)
(* the contract of Store (signal_foundry/store.py) as a client sees it;    *)
(* ResearchManager implements it.                                          *)
(***************************************************************************)
EXTENDS Naturals, FiniteSets

CONSTANTS Keys,         \* idempotency keys
          Requests,     \* canonical research requests
          MaxJobs,      \* retained-evidence budget
          MaxPending    \* queue budget

VARIABLES state,        \* state[j]: what the store reports of job j
          evidence      \* jobs with a published artifact

vars == <<state, evidence>>

\* A job's identity is the hash of its key and its request.
Jobs == Keys \X Requests

Terminal == {"succeeded", "failed", "cancelled"}

\* "none" stands for a job with no row in the store.
States == {"none", "queued", "running"} \cup Terminal

Retained == {j \in Jobs : state[j] # "none"}
Pending  == {j \in Jobs : state[j] \in {"queued", "running"}}

KeyBound(k) == \E r \in Requests : state[<<k, r>>] # "none"

-----------------------------------------------------------------------------
Init ==
    /\ state = [j \in Jobs |-> "none"]
    /\ evidence = {}

\* A key is bound to one request for ever, and only while both budgets last.
Admit(j) ==
    /\ ~KeyBound(j[1])
    /\ Cardinality(Retained) < MaxJobs
    /\ Cardinality(Pending) < MaxPending
    /\ state' = [state EXCEPT ![j] = "queued"]
    /\ UNCHANGED evidence

Begin(j) ==
    /\ state[j] = "queued"
    /\ state' = [state EXCEPT ![j] = "running"]
    /\ UNCHANGED evidence

\* State and artifact change together.
Publish(j) ==
    /\ state[j] = "running"
    /\ state' = [state EXCEPT ![j] = "succeeded"]
    /\ evidence' = evidence \cup {j}

\* Work that is still pending can be failed or cancelled, and then stays so.
Abandon(j, end) ==
    /\ j \in Pending
    /\ state' = [state EXCEPT ![j] = end]
    /\ UNCHANGED evidence

Next ==
    \E j \in Jobs :
        \/ Admit(j)
        \/ Begin(j)
        \/ Publish(j)
        \/ Abandon(j, "failed")
        \/ Abandon(j, "cancelled")

Spec == Init /\ [][Next]_vars
=============================================================================
