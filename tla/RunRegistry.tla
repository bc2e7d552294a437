---------------------------- MODULE RunRegistry ----------------------------
(***************************************************************************)
(* The durable run registry of SignalAttice (tracking/registry.py): jobs   *)
(* are submitted once, claimed under a lease, retried while attempts       *)
(* remain, cancelled, and closed with a terminal run that links artifacts. *)
(* Any number of processes work on one SQLite database; every operation is *)
(* one BEGIN IMMEDIATE transaction, which is one action here, and one that *)
(* raises is rolled back whole, the recovery of expired leases it began    *)
(* with included, so it is no step at all.                                 *)
(*                                                                         *)
(* Time is reduced to what the registry asks of it: whether the lease of a *)
(* running job has passed (live).  A heartbeat renews a lease, so how often *)
(* one is sent does not show.  A lease's token is drawn by the claim that  *)
(* raises the attempt number, so job and attempt stand for it.             *)
(***************************************************************************)
EXTENDS ContentStore, Sequences

CONSTANTS Jobs,            \* idempotency keys, each with its one request
          Workers,         \* processes that claim work
          Priority,        \* Priority[j]: the request's priority
          MaxAttempts,     \* the request's max_attempts
          QueueCapacity,   \* RegistryLimits.queue_capacity
          RecoveryBatch,   \* RegistryLimits.recovery_batch_size
          MaxEvents,       \* RegistryLimits.max_events_per_job
          Ops              \* bound: the calls that close attempts

VARIABLES job,        \* job[j]: the row of sl_registry_jobs
          order,      \* submitted jobs, by their sequence
          hist,       \* hist[j]: the rows of sl_registry_events about j
          runs,       \* the rows of sl_registry_runs with their links
          row,        \* row[d]: metadata of d, young or past the grace period
          tomb,       \* tomb[d]: the retention tombstone of d, see Retention
          lease,      \* lease[w]: the lease worker w believes in
          call        \* call[w]: the closing call w has preflighted

jobVars == <<job, order, hist, runs, lease, call>>

NoTombstone == [state |-> "none"]

Terminal == {"succeeded", "failed", "cancelled"}
States   == {"none", "queued", "running"} \cup Terminal
Kinds    == {"submitted", "claimed", "lease_expired", "retried",
             "cancel_requested", "cancelled", "succeeded", "failed"}

Leases == [job : Jobs, attempt : 1..MaxAttempts]
Calls  == [op : Ops, links : SUBSET Digests]
Rows   == [state : States, attempt : 0..MaxAttempts, owner : Workers \cup {None},
           live : BOOLEAN, cancel : BOOLEAN]
Events == [kind : Kinds, to : States, attempt : 0..MaxAttempts,
           actor : Workers \cup {None}]
Runs   == [job : Jobs, attempt : 1..MaxAttempts, status : Terminal,
           by : Workers, links : SUBSET Digests]

ASSUME LimitsAssumption ==
    /\ MaxAttempts \in Nat \ {0}
    /\ QueueCapacity \in Nat
    /\ RecoveryBatch \in Nat \ {0}
    /\ MaxEvents \in Nat
    /\ Ops \subseteq {"complete", "acknowledge", "fail", "retry"}
    /\ Priority \in [Jobs -> Int]

ASSUME NoneAssumption == None \notin Workers \cup Leases \cup Calls

-----------------------------------------------------------------------------
Running(j) == job[j].state = "running"
Expired    == {j \in Jobs : Running(j) /\ ~job[j].live}

Event(kind, to, attempt, actor) ==
    [kind |-> kind, to |-> to, attempt |-> attempt, actor |-> actor]

\* _event: the transaction fails when a job's history is full.
WithinCeiling(h) == \A j \in Jobs : Len(h[j]) <= MaxEvents

\* j comes before k in the registry's sequence.
Before(j, k) ==
    \E m, n \in DOMAIN order : order[m] = j /\ order[n] = k /\ m < n

\* The first n members of S by sequence.
Oldest(S, n) == {j \in S : Cardinality({k \in S : Before(k, j)}) < n}

(***************************************************************************)
(* _recover_expired: at most a batch of expired leases is resolved, the    *)
(* prioritised job first.                                                  *)
(***************************************************************************)
Batch(first) ==
    LET target == first \cap Expired
    IN  target \cup Oldest(Expired \ target, RecoveryBatch - Cardinality(target))

AfterExpiry(r) ==
    IF r.cancel THEN "cancelled"
    ELSE IF r.attempt >= MaxAttempts THEN "failed" ELSE "queued"

Released(r, to) == [r EXCEPT !.state = to, !.owner = None, !.live = FALSE]

RecoveredJobs(first) ==
    [j \in Jobs |-> IF j \in Batch(first)
                    THEN Released(job[j], AfterExpiry(job[j])) ELSE job[j]]

RecoveredHist(first) ==
    [j \in Jobs |->
        IF j \in Batch(first)
        THEN Append(hist[j], Event("lease_expired", AfterExpiry(job[j]),
                                   job[j].attempt, None))
        ELSE hist[j]]

\* No tombstone is pending: work and deletion exclude each other.
Pending == {d \in Digests : tomb[d].state = "pending"}

-----------------------------------------------------------------------------
RegistryInit ==
    /\ job = [j \in Jobs |-> [state |-> "none", attempt |-> 0, owner |-> None,
                              live |-> FALSE, cancel |-> FALSE]]
    /\ order = <<>>
    /\ hist = [j \in Jobs |-> <<>>]
    /\ runs = {}
    /\ lease = [w \in Workers |-> None]
    /\ call = [w \in Workers |-> None]
    /\ row = [d \in Digests |-> "none"]

\* submit: a key already bound returns the job it names.
Submit(j) ==
    /\ job[j].state = "none"
    /\ Cardinality({k \in Jobs : job[k].state \in {"queued", "running"}}) < QueueCapacity
    /\ job' = [job EXCEPT ![j].state = "queued"]
    /\ order' = Append(order, j)
    /\ hist' = [hist EXCEPT ![j] = <<Event("submitted", "queued", 0, None)>>]
    /\ WithinCeiling(hist')
    /\ UNCHANGED <<runs, lease, call>>

\* The queued job of the highest priority, the oldest among equals.
NextQueued(rows, j) ==
    /\ rows[j].state = "queued"
    /\ \A k \in Jobs \ {j} :
          rows[k].state = "queued" =>
             \/ Priority[j] > Priority[k]
             \/ Priority[j] = Priority[k] /\ Before(j, k)

\* claim
Claim(w) ==
    /\ lease[w] = None
    /\ Pending = {}
    /\ LET rows == RecoveredJobs({})
       IN  \E j \in Jobs :
             /\ NextQueued(rows, j)
             /\ LET n == rows[j].attempt + 1
                IN  /\ job' = [rows EXCEPT ![j] =
                                 [@ EXCEPT !.state = "running", !.attempt = n,
                                           !.owner = w, !.live = TRUE]]
                    /\ hist' = [RecoveredHist({}) EXCEPT ![j] =
                                  Append(@, Event("claimed", "running", n, w))]
                    /\ lease' = [lease EXCEPT ![w] = [job |-> j, attempt |-> n]]
    /\ WithinCeiling(hist')
    /\ UNCHANGED <<order, runs, call>>

\* recover_expired, and a claim that finds nothing queued.
RecoverExpired ==
    /\ Expired # {}
    /\ job' = RecoveredJobs({})
    /\ hist' = RecoveredHist({})
    /\ WithinCeiling(hist')
    /\ UNCHANGED <<order, runs, lease, call>>

\* Mutant: whoever holds some lease of the job owns it.
Owned_AnyLease(w, rows) ==
    /\ lease[w] # None
    /\ rows[lease[w].job].state = "running"
    /\ rows[lease[w].job].live

\* _owned_running: the lease is that of the current attempt and has not passed.
Owned(w, rows) ==
    /\ lease[w] # None
    /\ LET r == rows[lease[w].job]
       IN  /\ r.state = "running"
           /\ r.live
           /\ r.owner = w
           /\ r.attempt = lease[w].attempt

\* heartbeat: the lease stays live; others' expired leases are recovered.
Heartbeat(w) ==
    /\ Owned(w, RecoveredJobs({}))
    /\ Expired # {}
    /\ job' = RecoveredJobs({})
    /\ hist' = RecoveredHist({})
    /\ WithinCeiling(hist')
    /\ UNCHANGED <<order, runs, lease, call>>

\* Mutant: a request that was made already is recorded again.
TooLate_Repeats(r) == r.state \in Terminal

TooLate(r) == r.state \in Terminal \/ r.cancel

\* request_cancel: queued work ends at once, running work is asked to; when there
\* is nothing left to cancel the recovery that went before is kept.
RequestCancel(j) ==
    LET rows == RecoveredJobs({j})
        past == RecoveredHist({j})
        asked == Event("cancel_requested", rows[j].state, rows[j].attempt, None)
        ended == Event("cancelled", "cancelled", rows[j].attempt, None)
        late == TooLate(rows[j])
    IN  /\ job[j].state # "none"
        /\ \/ /\ late
              /\ job' = rows
              /\ hist' = past
           \/ /\ ~late
              /\ rows[j].state = "queued"
              /\ job' = [rows EXCEPT ![j].cancel = TRUE, ![j].state = "cancelled"]
              /\ hist' = [past EXCEPT ![j] = @ \o <<asked, ended>>]
           \/ /\ ~late
              /\ rows[j].state = "running"
              /\ job' = [rows EXCEPT ![j].cancel = TRUE]
              /\ hist' = [past EXCEPT ![j] = Append(@, asked)]
        /\ WithinCeiling(hist')
        /\ UNCHANGED <<order, runs, lease, call>>

(***************************************************************************)
(* complete, acknowledge_cancel and fail first verify the linked artifacts *)
(* outside any transaction (_preflight_terminal_artifacts), ...            *)
(***************************************************************************)
Linkable(d) == row[d] # "none" /\ tomb[d].state = "none"

Preflight(w, op, links) ==
    /\ lease[w] # None
    /\ call[w] = None
    /\ \A d \in links : Linkable(d) /\ Verified(d)
    /\ call' = [call EXCEPT ![w] = [op |-> op, links |-> links]]
    /\ UNCHANGED <<job, order, hist, runs, lease>>

\* ... then close the attempt in one: the run, its links, the row, the event.
Outcome(op, r) ==
    CASE op = "complete"                -> "succeeded"
      [] op = "acknowledge" \/ r.cancel -> "cancelled"
      [] OTHER                          -> "failed"

Allowed(op, r) == CASE op = "complete"    -> ~r.cancel
                    [] op = "acknowledge" -> r.cancel
                    [] OTHER              -> TRUE

Requeues(op, r) == op = "retry" /\ ~r.cancel /\ r.attempt < MaxAttempts

\* _current_attempt_claimed_at: one claim event, by the owner of the lease.
ClaimedOnce(j, r) ==
    \E n \in DOMAIN hist[j] :
        /\ hist[j][n] = Event("claimed", "running", r.attempt, r.owner)
        /\ \A m \in DOMAIN hist[j] \ {n} :
              ~(hist[j][m].kind = "claimed" /\ hist[j][m].attempt = r.attempt)

CloseAttempt(w) ==
    LET rows == RecoveredJobs({})
        j == lease[w].job
        r == rows[j]
        op == call[w].op
        status == Outcome(op, r)
        kind == IF Requeues(op, r) THEN "retried" ELSE status
        to == IF Requeues(op, r) THEN "queued" ELSE status
    IN  /\ call[w] # None
        /\ Owned(w, rows)
        /\ Allowed(op, r)
        /\ \A d \in call[w].links : Linkable(d)
        /\ ClaimedOnce(j, r)
        /\ \A run \in runs : ~(run.job = j /\ run.attempt = r.attempt)
        /\ runs' = runs \cup {[job |-> j, attempt |-> r.attempt, status |-> status,
                               by |-> w, links |-> call[w].links]}
        /\ job' = [rows EXCEPT ![j] = Released(r, to)]
        /\ hist' = [RecoveredHist({}) EXCEPT ![j] =
                      Append(@, Event(kind, to, r.attempt, w))]
        /\ WithinCeiling(hist')
        /\ lease' = [lease EXCEPT ![w] = None]
        /\ call' = [call EXCEPT ![w] = None]
        /\ UNCHANGED order

\* A call that raises (lease lost, links refused) may be tried again or not.
CallFails(w) ==
    /\ call[w] # None
    /\ call' = [call EXCEPT ![w] = None]
    /\ UNCHANGED <<job, order, hist, runs, lease>>

\* A worker dies or gives up: the registry hears nothing.
WorkerStops(w) ==
    /\ lease[w] # None
    /\ lease' = [lease EXCEPT ![w] = None]
    /\ call' = [call EXCEPT ![w] = None]
    /\ UNCHANGED <<job, order, hist, runs>>

\* The instant of a running job's lease passes.
Expire(j) ==
    /\ Running(j) /\ job[j].live
    /\ job' = [job EXCEPT ![j].live = FALSE]
    /\ UNCHANGED <<order, hist, runs, lease, call>>

\* register_artifact, after the preflight: the first registration of a digest stays.
RegisterArtifact(p) ==
    /\ Phase(p, "checked")
    /\ row' = [row EXCEPT ![pub[p].digest] = IF @ = "none" THEN "young" ELSE @]
    /\ pub' = [pub EXCEPT ![p] = None]
    /\ UNCHANGED <<jobVars, file>>

\* The grace period of a registration passes.
AgeRow(d) ==
    /\ row[d] = "young"
    /\ row' = [row EXCEPT ![d] = "old"]
    /\ UNCHANGED <<jobVars, storeVars>>

JobNext ==
    \/ RecoverExpired
    \/ \E j \in Jobs : Submit(j) \/ RequestCancel(j) \/ Expire(j)
    \/ \E w \in Workers :
          \/ Claim(w) \/ Heartbeat(w) \/ CloseAttempt(w) \/ CallFails(w)
          \/ WorkerStops(w)
          \/ \E c \in Calls : Preflight(w, c.op, c.links)

\* Jobs, and the store they publish to; tombstones are Retention's alone.
RegistryNext ==
    /\ \/ JobNext /\ UNCHANGED <<row, storeVars>>
       \/ StoreNext /\ UNCHANGED <<jobVars, row>>
       \/ \E p \in Publishers : RegisterArtifact(p)
       \/ \E d \in Digests : AgeRow(d)
    /\ UNCHANGED tomb

-----------------------------------------------------------------------------
(***************************************************************************)
(* What readiness demands of every job: _verify_job_lifecycle replays its  *)
(* events and compares them with its row and its runs.  An event's         *)
(* from_state is where the previous event led.                             *)
(***************************************************************************)
CancelSeen(h, n) == \E m \in 1..(n - 1) : h[m].kind = "cancel_requested"

Claimant(h, n) ==
    LET claims == {m \in 1..(n - 1) : h[m].kind = "claimed"}
    IN  h[CHOOSE m \in claims : \A k \in claims : k <= m].actor

LegalEvent(h, n) ==
    LET e == h[n]
        from == h[n - 1].to
        attempt == h[n - 1].attempt
        byOwner == from = "running" /\ e.attempt = attempt /\ e.actor = Claimant(h, n)
    IN  CASE e.kind = "submitted" ->
               n = 1 /\ e.to = "queued" /\ e.attempt = 0
          [] e.kind = "claimed" ->
               /\ n > 1 /\ from = "queued" /\ e.to = "running"
               /\ e.attempt = attempt + 1 /\ e.attempt <= MaxAttempts
          [] e.kind = "cancel_requested" ->
               /\ n > 1 /\ from \in {"queued", "running"} /\ e.to = from
               /\ e.attempt = attempt /\ ~CancelSeen(h, n)
          [] e.kind = "retried" ->
               n > 1 /\ byOwner /\ e.to = "queued" /\ ~CancelSeen(h, n)
          [] e.kind = "lease_expired" ->
               /\ n > 1 /\ from = "running" /\ e.attempt = attempt /\ e.actor = None
               /\ e.to = IF CancelSeen(h, n) THEN "cancelled"
                         ELSE IF e.attempt >= MaxAttempts THEN "failed" ELSE "queued"
          [] e.kind = "cancelled" ->
               /\ n > 1 /\ CancelSeen(h, n) /\ e.to = "cancelled" /\ e.attempt = attempt
               /\ byOwner \/ (from = "queued" /\ e.actor = None)
          [] OTHER ->
               n > 1 /\ byOwner /\ e.to = e.kind /\ ~CancelSeen(h, n)

\* The row is what the replay ends in.
RowReplays(j) ==
    LET h == hist[j]
        last == h[Len(h)]
    IN  IF h = <<>> THEN job[j].state = "none"
        ELSE /\ job[j].state = last.to
             /\ job[j].attempt = last.attempt
             /\ job[j].cancel = CancelSeen(h, Len(h) + 1)
             /\ job[j].cancel => job[j].state \in {"running", "cancelled"}
             /\ job[j].owner = IF Running(j) THEN Claimant(h, Len(h) + 1) ELSE None

\* The runs are the attempts that a worker closed, each with the status it closed with.
Closures(h) ==
    {n \in 2..Len(h) : /\ h[n].kind \in {"retried", "cancelled", "succeeded", "failed"}
                       /\ h[n - 1].to = "running"}

RunsMatch(j) ==
    {<<run.attempt, run.status, run.by>> : run \in {r \in runs : r.job = j}} =
        {<<hist[j][n].attempt,
           IF hist[j][n].kind = "retried" THEN "failed" ELSE hist[j][n].kind,
           hist[j][n].actor>> : n \in Closures(hist[j])}

-----------------------------------------------------------------------------
\* Alone, the registry sees no retention.
RegistryStart ==
    RegistryInit /\ StoreInit /\ tomb = [d \in Digests |-> NoTombstone]

RegistryAlone == RegistryStart /\ [][RegistryNext]_<<jobVars, row, tomb, storeVars>>

RegistryTypeOK ==
    /\ job \in [Jobs -> Rows]
    /\ order \in Seq(Jobs)
    /\ hist \in [Jobs -> Seq(Events)]
    /\ runs \subseteq Runs
    /\ lease \in [Workers -> Leases \cup {None}]
    /\ call \in [Workers -> Calls \cup {None}]
    /\ row \in [Digests -> {"none", "young", "old"}]

\* Whatever workers, cancellations and expiries interleave, and whatever was rolled
\* back, the independent replay of the lifecycle accepts every job: readiness never
\* fails because of a legal history (migrations.py, _verify_job_lifecycle).
ReadinessHolds ==
    \A j \in Jobs :
        /\ \A n \in DOMAIN hist[j] : LegalEvent(hist[j], n)
        /\ RowReplays(j)
        /\ RunsMatch(j)

\* With room for two events an attempt, the submission and a cancellation, the event
\* ceiling never keeps a running job from ending.  Without that room a job at its
\* ceiling makes every transaction fail that recovers expired leases.
EventRoom ==
    MaxEvents >= 2 * MaxAttempts + 2 =>
        \A j \in Jobs : Running(j) => Len(hist[j]) < MaxEvents
=============================================================================
