---------------------------- MODULE RegistryProofs ----------------------------
(***************************************************************************)
(* The run registry, and the retention of the content that its runs link,  *)
(* for any number of jobs, workers, publishers, operators, digests and     *)
(* generations, and every limit.                                           *)
(*                                                                         *)
(* The registry: types, room in every history for the event that ends it,  *)
(* and that readiness, which replays every history, finds nothing to       *)
(* refuse.  A queued or running job has used up at most two events an      *)
(* attempt, the submission and the request to cancel; a job fits its       *)
(* history when this holds, and a step replaces the row and history of a   *)
(* job by ones that fit again.                                             *)
(*                                                                         *)
(* Retention: bytes go after the intent to delete them and never while a   *)
(* run links them, work and deletion exclude each other, and a finalised   *)
(* tombstone speaks of bytes that are gone.  Between the preflight of a    *)
(* closing call and its transaction the attempt stays the running one (a   *)
(* lease is older than every later attempt), so nothing is pending and     *)
(* nothing is unlinked; afterwards the link itself keeps the digest out of *)
(* every plan.                                                             *)
(***************************************************************************)
EXTENDS Retention, TLAPS

JobFits(r, h) ==
    /\ r \in Rows
    /\ h \in Seq(Events)
    /\ r.state \in {"none", "queued"} => r.attempt < MaxAttempts /\ ~r.cancel
    /\ r.state = "none" => r.attempt = 0
    /\ r.state = "queued" => Len(h) <= 2 * r.attempt + 1
    /\ r.state = "running" =>
          Len(h) <= 2 * r.attempt + 1 /\ (~r.cancel => Len(h) <= 2 * r.attempt)

\* A call is made under a lease.
JobInv ==
    /\ RegistryTypeOK
    /\ \A j \in Jobs : JobFits(job[j], hist[j])
    /\ \A w \in Workers : call[w] # None => lease[w] # None

-----------------------------------------------------------------------------
(* One event appended to one job.                                          *)

\* The events that operations make up are events.
LEMMA EventType ==
  ASSUME NEW kind \in Kinds, NEW to \in States, NEW attempt \in 0..MaxAttempts,
         NEW actor \in Workers \cup {None}
  PROVE  Event(kind, to, attempt, actor) \in Events
  BY DEF Event, Events

\* A history with one more event.
LEMMA AppendEvent ==
  ASSUME NEW h \in Seq(Events), NEW e \in Events
  PROVE  Append(h, e) \in Seq(Events) /\ Len(Append(h, e)) = Len(h) + 1
         /\ Len(h) \in Nat
  OBVIOUS

\* A lease that has passed leaves a job that fits.
LEMMA ExpiryFits ==
  ASSUME NEW r, NEW h, JobFits(r, h), r.state = "running"
  PROVE  JobFits(Released(r, AfterExpiry(r)),
                 Append(h, Event("lease_expired", AfterExpiry(r), r.attempt, None)))
  <1> DEFINE to == AfterExpiry(r)
  <1> DEFINE e == Event("lease_expired", to, r.attempt, None)
  <1>1. r \in Rows /\ r.attempt \in 0..MaxAttempts
    BY DEF JobFits, Rows
  <1>2. to \in {"queued", "failed", "cancelled"} /\ to \in States
    BY DEF AfterExpiry, States, Terminal
  <1>3. to = "queued" => ~r.cancel /\ r.attempt < MaxAttempts
    BY <1>1, LimitsAssumption DEF AfterExpiry
  <1>4. e \in Events
    BY <1>1, <1>2, EventType DEF Kinds
  <1>5. Append(h, e) \in Seq(Events) /\ Len(Append(h, e)) = Len(h) + 1 /\ Len(h) \in Nat
    BY <1>4, AppendEvent DEF JobFits
  <1>6. Released(r, to) \in Rows
    BY <1>1, <1>2 DEF Released, Rows
  <1>7. /\ Released(r, to).state = to
        /\ Released(r, to).attempt = r.attempt
        /\ Released(r, to).cancel = r.cancel
    BY <1>1 DEF Released, Rows
  <1> HIDE DEF to, e
  <1> QED
    BY <1>1, <1>2, <1>3, <1>5, <1>6, <1>7 DEF JobFits, to, e

\* Recovery leaves jobs that fit, and none running that was not.
LEMMA RecoveryFits ==
  ASSUME JobInv, NEW first \in SUBSET Jobs
  PROVE  /\ RecoveredJobs(first) \in [Jobs -> Rows]
         /\ RecoveredHist(first) \in [Jobs -> Seq(Events)]
         /\ \A j \in Jobs :
               /\ JobFits(RecoveredJobs(first)[j], RecoveredHist(first)[j])
               /\ RecoveredJobs(first)[j].attempt = job[j].attempt
               /\ \/ /\ RecoveredJobs(first)[j] = job[j]
                     /\ RecoveredHist(first)[j] = hist[j]
                  \/ RecoveredJobs(first)[j].state # "running"
  <1>1. Batch(first) \subseteq Expired
    BY DEF Batch, Oldest
  <1>2. ASSUME NEW j \in Jobs
        PROVE  /\ JobFits(RecoveredJobs(first)[j], RecoveredHist(first)[j])
               /\ RecoveredJobs(first)[j].attempt = job[j].attempt
               /\ \/ /\ RecoveredJobs(first)[j] = job[j]
                     /\ RecoveredHist(first)[j] = hist[j]
                  \/ RecoveredJobs(first)[j].state # "running"
    <2>1. CASE j \in Batch(first)
      <3>1. job[j].state = "running" /\ JobFits(job[j], hist[j])
        BY <1>1, <2>1 DEF Expired, Running, JobInv
      <3>2. /\ RecoveredJobs(first)[j] = Released(job[j], AfterExpiry(job[j]))
            /\ RecoveredHist(first)[j] =
                 Append(hist[j], Event("lease_expired", AfterExpiry(job[j]),
                                       job[j].attempt, None))
        BY <2>1 DEF RecoveredJobs, RecoveredHist
      <3>3. /\ Released(job[j], AfterExpiry(job[j])).state # "running"
            /\ Released(job[j], AfterExpiry(job[j])).attempt = job[j].attempt
        BY <3>1 DEF Released, AfterExpiry, JobFits, Rows
      <3> QED
        BY <3>1, <3>2, <3>3, ExpiryFits
    <2>2. CASE j \notin Batch(first)
      BY <2>2 DEF RecoveredJobs, RecoveredHist, JobInv
    <2> QED
      BY <2>1, <2>2
  <1>3. /\ DOMAIN RecoveredJobs(first) = Jobs
        /\ DOMAIN RecoveredHist(first) = Jobs
        /\ RecoveredJobs(first) = [j \in Jobs |-> RecoveredJobs(first)[j]]
        /\ RecoveredHist(first) = [j \in Jobs |-> RecoveredHist(first)[j]]
    BY DEF RecoveredJobs, RecoveredHist
  <1>4. \A j \in Jobs : /\ RecoveredJobs(first)[j] \in Rows
                        /\ RecoveredHist(first)[j] \in Seq(Events)
    BY <1>2 DEF JobFits
  <1> QED
    BY <1>2, <1>3, <1>4

-----------------------------------------------------------------------------
(* The initial state and the steps.                                        *)

\* The initial rows fit their empty histories.
LEMMA RegistryInitFits == RegistryInit => JobInv
  <1> SUFFICES ASSUME RegistryInit PROVE JobInv
    OBVIOUS
  <1>1. [state |-> "none", attempt |-> 0, owner |-> None, live |-> FALSE,
         cancel |-> FALSE] \in Rows
    BY LimitsAssumption DEF Rows, States
  <1>2. RegistryTypeOK
    BY <1>1 DEF RegistryInit, RegistryTypeOK
  <1>3. ASSUME NEW j \in Jobs PROVE JobFits(job[j], hist[j])
    BY <1>1, LimitsAssumption DEF RegistryInit, JobFits
  <1> QED
    BY <1>2, <1>3 DEF JobInv, RegistryInit

\* One job gets a row and a history that fit.
LEMMA OneJobFits ==
  ASSUME NEW rows \in [Jobs -> Rows], NEW past \in [Jobs -> Seq(Events)],
         \A j \in Jobs : JobFits(rows[j], past[j]),
         NEW j \in Jobs, NEW r, NEW h, JobFits(r, h)
  PROVE  /\ [rows EXCEPT ![j] = r] \in [Jobs -> Rows]
         /\ [past EXCEPT ![j] = h] \in [Jobs -> Seq(Events)]
         /\ \A k \in Jobs : JobFits([rows EXCEPT ![j] = r][k], [past EXCEPT ![j] = h][k])
  <1>1. r \in Rows /\ h \in Seq(Events)
    BY DEF JobFits
  <1>2. ASSUME NEW k \in Jobs
        PROVE  JobFits([rows EXCEPT ![j] = r][k], [past EXCEPT ![j] = h][k])
    BY k = j \/ k # j
  <1> QED
    BY <1>1, <1>2

\* Rows and histories that fit are all a step has to give.
LEMMA InvOfParts ==
  ASSUME NEW rows \in [Jobs -> Rows], NEW past \in [Jobs -> Seq(Events)],
         \A j \in Jobs : JobFits(rows[j], past[j]),
         job' = rows, hist' = past, JobInv,
         order' \in Seq(Jobs), runs' \subseteq Runs,
         lease' \in [Workers -> Leases \cup {None}],
         call' \in [Workers -> Calls \cup {None}],
         row' \in [Digests -> {"none", "young", "old"}],
         \A w \in Workers : call'[w] # None => lease'[w] # None
  PROVE  JobInv'
  BY DEF JobInv, RegistryTypeOK

\* A submitted row fits the event that says so.
LEMMA SubmitFits ==
  ASSUME JobInv, NEW j \in Jobs, Submit(j), UNCHANGED row
  PROVE  JobInv'
  <1> DEFINE r == [job[j] EXCEPT !.state = "queued"]
  <1> DEFINE h == <<Event("submitted", "queued", 0, None)>>
  <1>1. JobFits(job[j], hist[j]) /\ job[j].state = "none"
    BY DEF JobInv, Submit
  <1>2. h \in Seq(Events) /\ Len(h) = 1
    <2>1. Event("submitted", "queued", 0, None) \in Events
      BY LimitsAssumption, EventType DEF Kinds, States
    <2> QED
      BY <2>1
  <1>3. JobFits(r, h)
    BY <1>1, <1>2 DEF JobFits, Rows, States
  <1>4. job' = [job EXCEPT ![j] = r] /\ hist' = [hist EXCEPT ![j] = h]
    BY DEF Submit, JobInv, RegistryTypeOK
  <1> HIDE DEF r, h
  <1>5. order' \in Seq(Jobs)
    BY DEF Submit, JobInv, RegistryTypeOK
  <1>6. /\ [job EXCEPT ![j] = r] \in [Jobs -> Rows]
        /\ [hist EXCEPT ![j] = h] \in [Jobs -> Seq(Events)]
        /\ \A k \in Jobs : JobFits([job EXCEPT ![j] = r][k], [hist EXCEPT ![j] = h][k])
    BY <1>3, OneJobFits DEF JobInv, RegistryTypeOK
  <1> QED
    BY <1>4, <1>5, <1>6, InvOfParts DEF Submit, JobInv, RegistryTypeOK

\* A queued job that is claimed: one event more, and one attempt.
LEMMA ClaimFits ==
  ASSUME NEW r, NEW h, JobFits(r, h), r.state = "queued", NEW w \in Workers
  PROVE  LET n == r.attempt + 1
         IN  /\ n \in 1..MaxAttempts
             /\ JobFits([r EXCEPT !.state = "running", !.attempt = n,
                                  !.owner = w, !.live = TRUE],
                        Append(h, Event("claimed", "running", n, w)))
  <1> DEFINE n == r.attempt + 1
  <1> DEFINE e == Event("claimed", "running", n, w)
  <1>1. r \in Rows /\ r.attempt \in 0..MaxAttempts /\ n \in 1..MaxAttempts
        /\ n \in 0..MaxAttempts
    BY LimitsAssumption DEF JobFits, Rows
  <1>2. e \in Events
    BY <1>1, EventType DEF Kinds, States
  <1>3. Append(h, e) \in Seq(Events) /\ Len(Append(h, e)) = Len(h) + 1 /\ Len(h) \in Nat
    BY <1>2, AppendEvent DEF JobFits
  <1> HIDE DEF e
  <1> DEFINE q == [r EXCEPT !.state = "running", !.attempt = n, !.owner = w, !.live = TRUE]
  <1>5. q \in Rows /\ q.state = "running" /\ q.attempt = n /\ q.cancel = r.cancel
    BY <1>1 DEF Rows, States
  <1>6. ~r.cancel /\ Len(h) <= 2 * r.attempt + 1
    BY DEF JobFits
  <1> HIDE DEF q
  <1>7. n \in Nat /\ Len(Append(h, e)) \in Nat /\ Len(Append(h, e)) <= 2 * n
    BY <1>1, <1>3, <1>6, LimitsAssumption
  <1> HIDE DEF n
  <1>4. JobFits(q, Append(h, e))
    BY <1>3, <1>5, <1>6, <1>7 DEF JobFits
  <1> QED
    BY <1>1, <1>4 DEF e, q, n

\* A claim, after the recovery in its transaction.
LEMMA ClaimStep ==
  ASSUME JobInv, NEW w \in Workers, Claim(w), UNCHANGED row
  PROVE  JobInv'
  <1> DEFINE rows == RecoveredJobs({})
  <1> DEFINE past == RecoveredHist({})
  <1>1. PICK j \in Jobs :
           LET n == rows[j].attempt + 1
           IN  /\ NextQueued(rows, j)
               /\ job' = [rows EXCEPT ![j] =
                            [@ EXCEPT !.state = "running", !.attempt = n,
                                      !.owner = w, !.live = TRUE]]
               /\ hist' = [past EXCEPT ![j] =
                             Append(@, Event("claimed", "running", n, w))]
               /\ lease' = [lease EXCEPT ![w] = [job |-> j, attempt |-> n]]
    BY DEF Claim
  <1> DEFINE n == rows[j].attempt + 1
  <1> DEFINE r == [rows[j] EXCEPT !.state = "running", !.attempt = n,
                                  !.owner = w, !.live = TRUE]
  <1> DEFINE h == Append(past[j], Event("claimed", "running", n, w))
  <1>2. /\ rows \in [Jobs -> Rows] /\ past \in [Jobs -> Seq(Events)]
        /\ \A k \in Jobs : JobFits(rows[k], past[k])
    BY RecoveryFits
  <1>3. rows[j].state = "queued"
    BY <1>1 DEF NextQueued
  <1> HIDE DEF rows, past
  <1>4. n \in 1..MaxAttempts /\ JobFits(r, h)
    BY <1>2, <1>3, ClaimFits
  <1>5. job' = [rows EXCEPT ![j] = r] /\ hist' = [past EXCEPT ![j] = h]
        /\ lease' = [lease EXCEPT ![w] = [job |-> j, attempt |-> n]]
    BY <1>1, <1>2
  <1> HIDE DEF r, h, n
  <1>6. [job |-> j, attempt |-> n] \in Leases
    BY <1>4 DEF Leases
  <1>7. lease' \in [Workers -> Leases \cup {None}]
    BY <1>5, <1>6 DEF JobInv, RegistryTypeOK
  <1>8. lease[w] = None /\ UNCHANGED <<order, runs, call>>
    BY DEF Claim
  <1>9. \A v \in Workers : call'[v] # None => lease'[v] # None
    BY <1>5, <1>8 DEF JobInv, RegistryTypeOK
  <1>10. /\ [rows EXCEPT ![j] = r] \in [Jobs -> Rows]
         /\ [past EXCEPT ![j] = h] \in [Jobs -> Seq(Events)]
         /\ \A k \in Jobs : JobFits([rows EXCEPT ![j] = r][k], [past EXCEPT ![j] = h][k])
    BY <1>2, <1>4, OneJobFits
  <1> QED
    BY <1>5, <1>7, <1>8, <1>9, <1>10, InvOfParts DEF JobInv, RegistryTypeOK

\* Recovery alone, in whatever call.
LEMMA RecoveryStep ==
  ASSUME JobInv, NEW first \in SUBSET Jobs,
         job' = RecoveredJobs(first), hist' = RecoveredHist(first),
         UNCHANGED <<order, runs, lease, call, row>>
  PROVE  JobInv'
  <1>1. /\ RecoveredJobs(first) \in [Jobs -> Rows]
        /\ RecoveredHist(first) \in [Jobs -> Seq(Events)]
        /\ \A j \in Jobs : JobFits(RecoveredJobs(first)[j], RecoveredHist(first)[j])
    BY RecoveryFits
  <1> QED
    BY <1>1, InvOfParts DEF JobInv, RegistryTypeOK

\* A cancellation, after the recovery in its transaction.
LEMMA CancelStep ==
  ASSUME JobInv, NEW j \in Jobs, RequestCancel(j), UNCHANGED row
  PROVE  JobInv'
  <1> DEFINE rows == RecoveredJobs({j})
  <1> DEFINE past == RecoveredHist({j})
  <1> DEFINE asked == Event("cancel_requested", rows[j].state, rows[j].attempt, None)
  <1> DEFINE ended == Event("cancelled", "cancelled", rows[j].attempt, None)
  <1>1. /\ rows \in [Jobs -> Rows] /\ past \in [Jobs -> Seq(Events)]
        /\ \A k \in Jobs : JobFits(rows[k], past[k])
    BY RecoveryFits
  <1>2. rows[j] \in Rows /\ past[j] \in Seq(Events) /\ JobFits(rows[j], past[j])
    BY <1>1
  <1>3. asked \in Events /\ ended \in Events
    <2>1. rows[j].state \in States /\ rows[j].attempt \in 0..MaxAttempts
      BY <1>2 DEF Rows
    <2>2. "cancelled" \in States /\ "cancelled" \in Kinds /\ "cancel_requested" \in Kinds
      BY DEF States, Terminal, Kinds
    <2> QED
      BY <2>1, <2>2, EventType
  <1>4. \/ job' = rows /\ hist' = past
        \/ /\ ~TooLate(rows[j]) /\ rows[j].state = "queued"
           /\ job' = [rows EXCEPT ![j].cancel = TRUE, ![j].state = "cancelled"]
           /\ hist' = [past EXCEPT ![j] = @ \o <<asked, ended>>]
        \/ /\ ~TooLate(rows[j]) /\ rows[j].state = "running"
           /\ job' = [rows EXCEPT ![j].cancel = TRUE]
           /\ hist' = [past EXCEPT ![j] = Append(@, asked)]
    BY DEF RequestCancel
  <1>5. UNCHANGED <<order, runs, lease, call>>
    BY DEF RequestCancel
  <1>6. CASE job' = rows /\ hist' = past
    BY <1>5, <1>6, RecoveryStep
  <1> HIDE DEF rows, past, asked, ended
  <1>7. ASSUME NEW r, NEW h, JobFits(r, h),
               job' = [rows EXCEPT ![j] = r], hist' = [past EXCEPT ![j] = h]
        PROVE  JobInv'
    <2>1. /\ [rows EXCEPT ![j] = r] \in [Jobs -> Rows]
          /\ [past EXCEPT ![j] = h] \in [Jobs -> Seq(Events)]
          /\ \A k \in Jobs : JobFits([rows EXCEPT ![j] = r][k], [past EXCEPT ![j] = h][k])
      BY <1>1, <1>7, OneJobFits
    <2> QED
      BY <1>5, <1>7, <2>1, InvOfParts DEF JobInv, RegistryTypeOK
  <1>8. CASE /\ rows[j].state = "queued"
             /\ job' = [rows EXCEPT ![j].cancel = TRUE, ![j].state = "cancelled"]
             /\ hist' = [past EXCEPT ![j] = @ \o <<asked, ended>>]
    <2> DEFINE r == [rows[j] EXCEPT !.cancel = TRUE, !.state = "cancelled"]
    <2> DEFINE h == past[j] \o <<asked, ended>>
    <2>1. h \in Seq(Events)
      BY <1>2, <1>3
    <2>2. JobFits(r, h)
      BY <1>2, <2>1 DEF JobFits, Rows, States, Terminal
    <2>3. job' = [rows EXCEPT ![j] = r] /\ hist' = [past EXCEPT ![j] = h]
      BY <1>1, <1>8
    <2> QED
      BY <1>7, <2>2, <2>3
  <1>9. CASE /\ ~TooLate(rows[j]) /\ rows[j].state = "running"
             /\ job' = [rows EXCEPT ![j].cancel = TRUE]
             /\ hist' = [past EXCEPT ![j] = Append(@, asked)]
    <2> DEFINE r == [rows[j] EXCEPT !.cancel = TRUE]
    <2> DEFINE h == Append(past[j], asked)
    <2>1. h \in Seq(Events) /\ Len(h) = Len(past[j]) + 1 /\ Len(past[j]) \in Nat
      BY <1>2, <1>3
    <2>4. r \in Rows /\ r.state = "running" /\ r.cancel = TRUE /\ r.attempt = rows[j].attempt
      BY <1>2, <1>9 DEF Rows
    <2>5. Len(past[j]) <= 2 * rows[j].attempt
      BY <1>2, <1>9 DEF JobFits, TooLate
    <2>6. rows[j].attempt \in Nat
      BY <1>2, LimitsAssumption DEF Rows
    <2> HIDE DEF r, h
    <2>2. JobFits(r, h)
      BY <2>1, <2>4, <2>5, <2>6 DEF JobFits
    <2> USE DEF r, h
    <2>3. job' = [rows EXCEPT ![j] = r] /\ hist' = [past EXCEPT ![j] = h]
      BY <1>1, <1>9
    <2> QED
      BY <1>7, <2>2, <2>3
  <1> QED
    BY <1>4, <1>6, <1>8, <1>9

\* An attempt that its owner closes.
LEMMA ClosingFits ==
  ASSUME NEW r, NEW h, JobFits(r, h), r.state = "running",
         NEW op \in Ops, Allowed(op, r), NEW w \in Workers
  PROVE  LET status == Outcome(op, r)
             kind == IF Requeues(op, r) THEN "retried" ELSE status
             to == IF Requeues(op, r) THEN "queued" ELSE status
         IN  /\ status \in Terminal
             /\ JobFits(Released(r, to), Append(h, Event(kind, to, r.attempt, w)))
             /\ Released(r, to).state # "running"
  <1> DEFINE status == Outcome(op, r)
  <1> DEFINE kind == IF Requeues(op, r) THEN "retried" ELSE status
  <1> DEFINE to == IF Requeues(op, r) THEN "queued" ELSE status
  <1> DEFINE e == Event(kind, to, r.attempt, w)
  <1>1. status \in Terminal
    BY DEF Outcome, Terminal
  <1>2. /\ to = "queued" \/ to \in Terminal
        /\ to = "queued" => Requeues(op, r)
    BY <1>1 DEF Terminal
  <1>3. to \in States /\ kind \in Kinds /\ to # "running" /\ to # "none"
    BY <1>1, <1>2 DEF States, Terminal, Kinds
  <1>4. r \in Rows /\ r.attempt \in 0..MaxAttempts /\ r.attempt \in Nat /\ h \in Seq(Events)
    BY LimitsAssumption DEF JobFits, Rows
  <1>5. e \in Events
    BY <1>3, <1>4, EventType
  <1>6. to = "queued" => ~r.cancel /\ r.attempt < MaxAttempts
    BY <1>2 DEF Requeues
  <1> HIDE DEF status, kind, to, e
  <1>7. Append(h, e) \in Seq(Events) /\ Len(Append(h, e)) = Len(h) + 1 /\ Len(h) \in Nat
    BY <1>4, <1>5, AppendEvent
  <1>8. Released(r, to) \in Rows /\ Released(r, to).state = to
        /\ Released(r, to).attempt = r.attempt /\ Released(r, to).cancel = r.cancel
    BY <1>3, <1>4 DEF Released, Rows
  <1>9. Len(Append(h, e)) <= 2 * r.attempt + 1 \/ r.cancel
    BY <1>4, <1>7 DEF JobFits
  <1>10. JobFits(Released(r, to), Append(h, e))
    BY <1>3, <1>6, <1>7, <1>8, <1>9 DEF JobFits
  <1> QED
    BY <1>1, <1>3, <1>8, <1>10 DEF status, kind, to, e

\* The end of an attempt, after the recovery in its transaction.
LEMMA CloseStep ==
  ASSUME JobInv, NEW w \in Workers, CloseAttempt(w), UNCHANGED row
  PROVE  JobInv'
  <1> DEFINE rows == RecoveredJobs({})
  <1> DEFINE past == RecoveredHist({})
  <1> DEFINE j == lease[w].job
  <1> DEFINE r == rows[j]
  <1> DEFINE op == call[w].op
  <1> DEFINE status == Outcome(op, r)
  <1> DEFINE kind == IF Requeues(op, r) THEN "retried" ELSE status
  <1> DEFINE to == IF Requeues(op, r) THEN "queued" ELSE status
  <1> DEFINE q == Released(r, to)
  <1> DEFINE h == Append(past[j], Event(kind, to, r.attempt, w))
  <1>1. /\ rows \in [Jobs -> Rows] /\ past \in [Jobs -> Seq(Events)]
        /\ \A k \in Jobs : JobFits(rows[k], past[k])
    BY RecoveryFits
  <1>2. lease[w] \in Leases /\ call[w] \in Calls
    BY DEF CloseAttempt, Owned, JobInv, RegistryTypeOK
  <1>3. j \in Jobs /\ lease[w].attempt \in 1..MaxAttempts /\ op \in Ops
        /\ call[w].links \in SUBSET Digests
    BY <1>2 DEF Leases, Calls
  <1>4. /\ Owned(w, rows)
        /\ Allowed(op, r)
        /\ runs' = runs \cup {[job |-> j, attempt |-> r.attempt, status |-> status,
                               by |-> w, links |-> call[w].links]}
        /\ job' = [rows EXCEPT ![j] = q]
        /\ hist' = [past EXCEPT ![j] = Append(@, Event(kind, to, r.attempt, w))]
        /\ lease' = [lease EXCEPT ![w] = None]
        /\ call' = [call EXCEPT ![w] = None]
        /\ UNCHANGED order
    BY DEF CloseAttempt
  <1>5. r.state = "running" /\ r.attempt = lease[w].attempt
    BY <1>4 DEF Owned
  <1> HIDE DEF rows, past, op
  <1>6. status \in Terminal /\ JobFits(q, h)
    BY <1>1, <1>3, <1>4, <1>5, ClosingFits
  <1>7. hist' = [past EXCEPT ![j] = h]
    BY <1>1, <1>3, <1>4
  <1> HIDE DEF j, r, status, kind, to, q, h
  <1>8. [job |-> j, attempt |-> r.attempt, status |-> status, by |-> w,
         links |-> call[w].links] \in Runs
    BY <1>3, <1>5, <1>6 DEF Runs
  <1>9. runs' \subseteq Runs
    BY <1>4, <1>8 DEF JobInv, RegistryTypeOK
  <1>10. /\ [rows EXCEPT ![j] = q] \in [Jobs -> Rows]
         /\ [past EXCEPT ![j] = h] \in [Jobs -> Seq(Events)]
         /\ \A k \in Jobs : JobFits([rows EXCEPT ![j] = q][k], [past EXCEPT ![j] = h][k])
    BY <1>1, <1>3, <1>6, OneJobFits
  <1>11. /\ lease' \in [Workers -> Leases \cup {None}]
         /\ call' \in [Workers -> Calls \cup {None}]
         /\ \A v \in Workers : call'[v] # None => lease'[v] # None
    BY <1>4 DEF JobInv, RegistryTypeOK
  <1> QED
    BY <1>4, <1>7, <1>9, <1>10, <1>11, InvOfParts DEF JobInv, RegistryTypeOK

\* Every operation on jobs leaves rows that fit.
LEMMA JobStep ==
  ASSUME JobInv, JobNext, UNCHANGED row
  PROVE  JobInv'
  <1>1. CASE RecoverExpired
    BY <1>1, RecoveryStep DEF RecoverExpired
  <1>2. ASSUME NEW j \in Jobs, Expire(j) PROVE JobInv'
    <2> DEFINE r == [job[j] EXCEPT !.live = FALSE]
    <2>1. JobFits(r, hist[j])
      BY DEF JobInv, JobFits, Rows
    <2>2. job' = [job EXCEPT ![j] = r] /\ hist' = [hist EXCEPT ![j] = hist[j]]
      BY <1>2 DEF Expire, JobInv, RegistryTypeOK
    <2> HIDE DEF r
    <2>3. /\ [job EXCEPT ![j] = r] \in [Jobs -> Rows]
          /\ [hist EXCEPT ![j] = hist[j]] \in [Jobs -> Seq(Events)]
          /\ \A k \in Jobs :
                JobFits([job EXCEPT ![j] = r][k], [hist EXCEPT ![j] = hist[j]][k])
      BY <2>1, OneJobFits DEF JobInv, RegistryTypeOK
    <2> QED
      BY <1>2, <2>2, <2>3, InvOfParts DEF Expire, JobInv, RegistryTypeOK
  <1>3. ASSUME NEW w \in Workers, Heartbeat(w) PROVE JobInv'
    BY <1>3, RecoveryStep DEF Heartbeat
  <1>4. ASSUME NEW w \in Workers, CallFails(w) \/ WorkerStops(w) PROVE JobInv'
    BY <1>4 DEF CallFails, WorkerStops, JobInv, RegistryTypeOK
  <1>5. ASSUME NEW w \in Workers, NEW c \in Calls, Preflight(w, c.op, c.links) PROVE JobInv'
    <2>1. [op |-> c.op, links |-> c.links] \in Calls
      BY DEF Calls
    <2> QED
      BY <1>5, <2>1 DEF Preflight, JobInv, RegistryTypeOK
  <1> QED
    BY <1>1, <1>2, <1>3, <1>4, <1>5, SubmitFits, CancelStep, ClaimStep, CloseStep DEF JobNext

\* Every step of the registry and of the store it publishes to.
LEMMA RegistryStep ==
  ASSUME JobInv, RegistryNext \/ UNCHANGED <<jobVars, row>>
  PROVE  JobInv'
  <1>1. CASE UNCHANGED <<jobVars, row>>
    BY <1>1 DEF jobVars, JobInv, RegistryTypeOK
  <1>2. ASSUME NEW p \in Publishers, RegisterArtifact(p) PROVE JobInv'
    BY <1>2 DEF RegisterArtifact, jobVars, JobInv, RegistryTypeOK
  <1>3. ASSUME NEW d \in Digests, AgeRow(d) PROVE JobInv'
    BY <1>3 DEF AgeRow, jobVars, JobInv, RegistryTypeOK
  <1> QED
    BY <1>1, <1>2, <1>3, JobStep DEF RegistryNext

-----------------------------------------------------------------------------
\* Rows fit their histories in every reachable state.
LEMMA JobInvHolds == RegistryAlone => []JobInv
  <1>1. JobInv /\ [RegistryNext]_<<jobVars, row, tomb, storeVars>> => JobInv'
    BY RegistryStep
  <1> QED
    BY <1>1, RegistryInitFits, PTL DEF RegistryAlone, RegistryStart

\* Every row, history, run, lease and call keeps to its type.
THEOREM RegistryTypesHold == RegistryAlone => []RegistryTypeOK
  <1>1. JobInv => RegistryTypeOK
    BY DEF JobInv
  <1> QED
    BY <1>1, JobInvHolds, PTL

\* Two events an attempt and two more are enough: with so many allowed a running
\* job always has room for the event that ends it, so that no job at its ceiling
\* makes the recovery of others fail (registry.py, _event).
THEOREM RoomForTheEnd == RegistryAlone => []EventRoom
  <1>1. JobInv => EventRoom
    <2> SUFFICES ASSUME JobInv, MaxEvents >= 2 * MaxAttempts + 2,
                        NEW j \in Jobs, Running(j)
                 PROVE  Len(hist[j]) < MaxEvents
      BY DEF EventRoom
    <2>1. JobFits(job[j], hist[j]) /\ job[j].state = "running"
      BY DEF JobInv, Running
    <2>2. job[j].attempt \in Nat /\ job[j].attempt <= MaxAttempts
          /\ MaxAttempts \in Nat /\ MaxEvents \in Nat
      BY <2>1, LimitsAssumption DEF JobFits, Rows
    <2>3. Len(hist[j]) \in Nat /\ Len(hist[j]) <= 2 * job[j].attempt + 1
      BY <2>1, AppendEvent DEF JobFits
    <2> QED
      BY <2>2, <2>3
  <1> QED
    BY <1>1, JobInvHolds, PTL

-----------------------------------------------------------------------------
(***************************************************************************)
(* Readiness.  The invariant is that each job's row, history and runs are  *)
(* what the replay of the history gives: every event is legal where it     *)
(* stands, the row is where the last one leads, and the runs are what the  *)
(* closing events tell.  It needs one thing more: a claim is behind every  *)
(* event that leads to running, so that the claimant of a later event      *)
(* stays the same however the history grows.                               *)
(***************************************************************************)
\* Wherever a history leads to running, a claim is behind it and none is later.
Tracked(h) ==
    \A n \in DOMAIN h : h[n].to = "running" =>
        \E m \in 1..n : h[m].kind = "claimed" /\ \A k \in (m + 1)..n : h[k].kind # "claimed"

\* A history that the replay accepts.
Accepted(h) == Tracked(h) /\ \A n \in DOMAIN h : LegalEvent(h, n)

\* The row that the replay of a history ends in.
EndsIn(r, h) ==
    /\ r.state = h[Len(h)].to
    /\ r.attempt = h[Len(h)].attempt
    /\ r.cancel = CancelSeen(h, Len(h) + 1)
    /\ r.owner = IF r.state = "running" THEN Claimant(h, Len(h) + 1) ELSE None

\* What a closing event tells of the attempt, and what the runs do.
ClosingKinds == {"retried", "cancelled", "succeeded", "failed"}
Told(e) == <<e.attempt, IF e.kind = "retried" THEN "failed" ELSE e.kind, e.actor>>
ToldBy(h) == {Told(h[n]) : n \in Closures(h)}
RunsOf(rs, j) == {<<run.attempt, run.status, run.by>> : run \in {r \in rs : r.job = j}}

\* Row, history and runs of one job agree.
Replays(r, h, told) ==
    /\ Accepted(h)
    /\ r.state = "none" <=> h = <<>>
    /\ h = <<>> => r.owner = None /\ told = {}
    /\ h # <<>> => EndsIn(r, h) /\ told = ToldBy(h)
    /\ r.cancel => r.state \in {"running", "cancelled"}

ReplayInv ==
    /\ JobInv
    /\ \A j \in Jobs : Replays(job[j], hist[j], RunsOf(runs, j))

-----------------------------------------------------------------------------
(* One event appended to a history.                                        *)

\* Events are written at their own place and leave the others.
LEMMA AppendedAt ==
  ASSUME NEW h \in Seq(Events), NEW e \in Events
  PROVE  /\ Len(h) \in Nat /\ Append(h, e) \in Seq(Events)
         /\ DOMAIN h = 1..Len(h)
         /\ DOMAIN Append(h, e) = 1..(Len(h) + 1)
         /\ Len(Append(h, e)) = Len(h) + 1
         /\ Append(h, e)[Len(h) + 1] = e
         /\ \A n \in 1..Len(h) : Append(h, e)[n] = h[n] /\ h[n] \in Events
         /\ Append(h, e) # <<>>
  OBVIOUS

\* The claimant of a history is the actor of its latest claim.
LEMMA LatestClaims ==
  ASSUME NEW h, NEW n \in Nat, NEW m \in 1..(n - 1), h[m].kind = "claimed",
         \A k \in (m + 1)..(n - 1) : h[k].kind # "claimed"
  PROVE  Claimant(h, n) = h[m].actor
  <1> DEFINE claims == {x \in 1..(n - 1) : h[x].kind = "claimed"}
  <1>1. m \in claims /\ \A k \in claims : k <= m
    <2> SUFFICES ASSUME NEW k \in claims PROVE k <= m
      OBVIOUS
    <2>1. CASE k > m
      BY <2>1
    <2> QED
      BY <2>1
  <1>2. \A x \in claims : (\A k \in claims : k <= x) => x = m
    BY <1>1
  <1>3. (CHOOSE x \in claims : \A k \in claims : k <= x) = m
    BY <1>1, <1>2
  <1> QED
    BY <1>3 DEF Claimant

\* What was seen before an event is not changed by a later one.
LEMMA SameSeen ==
  ASSUME NEW h \in Seq(Events), NEW e \in Events, NEW n \in 1..(Len(h) + 1)
  PROVE  CancelSeen(Append(h, e), n) = CancelSeen(h, n)
  <1>1. \A m \in 1..(n - 1) : m \in 1..Len(h) /\ Append(h, e)[m] = h[m]
    BY AppendedAt
  <1> QED
    BY <1>1 DEF CancelSeen

\* Later events do not change who had claimed before.
LEMMA SameClaimant ==
  ASSUME NEW h \in Seq(Events), NEW e \in Events, Tracked(h),
         NEW n \in 2..(Len(h) + 1), h[n - 1].to = "running"
  PROVE  Claimant(Append(h, e), n) = Claimant(h, n)
  <1>1. /\ n \in Nat /\ n - 1 \in 1..Len(h) /\ n - 1 \in DOMAIN h
        /\ \A x \in 1..(n - 1) : x \in 1..Len(h) /\ Append(h, e)[x] = h[x]
    BY AppendedAt
  <1>2. PICK m \in 1..(n - 1) :
           /\ h[m].kind = "claimed"
           /\ \A k \in (m + 1)..(n - 1) : h[k].kind # "claimed"
    BY <1>1 DEF Tracked
  <1>3. \A k \in (m + 1)..(n - 1) : k \in 1..(n - 1)
    BY <1>1
  <1>4. Claimant(h, n) = h[m].actor
    BY <1>1, <1>2, LatestClaims
  <1>5. Claimant(Append(h, e), n) = Append(h, e)[m].actor
    BY <1>1, <1>2, <1>3, LatestClaims
  <1> QED
    BY <1>1, <1>4, <1>5

\* Later events do not change what was legal before.
LEMMA StillLegal ==
  ASSUME NEW h \in Seq(Events), NEW e \in Events, Accepted(h), NEW n \in 1..Len(h)
  PROVE  LegalEvent(Append(h, e), n)
  <1> DEFINE g == Append(h, e)
  <1>1. n \in Nat /\ n \in DOMAIN h /\ n \in 1..(Len(h) + 1) /\ g[n] = h[n]
    BY AppendedAt
  <1>2. LegalEvent(h, n) /\ Tracked(h)
    BY <1>1 DEF Accepted
  <1>3. CancelSeen(g, n) = CancelSeen(h, n)
    BY <1>1, SameSeen
  <1>4. n > 1 => g[n - 1] = h[n - 1]
    BY <1>1, AppendedAt
  <1>5. n > 1 /\ h[n - 1].to = "running" => Claimant(g, n) = Claimant(h, n)
    BY <1>1, <1>2, SameClaimant
  <1> HIDE DEF g
  <1>6. LegalEvent(g, n)
    BY <1>1, <1>2, <1>3, <1>4, <1>5 DEF LegalEvent
  <1> QED
    BY <1>6 DEF g

\* A legal event that leads to running is a claim or leaves a job running.
LEMMA StaysTracked ==
  ASSUME NEW h \in Seq(Events), NEW e \in Events, Tracked(h),
         e.to = "running" =>
            e.kind = "claimed" \/ (Len(h) > 0 /\ h[Len(h)].to = "running")
  PROVE  Tracked(Append(h, e))
  <1> DEFINE g == Append(h, e)
  <1> DEFINE L == Len(h)
  <1>1. /\ L \in Nat /\ g[L + 1] = e /\ DOMAIN h = 1..L /\ DOMAIN g = 1..(L + 1)
        /\ \A n \in 1..L : g[n] = h[n]
    BY AppendedAt
  <1> HIDE DEF g, L
  <1>2. ASSUME NEW n \in 1..L, h[n].to = "running"
        PROVE  \E m \in 1..n : g[m].kind = "claimed" /\ \A k \in (m + 1)..n : g[k].kind # "claimed"
    <2>1. PICK m \in 1..n : h[m].kind = "claimed" /\ \A k \in (m + 1)..n : h[k].kind # "claimed"
      BY <1>1, <1>2 DEF Tracked
    <2>2. m \in 1..L /\ \A k \in (m + 1)..n : k \in 1..L
      BY <1>1
    <2> QED
      BY <1>1, <2>1, <2>2
  <1>3. ASSUME e.to = "running"
        PROVE  \E m \in 1..(L + 1) :
                  g[m].kind = "claimed" /\ \A k \in (m + 1)..(L + 1) : g[k].kind # "claimed"
    <2>1. CASE e.kind = "claimed"
      <3>1. L + 1 \in 1..(L + 1) /\ ((L + 1) + 1)..(L + 1) = {}
        BY <1>1
      <3> QED
        BY <1>1, <2>1, <3>1
    <2>2. CASE e.kind # "claimed"
      <3>1. L > 0 /\ h[L].to = "running" /\ L \in 1..L
        BY <1>1, <1>3, <2>2 DEF L
      <3>2. PICK m \in 1..L : g[m].kind = "claimed" /\ \A k \in (m + 1)..L : g[k].kind # "claimed"
        BY <1>2, <3>1
      <3>3. \A k \in (m + 1)..(L + 1) : k \in (m + 1)..L \/ k = L + 1
        BY <1>1
      <3>4. m \in 1..(L + 1)
        BY <1>1
      <3> QED
        BY <1>1, <2>2, <3>2, <3>3, <3>4
    <2> QED
      BY <2>1, <2>2
  <1>4. ASSUME NEW n \in DOMAIN g, g[n].to = "running"
        PROVE  \E m \in 1..n : g[m].kind = "claimed" /\ \A k \in (m + 1)..n : g[k].kind # "claimed"
    <2>1. n \in 1..L \/ n = L + 1
      BY <1>1
    <2> QED
      BY <1>1, <1>2, <1>3, <1>4, <2>1
  <1> QED
    BY <1>4 DEF Tracked, g

\* The events that close an attempt are the old ones and perhaps the new one.
LEMMA ToldByAppend ==
  ASSUME NEW h \in Seq(Events), NEW e \in Events, Len(h) > 0
  PROVE  ToldBy(Append(h, e)) =
           ToldBy(h) \cup IF e.kind \in ClosingKinds /\ h[Len(h)].to = "running"
                          THEN {Told(e)} ELSE {}
  <1> DEFINE g == Append(h, e)
  <1> DEFINE L == Len(h)
  <1> DEFINE closes == e.kind \in ClosingKinds /\ h[L].to = "running"
  <1>1. /\ L \in Nat /\ L > 0 /\ Len(g) = L + 1 /\ g[L + 1] = e
        /\ \A n \in 1..L : g[n] = h[n]
    BY AppendedAt
  <1>2. Closures(h) = {n \in 2..L : h[n].kind \in ClosingKinds /\ h[n - 1].to = "running"}
    BY DEF Closures, ClosingKinds
  <1>3. Closures(g) = {n \in 2..(L + 1) : g[n].kind \in ClosingKinds /\ g[n - 1].to = "running"}
    BY <1>1 DEF Closures, ClosingKinds
  <1> HIDE DEF g, L
  <1>4. ASSUME NEW n \in 2..L
        PROVE  n \in Closures(g) <=> n \in Closures(h)
    <2>1. n \in 1..L /\ n - 1 \in 1..L /\ n \in 2..(L + 1)
      BY <1>1
    <2> QED
      BY <1>1, <1>2, <1>3, <2>1
  <1>5. L + 1 \in Closures(g) <=> closes
    <2>1. L + 1 \in 2..(L + 1) /\ (L + 1) - 1 = L /\ L \in 1..L
      BY <1>1
    <2> QED
      BY <1>1, <1>3, <2>1
  <1>6. \A n \in 2..(L + 1) : n \in 2..L \/ n = L + 1
    BY <1>1
  <1>7. Closures(g) = Closures(h) \cup IF closes THEN {L + 1} ELSE {}
    BY <1>2, <1>3, <1>4, <1>5, <1>6
  <1>8. \A n \in Closures(h) : g[n] = h[n]
    BY <1>1, <1>2
  <1>9. ToldBy(g) = ToldBy(h) \cup IF closes THEN {Told(e)} ELSE {}
    BY <1>1, <1>7, <1>8 DEF ToldBy
  <1> QED
    BY <1>9 DEF g, L

(***************************************************************************)
(* The row that one event makes of a row: the replay of the longer history *)
(* accepts it and ends in the new row.                                     *)
(***************************************************************************)
LEMMA EventReplays ==
  ASSUME NEW h \in Seq(Events), h # <<>>, NEW e \in Events, NEW r, NEW q, NEW told,
         Accepted(h), EndsIn(r, h), told = ToldBy(h),
         LegalEvent(Append(h, e), Len(h) + 1),
         q.state = e.to, q.attempt = e.attempt,
         q.cancel = (r.cancel \/ e.kind = "cancel_requested"),
         q.owner = IF e.to = "running"
                   THEN IF e.kind = "claimed" THEN e.actor ELSE r.owner
                   ELSE None,
         e.to = "running" => e.kind = "claimed" \/ h[Len(h)].to = "running"
  PROVE  LET g == Append(h, e)
             now == told \cup IF e.kind \in ClosingKinds /\ r.state = "running"
                              THEN {Told(e)} ELSE {}
         IN  g # <<>> /\ Accepted(g) /\ EndsIn(q, g) /\ now = ToldBy(g)
  <1> DEFINE g == Append(h, e)
  <1> DEFINE L == Len(h)
  <1>1. /\ L \in Nat /\ L > 0 /\ Len(g) = L + 1 /\ g[L + 1] = e /\ g # <<>>
        /\ DOMAIN g = 1..(L + 1) /\ \A n \in 1..L : g[n] = h[n]
    BY AppendedAt
  <1>2. Accepted(g)
    <2>1. Tracked(g)
      BY <1>1, StaysTracked DEF Accepted
    <2>2. ASSUME NEW n \in 1..(L + 1) PROVE LegalEvent(g, n)
      <3>1. n \in 1..L \/ n = L + 1
        BY <1>1
      <3> QED
        BY <3>1, StillLegal
    <2> QED
      BY <1>1, <2>1, <2>2 DEF Accepted
  <1>3. CancelSeen(g, (L + 1) + 1) = (CancelSeen(h, L + 1) \/ e.kind = "cancel_requested")
    <2> HIDE DEF g, L
    <2>1. \A m \in 1..(((L + 1) + 1) - 1) : m \in 1..L \/ m = L + 1
      BY <1>1
    <2>2. L + 1 \in 1..(((L + 1) + 1) - 1) /\ (L + 1) - 1 = L
          /\ \A m \in 1..L : m \in 1..(((L + 1) + 1) - 1)
      BY <1>1
    <2> QED
      BY <1>1, <2>1, <2>2 DEF CancelSeen
  <1>4. e.to = "running" => Claimant(g, (L + 1) + 1) = q.owner
    <2> SUFFICES ASSUME e.to = "running" PROVE Claimant(g, (L + 1) + 1) = q.owner
      OBVIOUS
    <2>0. (L + 1) + 1 \in Nat /\ ((L + 1) + 1) - 1 = L + 1
      BY <1>1
    <2>1. CASE e.kind = "claimed"
      <3>1. L + 1 \in 1..(((L + 1) + 1) - 1) /\ ((L + 1) + 1)..(((L + 1) + 1) - 1) = {}
        BY <1>1
      <3> HIDE DEF g, L
      <3>2. Claimant(g, (L + 1) + 1) = g[L + 1].actor
        BY <1>1, <2>0, <2>1, <3>1, LatestClaims
      <3> QED
        BY <1>1, <2>1, <3>2
    <2>2. CASE e.kind # "claimed"
      <3>1. h[L].to = "running" /\ L \in DOMAIN h
        BY <1>1, <2>2
      <3>2. PICK m \in 1..L : h[m].kind = "claimed" /\ \A k \in (m + 1)..L : h[k].kind # "claimed"
        BY <3>1 DEF Accepted, Tracked
      <3>3. /\ m \in 1..(((L + 1) + 1) - 1) /\ m \in 1..((L + 1) - 1)
            /\ g[m] = h[m]
            /\ \A k \in (m + 1)..((L + 1) - 1) : k \in (m + 1)..L
            /\ \A k \in (m + 1)..(((L + 1) + 1) - 1) :
                  (k \in (m + 1)..L /\ g[k] = h[k]) \/ k = L + 1
        BY <1>1
      <3> HIDE DEF g, L
      <3>4. Claimant(h, L + 1) = h[m].actor
        BY <1>1, <3>2, <3>3, LatestClaims
      <3>5. \A k \in (m + 1)..(((L + 1) + 1) - 1) : g[k].kind # "claimed"
        BY <1>1, <2>2, <3>2, <3>3
      <3>6. Claimant(g, (L + 1) + 1) = g[m].actor
        BY <1>1, <2>0, <3>2, <3>3, <3>5, LatestClaims
      <3>7. q.owner = r.owner /\ r.owner = Claimant(h, L + 1)
        BY <2>2, <3>1 DEF EndsIn, L
      <3> QED
        BY <3>3, <3>4, <3>6, <3>7
    <2> QED
      BY <2>1, <2>2
  <1>5. EndsIn(q, g)
    <2> HIDE DEF g
    <2> QED
      BY <1>1, <1>3, <1>4 DEF EndsIn
  <1>6. ToldBy(g) = told \cup IF e.kind \in ClosingKinds /\ r.state = "running"
                              THEN {Told(e)} ELSE {}
    BY <1>1, ToldByAppend DEF EndsIn
  <1> QED
    BY <1>1, <1>2, <1>5, <1>6

-----------------------------------------------------------------------------
(* The event that each operation writes is the one the replay expects.     *)

\* What the replay sees at the place of the next event: the row.
LEMMA NextSees ==
  ASSUME NEW h \in Seq(Events), h # <<>>, NEW e \in Events, NEW r,
         Accepted(h), EndsIn(r, h)
  PROVE  LET g == Append(h, e)
             n == Len(h) + 1
         IN  /\ n > 1 /\ g[n] = e
             /\ g[n - 1].to = r.state /\ g[n - 1].attempt = r.attempt
             /\ CancelSeen(g, n) = r.cancel
             /\ r.state = "running" => Claimant(g, n) = r.owner
  <1> DEFINE g == Append(h, e)
  <1> DEFINE L == Len(h)
  <1>1. /\ L \in Nat /\ L > 0 /\ g[L + 1] = e /\ g[L] = h[L] /\ (L + 1) - 1 = L
        /\ L + 1 \in 1..(L + 1) /\ L + 1 \in 2..(L + 1) /\ h[(L + 1) - 1] = h[L]
    BY AppendedAt
  <1>2. CancelSeen(g, L + 1) = r.cancel
    BY <1>1, SameSeen DEF EndsIn
  <1>3. ASSUME r.state = "running" PROVE Claimant(g, L + 1) = r.owner
    <2>1. Claimant(h, L + 1) = r.owner /\ h[L].to = "running"
      BY <1>3 DEF EndsIn
    <2> QED
      BY <1>1, <2>1, SameClaimant DEF Accepted
  <1>4. h[L].to = r.state /\ h[L].attempt = r.attempt
    BY DEF EndsIn
  <1> HIDE DEF g, L
  <1>5. g[(L + 1) - 1] = h[L] /\ L + 1 > 1
    BY <1>1
  <1>6. /\ L + 1 > 1 /\ g[L + 1] = e
        /\ g[(L + 1) - 1].to = r.state /\ g[(L + 1) - 1].attempt = r.attempt
        /\ CancelSeen(g, L + 1) = r.cancel
        /\ r.state = "running" => Claimant(g, L + 1) = r.owner
    BY <1>1, <1>2, <1>3, <1>4, <1>5
  <1> QED
    BY <1>6 DEF g, L

\* A job that has a history agrees with it.
LEMMA HistoryAgrees ==
  ASSUME NEW r, NEW h, NEW told, Replays(r, h, told), r.state # "none"
  PROVE  h # <<>> /\ Accepted(h) /\ EndsIn(r, h) /\ told = ToldBy(h)
  BY DEF Replays

\* One event of an operation, and the row it leads to, in one lemma.
LEMMA OneEvent ==
  ASSUME NEW h, NEW r, JobFits(r, h), NEW told, Replays(r, h, told), r.state # "none",
         NEW e \in Events, NEW q,
         LegalEvent(Append(h, e), Len(h) + 1),
         q.state = e.to, q.attempt = e.attempt, q.state # "none",
         q.cancel = (r.cancel \/ e.kind = "cancel_requested"),
         q.owner = IF e.to = "running"
                   THEN IF e.kind = "claimed" THEN e.actor ELSE r.owner
                   ELSE None,
         e.to = "running" => e.kind = "claimed" \/ r.state = "running",
         q.cancel => q.state \in {"running", "cancelled"}
  PROVE  Replays(q, Append(h, e),
                 told \cup IF e.kind \in ClosingKinds /\ r.state = "running"
                           THEN {Told(e)} ELSE {})
  <1>1. h \in Seq(Events)
    BY DEF JobFits
  <1>2. h # <<>> /\ Accepted(h) /\ EndsIn(r, h) /\ told = ToldBy(h)
    BY HistoryAgrees
  <1>3. h[Len(h)].to = r.state
    BY <1>2 DEF EndsIn
  <1> DEFINE g == Append(h, e)
  <1> DEFINE now == told \cup IF e.kind \in ClosingKinds /\ r.state = "running"
                              THEN {Told(e)} ELSE {}
  <1>4. g # <<>> /\ Accepted(g) /\ EndsIn(q, g) /\ now = ToldBy(g)
    BY <1>1, <1>2, <1>3, EventReplays
  <1> HIDE DEF g, now
  <1>5. Replays(q, g, now)
    BY <1>4 DEF Replays
  <1> QED
    BY <1>5 DEF g, now

\* An event of a job that is not running, and stays so, closes no attempt.
LEMMA QuietEvent ==
  ASSUME NEW h \in Seq(Events), h # <<>>, NEW e \in Events, NEW r, NEW q, NEW told,
         Accepted(h), EndsIn(r, h), told = ToldBy(h), r.state # "running",
         LegalEvent(Append(h, e), Len(h) + 1), e.to # "running",
         q.state = e.to, q.attempt = e.attempt, q.owner = None,
         q.cancel = (r.cancel \/ e.kind = "cancel_requested")
  PROVE  /\ Append(h, e) # <<>> /\ Accepted(Append(h, e))
         /\ EndsIn(q, Append(h, e)) /\ told = ToldBy(Append(h, e))
  <1> DEFINE g == Append(h, e)
  <1> DEFINE now == told \cup IF e.kind \in ClosingKinds /\ r.state = "running"
                              THEN {Told(e)} ELSE {}
  <1>1. q.owner = IF e.to = "running"
                  THEN IF e.kind = "claimed" THEN e.actor ELSE r.owner ELSE None
    OBVIOUS
  <1>2. g # <<>> /\ Accepted(g) /\ EndsIn(q, g) /\ now = ToldBy(g)
    BY <1>1, EventReplays
  <1> QED
    BY <1>2

\* lease_expired
LEMMA ExpiryReplays ==
  ASSUME NEW h, NEW r, JobFits(r, h), NEW told, Replays(r, h, told), r.state = "running"
  PROVE  Replays(Released(r, AfterExpiry(r)),
                 Append(h, Event("lease_expired", AfterExpiry(r), r.attempt, None)), told)
  <1> DEFINE to == AfterExpiry(r)
  <1> DEFINE e == Event("lease_expired", to, r.attempt, None)
  <1> DEFINE q == Released(r, to)
  <1>1. r \in Rows /\ r.attempt \in 0..MaxAttempts /\ h \in Seq(Events)
    BY DEF JobFits, Rows
  <1>2. to \in {"queued", "failed", "cancelled"} /\ to \in States
        /\ (r.cancel => to = "cancelled")
    BY DEF AfterExpiry, States, Terminal
  <1>3. e \in Events
    BY <1>1, <1>2, EventType DEF Kinds
  <1>4. e.kind = "lease_expired" /\ e.to = to /\ e.attempt = r.attempt /\ e.actor = None
    BY DEF Event
  <1>5. /\ q.state = to /\ q.attempt = r.attempt /\ q.cancel = r.cancel /\ q.owner = None
    BY <1>1 DEF Released, Rows
  <1>6. h # <<>> /\ Accepted(h) /\ EndsIn(r, h)
    BY HistoryAgrees
  <1>7. to = IF r.cancel THEN "cancelled"
             ELSE IF e.attempt >= MaxAttempts THEN "failed" ELSE "queued"
    BY <1>4 DEF AfterExpiry
  <1> HIDE DEF to, e, q
  <1>8. LegalEvent(Append(h, e), Len(h) + 1)
    BY <1>1, <1>3, <1>4, <1>6, <1>7, NextSees DEF LegalEvent
  <1>9. q.cancel \in BOOLEAN
    BY <1>1, <1>5 DEF Rows
  <1>10. Replays(q, Append(h, e),
                 told \cup IF e.kind \in ClosingKinds /\ r.state = "running"
                           THEN {Told(e)} ELSE {})
    BY <1>2, <1>3, <1>4, <1>5, <1>8, <1>9, OneEvent
  <1>11. e.kind \notin ClosingKinds
    BY <1>4 DEF ClosingKinds
  <1>12. Replays(q, Append(h, e), told)
    BY <1>10, <1>11
  <1> QED
    BY <1>12 DEF to, e, q

\* claimed
LEMMA ClaimReplays ==
  ASSUME NEW h, NEW r, JobFits(r, h), NEW told, Replays(r, h, told), r.state = "queued",
         NEW w \in Workers
  PROVE  LET n == r.attempt + 1
         IN  Replays([r EXCEPT !.state = "running", !.attempt = n, !.owner = w, !.live = TRUE],
                     Append(h, Event("claimed", "running", n, w)), told)
  <1> DEFINE n == r.attempt + 1
  <1> DEFINE e == Event("claimed", "running", n, w)
  <1> DEFINE q == [r EXCEPT !.state = "running", !.attempt = n, !.owner = w, !.live = TRUE]
  <1>1. r \in Rows /\ h \in Seq(Events) /\ r.attempt < MaxAttempts /\ ~r.cancel
    BY DEF JobFits
  <1>2. n \in 0..MaxAttempts /\ n <= MaxAttempts /\ r.cancel = FALSE
    BY <1>1, LimitsAssumption DEF Rows
  <1>3. e \in Events
    BY <1>2, EventType DEF Kinds, States
  <1>4. e.kind = "claimed" /\ e.to = "running" /\ e.attempt = n /\ e.actor = w
    BY DEF Event
  <1>5. q.state = "running" /\ q.attempt = n /\ q.cancel = FALSE /\ q.owner = w
    BY <1>1, <1>2 DEF Rows
  <1>6. h # <<>> /\ Accepted(h) /\ EndsIn(r, h)
    BY HistoryAgrees
  <1> HIDE DEF e, q
  <1>8. LegalEvent(Append(h, e), Len(h) + 1)
    BY <1>1, <1>2, <1>3, <1>4, <1>6, NextSees DEF LegalEvent
  <1>10. Replays(q, Append(h, e),
                 told \cup IF e.kind \in ClosingKinds /\ r.state = "running"
                           THEN {Told(e)} ELSE {})
    BY <1>1, <1>2, <1>3, <1>4, <1>5, <1>8, OneEvent
  <1>12. Replays(q, Append(h, e), told)
    BY <1>10
  <1> QED
    BY <1>12 DEF e, q

\* cancel_requested of a running job.
LEMMA AskedReplays ==
  ASSUME NEW h, NEW r, JobFits(r, h), NEW told, Replays(r, h, told),
         r.state = "running", ~r.cancel
  PROVE  Replays([r EXCEPT !.cancel = TRUE],
                 Append(h, Event("cancel_requested", r.state, r.attempt, None)), told)
  <1> DEFINE e == Event("cancel_requested", r.state, r.attempt, None)
  <1> DEFINE q == [r EXCEPT !.cancel = TRUE]
  <1>1. r \in Rows /\ h \in Seq(Events) /\ r.attempt \in 0..MaxAttempts
    BY DEF JobFits, Rows
  <1>2. r.state \in States /\ r.cancel = FALSE
    BY <1>1 DEF Rows
  <1>3. e \in Events
    BY <1>1, <1>2, EventType DEF Kinds
  <1>4. e.kind = "cancel_requested" /\ e.to = r.state /\ e.attempt = r.attempt
    BY DEF Event
  <1>5. q.state = r.state /\ q.attempt = r.attempt /\ q.cancel = TRUE /\ q.owner = r.owner
    BY <1>1 DEF Rows
  <1>6. h # <<>> /\ Accepted(h) /\ EndsIn(r, h)
    BY HistoryAgrees
  <1> HIDE DEF e, q
  <1>8. LegalEvent(Append(h, e), Len(h) + 1)
    BY <1>1, <1>2, <1>3, <1>4, <1>6, NextSees DEF LegalEvent
  <1>10. Replays(q, Append(h, e),
                 told \cup IF e.kind \in ClosingKinds /\ r.state = "running"
                           THEN {Told(e)} ELSE {})
    BY <1>1, <1>2, <1>3, <1>4, <1>5, <1>8, OneEvent
  <1>11. e.kind \notin ClosingKinds
    BY <1>4 DEF ClosingKinds
  <1>12. Replays(q, Append(h, e), told)
    BY <1>10, <1>11
  <1> QED
    BY <1>12 DEF e, q

\* cancel_requested and cancelled of a queued job, in one transaction.
LEMMA QueuedCancelReplays ==
  ASSUME NEW h, NEW r, JobFits(r, h), NEW told, Replays(r, h, told), r.state = "queued"
  PROVE  Replays([r EXCEPT !.cancel = TRUE, !.state = "cancelled"],
                 h \o <<Event("cancel_requested", r.state, r.attempt, None),
                        Event("cancelled", "cancelled", r.attempt, None)>>, told)
  <1> DEFINE e == Event("cancel_requested", r.state, r.attempt, None)
  <1> DEFINE d == Event("cancelled", "cancelled", r.attempt, None)
  <1> DEFINE p == [r EXCEPT !.cancel = TRUE]
  <1> DEFINE q == [r EXCEPT !.cancel = TRUE, !.state = "cancelled"]
  <1> DEFINE g == Append(h, e)
  <1> DEFINE f == Append(g, d)
  <1>1. r \in Rows /\ h \in Seq(Events) /\ r.attempt \in 0..MaxAttempts /\ ~r.cancel
    BY DEF JobFits, Rows
  <1>2. r.state \in States /\ "cancelled" \in States /\ r.cancel = FALSE
    BY <1>1 DEF Rows, States, Terminal
  <1>3. e \in Events /\ d \in Events
    BY <1>1, <1>2, EventType DEF Kinds
  <1>4. /\ e.kind = "cancel_requested" /\ e.to = r.state /\ e.attempt = r.attempt
        /\ d.kind = "cancelled" /\ d.to = "cancelled" /\ d.attempt = r.attempt
        /\ d.actor = None
    BY DEF Event
  <1>5. /\ p.state = r.state /\ p.attempt = r.attempt /\ p.cancel = TRUE /\ p.owner = r.owner
        /\ q.state = "cancelled" /\ q.attempt = r.attempt /\ q.cancel = TRUE
        /\ q.owner = r.owner
    BY <1>1 DEF Rows
  <1>6. h # <<>> /\ Accepted(h) /\ EndsIn(r, h) /\ told = ToldBy(h)
    BY HistoryAgrees
  <1>7. r.owner = None
    BY <1>6 DEF EndsIn
  <1>8. g \in Seq(Events) /\ h \o <<e, d>> = f
    BY <1>1, <1>3
  <1> HIDE DEF e, d, p, q
  <1>9. LegalEvent(g, Len(h) + 1)
    BY <1>1, <1>2, <1>3, <1>4, <1>6, NextSees DEF LegalEvent
  <1>10. h[Len(h)].to = r.state
    BY <1>6 DEF EndsIn
  <1>11. g # <<>> /\ Accepted(g) /\ EndsIn(p, g) /\ told = ToldBy(g)
    <2>1. /\ p.cancel = (r.cancel \/ e.kind = "cancel_requested")
          /\ p.owner = None
          /\ p.state = e.to /\ p.attempt = e.attempt
          /\ e.to # "running" /\ r.state # "running"
      BY <1>4, <1>5, <1>7
    <2> QED
      BY <1>1, <1>3, <1>6, <1>9, <2>1, QuietEvent
  <1> HIDE DEF g
  <1>12. LegalEvent(f, Len(g) + 1)
    <2>1. LET n == Len(g) + 1
          IN  /\ n > 1 /\ f[n] = d
              /\ f[n - 1].to = p.state /\ f[n - 1].attempt = p.attempt
              /\ CancelSeen(f, n) = p.cancel
      BY <1>3, <1>8, <1>11, NextSees
    <2> HIDE DEF f
    <2> QED
      BY <1>4, <1>5, <2>1 DEF LegalEvent
  <1>13. f # <<>> /\ Accepted(f) /\ EndsIn(q, f) /\ told = ToldBy(f)
    <2>1. /\ q.cancel = (p.cancel \/ d.kind = "cancel_requested")
          /\ q.owner = None
          /\ q.state = d.to /\ q.attempt = d.attempt
          /\ d.to # "running" /\ p.state # "running"
      BY <1>4, <1>5, <1>7
    <2> QED
      BY <1>3, <1>8, <1>11, <1>12, <2>1, QuietEvent
  <1> HIDE DEF f
  <1>14. Replays(q, f, told)
    BY <1>5, <1>13 DEF Replays
  <1> QED
    BY <1>8, <1>14 DEF e, d, q

\* An attempt closed by its owner: its event tells what the new run tells.
LEMMA ClosingReplays ==
  ASSUME NEW h, NEW r, JobFits(r, h), NEW told, Replays(r, h, told), r.state = "running",
         NEW op \in Ops, Allowed(op, r), NEW w \in Workers, r.owner = w
  PROVE  LET status == Outcome(op, r)
             kind == IF Requeues(op, r) THEN "retried" ELSE status
             to == IF Requeues(op, r) THEN "queued" ELSE status
         IN  Replays(Released(r, to), Append(h, Event(kind, to, r.attempt, w)),
                     told \cup {<<r.attempt, status, w>>})
  <1> DEFINE status == Outcome(op, r)
  <1> DEFINE kind == IF Requeues(op, r) THEN "retried" ELSE status
  <1> DEFINE to == IF Requeues(op, r) THEN "queued" ELSE status
  <1> DEFINE e == Event(kind, to, r.attempt, w)
  <1> DEFINE q == Released(r, to)
  <1>1. r \in Rows /\ h \in Seq(Events) /\ r.attempt \in 0..MaxAttempts
        /\ r.cancel \in BOOLEAN
    BY DEF JobFits, Rows
  <1>2. status \in Terminal
    BY DEF Outcome, Terminal
  <1>3. /\ kind \in ClosingKinds /\ kind \in Kinds
        /\ to \in States /\ to \notin {"none", "running"}
    BY <1>2 DEF Terminal, Kinds, ClosingKinds, States
  <1>4. e \in Events
    BY <1>1, <1>3, EventType
  <1>5. e.kind = kind /\ e.to = to /\ e.attempt = r.attempt /\ e.actor = w
    BY DEF Event
  <1>6. /\ q.state = to /\ q.attempt = r.attempt /\ q.cancel = r.cancel /\ q.owner = None
    BY <1>1 DEF Released, Rows
  <1>7. h # <<>> /\ Accepted(h) /\ EndsIn(r, h)
    BY HistoryAgrees
  <1>8. \/ kind = "retried" /\ to = "queued" /\ status = "failed" /\ ~r.cancel
        \/ kind = "cancelled" /\ to = "cancelled" /\ status = "cancelled" /\ r.cancel
        \/ kind = status /\ to = status /\ status \in {"succeeded", "failed"} /\ ~r.cancel
    <2>1. op \in {"complete", "acknowledge", "fail", "retry"}
      BY LimitsAssumption
    <2> QED
      BY <2>1 DEF Outcome, Requeues, Allowed
  <1>9. Told(e) = <<r.attempt, status, w>>
    BY <1>5, <1>8 DEF Told
  <1> HIDE DEF status, kind, to, e, q
  <1>10. LegalEvent(Append(h, e), Len(h) + 1)
    <2> DEFINE g == Append(h, e)
    <2> DEFINE n == Len(h) + 1
    <2>1. /\ n > 1 /\ g[n] = e
          /\ g[n - 1].to = "running" /\ g[n - 1].attempt = r.attempt
          /\ CancelSeen(g, n) = r.cancel
          /\ Claimant(g, n) = w
      BY <1>1, <1>4, <1>7, NextSees
    <2> HIDE DEF g, n
    <2>2. LegalEvent(g, n)
      BY <1>5, <1>8, <2>1 DEF LegalEvent
    <2> QED
      BY <2>2 DEF g, n
  <1>11. Replays(q, Append(h, e),
                 told \cup IF e.kind \in ClosingKinds /\ r.state = "running"
                           THEN {Told(e)} ELSE {})
    <2>1. /\ q.state = e.to /\ q.attempt = e.attempt /\ q.state # "none" /\ e.to # "running"
          /\ e.kind # "cancel_requested"
          /\ q.cancel => q.state \in {"running", "cancelled"}
      BY <1>3, <1>5, <1>6, <1>8
    <2>2. q.cancel = (r.cancel \/ e.kind = "cancel_requested")
      BY <1>1, <1>6, <2>1
    <2>3. q.owner = IF e.to = "running"
                    THEN IF e.kind = "claimed" THEN e.actor ELSE r.owner ELSE None
      BY <1>6, <2>1
    <2> QED
      BY <1>4, <1>10, <2>1, <2>2, <2>3, OneEvent
  <1>12. Replays(q, Append(h, e), told \cup {<<r.attempt, status, w>>})
    BY <1>3, <1>5, <1>9, <1>11
  <1> QED
    BY <1>12 DEF status, kind, to, e, q

-----------------------------------------------------------------------------
(* The steps: one job gets an event, the others at most a recovery.        *)

\* Rows, histories and runs that agree job by job.
AllReplay(rows, past, rs) ==
    \A j \in Jobs : JobFits(rows[j], past[j]) /\ Replays(rows[j], past[j], RunsOf(rs, j))

\* Recovery keeps them so.
LEMMA RecoveryReplays ==
  ASSUME ReplayInv, NEW first \in SUBSET Jobs
  PROVE  AllReplay(RecoveredJobs(first), RecoveredHist(first), runs)
  <1>1. Batch(first) \subseteq Expired
    BY DEF Batch, Oldest
  <1>2. ASSUME NEW j \in Jobs
        PROVE  Replays(RecoveredJobs(first)[j], RecoveredHist(first)[j], RunsOf(runs, j))
    <2>1. JobFits(job[j], hist[j]) /\ Replays(job[j], hist[j], RunsOf(runs, j))
      BY DEF ReplayInv, JobInv
    <2>2. CASE j \in Batch(first)
      <3>1. job[j].state = "running"
        BY <1>1, <2>2 DEF Expired, Running
      <3>2. /\ RecoveredJobs(first)[j] = Released(job[j], AfterExpiry(job[j]))
            /\ RecoveredHist(first)[j] =
                 Append(hist[j], Event("lease_expired", AfterExpiry(job[j]),
                                       job[j].attempt, None))
        BY <2>2 DEF RecoveredJobs, RecoveredHist
      <3> QED
        BY <2>1, <3>1, <3>2, ExpiryReplays
    <2>3. CASE j \notin Batch(first)
      BY <2>1, <2>3 DEF RecoveredJobs, RecoveredHist
    <2> QED
      BY <2>2, <2>3
  <1> QED
    BY <1>2, RecoveryFits DEF AllReplay, ReplayInv

\* One job's row and history change, and no run is added.
LEMMA OneJobReplays ==
  ASSUME NEW rows \in [Jobs -> Rows], NEW past \in [Jobs -> Seq(Events)],
         NEW rs, AllReplay(rows, past, rs), NEW j \in Jobs, NEW r, NEW h,
         Replays(r, h, RunsOf(rs, j)),
         job' = [rows EXCEPT ![j] = r], hist' = [past EXCEPT ![j] = h], runs' = rs
  PROVE  \A k \in Jobs : Replays(job'[k], hist'[k], RunsOf(runs', k))
  <1> SUFFICES ASSUME NEW k \in Jobs
               PROVE  Replays(job'[k], hist'[k], RunsOf(runs', k))
    OBVIOUS
  <1>1. CASE k = j
    BY <1>1
  <1>2. CASE k # j
    BY <1>2 DEF AllReplay
  <1> QED
    BY <1>1, <1>2

\* A submitted job replays to its row.
LEMMA SubmitReplays ==
  ASSUME ReplayInv, NEW j \in Jobs, Submit(j)
  PROVE  \A k \in Jobs : Replays(job'[k], hist'[k], RunsOf(runs', k))
  <1> DEFINE r == [job[j] EXCEPT !.state = "queued"]
  <1> DEFINE e == Event("submitted", "queued", 0, None)
  <1> DEFINE h == <<e>>
  <1>1. /\ JobFits(job[j], hist[j]) /\ job[j].state = "none"
        /\ Replays(job[j], hist[j], RunsOf(runs, j))
        /\ job \in [Jobs -> Rows] /\ hist \in [Jobs -> Seq(Events)]
    BY DEF ReplayInv, JobInv, Submit, RegistryTypeOK
  <1>2. /\ job[j].attempt = 0 /\ job[j].cancel = FALSE /\ job[j].owner = None
        /\ RunsOf(runs, j) = {}
    BY <1>1 DEF JobFits, Replays, Rows
  <1>3. /\ r.state = "queued" /\ r.attempt = 0 /\ r.cancel = FALSE /\ r.owner = None
    BY <1>1, <1>2 DEF JobFits, Rows
  <1>4. e.kind = "submitted" /\ e.to = "queued" /\ e.attempt = 0
    BY DEF Event
  <1>5. Len(h) = 1 /\ DOMAIN h = {1} /\ h[1] = e /\ h # <<>>
    OBVIOUS
  <1> HIDE DEF e, h
  <1>6. Accepted(h)
    BY <1>4, <1>5 DEF Accepted, Tracked, LegalEvent
  <1>7. ~CancelSeen(h, 2)
    <2>1. \A m \in 1..(2 - 1) : m = 1
      OBVIOUS
    <2> QED
      BY <1>4, <1>5, <2>1 DEF CancelSeen
  <1>8. CancelSeen(h, 2) \in BOOLEAN
    BY DEF CancelSeen
  <1>9. ToldBy(h) = {}
    <2>1. 2..Len(h) = {}
      BY <1>5
    <2> QED
      BY <2>1 DEF ToldBy, Closures
  <1> HIDE DEF r
  <1>10. EndsIn(r, h)
    <2>1. Len(h) + 1 = 2
      BY <1>5
    <2>2. CancelSeen(h, Len(h) + 1) = FALSE
      BY <1>7, <1>8, <2>1
    <2> QED
      BY <1>3, <1>4, <1>5, <2>2 DEF EndsIn
  <1>11. Replays(r, h, RunsOf(runs, j))
    BY <1>2, <1>3, <1>5, <1>6, <1>9, <1>10 DEF Replays
  <1>12. AllReplay(job, hist, runs)
    BY DEF AllReplay, ReplayInv, JobInv
  <1>13. job' = [job EXCEPT ![j] = r] /\ hist' = [hist EXCEPT ![j] = h] /\ runs' = runs
    BY <1>1 DEF Submit, r, h, e
  <1> QED
    BY <1>1, <1>11, <1>12, <1>13, OneJobReplays

\* A claim appends what its row becomes.
LEMMA ClaimStepReplays ==
  ASSUME ReplayInv, NEW w \in Workers, Claim(w)
  PROVE  \A k \in Jobs : Replays(job'[k], hist'[k], RunsOf(runs', k))
  <1> DEFINE rows == RecoveredJobs({})
  <1> DEFINE past == RecoveredHist({})
  <1>1. PICK j \in Jobs :
           LET n == rows[j].attempt + 1
           IN  /\ NextQueued(rows, j)
               /\ job' = [rows EXCEPT ![j] =
                            [@ EXCEPT !.state = "running", !.attempt = n,
                                      !.owner = w, !.live = TRUE]]
               /\ hist' = [past EXCEPT ![j] =
                             Append(@, Event("claimed", "running", n, w))]
    BY DEF Claim
  <1>2. /\ rows \in [Jobs -> Rows] /\ past \in [Jobs -> Seq(Events)]
    BY RecoveryFits DEF ReplayInv
  <1>3. AllReplay(rows, past, runs)
    BY RecoveryReplays
  <1>4. rows[j].state = "queued" /\ runs' = runs
    BY <1>1 DEF NextQueued, Claim
  <1> HIDE DEF rows, past
  <1> DEFINE n == rows[j].attempt + 1
  <1> DEFINE r == [rows[j] EXCEPT !.state = "running", !.attempt = n,
                                  !.owner = w, !.live = TRUE]
  <1> DEFINE h == Append(past[j], Event("claimed", "running", n, w))
  <1>5. Replays(r, h, RunsOf(runs, j))
    BY <1>3, <1>4, ClaimReplays DEF AllReplay
  <1>6. job' = [rows EXCEPT ![j] = r] /\ hist' = [past EXCEPT ![j] = h]
    BY <1>1, <1>2
  <1> HIDE DEF r, h
  <1> QED
    BY <1>2, <1>3, <1>4, <1>5, <1>6, OneJobReplays

\* A cancellation appends what its row becomes.
LEMMA CancelStepReplays ==
  ASSUME ReplayInv, NEW j \in Jobs, RequestCancel(j)
  PROVE  \A k \in Jobs : Replays(job'[k], hist'[k], RunsOf(runs', k))
  <1> DEFINE rows == RecoveredJobs({j})
  <1> DEFINE past == RecoveredHist({j})
  <1> DEFINE asked == Event("cancel_requested", rows[j].state, rows[j].attempt, None)
  <1> DEFINE ended == Event("cancelled", "cancelled", rows[j].attempt, None)
  <1>1. rows \in [Jobs -> Rows] /\ past \in [Jobs -> Seq(Events)]
    BY RecoveryFits DEF ReplayInv
  <1>2. AllReplay(rows, past, runs)
    BY RecoveryReplays
  <1>3. \/ job' = rows /\ hist' = past
        \/ /\ rows[j].state = "queued"
           /\ job' = [rows EXCEPT ![j].cancel = TRUE, ![j].state = "cancelled"]
           /\ hist' = [past EXCEPT ![j] = @ \o <<asked, ended>>]
        \/ /\ ~TooLate(rows[j]) /\ rows[j].state = "running"
           /\ job' = [rows EXCEPT ![j].cancel = TRUE]
           /\ hist' = [past EXCEPT ![j] = Append(@, asked)]
    BY DEF RequestCancel
  <1>4. runs' = runs
    BY DEF RequestCancel
  <1> HIDE DEF rows, past
  <1>5. JobFits(rows[j], past[j]) /\ Replays(rows[j], past[j], RunsOf(runs, j))
    BY <1>2 DEF AllReplay
  <1>6. CASE job' = rows /\ hist' = past
    BY <1>2, <1>4, <1>6 DEF AllReplay
  <1>7. CASE /\ rows[j].state = "queued"
             /\ job' = [rows EXCEPT ![j].cancel = TRUE, ![j].state = "cancelled"]
             /\ hist' = [past EXCEPT ![j] = @ \o <<asked, ended>>]
    <2> DEFINE r == [rows[j] EXCEPT !.cancel = TRUE, !.state = "cancelled"]
    <2> DEFINE h == past[j] \o <<asked, ended>>
    <2>1. Replays(r, h, RunsOf(runs, j))
      BY <1>5, <1>7, QueuedCancelReplays
    <2>2. job' = [rows EXCEPT ![j] = r] /\ hist' = [past EXCEPT ![j] = h]
      BY <1>1, <1>7
    <2> HIDE DEF r, h
    <2> QED
      BY <1>1, <1>2, <1>4, <2>1, <2>2, OneJobReplays
  <1>8. CASE /\ ~TooLate(rows[j]) /\ rows[j].state = "running"
             /\ job' = [rows EXCEPT ![j].cancel = TRUE]
             /\ hist' = [past EXCEPT ![j] = Append(@, asked)]
    <2> DEFINE r == [rows[j] EXCEPT !.cancel = TRUE]
    <2> DEFINE h == Append(past[j], asked)
    <2>1. Replays(r, h, RunsOf(runs, j))
      BY <1>5, <1>8, AskedReplays DEF TooLate
    <2>2. job' = [rows EXCEPT ![j] = r] /\ hist' = [past EXCEPT ![j] = h]
      BY <1>1, <1>8
    <2> HIDE DEF r, h
    <2> QED
      BY <1>1, <1>2, <1>4, <2>1, <2>2, OneJobReplays
  <1> QED
    BY <1>3, <1>6, <1>7, <1>8

\* The end of an attempt appends what its row becomes.
LEMMA CloseStepReplays ==
  ASSUME ReplayInv, NEW w \in Workers, CloseAttempt(w)
  PROVE  \A k \in Jobs : Replays(job'[k], hist'[k], RunsOf(runs', k))
  <1> DEFINE rows == RecoveredJobs({})
  <1> DEFINE past == RecoveredHist({})
  <1> DEFINE j == lease[w].job
  <1> DEFINE r == rows[j]
  <1> DEFINE op == call[w].op
  <1> DEFINE status == Outcome(op, r)
  <1> DEFINE kind == IF Requeues(op, r) THEN "retried" ELSE status
  <1> DEFINE to == IF Requeues(op, r) THEN "queued" ELSE status
  <1> DEFINE q == Released(r, to)
  <1> DEFINE h == Append(past[j], Event(kind, to, r.attempt, w))
  <1> DEFINE run == [job |-> j, attempt |-> r.attempt, status |-> status,
                     by |-> w, links |-> call[w].links]
  <1>1. rows \in [Jobs -> Rows] /\ past \in [Jobs -> Seq(Events)]
    BY RecoveryFits DEF ReplayInv
  <1>2. AllReplay(rows, past, runs)
    BY RecoveryReplays
  <1>3. lease[w] \in Leases /\ call[w] \in Calls
    BY DEF CloseAttempt, Owned, ReplayInv, JobInv, RegistryTypeOK
  <1>4. j \in Jobs /\ op \in Ops
    BY <1>3 DEF Leases, Calls
  <1>5. /\ Owned(w, rows)
        /\ Allowed(op, r)
        /\ runs' = runs \cup {run}
        /\ job' = [rows EXCEPT ![j] = q]
        /\ hist' = [past EXCEPT ![j] = Append(@, Event(kind, to, r.attempt, w))]
    BY DEF CloseAttempt
  <1>6. r.state = "running" /\ r.owner = w
    BY <1>5 DEF Owned
  <1> HIDE DEF rows, past, op
  <1>7. Replays(q, h, RunsOf(runs, j) \cup {<<r.attempt, status, w>>})
    BY <1>2, <1>4, <1>5, <1>6, ClosingReplays DEF AllReplay
  <1>8. hist' = [past EXCEPT ![j] = h]
    BY <1>1, <1>4, <1>5
  <1>9. /\ run.job = j /\ run.attempt = r.attempt /\ run.status = status /\ run.by = w
    OBVIOUS
  <1> HIDE DEF j, r, status, kind, to, q, h, run
  <1>10. RunsOf(runs', j) = RunsOf(runs, j) \cup {<<r.attempt, status, w>>}
    BY <1>5, <1>9 DEF RunsOf
  <1>11. ASSUME NEW k \in Jobs, k # j PROVE RunsOf(runs', k) = RunsOf(runs, k)
    <2>1. {x \in runs' : x.job = k} = {x \in runs : x.job = k}
      BY <1>5, <1>9, <1>11
    <2> QED
      BY <2>1 DEF RunsOf
  <1>12. ASSUME NEW k \in Jobs PROVE Replays(job'[k], hist'[k], RunsOf(runs', k))
    <2>1. CASE k = j
      BY <1>1, <1>4, <1>5, <1>7, <1>8, <1>10, <2>1
    <2>2. CASE k # j
      BY <1>1, <1>2, <1>5, <1>8, <1>11, <2>2 DEF AllReplay
    <2> QED
      BY <2>1, <2>2
  <1> QED
    BY <1>12

\* Every operation on jobs leaves histories that replay to their rows.
LEMMA JobNextReplays ==
  ASSUME ReplayInv, JobNext
  PROVE  \A k \in Jobs : Replays(job'[k], hist'[k], RunsOf(runs', k))
  <1>1. ASSUME NEW first \in SUBSET Jobs, job' = RecoveredJobs(first),
               hist' = RecoveredHist(first), runs' = runs
        PROVE  \A k \in Jobs : Replays(job'[k], hist'[k], RunsOf(runs', k))
    BY <1>1, RecoveryReplays DEF AllReplay
  <1>2. CASE RecoverExpired
    BY <1>1, <1>2 DEF RecoverExpired
  <1>3. ASSUME NEW w \in Workers, Heartbeat(w)
        PROVE  \A k \in Jobs : Replays(job'[k], hist'[k], RunsOf(runs', k))
    BY <1>1, <1>3 DEF Heartbeat
  <1>4. ASSUME NEW j \in Jobs, Expire(j)
        PROVE  \A k \in Jobs : Replays(job'[k], hist'[k], RunsOf(runs', k))
    <2> DEFINE r == [job[j] EXCEPT !.live = FALSE]
    <2>1. /\ job \in [Jobs -> Rows] /\ hist \in [Jobs -> Seq(Events)]
          /\ Replays(job[j], hist[j], RunsOf(runs, j)) /\ job[j] \in Rows
      BY DEF ReplayInv, JobInv, RegistryTypeOK
    <2>2. /\ r.state = job[j].state /\ r.attempt = job[j].attempt
          /\ r.owner = job[j].owner /\ r.cancel = job[j].cancel
      BY <2>1 DEF Rows
    <2>3. job' = [job EXCEPT ![j] = r] /\ hist' = [hist EXCEPT ![j] = hist[j]]
          /\ runs' = runs
      BY <1>4, <2>1 DEF Expire
    <2> HIDE DEF r
    <2>4. Replays(r, hist[j], RunsOf(runs, j))
      BY <2>1, <2>2 DEF Replays, EndsIn
    <2>5. AllReplay(job, hist, runs)
      BY DEF AllReplay, ReplayInv, JobInv
    <2> QED
      BY <2>1, <2>3, <2>4, <2>5, OneJobReplays
  <1>5. ASSUME UNCHANGED <<job, hist, runs>>
        PROVE  \A k \in Jobs : Replays(job'[k], hist'[k], RunsOf(runs', k))
    BY <1>5 DEF ReplayInv
  <1>6. ASSUME NEW w \in Workers,
               CallFails(w) \/ WorkerStops(w) \/ (\E c \in Calls : Preflight(w, c.op, c.links))
        PROVE  \A k \in Jobs : Replays(job'[k], hist'[k], RunsOf(runs', k))
    BY <1>5, <1>6 DEF CallFails, WorkerStops, Preflight
  <1> QED
    BY <1>2, <1>3, <1>4, <1>6, SubmitReplays, CancelStepReplays, ClaimStepReplays,
       CloseStepReplays DEF JobNext

-----------------------------------------------------------------------------
\* The empty histories replay to the initial rows.
LEMMA ReplayInit == RegistryInit => ReplayInv
  <1> SUFFICES ASSUME RegistryInit PROVE ReplayInv
    OBVIOUS
  <1>1. ASSUME NEW j \in Jobs PROVE Replays(job[j], hist[j], RunsOf(runs, j))
    <2>1. /\ job[j].state = "none" /\ hist[j] = <<>> /\ runs = {} /\ job[j].owner = None
          /\ ~job[j].cancel
      BY DEF RegistryInit
    <2>2. RunsOf(runs, j) = {}
      BY <2>1 DEF RunsOf
    <2>3. DOMAIN hist[j] = {}
      BY <2>1
    <2>4. Accepted(hist[j])
      BY <2>3 DEF Accepted, Tracked
    <2> QED
      BY <2>1, <2>2, <2>4 DEF Replays
  <1> QED
    BY <1>1, RegistryInitFits DEF ReplayInv

\* Every step keeps histories that replay to their rows.
LEMMA ReplayStep ==
  ASSUME ReplayInv, RegistryNext \/ UNCHANGED <<jobVars, row>>
  PROVE  ReplayInv'
  <1>1. JobInv'
    BY RegistryStep DEF ReplayInv
  <1>2. ASSUME UNCHANGED <<job, hist, runs>>
        PROVE  \A k \in Jobs : Replays(job'[k], hist'[k], RunsOf(runs', k))
    BY <1>2 DEF ReplayInv
  <1>3. \/ JobNext
        \/ UNCHANGED <<job, hist, runs>>
    BY DEF RegistryNext, jobVars, RegisterArtifact, AgeRow
  <1>4. \A k \in Jobs : Replays(job'[k], hist'[k], RunsOf(runs', k))
    BY <1>2, <1>3, JobNextReplays
  <1> QED
    BY <1>1, <1>4 DEF ReplayInv

\* The replay of the lifecycle that readiness runs accepts every history, ends in the
\* row it is compared with, and finds exactly the runs that were stored (migrations.py,
\* _verify_job_lifecycle): for any jobs, workers, limits, and order of claims, expiries,
\* cancellations and closing calls.
THEOREM ReadinessIsKept == RegistryAlone => []ReadinessHolds
  <1>1. ReplayInv => ReadinessHolds
    <2> SUFFICES ASSUME ReplayInv, NEW j \in Jobs
                 PROVE  /\ \A n \in DOMAIN hist[j] : LegalEvent(hist[j], n)
                        /\ RowReplays(j)
                        /\ RunsMatch(j)
      BY DEF ReadinessHolds
    <2>1. JobFits(job[j], hist[j]) /\ Replays(job[j], hist[j], RunsOf(runs, j))
      BY DEF ReplayInv, JobInv
    <2>2. RowReplays(j)
      BY <2>1 DEF RowReplays, Replays, EndsIn, Running
    <2>3. RunsMatch(j)
      <3>1. RunsOf(runs, j) = ToldBy(hist[j])
        <4>1. CASE hist[j] = <<>>
          <5>1. 2..Len(hist[j]) = {}
            BY <4>1
          <5> QED
            BY <2>1, <4>1, <5>1 DEF Replays, ToldBy, Closures
        <4> QED
          BY <2>1, <4>1 DEF Replays
      <3> QED
        BY <3>1 DEF RunsMatch, RunsOf, ToldBy, Told
    <2> QED
      BY <2>1, <2>2, <2>3 DEF Replays, Accepted
  <1>2. ReplayInv /\ [RegistryNext]_<<jobVars, row, tomb, storeVars>> => ReplayInv'
    BY ReplayStep
  <1> QED
    BY <1>1, <1>2, ReplayInit, PTL DEF RegistryAlone, RegistryStart

-----------------------------------------------------------------------------
(* Retention.                                                              *)

\* The store: one publication at a time is between link and unlink of its
\* staging name, and only it makes the second link, unless the name is gone.
StoreInv ==
    /\ StoreTypeOK
    /\ \A d \in Digests : file[d].links > 0 => file[d].gen >= 1
    /\ \A p \in Publishers : Phase(p, "linked") => file[pub[p].digest].links \in {0, 2}
    /\ \A p, q \in Publishers : Phase(p, "linked") /\ Phase(q, "linked") => p = q

\* Generation g of d was deleted, whatever was published since.
Gone(d, g) == file[d].gen >= g /\ (file[d].links = 0 \/ file[d].gen > g)

\* A plan is staged whole.
TombInv ==
    /\ tomb \in [Digests -> Tombstones \cup {NoTombstone}]
    /\ \A d \in Digests :
          /\ tomb[d].state # "none" => d \in DOMAIN tomb[d].plan /\ Staged(tomb[d].plan)
          /\ tomb[d].state = "deleted" => Gone(d, tomb[d].plan[d])

Acting == {"chosen", "inspected", "compared", "unlinked"}
Deleting == {"staged", "deleting"} \cup Acting

\* Whoever deletes does so for a staged plan.
Sound(e) ==
    /\ e \in Executions
    /\ e.todo \subseteq DOMAIN e.plan
    /\ e.step \in Deleting => Staged(e.plan)
    /\ e.step \in Acting => e.at \in DOMAIN e.plan
    /\ e.step = "compared" => file[e.at].gen >= e.plan[e.at]
    /\ e.step = "unlinked" => Gone(e.at, e.plan[e.at])

CtlInv ==
    /\ ctl \in [Controllers -> Executions \cup {None}]
    /\ \A c \in Controllers : ctl[c] # None => Sound(ctl[c])

\* A lease is of its job's current attempt or of an older one.
LeaseInv ==
    \A w \in Workers : lease[w] # None =>
        lease[w].attempt <= job[lease[w].job].attempt

Holds(w) ==
    /\ job[lease[w].job].state = "running"
    /\ job[lease[w].job].attempt = lease[w].attempt

\* What a call of the current attempt has preflighted and nobody may delete, and
\* what is linked, is there.
LinkInv ==
    /\ \A w \in Workers : call[w] # None /\ Holds(w) =>
          \A d \in call[w].links : tomb[d].state = "none" => file[d].links = 1
    /\ \A run \in runs : \A d \in run.links :
          file[d].links = 1 /\ tomb[d].state = "none"

RetentionInv ==
    /\ JobInv /\ StoreInv /\ TombInv /\ CtlInv /\ LeaseInv
    /\ LinkInv /\ RetentionExcludesWork

-----------------------------------------------------------------------------
(* Plans and tombstones.                                                   *)

\* A plan names digests and a generation of each.
LEMMA PlanType ==
  ASSUME NEW plan \in Plans
  PROVE  /\ DOMAIN plan \in SUBSET Digests /\ DOMAIN plan # {}
         /\ \A d \in DOMAIN plan : plan[d] \in 1..MaxGen
  BY DEF Plans

\* A tombstone that exists carries a plan.
LEMMA TombType ==
  ASSUME TombInv, NEW d \in Digests
  PROVE  /\ tomb[d].state \in {"none", "pending", "deleted"}
         /\ tomb[d].state # "none" => tomb[d] \in Tombstones /\ tomb[d].plan \in Plans
  BY DEF TombInv, Tombstones, NoTombstone

\* What a controller that runs remembers.
LEMMA CtlType ==
  ASSUME CtlInv, NEW c \in Controllers, ctl[c] # None
  PROVE  /\ ctl[c] \in Executions
         /\ ctl[c].plan \in Plans /\ ctl[c].step \in Steps
         /\ ctl[c].todo \in SUBSET Digests /\ ctl[c].at \in Digests \cup {None}
         /\ DOMAIN ctl[c].plan \in SUBSET Digests
         /\ \A d \in DOMAIN ctl[c].plan : ctl[c].plan[d] \in 1..MaxGen
  <1>1. ctl[c] \in Executions
    BY DEF CtlInv
  <1> QED
    BY <1>1, PlanType DEF Executions

\* An object has a generation and up to two links.
LEMMA FileType ==
  ASSUME StoreInv, NEW d \in Digests
  PROVE  /\ file[d] \in Objects /\ file[d].gen \in Nat /\ file[d].links \in {0, 1, 2}
         /\ file[d].gen <= MaxGen /\ MaxGen \in Nat
  BY MaxGenAssumption DEF StoreInv, StoreTypeOK, Objects

-----------------------------------------------------------------------------
(* The store.                                                              *)

\* A step that changes no file, or files as the store and Unlink do.
LEMMA FileStep ==
  ASSUME RetentionInv, [Next]_vars, NEW d \in Digests
  PROVE  /\ file'[d].gen \in Nat /\ file'[d].links \in {0, 1, 2}
         /\ \A g \in Nat : Gone(d, g) => Gone(d, g)'
         /\ file'[d].gen >= file[d].gen
         /\ \/ /\ file[d].links = 1 => file'[d].links = 1 /\ file'[d].gen = file[d].gen
               /\ file[d].links = 2 => file'[d].links > 0
            \/ \E c \in Controllers : Unlink(c) /\ ctl[c].at = d
  <1> USE DEF RetentionInv
  <1>1. /\ file[d] \in Objects /\ file[d].gen \in Nat /\ file[d].links \in {0, 1, 2}
        /\ file \in [Digests -> Objects]
    BY FileType DEF StoreInv, StoreTypeOK
  <1>2. CASE file' = file
    BY <1>1, <1>2 DEF Gone
  <1>3. ASSUME NEW p \in Publishers, LinkStaged(p)
        PROVE  /\ file'[d].gen \in Nat /\ file'[d].links \in {0, 1, 2}
               /\ \A g \in Nat : Gone(d, g) => Gone(d, g)'
               /\ file'[d].gen >= file[d].gen
               /\ file[d].links = 1 => file'[d].links = 1 /\ file'[d].gen = file[d].gen
               /\ file[d].links = 2 => file'[d].links > 0
    <2>1. CASE pub[p].digest = d
      <3>1. file[d].links = 0 /\ file'[d] = [gen |-> file[d].gen + 1, links |-> 2, aged |-> FALSE]
        BY <1>1, <1>3, <2>1 DEF LinkStaged, Absent
      <3> QED
        BY <1>1, <3>1 DEF Gone
    <2>2. CASE pub[p].digest # d
      <3>1. file'[d] = file[d]
        BY <1>1, <1>3, <2>2 DEF LinkStaged
      <3> QED
        BY <1>1, <3>1 DEF Gone
    <2> QED
      BY <2>1, <2>2
  <1>4. ASSUME NEW p \in Publishers, RemoveStaging(p)
        PROVE  /\ file'[d].gen \in Nat /\ file'[d].links \in {0, 1, 2}
               /\ \A g \in Nat : Gone(d, g) => Gone(d, g)'
               /\ file'[d].gen >= file[d].gen
               /\ file[d].links = 1 => file'[d].links = 1 /\ file'[d].gen = file[d].gen
               /\ file[d].links = 2 => file'[d].links > 0
    <2>1. CASE pub[p].digest = d
      <3>1. file'[d] = [file[d] EXCEPT !.links = IF @ = 2 THEN 1 ELSE @]
        BY <1>1, <1>4, <2>1 DEF RemoveStaging
      <3>2. file[d].links \in {0, 2}
        BY <1>4, <2>1 DEF RemoveStaging, StoreInv
      <3>3. file'[d].gen = file[d].gen
        BY <1>1, <3>1 DEF Objects
      <3>4. file'[d].links = IF file[d].links = 2 THEN 1 ELSE file[d].links
        BY <1>1, <3>1 DEF Objects
      <3> QED
        BY <1>1, <3>2, <3>3, <3>4 DEF Gone
    <2>2. CASE pub[p].digest # d
      <3>1. file'[d] = file[d]
        BY <1>1, <1>4, <2>2 DEF RemoveStaging
      <3> QED
        BY <1>1, <3>1 DEF Gone
    <2> QED
      BY <2>1, <2>2
  <1>5. ASSUME NEW e \in Digests, AgeObject(e)
        PROVE  /\ file'[d].gen \in Nat /\ file'[d].links \in {0, 1, 2}
               /\ \A g \in Nat : Gone(d, g) => Gone(d, g)'
               /\ file'[d].gen >= file[d].gen
               /\ file[d].links = 1 => file'[d].links = 1 /\ file'[d].gen = file[d].gen
               /\ file[d].links = 2 => file'[d].links > 0
    <2>1. file'[d].links = file[d].links /\ file'[d].gen = file[d].gen
      BY <1>1, <1>5 DEF AgeObject, Objects
    <2> QED
      BY <1>1, <2>1 DEF Gone
  <1>6. ASSUME NEW c \in Controllers, Unlink(c)
        PROVE  /\ file'[d].gen \in Nat /\ file'[d].links \in {0, 1, 2}
               /\ \A g \in Nat : Gone(d, g) => Gone(d, g)'
               /\ file'[d].gen >= file[d].gen
               /\ file'[d] = file[d] \/ ctl[c].at = d
    <2>1. CASE ctl[c].at = d
      <3>1. file'[d].links = 0 /\ file'[d].gen = file[d].gen
        BY <1>1, <1>6, <2>1 DEF Unlink, UnlinkNamed, Objects
      <3> QED
        BY <1>1, <2>1, <3>1 DEF Gone
    <2>2. CASE ctl[c].at # d
      <3>1. file'[d] = file[d]
        BY <1>1, <1>6, <2>2 DEF Unlink, UnlinkNamed
      <3> QED
        BY <1>1, <3>1 DEF Gone
    <2> QED
      BY <2>1, <2>2
  <1>7. \/ file' = file
        \/ \E p \in Publishers : LinkStaged(p) \/ RemoveStaging(p)
        \/ \E e \in Digests : AgeObject(e)
        \/ \E c \in Controllers : Unlink(c)
    BY DEF Next, vars, RegistryNext, StoreNext, storeVars, StageCopy, ReuseObject,
       VerifyPublished, PublisherStops, RegisterArtifact, AgeRow, Plan, LoadPlan,
       PreflightIntent, Stage, InspectAll, InspectCandidate,
       CompareCandidate, FinalizeTombstone,
       ControllerStops, SkipFinalized, ChooseCandidate
  <1> QED
    BY <1>2, <1>3, <1>4, <1>5, <1>6, <1>7

\* The store keeps its types and its generations.
LEMMA StoreStep ==
  ASSUME RetentionInv, [Next]_vars
  PROVE  StoreInv'
  <1> USE DEF RetentionInv, StoreInv, StoreTypeOK, Phase
  <1>1. ASSUME NEW p \in Publishers, NEW d \in Digests, StageCopy(p, d) PROVE StoreInv'
    <2>1. [digest |-> d, phase |-> "staged"] \in Publications
      BY DEF Publications, Phases
    <2> QED
      BY <1>1, <2>1 DEF StageCopy
  <1>2. ASSUME NEW p \in Publishers, LinkStaged(p) PROVE StoreInv'
    <2> DEFINE d == pub[p].digest
    <2>1. pub[p] \in Publications /\ d \in Digests
      BY <1>2 DEF LinkStaged, Publications
    <2>2. /\ file[d].gen + 1 \in 1..MaxGen /\ file[d].links = 0
          /\ file' = [file EXCEPT ![d] = [gen |-> file[d].gen + 1, links |-> 2, aged |-> FALSE]]
          /\ pub' = [pub EXCEPT ![p].phase = "linked"]
          /\ \A q \in Publishers : ~Phase(q, "linked")
      BY <1>2, <2>1, FileType DEF LinkStaged, Absent, LockFree
    <2>3. [gen |-> file[d].gen + 1, links |-> 2, aged |-> FALSE] \in Objects
      BY <2>2, MaxGenAssumption DEF Objects
    <2>4. pub'[p].digest = d /\ \A q \in Publishers \ {p} : pub'[q] = pub[q]
      BY <2>1, <2>2
    <2>5. pub' \in [Publishers -> Publications \cup {None}]
      BY <2>1, <2>2 DEF Publications, Phases
    <2>6. /\ file' \in [Digests -> Objects]
          /\ file'[d].links = 2 /\ file'[d].gen = file[d].gen + 1
          /\ \A e \in Digests \ {d} : file'[e] = file[e]
      BY <2>1, <2>2, <2>3
    <2>7. \A e \in Digests : file'[e].links > 0 => file'[e].gen >= 1
      BY <2>1, <2>2, <2>6
    <2> HIDE DEF d
    <2> QED
      BY <2>2, <2>4, <2>5, <2>6, <2>7
  <1>3. ASSUME NEW p \in Publishers, ReuseObject(p) \/ VerifyPublished(p) PROVE StoreInv'
    BY <1>3 DEF ReuseObject, VerifyPublished, Publications, Phases
  <1>4. ASSUME NEW p \in Publishers, RemoveStaging(p) PROVE StoreInv'
    <2> DEFINE d == pub[p].digest
    <2>1. pub[p] \in Publications /\ d \in Digests /\ file[d].links \in {0, 2}
      BY <1>4 DEF RemoveStaging, Publications
    <2>2. /\ file' = [file EXCEPT ![d].links = IF file[d].links = 2 THEN 1 ELSE file[d].links]
          /\ pub' = [pub EXCEPT ![p].phase = "unstaged"]
          /\ \A q \in Publishers : Phase(q, "linked") => q = p
      BY <1>4 DEF RemoveStaging
    <2>3. pub' \in [Publishers -> Publications \cup {None}]
      BY <2>1, <2>2 DEF Publications, Phases
    <2>4. /\ file' \in [Digests -> Objects]
          /\ \A e \in Digests : file'[e].links > 0 => file'[e].gen >= 1
      BY <2>1, <2>2 DEF Objects
    <2>5. \A q \in Publishers : ~Phase(q, "linked")'
      BY <2>1, <2>2
    <2> QED
      BY <2>3, <2>4, <2>5
  <1>5. ASSUME NEW p \in Publishers, PublisherStops(p) \/ RegisterArtifact(p) PROVE StoreInv'
    BY <1>5 DEF PublisherStops, RegisterArtifact
  <1>6. ASSUME NEW e \in Digests, AgeObject(e) PROVE StoreInv'
    <2>1. /\ file' \in [Digests -> Objects]
          /\ \A d \in Digests : file'[d].gen = file[d].gen /\ file'[d].links = file[d].links
          /\ pub' = pub
      BY <1>6 DEF AgeObject, Objects
    <2>2. \A p \in Publishers : Phase(p, "linked") => pub[p].digest \in Digests
      BY DEF Publications
    <2> QED
      BY <2>1, <2>2
  <1>7. ASSUME NEW c \in Controllers, Unlink(c) PROVE StoreInv'
    <2> DEFINE d == ctl[c].at
    <2>1. /\ d \in Digests
          /\ file' = [file EXCEPT ![d] = [gen |-> file[d].gen, links |-> 0, aged |-> FALSE]]
          /\ pub' = pub
      <3>1. ctl[c] # None /\ ctl[c].step = "compared"
        BY <1>7 DEF Unlink, At
      <3>2. ctl[c].at \in Digests
        BY <3>1, CtlType DEF CtlInv, Sound, Acting
      <3> QED
        BY <1>7, <3>2 DEF Unlink, UnlinkNamed
    <2> HIDE DEF d
    <2>2. /\ file' \in [Digests -> Objects]
          /\ \A e \in Digests : file'[e].gen = file[e].gen
          /\ \A e \in Digests \ {d} : file'[e] = file[e]
          /\ file'[d].links = 0
      <3>1. file[d].gen \in 0..MaxGen
        BY <2>1 DEF Objects
      <3>2. [gen |-> file[d].gen, links |-> 0, aged |-> FALSE] \in Objects
        BY <3>1 DEF Objects
      <3> QED
        BY <2>1, <3>2
    <2>3. \A p \in Publishers : Phase(p, "linked") => pub[p].digest \in Digests
      BY DEF Publications
    <2>4. \A e \in Digests : file'[e].links > 0 => file'[e].gen >= 1
      BY <2>1, <2>2
    <2> QED
      BY <2>1, <2>2, <2>3, <2>4
  <1>8. CASE UNCHANGED storeVars
    BY <1>8 DEF storeVars
  <1>9. \/ UNCHANGED storeVars
        \/ \E p \in Publishers :
              \/ \E d \in Digests : StageCopy(p, d)
              \/ LinkStaged(p) \/ ReuseObject(p) \/ RemoveStaging(p)
              \/ VerifyPublished(p) \/ PublisherStops(p) \/ RegisterArtifact(p)
        \/ \E d \in Digests : AgeObject(d)
        \/ \E c \in Controllers : Unlink(c)
    BY DEF Next, vars, RegistryNext, StoreNext, AgeRow, Plan, LoadPlan,
       PreflightIntent, Stage, InspectAll, InspectCandidate,
       CompareCandidate, FinalizeTombstone,
       ControllerStops, SkipFinalized, ChooseCandidate
  <1> QED
    BY <1>1, <1>2, <1>3, <1>4, <1>5, <1>6, <1>7, <1>8, <1>9

-----------------------------------------------------------------------------
(* Tombstones.                                                             *)

\* Whose plan a controller executes, and what it is about to act on.
LEMMA CtlPlan ==
  ASSUME RetentionInv, NEW c \in Controllers, NEW step, At(c, step)
  PROVE  /\ ctl[c] # None /\ ctl[c].step = step
         /\ ctl[c].plan \in Plans /\ DOMAIN ctl[c].plan \in SUBSET Digests
         /\ ctl[c].todo \subseteq DOMAIN ctl[c].plan
         /\ step \in Deleting => Staged(ctl[c].plan)
         /\ step \in Acting =>
               /\ ctl[c].at \in DOMAIN ctl[c].plan /\ ctl[c].at \in Digests
               /\ tomb[ctl[c].at] \in Tombstones
               /\ tomb[ctl[c].at].plan = ctl[c].plan
  <1>1. ctl[c] # None /\ ctl[c].step = step
    BY DEF At
  <1>2. /\ ctl[c].plan \in Plans /\ DOMAIN ctl[c].plan \in SUBSET Digests
        /\ ctl[c].todo \subseteq DOMAIN ctl[c].plan
        /\ step \in Deleting => Staged(ctl[c].plan)
        /\ step \in Acting =>
              ctl[c].at \in DOMAIN ctl[c].plan
    BY <1>1, CtlType DEF RetentionInv, CtlInv, Sound
  <1>3. ASSUME step \in Acting
        PROVE  tomb[ctl[c].at] \in Tombstones /\ tomb[ctl[c].at].plan = ctl[c].plan
    <2>1. Staged(ctl[c].plan) /\ ctl[c].at \in DOMAIN ctl[c].plan /\ ctl[c].at \in Digests
      BY <1>2, <1>3 DEF Deleting
    <2>2. tomb[ctl[c].at].state # "none" /\ tomb[ctl[c].at].plan = ctl[c].plan
      BY <2>1 DEF Staged, InPlan
    <2> QED
      BY <2>1, <2>2, TombType DEF RetentionInv
  <1> QED
    BY <1>1, <1>2, <1>3

\* What Stage and FinalizeTombstone do to the tombstones; nothing else touches them.
LEMMA TombChange ==
  ASSUME RetentionInv, [Next]_vars
  PROVE  \/ tomb' = tomb
         \/ \E c \in Controllers :
              /\ Stage(c)
              /\ ctl[c].plan \in Plans /\ DOMAIN ctl[c].plan \in SUBSET Digests
              /\ \A d \in DOMAIN ctl[c].plan : tomb[d].state = "none" /\ ~Linked(d)
              /\ tomb' = [d \in Digests |->
                            IF d \in DOMAIN ctl[c].plan
                            THEN [state |-> "pending", plan |-> ctl[c].plan] ELSE tomb[d]]
         \/ \E c \in Controllers :
              /\ FinalizeTombstone(c)
              /\ ctl[c].at \in Digests /\ tomb[ctl[c].at] \in Tombstones
              /\ ~Linked(ctl[c].at)
              /\ Gone(ctl[c].at, tomb[ctl[c].at].plan[ctl[c].at])
              /\ tomb' = [tomb EXCEPT ![ctl[c].at].state = "deleted"]
  <1>1. ASSUME NEW c \in Controllers, Stage(c), ~Staged(ctl[c].plan)
        PROVE  /\ ctl[c].plan \in Plans /\ DOMAIN ctl[c].plan \in SUBSET Digests
               /\ \A d \in DOMAIN ctl[c].plan : tomb[d].state = "none" /\ ~Linked(d)
               /\ tomb' = [d \in Digests |->
                             IF d \in DOMAIN ctl[c].plan
                             THEN [state |-> "pending", plan |-> ctl[c].plan] ELSE tomb[d]]
    <2>1. At(c, "preflighted") /\ DurableStateFits(ctl[c].plan)
      BY <1>1 DEF Stage
    <2>2. \A d \in DOMAIN ctl[c].plan : tomb[d].state = "none" /\ ~Linked(d)
      BY <1>1, <2>1 DEF DurableStateFits, Revalidated
    <2> QED
      BY <1>1, <2>1, <2>2, CtlPlan DEF Stage
  <1>2. ASSUME NEW c \in Controllers, Stage(c), Staged(ctl[c].plan)
        PROVE  tomb' = tomb
    BY <1>2 DEF Stage
  <1>3. ASSUME NEW c \in Controllers, FinalizeTombstone(c)
        PROVE  /\ ctl[c].at \in Digests /\ tomb[ctl[c].at] \in Tombstones
               /\ ~Linked(ctl[c].at)
               /\ Gone(ctl[c].at, tomb[ctl[c].at].plan[ctl[c].at])
               /\ tomb' = [tomb EXCEPT ![ctl[c].at].state = "deleted"]
    <2>1. At(c, "unlinked") /\ Revalidated(ctl[c].at)
          /\ tomb' = [tomb EXCEPT ![ctl[c].at].state = "deleted"]
      BY <1>3 DEF FinalizeTombstone
    <2>2. /\ ctl[c].at \in Digests /\ tomb[ctl[c].at] \in Tombstones
          /\ tomb[ctl[c].at].plan = ctl[c].plan
      BY <2>1, CtlPlan DEF Acting
    <2>3. Gone(ctl[c].at, ctl[c].plan[ctl[c].at])
      BY <2>1 DEF At, RetentionInv, CtlInv, Sound
    <2> QED
      BY <2>1, <2>2, <2>3 DEF Revalidated
  <1>4. \/ tomb' = tomb
        \/ \E c \in Controllers : Stage(c) \/ FinalizeTombstone(c)
    BY DEF Next, vars, RegistryNext, Plan, LoadPlan, PreflightIntent, InspectAll,
       InspectCandidate, CompareCandidate, Unlink, ControllerStops, SkipFinalized, ChooseCandidate
  <1> QED
    BY <1>1, <1>2, <1>3, <1>4

\* A tombstone once written keeps its plan.
LEMMA TombKept ==
  ASSUME RetentionInv, [Next]_vars, NEW d \in Digests
  PROVE  /\ tomb[d].state # "none" =>
              tomb'[d].state # "none" /\ tomb'[d].plan = tomb[d].plan
         /\ tomb'[d].state = "deleted" =>
              tomb[d].state # "none" /\ Gone(d, tomb[d].plan[d])
         /\ tomb'[d].state = "pending" /\ tomb[d].state # "pending" =>
              \E c \in Controllers : Stage(c) /\ d \in DOMAIN ctl[c].plan /\ ~Linked(d)
  <1>1. DOMAIN tomb = Digests /\ (tomb[d].state = "deleted" => Gone(d, tomb[d].plan[d]))
    BY DEF RetentionInv, TombInv
  <1>2. CASE tomb' = tomb
    BY <1>1, <1>2
  <1>3. ASSUME NEW c \in Controllers, Stage(c),
               \A e \in DOMAIN ctl[c].plan : tomb[e].state = "none" /\ ~Linked(e),
               tomb' = [e \in Digests |->
                          IF e \in DOMAIN ctl[c].plan
                          THEN [state |-> "pending", plan |-> ctl[c].plan] ELSE tomb[e]]
        PROVE  /\ tomb[d].state # "none" => tomb'[d] = tomb[d]
               /\ tomb'[d].state = "deleted" => tomb'[d] = tomb[d]
               /\ tomb'[d].state = "pending" =>
                    tomb'[d] = tomb[d] \/ (d \in DOMAIN ctl[c].plan /\ ~Linked(d))
    <2>1. CASE d \in DOMAIN ctl[c].plan
      <3>1. tomb[d].state = "none" /\ ~Linked(d)
        BY <1>3, <2>1
      <3>2. tomb'[d] = [state |-> "pending", plan |-> ctl[c].plan]
        BY <1>3, <2>1
      <3> QED
        BY <2>1, <3>1, <3>2
    <2>2. CASE d \notin DOMAIN ctl[c].plan
      BY <1>3, <2>2
    <2> QED
      BY <2>1, <2>2
  <1>4. ASSUME NEW c \in Controllers,
               ctl[c].at \in Digests, tomb[ctl[c].at] \in Tombstones,
               Gone(ctl[c].at, tomb[ctl[c].at].plan[ctl[c].at]),
               tomb' = [tomb EXCEPT ![ctl[c].at].state = "deleted"]
        PROVE  \/ tomb'[d] = tomb[d]
               \/ /\ tomb[d].state # "none" /\ tomb'[d].state = "deleted"
                  /\ tomb'[d].plan = tomb[d].plan /\ Gone(d, tomb[d].plan[d])
    <2>1. CASE d = ctl[c].at
      <3>1. tomb[d] \in Tombstones
        BY <1>4, <2>1
      <3>2. tomb'[d] = [tomb[d] EXCEPT !.state = "deleted"]
        BY <1>1, <1>4, <2>1
      <3>3. tomb'[d].state = "deleted" /\ tomb'[d].plan = tomb[d].plan
            /\ tomb[d].state # "none"
        BY <3>1, <3>2 DEF Tombstones
      <3> QED
        BY <1>4, <2>1, <3>3
    <2>2. CASE d # ctl[c].at
      BY <1>1, <1>4, <2>2
    <2> QED
      BY <2>1, <2>2
  <1> QED
    BY <1>1, <1>2, <1>3, <1>4, TombChange

\* A plan that is staged stays so.
LEMMA StagedKept ==
  ASSUME RetentionInv, [Next]_vars, NEW plan \in Plans, Staged(plan)
  PROVE  \A d \in DOMAIN plan : tomb'[d].state # "none" /\ tomb'[d].plan = plan
  BY TombKept, PlanType DEF Staged, InPlan

\* Tombstones stay what they were written as.
LEMMA TombStep ==
  ASSUME RetentionInv, [Next]_vars
  PROVE  TombInv'
  <1>1. tomb \in [Digests -> Tombstones \cup {NoTombstone}]
    BY DEF RetentionInv, TombInv
  <1>2. tomb' \in [Digests -> Tombstones \cup {NoTombstone}]
    <2>1. ASSUME NEW c \in Controllers, ctl[c].plan \in Plans
          PROVE  [state |-> "pending", plan |-> ctl[c].plan] \in Tombstones
      BY <2>1 DEF Tombstones
    <2>2. ASSUME NEW d \in Digests, tomb[d] \in Tombstones
          PROVE  [tomb[d] EXCEPT !.state = "deleted"] \in Tombstones
      BY <2>2 DEF Tombstones
    <2> QED
      BY <1>1, <2>1, <2>2, TombChange
  <1>3. ASSUME NEW d \in Digests, tomb'[d].state # "none"
        PROVE  /\ d \in DOMAIN tomb'[d].plan
               /\ \A e \in DOMAIN tomb'[d].plan :
                     tomb'[e].state # "none" /\ tomb'[e].plan = tomb'[d].plan
    <2>1. CASE tomb[d].state # "none"
      <3>1. d \in DOMAIN tomb[d].plan /\ Staged(tomb[d].plan) /\ tomb[d].plan \in Plans
        BY <2>1, TombType DEF RetentionInv, TombInv
      <3>2. tomb'[d].plan = tomb[d].plan
        BY <2>1, TombKept
      <3>3. \A e \in DOMAIN tomb[d].plan :
               tomb'[e].state # "none" /\ tomb'[e].plan = tomb[d].plan
        BY <3>1, StagedKept
      <3> QED
        BY <3>1, <3>2, <3>3
    <2>2. CASE tomb[d].state = "none"
      <3>1. PICK c \in Controllers :
               /\ ctl[c].plan \in Plans /\ DOMAIN ctl[c].plan \in SUBSET Digests
               /\ tomb' = [e \in Digests |->
                             IF e \in DOMAIN ctl[c].plan
                             THEN [state |-> "pending", plan |-> ctl[c].plan] ELSE tomb[e]]
        <4>1. tomb[d] \notin Tombstones
          BY <2>2 DEF Tombstones
        <4>2. \A e \in Digests : tomb[e] \in Tombstones => d # e
          BY <4>1
        <4> QED
          BY <1>1, <1>3, <2>2, <4>2, TombChange
      <3>2. d \in DOMAIN ctl[c].plan /\ tomb'[d].plan = ctl[c].plan
        BY <1>3, <2>2, <3>1
      <3>3. \A e \in DOMAIN ctl[c].plan :
               tomb'[e].state # "none" /\ tomb'[e].plan = ctl[c].plan
        BY <3>1
      <3> QED
        BY <3>2, <3>3
    <2> QED
      BY <2>1, <2>2
  <1>4. ASSUME NEW d \in Digests, tomb'[d].state = "deleted"
        PROVE  /\ file'[d].gen >= tomb'[d].plan[d]
               /\ file'[d].links = 0 \/ file'[d].gen > tomb'[d].plan[d]
    <2>1. tomb[d].state # "none" /\ Gone(d, tomb[d].plan[d]) /\ tomb'[d].plan = tomb[d].plan
      BY <1>4, TombKept
    <2>2. tomb[d].plan \in Plans /\ d \in DOMAIN tomb[d].plan
      BY <2>1, TombType DEF RetentionInv, TombInv
    <2>3. tomb[d].plan[d] \in Nat
      BY <2>2, PlanType, MaxGenAssumption
    <2> QED
      BY <2>1, <2>3, FileStep DEF Gone
  <1> QED
    BY <1>2, <1>3, <1>4 DEF TombInv, Staged, InPlan, Gone

-----------------------------------------------------------------------------
(* Executions.                                                             *)

\* What an execution relies on stays true whatever the others do.
LEMMA SoundKept ==
  ASSUME RetentionInv, [Next]_vars, NEW e, Sound(e)
  PROVE  Sound(e)'
  <1>1. e \in Executions /\ e.plan \in Plans
    BY DEF Sound, Executions
  <1>2. DOMAIN e.plan \in SUBSET Digests /\ \A d \in DOMAIN e.plan : e.plan[d] \in Nat
    BY <1>1, PlanType, MaxGenAssumption
  <1>3. ASSUME e.step \in Deleting
        PROVE  \A d \in DOMAIN e.plan : tomb'[d].state # "none" /\ tomb'[d].plan = e.plan
    BY <1>1, <1>3, StagedKept DEF Sound
  <1>4. ASSUME e.step = "unlinked" PROVE Gone(e.at, e.plan[e.at])'
    <2>1. e.at \in DOMAIN e.plan /\ Gone(e.at, e.plan[e.at])
      BY <1>4 DEF Sound, Acting
    <2> QED
      BY <1>2, <2>1, FileStep
  <1>5. ASSUME e.step = "compared" PROVE file'[e.at].gen >= e.plan[e.at]
    <2>1. e.at \in DOMAIN e.plan /\ file[e.at].gen >= e.plan[e.at]
      BY <1>5 DEF Sound, Acting
    <2>2. e.at \in Digests /\ e.plan[e.at] \in Nat
      BY <1>2, <2>1
    <2> QED
      BY <2>1, <2>2, FileStep, FileType DEF RetentionInv
  <1> QED
    BY <1>3, <1>4, <1>5 DEF Sound, Staged, InPlan

\* One controller gets a sound execution, or none.
LEMMA CtlOfParts ==
  ASSUME RetentionInv, [Next]_vars, NEW c \in Controllers, NEW e,
         e = None \/ Sound(e)', ctl' = [ctl EXCEPT ![c] = e]
  PROVE  CtlInv'
  <1>1. ctl \in [Controllers -> Executions \cup {None}]
    BY DEF RetentionInv, CtlInv
  <1>2. e \in Executions \cup {None}
    BY DEF Sound
  <1>3. ctl' \in [Controllers -> Executions \cup {None}]
    BY <1>1, <1>2
  <1>4. ASSUME NEW x \in Controllers, ctl'[x] # None PROVE Sound(ctl[x])'
    <2>1. CASE x = c
      <3>1. ctl'[x] = e
        BY <1>1, <2>1
      <3> QED
        BY <1>4, <3>1 DEF Sound, Staged, InPlan, Gone
    <2>2. CASE x # c
      <3>1. PICK k : k = ctl[x]
        OBVIOUS
      <3>2. ctl'[x] = k /\ Sound(k)
        BY <1>1, <1>4, <2>2, <3>1 DEF RetentionInv, CtlInv
      <3>3. Sound(k)'
        BY <3>2, SoundKept
      <3> QED
        BY <3>2, <3>3 DEF Sound, Staged, InPlan, Gone
    <2> QED
      BY <2>1, <2>2
  <1> QED
    BY <1>3, <1>4 DEF CtlInv

\* A step of anybody else leaves the executions sound.
LEMMA CtlSame ==
  ASSUME RetentionInv, [Next]_vars, ctl' = ctl
  PROVE  CtlInv'
  <1>1. ASSUME NEW x \in Controllers, ctl[x] # None PROVE Sound(ctl[x])'
    <2>1. PICK k : k = ctl[x]
      OBVIOUS
    <2>2. Sound(k)'
      BY <1>1, <2>1, SoundKept DEF RetentionInv, CtlInv
    <2> QED
      BY <2>1, <2>2 DEF Sound, Staged, InPlan, Gone
  <1> QED
    BY <1>1 DEF CtlInv, RetentionInv

\* The generation of an object that can be read is one that was published.
LEMMA VerifiedGen ==
  ASSUME RetentionInv, NEW d \in Digests, Verified(d)
  PROVE  file[d].gen \in 1..MaxGen
  BY FileType DEF Verified, RetentionInv, StoreInv

\* A fresh plan is sound.
LEMMA PlanStep ==
  ASSUME RetentionInv, [Next]_vars, NEW c \in Controllers, Plan(c)
  PROVE  CtlInv'
  <1>1. PICK rows \in SUBSET Eligible :
           /\ \A d \in rows : Verified(d)
           /\ LET chosen == {d \in rows : file[d].aged}
              IN  /\ chosen # {}
                  /\ ctl' = [ctl EXCEPT ![c] =
                               [step |-> "planned",
                                plan |-> [d \in chosen |-> file[d].gen],
                                todo |-> {}, at |-> None]]
    BY DEF Plan
  <1> DEFINE chosen == {d \in rows : file[d].aged}
  <1>2. PICK plan : plan = [d \in chosen |-> file[d].gen]
    OBVIOUS
  <1>3. chosen \in (SUBSET Digests) \ {{}}
    BY <1>1 DEF Eligible
  <1>4. plan \in [chosen -> 1..MaxGen]
    BY <1>1, <1>2, VerifiedGen DEF Eligible
  <1>5. plan \in Plans
    BY <1>3, <1>4 DEF Plans
  <1>6. PICK e : e = [step |-> "planned", plan |-> plan, todo |-> {}, at |-> None]
    OBVIOUS
  <1>7. Sound(e)'
    BY <1>5, <1>6 DEF Sound, Executions, Steps, Deleting, Acting
  <1> QED
    BY <1>1, <1>2, <1>6, <1>7, CtlOfParts

\* A plan loaded from a tombstone is sound.
LEMMA LoadStep ==
  ASSUME RetentionInv, [Next]_vars, NEW c \in Controllers, LoadPlan(c)
  PROVE  CtlInv'
  <1>1. PICK d \in Digests :
           /\ tomb[d].state # "none"
           /\ ctl' = [ctl EXCEPT ![c] = [step |-> "planned", plan |-> tomb[d].plan,
                                         todo |-> {}, at |-> None]]
    BY DEF LoadPlan
  <1>2. PICK plan : plan = tomb[d].plan
    OBVIOUS
  <1>3. plan \in Plans
    BY <1>1, <1>2, TombType DEF RetentionInv
  <1>4. PICK e : e = [step |-> "planned", plan |-> plan, todo |-> {}, at |-> None]
    OBVIOUS
  <1>5. Sound(e)'
    BY <1>3, <1>4 DEF Sound, Executions, Steps, Deleting, Acting
  <1> QED
    BY <1>1, <1>2, <1>4, <1>5, CtlOfParts

\* A controller goes on with its plan, which is staged once deletion begins.
LEMMA Onwards ==
  ASSUME RetentionInv, [Next]_vars, NEW c \in Controllers, ctl[c] # None,
         NEW step \in Steps, NEW todo \in SUBSET (DOMAIN ctl[c].plan),
         NEW at \in Digests \cup {None}, Advance(c, step, todo, at),
         step \in Deleting =>
            \A d \in DOMAIN ctl[c].plan :
               tomb'[d].state # "none" /\ tomb'[d].plan = ctl[c].plan,
         step \in Acting => at \in DOMAIN ctl[c].plan,
         step = "compared" => file'[at].gen >= ctl[c].plan[at],
         step = "unlinked" => /\ file'[at].gen >= ctl[c].plan[at]
                              /\ file'[at].links = 0
  PROVE  CtlInv'
  <1>1. PICK plan : plan = ctl[c].plan
    OBVIOUS
  <1>2. PICK e : e = [step |-> step, plan |-> plan, todo |-> todo, at |-> at]
    OBVIOUS
  <1>3. plan \in Plans /\ DOMAIN plan \in SUBSET Digests
    BY <1>1, CtlType DEF RetentionInv
  <1>4. e \in Executions
    BY <1>1, <1>2, <1>3 DEF Executions
  <1>5. step \in Deleting => Staged(plan)'
    BY <1>1 DEF Staged, InPlan
  <1>6. step = "unlinked" => Gone(at, plan[at])'
    BY <1>1 DEF Gone
  <1>7. Sound(e)'
    BY <1>1, <1>2, <1>4, <1>5, <1>6 DEF Sound
  <1>8. ctl' = [ctl EXCEPT ![c] = e]
    BY <1>1, <1>2 DEF Advance, RetentionInv, CtlInv
  <1> QED
    BY <1>7, <1>8, CtlOfParts

\* A controller goes on or stops: its execution stays sound.
LEMMA ControllerStep ==
  ASSUME RetentionInv, [Next]_vars, NEW c \in Controllers, NEW d \in Digests,
         \/ PreflightIntent(c) \/ Stage(c) \/ InspectAll(c) \/ InspectCandidate(c)
         \/ CompareCandidate(c) \/ Unlink(c) \/ FinalizeTombstone(c) \/ ControllerStops(c)
         \/ SkipFinalized(c, d) \/ ChooseCandidate(c, d)
  PROVE  CtlInv'
  <1>1. CASE ControllerStops(c)
    BY <1>1, CtlOfParts DEF ControllerStops
  <1>2. ASSUME ctl[c] # None
        PROVE  /\ ctl[c].plan \in Plans
               /\ ctl[c].todo \in SUBSET (DOMAIN ctl[c].plan)
               /\ ctl[c].at \in Digests \cup {None}
               /\ DOMAIN ctl[c].plan \in SUBSET Digests
               /\ \A x \in DOMAIN ctl[c].plan : ctl[c].plan[x] \in Nat
               /\ ctl[c].step \in Deleting => Staged(ctl[c].plan)
               /\ ctl[c].step \in Acting => ctl[c].at \in DOMAIN ctl[c].plan
               /\ ctl[c].step = "compared" => file[ctl[c].at].gen >= ctl[c].plan[ctl[c].at]
    <2>1. ctl[c] \in Executions /\ Sound(ctl[c])
      BY <1>2 DEF RetentionInv, CtlInv, Sound
    <2>2. ctl[c].plan \in Plans
      BY <2>1 DEF Executions
    <2> QED
      BY <2>1, <2>2, PlanType, MaxGenAssumption DEF Executions, Sound
  <1>3. ASSUME ctl[c] # None, ctl[c].step \in Deleting
        PROVE  \A x \in DOMAIN ctl[c].plan :
                  tomb'[x].state # "none" /\ tomb'[x].plan = ctl[c].plan
    BY <1>2, <1>3, StagedKept
  <1>4. /\ {} \in SUBSET (DOMAIN ctl[c].plan) /\ None \in Digests \cup {None}
        /\ {"planned", "preflighted", "staged", "deleting", "chosen",
            "inspected", "compared", "unlinked"} = Steps
        /\ Acting = {"chosen", "inspected", "compared", "unlinked"}
        /\ Deleting = {"staged", "deleting", "chosen", "inspected", "compared", "unlinked"}
    BY DEF Steps, Deleting, Acting
  <1>5. CASE PreflightIntent(c)
    <2>1. ctl[c] # None /\ Advance(c, "preflighted", {}, None)
      BY <1>5 DEF PreflightIntent, At
    <2> QED
      BY <1>4, <2>1, Onwards
  <1>6. CASE Stage(c)
    <2>1. ctl[c] # None /\ Advance(c, "staged", {}, None)
      BY <1>6 DEF Stage, At
    <2>2. \A x \in DOMAIN ctl[c].plan :
             tomb'[x].state # "none" /\ tomb'[x].plan = ctl[c].plan
      <3>1. CASE Staged(ctl[c].plan)
        BY <1>2, <2>1, <3>1, StagedKept
      <3>2. CASE ~Staged(ctl[c].plan)
        BY <1>2, <1>6, <2>1, <3>2 DEF Stage
      <3> QED
        BY <3>1, <3>2
    <2> QED
      BY <1>4, <2>1, <2>2, Onwards
  <1>7. CASE InspectAll(c)
    <2>1. PICK left : left = {x \in DOMAIN ctl[c].plan : tomb[x].state = "pending"}
      OBVIOUS
    <2>2. ctl[c] # None /\ ctl[c].step = "staged" /\ Advance(c, "deleting", left, None)
      BY <1>7, <2>1 DEF InspectAll, At
    <2>3. left \in SUBSET (DOMAIN ctl[c].plan)
      BY <2>1
    <2> QED
      BY <1>3, <1>4, <2>2, <2>3, Onwards
  <1>8. CASE SkipFinalized(c, d)
    <2>1. PICK left : left = ctl[c].todo \ {d}
      OBVIOUS
    <2>2. ctl[c] # None /\ ctl[c].step = "deleting" /\ Advance(c, "deleting", left, None)
      BY <1>8, <2>1 DEF SkipFinalized, At
    <2>3. left \in SUBSET (DOMAIN ctl[c].plan)
      BY <1>2, <2>1, <2>2
    <2> QED
      BY <1>3, <1>4, <2>2, <2>3, Onwards
  <1>9. CASE ChooseCandidate(c, d)
    <2>1. PICK todo : todo = ctl[c].todo
      OBVIOUS
    <2>2. ctl[c] # None /\ ctl[c].step = "deleting" /\ d \in todo
          /\ Advance(c, "chosen", todo, d)
      BY <1>9, <2>1 DEF ChooseCandidate, At
    <2>3. todo \in SUBSET (DOMAIN ctl[c].plan) /\ d \in DOMAIN ctl[c].plan
      BY <1>2, <2>1, <2>2
    <2> QED
      BY <1>3, <1>4, <2>2, <2>3, Onwards
  <1>10. CASE InspectCandidate(c)
    <2>1. PICK todo, at : todo = ctl[c].todo /\ at = ctl[c].at
      OBVIOUS
    <2>2. ctl[c] # None /\ ctl[c].step = "chosen" /\ Advance(c, "inspected", todo, at)
      BY <1>10, <2>1 DEF InspectCandidate, At
    <2>3. todo \in SUBSET (DOMAIN ctl[c].plan) /\ at \in DOMAIN ctl[c].plan
          /\ at \in Digests \cup {None}
      BY <1>2, <1>4, <2>1, <2>2
    <2> QED
      BY <1>3, <1>4, <2>2, <2>3, Onwards
  <1>11. CASE CompareCandidate(c)
    <2>1. PICK todo, at : todo = ctl[c].todo /\ at = ctl[c].at
      OBVIOUS
    <2>2. ctl[c] # None /\ ctl[c].step = "inspected" /\ Advance(c, "compared", todo, at)
          /\ file[at].gen = ctl[c].plan[at] /\ file' = file
      BY <1>11, <2>1 DEF CompareCandidate, CompareVerified, At, storeVars
    <2>3. todo \in SUBSET (DOMAIN ctl[c].plan) /\ at \in DOMAIN ctl[c].plan
          /\ at \in Digests \cup {None} /\ ctl[c].plan[at] \in Nat
      BY <1>2, <1>4, <2>1, <2>2
    <2>4. file'[at].gen >= ctl[c].plan[at]
      BY <2>2, <2>3
    <2> QED
      BY <1>3, <1>4, <2>2, <2>3, <2>4, Onwards
  <1>12. CASE Unlink(c)
    <2>1. PICK todo, at : todo = ctl[c].todo /\ at = ctl[c].at
      OBVIOUS
    <2>2. ctl[c] # None /\ ctl[c].step = "compared" /\ Advance(c, "unlinked", todo, at)
          /\ UnlinkNamed(at)
      BY <1>12, <2>1 DEF Unlink, At
    <2>3. todo \in SUBSET (DOMAIN ctl[c].plan) /\ at \in DOMAIN ctl[c].plan
          /\ at \in Digests \cup {None} /\ at \in Digests
          /\ file[at].gen >= ctl[c].plan[at]
      BY <1>2, <1>4, <2>1, <2>2
    <2>4. file'[at].gen >= ctl[c].plan[at] /\ file'[at].links = 0
      <3>1. file'[at] = [gen |-> file[at].gen, links |-> 0, aged |-> FALSE]
        BY <2>2, <2>3 DEF UnlinkNamed, RetentionInv, StoreInv, StoreTypeOK
      <3> QED
        BY <2>3, <3>1
    <2> QED
      BY <1>3, <1>4, <2>2, <2>3, <2>4, Onwards
  <1>13. CASE FinalizeTombstone(c)
    <2>1. PICK left : left = ctl[c].todo \ {ctl[c].at}
      OBVIOUS
    <2>2. ctl[c] # None /\ ctl[c].step = "unlinked" /\ Advance(c, "deleting", left, None)
      BY <1>13, <2>1 DEF FinalizeTombstone, At
    <2>3. left \in SUBSET (DOMAIN ctl[c].plan)
      BY <1>2, <2>1, <2>2
    <2> QED
      BY <1>3, <1>4, <2>2, <2>3, Onwards
  <1> QED
    BY <1>1, <1>5, <1>6, <1>7, <1>8, <1>9, <1>10, <1>11, <1>12, <1>13

\* The executions stay sound.
LEMMA CtlStep ==
  ASSUME RetentionInv, [Next]_vars
  PROVE  CtlInv'
  <1>1. \/ ctl' = ctl
        \/ \E c \in Controllers : Plan(c) \/ LoadPlan(c)
        \/ \E c \in Controllers :
              PreflightIntent(c) \/ Stage(c) \/ InspectAll(c) \/ InspectCandidate(c)
        \/ \E c \in Controllers : CompareCandidate(c) \/ Unlink(c) \/ FinalizeTombstone(c)
                                  \/ ControllerStops(c)
        \/ \E c \in Controllers, d \in Digests : SkipFinalized(c, d) \/ ChooseCandidate(c, d)
    BY DEF Next, vars
  <1>2. ASSUME NEW c \in Controllers,
               PreflightIntent(c) \/ Stage(c) \/ InspectAll(c) \/ InspectCandidate(c)
        PROVE  \E d \in Digests : TRUE
    <2>1. ctl[c] # None
      BY <1>2 DEF PreflightIntent, Stage, InspectAll, InspectCandidate, At
    <2>2. ctl[c].plan \in Plans
      BY <2>1, CtlType DEF RetentionInv
    <2> QED
      BY <2>2, PlanType
  <1>3. ASSUME NEW c \in Controllers, CompareCandidate(c) \/ Unlink(c) \/ FinalizeTombstone(c)
        PROVE  \E d \in Digests : TRUE
    <2>1. ctl[c] # None
      BY <1>3 DEF CompareCandidate, Unlink, FinalizeTombstone, At
    <2>2. ctl[c].plan \in Plans
      BY <2>1, CtlType DEF RetentionInv
    <2> QED
      BY <2>2, PlanType
  <1>4. ASSUME NEW c \in Controllers, ControllerStops(c) PROVE CtlInv'
    BY <1>4, CtlOfParts DEF ControllerStops
  <1> QED
    BY <1>1, <1>2, <1>3, <1>4, CtlSame, PlanStep, LoadStep, ControllerStep

-----------------------------------------------------------------------------
(* Jobs, leases and links.                                                 *)

\* Attempts only advance; a job runs on, or is claimed anew while no deletion is
\* pending.
LEMMA AttemptsAdvance ==
  ASSUME JobInv, RegistryNext \/ UNCHANGED job, NEW j \in Jobs
  PROVE  /\ job'[j].attempt \in Nat /\ job[j].attempt \in Nat
         /\ job'[j].attempt >= job[j].attempt
         /\ job'[j].state = "running" =>
              \/ job[j].state = "running" /\ job'[j].attempt = job[j].attempt
              \/ Pending = {} /\ job'[j].attempt > job[j].attempt
  <1>1. job \in [Jobs -> Rows] /\ job[j] \in Rows /\ job[j].attempt \in Nat
    BY LimitsAssumption DEF JobInv, RegistryTypeOK, Rows
  <1>2. CASE job' = job
    BY <1>1, <1>2
  <1>3. ASSUME NEW first \in SUBSET Jobs
        PROVE  /\ RecoveredJobs(first) \in [Jobs -> Rows]
               /\ RecoveredJobs(first)[j] \in Rows
               /\ RecoveredJobs(first)[j].attempt = job[j].attempt
               /\ RecoveredJobs(first)[j].state = "running" => job[j].state = "running"
    BY RecoveryFits
  <1>4. ASSUME NEW first \in SUBSET Jobs, job' = RecoveredJobs(first)
        PROVE  job'[j].attempt = job[j].attempt
               /\ (job'[j].state = "running" => job[j].state = "running")
    BY <1>3, <1>4
  <1>5. ASSUME NEW k \in Jobs, Submit(k)
        PROVE  job'[j].attempt = job[j].attempt
               /\ (job'[j].state = "running" => job[j].state = "running")
    BY <1>1, <1>5 DEF Submit, Rows
  <1>6. ASSUME NEW k \in Jobs, Expire(k)
        PROVE  job'[j].attempt = job[j].attempt
               /\ (job'[j].state = "running" => job[j].state = "running")
    BY <1>1, <1>6 DEF Expire, Rows
  <1>7. ASSUME NEW k \in Jobs, RequestCancel(k)
        PROVE  job'[j].attempt = job[j].attempt
               /\ (job'[j].state = "running" => job[j].state = "running")
    <2>1. PICK rows : rows = RecoveredJobs({k})
      OBVIOUS
    <2>2. \/ job' = rows
          \/ job' = [rows EXCEPT ![k].cancel = TRUE, ![k].state = "cancelled"]
          \/ job' = [rows EXCEPT ![k].cancel = TRUE]
      BY <1>7, <2>1 DEF RequestCancel
    <2>3. rows \in [Jobs -> Rows] /\ rows[j].attempt = job[j].attempt
          /\ (rows[j].state = "running" => job[j].state = "running")
      BY <1>3, <2>1
    <2>4. CASE job' = [rows EXCEPT ![k].cancel = TRUE, ![k].state = "cancelled"]
      BY <2>3, <2>4 DEF Rows
    <2>5. CASE job' = [rows EXCEPT ![k].cancel = TRUE]
      BY <2>3, <2>5 DEF Rows
    <2> QED
      BY <2>2, <2>3, <2>4, <2>5
  <1>8. ASSUME NEW w \in Workers, CloseAttempt(w)
        PROVE  job'[j].attempt = job[j].attempt
               /\ (job'[j].state = "running" => job[j].state = "running")
    <2>1. PICK rows : rows = RecoveredJobs({})
      OBVIOUS
    <2>2. PICK k, to : job' = [rows EXCEPT ![k] = Released(rows[k], to)] /\ to # "running"
                       /\ rows[k].state = "running"
      <3>1. lease[w] \in Leases /\ call[w].op \in Ops
        BY <1>8 DEF CloseAttempt, Owned, JobInv, RegistryTypeOK, Calls
      <3>2. PICK op, k : op = call[w].op /\ k = lease[w].job
        OBVIOUS
      <3>3. PICK to : to = IF Requeues(op, rows[k]) THEN "queued" ELSE Outcome(op, rows[k])
        OBVIOUS
      <3>4. to # "running"
        BY <3>3 DEF Outcome
      <3>5. job' = [rows EXCEPT ![k] = Released(rows[k], to)] /\ rows[k].state = "running"
        BY <1>8, <2>1, <3>2, <3>3 DEF CloseAttempt, Owned
      <3> QED
        BY <3>4, <3>5
    <2>3. rows \in [Jobs -> Rows] /\ rows[j].attempt = job[j].attempt
          /\ (rows[j].state = "running" => job[j].state = "running")
      BY <1>3, <2>1
    <2>4. CASE k = j
      <3>1. job'[j] = Released(rows[j], to)
        BY <2>2, <2>3, <2>4
      <3>2. Released(rows[j], to).attempt = rows[j].attempt
            /\ Released(rows[j], to).state = to
        BY <2>3 DEF Released, Rows
      <3> QED
        BY <2>2, <2>3, <3>1, <3>2
    <2>5. CASE k # j
      BY <2>2, <2>3, <2>5
    <2> QED
      BY <2>4, <2>5
  <1>9. ASSUME NEW w \in Workers, Claim(w)
        PROVE  /\ Pending = {}
               /\ job'[j].attempt \in Nat /\ job'[j].attempt >= job[j].attempt
               /\ job'[j].state = "running" =>
                    \/ job[j].state = "running" /\ job'[j].attempt = job[j].attempt
                    \/ job'[j].attempt > job[j].attempt
    <2>1. PICK rows : rows = RecoveredJobs({})
      OBVIOUS
    <2>2. PICK k \in Jobs :
             job' = [rows EXCEPT ![k] =
                       [rows[k] EXCEPT !.state = "running", !.attempt = rows[k].attempt + 1,
                                       !.owner = w, !.live = TRUE]]
      BY <1>9, <1>3, <2>1 DEF Claim
    <2>3. rows \in [Jobs -> Rows] /\ rows[j].attempt = job[j].attempt
          /\ (rows[j].state = "running" => job[j].state = "running")
      BY <1>3, <2>1
    <2>4. CASE k = j
      <3>1. job'[j].attempt = job[j].attempt + 1
        BY <2>2, <2>3, <2>4 DEF Rows
      <3> QED
        BY <1>1, <1>9, <3>1 DEF Claim
    <2>5. CASE k # j
      <3>1. job'[j] = rows[j]
        BY <2>2, <2>3, <2>5
      <3>2. job'[j].attempt = job[j].attempt
            /\ (job'[j].state = "running" => job[j].state = "running")
        BY <2>3, <3>1
      <3>3. Pending = {}
        BY <1>9 DEF Claim
      <3> QED
        BY <1>1, <3>2, <3>3
    <2> QED
      BY <2>4, <2>5
  <1>10. \/ job' = job
         \/ \E first \in SUBSET Jobs : job' = RecoveredJobs(first)
         \/ \E k \in Jobs : Submit(k) \/ Expire(k) \/ RequestCancel(k)
         \/ \E w \in Workers : CloseAttempt(w) \/ Claim(w)
    <2>1. {} \in SUBSET Jobs
      OBVIOUS
    <2> QED
      BY <2>1 DEF RegistryNext, JobNext, RecoverExpired, Heartbeat, CallFails, WorkerStops,
         Preflight, RegisterArtifact, AgeRow, jobVars
  <1> QED
    BY <1>1, <1>2, <1>4, <1>5, <1>6, <1>7, <1>8, <1>9, <1>10

\* Work and deletion exclude each other: Stage looks for running work in its
\* transaction, and Claim for pending tombstones in its own.
LEMMA ExclusionStep ==
  ASSUME RetentionInv, [Next]_vars
  PROVE  RetentionExcludesWork'
  <1> SUFFICES ASSUME NEW j \in Jobs, job'[j].state = "running",
                      NEW d \in Digests, tomb'[d].state = "pending"
               PROVE  FALSE
    BY DEF RetentionExcludesWork, Pending
  <1>1. CASE \E c \in Controllers : Stage(c)
    BY <1>1 DEF Stage, NoRunningWork, Running, jobVars
  <1>2. CASE ~\E c \in Controllers : Stage(c)
    <2>1. tomb[d].state = "pending"
      BY <1>2, TombKept
    <2>2. RegistryNext \/ UNCHANGED job
      BY DEF Next, vars, jobVars, Plan, LoadPlan, PreflightIntent, Stage, InspectAll,
         InspectCandidate, CompareCandidate, Unlink, FinalizeTombstone, ControllerStops, SkipFinalized,
         ChooseCandidate
    <2>3. Pending # {}
      BY <2>1 DEF Pending
    <2>4. job[j].state = "running"
      BY <2>2, <2>3, AttemptsAdvance DEF RetentionInv
    <2> QED
      BY <2>3, <2>4 DEF RetentionInv, RetentionExcludesWork
  <1> QED
    BY <1>1, <1>2

\* What a step does to the jobs is the registry's.
LEMMA JobsAreTheRegistrys ==
  ASSUME [Next]_vars
  PROVE  RegistryNext \/ UNCHANGED <<jobVars, row>>
  <1>1. ASSUME NEW c \in Controllers,
               \/ Plan(c) \/ LoadPlan(c) \/ PreflightIntent(c) \/ Stage(c)
               \/ InspectAll(c) \/ InspectCandidate(c) \/ CompareCandidate(c)
               \/ Unlink(c) \/ FinalizeTombstone(c) \/ ControllerStops(c)
        PROVE  UNCHANGED <<jobVars, row>>
    BY <1>1 DEF Plan, LoadPlan, PreflightIntent, Stage, InspectAll, InspectCandidate,
       CompareCandidate, Unlink, FinalizeTombstone, ControllerStops
  <1>2. ASSUME NEW c \in Controllers, NEW d \in Digests,
               SkipFinalized(c, d) \/ ChooseCandidate(c, d)
        PROVE  UNCHANGED <<jobVars, row>>
    BY <1>2 DEF SkipFinalized, ChooseCandidate
  <1>3. CASE UNCHANGED vars
    BY <1>3 DEF vars
  <1> QED
    BY <1>1, <1>2, <1>3 DEF Next

\* A lease and a call are kept, ended, or begin with what they then say.
LEMMA LeaseChange ==
  ASSUME RetentionInv, [Next]_vars, NEW w \in Workers
  PROVE  /\ lease'[w] # None =>
              \/ lease'[w] = lease[w]
              \/ /\ lease'[w].job \in Jobs /\ call[w] = None /\ call'[w] = None
                 /\ lease'[w].attempt = job'[lease'[w].job].attempt
         /\ call'[w] # None =>
              \/ call'[w] = call[w] /\ lease'[w] = lease[w]
              \/ \A d \in call'[w].links : Verified(d) /\ UNCHANGED file
  <1>1. /\ lease \in [Workers -> Leases \cup {None}]
        /\ call \in [Workers -> Calls \cup {None}]
        /\ \A v \in Workers : call[v] # None => lease[v] # None
    BY DEF RetentionInv, JobInv, RegistryTypeOK
  <1>2. CASE UNCHANGED <<lease, call>>
    BY <1>2
  <1>3. ASSUME NEW v \in Workers, CloseAttempt(v) \/ CallFails(v) \/ WorkerStops(v)
        PROVE  /\ lease'[w] = lease[w] \/ lease'[w] = None
               /\ call'[w] = None \/ (call'[w] = call[w] /\ lease'[w] = lease[w])
    BY <1>1, <1>3 DEF CloseAttempt, CallFails, WorkerStops
  <1>4. ASSUME NEW v \in Workers, NEW op, NEW links \in SUBSET Digests,
               Preflight(v, op, links), UNCHANGED file
        PROVE  /\ lease'[w] = lease[w]
               /\ \/ call'[w] = call[w]
                  \/ \A d \in call'[w].links : Verified(d) /\ UNCHANGED file
    BY <1>1, <1>4 DEF Preflight
  <1>5. ASSUME NEW v \in Workers, Claim(v)
        PROVE  /\ \/ lease'[w] = lease[w]
                  \/ /\ lease'[w].job \in Jobs /\ call[w] = None /\ call'[w] = None
                     /\ lease'[w].attempt = job'[lease'[w].job].attempt
               /\ call'[w] # None => call'[w] = call[w] /\ lease'[w] = lease[w]
    <2>1. PICK rows : rows = RecoveredJobs({})
      OBVIOUS
    <2>2. rows \in [Jobs -> Rows]
      BY <2>1, RecoveryFits DEF RetentionInv
    <2>3. PICK k \in Jobs :
             /\ job' = [rows EXCEPT ![k] =
                          [rows[k] EXCEPT !.state = "running", !.attempt = rows[k].attempt + 1,
                                          !.owner = v, !.live = TRUE]]
             /\ lease' = [lease EXCEPT ![v] = [job |-> k, attempt |-> rows[k].attempt + 1]]
      BY <1>5, <2>1, <2>2 DEF Claim
    <2>4. job'[k].attempt = rows[k].attempt + 1
      BY <2>2, <2>3 DEF Rows
    <2>5. lease[v] = None /\ call[v] = None /\ call' = call
      BY <1>1, <1>5 DEF Claim
    <2> QED
      BY <1>1, <2>3, <2>4, <2>5
  <1>6. \/ UNCHANGED <<lease, call>>
        \/ \E v \in Workers : CloseAttempt(v) \/ CallFails(v) \/ WorkerStops(v) \/ Claim(v)
        \/ \E v \in Workers, c \in Calls : Preflight(v, c.op, c.links) /\ UNCHANGED file
    BY JobsAreTheRegistrys DEF RegistryNext, JobNext, RecoverExpired, Heartbeat, Submit,
       RequestCancel, Expire, RegisterArtifact, AgeRow, jobVars, storeVars
  <1>7. \A c \in Calls : c.links \in SUBSET Digests
    BY DEF Calls
  <1> QED
    BY <1>2, <1>3, <1>4, <1>5, <1>6, <1>7

\* No lease runs ahead of its job.
LEMMA LeaseStep ==
  ASSUME RetentionInv, [Next]_vars
  PROVE  LeaseInv'
  <1> SUFFICES ASSUME NEW w \in Workers, lease'[w] # None
               PROVE  lease'[w].attempt <= job'[lease'[w].job].attempt
    BY DEF LeaseInv
  <1>1. RegistryNext \/ UNCHANGED job
    BY JobsAreTheRegistrys DEF jobVars
  <1>2. CASE lease'[w] = lease[w]
    <2>1. lease[w] \in Leases
      BY <1>2 DEF RetentionInv, JobInv, RegistryTypeOK
    <2>2. lease[w].job \in Jobs /\ lease[w].attempt \in Nat
      BY <2>1, LimitsAssumption DEF Leases
    <2>3. lease[w].attempt <= job[lease[w].job].attempt
      BY <1>2 DEF RetentionInv, LeaseInv
    <2> QED
      BY <1>1, <1>2, <2>2, <2>3, AttemptsAdvance DEF RetentionInv
  <1>3. CASE /\ lease'[w].job \in Jobs
             /\ lease'[w].attempt = job'[lease'[w].job].attempt
    BY <1>1, <1>3, AttemptsAdvance DEF RetentionInv
  <1> QED
    BY <1>2, <1>3, LeaseChange

\* Whatever is unlinked has a tombstone, for this generation or an earlier one.
LEMMA UnlinkHasIntent ==
  ASSUME RetentionInv, NEW c \in Controllers, Unlink(c)
  PROVE  /\ At(c, "compared") /\ ctl[c].at \in Digests
         /\ tomb[ctl[c].at] \in Tombstones /\ tomb[ctl[c].at].state # "none"
         /\ tomb[ctl[c].at].plan = ctl[c].plan
         /\ ctl[c].plan[ctl[c].at] <= file[ctl[c].at].gen
  <1>1. At(c, "compared")
    BY DEF Unlink
  <1>2. /\ ctl[c].at \in Digests /\ ctl[c].at \in DOMAIN ctl[c].plan
        /\ tomb[ctl[c].at] \in Tombstones /\ tomb[ctl[c].at].plan = ctl[c].plan
        /\ ctl[c].plan \in Plans
    BY <1>1, CtlPlan DEF Acting
  <1>3. file[ctl[c].at].gen >= ctl[c].plan[ctl[c].at]
    BY <1>1 DEF At, RetentionInv, CtlInv, Sound
  <1>4. ctl[c].plan[ctl[c].at] \in Nat /\ file[ctl[c].at].gen \in Nat
    BY <1>2, PlanType, FileType, MaxGenAssumption DEF RetentionInv
  <1> QED
    BY <1>1, <1>2, <1>3, <1>4 DEF Tombstones

\* Nothing that is readable goes before there is intent to delete it.
LEMMA ReadableStays ==
  ASSUME RetentionInv, [Next]_vars, NEW d \in Digests, file[d].links = 1,
         tomb[d].state = "none"
  PROVE  file'[d].links = 1
  BY FileStep, UnlinkHasIntent

\* What a live call has linked has its one link.
LEMMA LinkStep ==
  ASSUME RetentionInv, [Next]_vars
  PROVE  LinkInv'
  <1>1. RegistryNext \/ UNCHANGED <<jobVars, row>>
    BY JobsAreTheRegistrys
  <1>2. ASSUME NEW w \in Workers, call'[w] # None, Holds(w)', NEW d \in call'[w].links,
               tomb'[d].state = "none"
        PROVE  file'[d].links = 1
    <2>1. CASE Verified(d) /\ UNCHANGED file
      BY <2>1 DEF Verified
    <2>2. CASE call'[w] = call[w] /\ lease'[w] = lease[w]
      <3>1. call[w] \in Calls /\ lease[w] \in Leases
        BY <1>2, <2>2 DEF RetentionInv, JobInv, RegistryTypeOK
      <3>2. d \in Digests /\ lease[w].job \in Jobs /\ lease[w].attempt \in Nat
        BY <1>2, <2>2, <3>1, LimitsAssumption DEF Calls, Leases
      <3>3. job'[lease[w].job].state = "running"
            /\ job'[lease[w].job].attempt = lease[w].attempt
        BY <1>2, <2>2 DEF Holds
      <3>4. lease[w].attempt <= job[lease[w].job].attempt
        BY <1>2, <2>2 DEF RetentionInv, JobInv, LeaseInv
      <3>5. Holds(w)
        BY <1>1, <3>2, <3>3, <3>4, AttemptsAdvance DEF Holds, RetentionInv, jobVars
      <3>6. tomb[d].state = "none"
        BY <1>2, <3>2, TombKept
      <3>7. file[d].links = 1
        BY <1>2, <2>2, <3>5, <3>6 DEF RetentionInv, LinkInv
      <3> QED
        BY <3>2, <3>6, <3>7, ReadableStays
    <2> QED
      BY <1>2, <2>1, <2>2, LeaseChange
  <1>3. ASSUME NEW run \in runs, NEW d \in run.links
        PROVE  file'[d].links = 1 /\ tomb'[d].state = "none"
    <2>1. d \in Digests
      BY <1>3 DEF RetentionInv, JobInv, RegistryTypeOK, Runs
    <2>2. file[d].links = 1 /\ tomb[d].state = "none"
      BY <1>3 DEF RetentionInv, LinkInv
    <2>3. Linked(d)
      BY <1>3 DEF Linked
    <2>4. tomb'[d].state \in {"none", "pending", "deleted"}
      BY <2>1, TombStep DEF TombInv, Tombstones, NoTombstone
    <2> QED
      BY <2>1, <2>2, <2>3, <2>4, ReadableStays, TombKept
  <1>4. ASSUME NEW w \in Workers, CloseAttempt(w), NEW run \in runs' \ runs,
               NEW d \in run.links
        PROVE  file'[d].links = 1 /\ tomb'[d].state = "none"
    <2>1. call[w] # None /\ run.links = call[w].links /\ Linkable(d)
      BY <1>4 DEF CloseAttempt
    <2>2. lease[w] \in Leases /\ call[w] \in Calls
      BY <2>1 DEF RetentionInv, JobInv, RegistryTypeOK
    <2>3. d \in Digests /\ lease[w].job \in Jobs
      BY <1>4, <2>1, <2>2 DEF Calls, Leases
    <2>4. Holds(w)
      <3>1. PICK rows : rows = RecoveredJobs({})
        OBVIOUS
      <3>2. rows[lease[w].job].state = "running"
            /\ rows[lease[w].job].attempt = lease[w].attempt
        BY <1>4, <3>1 DEF CloseAttempt, Owned
      <3>3. rows[lease[w].job] = job[lease[w].job] \/ rows[lease[w].job].state # "running"
        BY <2>3, <3>1, RecoveryFits DEF RetentionInv
      <3> QED
        BY <3>2, <3>3 DEF Holds
    <2>5. tomb[d].state = "none"
      BY <2>1 DEF Linkable
    <2>6. file[d].links = 1
      BY <1>4, <2>1, <2>4, <2>5 DEF RetentionInv, LinkInv
    <2>7. file'[d].links = 1
      BY <2>3, <2>5, <2>6, ReadableStays
    <2>8. Pending = {}
      <3>1. job[lease[w].job].state = "running"
        BY <2>4 DEF Holds
      <3> QED
        BY <2>3, <3>1 DEF RetentionInv, RetentionExcludesWork
    <2>9. tomb' = tomb
      <3>1. ~\E c \in Controllers : Stage(c)
        BY <2>3, <2>4 DEF Stage, NoRunningWork, Running, Holds
      <3>2. ASSUME NEW c \in Controllers, FinalizeTombstone(c) PROVE runs' = runs
        BY <3>2 DEF FinalizeTombstone, jobVars
      <3> QED
        BY <1>4, <3>1, <3>2, TombChange
    <2> QED
      BY <2>5, <2>7, <2>9
  <1>5. runs' = runs \/ \E w \in Workers : CloseAttempt(w)
    BY <1>1 DEF RegistryNext, JobNext, RecoverExpired, Heartbeat, Submit, RequestCancel,
       Expire, CallFails, WorkerStops, Claim, Preflight, RegisterArtifact, AgeRow, jobVars
  <1>6. ASSUME NEW run \in runs', NEW d \in run.links
        PROVE  file'[d].links = 1 /\ tomb'[d].state = "none"
    BY <1>3, <1>4, <1>5, <1>6
  <1> QED
    BY <1>2, <1>6 DEF LinkInv

-----------------------------------------------------------------------------
(* The invariant and what follows from it.                                 *)

\* The initial states satisfy the invariant.
LEMMA RetentionInit == Init => RetentionInv
  <1> SUFFICES ASSUME Init PROVE RetentionInv
    OBVIOUS
  <1>1. JobInv
    BY RegistryInitFits DEF Init
  <1>2. StoreInv
    BY MaxGenAssumption, NoPublicationAssumption
       DEF Init, StoreInit, StoreInv, StoreTypeOK, Objects, Phase
  <1>3. TombInv
    BY DEF Init, TombInv, NoTombstone
  <1>4. CtlInv /\ LeaseInv /\ LinkInv
    BY DEF Init, RegistryInit, CtlInv, LeaseInv, LinkInv
  <1>5. RetentionExcludesWork
    BY DEF Init, RegistryInit, RetentionExcludesWork
  <1> QED
    BY <1>1, <1>2, <1>3, <1>4, <1>5 DEF RetentionInv

\* Every step keeps the invariant.
LEMMA RetentionStep ==
  ASSUME RetentionInv, [Next]_vars
  PROVE  RetentionInv'
  <1>1. JobInv'
    BY JobsAreTheRegistrys, RegistryStep DEF RetentionInv
  <1> QED
    BY <1>1, StoreStep, TombStep, CtlStep, LeaseStep, LinkStep, ExclusionStep DEF RetentionInv

\* The invariant holds of every reachable state.
LEMMA RetentionHolds == Spec => []RetentionInv
  BY RetentionInit, RetentionStep, PTL DEF Spec

\* Every variable of registry, store and controllers keeps to its type.
THEOREM TypesHold == Spec => []TypeOK
  <1>1. RetentionInv => TypeOK
    BY DEF RetentionInv, JobInv, StoreInv, TombInv, CtlInv, TypeOK
  <1> QED
    BY <1>1, RetentionHolds, PTL

\* What a run links can be read for ever, however plans, publications, crashes and
\* resumptions interleave with the preflight and the transaction that linked it
\* (registry.py, _preflight_terminal_artifacts; retention.py, _revalidate_candidate).
THEOREM EvidenceStays == Spec => []EvidenceIsReadable
  <1>1. RetentionInv => EvidenceIsReadable
    BY DEF RetentionInv, LinkInv, EvidenceIsReadable
  <1> QED
    BY <1>1, RetentionHolds, PTL

\* No attempt runs while a deletion is pending (registry.py, claim; retention.py, _stage).
THEOREM WorkIsExcluded == Spec => []RetentionExcludesWork
  <1>1. RetentionInv => RetentionExcludesWork
    BY DEF RetentionInv
  <1> QED
    BY <1>1, RetentionHolds, PTL

\* A finalised tombstone never speaks of bytes that are still there, whoever
\* finalised it (retention.py, _finalize_candidate).
THEOREM DeletedStaysGone == Spec => []DeletedIsGone
  <1>1. RetentionInv => DeletedIsGone
    BY TombType, PlanType, FileType, MaxGenAssumption
       DEF RetentionInv, TombInv, Gone, DeletedIsGone
  <1> QED
    BY <1>1, RetentionHolds, PTL

\* What is unlinked, an execution compared and then unlinked by name.
LEMMA UnlinkedBy ==
  ASSUME RetentionInv, [Next]_vars, NEW d \in Digests, Unlinked(d)
  PROVE  \E c \in Controllers : Unlink(c) /\ ctl[c].at = d
  BY FileStep, FileType DEF Unlinked, RetentionInv

\* Bytes go only after the intent to delete this content is committed, in this
\* generation or an earlier one, and no run links what goes, however many executions
\* race with republications (retention.py, execute).
THEOREM IntentIsFirst == Spec => IntentPrecedesUnlink
  <1>1. ASSUME RetentionInv, [Next]_vars, NEW d \in Digests, Unlinked(d)
        PROVE  /\ tomb[d].state # "none"
               /\ tomb[d].plan[d] <= file[d].gen
               /\ ~Linked(d)
    <2>1. PICK c \in Controllers : Unlink(c) /\ ctl[c].at = d
      BY <1>1, UnlinkedBy
    <2>2. tomb[d].state # "none" /\ tomb[d].plan[d] <= file[d].gen
      BY <1>1, <2>1, UnlinkHasIntent
    <2>3. ~Linked(d)
      BY <1>1, <2>2 DEF Linked, RetentionInv, LinkInv
    <2> QED
      BY <2>2, <2>3
  <1>2. RetentionInv /\ [Next]_vars =>
          [\A d \in Digests :
              Unlinked(d) => /\ tomb[d].state # "none"
                             /\ tomb[d].plan[d] <= file[d].gen
                             /\ ~Linked(d)]_vars
    BY <1>1
  <1> QED
    BY <1>2, RetentionHolds, PTL DEF Spec, IntentPrecedesUnlink

-----------------------------------------------------------------------------
(* One controller.                                                         *)

OneController == \A c, e \in Controllers : c = e

\* What the only controller has compared is still what has the name.
ComparedStays ==
    \A c \in Controllers : At(c, "compared") =>
        CompareVerified(ctl[c].at, ctl[c].plan[ctl[c].at])

\* Nobody else unlinks it, and a publication leaves it alone.
LEMMA ComparedStep ==
  ASSUME OneController, RetentionInv, ComparedStays, [Next]_vars
  PROVE  ComparedStays'
  <1> SUFFICES ASSUME NEW c \in Controllers, At(c, "compared")'
               PROVE  /\ file'[ctl'[c].at].links = 1
                      /\ file'[ctl'[c].at].gen = ctl'[c].plan[ctl'[c].at]
    BY DEF ComparedStays, CompareVerified
  <1>1. ctl'[c] # None /\ ctl'[c].step = "compared"
    BY DEF At
  <1>2. ctl \in [Controllers -> Executions \cup {None}]
    BY DEF RetentionInv, CtlInv
  <1>3. CASE CompareCandidate(c)
    <2>1. /\ CompareVerified(ctl[c].at, ctl[c].plan[ctl[c].at]) /\ file' = file
          /\ ctl'[c].at = ctl[c].at /\ ctl'[c].plan = ctl[c].plan
      BY <1>2, <1>3 DEF CompareCandidate, Advance, storeVars
    <2> QED
      BY <2>1 DEF CompareVerified
  <1>4. CASE ctl'[c] = ctl[c] /\ ~\E x \in Controllers : Unlink(x)
    <2>1. At(c, "compared")
      BY <1>1, <1>4 DEF At
    <2>2. ctl[c].at \in Digests /\ CompareVerified(ctl[c].at, ctl[c].plan[ctl[c].at])
      BY <2>1, CtlPlan DEF ComparedStays, Acting
    <2> QED
      BY <1>4, <2>2, FileStep DEF CompareVerified
  <1>5. CompareCandidate(c) \/ (ctl'[c] = ctl[c] /\ ~\E x \in Controllers : Unlink(x))
    <2>1. ASSUME NEW x \in Controllers,
                 \/ Plan(x) \/ LoadPlan(x) \/ PreflightIntent(x) \/ Stage(x) \/ InspectAll(x)
                 \/ InspectCandidate(x) \/ Unlink(x) \/ FinalizeTombstone(x)
                 \/ ControllerStops(x)
                 \/ \E d \in Digests : SkipFinalized(x, d) \/ ChooseCandidate(x, d)
          PROVE  FALSE
      <3>1. x = c
        BY DEF OneController
      <3>2. ctl'[x] = None \/ ctl'[x].step # "compared"
        <4>1. CASE Plan(x)
          BY <1>2, <4>1 DEF Plan
        <4>2. CASE LoadPlan(x)
          BY <1>2, <4>2 DEF LoadPlan
        <4>3. CASE PreflightIntent(x) \/ Stage(x) \/ InspectAll(x)
          BY <1>2, <4>3 DEF PreflightIntent, Stage, InspectAll, Advance
        <4>4. CASE InspectCandidate(x) \/ Unlink(x) \/ FinalizeTombstone(x)
          BY <1>2, <4>4 DEF InspectCandidate, Unlink, FinalizeTombstone, Advance
        <4>5. CASE ControllerStops(x)
          BY <1>2, <4>5 DEF ControllerStops
        <4>6. CASE \E d \in Digests : SkipFinalized(x, d) \/ ChooseCandidate(x, d)
          BY <1>2, <4>6 DEF SkipFinalized, ChooseCandidate, Advance
        <4> QED
          BY <2>1, <4>1, <4>2, <4>3, <4>4, <4>5, <4>6
      <3> QED
        BY <1>1, <3>1, <3>2
    <2>2. \A x \in Controllers : x = c
      BY DEF OneController
    <2>3. ctl' = ctl \/ CompareCandidate(c)
      BY <2>1, <2>2 DEF Next, vars
    <2> QED
      BY <2>1, <2>3
  <1> QED
    BY <1>3, <1>4, <1>5

\* With one controller what goes is exactly the generation a pending intent names:
\* "a delete and republish of identical bytes fails closed" (cas.py, unlink_verified)
\* when nobody else unlinks between its comparison and its unlink.
THEOREM OneControllerSuffices == ASSUME OneController PROVE Spec => UnlinksAreIntended
  <1>1. Init => ComparedStays
    BY DEF Init, ComparedStays, At
  <1>2. RetentionInv /\ ComparedStays /\ [Next]_vars => ComparedStays'
    BY ComparedStep
  <1>3. ASSUME RetentionInv, ComparedStays, [Next]_vars, NEW d \in Digests, Unlinked(d)
        PROVE  tomb[d].state = "pending" /\ tomb[d].plan[d] = file[d].gen
    <2>1. PICK c \in Controllers : Unlink(c) /\ ctl[c].at = d
      BY <1>3, UnlinkedBy
    <2>2. /\ At(c, "compared") /\ tomb[d] \in Tombstones /\ tomb[d].state # "none"
          /\ tomb[d].plan = ctl[c].plan
      BY <1>3, <2>1, UnlinkHasIntent
    <2>3. file[d].links = 1 /\ file[d].gen = tomb[d].plan[d]
      BY <1>3, <2>1, <2>2 DEF ComparedStays, CompareVerified
    <2>4. ~Gone(d, tomb[d].plan[d])
      BY <1>3, <2>3, FileType DEF Gone, RetentionInv
    <2>5. tomb[d].state # "deleted"
      BY <1>3, <2>4 DEF RetentionInv, TombInv
    <2> QED
      BY <2>2, <2>3, <2>5 DEF Tombstones
  <1>4. RetentionInv /\ ComparedStays /\ [Next]_vars =>
          [\A d \in Digests :
              Unlinked(d) => tomb[d].state = "pending" /\ tomb[d].plan[d] = file[d].gen]_vars
    BY <1>3
  <1> QED
    BY <1>1, <1>2, <1>4, RetentionHolds, PTL DEF Spec, UnlinksAreIntended
===============================================================================
