--------------------------- MODULE ResearchManager ---------------------------
(***************************************************************************)
(* The research scheduler: signal_foundry/manager.py over the SQLite store *)
(* of signal_foundry/store.py.  HTTP and CLI threads submit, cancel, wait  *)
(* and close; one scheduler thread runs jobs in FIFO order; a condition    *)
(* variable protects the in-memory queue; the store survives a crash and   *)
(* fails interrupted jobs when it is opened again.                         *)
(*                                                                         *)
(* A "with self._condition" block is one action, except where the block    *)
(* makes several store transactions (close, the fault handler): those are  *)
(* one action per transaction, with the lock held in between.              *)
(***************************************************************************)
EXTENDS Naturals, Sequences, FiniteSets

CONSTANTS Keys,          \* idempotency keys
          Requests,      \* canonical research requests
          Clients,       \* caller threads
          Scheduler,     \* the scheduler thread, as an entry of the wait list
          None,          \* no job
          MaxJobs,       \* store.MAX_JOBS
          MaxPending,    \* store.MAX_PENDING
          MaxFailures,   \* bound: store operations that may raise store_io
          MaxStarts      \* bound: times the service process is started

Jobs == Keys \X Requests

ASSUME BudgetAssumption ==
    /\ MaxJobs \in Nat
    /\ MaxPending \in Nat
    /\ MaxFailures \in Nat
    /\ MaxStarts \in Nat

ASSUME IdentityAssumption ==
    /\ Scheduler \notin Clients
    /\ None \notin Jobs

ASSUME FinitenessAssumption == IsFiniteSet(Keys) /\ IsFiniteSet(Requests)

VARIABLES
    \* the SQLite store
    state,      \* jobs.state; "none" for a job without a row
    evidence,   \* jobs whose evidence column is written
    audit,      \* the audit table in sequence order: <<job, state>>
    \* the manager's memory
    queue,      \* _queue
    active,     \* _active[0], or None
    event,      \* the cancel event of the current run
    closed,     \* _closed
    faulted,    \* _faulted
    waiters,    \* threads blocked in _condition, in the order notify takes them
    \* threads
    proc,       \* the service process: up, down, or recovering its store
    spc,        \* where the scheduler thread is
    current,    \* the scheduler's local "identity"
    cpc,        \* where each caller thread is
    cjob,       \* the job that caller is submitting or waiting for
    closing,    \* progress of Manager.close
    todo,       \* jobs close has still to cancel
    \* model bounds
    failures,   \* store failures so far
    starts      \* process starts so far

store    == <<state, evidence, audit>>
memory   == <<queue, active, event, closed, faulted>>
sched    == <<spc, current>>
callers  == <<cpc, cjob>>
shutdown == <<closing, todo>>
vars     == <<store, memory, waiters, proc, sched, callers, shutdown,
              failures, starts>>

-----------------------------------------------------------------------------
(* The store *)

Terminal == {"succeeded", "failed", "cancelled"}
States   == {"none", "queued", "running"} \cup Terminal

Retained == {j \in Jobs : state[j] # "none"}
Pending  == {j \in Jobs : state[j] \in {"queued", "running"}}

\* Store.lookup finds a row under this key, for this request or another one.
KeyBound(k) == \E r \in Requests : state[<<k, r>>] # "none"

\* Mutant: the transaction trusts the lookup made before the preflight.
StoreSubmit_StaleLookup(j) ==
    /\ Cardinality(Retained) < MaxJobs
    /\ Cardinality(Pending) < MaxPending
    /\ state' = [state EXCEPT ![j] = "queued"]
    /\ audit' = Append(audit, <<j, "queued">>)
    /\ UNCHANGED evidence

\* The transaction of Store.submit, when it inserts.
StoreSubmit(j) ==
    /\ ~KeyBound(j[1])
    /\ Cardinality(Retained) < MaxJobs
    /\ Cardinality(Pending) < MaxPending
    /\ state' = [state EXCEPT ![j] = "queued"]
    /\ audit' = Append(audit, <<j, "queued">>)
    /\ UNCHANGED evidence

\* The transition table of Store.transition.
Permitted(j, s) ==
    \/ state[j] = "queued" /\ s \in {"running", "failed", "cancelled"}
    \/ state[j] = "running" /\ s \in {"failed", "cancelled"}

StoreTransition(j, s) ==
    /\ Permitted(j, s)
    /\ state' = [state EXCEPT ![j] = s]
    /\ audit' = Append(audit, <<j, s>>)
    /\ UNCHANGED evidence

\* Mutant: the audit row of a publication is forgotten.
StorePublish_Unaudited(j) ==
    /\ state[j] = "running"
    /\ state' = [state EXCEPT ![j] = "succeeded"]
    /\ evidence' = evidence \cup {j}
    /\ UNCHANGED audit

\* Store.publish: state, artifact and audit row in one transaction.
StorePublish(j) ==
    /\ state[j] = "running"
    /\ state' = [state EXCEPT ![j] = "succeeded"]
    /\ evidence' = evidence \cup {j}
    /\ audit' = Append(audit, <<j, "succeeded">>)

StoreOk == UNCHANGED failures

\* SQLite raises (locked, full, I/O): the transaction rolls back, store_io.
StoreFails ==
    /\ failures < MaxFailures
    /\ failures' = failures + 1
    /\ UNCHANGED store

-----------------------------------------------------------------------------
(* The condition variable *)

Elements(s) == {s[i] : i \in DOMAIN s}
Sleeping(t) == t \in Elements(waiters)

\* Nobody holds the lock between two actions but close and the fault handler.
LockFree == closing # "cancelling" /\ spc # "handling"

Notify    == waiters' = IF waiters = <<>> THEN <<>> ELSE Tail(waiters)
NotifyAll == waiters' = <<>>
Sleep(t)  == waiters' = Append(waiters, t)

Without(s, i) == SubSeq(s, 1, i - 1) \o SubSeq(s, i + 1, Len(s))

-----------------------------------------------------------------------------
Init ==
    /\ state = [j \in Jobs |-> "none"]
    /\ evidence = {}
    /\ audit = <<>>
    /\ queue = <<>>
    /\ active = None
    /\ event = FALSE
    /\ closed = FALSE
    /\ faulted = FALSE
    /\ waiters = <<>>
    /\ proc = "up"
    /\ spc = "poll"
    /\ current = None
    /\ cpc = [c \in Clients |-> "idle"]
    /\ cjob = [c \in Clients |-> None]
    /\ closing = "no"
    /\ todo = <<>>
    /\ failures = 0
    /\ starts = 1

-----------------------------------------------------------------------------
(* Callers *)

Available == ~closed /\ ~faulted

\* First locked block of submit, when no row is found: on to the preflight.
\* (A row found, a conflicting one or an unavailable scheduler answers the
\* caller without touching any state.)
SubmitLookup(c, j) ==
    /\ proc = "up" /\ LockFree
    /\ cpc[c] = "idle"
    /\ Available
    /\ ~KeyBound(j[1])
    /\ cpc' = [cpc EXCEPT ![c] = "preflight"]
    /\ cjob' = [cjob EXCEPT ![c] = j]
    /\ UNCHANGED <<store, memory, waiters, proc, sched, shutdown, failures,
                   starts>>

\* Preflight refused, or the second block raised or found a row: no change.
SubmitReturns(c) ==
    /\ proc = "up"
    /\ cpc[c] = "preflight"
    /\ cpc' = [cpc EXCEPT ![c] = "idle"]
    /\ cjob' = [cjob EXCEPT ![c] = None]
    /\ UNCHANGED <<store, memory, waiters, proc, sched, shutdown, failures,
                   starts>>

\* Mutant: availability is not checked again after the preflight.
SubmitAdmit_Unchecked(c) ==
    /\ proc = "up" /\ LockFree
    /\ cpc[c] = "preflight"
    /\ StoreSubmit(cjob[c])
    /\ queue' = Append(queue, cjob[c])
    /\ Notify
    /\ cpc' = [cpc EXCEPT ![c] = "idle"]
    /\ cjob' = [cjob EXCEPT ![c] = None]
    /\ UNCHANGED <<active, event, closed, faulted, proc, sched, shutdown,
                   failures, starts>>

\* Mutant: the scheduler is not notified.
SubmitAdmit_Silent(c) ==
    /\ proc = "up" /\ LockFree
    /\ cpc[c] = "preflight"
    /\ Available
    /\ StoreSubmit(cjob[c])
    /\ queue' = Append(queue, cjob[c])
    /\ UNCHANGED waiters
    /\ cpc' = [cpc EXCEPT ![c] = "idle"]
    /\ cjob' = [cjob EXCEPT ![c] = None]
    /\ UNCHANGED <<active, event, closed, faulted, proc, sched, shutdown,
                   failures, starts>>

\* Second locked block of submit, after an unlocked preflight.
SubmitAdmit(c) ==
    /\ proc = "up" /\ LockFree
    /\ cpc[c] = "preflight"
    /\ Available
    /\ StoreSubmit(cjob[c])
    /\ queue' = Append(queue, cjob[c])
    /\ Notify
    /\ cpc' = [cpc EXCEPT ![c] = "idle"]
    /\ cjob' = [cjob EXCEPT ![c] = None]
    /\ UNCHANGED <<active, event, closed, faulted, proc, sched, shutdown,
                   failures, starts>>

\* Mutant: a cancelled job is left in the deque.
Withdraw_LeavesQueued(j) ==
    /\ event' = (event \/ active = j)
    /\ UNCHANGED queue

\* The in-memory half of cancel: signal the runner or leave the queue.
\* deque.remove raises when the job is in neither place, and then cancel does
\* nothing: no action.
Withdraw(j) ==
    \/ /\ active = j
       /\ event' = TRUE
       /\ UNCHANGED queue
    \/ /\ active # j
       /\ \E i \in DOMAIN queue :
             /\ queue[i] = j
             /\ \A k \in 1..(i - 1) : queue[k] # j
             /\ queue' = Without(queue, i)
       /\ UNCHANGED event

\* cancel of a job that is not terminal; its store transaction may fail after
\* the in-memory half is done, and then nobody is notified.
CancelDone(j) ==
    /\ j \in Pending
    /\ Withdraw(j)
    /\ StoreTransition(j, "cancelled")
    /\ StoreOk
    /\ NotifyAll

CancelFails(j) ==
    /\ j \in Pending
    /\ Withdraw(j)
    /\ StoreFails
    /\ UNCHANGED waiters

Cancel(j) ==
    /\ proc = "up" /\ LockFree
    /\ CancelDone(j) \/ CancelFails(j)
    /\ UNCHANGED <<active, closed, faulted, proc, sched, callers, shutdown,
                   starts>>

\* Manager.wait: blocks while the job is pending and the scheduler is sound.
Settled(j) == faulted \/ state[j] \in Terminal

WaitBegin(c, j) ==
    /\ proc = "up" /\ LockFree
    /\ cpc[c] = "idle"
    /\ state[j] # "none"
    /\ ~Settled(j)
    /\ cpc' = [cpc EXCEPT ![c] = "waiting"]
    /\ cjob' = [cjob EXCEPT ![c] = j]
    /\ Sleep(c)
    /\ UNCHANGED <<store, memory, proc, sched, shutdown, failures, starts>>

\* Notified: the predicate is evaluated again under the lock.
WaitAgain(c) ==
    /\ proc = "up" /\ LockFree
    /\ cpc[c] = "waiting" /\ ~Sleeping(c)
    /\ ~Settled(cjob[c])
    /\ Sleep(c)
    /\ UNCHANGED <<store, memory, proc, sched, callers, shutdown, failures,
                   starts>>

\* The predicate holds after a wake-up, or the time is up.
WaitReturns(c) ==
    /\ proc = "up" /\ LockFree
    /\ cpc[c] = "waiting"
    /\ \/ ~Sleeping(c) /\ UNCHANGED waiters
       \/ \E i \in DOMAIN waiters :
             waiters[i] = c /\ waiters' = Without(waiters, i)
    /\ cpc' = [cpc EXCEPT ![c] = "idle"]
    /\ cjob' = [cjob EXCEPT ![c] = None]
    /\ UNCHANGED <<store, memory, proc, sched, shutdown, failures, starts>>

-----------------------------------------------------------------------------
(* The scheduler thread: _consume, then _loop's handler *)

SchedulerAt(pc) == proc = "up" /\ LockFree /\ spc = pc

Polling == SchedulerAt("poll") /\ ~Sleeping(Scheduler)

SchedulerSleeps ==
    /\ Polling /\ ~closed /\ queue = <<>>
    /\ Sleep(Scheduler)
    /\ UNCHANGED <<store, memory, proc, sched, callers, shutdown, failures,
                   starts>>

SchedulerExits ==
    /\ Polling /\ closed
    /\ spc' = "exited"
    /\ UNCHANGED <<store, memory, waiters, proc, current, callers, shutdown,
                   failures, starts>>

\* Mutant: pop takes the newest job.
Dequeue_Newest ==
    /\ Polling /\ ~closed /\ queue # <<>>
    /\ LET newest == queue[Len(queue)] IN
          /\ queue' = SubSeq(queue, 1, Len(queue) - 1)
          /\ current' = newest
          /\ active' = newest
          /\ event' = FALSE
          /\ StoreTransition(newest, "running") /\ StoreOk /\ spc' = "run"
    /\ UNCHANGED <<closed, faulted, waiters, proc, callers, shutdown, starts>>

\* popleft, a fresh event, and the RUNNING transition, whose failure leaves
\* the loop with _active still set.  A queue entry that is not queued in the
\* store would leave no step here: QueueAgreement says there is none.
Dequeue ==
    /\ Polling /\ ~closed /\ queue # <<>>
    /\ queue' = Tail(queue)
    /\ current' = Head(queue)
    /\ active' = Head(queue)
    /\ event' = FALSE
    /\ \/ StoreTransition(Head(queue), "running") /\ StoreOk /\ spc' = "run"
       \/ StoreFails /\ spc' = "fault"
    /\ UNCHANGED <<closed, faulted, waiters, proc, callers, shutdown, starts>>

\* runner.run, without the lock: evidence, a FoundryError (also from the read
\* of the request, a busy worker or a cancelled one), or any other exception.
Run ==
    /\ proc = "up" /\ spc = "run"
    /\ spc' \in {"publish", "failing", "raised"}
    /\ UNCHANGED <<store, memory, waiters, proc, current, callers, shutdown,
                   failures, starts>>

\* The else branch: publish unless the cancel event is set.  An exception of
\* publish (evidence_limit, publication_conflict, store_io) leaves the loop.
PublishRun ==
    /\ SchedulerAt("publish")
    /\ \/ event /\ spc' = "finally" /\ UNCHANGED <<store, failures>>
       \/ ~event /\ StorePublish(current) /\ StoreOk /\ spc' = "finally"
       \/ ~event /\ StoreFails /\ spc' = "raised"
       \/ ~event /\ spc' = "raised" /\ UNCHANGED <<store, failures>>
    /\ UNCHANGED <<memory, waiters, proc, current, callers, shutdown, starts>>

\* The except FoundryError branch.
FailRun ==
    /\ SchedulerAt("failing")
    /\ \/ /\ state[current] \in Terminal
          /\ spc' = "finally"
          /\ UNCHANGED <<store, failures>>
       \/ StoreTransition(current, "failed") /\ StoreOk /\ spc' = "finally"
       \/ StoreFails /\ spc' = "raised"
    /\ UNCHANGED <<memory, waiters, proc, current, callers, shutdown, starts>>

\* Mutant: threads in wait are not notified when a run ends.
EndRun_Silent ==
    /\ SchedulerAt("finally") \/ SchedulerAt("raised")
    /\ active' = None
    /\ current' = None
    /\ spc' = IF spc = "finally" THEN "poll" ELSE "fault"
    /\ UNCHANGED <<store, queue, event, closed, faulted, waiters, proc,
                   callers, shutdown, failures, starts>>

\* The finally branch; an exception then travels on to _loop.
EndRun ==
    /\ SchedulerAt("finally") \/ SchedulerAt("raised")
    /\ active' = None
    /\ current' = None
    /\ NotifyAll
    /\ spc' = IF spc = "finally" THEN "poll" ELSE "fault"
    /\ UNCHANGED <<store, queue, event, closed, faulted, proc, callers,
                   shutdown, failures, starts>>

\* _loop's handler takes the lock and keeps it until it is done.
Fault ==
    /\ SchedulerAt("fault")
    /\ faulted' = TRUE
    /\ event' = (event \/ active # None)
    /\ spc' = "handling"
    /\ UNCHANGED <<store, queue, active, closed, waiters, proc, current,
                   callers, shutdown, failures, starts>>

Handling == proc = "up" /\ spc = "handling"

FaultFails(j) ==
    /\ Handling
    /\ j \in Pending
    /\ StoreTransition(j, "failed") /\ StoreOk
    /\ UNCHANGED <<memory, waiters, proc, sched, callers, shutdown, starts>>

FaultHandled ==
    /\ Handling
    /\ \/ Pending = {} /\ StoreOk /\ UNCHANGED store /\ queue' = <<>>
       \/ StoreFails /\ UNCHANGED queue
    /\ NotifyAll
    /\ spc' = "exited"
    /\ UNCHANGED <<active, event, closed, faulted, proc, current, callers,
                   shutdown, starts>>

-----------------------------------------------------------------------------
(* Manager.close, by one caller; a second call returns at once *)

\* Mutant: close does not test whether a run is active.
CloseBegin_NoActiveTest ==
    /\ proc = "up" /\ LockFree
    /\ ~closed
    /\ closed' = TRUE
    /\ closing' = "cancelling"
    /\ todo' = Append(queue, active)
    /\ UNCHANGED <<store, queue, active, event, faulted, waiters, proc, sched,
                   callers, failures, starts>>

CloseBegin ==
    /\ proc = "up" /\ LockFree
    /\ ~closed
    /\ closed' = TRUE
    /\ closing' = "cancelling"
    /\ todo' = IF active = None THEN queue ELSE Append(queue, active)
    /\ UNCHANGED <<store, queue, active, event, faulted, waiters, proc, sched,
                   callers, failures, starts>>

Closing == proc = "up" /\ closing = "cancelling"

\* One self.cancel of the loop; its exception leaves close with _closed set,
\* the scheduler neither notified nor joined.
CloseCancel ==
    /\ Closing /\ todo # <<>>
    /\ \/ /\ state[Head(todo)] \in Terminal
          /\ todo' = Tail(todo)
          /\ UNCHANGED <<store, queue, event, waiters, closing, failures>>
       \/ /\ CancelDone(Head(todo))
          /\ todo' = Tail(todo)
          /\ UNCHANGED closing
       \/ /\ CancelFails(Head(todo))
          /\ todo' = <<>>
          /\ closing' = "failed"
    /\ UNCHANGED <<active, closed, faulted, proc, sched, callers, starts>>

\* Mutant: close goes to join without waking the scheduler.
CloseNotifies_Silent ==
    /\ Closing /\ todo = <<>>
    /\ closing' = "joining"
    /\ UNCHANGED <<store, memory, waiters, proc, sched, callers, todo, failures,
                   starts>>

CloseNotifies ==
    /\ Closing /\ todo = <<>>
    /\ closing' = "joining"
    /\ NotifyAll
    /\ UNCHANGED <<store, memory, proc, sched, callers, todo, failures, starts>>

-----------------------------------------------------------------------------
(* The process *)

\* Everything but the store is gone.
ProcessEnds ==
    /\ proc' = "down"
    /\ queue' = <<>> /\ active' = None /\ event' = FALSE
    /\ closed' = FALSE /\ faulted' = FALSE
    /\ waiters' = <<>>
    /\ spc' = "poll" /\ current' = None
    /\ cpc' = [c \in Clients |-> "idle"]
    /\ cjob' = [c \in Clients |-> None]
    /\ closing' = "no" /\ todo' = <<>>

\* close joined the scheduler thread and released the store.
CloseReleases ==
    /\ proc = "up" /\ closing = "joining" /\ spc = "exited"
    /\ ProcessEnds
    /\ UNCHANGED <<store, failures, starts>>

Crash ==
    /\ proc # "down"
    /\ ProcessEnds
    /\ UNCHANGED <<store, failures, starts>>

\* Store.__init__, up to recover.
Restart ==
    /\ proc = "down"
    /\ starts < MaxStarts
    /\ starts' = starts + 1
    /\ proc' = "recovering"
    /\ UNCHANGED <<store, memory, waiters, sched, callers, shutdown, failures>>

\* recover: one transaction per interrupted job; an error refuses the start.
Recover(j) ==
    /\ proc = "recovering"
    /\ j \in Pending
    /\ \/ StoreTransition(j, "failed") /\ StoreOk /\ UNCHANGED proc
       \/ StoreFails /\ proc' = "down"
    /\ UNCHANGED <<memory, waiters, sched, callers, shutdown, starts>>

\* Mutant: the service opens before every interrupted job is failed.
Recovered_Early ==
    /\ proc = "recovering"
    /\ proc' = "up"
    /\ UNCHANGED <<store, memory, waiters, sched, callers, shutdown, failures,
                   starts>>

Recovered ==
    /\ proc = "recovering" /\ Pending = {}
    /\ proc' = "up"
    /\ UNCHANGED <<store, memory, waiters, sched, callers, shutdown, failures,
                   starts>>

-----------------------------------------------------------------------------
CallerNext ==
    \/ \E c \in Clients :
          \/ \E j \in Jobs : SubmitLookup(c, j) \/ WaitBegin(c, j)
          \/ SubmitReturns(c) \/ SubmitAdmit(c)
          \/ WaitAgain(c) \/ WaitReturns(c)
    \/ \E j \in Jobs : Cancel(j)

SchedulerNext ==
    \/ SchedulerSleeps \/ SchedulerExits
    \/ Dequeue \/ Run \/ PublishRun \/ FailRun \/ EndRun
    \/ Fault \/ FaultHandled \/ \E j \in Jobs : FaultFails(j)

CloseNext == CloseBegin \/ CloseCancel \/ CloseNotifies \/ CloseReleases

ProcessNext ==
    \/ Crash \/ Restart \/ Recovered
    \/ \E j \in Jobs : Recover(j)

Next == CallerNext \/ SchedulerNext \/ CloseNext \/ ProcessNext

Spec == Init /\ [][Next]_vars

\* The scheduler thread is scheduled and its runner call ends (process.execute
\* kills the worker at its deadline); a caller that has begun close goes on, and
\* so does a starting process.  Nobody is obliged to submit, cancel or restart.
Fairness ==
    /\ WF_vars(SchedulerNext)
    /\ WF_vars(CloseCancel \/ CloseNotifies \/ CloseReleases)
    /\ WF_vars(Recovered \/ \E j \in Jobs : Recover(j))

FairSpec == Spec /\ Fairness
-----------------------------------------------------------------------------
(* Properties *)

SchedulerPoints == {"poll", "run", "publish", "failing", "finally", "raised",
                    "fault", "handling", "exited"}

\* Every variable keeps to the values its attribute or thread can hold.
TypeOK ==
    /\ state \in [Jobs -> States]
    /\ evidence \in SUBSET Jobs
    /\ audit \in Seq(Jobs \X States)
    /\ queue \in Seq(Jobs)
    /\ active \in Jobs \cup {None}
    /\ event \in BOOLEAN
    /\ closed \in BOOLEAN
    /\ faulted \in BOOLEAN
    /\ waiters \in Seq(Clients \cup {Scheduler})
    /\ proc \in {"up", "down", "recovering"}
    /\ spc \in SchedulerPoints
    /\ current \in Jobs \cup {None}
    /\ cpc \in [Clients -> {"idle", "preflight", "waiting"}]
    /\ cjob \in [Clients -> Jobs \cup {None}]
    /\ closing \in {"no", "cancelling", "joining", "failed"}
    /\ todo \in Seq(Jobs)
    /\ failures \in 0..MaxFailures
    /\ starts \in Nat

\* An idempotency key never names two jobs, although two submissions with the
\* same key may both pass the first lookup and preflight at the same time
\* (Manager.submit releases the lock in between).
OneJobPerKey ==
    \A k \in Keys : \A r, q \in Requests :
        state[<<k, r>>] # "none" /\ state[<<k, q>>] # "none" => r = q

\* The state changes a row of the audit table may record.
Transitions ==
    {<<"queued", s>> : s \in {"running", "failed", "cancelled"}}
    \cup {<<"running", s>> : s \in Terminal}

\* Row k of the audit table is a later row of row i's job.
Later(i, k) == i < k /\ audit[k][1] = audit[i][1]

\* The audit table is the history of every job and the artifacts are those of
\* the jobs it says succeeded, also across failed transactions, faults of the
\* scheduler, crashes and recovery (Store.transition, publish, recover): the
\* first row of a job says queued and no later one does, each row follows
\* legally from the job's row before it, a job's last row says its state, and
\* a job without a row was never admitted.
AuditIsHistory ==
    /\ \A k \in DOMAIN audit :
          audit[k][2] = "queued" <=> \A i \in DOMAIN audit : ~Later(i, k)
    /\ \A i, k \in DOMAIN audit :
          Later(i, k) /\ (\A m \in (i + 1)..(k - 1) : ~Later(i, m))
            => <<audit[i][2], audit[k][2]>> \in Transitions
    /\ \A i \in DOMAIN audit :
          (\A k \in DOMAIN audit : ~Later(i, k))
            => state[audit[i][1]] = audit[i][2]
    /\ \A j \in Jobs :
          state[j] = "none" <=> \A i \in DOMAIN audit : audit[i][1] # j
    /\ evidence = {j \in Jobs : state[j] = "succeeded"}

\* While the scheduler is sound its deque holds queued jobs only, each once,
\* whatever store operation failed before: the RUNNING transition of _consume
\* is never refused by the store's own rules.
QueueSound ==
    proc = "up" /\ ~faulted =>
        /\ \A i \in DOMAIN queue : state[queue[i]] = "queued"
        /\ \A i, k \in DOMAIN queue : queue[i] = queue[k] => i = k

\* As long as no store operation failed, store and memory agree: every queued
\* job is in the deque, a running job is the scheduler's own, and a pending
\* job is out of cancel's reach only between the scheduler's last step with
\* it and the fault handler (Manager.cancel, _consume, _loop).
QueueAgreement ==
    proc = "up" /\ failures = 0 /\ spc # "handling" =>
        /\ {j \in Jobs : state[j] = "queued"} = Elements(queue)
        /\ \A j \in Jobs : state[j] = "running" /\ spc # "fault" => current = j
        /\ \A j \in Pending :
              j \in Elements(queue) \cup {active} \/ spc = "fault"

\* A notification is never spent on the wrong thread: as long as no store
\* operation failed, the scheduler does not sleep on a non-empty queue or
\* after close has notified, and a waiter sleeps on a finished job only while
\* a notify_all is still to come.  (submit's notify() wakes one thread, and
\* threads in wait() sleep on the same condition.)
NoLostWakeup ==
    failures = 0 =>
        /\ Sleeping(Scheduler) =>
              queue = <<>> /\ (closed => closing = "cancelling")
        /\ \A c \in Clients :
              Sleeping(c) /\ Settled(cjob[c]) =>
                  spc \in {"finally", "raised", "handling"}

Before(a, b) ==
    \E i, k \in DOMAIN audit : i < k /\ audit[i] = a /\ audit[k] = b

\* One FIFO worker (docs/control-plane.md): as long as no store operation
\* failed, a job starts only when every job admitted before it has started or
\* ended.
FifoService ==
    failures = 0 =>
        \A i, k, n \in DOMAIN audit :
            /\ i < k /\ k < n
            /\ audit[i][2] = "queued" /\ audit[k][2] = "queued"
            /\ audit[n] = <<audit[k][1], "running">>
            => \E m \in (i + 1)..(n - 1) : audit[m][1] = audit[i][1]

\* Once close has begun or the scheduler has faulted, no job is admitted, not
\* even one whose submitter was already in its preflight.
AdmissionStops == [][closed \/ faulted => Retained' \subseteq Retained]_vars

\* The store is a JobLifecycle, failures and crashes included.
Lifecycle == INSTANCE JobLifecycle
               WITH state <- state, evidence <- evidence, Keys <- Keys,
                    Requests <- Requests, MaxJobs <- MaxJobs, MaxPending <- MaxPending
LifecycleSpec == Lifecycle!Spec

\* Every admitted job ends while its process lives, as long as no store
\* operation fails (checked with MaxFailures = 0).
JobsEnd ==
    \A j \in Jobs : j \in Pending ~> (state[j] \in Terminal \/ proc = "down")

\* close joins the scheduler and releases the store.
CloseEnds == closed ~> proc = "down"

\* manager.py:3-5: "Fatal scheduler faults stop new admission and remain
\* observable, rather than abandoning queued work": while the scheduler is
\* not faulted, the work the store calls pending is work it still has.
NoAbandonedWork ==
    proc = "up" /\ ~faulted /\ spc # "fault" =>
        \A j \in Pending : j \in Elements(queue) \cup {current}
=============================================================================
