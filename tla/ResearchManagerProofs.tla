------------------------ MODULE ResearchManagerProofs ------------------------
(***************************************************************************)
(* Theorems about ResearchManager for any sets of keys, requests and       *)
(* callers, any budgets and any number of store failures and restarts.     *)
(***************************************************************************)
EXTENDS ResearchManager, SequenceTheorems, TLAPS

\* A thread that is past the point where it chose a job still holds one: what
\* TypeOK needs to be inductive.
HoldsJob ==
    /\ \A c \in Clients : cpc[c] # "idle" => cjob[c] \in Jobs
    /\ spc \in {"run", "publish", "failing", "finally", "raised"} =>
          current \in Jobs

TypeInv == TypeOK /\ HoldsJob

-----------------------------------------------------------------------------
\* Removing one position of a sequence leaves a sequence over the same set.
LEMMA WithoutType ==
    ASSUME NEW S, NEW s \in Seq(S), NEW i \in DOMAIN s
    PROVE  Without(s, i) \in Seq(S)
<1>1. i \in 1..Len(s)
  BY DEF Without
<1>2. SubSeq(s, 1, i - 1) \in Seq(S)
  BY <1>1, SubSeqProperties
<1>3. SubSeq(s, i + 1, Len(s)) \in Seq(S)
  BY <1>1, SubSeqProperties
<1> QED
  BY <1>2, <1>3, ConcatProperties DEF Without

\* The transactions of the store keep its three tables well typed.
StoreType ==
    /\ state \in [Jobs -> States]
    /\ evidence \in SUBSET Jobs
    /\ audit \in Seq(Jobs \X States)

\* A submission keeps the store's types.
LEMMA SubmitType ==
    ASSUME StoreType, NEW j \in Jobs, StoreSubmit(j)
    PROVE  StoreType'
BY DEF StoreType, StoreSubmit, States, Terminal

\* A transition keeps the store's types.
LEMMA TransitionType ==
    ASSUME StoreType, NEW j \in Jobs, NEW s \in States, StoreTransition(j, s)
    PROVE  StoreType'
BY DEF StoreType, StoreTransition

\* A publication keeps the store's types.
LEMMA PublishType ==
    ASSUME StoreType, NEW j \in Jobs, StorePublish(j)
    PROVE  StoreType'
BY DEF StoreType, StorePublish, States, Terminal

\* A failed transaction keeps the store's types.
LEMMA FailsType ==
    ASSUME StoreType, failures \in 0..MaxFailures, StoreFails
    PROVE  StoreType' /\ failures' \in 0..MaxFailures
BY BudgetAssumption DEF StoreType, StoreFails, store

\* cancel and wait keep the deque and the wait list well typed.
LEMMA WithdrawType ==
    ASSUME queue \in Seq(Jobs), event \in BOOLEAN, NEW j \in Jobs, Withdraw(j)
    PROVE  queue' \in Seq(Jobs) /\ event' \in BOOLEAN
BY WithoutType DEF Withdraw

\* Both outcomes of cancelling one job.
LEMMA CancelType ==
    ASSUME TypeOK, NEW j \in Jobs, CancelDone(j) \/ CancelFails(j)
    PROVE  /\ StoreType'
           /\ queue' \in Seq(Jobs)
           /\ event' \in BOOLEAN
           /\ waiters' \in Seq(Clients \cup {Scheduler})
           /\ failures' \in 0..MaxFailures
<1>1. StoreType
  BY DEF TypeOK, StoreType
<1>2. queue' \in Seq(Jobs) /\ event' \in BOOLEAN
  BY WithdrawType DEF TypeOK, CancelDone, CancelFails
<1>3. CASE CancelDone(j)
  <2>1. StoreType'
    BY <1>1, <1>3, TransitionType DEF CancelDone, States, Terminal
  <2> QED
    BY <1>2, <1>3, <2>1 DEF CancelDone, StoreOk, NotifyAll, TypeOK
<1>4. CASE CancelFails(j)
  BY <1>1, <1>2, <1>4, FailsType DEF CancelFails, TypeOK
<1> QED
  BY <1>3, <1>4

-----------------------------------------------------------------------------
\* The initial state is well typed, and every action keeps it so.
LEMMA TypeInit == Init => TypeInv
<1> SUFFICES ASSUME Init PROVE TypeInv
  OBVIOUS
<1>1. /\ queue \in Seq(Jobs) /\ todo \in Seq(Jobs)
      /\ waiters \in Seq(Clients \cup {Scheduler})
      /\ audit \in Seq(Jobs \X States)
  BY EmptySeq DEF Init
<1>2. /\ cpc \in [Clients -> {"idle", "preflight", "waiting"}]
      /\ cjob \in [Clients -> Jobs \cup {None}]
      /\ state \in [Jobs -> States]
  BY DEF Init, States
<1>3. HoldsJob
  BY DEF Init, HoldsJob
<1>4. failures \in 0..MaxFailures
  BY BudgetAssumption DEF Init
<1> QED
  BY <1>1, <1>2, <1>3, <1>4 DEF Init, TypeInv, TypeOK, SchedulerPoints

\* What a process end leaves in memory is well typed.
LEMMA ProcessEndsType ==
    ASSUME StoreType', ProcessEnds, failures' \in 0..MaxFailures,
           starts' \in Nat
    PROVE  TypeInv'
<1>1. /\ queue' \in Seq(Jobs) /\ todo' \in Seq(Jobs)
      /\ waiters' \in Seq(Clients \cup {Scheduler})
  BY EmptySeq DEF ProcessEnds
<1>2. /\ cpc' \in [Clients -> {"idle", "preflight", "waiting"}]
      /\ cjob' \in [Clients -> Jobs \cup {None}]
  BY DEF ProcessEnds
<1>3. HoldsJob'
  BY DEF ProcessEnds, HoldsJob
<1> QED
  BY <1>1, <1>2, <1>3
     DEF TypeInv, TypeOK, StoreType, ProcessEnds, SchedulerPoints

\* The callers' steps keep the types.
LEMMA TypeCallers ==
    ASSUME TypeInv, CallerNext
    PROVE  TypeInv'
<1> USE DEF TypeInv, TypeOK, HoldsJob, store, memory, sched, callers, shutdown
<1>1. ASSUME NEW c \in Clients, NEW j \in Jobs, SubmitLookup(c, j)
      PROVE  TypeInv'
  BY <1>1 DEF SubmitLookup
<1>2. ASSUME NEW c \in Clients, NEW j \in Jobs, WaitBegin(c, j)
      PROVE  TypeInv'
  BY <1>2 DEF WaitBegin, Sleep
<1>3. ASSUME NEW c \in Clients, SubmitReturns(c)
      PROVE  TypeInv'
  BY <1>3 DEF SubmitReturns
<1>4. ASSUME NEW c \in Clients, SubmitAdmit(c)
      PROVE  TypeInv'
  <2>1. cjob[c] \in Jobs
    BY <1>4 DEF SubmitAdmit
  <2>2. StoreType'
    BY <1>4, <2>1, SubmitType DEF SubmitAdmit, StoreType
  <2>3. queue' \in Seq(Jobs)
    BY <1>4, <2>1 DEF SubmitAdmit
  <2>4. waiters' \in Seq(Clients \cup {Scheduler})
    BY <1>4, HeadTailProperties DEF SubmitAdmit, Notify
  <2> QED
    BY <1>4, <2>2, <2>3, <2>4 DEF SubmitAdmit, StoreType
<1>5. ASSUME NEW c \in Clients, WaitAgain(c)
      PROVE  TypeInv'
  BY <1>5 DEF WaitAgain, Sleep
<1>6. ASSUME NEW c \in Clients, WaitReturns(c)
      PROVE  TypeInv'
  <2>1. waiters' \in Seq(Clients \cup {Scheduler})
    BY <1>6, WithoutType DEF WaitReturns
  <2> QED
    BY <1>6, <2>1 DEF WaitReturns
<1>7. ASSUME NEW j \in Jobs, Cancel(j)
      PROVE  TypeInv'
  <2>1. /\ StoreType'
        /\ queue' \in Seq(Jobs)
        /\ event' \in BOOLEAN
        /\ waiters' \in Seq(Clients \cup {Scheduler})
        /\ failures' \in 0..MaxFailures
    BY <1>7, CancelType DEF Cancel
  <2> QED
    BY <1>7, <2>1 DEF Cancel, StoreType
<1> QED
  BY <1>1, <1>2, <1>3, <1>4, <1>5, <1>6, <1>7 DEF CallerNext

\* The scheduler's steps keep the types.
LEMMA TypeScheduler ==
    ASSUME TypeInv, SchedulerNext
    PROVE  TypeInv'
<1> USE DEF TypeInv, TypeOK, HoldsJob, store, memory, sched, callers, shutdown,
            SchedulerPoints
<1>1. CASE SchedulerSleeps
  BY <1>1 DEF SchedulerSleeps, Sleep
<1>2. CASE SchedulerExits
  BY <1>2 DEF SchedulerExits
<1>3. CASE Dequeue
  <2>1. Head(queue) \in Jobs /\ Tail(queue) \in Seq(Jobs)
    BY <1>3, HeadTailProperties DEF Dequeue
  <2>2. StoreType' /\ failures' \in 0..MaxFailures
    BY <1>3, <2>1, TransitionType, FailsType
       DEF Dequeue, StoreType, StoreOk, States
  <2> QED
    BY <1>3, <2>1, <2>2 DEF Dequeue, StoreType
<1>4. CASE Run
  BY <1>4 DEF Run
<1>5. CASE PublishRun
  <2>1. current \in Jobs
    BY <1>5 DEF PublishRun, SchedulerAt
  <2>2. StoreType' /\ failures' \in 0..MaxFailures
    BY <1>5, <2>1, PublishType, FailsType DEF PublishRun, StoreType, StoreOk
  <2> QED
    BY <1>5, <2>1, <2>2 DEF PublishRun, StoreType
<1>6. CASE FailRun
  <2>1. current \in Jobs
    BY <1>6 DEF FailRun, SchedulerAt
  <2>2. StoreType' /\ failures' \in 0..MaxFailures
    BY <1>6, <2>1, TransitionType, FailsType
       DEF FailRun, StoreType, StoreOk, States, Terminal
  <2> QED
    BY <1>6, <2>1, <2>2 DEF FailRun, StoreType
<1>7. CASE EndRun
  BY <1>7 DEF EndRun, NotifyAll
<1>8. CASE Fault
  BY <1>8 DEF Fault
<1>9. CASE FaultHandled
  <2>1. StoreType' /\ failures' \in 0..MaxFailures
    BY <1>9, FailsType DEF FaultHandled, StoreType, StoreOk
  <2> QED
    BY <1>9, <2>1, EmptySeq DEF FaultHandled, NotifyAll, StoreType
<1>10. ASSUME NEW j \in Jobs, FaultFails(j)
       PROVE  TypeInv'
  <2>1. StoreType'
    BY <1>10, TransitionType DEF FaultFails, StoreType, States, Terminal
  <2> QED
    BY <1>10, <2>1 DEF FaultFails, StoreOk, StoreType
<1> QED
  BY <1>1, <1>2, <1>3, <1>4, <1>5, <1>6, <1>7, <1>8, <1>9, <1>10
     DEF SchedulerNext

\* close's steps keep the types.
LEMMA TypeClose ==
    ASSUME TypeInv, CloseNext
    PROVE  TypeInv'
<1> USE DEF TypeInv, TypeOK, HoldsJob, store, memory, sched, callers, shutdown
<1>1. CASE CloseBegin
  BY <1>1 DEF CloseBegin
<1>2. CASE CloseCancel
  <2>1. Head(todo) \in Jobs /\ Tail(todo) \in Seq(Jobs)
    BY <1>2, HeadTailProperties DEF CloseCancel
  <2>2. CASE CancelDone(Head(todo)) \/ CancelFails(Head(todo))
    <3>1. /\ StoreType'
          /\ queue' \in Seq(Jobs)
          /\ event' \in BOOLEAN
          /\ waiters' \in Seq(Clients \cup {Scheduler})
          /\ failures' \in 0..MaxFailures
      BY <2>1, <2>2, CancelType
    <3> QED
      BY <1>2, <2>1, <3>1, EmptySeq DEF CloseCancel, StoreType
  <2>3. CASE ~(CancelDone(Head(todo)) \/ CancelFails(Head(todo)))
    BY <1>2, <2>1, <2>3 DEF CloseCancel
  <2> QED
    BY <2>2, <2>3
<1>3. CASE CloseNotifies
  BY <1>3 DEF CloseNotifies, NotifyAll
<1>4. CASE CloseReleases
  BY <1>4, ProcessEndsType DEF CloseReleases, StoreType
<1> QED
  BY <1>1, <1>2, <1>3, <1>4 DEF CloseNext

\* The end of the process and the recovery keep the types.
LEMMA TypeProcess ==
    ASSUME TypeInv, ProcessNext
    PROVE  TypeInv'
<1> USE DEF TypeInv, TypeOK, HoldsJob, store, memory, sched, callers, shutdown
<1>1. CASE Crash
  BY <1>1, ProcessEndsType DEF Crash, StoreType
<1>2. CASE Restart
  BY <1>2 DEF Restart
<1>3. CASE Recovered
  BY <1>3 DEF Recovered
<1>4. ASSUME NEW j \in Jobs, Recover(j)
      PROVE  TypeInv'
  <2>1. StoreType' /\ failures' \in 0..MaxFailures
    BY <1>4, TransitionType, FailsType
       DEF Recover, StoreType, StoreOk, States, Terminal
  <2> QED
    BY <1>4, <2>1 DEF Recover, StoreType
<1> QED
  BY <1>1, <1>2, <1>3, <1>4 DEF ProcessNext

\* Every step keeps the types.
LEMMA TypeStep == TypeInv /\ [Next]_vars => TypeInv'
<1> SUFFICES ASSUME TypeInv, [Next]_vars PROVE TypeInv'
  OBVIOUS
<1>1. CASE UNCHANGED vars
  BY <1>1 DEF vars, store, memory, sched, callers, shutdown, TypeInv, TypeOK,
              HoldsJob
<1> QED
  BY <1>1, TypeCallers, TypeScheduler, TypeClose, TypeProcess DEF Next

\* Every variable of the manager and its store keeps its type in every
\* reachable state, and no thread acts on a job it does not hold
\* (manager.py, store.py).
THEOREM TypeCorrect == Spec => [](TypeOK /\ HoldsJob)
BY TypeInit, TypeStep, PTL DEF Spec, TypeInv
-----------------------------------------------------------------------------
\* The ways an action may change the store: one transaction on one job, and
\* an admission only while the scheduler is available.
StoreEffect ==
    \/ UNCHANGED store
    \/ \E j \in Jobs :
          \/ Available /\ StoreSubmit(j)
          \/ StorePublish(j)
          \/ \E s \in {"running", "failed", "cancelled"} : StoreTransition(j, s)

\* What a cancel does to the store.
LEMMA CancelEffect ==
    ASSUME NEW j \in Jobs, CancelDone(j) \/ CancelFails(j)
    PROVE  StoreEffect
BY DEF CancelDone, CancelFails, StoreFails, StoreEffect

\* Whatever runs, the store sees at most one of its own transactions.
LEMMA StoreStep ==
    ASSUME TypeInv, Next
    PROVE  StoreEffect
<1> USE DEF store
<1>1. CASE CallerNext
  <2>1. ASSUME NEW c \in Clients, NEW j \in Jobs,
               SubmitLookup(c, j) \/ WaitBegin(c, j)
        PROVE  StoreEffect
    BY <2>1 DEF SubmitLookup, WaitBegin, StoreEffect
  <2>2. ASSUME NEW c \in Clients,
               SubmitReturns(c) \/ WaitAgain(c) \/ WaitReturns(c)
        PROVE  StoreEffect
    BY <2>2 DEF SubmitReturns, WaitAgain, WaitReturns, StoreEffect
  <2>3. ASSUME NEW c \in Clients, SubmitAdmit(c)
        PROVE  StoreEffect
    BY <2>3 DEF SubmitAdmit, StoreEffect, TypeInv, HoldsJob
  <2>4. ASSUME NEW j \in Jobs, Cancel(j)
        PROVE  StoreEffect
    BY <2>4, CancelEffect DEF Cancel
  <2> QED
    BY <1>1, <2>1, <2>2, <2>3, <2>4 DEF CallerNext
<1>2. CASE SchedulerNext
  <2>1. CASE SchedulerSleeps \/ SchedulerExits \/ Run \/ EndRun \/ Fault
    BY <2>1 DEF SchedulerSleeps, SchedulerExits, Run, EndRun, Fault, StoreEffect
  <2>2. CASE Dequeue
    <3>1. Head(queue) \in Jobs
      BY <2>2, HeadTailProperties DEF Dequeue, TypeInv, TypeOK
    <3> QED
      BY <2>2, <3>1 DEF Dequeue, StoreFails, StoreEffect
  <2>3. CASE PublishRun
    BY <2>3 DEF PublishRun, SchedulerAt, StoreFails, StoreEffect, TypeInv,
                HoldsJob
  <2>4. CASE FailRun
    BY <2>4 DEF FailRun, SchedulerAt, StoreFails, StoreEffect, TypeInv, HoldsJob
  <2>5. CASE FaultHandled
    BY <2>5 DEF FaultHandled, StoreFails, StoreEffect
  <2>6. ASSUME NEW j \in Jobs, FaultFails(j)
        PROVE  StoreEffect
    BY <2>6 DEF FaultFails, StoreEffect
  <2> QED
    BY <1>2, <2>1, <2>2, <2>3, <2>4, <2>5, <2>6 DEF SchedulerNext
<1>3. CASE CloseNext
  <2>1. CASE CloseBegin \/ CloseNotifies \/ CloseReleases
    BY <2>1 DEF CloseBegin, CloseNotifies, CloseReleases, StoreEffect
  <2>2. CASE CloseCancel
    <3>1. Head(todo) \in Jobs
      BY <2>2, HeadTailProperties DEF CloseCancel, TypeInv, TypeOK
    <3> QED
      BY <2>2, <3>1, CancelEffect DEF CloseCancel, StoreEffect
  <2> QED
    BY <1>3, <2>1, <2>2 DEF CloseNext
<1>4. CASE ProcessNext
  BY <1>4 DEF ProcessNext, Crash, Restart, Recovered, Recover, StoreFails,
              StoreEffect
<1> QED
  BY <1>1, <1>2, <1>3, <1>4 DEF Next

-----------------------------------------------------------------------------
\* The manager over its store implements the JobLifecycle contract: every
\* step of any thread, of a failing transaction, of a crash or of recovery is
\* one lifecycle step of one job or none (store.submit, transition, publish).
THEOREM ImplementsLifecycle == Spec => LifecycleSpec
<1>1. Init => Lifecycle!Init
  BY DEF Init, Lifecycle!Init, Jobs, Lifecycle!Jobs
<1>2. TypeInv /\ [Next]_vars => [Lifecycle!Next]_(Lifecycle!vars)
  <2> SUFFICES ASSUME TypeInv, [Next]_vars
               PROVE  [Lifecycle!Next]_(Lifecycle!vars)
    OBVIOUS
  <2> USE DEF Jobs, Lifecycle!Jobs, Lifecycle!Next, Lifecycle!vars
  <2>1. CASE UNCHANGED store
    BY <2>1 DEF store
  <2>2. ASSUME NEW j \in Jobs, StoreSubmit(j)
        PROVE  Lifecycle!Next
    <3>1. Lifecycle!Retained = Retained /\ Lifecycle!Pending = Pending
      BY DEF Retained, Lifecycle!Retained, Pending, Lifecycle!Pending
    <3>2. \A S : Lifecycle!Cardinality(S) = Cardinality(S)
      BY DEF Cardinality, Lifecycle!Cardinality
    <3>3. Lifecycle!Admit(j)
      BY <2>2, <3>1, <3>2
         DEF StoreSubmit, Lifecycle!Admit, KeyBound, Lifecycle!KeyBound
    <3> QED
      BY <3>3
  <2>3. ASSUME NEW j \in Jobs, StorePublish(j)
        PROVE  Lifecycle!Next
    BY <2>3 DEF StorePublish, Lifecycle!Publish
  <2>4. ASSUME NEW j \in Jobs, StoreTransition(j, "running")
        PROVE  Lifecycle!Next
    BY <2>4 DEF StoreTransition, Permitted, Lifecycle!Begin
  <2>5. ASSUME NEW j \in Jobs, NEW s \in {"failed", "cancelled"},
               StoreTransition(j, s)
        PROVE  Lifecycle!Next
    BY <2>5 DEF StoreTransition, Permitted, Lifecycle!Abandon,
                Lifecycle!Pending
  <2>6. CASE UNCHANGED vars
    BY <2>6 DEF vars, store
  <2>7. CASE Next
    BY <2>1, <2>2, <2>3, <2>4, <2>5, <2>7, StoreStep DEF StoreEffect
  <2> QED
    BY <2>6, <2>7
<1>3. Spec => []TypeInv
  BY TypeCorrect DEF TypeInv
<1> QED
  BY <1>1, <1>2, <1>3, PTL DEF Spec, LifecycleSpec, Lifecycle!Spec

\* A key never names two jobs, whatever races between the two locked blocks
\* of Manager.submit.
THEOREM KeysAreExclusive == Spec => []OneJobPerKey
<1>1. Init => OneJobPerKey
  BY DEF Init, OneJobPerKey, Jobs
<1>2. TypeInv /\ OneJobPerKey /\ [Next]_vars => OneJobPerKey'
  <2> SUFFICES ASSUME TypeInv, OneJobPerKey, [Next]_vars,
                      NEW k \in Keys, NEW r \in Requests, NEW q \in Requests,
                      state'[<<k, r>>] # "none", state'[<<k, q>>] # "none"
               PROVE  r = q
    BY DEF OneJobPerKey
  <2> USE DEF TypeInv, TypeOK, Jobs
  <2>1. CASE UNCHANGED store
    BY <2>1 DEF store, OneJobPerKey
  <2>2. ASSUME NEW j \in Jobs, StoreSubmit(j)
        PROVE  r = q
    <3>1. PICK a \in Keys, b \in Requests : j = <<a, b>>
      OBVIOUS
    <3>2. CASE a = k
      <4>1. state[<<k, r>>] = "none" /\ state[<<k, q>>] = "none"
        BY <2>2, <3>1, <3>2 DEF StoreSubmit, KeyBound
      <4> QED
        BY <2>2, <3>1, <4>1 DEF StoreSubmit
    <3>3. CASE a # k
      <4>1. state[<<k, r>>] # "none" /\ state[<<k, q>>] # "none"
        BY <2>2, <3>1, <3>3 DEF StoreSubmit
      <4> QED
        BY <4>1 DEF OneJobPerKey
    <3> QED
      BY <3>2, <3>3
  <2>3. ASSUME NEW j \in Jobs, StorePublish(j)
        PROVE  r = q
    BY <2>3 DEF StorePublish, OneJobPerKey
  <2>4. ASSUME NEW j \in Jobs, NEW s \in {"running", "failed", "cancelled"},
               StoreTransition(j, s)
        PROVE  r = q
    BY <2>4 DEF StoreTransition, Permitted, OneJobPerKey
  <2>5. CASE UNCHANGED vars
    BY <2>1, <2>5 DEF vars
  <2>6. CASE Next
    BY <2>1, <2>2, <2>3, <2>4, <2>6, StoreStep DEF StoreEffect
  <2> QED
    BY <2>5, <2>6
<1>3. Spec => []TypeInv
  BY TypeCorrect DEF TypeInv
<1> QED
  BY <1>1, <1>2, <1>3, PTL DEF Spec

\* After close has begun or the scheduler has faulted no step admits a job,
\* also not the second half of a submission already in its preflight.
THEOREM NoLateAdmission == Spec => AdmissionStops
<1>1. TypeInv /\ [Next]_vars
        => [closed \/ faulted => Retained' \subseteq Retained]_vars
  <2> SUFFICES ASSUME TypeInv, Next, closed \/ faulted,
                      NEW i \in Jobs, state'[i] # "none"
               PROVE  state[i] # "none"
    BY DEF Retained
  <2> USE DEF TypeInv, TypeOK
  <2>1. CASE UNCHANGED store
    BY <2>1 DEF store
  <2>2. ASSUME NEW j \in Jobs, StorePublish(j)
        PROVE  state[i] # "none"
    BY <2>2 DEF StorePublish
  <2>3. ASSUME NEW j \in Jobs, NEW s \in {"running", "failed", "cancelled"},
               StoreTransition(j, s)
        PROVE  state[i] # "none"
    BY <2>3 DEF StoreTransition, Permitted
  <2> QED
    BY <2>1, <2>2, <2>3, StoreStep DEF StoreEffect, Available
<1>2. Spec => []TypeInv
  BY TypeCorrect DEF TypeInv
<1> QED
  BY <1>1, <1>2, PTL DEF Spec, AdmissionStops

-----------------------------------------------------------------------------
(* Sequences without some of their entries *)

Distinct(s) == \A i, k \in DOMAIN s : s[i] = s[k] => i = k

\* t keeps some entries of s, in their order.
Thinned(t, s) ==
    \E f \in [DOMAIN t -> DOMAIN s] :
        /\ \A i, k \in DOMAIN t : i < k => f[i] < f[k]
        /\ \A i \in DOMAIN t : t[i] = s[f[i]]

\* The entries of a sequence with one position removed.
LEMMA WithoutEntries ==
    ASSUME NEW S, NEW s \in Seq(S), NEW i \in DOMAIN s
    PROVE  /\ Len(Without(s, i)) = Len(s) - 1
           /\ DOMAIN Without(s, i) = 1..(Len(s) - 1)
           /\ \A k \in 1..(Len(s) - 1) :
                 Without(s, i)[k] = s[IF k < i THEN k ELSE k + 1]
<1>1. i \in 1..Len(s) /\ Len(s) \in Nat
  OBVIOUS
<1> DEFINE a == SubSeq(s, 1, i - 1)
           b == SubSeq(s, i + 1, Len(s))
<1>2. /\ a \in Seq(S) /\ Len(a) = i - 1
      /\ \A k \in 1..(i - 1) : a[k] = s[k]
  BY <1>1, SubSeqProperties
<1>3. /\ b \in Seq(S) /\ Len(b) = Len(s) - i
      /\ \A k \in 1..(Len(s) - i) : b[k] = s[i + k]
  BY <1>1, SubSeqProperties
<1> HIDE DEF a, b
<1>4. /\ a \o b \in Seq(S) /\ Len(a \o b) = Len(s) - 1
      /\ \A k \in 1..(Len(s) - 1) :
            (a \o b)[k] = IF k <= i - 1 THEN a[k] ELSE b[k - (i - 1)]
  <2>1. /\ a \o b \in Seq(S)
        /\ Len(a \o b) = Len(a) + Len(b)
        /\ \A k \in 1..(Len(a) + Len(b)) :
              (a \o b)[k] = IF k <= Len(a) THEN a[k] ELSE b[k - Len(a)]
    BY <1>2, <1>3, ConcatProperties
  <2>2. Len(a) + Len(b) = Len(s) - 1
    BY <1>1, <1>2, <1>3
  <2> QED
    BY <1>2, <2>1, <2>2
<1>5. ASSUME NEW k \in 1..(Len(s) - 1)
      PROVE  (a \o b)[k] = s[IF k < i THEN k ELSE k + 1]
  <2>1. CASE k < i
    <3>1. k <= i - 1 /\ k \in 1..(i - 1)
      BY <1>1, <2>1
    <3> QED
      BY <1>2, <1>4, <2>1, <3>1
  <2>2. CASE ~(k < i)
    <3>1. ~(k <= i - 1) /\ k - (i - 1) \in 1..(Len(s) - i) /\ i + (k - (i - 1)) = k + 1
      BY <1>1, <2>2
    <3> QED
      BY <1>1, <1>3, <1>4, <2>2, <3>1
  <2> QED
    BY <2>1, <2>2
<1>6. Without(s, i) = a \o b
  BY DEF Without, a, b
<1>7. DOMAIN (a \o b) = 1..(Len(s) - 1)
  BY <1>4
<1> QED
  BY <1>4, <1>5, <1>6, <1>7

\* Taking one entry out thins a sequence.
LEMMA WithoutThins ==
    ASSUME NEW S, NEW s \in Seq(S), NEW i \in DOMAIN s
    PROVE  Thinned(Without(s, i), s)
<1>1. i \in 1..Len(s) /\ Len(s) \in Nat /\ DOMAIN s = 1..Len(s)
  OBVIOUS
<1> DEFINE f == [k \in 1..(Len(s) - 1) |-> IF k < i THEN k ELSE k + 1]
<1>2. f \in [DOMAIN Without(s, i) -> DOMAIN s]
  BY <1>1, WithoutEntries
<1>3. \A h, k \in 1..(Len(s) - 1) : h < k => f[h] < f[k]
  BY <1>1
<1>4. \A k \in 1..(Len(s) - 1) : Without(s, i)[k] = s[f[k]]
  BY WithoutEntries
<1> HIDE DEF f
<1>5. DOMAIN Without(s, i) = 1..(Len(s) - 1)
  BY WithoutEntries
<1> QED
  BY <1>2, <1>3, <1>4, <1>5 DEF Thinned

\* Taking the first entry off thins a sequence.
LEMMA TailThins ==
    ASSUME NEW S, NEW s \in Seq(S), s # <<>>
    PROVE  Thinned(Tail(s), s)
<1> DEFINE f == [k \in 1..(Len(s) - 1) |-> k + 1]
<1>1. /\ Tail(s) \in Seq(S) /\ Len(Tail(s)) = Len(s) - 1
      /\ Len(s) \in Nat /\ DOMAIN s = 1..Len(s)
      /\ DOMAIN Tail(s) = 1..(Len(s) - 1)
      /\ \A k \in 1..(Len(s) - 1) : Tail(s)[k] = s[k + 1]
  BY HeadTailProperties
<1>2. f \in [DOMAIN Tail(s) -> DOMAIN s]
  BY <1>1
<1>3. \A h, k \in 1..(Len(s) - 1) : h < k => f[h] < f[k]
  BY <1>1
<1>4. \A k \in 1..(Len(s) - 1) : Tail(s)[k] = s[f[k]]
  BY <1>1
<1> HIDE DEF f
<1> QED
  BY <1>1, <1>2, <1>3, <1>4 DEF Thinned

\* A sequence thins itself.
LEMMA SameThins ==
    ASSUME NEW S, NEW s \in Seq(S)
    PROVE  Thinned(s, s)
<1> DEFINE f == [k \in DOMAIN s |-> k]
<1>1. f \in [DOMAIN s -> DOMAIN s] /\ \A k \in DOMAIN s : f[k] = k
  OBVIOUS
<1> HIDE DEF f
<1> QED
  BY <1>1 DEF Thinned

\* Thinning a sequence without repetitions brings none in.
LEMMA ThinnedDistinct ==
    ASSUME NEW S, NEW s \in Seq(S), NEW t \in Seq(S), Distinct(s), Thinned(t, s)
    PROVE  /\ Distinct(t)
           /\ \A k \in DOMAIN t : \E i \in DOMAIN s : t[k] = s[i]
<1>1. PICK f \in [DOMAIN t -> DOMAIN s] :
         /\ \A i, k \in DOMAIN t : i < k => f[i] < f[k]
         /\ \A i \in DOMAIN t : t[i] = s[f[i]]
  BY DEF Thinned
<1>2. /\ DOMAIN t = 1..Len(t) /\ Len(t) \in Nat
      /\ DOMAIN s = 1..Len(s) /\ Len(s) \in Nat
  OBVIOUS
<1>3. ASSUME NEW i \in DOMAIN t, NEW k \in DOMAIN t, t[i] = t[k]
      PROVE  i = k
  <2>1. f[i] = f[k]
    BY <1>1, <1>3 DEF Distinct
  <2>2. ~(i < k) /\ ~(k < i)
    BY <1>1, <1>2, <2>1
  <2> QED
    BY <1>2, <2>2
<1> QED
  BY <1>1, <1>3 DEF Distinct

\* What is left when one entry is taken out of a sequence without repetitions.
LEMMA WithoutElements ==
    ASSUME NEW S, NEW s \in Seq(S), NEW i \in DOMAIN s, Distinct(s)
    PROVE  Elements(Without(s, i)) = Elements(s) \ {s[i]}
<1>1. i \in 1..Len(s) /\ Len(s) \in Nat /\ DOMAIN s = 1..Len(s)
  OBVIOUS
<1> DEFINE t == Without(s, i)
<1>2. /\ DOMAIN t = 1..(Len(s) - 1)
      /\ \A k \in 1..(Len(s) - 1) : t[k] = s[IF k < i THEN k ELSE k + 1]
  BY WithoutEntries
<1> HIDE DEF t
<1>3. ASSUME NEW k \in DOMAIN t
      PROVE  t[k] \in Elements(s) \ {s[i]}
  <2>1. (IF k < i THEN k ELSE k + 1) \in DOMAIN s \ {i}
    BY <1>1, <1>2
  <2> QED
    BY <1>2, <2>1 DEF Elements, Distinct
<1>4. ASSUME NEW h \in DOMAIN s, s[h] # s[i]
      PROVE  s[h] \in Elements(t)
  <2>1. CASE h < i
    BY <1>1, <1>2, <2>1 DEF Elements
  <2>2. CASE i < h
    <3>1. h - 1 \in DOMAIN t /\ t[h - 1] = s[h]
      BY <1>1, <1>2, <2>2
    <3> QED
      BY <3>1 DEF Elements
  <2> QED
    BY <1>1, <1>4, <2>1, <2>2
<1> QED
  BY <1>3, <1>4 DEF Elements, t

\* What is left without the first entry.
LEMMA TailElements ==
    ASSUME NEW S, NEW s \in Seq(S), s # <<>>, Distinct(s)
    PROVE  Elements(Tail(s)) = Elements(s) \ {Head(s)}
<1>1. /\ Tail(s) \in Seq(S) /\ Len(Tail(s)) = Len(s) - 1
      /\ Len(s) \in Nat \ {0} /\ DOMAIN s = 1..Len(s)
      /\ DOMAIN Tail(s) = 1..(Len(s) - 1)
      /\ \A k \in 1..(Len(s) - 1) : Tail(s)[k] = s[k + 1]
      /\ Head(s) = s[1]
  BY HeadTailProperties, EmptySeq
<1>2. ASSUME NEW k \in DOMAIN Tail(s)
      PROVE  Tail(s)[k] \in Elements(s) \ {s[1]}
  <2>1. k + 1 \in DOMAIN s /\ k + 1 # 1 /\ 1 \in DOMAIN s
    BY <1>1
  <2> QED
    BY <1>1, <2>1 DEF Elements, Distinct
<1>3. ASSUME NEW h \in DOMAIN s, s[h] # s[1]
      PROVE  s[h] \in Elements(Tail(s))
  <2>1. h - 1 \in DOMAIN Tail(s) /\ Tail(s)[h - 1] = s[h]
    BY <1>1, <1>3
  <2> QED
    BY <2>1 DEF Elements
<1> QED
  BY <1>1, <1>2, <1>3 DEF Elements

\* What a sequence holds with one more entry.
LEMMA AppendElements ==
    ASSUME NEW S, NEW s \in Seq(S), NEW x \in S
    PROVE  /\ Elements(Append(s, x)) = Elements(s) \cup {x}
           /\ x \notin Elements(s) /\ Distinct(s) => Distinct(Append(s, x))
<1>1. /\ Len(s) \in Nat /\ DOMAIN s = 1..Len(s)
      /\ DOMAIN Append(s, x) = 1..(Len(s) + 1)
      /\ \A k \in 1..Len(s) : Append(s, x)[k] = s[k]
      /\ Append(s, x)[Len(s) + 1] = x
  BY AppendProperties
<1>2. \A k \in 1..(Len(s) + 1) : k \in 1..Len(s) \/ k = Len(s) + 1
  BY <1>1
<1>3. \A k \in 1..Len(s) : k \in 1..(Len(s) + 1)
  BY <1>1
<1>4. Len(s) + 1 \in 1..(Len(s) + 1)
  BY <1>1
<1>5. Elements(Append(s, x)) = Elements(s) \cup {x}
  BY <1>1, <1>2, <1>3, <1>4 DEF Elements
<1>6. ASSUME x \notin Elements(s), Distinct(s)
      PROVE  Distinct(Append(s, x))
  BY <1>1, <1>2, <1>6 DEF Distinct, Elements
<1> QED
  BY <1>5, <1>6

\* What holds of the scheduler's memory whatever fails: the parts QueueSound
\* needs to be inductive.
DownIsEmpty ==
    proc # "up" =>
        /\ queue = <<>> /\ current = None
        /\ ~closed /\ ~faulted
        /\ waiters = <<>> /\ spc = "poll"

FaultPoint ==
    /\ spc = "handling" => faulted
    /\ faulted => spc \in {"handling", "exited"}

CurrentApart ==
    proc = "up" /\ ~faulted => \A i \in DOMAIN queue : queue[i] # current

SchedulerInv ==
    /\ active = current
    /\ DownIsEmpty
    /\ FaultPoint
    /\ current \in Jobs => state[current] # "none"
    /\ CurrentApart
    /\ QueueSound

\* The store never forgets a job.
LEMMA NeverForgotten ==
    ASSUME TypeInv, StoreEffect, NEW j \in Jobs, state[j] # "none"
    PROVE  state'[j] # "none"
<1> USE DEF TypeInv, TypeOK
<1>1. CASE UNCHANGED store
  BY <1>1 DEF store
<1>2. ASSUME NEW h \in Jobs, StoreSubmit(h)
      PROVE  state'[j] # "none"
  BY <1>2 DEF StoreSubmit
<1>3. ASSUME NEW h \in Jobs, StorePublish(h)
      PROVE  state'[j] # "none"
  BY <1>3 DEF StorePublish
<1>4. ASSUME NEW h \in Jobs, NEW s \in {"running", "failed", "cancelled"},
             StoreTransition(h, s)
      PROVE  state'[j] # "none"
  BY <1>4 DEF StoreTransition
<1> QED
  BY <1>1, <1>2, <1>3, <1>4 DEF StoreEffect

\* The deque stays sound when it is thinned and no job left in it moves.
LEMMA QueueThins ==
    ASSUME TypeInv, SchedulerInv, TypeInv', proc = "up", ~faulted,
           Thinned(queue', queue),
           \A j \in Jobs : j \in Elements(queue') => state'[j] = state[j],
           current' = current \/ current' \notin Elements(queue')
    PROVE  QueueSound' /\ CurrentApart'
<1> USE DEF TypeInv, TypeOK
<1>1. Distinct(queue) /\ \A i \in DOMAIN queue : state[queue[i]] = "queued"
  BY DEF SchedulerInv, QueueSound, Distinct
<1>2. /\ Distinct(queue')
      /\ \A k \in DOMAIN queue' : \E i \in DOMAIN queue : queue'[k] = queue[i]
  BY <1>1, ThinnedDistinct
<1>3. \A k \in DOMAIN queue' : queue'[k] \in Jobs /\ queue'[k] \in Elements(queue')
  BY DEF Elements
<1>4. \A k \in DOMAIN queue' : state'[queue'[k]] = "queued"
  BY <1>1, <1>2, <1>3
<1>5. \A k \in DOMAIN queue' : queue'[k] # current'
  BY <1>2, <1>3 DEF SchedulerInv, CurrentApart
<1> QED
  BY <1>2, <1>4, <1>5 DEF QueueSound, CurrentApart, Distinct

\* cancel of a job: the deque is thinned, and the job is no longer in it.
LEMMA WithdrawThins ==
    ASSUME TypeInv, SchedulerInv, proc = "up", ~faulted, NEW j \in Jobs,
           Withdraw(j)
    PROVE  Thinned(queue', queue) /\ j \notin Elements(queue')
<1> USE DEF TypeInv, TypeOK
<1>1. CASE active = j /\ UNCHANGED queue
  BY <1>1, SameThins DEF SchedulerInv, CurrentApart, Elements
<1>2. ASSUME NEW i \in DOMAIN queue, queue[i] = j, queue' = Without(queue, i)
      PROVE  Thinned(queue', queue) /\ j \notin Elements(queue')
  <2>1. Distinct(queue)
    BY DEF SchedulerInv, QueueSound, Distinct
  <2> QED
    BY <1>2, <2>1, WithoutThins, WithoutElements
<1> QED
  BY <1>1, <1>2 DEF Withdraw

\* Both outcomes of cancelling one job keep the deque sound.
LEMMA CancelKeepsQueue ==
    ASSUME TypeInv, SchedulerInv, TypeInv', proc = "up", NEW j \in Jobs,
           CancelDone(j) \/ CancelFails(j), UNCHANGED <<current, proc, faulted>>
    PROVE  QueueSound' /\ CurrentApart'
<1> USE DEF TypeInv, TypeOK
<1>1. CASE faulted
  BY <1>1 DEF QueueSound, CurrentApart
<1>2. CASE ~faulted
  <2>1. Withdraw(j)
    BY DEF CancelDone, CancelFails
  <2>2. Thinned(queue', queue) /\ j \notin Elements(queue')
    BY <1>2, <2>1, WithdrawThins
  <2>3. \A h \in Jobs : h # j => state'[h] = state[h]
    BY DEF CancelDone, CancelFails, StoreTransition, StoreFails, store
  <2> QED
    BY <1>2, <2>2, <2>3, QueueThins
<1> QED
  BY <1>1, <1>2

\* The callers keep the scheduler's memory sound.
LEMMA SchedulerInvCallers ==
    ASSUME TypeInv, SchedulerInv, TypeInv', StoreEffect, CallerNext
    PROVE  SchedulerInv'
<1> USE DEF TypeInv, TypeOK, store, memory, sched, callers, shutdown
<1>0. current \in Jobs => state'[current] # "none"
  BY NeverForgotten DEF SchedulerInv
<1>1. ASSUME UNCHANGED <<state, queue, active, closed, faulted, proc, sched>>,
             proc = "up"
      PROVE  SchedulerInv'
  BY <1>1 DEF SchedulerInv, DownIsEmpty, FaultPoint, CurrentApart, QueueSound
<1>2. ASSUME NEW c \in Clients, NEW j \in Jobs,
             SubmitLookup(c, j) \/ WaitBegin(c, j)
      PROVE  SchedulerInv'
  BY <1>1, <1>2 DEF SubmitLookup, WaitBegin
<1>3. ASSUME NEW c \in Clients, SubmitReturns(c) \/ WaitAgain(c)
      PROVE  SchedulerInv'
  BY <1>1, <1>3 DEF SubmitReturns, WaitAgain
<1>4. ASSUME NEW c \in Clients, WaitReturns(c)
      PROVE  SchedulerInv'
  BY <1>1, <1>4 DEF WaitReturns
<1>5. ASSUME NEW c \in Clients, SubmitAdmit(c)
      PROVE  SchedulerInv'
  <2> DEFINE j == cjob[c]
  <2>1. j \in Jobs /\ proc = "up" /\ ~faulted
    BY <1>5 DEF SubmitAdmit, HoldsJob, Available
  <2>2. state[j] = "none" /\ state' = [state EXCEPT ![j] = "queued"]
    <3>1. PICK k \in Keys, r \in Requests : j = <<k, r>>
      BY <2>1 DEF Jobs
    <3> QED
      <4>1. StoreSubmit(j)
        BY <1>5 DEF SubmitAdmit
      <4>2. ~KeyBound(k)
        BY <3>1, <4>1 DEF StoreSubmit
      <4>3. state[<<k, r>>] = "none"
        BY <4>2 DEF KeyBound
      <4> QED
        BY <3>1, <4>1, <4>3 DEF StoreSubmit
  <2>3. /\ \A i \in DOMAIN queue : state[queue[i]] = "queued" /\ queue[i] # current
        /\ Distinct(queue)
    BY <2>1 DEF SchedulerInv, CurrentApart, QueueSound, Distinct
  <2>4. j \notin Elements(queue) /\ j # current
    BY <2>2, <2>3 DEF Elements, SchedulerInv
  <2> HIDE DEF j
  <2>5. queue' = Append(queue, j)
    BY <1>5 DEF SubmitAdmit, j
  <2>6. Distinct(queue') /\ Elements(queue') = Elements(queue) \cup {j}
    BY <2>1, <2>3, <2>4, <2>5, AppendElements
  <2>7. ASSUME NEW h \in Elements(queue')
        PROVE  state'[h] = "queued" /\ h # current
    <3>1. CASE h = j
      BY <2>1, <2>2, <2>4, <3>1
    <3>2. CASE h # j
      <4>1. h \in Jobs /\ state[h] = "queued" /\ h # current
        <5>1. PICK i \in DOMAIN queue : h = queue[i]
          BY <2>6, <3>2 DEF Elements
        <5> QED
          BY <2>3, <5>1
      <4> QED
        BY <2>1, <2>2, <3>2, <4>1
    <3> QED
      BY <3>1, <3>2
  <2>8. QueueSound' /\ CurrentApart'
    BY <1>5, <2>6, <2>7
       DEF SubmitAdmit, QueueSound, CurrentApart, Distinct, Elements
  <2> QED
    BY <1>0, <1>5, <2>1, <2>8 DEF SubmitAdmit, SchedulerInv, DownIsEmpty, FaultPoint
<1>6. ASSUME NEW j \in Jobs, Cancel(j)
      PROVE  SchedulerInv'
  <2>1. QueueSound' /\ CurrentApart'
    BY <1>6, CancelKeepsQueue DEF Cancel
  <2> QED
    BY <1>0, <1>6, <2>1 DEF Cancel, SchedulerInv, DownIsEmpty, FaultPoint
<1> QED
  BY <1>2, <1>3, <1>4, <1>5, <1>6 DEF CallerNext

\* The scheduler keeps its memory sound.
LEMMA SchedulerInvScheduler ==
    ASSUME TypeInv, SchedulerInv, TypeInv', StoreEffect, SchedulerNext
    PROVE  SchedulerInv'
<1> USE DEF TypeInv, TypeOK, store, memory, sched, callers, shutdown
<1>0. current \in Jobs => state'[current] # "none"
  BY NeverForgotten DEF SchedulerInv
<1>1. CASE SchedulerSleeps
  BY <1>1 DEF SchedulerSleeps, Polling, SchedulerAt, SchedulerInv, DownIsEmpty,
              FaultPoint, CurrentApart, QueueSound
<1>2. CASE SchedulerExits
  BY <1>2 DEF SchedulerExits, Polling, SchedulerAt, SchedulerInv, DownIsEmpty,
              FaultPoint, CurrentApart, QueueSound
<1>3. CASE Dequeue
  <2>1. proc = "up" /\ ~faulted /\ queue # <<>>
    BY <1>3 DEF Dequeue, Polling, SchedulerAt, SchedulerInv, FaultPoint
  <2>2. Distinct(queue) /\ \A i \in DOMAIN queue : state[queue[i]] = "queued"
    BY <2>1 DEF SchedulerInv, QueueSound, Distinct
  <2>3. /\ Elements(queue') = Elements(queue) \ {Head(queue)}
        /\ Thinned(queue', queue)
    BY <1>3, <2>1, <2>2, TailElements, TailThins DEF Dequeue
  <2>4. Head(queue) \in Jobs /\ Head(queue) = queue[1] /\ 1 \in DOMAIN queue
    BY <2>1, HeadTailProperties, EmptySeq
  <2>5. \A h \in Jobs : h # Head(queue) => state'[h] = state[h]
    BY <1>3 DEF Dequeue, StoreTransition, StoreFails
  <2>6. QueueSound' /\ CurrentApart'
    BY <1>3, <2>1, <2>3, <2>5, QueueThins DEF Dequeue
  <2>7. state'[Head(queue)] # "none"
    BY <2>2, <2>4, NeverForgotten
  <2> QED
    BY <1>3, <2>1, <2>6, <2>7
       DEF Dequeue, SchedulerInv, DownIsEmpty, FaultPoint
<1>4. CASE Run
  BY <1>4 DEF Run, SchedulerInv, DownIsEmpty, FaultPoint, CurrentApart,
              QueueSound
<1>5. CASE PublishRun \/ FailRun
  <2>1. /\ proc = "up" /\ ~faulted
        /\ UNCHANGED <<queue, active, closed, faulted, waiters, proc, current>>
        /\ spc' \in {"finally", "raised"}
    BY <1>5 DEF PublishRun, FailRun, SchedulerAt, SchedulerInv, FaultPoint
  <2>2. \A h \in Jobs : h # current => state'[h] = state[h]
    BY <1>5 DEF PublishRun, FailRun, StorePublish, StoreTransition, StoreFails
  <2>3. current \notin Elements(queue')
    BY <2>1 DEF SchedulerInv, CurrentApart, Elements
  <2>4. QueueSound' /\ CurrentApart'
    BY <2>1, <2>2, <2>3, SameThins, QueueThins
  <2> QED
    BY <1>0, <2>1, <2>4 DEF SchedulerInv, DownIsEmpty, FaultPoint
<1>6. CASE EndRun
  BY <1>6, IdentityAssumption
     DEF EndRun, SchedulerAt, SchedulerInv, DownIsEmpty, FaultPoint,
         CurrentApart, QueueSound
<1>7. CASE Fault
  BY <1>7 DEF Fault, SchedulerAt, SchedulerInv, DownIsEmpty, FaultPoint,
              CurrentApart, QueueSound
<1>8. CASE FaultHandled
  BY <1>0, <1>8 DEF FaultHandled, Handling, SchedulerInv, DownIsEmpty,
                    FaultPoint, CurrentApart, QueueSound
<1>9. ASSUME NEW j \in Jobs, FaultFails(j)
      PROVE  SchedulerInv'
  BY <1>0, <1>9 DEF FaultFails, Handling, SchedulerInv, DownIsEmpty,
                    FaultPoint, CurrentApart, QueueSound
<1> QED
  BY <1>1, <1>2, <1>3, <1>4, <1>5, <1>6, <1>7, <1>8, <1>9 DEF SchedulerNext

\* close keeps the scheduler's memory sound.
LEMMA SchedulerInvClose ==
    ASSUME TypeInv, SchedulerInv, TypeInv', StoreEffect, CloseNext
    PROVE  SchedulerInv'
<1> USE DEF TypeInv, TypeOK, store, memory, sched, callers, shutdown
<1>0. current \in Jobs => state'[current] # "none"
  BY NeverForgotten DEF SchedulerInv
<1>1. CASE CloseBegin
  BY <1>1 DEF CloseBegin, SchedulerInv, DownIsEmpty, FaultPoint, CurrentApart,
              QueueSound
<1>2. CASE CloseCancel
  <2>1. Head(todo) \in Jobs
    BY <1>2, HeadTailProperties DEF CloseCancel
  <2>2. QueueSound' /\ CurrentApart'
    <3>1. CASE UNCHANGED <<store, queue>>
      BY <1>2, <3>1 DEF CloseCancel, SchedulerInv, QueueSound, CurrentApart
    <3>2. CASE CancelDone(Head(todo)) \/ CancelFails(Head(todo))
      BY <1>2, <2>1, <3>2, CancelKeepsQueue DEF CloseCancel, Closing
    <3> QED
      BY <1>2, <3>1, <3>2 DEF CloseCancel
  <2> QED
    BY <1>0, <1>2, <2>2
       DEF CloseCancel, Closing, SchedulerInv, DownIsEmpty, FaultPoint
<1>3. CASE CloseNotifies
  BY <1>3 DEF CloseNotifies, Closing, SchedulerInv, DownIsEmpty, FaultPoint,
              CurrentApart, QueueSound
<1>4. CASE CloseReleases
  BY <1>4, IdentityAssumption
     DEF CloseReleases, ProcessEnds, SchedulerInv, DownIsEmpty, FaultPoint,
         CurrentApart, QueueSound
<1> QED
  BY <1>1, <1>2, <1>3, <1>4 DEF CloseNext

\* The end of the process and its recovery keep the scheduler's memory sound.
LEMMA SchedulerInvProcess ==
    ASSUME TypeInv, SchedulerInv, TypeInv', ProcessNext
    PROVE  SchedulerInv'
<1> USE IdentityAssumption DEF TypeInv, TypeOK, store, memory, sched, callers, shutdown
<1>1. CASE Crash
  BY <1>1 DEF Crash, ProcessEnds, SchedulerInv, DownIsEmpty, FaultPoint,
              CurrentApart, QueueSound
<1>2. CASE Restart
  BY <1>2 DEF Restart, SchedulerInv, DownIsEmpty, FaultPoint,
              CurrentApart, QueueSound
<1>3. CASE Recovered
  BY <1>3, EmptySeq DEF Recovered, SchedulerInv, DownIsEmpty, FaultPoint,
              CurrentApart, QueueSound
<1>4. ASSUME NEW j \in Jobs, Recover(j)
      PROVE  SchedulerInv'
  BY <1>4 DEF Recover, SchedulerInv, DownIsEmpty, FaultPoint,
              CurrentApart, QueueSound
<1> QED
  BY <1>1, <1>2, <1>3, <1>4 DEF ProcessNext

\* Every step keeps the scheduler's memory sound.
LEMMA SchedulerInvStep ==
    TypeInv /\ TypeInv' /\ SchedulerInv /\ [Next]_vars => SchedulerInv'
<1> SUFFICES ASSUME TypeInv, TypeInv', SchedulerInv, [Next]_vars
             PROVE  SchedulerInv'
  OBVIOUS
<1>1. CASE UNCHANGED vars
  BY <1>1 DEF vars, store, memory, sched, SchedulerInv, DownIsEmpty, FaultPoint,
              CurrentApart, QueueSound
<1> QED
  BY <1>1, StoreStep, SchedulerInvCallers, SchedulerInvScheduler,
     SchedulerInvClose, SchedulerInvProcess DEF Next

\* The scheduler's memory is sound in every reachable state.
LEMMA SchedulerInvHolds == Spec => []SchedulerInv
<1>1. Init => SchedulerInv
  BY IdentityAssumption, EmptySeq
     DEF Init, SchedulerInv, DownIsEmpty, FaultPoint, CurrentApart, QueueSound
<1> QED
  BY <1>1, SchedulerInvStep, TypeCorrect, PTL DEF Spec, TypeInv

\* While the scheduler is sound, its deque holds queued jobs only, each once,
\* whatever store operation failed before (Manager.submit, cancel, _consume,
\* _loop).
THEOREM QueueIsSound == Spec => []QueueSound
BY SchedulerInvHolds, PTL DEF SchedulerInv

-----------------------------------------------------------------------------
(* Store and memory agree while no store operation failed *)

RunPoints == {"run", "publish", "failing", "finally", "raised"}

\* The queued jobs are those of the deque and only the scheduler's own job
\* runs: the part of QueueAgreement the rest follows from.
Agreed ==
    proc = "up" /\ spc # "handling" =>
        /\ \A j \in Jobs : state[j] = "queued" <=> j \in Elements(queue)
        /\ \A j \in Jobs : state[j] = "running" /\ spc # "fault" => current = j

\* Where the scheduler stands says what its current job is, and after the
\* fault handler nothing is pending.
PointAgrees ==
    /\ spc \notin RunPoints => current = None
    /\ spc \in RunPoints /\ event => state[current] \in Terminal
    /\ spc = "finally" => state[current] \in Terminal
    /\ faulted /\ spc = "exited" => \A j \in Jobs : state[j] \notin {"queued", "running"}

AgreementInv == failures = 0 => Agreed /\ PointAgrees

\* While nothing has failed the invariant gives the agreement.
LEMMA AgreementHolds ==
    ASSUME TypeInv, SchedulerInv, AgreementInv
    PROVE  QueueAgreement
<1> SUFFICES ASSUME proc = "up", failures = 0, spc # "handling"
             PROVE  /\ {j \in Jobs : state[j] = "queued"} = Elements(queue)
                    /\ \A j \in Jobs :
                          state[j] = "running" /\ spc # "fault" => current = j
                    /\ \A j \in Pending :
                          j \in Elements(queue) \cup {active} \/ spc = "fault"
  BY DEF QueueAgreement
<1>1. Agreed /\ active = current
  BY DEF AgreementInv, SchedulerInv
<1>2. Elements(queue) \subseteq Jobs
  BY DEF Elements, TypeInv, TypeOK
<1> QED
  BY <1>1, <1>2 DEF Agreed, Pending

\* A step that leaves the store, the deque and the run as they are.
LEMMA AgreementSame ==
    ASSUME AgreementInv, failures' = 0 => failures = 0,
           UNCHANGED <<state, queue, event, faulted, proc, sched>>
    PROVE  AgreementInv'
BY DEF AgreementInv, Agreed, PointAgrees, sched

\* What cancel takes out of the deque.
LEMMA WithdrawElements ==
    ASSUME TypeInv, SchedulerInv, proc = "up", ~faulted, NEW j \in Jobs,
           Withdraw(j)
    PROVE  Elements(queue') = Elements(queue) \ {j}
<1> USE DEF TypeInv, TypeOK
<1>1. CASE active = j /\ UNCHANGED queue
  BY <1>1 DEF SchedulerInv, CurrentApart, Elements
<1>2. ASSUME NEW i \in DOMAIN queue, queue[i] = j, queue' = Without(queue, i)
      PROVE  Elements(queue') = Elements(queue) \ {j}
  <2>1. Distinct(queue)
    BY DEF SchedulerInv, QueueSound, Distinct
  <2> QED
    BY <1>2, <2>1, WithoutElements
<1> QED
  BY <1>1, <1>2 DEF Withdraw

\* Cancelling one job keeps the agreement.
LEMMA CancelAgrees ==
    ASSUME TypeInv, SchedulerInv, AgreementInv, proc = "up", NEW j \in Jobs,
           CancelDone(j) \/ CancelFails(j),
           UNCHANGED <<spc, current, active, proc, faulted>>
    PROVE  AgreementInv'
<1> USE DEF TypeInv, TypeOK
<1> SUFFICES ASSUME failures' = 0 PROVE Agreed' /\ PointAgrees'
  BY DEF AgreementInv
<1>1. CancelDone(j) /\ failures = 0
  BY DEF CancelDone, CancelFails, StoreOk, StoreFails
<1>2. /\ j \in Pending
      /\ Withdraw(j)
      /\ state' = [state EXCEPT ![j] = "cancelled"]
  BY <1>1 DEF CancelDone, StoreTransition
<1>3. Agreed /\ PointAgrees /\ active = current
  BY <1>1 DEF AgreementInv, SchedulerInv
<1>4. PointAgrees'
  <2>1. spc \in RunPoints /\ event' => state'[current] \in Terminal
    <3>1. CASE active = j
      BY <1>2, <1>3, <3>1 DEF Terminal
    <3>2. CASE active # j
      BY <1>2, <1>3, <3>2 DEF Withdraw, PointAgrees, HoldsJob, RunPoints
    <3> QED
      BY <3>1, <3>2
  <2>2. spc = "finally" => state'[current] \in Terminal
    BY <1>2, <1>3 DEF PointAgrees, Pending, HoldsJob, Terminal
  <2>3. ~(faulted /\ spc = "exited")
    BY <1>2, <1>3 DEF PointAgrees, Pending
  <2> QED
    BY <1>3, <2>1, <2>2, <2>3 DEF PointAgrees
<1>5. CASE spc = "handling"
  BY <1>4, <1>5 DEF Agreed
<1>6. CASE spc # "handling"
  <2>1. ~faulted
    BY <1>2, <1>3, <1>6 DEF SchedulerInv, FaultPoint, PointAgrees, Pending
  <2>2. Elements(queue') = Elements(queue) \ {j}
    BY <1>2, <2>1, WithdrawElements
  <2> QED
    BY <1>2, <1>3, <1>4, <1>6, <2>2 DEF Agreed
<1> QED
  BY <1>5, <1>6

\* The callers keep the agreement.
LEMMA AgreementCallers ==
    ASSUME TypeInv, SchedulerInv, AgreementInv, TypeInv', CallerNext
    PROVE  AgreementInv'
<1> USE DEF TypeInv, TypeOK, store, memory, sched, callers, shutdown
<1>1. ASSUME NEW c \in Clients, NEW j \in Jobs,
             SubmitLookup(c, j) \/ WaitBegin(c, j)
      PROVE  AgreementInv'
  BY <1>1, AgreementSame DEF SubmitLookup, WaitBegin
<1>2. ASSUME NEW c \in Clients, SubmitReturns(c) \/ WaitAgain(c)
      PROVE  AgreementInv'
  BY <1>2, AgreementSame DEF SubmitReturns, WaitAgain
<1>3. ASSUME NEW c \in Clients, WaitReturns(c)
      PROVE  AgreementInv'
  BY <1>3, AgreementSame DEF WaitReturns
<1>4. ASSUME NEW c \in Clients, SubmitAdmit(c)
      PROVE  AgreementInv'
  <2>0. PICK j \in Jobs : j = cjob[c]
    BY <1>4 DEF SubmitAdmit, HoldsJob
  <2>1. /\ proc = "up" /\ ~faulted /\ queue' = Append(queue, j)
        /\ state' = [state EXCEPT ![j] = "queued"]
        /\ UNCHANGED <<event, faulted, proc, spc, current, failures>>
    BY <1>4, <2>0 DEF SubmitAdmit, StoreSubmit, Available
  <2>2. Elements(queue') = Elements(queue) \cup {j}
    BY <2>1, AppendElements
  <2>3. state[j] = "none"
    <3>1. PICK k \in Keys, r \in Requests : j = <<k, r>>
      BY DEF Jobs
    <3>2. ~KeyBound(k)
      BY <1>4, <2>0, <3>1 DEF SubmitAdmit, StoreSubmit
    <3> QED
      BY <3>1, <3>2 DEF KeyBound
  <2>4. j # current
    BY <2>3 DEF SchedulerInv
  <2> SUFFICES ASSUME failures = 0 PROVE Agreed' /\ PointAgrees'
    BY <2>1 DEF AgreementInv
  <2>5. Agreed'
    BY <2>1, <2>2, <2>3 DEF AgreementInv, Agreed
  <2>6. PointAgrees'
    BY <2>1, <2>4 DEF AgreementInv, PointAgrees, HoldsJob, RunPoints
  <2> QED
    BY <2>5, <2>6
<1>5. ASSUME NEW j \in Jobs, Cancel(j)
      PROVE  AgreementInv'
  BY <1>5, CancelAgrees DEF Cancel
<1> QED
  BY <1>1, <1>2, <1>3, <1>4, <1>5 DEF CallerNext

\* The scheduler keeps the agreement.
LEMMA AgreementScheduler ==
    ASSUME TypeInv, SchedulerInv, AgreementInv, TypeInv', SchedulerNext
    PROVE  AgreementInv'
<1> USE DEF TypeInv, TypeOK, store, memory, sched, callers, shutdown
<1> SUFFICES ASSUME failures' = 0 PROVE Agreed' /\ PointAgrees'
  BY DEF AgreementInv
<1>0. failures = 0 /\ Agreed /\ PointAgrees /\ None \notin Jobs
  <2>1. failures' = failures \/ failures' = failures + 1
    BY DEF SchedulerNext, SchedulerSleeps, SchedulerExits, Dequeue, Run,
           PublishRun, FailRun, EndRun, Fault, FaultHandled, FaultFails,
           StoreOk, StoreFails
  <2> QED
    BY <2>1, IdentityAssumption DEF AgreementInv
<1>1. CASE SchedulerSleeps
  BY <1>0, <1>1 DEF SchedulerSleeps, Agreed, PointAgrees
<1>2. CASE SchedulerExits
  BY <1>0, <1>2 DEF SchedulerExits, Polling, SchedulerAt, SchedulerInv,
                    FaultPoint, Agreed, PointAgrees, RunPoints
<1>3. CASE Dequeue
  <2>1. /\ proc = "up" /\ spc = "poll" /\ ~faulted /\ queue # <<>>
        /\ current = None
    BY <1>0, <1>3
       DEF Dequeue, Polling, SchedulerAt, SchedulerInv, FaultPoint, PointAgrees,
           RunPoints
  <2>2. Distinct(queue)
    BY <2>1 DEF SchedulerInv, QueueSound, Distinct
  <2>3. Elements(queue') = Elements(queue) \ {Head(queue)}
    BY <1>3, <2>1, <2>2, TailElements DEF Dequeue
  <2>4. Head(queue) \in Jobs
    BY <2>1, HeadTailProperties
  <2>5. /\ state' = [state EXCEPT ![Head(queue)] = "running"]
        /\ spc' = "run" /\ event' = FALSE /\ current' = Head(queue)
        /\ UNCHANGED <<proc, faulted>>
    BY <1>0, <1>3 DEF Dequeue, StoreTransition, StoreFails
  <2>6. Agreed'
    BY <1>0, <2>1, <2>3, <2>4, <2>5 DEF Agreed
  <2> QED
    BY <2>5, <2>6 DEF PointAgrees, RunPoints
<1>4. CASE Run
  BY <1>0, <1>4 DEF Run, Agreed, PointAgrees, RunPoints
<1>5. CASE PublishRun
  <2>1. /\ proc = "up" /\ spc = "publish" /\ current \in Jobs
        /\ UNCHANGED <<queue, event, faulted, proc, current>>
    BY <1>5 DEF PublishRun, SchedulerAt, HoldsJob
  <2>2. CASE UNCHANGED state
    BY <1>0, <1>5, <2>1, <2>2
       DEF PublishRun, StorePublish, Agreed, PointAgrees, RunPoints
  <2>3. CASE StorePublish(current)
    <3>1. /\ state[current] = "running" /\ spc' = "finally"
          /\ state' = [state EXCEPT ![current] = "succeeded"]
      BY <1>0, <1>5, <2>3
         DEF PublishRun, StorePublish, PointAgrees, RunPoints, StoreFails
    <3> QED
      BY <1>0, <2>1, <3>1 DEF Agreed, PointAgrees, RunPoints, Terminal
  <2> QED
    BY <1>5, <2>2, <2>3 DEF PublishRun, StoreFails
<1>6. CASE FailRun
  <2>1. /\ proc = "up" /\ spc = "failing" /\ current \in Jobs
        /\ UNCHANGED <<queue, event, faulted, proc, current>>
    BY <1>6 DEF FailRun, SchedulerAt, HoldsJob
  <2>2. CASE UNCHANGED state /\ state[current] \in Terminal /\ spc' = "finally"
    BY <1>0, <2>1, <2>2 DEF Agreed, PointAgrees, RunPoints
  <2>3. CASE StoreTransition(current, "failed") /\ spc' = "finally"
    <3>1. state' = [state EXCEPT ![current] = "failed"]
      BY <2>3 DEF StoreTransition
    <3>2. ~faulted /\ current \notin Elements(queue)
      BY <2>1 DEF SchedulerInv, FaultPoint, CurrentApart, Elements
    <3> QED
      BY <1>0, <2>1, <2>3, <3>1, <3>2 DEF Agreed, PointAgrees, RunPoints, Terminal
  <2> QED
    BY <1>0, <1>6, <2>2, <2>3 DEF FailRun, StoreFails
<1>7. CASE EndRun
  <2>1. /\ proc = "up" /\ spc \in {"finally", "raised"} /\ current' = None
        /\ spc' = IF spc = "finally" THEN "poll" ELSE "fault"
        /\ UNCHANGED <<state, queue, event, faulted, proc>>
    BY <1>7 DEF EndRun, SchedulerAt
  <2>2. ~faulted
    BY <2>1 DEF SchedulerInv, FaultPoint
  <2>3. PointAgrees'
    BY <2>1, <2>2 DEF PointAgrees, RunPoints
  <2>4. Agreed'
    BY <1>0, <2>1 DEF Agreed, PointAgrees, Terminal
  <2> QED
    BY <2>3, <2>4
<1>8. CASE Fault
  BY <1>0, <1>8 DEF Fault, SchedulerAt, Agreed, PointAgrees, RunPoints
<1>9. CASE FaultHandled
  <2>1. /\ Pending = {} /\ queue' = <<>> /\ spc' = "exited" /\ spc = "handling"
        /\ UNCHANGED <<state, current, proc, event, faulted>>
    BY <1>0, <1>9 DEF FaultHandled, Handling, StoreFails
  <2>2. \A j \in Jobs : state'[j] \notin {"queued", "running"}
    BY <2>1 DEF Pending
  <2>3. Elements(queue') = {}
    BY <2>1 DEF Elements
  <2> QED
    BY <1>0, <2>1, <2>2, <2>3 DEF Agreed, PointAgrees, RunPoints
<1>10. ASSUME NEW j \in Jobs, FaultFails(j)
       PROVE  Agreed' /\ PointAgrees'
  BY <1>0, <1>10 DEF FaultFails, Handling, Agreed, PointAgrees, RunPoints
<1> QED
  BY <1>1, <1>2, <1>3, <1>4, <1>5, <1>6, <1>7, <1>8, <1>9, <1>10
     DEF SchedulerNext

\* A process end leaves nothing to agree about.
LEMMA AgreementEnds ==
    ASSUME AgreementInv, ProcessEnds
    PROVE  AgreementInv'
BY DEF ProcessEnds, AgreementInv, Agreed, PointAgrees, RunPoints

\* close, the end of the process and its recovery keep the agreement.
LEMMA AgreementRest ==
    ASSUME TypeInv, SchedulerInv, AgreementInv, CloseNext \/ ProcessNext
    PROVE  AgreementInv'
<1> USE DEF TypeInv, TypeOK, store, memory, sched, callers, shutdown
<1>1. CASE CloseBegin \/ CloseNotifies
  BY <1>1, AgreementSame DEF CloseBegin, CloseNotifies
<1>2. CASE CloseCancel
  <2>1. Head(todo) \in Jobs
    BY <1>2, HeadTailProperties DEF CloseCancel
  <2>2. CASE UNCHANGED <<store, queue, event, failures>>
    BY <1>2, <2>2, AgreementSame DEF CloseCancel
  <2>3. CASE CancelDone(Head(todo)) \/ CancelFails(Head(todo))
    BY <1>2, <2>1, <2>3, CancelAgrees DEF CloseCancel, Closing
  <2> QED
    BY <1>2, <2>2, <2>3 DEF CloseCancel
<1>3. CASE CloseReleases \/ Crash
  BY <1>3, AgreementEnds DEF CloseReleases, Crash
<1>4. CASE Restart
  BY <1>4 DEF Restart, AgreementInv, Agreed, PointAgrees
<1>5. CASE Recovered
  <2>1. queue = <<>> /\ spc = "poll" /\ \A j \in Jobs : state[j] \notin {"queued", "running"}
    BY <1>5 DEF Recovered, SchedulerInv, DownIsEmpty, Pending
  <2>2. Elements(queue) = {}
    BY <2>1 DEF Elements
  <2> QED
    BY <1>5, <2>1, <2>2 DEF Recovered, AgreementInv, Agreed, PointAgrees
<1>6. ASSUME NEW j \in Jobs, Recover(j)
      PROVE  AgreementInv'
  BY <1>6 DEF Recover, SchedulerInv, DownIsEmpty, StoreOk, StoreFails, AgreementInv, Agreed,
              PointAgrees, RunPoints
<1> QED
  BY <1>1, <1>2, <1>3, <1>4, <1>5, <1>6 DEF CloseNext, ProcessNext

\* Every step keeps the agreement.
LEMMA AgreementStep ==
    TypeInv /\ TypeInv' /\ SchedulerInv /\ AgreementInv /\ [Next]_vars
       => AgreementInv'
<1> SUFFICES ASSUME TypeInv, TypeInv', SchedulerInv, AgreementInv, [Next]_vars
             PROVE  AgreementInv'
  OBVIOUS
<1>1. CASE UNCHANGED vars
  BY <1>1, AgreementSame DEF vars, store, memory
<1> QED
  BY <1>1, AgreementCallers, AgreementScheduler, AgreementRest DEF Next

\* The agreement holds in every reachable state.
LEMMA AgreementInvHolds == Spec => []AgreementInv
<1>1. Init => AgreementInv
  <2> SUFFICES ASSUME Init PROVE AgreementInv
    OBVIOUS
  <2>1. Elements(queue) = {}
    BY DEF Init, Elements
  <2> QED
    BY <2>1 DEF Init, AgreementInv, Agreed, PointAgrees, RunPoints
<1> QED
  BY <1>1, AgreementStep, SchedulerInvHolds, TypeCorrect, PTL DEF Spec, TypeInv

\* As long as no store operation failed, the store's pending jobs are those of
\* the deque and the scheduler's own (Manager.submit, cancel, _consume, _loop).
THEOREM StoreAndQueueAgree == Spec => []QueueAgreement
BY AgreementHolds, AgreementInvHolds, SchedulerInvHolds, TypeCorrect, PTL DEF TypeInv

-----------------------------------------------------------------------------
(* No notification is lost *)

\* Who can be asleep: nobody twice, callers in wait on an admitted job, and the
\* scheduler only where it polls.
WaitersKnown ==
    /\ Distinct(waiters)
    /\ \A c \in Clients : Sleeping(c) => cpc[c] = "waiting"
    /\ \A c \in Clients : cpc[c] = "waiting" => state[cjob[c]] # "none"
    /\ Sleeping(Scheduler) => spc = "poll"

WakeInv == WaitersKnown /\ NoLostWakeup

\* The jobs waited for stay admitted while the callers stand still.
LEMMA WaitedStayKnown ==
    ASSUME TypeInv, StoreEffect, WakeInv, UNCHANGED callers,
           NEW c \in Clients, cpc'[c] = "waiting"
    PROVE  state'[cjob'[c]] # "none"
<1>1. cpc[c] = "waiting" /\ cjob'[c] = cjob[c] /\ cjob[c] \in Jobs
  BY DEF callers, TypeInv, HoldsJob
<1>2. state[cjob[c]] # "none"
  BY <1>1 DEF WakeInv, WaitersKnown
<1> QED
  BY <1>1, <1>2, NeverForgotten

\* After notify_all nobody is asleep.
LEMMA AllAwake ==
    ASSUME waiters' = <<>>,
           \A c \in Clients : cpc'[c] = "waiting" => state'[cjob'[c]] # "none"
    PROVE  WakeInv'
<1>1. Elements(waiters') = {} /\ Distinct(waiters')
  BY DEF Elements, Distinct
<1> QED
  BY <1>1 DEF WakeInv, WaitersKnown, NoLostWakeup, Sleeping

\* A step that wakes nobody, settles no job and hands the scheduler nothing.
LEMMA WakeSame ==
    ASSUME TypeInv, WakeInv, StoreEffect, failures' = 0 => failures = 0,
           UNCHANGED <<waiters, callers, queue, faulted, closed, closing>>,
           ~Sleeping(Scheduler) \/ UNCHANGED spc,
           \A c \in Clients :
              Sleeping(c) /\ Settled(cjob[c])' => Settled(cjob[c]),
           spc \in {"finally", "raised", "handling"} => spc' = spc
    PROVE  WakeInv'
<1>1. cpc' = cpc /\ cjob' = cjob
  BY DEF callers
<1>2. \A t : Sleeping(t)' <=> Sleeping(t)
  BY DEF Sleeping, Elements
<1>3. WaitersKnown'
  BY <1>1, <1>2, WaitedStayKnown DEF WakeInv, WaitersKnown, Distinct
<1>4. NoLostWakeup'
  BY <1>1, <1>2 DEF WakeInv, NoLostWakeup, callers
<1> QED
  BY <1>3, <1>4 DEF WakeInv

\* A thread that goes to sleep was not asleep.
LEMMA SleepKnown ==
    ASSUME TypeInv, NEW t \in Clients \cup {Scheduler}, ~Sleeping(t),
           Distinct(waiters), Sleep(t)
    PROVE  /\ Distinct(waiters')
           /\ \A u : Sleeping(u)' <=> Sleeping(u) \/ u = t
BY AppendElements DEF TypeInv, TypeOK, Sleep, Sleeping

\* The callers keep the invariant of the wait list.
LEMMA WakeCallers ==
    ASSUME TypeInv, SchedulerInv, AgreementInv, WakeInv, StoreEffect, CallerNext
    PROVE  WakeInv'
<1> USE IdentityAssumption
        DEF TypeInv, TypeOK, store, memory, sched, callers, shutdown
<1>0. /\ WaitersKnown /\ NoLostWakeup /\ Distinct(waiters)
      /\ waiters \in Seq(Clients \cup {Scheduler})
  BY DEF WakeInv, WaitersKnown
<1>1. ASSUME NEW c \in Clients, NEW j \in Jobs, SubmitLookup(c, j)
      PROVE  WakeInv'
  <2>1. \A t : Sleeping(t)' <=> Sleeping(t)
    BY <1>1 DEF SubmitLookup, Sleeping
  <2>2. cpc[c] = "idle" /\ ~Sleeping(c)
    BY <1>0, <1>1 DEF SubmitLookup, WaitersKnown
  <2>3. WaitersKnown'
    BY <1>0, <1>1, <2>1 DEF SubmitLookup, WaitersKnown
  <2>4. NoLostWakeup'
    BY <1>0, <1>1, <2>1, <2>2 DEF SubmitLookup, NoLostWakeup, Settled
  <2> QED
    BY <2>3, <2>4 DEF WakeInv
<1>2. ASSUME NEW c \in Clients, NEW j \in Jobs, WaitBegin(c, j)
      PROVE  WakeInv'
  <2>1. cpc[c] = "idle" /\ ~Sleeping(c) /\ state[j] # "none" /\ ~Settled(j)
    BY <1>0, <1>2 DEF WaitBegin, WaitersKnown
  <2>2. /\ Distinct(waiters')
        /\ \A u : Sleeping(u)' <=> Sleeping(u) \/ u = c
    BY <1>0, <1>2, <2>1, SleepKnown DEF WaitBegin
  <2>3. WaitersKnown'
    BY <1>0, <1>2, <2>1, <2>2 DEF WaitBegin, WaitersKnown
  <2>4. NoLostWakeup'
    BY <1>0, <1>2, <2>1, <2>2 DEF WaitBegin, NoLostWakeup, Settled
  <2> QED
    BY <2>3, <2>4 DEF WakeInv
<1>3. ASSUME NEW c \in Clients, SubmitReturns(c)
      PROVE  WakeInv'
  <2>1. \A t : Sleeping(t)' <=> Sleeping(t)
    BY <1>3 DEF SubmitReturns, Sleeping
  <2>2. cpc[c] = "preflight" /\ ~Sleeping(c)
    BY <1>0, <1>3 DEF SubmitReturns, WaitersKnown
  <2>3. WaitersKnown'
    BY <1>0, <1>3, <2>1, <2>2 DEF SubmitReturns, WaitersKnown
  <2>4. NoLostWakeup'
    BY <1>0, <1>3, <2>1, <2>2 DEF SubmitReturns, NoLostWakeup, Settled
  <2> QED
    BY <2>3, <2>4 DEF WakeInv
<1>4. ASSUME NEW c \in Clients, SubmitAdmit(c)
      PROVE  WakeInv'
  <2>1. /\ proc = "up" /\ ~faulted /\ cpc[c] = "preflight" /\ ~closed
        /\ cjob[c] \in Jobs
        /\ state' = [state EXCEPT ![cjob[c]] = "queued"]
        /\ cpc' = [cpc EXCEPT ![c] = "idle"]
        /\ cjob' = [cjob EXCEPT ![c] = None]
        /\ waiters' = IF waiters = <<>> THEN <<>> ELSE Tail(waiters)
        /\ UNCHANGED <<faulted, closed, closing, spc, failures>>
    BY <1>4 DEF SubmitAdmit, StoreSubmit, Available, HoldsJob, Notify
  <2>2. Distinct(waiters') /\ \A t : Sleeping(t)' => Sleeping(t)
    <3>1. CASE waiters = <<>>
      BY <2>1, <3>1 DEF Distinct, Sleeping, Elements
    <3>2. CASE waiters # <<>>
      <4>1. Tail(waiters) \in Seq(Clients \cup {Scheduler})
        BY <1>0, <3>2, HeadTailProperties
      <4>2. Distinct(Tail(waiters))
        BY <1>0, <3>2, <4>1, TailThins, ThinnedDistinct
      <4>3. Elements(Tail(waiters)) = Elements(waiters) \ {Head(waiters)}
        BY <1>0, <3>2, TailElements
      <4> QED
        BY <2>1, <3>2, <4>2, <4>3 DEF Sleeping
    <3> QED
      BY <3>1, <3>2
  <2>3. ~Sleeping(c)
    BY <1>0, <2>1 DEF WaitersKnown
  <2>4. WaitersKnown'
    <3>1. ASSUME NEW b \in Clients, cpc'[b] = "waiting"
          PROVE  state'[cjob'[b]] # "none"
      <4>1. b # c /\ cpc[b] = "waiting" /\ cjob'[b] = cjob[b] /\ cjob[b] \in Jobs
        BY <2>1, <3>1 DEF HoldsJob
      <4>2. state[cjob[b]] # "none"
        BY <1>0, <4>1 DEF WaitersKnown
      <4> QED
        BY <4>1, <4>2, NeverForgotten
    <3> QED
      BY <1>0, <2>1, <2>2, <2>3, <3>1 DEF WaitersKnown
  <2>5. ASSUME failures = 0
        PROVE  ~Sleeping(Scheduler)'
    <3>1. CASE ~Sleeping(Scheduler)
      BY <2>2, <3>1
    <3>2. CASE Sleeping(Scheduler)
      <4>1. spc = "poll" /\ queue = <<>>
        BY <1>0, <2>5, <3>2 DEF WaitersKnown, NoLostWakeup
      <4>2. \A j \in Jobs : state[j] \notin {"queued", "running"}
        <5>1. current = None
          BY <2>5, <4>1 DEF AgreementInv, PointAgrees, RunPoints
        <5>2. Elements(queue) = {}
          BY <4>1 DEF Elements
        <5> QED
          BY <2>1, <2>5, <4>1, <5>1, <5>2 DEF AgreementInv, Agreed
      <4>3. \A b \in Clients : ~Sleeping(b)
        <5> SUFFICES ASSUME NEW b \in Clients, Sleeping(b) PROVE FALSE
          OBVIOUS
        <5>1. cjob[b] \in Jobs /\ state[cjob[b]] # "none"
          BY <1>0 DEF WaitersKnown, HoldsJob
        <5>2. Settled(cjob[b])
          BY <4>2, <5>1 DEF Settled, States
        <5> QED
          BY <1>0, <2>5, <4>1, <5>2 DEF NoLostWakeup
      <4>4. waiters # <<>>
        BY <3>2 DEF Sleeping, Elements
      <4>5. Head(waiters) = waiters[1] /\ 1 \in DOMAIN waiters
        BY <1>0, <4>4, EmptySeq
      <4>6. Head(waiters) = Scheduler
        BY <1>0, <4>3, <4>5 DEF Sleeping, Elements
      <4> QED
        BY <1>0, <2>1, <4>4, <4>6, TailElements DEF Sleeping
    <3> QED
      BY <3>1, <3>2
  <2>6. NoLostWakeup'
    <3> SUFFICES ASSUME failures' = 0, NEW b \in Clients, Sleeping(b)',
                        Settled(cjob[b])'
                 PROVE  spc' \in {"finally", "raised", "handling"}
      BY <2>1, <2>5 DEF NoLostWakeup
    <3>1. b # c /\ Sleeping(b) /\ cjob'[b] = cjob[b] /\ cjob[b] \in Jobs
      BY <1>0, <2>1, <2>2, <2>3 DEF WaitersKnown, HoldsJob
    <3>2. state'[cjob[b]] \in Terminal
      BY <2>1, <3>1 DEF Settled
    <3>3. Settled(cjob[b])
      BY <2>1, <3>1, <3>2 DEF Settled, Terminal
    <3> QED
      BY <1>0, <2>1, <3>1, <3>3 DEF NoLostWakeup
  <2> QED
    BY <2>4, <2>6 DEF WakeInv
<1>5. ASSUME NEW c \in Clients, WaitAgain(c)
      PROVE  WakeInv'
  <2>1. cpc[c] = "waiting" /\ ~Sleeping(c) /\ ~Settled(cjob[c])
    BY <1>5 DEF WaitAgain
  <2>2. /\ Distinct(waiters')
        /\ \A u : Sleeping(u)' <=> Sleeping(u) \/ u = c
    BY <1>0, <1>5, <2>1, SleepKnown DEF WaitAgain
  <2>3. WaitersKnown'
    BY <1>0, <1>5, <2>1, <2>2 DEF WaitAgain, WaitersKnown
  <2>4. NoLostWakeup'
    BY <1>0, <1>5, <2>1, <2>2 DEF WaitAgain, NoLostWakeup, Settled
  <2> QED
    BY <2>3, <2>4 DEF WakeInv
<1>6. ASSUME NEW c \in Clients, WaitReturns(c)
      PROVE  WakeInv'
  <2>1. /\ Distinct(waiters')
        /\ \A t : Sleeping(t)' <=> Sleeping(t) /\ t # c
    <3>1. CASE ~Sleeping(c) /\ UNCHANGED waiters
      BY <1>0, <3>1 DEF Sleeping
    <3>2. ASSUME NEW i \in DOMAIN waiters, waiters[i] = c,
                 waiters' = Without(waiters, i)
          PROVE  /\ Distinct(waiters')
                 /\ \A t : Sleeping(t)' <=> Sleeping(t) /\ t # c
      <4>1. Elements(waiters') = Elements(waiters) \ {c}
        BY <1>0, <3>2, WithoutElements
      <4>2. Without(waiters, i) \in Seq(Clients \cup {Scheduler})
        BY <1>0, WithoutType
      <4>3. Distinct(waiters')
        BY <1>0, <3>2, <4>2, WithoutThins, ThinnedDistinct
      <4> QED
        BY <4>1, <4>3 DEF Sleeping
    <3> QED
      BY <1>6, <3>1, <3>2 DEF WaitReturns
  <2>2. WaitersKnown'
    BY <1>0, <1>6, <2>1 DEF WaitReturns, WaitersKnown
  <2>3. NoLostWakeup'
    BY <1>0, <1>6, <2>1 DEF WaitReturns, NoLostWakeup, Settled
  <2> QED
    BY <2>2, <2>3 DEF WakeInv
<1>7. ASSUME NEW j \in Jobs, Cancel(j)
      PROVE  WakeInv'
  <2>1. CASE CancelDone(j)
    BY <1>7, <2>1, AllAwake, WaitedStayKnown DEF Cancel, CancelDone, NotifyAll
  <2>2. CASE CancelFails(j)
    <3>1. /\ UNCHANGED <<waiters, state, cpc, cjob, spc>>
          /\ failures' # 0
      BY <1>7, <2>2 DEF Cancel, CancelFails, StoreFails
    <3> QED
      BY <1>0, <3>1 DEF WakeInv, WaitersKnown, NoLostWakeup, Sleeping
  <2> QED
    BY <1>7, <2>1, <2>2 DEF Cancel
<1> QED
  BY <1>1, <1>2, <1>3, <1>4, <1>5, <1>6, <1>7 DEF CallerNext

\* The scheduler keeps the invariant of the wait list.
LEMMA WakeScheduler ==
    ASSUME TypeInv, SchedulerInv, WakeInv, StoreEffect, SchedulerNext
    PROVE  WakeInv'
<1> USE IdentityAssumption
        DEF TypeInv, TypeOK, store, memory, sched, callers, shutdown
<1>0. /\ WaitersKnown /\ NoLostWakeup /\ Distinct(waiters)
      /\ waiters \in Seq(Clients \cup {Scheduler})
  BY DEF WakeInv, WaitersKnown
<1>1. CASE SchedulerSleeps
  <2>1. /\ Distinct(waiters')
        /\ \A u : Sleeping(u)' <=> Sleeping(u) \/ u = Scheduler
    BY <1>0, <1>1, SleepKnown DEF SchedulerSleeps, Polling
  <2>2. spc = "poll" /\ queue = <<>> /\ ~closed
    BY <1>1 DEF SchedulerSleeps, Polling, SchedulerAt
  <2>3. WaitersKnown'
    BY <1>0, <1>1, <2>1, <2>2 DEF SchedulerSleeps, WaitersKnown
  <2>4. NoLostWakeup'
    BY <1>0, <1>1, <2>1, <2>2 DEF SchedulerSleeps, NoLostWakeup, Settled
  <2> QED
    BY <2>3, <2>4 DEF WakeInv
<1>2. CASE SchedulerExits
  BY <1>2, WakeSame DEF SchedulerExits, Polling, SchedulerAt, Settled
<1>3. CASE Dequeue
  <2>1. /\ ~Sleeping(Scheduler)
        /\ \A t : Sleeping(t)' <=> Sleeping(t)
        /\ spc = "poll" /\ waiters' = waiters
    BY <1>3 DEF Dequeue, Polling, SchedulerAt, Sleeping
  <2>2. \A j \in Jobs : state'[j] \in Terminal => state[j] = state'[j]
    BY <1>3 DEF Dequeue, StoreTransition, StoreFails, Terminal
  <2>3. WaitersKnown'
    BY <1>0, <1>3, <2>1, WaitedStayKnown DEF Dequeue, WaitersKnown
  <2>4. failures' = 0 => failures = 0
    BY <1>3 DEF Dequeue, StoreOk, StoreFails
  <2>5. \A b \in Clients : Sleeping(b) => cjob[b] \in Jobs
    BY <1>0 DEF WaitersKnown, HoldsJob
  <2>6. NoLostWakeup'
    BY <1>0, <1>3, <2>1, <2>2, <2>4, <2>5 DEF Dequeue, NoLostWakeup, Settled
  <2> QED
    BY <2>3, <2>6 DEF WakeInv
<1>4. CASE Run
  BY <1>0, <1>4, WakeSame DEF Run, WaitersKnown, Settled
<1>5. CASE PublishRun \/ FailRun
  <2>1. /\ spc # "poll" /\ spc' \in {"finally", "raised"}
        /\ UNCHANGED <<memory, waiters, callers, closing>>
    BY <1>5 DEF PublishRun, FailRun, SchedulerAt
  <2>2. ~Sleeping(Scheduler) /\ \A t : Sleeping(t)' <=> Sleeping(t)
    BY <1>0, <2>1 DEF WaitersKnown, Sleeping
  <2>3. WaitersKnown'
    BY <1>0, <2>1, <2>2, WaitedStayKnown DEF WaitersKnown
  <2> QED
    BY <2>1, <2>2, <2>3 DEF WakeInv, NoLostWakeup
<1>6. CASE EndRun
  BY <1>6, AllAwake, WaitedStayKnown DEF EndRun, NotifyAll
<1>7. CASE Fault
  <2>1. /\ spc = "fault" /\ spc' = "handling"
        /\ UNCHANGED <<waiters, callers, state>>
    BY <1>7 DEF Fault, SchedulerAt
  <2>2. ~Sleeping(Scheduler) /\ \A t : Sleeping(t)' <=> Sleeping(t)
    BY <1>0, <2>1 DEF WaitersKnown, Sleeping
  <2> QED
    BY <1>0, <2>1, <2>2 DEF WakeInv, WaitersKnown, NoLostWakeup
<1>8. CASE FaultHandled
  BY <1>8, AllAwake, WaitedStayKnown DEF FaultHandled, NotifyAll
<1>9. ASSUME NEW j \in Jobs, FaultFails(j)
      PROVE  WakeInv'
  <2>1. /\ spc = "handling" /\ UNCHANGED <<spc, waiters, callers>>
    BY <1>9 DEF FaultFails, Handling
  <2>2. ~Sleeping(Scheduler) /\ \A t : Sleeping(t)' <=> Sleeping(t)
    BY <1>0, <2>1 DEF WaitersKnown, Sleeping
  <2>3. WaitersKnown'
    BY <1>0, <2>1, <2>2, WaitedStayKnown DEF WaitersKnown
  <2> QED
    BY <2>1, <2>2, <2>3 DEF WakeInv, NoLostWakeup
<1> QED
  BY <1>1, <1>2, <1>3, <1>4, <1>5, <1>6, <1>7, <1>8, <1>9 DEF SchedulerNext

\* close, the end of the process and its recovery keep it.
LEMMA WakeRest ==
    ASSUME TypeInv, SchedulerInv, WakeInv, StoreEffect, CloseNext \/ ProcessNext
    PROVE  WakeInv'
<1> USE IdentityAssumption
        DEF TypeInv, TypeOK, store, memory, sched, callers, shutdown
<1>0. WaitersKnown /\ NoLostWakeup
  BY DEF WakeInv
<1>1. CASE CloseBegin
  BY <1>0, <1>1 DEF CloseBegin, WakeInv, WaitersKnown, NoLostWakeup, Sleeping,
                    Settled
<1>2. CASE CloseCancel
  <2>1. UNCHANGED <<closed, faulted, spc, cpc, cjob>>
    BY <1>2 DEF CloseCancel
  <2>2. CASE UNCHANGED <<store, queue, waiters, closing, failures>>
    BY <1>0, <2>1, <2>2
       DEF WakeInv, WaitersKnown, NoLostWakeup, Sleeping, Settled
  <2>3. CASE waiters' = <<>>
    BY <2>1, <2>3, AllAwake, WaitedStayKnown
  <2>4. CASE UNCHANGED <<store, waiters>> /\ failures' # 0
    BY <1>0, <2>1, <2>4 DEF WakeInv, WaitersKnown, NoLostWakeup, Sleeping
  <2> QED
    BY <1>2, <2>2, <2>3, <2>4
       DEF CloseCancel, CancelDone, CancelFails, NotifyAll, StoreFails
<1>3. CASE CloseNotifies
  BY <1>3, AllAwake, WaitedStayKnown DEF CloseNotifies, NotifyAll
<1>4. CASE CloseReleases \/ Crash
  BY <1>4, AllAwake DEF CloseReleases, Crash, ProcessEnds
<1>5. CASE Restart \/ Recovered \/ \E j \in Jobs : Recover(j)
  BY <1>5, AllAwake, WaitedStayKnown
     DEF Restart, Recovered, Recover, SchedulerInv, DownIsEmpty
<1> QED
  BY <1>1, <1>2, <1>3, <1>4, <1>5 DEF CloseNext, ProcessNext

\* No wake-up is lost: neither the scheduler's by a notify() that a thread in
\* wait() takes, nor a waiter's when its job is settled (Manager.submit, wait,
\* close and the scheduler thread).
THEOREM WakeupsArrive == Spec => []NoLostWakeup
<1>1. Init => WakeInv
  BY AllAwake DEF Init, WakeInv, WaitersKnown, NoLostWakeup, Sleeping, Elements,
                  Distinct
<1>2. ASSUME TypeInv, SchedulerInv, AgreementInv, WakeInv, [Next]_vars
      PROVE  WakeInv'
  <2>1. CASE UNCHANGED vars
    BY <1>2, <2>1 DEF vars, store, memory, sched, callers, shutdown, WakeInv,
                WaitersKnown, NoLostWakeup, Sleeping, Settled
  <2> QED
    BY <1>2, <2>1, StoreStep, WakeCallers, WakeScheduler, WakeRest DEF Next
<1>3. WakeInv => NoLostWakeup
  BY DEF WakeInv
<1> QED
  BY <1>1, <1>2, <1>3, AgreementInvHolds, SchedulerInvHolds, TypeCorrect, PTL
     DEF Spec, TypeInv

\* A transaction that records a legal change of one job keeps the audit table
\* the history of the jobs.
LEMMA RowRecorded ==
    ASSUME StoreType, AuditIsHistory, NEW j \in Jobs, NEW s \in States,
           \/ state[j] = "none" /\ s = "queued"
           \/ <<state[j], s>> \in Transitions,
           state' = [state EXCEPT ![j] = s],
           audit' = Append(audit, <<j, s>>),
           evidence' = IF s = "succeeded" THEN evidence \cup {j} ELSE evidence
    PROVE  AuditIsHistory'
<1>0. PICK n \in Nat : n = Len(audit) + 1
  BY DEF StoreType
<1>1. /\ Len(audit) \in Nat
      /\ DOMAIN audit = 1..Len(audit)
      /\ DOMAIN audit' = 1..n
      /\ \A i \in 1..Len(audit) : audit'[i] = audit[i]
      /\ audit'[n] = <<j, s>>
      /\ \A i \in 1..Len(audit) : audit[i] \in Jobs \X States
      /\ n = Len(audit) + 1
  BY <1>0 DEF StoreType
<1>2. \A i, k \in 1..Len(audit) : Later(i, k)' <=> Later(i, k)
  BY <1>1 DEF Later
<1>3. \A i \in 1..Len(audit) : Later(i, n)' <=> audit[i][1] = j
  BY <1>1 DEF Later
<1>4. \A i \in 1..n : ~Later(n, i)'
  BY <1>1 DEF Later
<1>5. state[j] \in States /\ s # "none" /\ (s = "queued" <=> state[j] = "none")
  BY DEF Transitions, Terminal, StoreType
<1>6. ASSUME NEW k \in DOMAIN audit'
      PROVE  audit'[k][2] = "queued" <=> \A i \in DOMAIN audit' : ~Later(i, k)'
  <2>1. CASE k = n
    <3>1. s = "queued" <=> \A i \in 1..Len(audit) : audit[i][1] # j
      BY <1>1, <1>5 DEF AuditIsHistory
    <3>2. audit'[n][2] = s
      BY <1>1
    <3>3. (\A i \in 1..n : ~Later(i, n)') <=> \A i \in 1..Len(audit) : ~Later(i, n)'
      <4>1. ~Later(n, n)'
        BY <1>1, <1>4
      <4>2. \A i \in 1..n : i \in 1..Len(audit) \/ i = n
        BY <1>1
      <4>3. \A i \in 1..Len(audit) : i \in 1..n
        BY <1>1
      <4> QED
        BY <4>1, <4>2, <4>3
    <3> QED
      BY <1>1, <1>3, <2>1, <3>1, <3>2, <3>3
  <2>2. CASE k # n
    <3>1. k \in 1..Len(audit)
      BY <1>1, <2>2
    <3>2. ~Later(n, k)'
      BY <1>1, <1>4, <3>1
    <3>3. audit[k][2] = "queued" <=> \A i \in 1..Len(audit) : ~Later(i, k)
      BY <1>1, <3>1 DEF AuditIsHistory
    <3>4. \A i \in 1..n : i \in 1..Len(audit) \/ i = n
      BY <1>1
    <3>5. \A i \in 1..Len(audit) : i \in 1..n
      BY <1>1
    <3>6. (\A i \in 1..n : ~Later(i, k)') <=> \A i \in 1..Len(audit) : ~Later(i, k)
      BY <1>2, <3>1, <3>2, <3>4, <3>5
    <3> QED
      BY <1>1, <3>1, <3>3, <3>6
  <2> QED
    BY <2>1, <2>2
<1>7. ASSUME NEW i \in DOMAIN audit', NEW k \in DOMAIN audit', Later(i, k)',
             \A m \in (i + 1)..(k - 1) : ~Later(i, m)'
      PROVE  <<audit'[i][2], audit'[k][2]>> \in Transitions
  <2>1. i \in 1..Len(audit) /\ i < k
    BY <1>1, <1>7 DEF Later
  <2>2. CASE k = n
    <3>1. audit[i][1] = j
      BY <1>3, <1>7, <2>1, <2>2
    <3>2. \A m \in DOMAIN audit : ~Later(i, m)
      <4> SUFFICES ASSUME NEW m \in 1..Len(audit), Later(i, m) PROVE FALSE
        BY <1>1
      <4>1. m \in (i + 1)..(k - 1)
        BY <1>1, <2>1, <2>2 DEF Later
      <4> QED
        BY <1>2, <1>7, <2>1, <4>1
    <3>3. state[j] = audit[i][2]
      BY <1>1, <2>1, <3>1, <3>2 DEF AuditIsHistory
    <3>4. state[j] # "none"
      BY <1>1, <2>1, <3>1 DEF AuditIsHistory
    <3> QED
      <4>1. <<state[j], s>> \in Transitions
        BY <3>4
      <4>2. audit'[i][2] = state[j] /\ audit'[k][2] = s
        BY <1>1, <2>1, <2>2, <3>3
      <4> QED
        BY <4>1, <4>2
  <2>3. CASE k # n
    <3>1. k \in 1..Len(audit)
      BY <1>1, <2>3
    <3>2. Later(i, k)
      BY <1>2, <1>7, <2>1, <3>1
    <3>3. \A m \in (i + 1)..(k - 1) : ~Later(i, m)
      BY <1>1, <1>2, <1>7, <2>1, <3>1
    <3>4. <<audit[i][2], audit[k][2]>> \in Transitions
      BY <1>1, <2>1, <3>1, <3>2, <3>3 DEF AuditIsHistory
    <3> QED
      BY <1>1, <2>1, <3>1, <3>4
  <2> QED
    BY <2>2, <2>3
<1>8. ASSUME NEW i \in DOMAIN audit', \A k \in DOMAIN audit' : ~Later(i, k)'
      PROVE  state'[audit'[i][1]] = audit'[i][2]
  <2>1. CASE i = n
    BY <1>1, <2>1 DEF StoreType
  <2>2. CASE i # n
    <3>1. i \in 1..Len(audit)
      BY <1>1, <2>2
    <3>2. audit[i][1] # j
      BY <1>1, <1>3, <1>8, <3>1
    <3>3. \A k \in DOMAIN audit : ~Later(i, k)
      BY <1>1, <1>2, <1>8, <3>1
    <3>4. state[audit[i][1]] = audit[i][2]
      BY <1>1, <3>1, <3>3 DEF AuditIsHistory
    <3>5. audit[i][1] \in Jobs
      BY <1>1, <3>1
    <3> QED
      BY <1>1, <3>1, <3>2, <3>4, <3>5 DEF StoreType
  <2> QED
    BY <2>1, <2>2
<1>9. ASSUME NEW h \in Jobs
      PROVE  state'[h] = "none" <=> \A i \in DOMAIN audit' : audit'[i][1] # h
  <2>1. state[h] = "none" <=> \A i \in 1..Len(audit) : audit[i][1] # h
    BY <1>1 DEF AuditIsHistory
  <2>2. CASE h = j
    BY <1>1, <1>5, <2>2 DEF StoreType
  <2>3. CASE h # j
    BY <1>1, <2>1, <2>3 DEF StoreType
  <2> QED
    BY <2>2, <2>3
<1>10. evidence' = {h \in Jobs : state'[h] = "succeeded"}
  <2>1. state[j] # "succeeded" /\ evidence = {h \in Jobs : state[h] = "succeeded"}
    BY DEF AuditIsHistory, Transitions, Terminal
  <2> QED
    BY <2>1 DEF StoreType
<1> QED
  BY <1>6, <1>7, <1>8, <1>9, <1>10 DEF AuditIsHistory

\* Every transaction of the store keeps the audit table its history.
LEMMA AuditStep ==
    ASSUME TypeInv, AuditIsHistory, StoreEffect
    PROVE  AuditIsHistory'
<1>1. StoreType
  BY DEF TypeInv, TypeOK, StoreType
<1>2. CASE UNCHANGED store
  BY <1>2 DEF store, AuditIsHistory, Later
<1>3. ASSUME NEW j \in Jobs, StoreSubmit(j)
      PROVE  AuditIsHistory'
  <2>1. state[j] = "none"
    BY <1>3 DEF StoreSubmit, KeyBound, Jobs
  <2> QED
    BY <1>1, <1>3, <2>1, RowRecorded DEF StoreSubmit, States
<1>4. ASSUME NEW j \in Jobs, StorePublish(j)
      PROVE  AuditIsHistory'
  BY <1>1, <1>4, RowRecorded DEF StorePublish, States, Terminal, Transitions
<1>5. ASSUME NEW j \in Jobs, NEW s \in {"running", "failed", "cancelled"},
             StoreTransition(j, s)
      PROVE  AuditIsHistory'
  BY <1>1, <1>5, RowRecorded
     DEF StoreTransition, Permitted, States, Terminal, Transitions
<1> QED
  BY <1>2, <1>3, <1>4, <1>5 DEF StoreEffect

\* The audit table is the history of every job and the artifacts are those of
\* the jobs that succeeded, whatever fails (Store.submit, transition, publish,
\* recover).
THEOREM AuditIsTheHistory == Spec => []AuditIsHistory
<1>1. Init => AuditIsHistory
  BY DEF Init, AuditIsHistory
<1>2. TypeInv /\ AuditIsHistory /\ [Next]_vars => AuditIsHistory'
  <2>1. UNCHANGED vars => UNCHANGED store
    BY DEF vars
  <2> QED
    BY <2>1, StoreStep, AuditStep DEF StoreEffect
<1> QED
  BY <1>1, <1>2, TypeCorrect, PTL DEF Spec, TypeInv
-----------------------------------------------------------------------------
(* Service in order of admission *)

\* The deque lists its jobs in the order of their admissions in the audit table.
QueueOrder ==
    \A p, q \in DOMAIN queue : p < q =>
        \A u, v \in DOMAIN audit :
            audit[u] = <<queue[p], "queued">> /\ audit[v] = <<queue[q], "queued">>
                => u < v

\* What a step may do to the deque and the audit table together: admit a job
\* at both ends, or thin the deque and record one change that is no admission,
\* a start only of the deque's first job.
Admits ==
    \E j \in Jobs :
        /\ proc = "up" /\ ~faulted /\ state[j] = "none"
        /\ queue' = Append(queue, j)
        /\ audit' = Append(audit, <<j, "queued">>)

Starts(j) ==
    /\ proc = "up" /\ spc = "poll" /\ queue # <<>>
    /\ j = Head(queue)

Records ==
    \/ audit' = audit
    \/ \E j \in Jobs, s \in States \ {"queued"} :
          /\ audit' = Append(audit, <<j, s>>)
          /\ s = "running" => Starts(j)

Proceeds == Admits \/ (Thinned(queue', queue) /\ Records)

\* Clearing a sequence thins it.
LEMMA EmptyThins ==
    ASSUME NEW s
    PROVE  Thinned(<<>>, s)
<1> DEFINE f == [k \in {} |-> 0]
<1>1. DOMAIN <<>> = {} /\ f \in [DOMAIN <<>> -> DOMAIN s]
  OBVIOUS
<1> HIDE DEF f
<1> QED
  BY <1>1 DEF Thinned

\* cancel thins the deque and records the cancellation or nothing.
LEMMA CancelProceeds ==
    ASSUME TypeInv, NEW j \in Jobs, CancelDone(j) \/ CancelFails(j)
    PROVE  Proceeds
<1>1. Withdraw(j)
  BY DEF CancelDone, CancelFails
<1>2. Thinned(queue', queue)
  BY <1>1, SameThins, WithoutThins DEF Withdraw, TypeInv, TypeOK
<1>3. Records
  BY DEF CancelDone, CancelFails, StoreTransition, StoreFails, store, Records,
         States, Terminal
<1> QED
  BY <1>2, <1>3 DEF Proceeds

\* Every step proceeds in one of these ways.
LEMMA NextProceeds ==
    ASSUME TypeInv, Next
    PROVE  Proceeds
<1> USE DEF TypeInv, TypeOK, store, memory
<1>1. CASE UNCHANGED <<audit, queue>>
  BY <1>1, SameThins DEF Proceeds, Records
<1>2. CASE CallerNext
  <2>1. ASSUME NEW c \in Clients, NEW j \in Jobs,
               SubmitLookup(c, j) \/ WaitBegin(c, j)
        PROVE  Proceeds
    BY <1>1, <2>1 DEF SubmitLookup, WaitBegin
  <2>2. ASSUME NEW c \in Clients,
               SubmitReturns(c) \/ WaitAgain(c) \/ WaitReturns(c)
        PROVE  Proceeds
    BY <1>1, <2>2 DEF SubmitReturns, WaitAgain, WaitReturns
  <2>3. ASSUME NEW c \in Clients, SubmitAdmit(c)
        PROVE  Proceeds
    <3>1. PICK j \in Jobs : j = cjob[c]
      BY <2>3 DEF SubmitAdmit, HoldsJob
    <3>2. PICK k \in Keys, r \in Requests : j = <<k, r>>
      BY DEF Jobs
    <3>3. StoreSubmit(j) /\ queue' = Append(queue, j)
      BY <2>3, <3>1 DEF SubmitAdmit
    <3>4. ~KeyBound(k)
      BY <3>2, <3>3 DEF StoreSubmit
    <3>5. state[j] = "none"
      BY <3>2, <3>4 DEF KeyBound
    <3>6. proc = "up" /\ ~faulted
      BY <2>3 DEF SubmitAdmit, Available
    <3>7. audit' = Append(audit, <<j, "queued">>)
      BY <3>3 DEF StoreSubmit
    <3>8. Admits
      BY <3>3, <3>5, <3>6, <3>7 DEF Admits
    <3> QED
      BY <3>8 DEF Proceeds
  <2>4. ASSUME NEW j \in Jobs, Cancel(j)
        PROVE  Proceeds
    BY <2>4, CancelProceeds DEF Cancel
  <2> QED
    BY <1>2, <2>1, <2>2, <2>3, <2>4 DEF CallerNext
<1>3. CASE SchedulerNext
  <2>1. CASE SchedulerSleeps \/ SchedulerExits \/ Run \/ EndRun \/ Fault
    BY <1>1, <2>1 DEF SchedulerSleeps, SchedulerExits, Run, EndRun, Fault
  <2>2. CASE Dequeue
    <3>1. /\ Head(queue) \in Jobs /\ Starts(Head(queue))
          /\ Thinned(queue', queue)
      BY <2>2, HeadTailProperties, TailThins
         DEF Dequeue, Polling, SchedulerAt, Starts
    <3>2. Records
      BY <2>2, <3>1 DEF Dequeue, StoreTransition, StoreFails, Records, States
    <3> QED
      BY <3>1, <3>2 DEF Proceeds
  <2>3. CASE PublishRun \/ FailRun
    <3>1. UNCHANGED queue /\ current \in Jobs
      BY <2>3 DEF PublishRun, FailRun, SchedulerAt, HoldsJob
    <3>2. Records
      BY <2>3, <3>1
         DEF PublishRun, FailRun, StorePublish, StoreTransition, StoreFails,
             Records, States, Terminal
    <3> QED
      BY <3>1, <3>2, SameThins DEF Proceeds
  <2>4. CASE FaultHandled
    BY <2>4, EmptyThins, SameThins DEF FaultHandled, StoreFails, Proceeds, Records
  <2>5. ASSUME NEW j \in Jobs, FaultFails(j)
        PROVE  Proceeds
    BY <2>5, SameThins DEF FaultFails, StoreTransition, Proceeds, Records, States,
                           Terminal
  <2> QED
    BY <1>3, <2>1, <2>2, <2>3, <2>4, <2>5 DEF SchedulerNext
<1>4. CASE CloseNext
  <2>1. CASE CloseBegin \/ CloseNotifies
    BY <1>1, <2>1 DEF CloseBegin, CloseNotifies
  <2>2. CASE CloseReleases
    BY <2>2, EmptyThins DEF CloseReleases, ProcessEnds, Proceeds, Records
  <2>3. CASE CloseCancel
    <3>1. Head(todo) \in Jobs
      BY <2>3, HeadTailProperties DEF CloseCancel
    <3> QED
      BY <1>1, <2>3, <3>1, CancelProceeds DEF CloseCancel
  <2> QED
    BY <1>4, <2>1, <2>2, <2>3 DEF CloseNext
<1>5. CASE ProcessNext
  <2>1. CASE Restart \/ Recovered
    BY <1>1, <2>1 DEF Restart, Recovered
  <2>2. CASE Crash
    BY <2>2, EmptyThins DEF Crash, ProcessEnds, Proceeds, Records
  <2>3. ASSUME NEW j \in Jobs, Recover(j)
        PROVE  Proceeds
    BY <2>3, SameThins
       DEF Recover, StoreTransition, StoreFails, Proceeds, Records, States, Terminal
  <2> QED
    BY <1>5, <2>1, <2>2, <2>3 DEF ProcessNext
<1> QED
  BY <1>2, <1>3, <1>4, <1>5 DEF Next

\* No step takes a failure back.
LEMMA FailuresStay ==
    ASSUME TypeInv, Next, failures' = 0
    PROVE  failures = 0
<1>1. failures' = failures \/ failures' = failures + 1
  BY DEF Next, CallerNext, SchedulerNext, CloseNext, ProcessNext, SubmitLookup,
         WaitBegin, SubmitReturns, SubmitAdmit, WaitAgain, WaitReturns, Cancel,
         CancelDone, CancelFails, SchedulerSleeps, SchedulerExits, Dequeue, Run,
         PublishRun, FailRun, EndRun, Fault, FaultHandled, FaultFails,
         CloseBegin, CloseCancel, CloseNotifies, CloseReleases, Crash, Restart,
         Recovered, Recover, StoreOk, StoreFails
<1> QED
  BY <1>1 DEF TypeInv, TypeOK

\* Rows are only appended.
LEMMA RowsStay ==
    ASSUME TypeInv, Proceeds
    PROVE  /\ Len(audit) \in Nat /\ DOMAIN audit = 1..Len(audit)
           /\ \A i \in DOMAIN audit : i \in DOMAIN audit' /\ audit'[i] = audit[i]
           /\ \A i \in DOMAIN audit' :
                 i \in DOMAIN audit \/ i = Len(audit) + 1
           /\ \A i \in DOMAIN audit' \ DOMAIN audit, k \in DOMAIN audit : k < i
<1>1. audit \in Seq(Jobs \X States)
  BY DEF TypeInv, TypeOK
<1>2. CASE audit' = audit
  BY <1>1, <1>2
<1>3. ASSUME NEW row \in Jobs \X States, audit' = Append(audit, row)
      PROVE  /\ Len(audit) \in Nat /\ DOMAIN audit = 1..Len(audit)
             /\ \A i \in DOMAIN audit : i \in DOMAIN audit' /\ audit'[i] = audit[i]
             /\ \A i \in DOMAIN audit' :
                   i \in DOMAIN audit \/ i = Len(audit) + 1
             /\ \A i \in DOMAIN audit' \ DOMAIN audit, k \in DOMAIN audit : k < i
  <2>1. /\ Len(audit) \in Nat /\ DOMAIN audit = 1..Len(audit)
        /\ DOMAIN audit' = 1..(Len(audit) + 1)
        /\ \A i \in 1..Len(audit) : audit'[i] = audit[i]
    BY <1>1, <1>3, AppendProperties
  <2> QED
    BY <2>1
<1>4. audit' = audit \/ \E row \in Jobs \X States : audit' = Append(audit, row)
  BY DEF Proceeds, Admits, Records, States
<1> QED
  BY <1>2, <1>3, <1>4

\* The deque keeps to the order of admissions.
LEMMA OrderStep ==
    ASSUME TypeInv, TypeInv', AuditIsHistory, QueueOrder, Proceeds,
           QueueSound
    PROVE  QueueOrder'
<1> USE DEF TypeInv, TypeOK
<1> SUFFICES ASSUME NEW p \in DOMAIN queue', NEW q \in DOMAIN queue', p < q,
                    NEW u \in DOMAIN audit', NEW v \in DOMAIN audit',
                    audit'[u] = <<queue'[p], "queued">>,
                    audit'[v] = <<queue'[q], "queued">>
             PROVE  u < v
  BY DEF QueueOrder
<1>1. CASE Thinned(queue', queue) /\ Records
  <2>1. PICK f \in [DOMAIN queue' -> DOMAIN queue] :
           /\ \A i, k \in DOMAIN queue' : i < k => f[i] < f[k]
           /\ \A i \in DOMAIN queue' : queue'[i] = queue[f[i]]
    BY <1>1 DEF Thinned
  <2>2. \A w \in DOMAIN audit' : audit'[w][2] = "queued" => w \in DOMAIN audit
    <3> SUFFICES ASSUME NEW w \in DOMAIN audit', w \notin DOMAIN audit
                 PROVE  audit'[w][2] # "queued"
      OBVIOUS
    <3>1. PICK j \in Jobs, s \in States \ {"queued"} : audit' = Append(audit, <<j, s>>)
      BY <1>1, RowsStay DEF Records
    <3>2. w = Len(audit) + 1
      BY RowsStay
    <3> QED
      BY <3>1, <3>2, AppendProperties
  <2>3. u \in DOMAIN audit /\ v \in DOMAIN audit
    BY <2>2
  <2> QED
    BY <2>1, <2>3, RowsStay DEF QueueOrder
<1>2. CASE Admits
  <2>1. PICK j \in Jobs : /\ proc = "up" /\ ~faulted /\ state[j] = "none"
                          /\ queue' = Append(queue, j)
                          /\ audit' = Append(audit, <<j, "queued">>)
    BY <1>2 DEF Admits
  <2>2. \A i \in DOMAIN queue : queue[i] # j
    BY <1>2, <2>1 DEF QueueSound
  <2>3. p \in DOMAIN queue /\ queue'[p] = queue[p] /\ queue[p] # j
    BY <2>1, <2>2, AppendProperties
  <2>4. u \in DOMAIN audit /\ audit[u] = <<queue[p], "queued">>
    <3>1. u = Len(audit) + 1 => audit'[u] = <<j, "queued">>
      BY <2>1, AppendProperties
    <3>2. audit'[u] # <<j, "queued">>
      BY <2>3
    <3>3. u \in DOMAIN audit /\ audit'[u] = audit[u]
      BY <3>1, <3>2, RowsStay
    <3> QED
      BY <2>3, <3>3
  <2>5. CASE v \in DOMAIN audit
    <3>1. audit[v] = <<queue'[q], "queued">> /\ \A i \in DOMAIN audit : audit[i][1] # j
      BY <2>1, <2>5, RowsStay DEF AuditIsHistory
    <3>2. queue'[q] # j
      BY <2>5, <3>1
    <3>3. q \in DOMAIN queue /\ queue'[q] = queue[q]
      BY <2>1, <3>2, AppendProperties
    <3> QED
      BY <2>3, <2>4, <2>5, <3>1, <3>3 DEF QueueOrder
  <2>6. CASE v \notin DOMAIN audit
    BY <2>4, <2>6, RowsStay
  <2> QED
    BY <2>5, <2>6
<1> QED
  BY <1>1, <1>2 DEF Proceeds

\* A start finds every job admitted earlier started or ended.
LEMMA FifoStep ==
    ASSUME TypeInv, SchedulerInv, AgreementInv, AuditIsHistory, QueueOrder,
           FifoService, Proceeds, failures' = 0 => failures = 0
    PROVE  FifoService'
<1> USE DEF TypeInv, TypeOK
<1> SUFFICES ASSUME failures = 0,
                    NEW i \in DOMAIN audit', NEW k \in DOMAIN audit',
                    NEW n \in DOMAIN audit', i < k, k < n,
                    audit'[i][2] = "queued", audit'[k][2] = "queued",
                    audit'[n] = <<audit'[k][1], "running">>
             PROVE  \E m \in (i + 1)..(n - 1) : audit'[m][1] = audit'[i][1]
  BY DEF FifoService
<1>1. /\ i \in DOMAIN audit /\ k \in DOMAIN audit
      /\ audit'[i] = audit[i] /\ audit'[k] = audit[k]
      /\ i \in Nat /\ k \in Nat
  BY RowsStay
<1>2. CASE n \in DOMAIN audit
  <2>1. PICK m \in (i + 1)..(n - 1) : audit[m][1] = audit[i][1]
    <3>1. audit'[n] = audit[n]
      BY <1>2, RowsStay
    <3> QED
      <4>1. /\ audit[i][2] = "queued" /\ audit[k][2] = "queued"
            /\ audit[n] = <<audit[k][1], "running">>
        BY <1>1, <3>1
      <4> QED
        BY <1>1, <1>2, <4>1 DEF FifoService
  <2>2. m \in DOMAIN audit
    BY <1>1, <1>2, RowsStay
  <2> QED
    BY <1>1, <2>1, <2>2, RowsStay
<1>3. CASE n \notin DOMAIN audit
  <2>1. n = Len(audit) + 1
    BY <1>3, RowsStay
  <2>2. PICK j \in Jobs : j = audit[k][1] /\ Starts(j)
    BY <1>1, <1>3, <2>1, RowsStay, AppendProperties
       DEF Proceeds, Admits, Records
  <2>3. Head(queue) = queue[1] /\ 1 \in DOMAIN queue /\ j = queue[1]
    BY <2>2, EmptySeq DEF Starts
  <2>4. PICK a \in Jobs : a = audit[i][1]
    BY <1>1
  <2> SUFFICES ASSUME \A m \in (i + 1)..(n - 1) : audit'[m][1] # a PROVE FALSE
    BY <1>1, <2>4
  <2>5. \A m \in DOMAIN audit : ~Later(i, m)
    <3> SUFFICES ASSUME NEW m \in DOMAIN audit, i < m, audit[m][1] = a
                 PROVE  FALSE
      BY <2>4 DEF Later
    <3>1. m \in (i + 1)..(n - 1) /\ audit'[m] = audit[m]
      BY <1>1, <2>1, RowsStay
    <3> QED
      BY <3>1
  <2>6. state[a] = "queued"
    <3>1. state[audit[i][1]] = audit[i][2]
      BY <1>1, <2>5 DEF AuditIsHistory
    <3> QED
      BY <1>1, <2>4, <3>1
  <2>7. a # j
    BY <1>1, <2>2, <2>4, <2>5 DEF Later
  <2>8. a \in Elements(queue)
    BY <2>2, <2>6 DEF AgreementInv, Agreed, Starts
  <2>9. PICK q \in DOMAIN queue : a = queue[q]
    BY <2>8 DEF Elements
  <2>10. q \in Nat /\ 1 < q
    BY <2>3, <2>7, <2>9
  <2>11. audit[i] = <<queue[q], "queued">> /\ audit[k] = <<queue[1], "queued">>
    <3>1. audit[i] \in Jobs \X States /\ audit[k] \in Jobs \X States
      BY <1>1
    <3>2. audit[i][2] = "queued" /\ audit[k][2] = "queued"
      BY <1>1
    <3> QED
      <4>1. \A row \in Jobs \X States : row = <<row[1], row[2]>>
        OBVIOUS
      <4>2. audit[i] = <<a, "queued">> /\ audit[k] = <<j, "queued">>
        BY <2>2, <2>4, <3>1, <3>2, <4>1
      <4> QED
        BY <2>3, <2>9, <4>2
  <2>12. k < i
    BY <1>1, <2>3, <2>9, <2>10, <2>11 DEF QueueOrder
  <2> QED
    BY <1>1, <2>12
<1> QED
  BY <1>2, <1>3

\* Jobs start in the order of their admission (manager.py, _consume; one FIFO
\* worker in docs/control-plane.md).
THEOREM ServiceIsFifo == Spec => []FifoService
<1>1. Init => QueueOrder /\ FifoService
  BY DEF Init, QueueOrder, FifoService
<1>2. ASSUME TypeInv, TypeInv', SchedulerInv, AgreementInv, AuditIsHistory,
             QueueOrder, FifoService, [Next]_vars
      PROVE  QueueOrder' /\ FifoService'
  <2>1. CASE UNCHANGED vars
    BY <1>2, <2>1 DEF vars, store, memory, QueueOrder, FifoService
  <2>2. CASE Next
    <3>1. Proceeds
      BY <1>2, <2>2, NextProceeds
    <3>2. failures' = 0 => failures = 0
      BY <1>2, <2>2, FailuresStay
    <3> QED
      BY <1>2, <3>1, <3>2, OrderStep, FifoStep DEF SchedulerInv
  <2> QED
    BY <1>2, <2>1, <2>2
<1> QED
  BY <1>1, <1>2, AuditIsTheHistory, AgreementInvHolds, SchedulerInvHolds,
     TypeCorrect, PTL DEF Spec, TypeInv
=============================================================================
