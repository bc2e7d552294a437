--------------------------- MODULE WorkerProcess ---------------------------
(***************************************************************************)
(* Research operations run in worker processes: Runner.call takes one of   *)
(* two permits (runner.py) and execute (process.py) starts a process group,*)
(* feeds its standard input, collects its output within a budget, and      *)
(* kills what is left of the group on every way out.  The worker and a     *)
(* descendant of it are the environment: they need not read, write or      *)
(* exit, and the descendant may keep the worker's pipes open.              *)
(*                                                                         *)
(* Data is counted in chunks.  Standard error is drained and bounded like  *)
(* standard output and then dropped, so that one output pipe stands for    *)
(* both.  A descendant stays in the group: one that starts a session of    *)
(* its own is out of the code's reach and of the model's.                  *)
(*                                                                         *)
(* The version is that of the control plane, signal_foundry's source,      *)
(* which is all that code_identity hashes; the packages a worker also      *)
(* imports are outside what Runner.call compares, and outside this module. *)
(***************************************************************************)
EXTENDS Integers, FiniteSets

CONSTANTS Callers,      \* threads that call the runner
          Permits,      \* BoundedSemaphore(2)
          Payload,      \* bound: chunks of the request
          Produced,     \* bound: chunks a worker writes
          MaxOutput,    \* maximum_output, in chunks
          PipeRoom,     \* bound: chunks a pipe holds
          Timeout,      \* bound: ticks of the wall-time budget
          Versions      \* versions of the control-plane source

VARIABLES permits,   \* the semaphore
          version,   \* the control-plane source on disk
          call,      \* call[c]: the thread's frame of call and execute
          worker     \* worker[c]: the process group and its pipes

vars == <<permits, version, call, worker>>

Outcomes == {"none", "result", "error"}
Steps == {"idle", "start", "check", "select", "reap", "verdict", "kill", "wait", "identify"}

\* A frame with its clock at the start; cancel: the event; clock: ticks since the
\* start; open: the registered pipes; identity: code_identity before the run.
\* restored: since then the identified source was replaced and put back; only the
\* properties read it.
Frame(pc, outcome, cancel, open, got, identity, restored) ==
    [pc |-> pc, outcome |-> outcome, cancel |-> cancel, clock |-> 0, open |-> open,
     written |-> 0, got |-> got, identity |-> identity, restored |-> restored]

NoCall == Frame("idle", "none", FALSE, {}, 0, 0, FALSE)

\* leader, child: the worker and its descendant; code: the exit status;
\* holds: which of the two has the pipes open; foreign: it imported a control-plane
\* module of another version than the identified one.  Of a call that is over only
\* the processes are remembered.
Remains(leader, child) ==
    [leader |-> leader, child |-> child, code |-> 0, holds |-> {}, inbox |-> 0,
     outbox |-> 0, written |-> 0, foreign |-> FALSE]

NoWorker == Remains("none", "none")

Calls == [pc : Steps, outcome : Outcomes, cancel : BOOLEAN, clock : 0..Timeout,
          open : SUBSET {"in", "out"}, written : 0..Payload, got : 0..MaxOutput,
          identity : Versions, restored : BOOLEAN]

Groups == [leader : {"none", "running", "exited", "reaped"},
           child : {"none", "running", "dead"}, code : {0, 1},
           holds : SUBSET {"leader", "child"}, inbox : 0..PipeRoom,
           outbox : 0..PipeRoom, written : 0..Produced, foreign : BOOLEAN]

TypeOK ==
    /\ permits \in 0..Permits
    /\ version \in Versions
    /\ call \in [Callers -> Calls]
    /\ worker \in [Callers -> Groups]

ASSUME WorkerAssumption ==
    /\ {Permits, Payload, PipeRoom} \subseteq Nat \ {0}
    /\ {Produced, MaxOutput, Timeout} \subseteq Nat
    /\ 0 \in Versions

Init ==
    /\ permits = Permits
    /\ version = 0
    /\ call = [c \in Callers |-> NoCall]
    /\ worker = [c \in Callers |-> NoWorker]

-----------------------------------------------------------------------------
(* The calling thread.                                                     *)

PcIs(c, pc) == call[c].pc = pc

Goto(c, pc) == call' = [call EXCEPT ![c].pc = pc]

\* A FoundryError of any code: what was read is lost; the finally clause is next.
Raise(c) ==
    call' = [call EXCEPT ![c] =
               Frame("kill", "error", call[c].cancel, call[c].open, 0, 0, FALSE)]

\* Runner.call: a permit or workers_busy; the identity of the code, then execute.
\* The caller of the job may have been cancelled before.
Call(c) ==
    /\ PcIs(c, "idle")
    /\ \E cancelled \in BOOLEAN :
          IF permits = 0
            THEN /\ call' = [call EXCEPT ![c] = Frame("idle", "error", FALSE, {}, 0, 0, FALSE)]
                 /\ UNCHANGED permits
            ELSE /\ permits' = permits - 1
                 /\ call' = [call EXCEPT ![c] =
                               Frame("start", "none", cancelled, {}, 0, version, FALSE)]
    /\ worker' = [worker EXCEPT ![c] = NoWorker]
    /\ UNCHANGED version

\* Popen, or cancelled before it, or its OSError: there is no group to kill then.
Start(c) ==
    /\ PcIs(c, "start")
    /\ \/ /\ call' = [call EXCEPT ![c].pc = "identify", ![c].outcome = "error"]
          /\ UNCHANGED worker
       \/ /\ ~call[c].cancel
          /\ call' = [call EXCEPT ![c].pc = "check", ![c].open = {"in", "out"}]
          /\ worker' = [worker EXCEPT ![c].leader = "running", ![c].holds = {"leader"},
                                      ![c].foreign = call[c].identity # version]
    /\ UNCHANGED <<permits, version>>

\* Mutant: the budget is the worker's own, not that of what it leaves behind.
Expired_WithLeader(c) == call[c].clock = Timeout /\ worker[c].leader = "running"

Expired(c) == call[c].clock = Timeout

\* The head of the loop: cancel, deadline, the sampled budgets, in this order.
Check(c) ==
    /\ PcIs(c, "check")
    /\ IF call[c].open = {} THEN Goto(c, "reap")
       ELSE IF call[c].cancel \/ Expired(c) THEN Raise(c)
       ELSE Goto(c, "select") \/ (worker[c].leader = "running" /\ Raise(c))
    /\ UNCHANGED <<permits, version, worker>>

\* Mutant: the pipes are the worker's alone.
Broken_LeaderGone(c) == worker[c].leader # "running"

\* Nobody has the other end of the pipes.
Broken(c) == worker[c].holds = {}

\* os.write of what the pipe has room for, or BrokenPipeError.
Feed(c) ==
    /\ "in" \in call[c].open
    /\ \/ /\ Broken(c)
          /\ call' = [call EXCEPT ![c].pc = "check", ![c].open = @ \ {"in"}]
          /\ UNCHANGED worker
       \/ /\ ~Broken(c) /\ worker[c].inbox < PipeRoom
          /\ call' = [call EXCEPT ![c].pc = "check", ![c].written = @ + 1,
                                  ![c].open = IF call[c].written + 1 = Payload
                                                THEN @ \ {"in"} ELSE @]
          /\ worker' = [worker EXCEPT ![c].inbox = @ + 1]

\* os.read: a chunk, within the budget, or the end of the file.
Collect(c) ==
    /\ "out" \in call[c].open
    /\ \/ /\ worker[c].outbox > 0
          /\ worker' = [worker EXCEPT ![c].outbox = @ - 1]
          /\ IF call[c].got = MaxOutput
               THEN Raise(c)
               ELSE call' = [call EXCEPT ![c].pc = "check", ![c].got = @ + 1]
       \/ /\ worker[c].outbox = 0 /\ Broken(c)
          /\ call' = [call EXCEPT ![c].pc = "check", ![c].open = @ \ {"out"}]
          /\ UNCHANGED worker

\* select: one ready pipe a turn, or none within 50 ms.
Select(c) ==
    /\ PcIs(c, "select")
    /\ Feed(c) \/ Collect(c) \/ (Goto(c, "check") /\ UNCHANGED worker)
    /\ UNCHANGED <<permits, version>>

\* process.wait within what remains of the budget.
Reap(c) ==
    /\ PcIs(c, "reap")
    /\ \/ /\ worker[c].leader = "exited"
          /\ worker' = [worker EXCEPT ![c].leader = "reaped"]
          /\ Goto(c, "verdict")
       \/ /\ worker[c].leader = "running" /\ Expired(c)
          /\ Raise(c)
          /\ UNCHANGED worker
    /\ UNCHANGED <<permits, version>>

Verdict(c) ==
    /\ PcIs(c, "verdict")
    /\ IF call[c].cancel \/ worker[c].code # 0
         THEN Raise(c)
         ELSE call' = [call EXCEPT ![c].pc = "kill", ![c].outcome = "result"]
    /\ UNCHANGED <<permits, version, worker>>

\* Mutant: only the worker is killed.
Dead_LeaderOnly(child) == child

Dead(child) == IF child = "running" THEN "dead" ELSE child

\* finally: SIGKILL to the group, whatever of it is left; it may be empty.
Kill(c) ==
    /\ PcIs(c, "kill")
    /\ worker' = [worker EXCEPT
                    ![c].leader = IF @ = "running" THEN "exited" ELSE @,
                    ![c].child = Dead(@), ![c].holds = {}]
    /\ Goto(c, "wait")
    /\ UNCHANGED <<permits, version>>

\* process.wait() and close.
Wait(c) ==
    /\ PcIs(c, "wait")
    /\ worker[c].leader \in {"exited", "reaped"}
    /\ worker' = [worker EXCEPT ![c].leader = "reaped", ![c].inbox = 0, ![c].outbox = 0]
    /\ call' = [call EXCEPT ![c].pc = "identify", ![c].open = {}]
    /\ UNCHANGED <<permits, version>>

\* Mutant: the identity of the code is not taken again.
SameCode_Assumed(c) == TRUE

SameCode(c) == call[c].identity = version

\* The rest of Runner.call: a response must be a result, of the code that is
\* still there; the permit is given back in every case.
Identify(c) ==
    /\ PcIs(c, "identify")
    /\ \E contract \in BOOLEAN :
          LET outcome == IF contract /\ SameCode(c) THEN call[c].outcome ELSE "error"
          IN  call' = [call EXCEPT ![c] =
                         Frame("idle", outcome, FALSE, call[c].open, 0, 0, FALSE)]
    /\ worker' = [worker EXCEPT ![c] = Remains(worker[c].leader, worker[c].child)]
    /\ permits' = permits + 1
    /\ UNCHANGED version

Step(c) ==
    \/ Start(c) \/ Check(c) \/ Select(c) \/ Reap(c) \/ Verdict(c)
    \/ Kill(c) \/ Wait(c) \/ Identify(c)

-----------------------------------------------------------------------------
(* The environment: time, the canceller, the operator, the worker's group. *)

Tick(c) ==
    /\ call[c].pc \notin {"idle", "start"} /\ call[c].clock < Timeout
    /\ call' = [call EXCEPT ![c].clock = @ + 1]
    /\ UNCHANGED <<permits, version, worker>>

Cancel(c) ==
    /\ ~PcIs(c, "idle") /\ ~call[c].cancel
    /\ call' = [call EXCEPT ![c].cancel = TRUE]
    /\ UNCHANGED <<permits, version, worker>>

\* The control plane becomes any other version, an earlier one included: a tree
\* can be replaced and put back while a worker runs.
Replace ==
    /\ \E v \in Versions \ {version} :
          /\ version' = v
          /\ call' = [c \in Callers |-> [call[c] EXCEPT
                        !.restored = @ \/ (call[c].pc # "idle" /\ call[c].identity = v)]]
    /\ UNCHANGED <<permits, worker>>

\* The worker imports another control-plane module as it runs.
LoadCode(c) ==
    /\ worker[c].leader = "running"
    /\ worker' = [worker EXCEPT ![c].foreign = @ \/ call[c].identity # version]

ReadInput(c) ==
    /\ worker[c].inbox > 0 /\ worker[c].holds # {}
    /\ worker' = [worker EXCEPT ![c].inbox = @ - 1]

WriteOutput(c) ==
    /\ worker[c].holds # {}
    /\ worker[c].outbox < PipeRoom /\ worker[c].written < Produced
    /\ worker' = [worker EXCEPT ![c].outbox = @ + 1, ![c].written = @ + 1]

Fork(c) ==
    /\ worker[c].leader = "running" /\ worker[c].child = "none"
    /\ worker' = [worker EXCEPT ![c].child = "running",
                    ![c].holds = IF "leader" \in @ THEN @ \cup {"child"} ELSE @]

ClosePipes(c) ==
    \E p \in worker[c].holds : worker' = [worker EXCEPT ![c].holds = @ \ {p}]

Exit(c) ==
    \/ /\ worker[c].leader = "running"
       /\ \E code \in {0, 1} :
             worker' = [worker EXCEPT ![c].leader = "exited", ![c].code = code,
                                      ![c].holds = @ \ {"leader"}]
    \/ /\ worker[c].child = "running"
       /\ worker' = [worker EXCEPT ![c].child = "dead", ![c].holds = @ \ {"child"}]

Group(c) ==
    /\ LoadCode(c) \/ ReadInput(c) \/ WriteOutput(c) \/ Fork(c) \/ ClosePipes(c) \/ Exit(c)
    /\ UNCHANGED <<permits, version, call>>

Next ==
    \/ \E c \in Callers : Call(c) \/ Step(c) \/ Tick(c) \/ Cancel(c) \/ Group(c)
    \/ Replace

\* A thread runs and time passes; nothing is asked of the worker.
Spec ==
    /\ Init /\ [][Next]_vars
    /\ \A c \in Callers : WF_vars(Step(c)) /\ WF_vars(Tick(c))

-----------------------------------------------------------------------------
(* Properties.                                                             *)

\* The step returns call[c].got as the result.
Returns(c) == PcIs(c, "identify") /\ call'[c].pc = "idle" /\ call'[c].outcome = "result"

\* A result is all that the group wrote and nothing was left in a pipe, from a
\* worker that exited with success within the output budget (process.py:136-164).
ResultIsWhole ==
    [][\A c \in Callers : Returns(c) =>
          /\ call[c].got = worker[c].written
          /\ worker[c].leader = "reaped" /\ worker[c].code = 0]_vars

\* Unless the control plane was replaced and put back during the call, which a
\* comparison of two hashes cannot see, every control-plane module the worker
\* imported, however late, is of the code identified before it (runner.py:125).
ResultIsOfItsCode ==
    [][\A c \in Callers : Returns(c) /\ ~call[c].restored => ~worker[c].foreign]_vars

\* When a call is over, none of its processes lives, none is left unreaped, its
\* pipes are closed and its permit is back (process.py:167-176, runner.py:137).
EndedCallsLeaveNothing ==
    /\ permits = Permits - Cardinality({c \in Callers : ~PcIs(c, "idle")})
    /\ \A c \in Callers : PcIs(c, "idle") =>
          /\ worker[c].leader \in {"none", "reaped"}
          /\ worker[c].child # "running"
          /\ call[c].open = {}

\* Every call comes to an end, whatever the worker does with its pipes and
\* however long a descendant of it holds them (process.py:86).
CallsEnd ==
    \A c \in Callers : ~PcIs(c, "idle") ~> PcIs(c, "idle")
=============================================================================
