------------------------- MODULE WorkerProcessProofs -------------------------
(***************************************************************************)
(* Worker processes for any number of callers and permits and any budgets: *)
(* a result is whole and, unless a replaced tree was put back, of the code *)
(* that was identified, and a call that is over leaves no process, pipe or *)
(* permit behind.                                                          *)
(*                                                                         *)
(* The argument for whole results: while a call reads, what the group has  *)
(* written is what was read plus what is in the pipe; the output is closed *)
(* only when nobody holds the pipes and the pipe is empty, after which     *)
(* nobody can write any more.                                              *)
(***************************************************************************)
EXTENDS WorkerProcess, FiniteSetTheorems, TLAPS

Busy == {c \in Callers : ~PcIs(c, "idle")}

Running == {"check", "select", "reap", "verdict"}

Shapes == call \in [Callers -> Calls] /\ worker \in [Callers -> Groups]

\* The frame of a call: nothing has come of it before it is over, and its pipes
\* are closed in time.
Framed(k) ==
    /\ k.pc \in Running \cup {"start"} => k.outcome = "none"
    /\ k.pc \in {"start", "reap", "verdict", "identify", "idle"} => k.open = {}
    /\ "in" \in k.open => k.written < Payload

\* The group of a call, by the step the call is at.
Alive(k, w) ==
    /\ w.child # "running" => "child" \notin w.holds
    /\ w.leader # "running" => "leader" \notin w.holds
    /\ k.pc = "start" => w.leader = "none"
    /\ k.pc \in {"check", "select", "reap"} => w.leader \in {"running", "exited"}
    /\ k.pc = "verdict" => w.leader = "reaped"
    /\ k.pc = "kill" => w.leader # "none"
    /\ k.pc = "wait" => w.leader \in {"exited", "reaped"}
    /\ k.pc \in {"identify", "idle"} => w.leader \in {"none", "reaped"}
    /\ k.pc \in {"start", "wait", "identify", "idle"} => w.child # "running"

\* What was written is what was read and what is still in the pipe.
Whole(k, w) ==
    /\ k.pc \in {"start", "reap", "verdict"} => w.holds = {} /\ w.outbox = 0
    /\ k.pc = "start" => w.written = 0 /\ k.got = 0
    /\ k.pc \in Running => w.written = k.got + w.outbox
    /\ k.pc \in {"check", "select"} /\ "out" \notin k.open =>
          w.holds = {} /\ w.outbox = 0
    /\ k.outcome = "result" /\ k.pc # "idle" =>
          /\ k.got = w.written /\ w.holds = {}
          /\ w.leader = "reaped" /\ w.code = 0

\* While the identified code is there and was never put back, the worker has imported
\* nothing else: had it, the code would have been replaced and be gone.
Loaded(k, w, v) ==
    k.pc # "idle" /\ k.outcome # "error" /\ ~k.restored /\ k.identity = v => ~w.foreign

Sound(k, w, v) == Framed(k) /\ Alive(k, w) /\ Whole(k, w) /\ Loaded(k, w, v)

WorkerInv ==
    /\ TypeOK
    /\ IsFiniteSet(Busy) /\ permits = Permits - Cardinality(Busy)
    /\ \A c \in Callers : Sound(call[c], worker[c], version)

\* A step of the call of c and of its group alone.
Alone(c) ==
    /\ Shapes'
    /\ Sound(call[c], worker[c], version)'
    /\ \A d \in Callers \ {c} : call'[d] = call[d] /\ worker'[d] = worker[d]
    /\ version' = version

\* It leaves the call as busy or as idle as it was.
OwnStep(c) ==
    /\ Alone(c)
    /\ permits' = permits /\ PcIs(c, "idle")' = PcIs(c, "idle")

-----------------------------------------------------------------------------
(* The steps of the calling thread.                                        *)

\* The frames that calls make up are frames.
LEMMA FrameType ==
  ASSUME NEW pc \in Steps, NEW outcome \in Outcomes, NEW cancel \in BOOLEAN,
         NEW open \in SUBSET {"in", "out"}, NEW got \in 0..MaxOutput,
         NEW identity \in Versions, NEW restored \in BOOLEAN
  PROVE  Frame(pc, outcome, cancel, open, got, identity, restored) \in Calls
  <1>1. 0 \in 0..Timeout /\ 0 \in 0..Payload
    BY WorkerAssumption
  <1> QED
    BY <1>1, Zenon DEF Frame, Calls

\* What remains of a killed group is a group.
LEMMA RemainsType ==
  ASSUME NEW leader \in {"none", "running", "exited", "reaped"},
         NEW child \in {"none", "running", "dead"}
  PROVE  Remains(leader, child) \in Groups
  <1>1. 0 \in 0..PipeRoom /\ 0 \in 0..Produced /\ 0 \in Versions
    BY WorkerAssumption
  <1> QED
    BY <1>1 DEF Remains, Groups

\* A call raises: nothing but its processes and pipes is left to care for.
LEMMA RaiseStep ==
  ASSUME WorkerInv, NEW c \in Callers, Raise(c), call[c].pc \in Running,
         NEW w \in Groups, worker' = [worker EXCEPT ![c] = w],
         w.leader \in {"running", "exited", "reaped"}, w.child = worker[c].child,
         "child" \in w.holds => "child" \in worker[c].holds,
         "leader" \in w.holds => "leader" \in worker[c].holds /\ w.leader = worker[c].leader,
         UNCHANGED <<permits, version>>
  PROVE  OwnStep(c)
  <1> DEFINE k == Frame("kill", "error", call[c].cancel, call[c].open, 0, 0, FALSE)
  <1>1. /\ call \in [Callers -> Calls] /\ worker \in [Callers -> Groups]
        /\ Sound(call[c], worker[c], version)
    BY DEF WorkerInv, TypeOK
  <1>2. call[c].cancel \in BOOLEAN /\ call[c].open \in SUBSET {"in", "out"}
    BY <1>1 DEF Calls
  <1>3. /\ "kill" \in Steps /\ "error" \in Outcomes /\ 0 \in 0..MaxOutput /\ 0 \in Versions
        /\ FALSE \in BOOLEAN
    BY WorkerAssumption DEF Steps, Outcomes
  <1>4. k \in Calls
    BY ONLY <1>2, <1>3, FrameType, Zenon
  <1>5. /\ k.pc = "kill" /\ k.outcome = "error" /\ k.written = 0
        /\ call' = [call EXCEPT ![c] = k]
    BY DEF Frame, Raise
  <1> HIDE DEF k
  <1>6. Framed(k) /\ Whole(k, w) /\ Loaded(k, w, version)
    BY <1>5, WorkerAssumption DEF Framed, Whole, Loaded, Running
  <1>7. Alive(k, w)
    BY <1>1, <1>5 DEF Sound, Alive
  <1> QED
    BY <1>1, <1>4, <1>5, <1>6, <1>7 DEF OwnStep, Alone, Shapes, Sound, PcIs, Running

\* Starting the process group.
LEMMA StartStep ==
  ASSUME WorkerInv, NEW c \in Callers, Start(c)
  PROVE  OwnStep(c)
  BY WorkerAssumption, SMTT(30) DEF Start, WorkerInv, TypeOK, Shapes, Calls, Groups, OwnStep, Alone, Sound, Framed, Alive, Whole, Loaded,
        Running, Steps, Outcomes, PcIs

\* The loop looks at the deadline and at the cancellation.
LEMMA CheckStep ==
  ASSUME WorkerInv, NEW c \in Callers, Check(c)
  PROVE  OwnStep(c)
  <1>1. CASE Raise(c)
    <2>1. /\ worker' = [worker EXCEPT ![c] = worker[c]] /\ worker[c] \in Groups
          /\ worker[c].leader \in {"running", "exited"}
      BY DEF Check, PcIs, WorkerInv, TypeOK, Sound, Alive
    <2> QED
      BY <1>1, <2>1, RaiseStep DEF Check, PcIs, Running
  <1>2. CASE call[c].open = {} /\ Goto(c, "reap")
    BY <1>2, WorkerAssumption, SMTT(30) DEF Check, Goto, WorkerInv, TypeOK, Shapes, Calls, Groups, OwnStep, Alone, Sound, Framed, Alive, Whole, Loaded,
        Running, Steps, Outcomes, PcIs
  <1>3. CASE Goto(c, "select")
    BY <1>3, WorkerAssumption, SMTT(30) DEF Check, Goto, WorkerInv, TypeOK, Shapes, Calls, Groups, OwnStep, Alone, Sound, Framed, Alive, Whole, Loaded,
        Running, Steps, Outcomes, PcIs
  <1> QED
    BY <1>1, <1>2, <1>3 DEF Check

\* The loop feeds the input or collects output.
LEMMA SelectStep ==
  ASSUME WorkerInv, NEW c \in Callers, Select(c)
  PROVE  OwnStep(c)
  <1> USE WorkerAssumption, SMTT(30) DEF WorkerInv, TypeOK, Shapes, Calls, Groups, OwnStep,
        Alone, Sound, Framed, Alive, Whole, Loaded, Running, Steps, Outcomes, PcIs
  <1>1. CASE Feed(c)
    <2>1. CASE Broken(c) /\ UNCHANGED worker
      BY <1>1, <2>1 DEF Select, Feed, Broken
    <2>2. CASE ~Broken(c) /\ call[c].written + 1 = Payload
      BY <1>1, <2>2 DEF Select, Feed, Broken
    <2>3. CASE ~Broken(c) /\ call[c].written + 1 # Payload
      BY <1>1, <2>3 DEF Select, Feed, Broken
    <2> QED
      BY <1>1, <2>1, <2>2, <2>3 DEF Feed
  <1>2. CASE Collect(c) /\ call[c].got = MaxOutput
    <2>1. CASE worker[c].outbox > 0
      <3> DEFINE w == [worker[c] EXCEPT !.outbox = worker[c].outbox - 1]
      <3>1. worker' = [worker EXCEPT ![c] = w] /\ Raise(c)
        BY <1>2, <2>1 DEF Collect
      <3>2. w \in Groups /\ w.leader \in {"running", "exited"}
        BY <2>1 DEF Select
      <3>3. w.leader = worker[c].leader /\ w.child = worker[c].child /\ w.holds = worker[c].holds
        OBVIOUS
      <3>4. call[c].pc \in Running /\ UNCHANGED <<permits, version>>
        BY DEF Select
      <3> HIDE DEF w
      <3>5. worker[c].leader \in {"running", "exited", "reaped"} /\ WorkerInv
        BY <3>2, <3>3
      <3> QED
        BY ONLY <3>1, <3>2, <3>3, <3>4, <3>5, c \in Callers, RaiseStep
    <2>2. CASE worker[c].outbox = 0
      BY <1>2, <2>2 DEF Select, Collect, Broken
    <2> QED
      BY <1>2, <2>1, <2>2 DEF Collect
  <1>3. CASE Collect(c) /\ call[c].got # MaxOutput
    BY <1>3 DEF Select, Collect, Broken
  <1>4. CASE Goto(c, "check") /\ UNCHANGED worker
    BY <1>4 DEF Select, Goto
  <1> QED
    BY <1>1, <1>2, <1>3, <1>4 DEF Select

\* The leader is reaped, or the loop goes round.
LEMMA ReapStep ==
  ASSUME WorkerInv, NEW c \in Callers, Reap(c)
  PROVE  OwnStep(c)
  <1>1. CASE /\ worker[c].leader = "exited"
             /\ worker' = [worker EXCEPT ![c].leader = "reaped"]
             /\ Goto(c, "verdict")
    BY <1>1, WorkerAssumption, SMTT(30) DEF Reap, Goto, WorkerInv, TypeOK, Shapes, Calls, Groups, OwnStep, Alone, Sound, Framed, Alive, Whole, Loaded,
        Running, Steps, Outcomes, PcIs
  <1>2. CASE worker[c].leader = "running" /\ Expired(c) /\ Raise(c) /\ UNCHANGED worker
    <2>1. /\ worker' = [worker EXCEPT ![c] = worker[c]] /\ worker[c] \in Groups
          /\ call[c].pc \in Running /\ UNCHANGED <<permits, version>>
      BY <1>2 DEF Reap, PcIs, Running, WorkerInv, TypeOK
    <2> QED
      BY <1>2, <2>1, RaiseStep
  <1> QED
    BY <1>1, <1>2 DEF Reap

\* The outcome is decided.
LEMMA VerdictStep ==
  ASSUME WorkerInv, NEW c \in Callers, Verdict(c)
  PROVE  OwnStep(c)
  <1>1. CASE Raise(c)
    <2>1. /\ worker' = [worker EXCEPT ![c] = worker[c]] /\ worker[c] \in Groups
          /\ worker[c].leader = "reaped" /\ call[c].pc \in Running
          /\ UNCHANGED <<permits, version>>
      BY DEF Verdict, PcIs, Running, WorkerInv, TypeOK, Sound, Alive
    <2> QED
      BY <1>1, <2>1, RaiseStep
  <1>2. CASE ~(call[c].cancel \/ worker[c].code # 0)
    BY <1>2, WorkerAssumption, SMTT(30) DEF Verdict, WorkerInv, TypeOK, Shapes, Calls, Groups, OwnStep, Alone, Sound, Framed, Alive, Whole, Loaded,
        Running, Steps, Outcomes, PcIs
  <1> QED
    BY <1>1, <1>2 DEF Verdict

\* The group is killed.
LEMMA KillStep ==
  ASSUME WorkerInv, NEW c \in Callers, Kill(c)
  PROVE  OwnStep(c)
  <1> USE WorkerAssumption DEF WorkerInv, TypeOK, Shapes, PcIs
  <1>1. Shapes'
    <2> DEFINE leader == IF worker[c].leader = "running" THEN "exited" ELSE worker[c].leader
    <2>1. leader \in {"none", "running", "exited", "reaped"}
          /\ Dead(worker[c].child) \in {"none", "running", "dead"}
      BY DEF Groups, Dead
    <2>2. [worker[c] EXCEPT !.leader = leader, !.child = Dead(worker[c].child),
                            !.holds = {}] \in Groups
      <3> HIDE DEF leader
      <3> QED
        BY <2>1 DEF Groups
    <2>3. [call[c] EXCEPT !.pc = "wait"] \in Calls
      BY DEF Calls, Steps
    <2>4. /\ call' = [call EXCEPT ![c] = [call[c] EXCEPT !.pc = "wait"]]
          /\ worker' = [worker EXCEPT ![c] =
                          [worker[c] EXCEPT !.leader = leader,
                                            !.child = Dead(worker[c].child), !.holds = {}]]
      BY DEF Kill, Goto
    <2> QED
      BY <2>2, <2>3, <2>4
  <1>2. \A d \in Callers \ {c} : call'[d] = call[d] /\ worker'[d] = worker[d]
    BY DEF Kill, Goto, Dead, Calls, Groups
  <1>3. Framed(call[c])'
    BY DEF Kill, Goto, Dead, Calls, Groups, Sound, Framed, Running
  <1>4. Alive(call[c], worker[c])'
    BY DEF Kill, Goto, Dead, Calls, Groups, Sound, Alive, Framed, Running
  <1>5. Whole(call[c], worker[c])'
    BY DEF Kill, Goto, Dead, Calls, Groups, Sound, Whole, Alive, Framed, Running
  <1>6. Loaded(call[c], worker[c], version)'
    BY DEF Kill, Goto, Dead, Calls, Groups, Sound, Loaded
  <1>7. permits' = permits /\ version' = version /\ PcIs(c, "idle")' = PcIs(c, "idle")
    BY DEF Kill, Goto, Dead, Calls, Groups
  <1> QED
    BY <1>1, <1>2, <1>3, <1>4, <1>5, <1>6, <1>7 DEF OwnStep, Alone, Sound

\* The leader is waited for, and the pipes are closed.
LEMMA WaitStep ==
  ASSUME WorkerInv, NEW c \in Callers, Wait(c)
  PROVE  OwnStep(c)
  <1> USE WorkerAssumption DEF WorkerInv, TypeOK, Shapes, PcIs
  <1>1. Shapes'
    <2>1. [call[c] EXCEPT !.pc = "identify", !.open = {}] \in Calls
      BY DEF Calls, Steps
    <2>2. [worker[c] EXCEPT !.leader = "reaped", !.inbox = 0, !.outbox = 0] \in Groups
      <3>1. 0 \in 0..PipeRoom /\ worker[c] \in Groups
        OBVIOUS
      <3> QED
        BY ONLY <3>1 DEF Groups
    <2>3. /\ call' = [call EXCEPT ![c] = [call[c] EXCEPT !.pc = "identify", !.open = {}]]
          /\ worker' = [worker EXCEPT ![c] =
                          [worker[c] EXCEPT !.leader = "reaped", !.inbox = 0, !.outbox = 0]]
      BY DEF Wait
    <2> QED
      BY <2>1, <2>2, <2>3
  <1>2. \A d \in Callers \ {c} : call'[d] = call[d] /\ worker'[d] = worker[d]
    BY DEF Wait, Calls, Groups
  <1>3. Framed(call[c])'
    BY DEF Wait, Calls, Groups, Sound, Framed, Running
  <1>4. Alive(call[c], worker[c])'
    BY DEF Wait, Calls, Groups, Sound, Alive, Framed, Running
  <1>5. Whole(call[c], worker[c])'
    BY DEF Wait, Calls, Groups, Sound, Whole, Alive, Framed, Running
  <1>6. Loaded(call[c], worker[c], version)'
    BY DEF Wait, Calls, Groups, Sound, Loaded
  <1>7. permits' = permits /\ version' = version /\ PcIs(c, "idle")' = PcIs(c, "idle")
    BY DEF Wait, Calls, Groups
  <1> QED
    BY <1>1, <1>2, <1>3, <1>4, <1>5, <1>6, <1>7 DEF OwnStep, Alone, Sound

\* Time passes for one call.
LEMMA TickStep ==
  ASSUME WorkerInv, NEW c \in Callers, Tick(c)
  PROVE  OwnStep(c)
  <1> USE WorkerAssumption DEF WorkerInv, TypeOK, Shapes, PcIs
  <1>1. Shapes'
    <2>1. call[c].clock + 1 \in 0..Timeout
      BY DEF Tick, Calls
    <2>2. [call[c] EXCEPT !.clock = call[c].clock + 1] \in Calls
      BY <2>1, Zenon DEF Calls
    <2>3. /\ call' = [call EXCEPT ![c] = [call[c] EXCEPT !.clock = call[c].clock + 1]]
          /\ worker' = worker
      BY DEF Tick
    <2> QED
      BY <2>2, <2>3
  <1>2. \A d \in Callers \ {c} : call'[d] = call[d] /\ worker'[d] = worker[d]
    BY DEF Tick, Calls, Groups
  <1>3. Framed(call[c])'
    BY DEF Tick, Calls, Groups, Sound, Framed, Running
  <1>4. Alive(call[c], worker[c])'
    BY DEF Tick, Calls, Groups, Sound, Alive, Framed, Running
  <1>5. Whole(call[c], worker[c])'
    BY DEF Tick, Calls, Groups, Sound, Whole, Alive, Framed, Running
  <1>6. Loaded(call[c], worker[c], version)'
    BY DEF Tick, Calls, Groups, Sound, Loaded
  <1>7. permits' = permits /\ version' = version /\ PcIs(c, "idle")' = PcIs(c, "idle")
    BY DEF Tick, Calls, Groups
  <1> QED
    BY <1>1, <1>2, <1>3, <1>4, <1>5, <1>6, <1>7 DEF OwnStep, Alone, Sound

\* A cancellation is requested.
LEMMA CancelStep ==
  ASSUME WorkerInv, NEW c \in Callers, Cancel(c)
  PROVE  OwnStep(c)
  <1> USE WorkerAssumption DEF WorkerInv, TypeOK, Shapes, PcIs
  <1>1. Shapes'
    <2>1. [call[c] EXCEPT !.cancel = TRUE] \in Calls
      BY Zenon DEF Calls
    <2>2. call' = [call EXCEPT ![c] = [call[c] EXCEPT !.cancel = TRUE]] /\ worker' = worker
      BY DEF Cancel
    <2> QED
      BY <2>1, <2>2
  <1>2. \A d \in Callers \ {c} : call'[d] = call[d] /\ worker'[d] = worker[d]
    BY DEF Cancel, Calls, Groups
  <1>3. Framed(call[c])'
    BY DEF Cancel, Calls, Groups, Sound, Framed, Running
  <1>4. Alive(call[c], worker[c])'
    BY DEF Cancel, Calls, Groups, Sound, Alive, Framed, Running
  <1>5. Whole(call[c], worker[c])'
    BY DEF Cancel, Calls, Groups, Sound, Whole, Alive, Framed, Running
  <1>6. Loaded(call[c], worker[c], version)'
    BY DEF Cancel, Calls, Groups, Sound, Loaded
  <1>7. permits' = permits /\ version' = version /\ PcIs(c, "idle")' = PcIs(c, "idle")
    BY DEF Cancel, Calls, Groups
  <1> QED
    BY <1>1, <1>2, <1>3, <1>4, <1>5, <1>6, <1>7 DEF OwnStep, Alone, Sound

\* The group reads, writes, forks, closes or exits.
LEMMA GroupStep ==
  ASSUME WorkerInv, NEW c \in Callers, Group(c)
  PROVE  OwnStep(c)
  <1> USE WorkerAssumption, SMTT(30) DEF Group, WorkerInv, TypeOK, Shapes, Calls, OwnStep, Alone,
        Sound, PcIs
  <1>1. CASE LoadCode(c)
    <2> DEFINE foreign == worker[c].foreign \/ call[c].identity # version
               w == [worker[c] EXCEPT !.foreign = foreign]
    <2>1. worker' = [worker EXCEPT ![c] = w]
      BY <1>1 DEF LoadCode
    <2>2. foreign \in BOOLEAN
      BY DEF Groups
    <2>3. foreign = (worker[c].foreign \/ call[c].identity # version)
      OBVIOUS
    <2> HIDE DEF foreign
    <2>4. w \in Groups
      <3>1. worker[c] \in Groups
        OBVIOUS
      <3> QED
        BY ONLY <2>2, <3>1, Zenon DEF Groups
    <2>5. /\ w.leader = worker[c].leader /\ w.child = worker[c].child
          /\ w.holds = worker[c].holds /\ w.outbox = worker[c].outbox
          /\ w.written = worker[c].written /\ w.code = worker[c].code
          /\ w.foreign = foreign
      BY DEF Groups
    <2> HIDE DEF w
    <2>6. Alive(call[c], w) /\ Whole(call[c], w)
      BY <2>5 DEF Alive, Whole
    <2>7. Loaded(call[c], w, version)
      BY <2>3, <2>5 DEF Loaded
    <2> QED
      BY <2>1, <2>4, <2>6, <2>7
  <1>2. CASE ReadInput(c)
    BY <1>2 DEF ReadInput, Groups, Framed, Alive, Whole, Loaded, Running, Steps, Outcomes
  <1>3. CASE WriteOutput(c)
    BY <1>3 DEF WriteOutput, Groups, Framed, Alive, Whole, Loaded, Running, Steps, Outcomes
  <1>4. CASE Fork(c)
    <2> DEFINE holds == IF "leader" \in worker[c].holds
                         THEN worker[c].holds \cup {"child"} ELSE worker[c].holds
               w == [worker[c] EXCEPT !.child = "running", !.holds = holds]
    <2>1. /\ worker' = [worker EXCEPT ![c] = w] /\ worker[c] \in Groups
          /\ worker[c].leader = "running"
      <3>1. worker \in [Callers -> Groups]
        OBVIOUS
      <3> QED
        BY ONLY <1>4, <3>1, c \in Callers DEF Fork
    <2>2. /\ holds \in SUBSET {"leader", "child"}
          /\ "leader" \in holds => "leader" \in worker[c].holds
          /\ worker[c].holds = {} => holds = {}
      BY <2>1 DEF Groups
    <2> HIDE DEF holds
    <2>3. w \in Groups
      BY ONLY <2>1, <2>2, Zenon DEF Groups
    <2>4. /\ w.leader = worker[c].leader /\ w.child = "running" /\ w.holds = holds
          /\ w.outbox = worker[c].outbox /\ w.written = worker[c].written
          /\ w.code = worker[c].code /\ w.foreign = worker[c].foreign
      BY <2>1 DEF Groups
    <2> HIDE DEF w
    <2>5. Alive(call[c], w) /\ Whole(call[c], w) /\ Loaded(call[c], w, version)
      BY <2>1, <2>2, <2>4 DEF Alive, Whole, Loaded
    <2> QED
      BY <2>1, <2>3, <2>5
  <1>5. CASE ClosePipes(c) \/ Exit(c)
    BY <1>5 DEF ClosePipes, Exit, Groups, Framed, Alive, Whole, Loaded, Running, Steps, Outcomes
  <1> QED
    BY <1>1, <1>2, <1>3, <1>4, <1>5

\* A call takes a permit as it becomes busy.
LEMMA CallStep ==
  ASSUME WorkerInv, NEW c \in Callers, Call(c)
  PROVE  \/ OwnStep(c)
         \/ /\ Alone(c)
            /\ permits # 0 /\ permits' = permits - 1
            /\ PcIs(c, "idle") /\ ~PcIs(c, "idle")'
  <1> USE WorkerAssumption DEF WorkerInv, TypeOK, Shapes, PcIs
  <1> PICK cancelled \in BOOLEAN :
          IF permits = 0
            THEN /\ call' = [call EXCEPT ![c] = Frame("idle", "error", FALSE, {}, 0, 0, FALSE)]
                 /\ UNCHANGED permits
            ELSE /\ permits' = permits - 1
                 /\ call' = [call EXCEPT ![c] =
                               Frame("start", "none", cancelled, {}, 0, version, FALSE)]
    BY DEF Call
  <1>1. /\ worker' = [worker EXCEPT ![c] = NoWorker] /\ version' = version
        /\ PcIs(c, "idle") /\ version \in Versions
        /\ call \in [Callers -> Calls] /\ worker \in [Callers -> Groups]
    BY DEF Call
  <1>2. NoWorker \in Groups
    BY RemainsType DEF NoWorker
  <1>3. CASE permits = 0
    <2> DEFINE k == Frame("idle", "error", FALSE, {}, 0, 0, FALSE)
    <2>0. /\ "idle" \in Steps /\ "error" \in Outcomes /\ 0 \in 0..MaxOutput /\ 0 \in Versions
          /\ {} \in SUBSET {"in", "out"} /\ FALSE \in BOOLEAN
      BY DEF Steps, Outcomes
    <2>1. k \in Calls
      BY ONLY <2>0, FrameType, Zenon
    <2>5. k.pc = "idle"
      BY ONLY TRUE DEF Frame
    <2>2. Sound(k, NoWorker, version)
      BY <1>1 DEF Sound, Framed, Alive, Whole, Loaded, Running, Frame, Remains, NoWorker
    <2>3. call' = [call EXCEPT ![c] = k] /\ permits' = permits
      BY <1>3
    <2> HIDE DEF k
    <2> QED
      BY <1>1, <1>2, <2>1, <2>2, <2>3, <2>5 DEF OwnStep, Alone
  <1>4. CASE permits # 0
    <2> DEFINE k == Frame("start", "none", cancelled, {}, 0, version, FALSE)
    <2>0. /\ "start" \in Steps /\ "none" \in Outcomes /\ 0 \in 0..MaxOutput
          /\ version \in Versions
          /\ {} \in SUBSET {"in", "out"} /\ cancelled \in BOOLEAN
      BY DEF Steps, Outcomes
    <2>1. k \in Calls
      BY ONLY <2>0, FrameType, Zenon
    <2>5. k.pc = "start"
      BY ONLY TRUE DEF Frame
    <2>2. Sound(k, NoWorker, version)
      BY <1>1 DEF Sound, Framed, Alive, Whole, Loaded, Running, Frame, Remains, NoWorker
    <2>3. call' = [call EXCEPT ![c] = k] /\ permits' = permits - 1
      BY <1>4
    <2> HIDE DEF k
    <2> QED
      BY <1>1, <1>2, <1>4, <2>1, <2>2, <2>3, <2>5 DEF Alone
  <1> QED
    BY <1>3, <1>4

\* And gives it back as it becomes idle.  Its result, if it gives one, is of the
\* code that is still there.
LEMMA IdentifyStep ==
  ASSUME WorkerInv, NEW c \in Callers, Identify(c)
  PROVE  /\ Alone(c)
         /\ permits' = permits + 1
         /\ ~PcIs(c, "idle") /\ PcIs(c, "idle")'
  <1> USE WorkerAssumption DEF WorkerInv, TypeOK, Shapes, PcIs
  <1>1. /\ permits' = permits + 1 /\ version' = version /\ call[c].pc = "identify"
        /\ call \in [Callers -> Calls] /\ worker \in [Callers -> Groups]
        /\ call[c] \in Calls /\ worker[c] \in Groups
        /\ Sound(call[c], worker[c], version)
    BY DEF Identify
  <1>2. /\ call[c].outcome \in Outcomes /\ call[c].open \in SUBSET {"in", "out"}
        /\ call[c].got \in 0..MaxOutput /\ call[c].identity \in Versions
        /\ call[c].restored \in BOOLEAN
        /\ worker[c].leader \in {"none", "running", "exited", "reaped"}
        /\ worker[c].child \in {"none", "running", "dead"}
    BY <1>1 DEF Calls, Groups
  <1> PICK outcome \in Outcomes :
          /\ call' = [call EXCEPT ![c] = Frame("idle", outcome, FALSE, call[c].open, 0, 0, FALSE)]
          /\ worker' = [worker EXCEPT ![c] = Remains(worker[c].leader, worker[c].child)]
    BY <1>2 DEF Identify, Outcomes
  <1> DEFINE k == Frame("idle", outcome, FALSE, call[c].open, 0, 0, FALSE)
             w == Remains(worker[c].leader, worker[c].child)
  <1>3. /\ "idle" \in Steps /\ 0 \in 0..MaxOutput /\ 0 \in Versions /\ FALSE \in BOOLEAN
    BY DEF Steps
  <1>4. k \in Calls /\ w \in Groups
    BY ONLY <1>2, <1>3, outcome \in Outcomes, FrameType, RemainsType, Zenon
  <1>5. k.pc = "idle"
    BY ONLY TRUE DEF Frame
  <1>6. Sound(k, w, version)
    BY <1>1 DEF Sound, Framed, Alive, Whole, Loaded, Running, Frame, Remains
  <1>7. call' = [call EXCEPT ![c] = k] /\ worker' = [worker EXCEPT ![c] = w]
    OBVIOUS
  <1> HIDE DEF k, w
  <1> QED
    BY <1>1, <1>4, <1>5, <1>6, <1>7 DEF Alone

-----------------------------------------------------------------------------
(* The invariant and the theorems.                                         *)

\* The semaphore counts the busy calls.
LEMMA PermitsCount ==
  ASSUME WorkerInv, NEW c \in Callers, Alone(c),
         \/ permits' = permits /\ PcIs(c, "idle")' = PcIs(c, "idle")
         \/ /\ permits # 0 /\ permits' = permits - 1
            /\ PcIs(c, "idle") /\ ~PcIs(c, "idle")'
         \/ permits' = permits + 1 /\ ~PcIs(c, "idle") /\ PcIs(c, "idle")'
  PROVE  WorkerInv'
  <1>1. \A d \in Callers : Sound(call[d], worker[d], version)'
    BY DEF WorkerInv, Alone
  <1>2. /\ version' \in Versions
        /\ call' \in [Callers -> Calls] /\ worker' \in [Callers -> Groups]
    BY DEF WorkerInv, TypeOK, Alone, Shapes
  <1>3. /\ permits \in 0..Permits /\ Permits \in Nat
        /\ IsFiniteSet(Busy) /\ permits = Permits - Cardinality(Busy)
        /\ Cardinality(Busy) \in Nat
    BY FS_CardinalityType, WorkerAssumption DEF WorkerInv, TypeOK
  <1>4. \A d \in Callers \ {c} : PcIs(d, "idle")' = PcIs(d, "idle")
    BY DEF Alone, PcIs
  <1>5. CASE permits' = permits /\ PcIs(c, "idle")' = PcIs(c, "idle")
    <2>1. Busy' = Busy
      BY <1>4, <1>5, Zenon DEF Busy
    <2> QED
      BY <1>1, <1>2, <1>3, <1>5, <2>1 DEF WorkerInv, TypeOK
  <1>6. CASE /\ permits # 0 /\ permits' = permits - 1
             /\ PcIs(c, "idle") /\ ~PcIs(c, "idle")'
    <2>1. Busy' = Busy \cup {c} /\ c \notin Busy
      BY <1>4, <1>6, Zenon DEF Busy
    <2>2. IsFiniteSet(Busy') /\ Cardinality(Busy') = Cardinality(Busy) + 1
      BY <1>3, <2>1, FS_AddElement
    <2> QED
      BY <1>1, <1>2, <1>3, <1>6, <2>2 DEF WorkerInv, TypeOK
  <1>7. CASE permits' = permits + 1 /\ ~PcIs(c, "idle") /\ PcIs(c, "idle")'
    <2>1. Busy' = Busy \ {c} /\ c \in Busy
      BY <1>4, <1>7, Zenon DEF Busy
    <2>2. IsFiniteSet(Busy') /\ Cardinality(Busy') = Cardinality(Busy) - 1
      BY <1>3, <2>1, FS_RemoveElement
    <2>3. Cardinality(Busy') \in Nat
      BY <2>2, FS_CardinalityType
    <2> QED
      BY <1>1, <1>2, <1>3, <1>7, <2>2, <2>3 DEF WorkerInv, TypeOK
  <1> QED
    BY <1>5, <1>6, <1>7

\* A result is returned by the last step of its call alone, which finds what the
\* invariant says of it.
LEMMA ReturnStep ==
  ASSUME WorkerInv, [Next]_vars, NEW c \in Callers, Returns(c)
  PROVE  /\ call[c].got = worker[c].written
         /\ worker[c].leader = "reaped" /\ worker[c].code = 0
         /\ ~call[c].restored => ~worker[c].foreign
  <1>1. call[c].pc = "identify" /\ call'[c].pc = "idle" /\ call'[c].outcome = "result"
    BY DEF Returns, PcIs
  <1>2. ASSUME NEW d \in Callers, Alone(d), d # c
        PROVE  FALSE
    BY <1>1, <1>2 DEF Alone
  <1>3. ~OwnStep(c)
    BY <1>1 DEF OwnStep, PcIs
  <1>4. Identify(c)
    <2>1. ASSUME NEW d \in Callers, Call(d)
          PROVE  FALSE
      BY <1>1, <1>2, <1>3, <2>1, CallStep DEF OwnStep, PcIs
    <2>2. ASSUME NEW d \in Callers, Step(d) \/ Tick(d) \/ Cancel(d) \/ Group(d), ~Identify(d)
          PROVE  FALSE
      <3>1. OwnStep(d)
        BY <2>2, StartStep, CheckStep, SelectStep, ReapStep, VerdictStep, KillStep,
           WaitStep, TickStep, CancelStep, GroupStep DEF Step
      <3> QED
        BY <1>2, <1>3, <3>1 DEF OwnStep
    <2>3. ASSUME NEW d \in Callers, Identify(d), d # c
          PROVE  FALSE
      BY <1>2, <2>3, IdentifyStep
    <2>4. ~Replace
      <3>1. ASSUME Replace PROVE call'[c].pc = call[c].pc
        BY <3>1 DEF Replace, WorkerInv, TypeOK, Calls
      <3> QED
        BY <1>1, <3>1
    <2>5. ~UNCHANGED vars
      BY <1>1 DEF vars
    <2> QED
      BY <2>1, <2>2, <2>3, <2>4, <2>5 DEF Next
  <1>5. SameCode(c) /\ call[c].outcome = "result"
    <2> PICK contract \in BOOLEAN :
          LET outcome == IF contract /\ SameCode(c) THEN call[c].outcome ELSE "error"
          IN  call' = [call EXCEPT ![c] =
                         Frame("idle", outcome, FALSE, call[c].open, 0, 0, FALSE)]
      BY <1>4 DEF Identify
    <2> QED
      BY <1>1 DEF Frame, WorkerInv, TypeOK
  <1>6. Sound(call[c], worker[c], version)
    BY DEF WorkerInv
  <1> QED
    BY <1>1, <1>5, <1>6 DEF Sound, Whole, Loaded, SameCode

\* The initial states satisfy the invariant.
LEMMA WorkerInit == Init => WorkerInv
  <1> SUFFICES ASSUME Init PROVE WorkerInv
    OBVIOUS
  <1>1. Busy = {}
    BY DEF Init, Busy, PcIs, NoCall, Frame
  <1>2. IsFiniteSet(Busy) /\ Cardinality(Busy) = 0
    BY <1>1, FS_EmptySet
  <1>3. NoCall \in Calls
    <2>1. /\ "idle" \in Steps /\ "none" \in Outcomes /\ 0 \in 0..MaxOutput /\ 0 \in Versions
          /\ {} \in SUBSET {"in", "out"} /\ FALSE \in BOOLEAN
      BY WorkerAssumption DEF Steps, Outcomes
    <2> QED
      BY ONLY <2>1, FrameType, Zenon DEF NoCall
  <1>4. NoWorker \in Groups
    BY RemainsType DEF NoWorker
  <1>5. Sound(NoCall, NoWorker, 0)
    BY DEF Sound, Framed, Alive, Whole, Loaded, Running, NoCall, NoWorker,
       Frame, Remains
  <1> QED
    BY <1>2, <1>3, <1>4, <1>5, WorkerAssumption DEF Init, WorkerInv, TypeOK

\* Every step keeps the invariant.
LEMMA WorkerNext == WorkerInv /\ [Next]_vars => WorkerInv'
  <1> SUFFICES ASSUME WorkerInv, [Next]_vars PROVE WorkerInv'
    OBVIOUS
  <1>1. ASSUME NEW c \in Callers, Call(c) PROVE WorkerInv'
    BY <1>1, CallStep, PermitsCount DEF OwnStep
  <1>2. ASSUME NEW c \in Callers, Identify(c) PROVE WorkerInv'
    BY <1>2, IdentifyStep, PermitsCount
  <1>3. ASSUME NEW c \in Callers,
               Step(c) \/ Tick(c) \/ Cancel(c) \/ Group(c), ~Identify(c)
        PROVE  WorkerInv'
    <2>1. OwnStep(c)
      BY <1>3, StartStep, CheckStep, SelectStep, ReapStep, VerdictStep, KillStep,
         WaitStep, TickStep, CancelStep, GroupStep DEF Step
    <2> QED
      BY <2>1, PermitsCount DEF OwnStep
  <1>4. CASE Replace
    <2>1. /\ call \in [Callers -> Calls] /\ worker \in [Callers -> Groups]
          /\ permits' = permits /\ worker' = worker
      BY <1>4 DEF Replace, WorkerInv, TypeOK
    <2> PICK v \in Versions \ {version} :
          /\ version' = v
          /\ call' = [c \in Callers |-> [call[c] EXCEPT
                        !.restored = @ \/ (call[c].pc # "idle" /\ call[c].identity = v)]]
      BY <1>4 DEF Replace
    <2>2. ASSUME NEW c \in Callers
          PROVE  call'[c] \in Calls /\ Sound(call[c], worker[c], version)'
                 /\ call'[c].pc = call[c].pc
      <3> DEFINE restored == call[c].restored \/ (call[c].pc # "idle" /\ call[c].identity = v)
                 k == [call[c] EXCEPT !.restored = restored]
      <3>1. call[c] \in Calls /\ Sound(call[c], worker[c], version)
        BY <2>1 DEF WorkerInv
      <3>2. call'[c] = k
        OBVIOUS
      <3>3. k \in Calls
        <4>1. restored \in BOOLEAN
          BY <3>1 DEF Calls
        <4> HIDE DEF restored
        <4> QED
          BY <3>1, <4>1, Zenon DEF Calls
      <3>4. /\ k.pc = call[c].pc /\ k.outcome = call[c].outcome /\ k.open = call[c].open
            /\ k.written = call[c].written /\ k.got = call[c].got
            /\ k.identity = call[c].identity /\ k.restored = restored
        BY <3>1 DEF Calls
      <3> HIDE DEF k
      <3>5. Framed(k) /\ Alive(k, worker[c]) /\ Whole(k, worker[c])
        BY <3>1, <3>4 DEF Sound, Framed, Alive, Whole
      <3>6. Loaded(k, worker[c], v)
        BY <3>1, <3>4 DEF Sound, Loaded
      <3> QED
        BY <2>1, <3>2, <3>3, <3>4, <3>5, <3>6 DEF Sound
    <2>3. Busy' = Busy
      BY <2>2 DEF Busy, PcIs
    <2> QED
      BY <2>1, <2>2, <2>3 DEF WorkerInv, TypeOK
  <1>5. CASE UNCHANGED vars
    <2>1. Busy' = Busy
      BY <1>5 DEF vars, Busy, PcIs
    <2> QED
      BY <1>5, <2>1 DEF vars, WorkerInv, TypeOK
  <1> QED
    BY <1>1, <1>2, <1>3, <1>4, <1>5 DEF Next

\* The invariant holds of every reachable state.
LEMMA WorkerHolds == Spec => []WorkerInv
  BY WorkerInit, WorkerNext, PTL DEF Spec

\* Every frame and group keeps its type, whatever the environment does.
THEOREM TypesHold == Spec => []TypeOK
  <1>1. WorkerInv => TypeOK
    BY DEF WorkerInv
  <1> QED
    BY WorkerHolds, <1>1, PTL

\* However long a group writes and whoever holds its pipes, a call that returns
\* a result returns all of what a successful worker's group wrote.
THEOREM ResultsAreWhole == Spec => ResultIsWhole
  <1>1. WorkerInv /\ [Next]_vars =>
          [\A c \in Callers : Returns(c) =>
              /\ call[c].got = worker[c].written
              /\ worker[c].leader = "reaped" /\ worker[c].code = 0]_vars
    BY ReturnStep
  <1> QED
    BY WorkerHolds, <1>1, PTL DEF Spec, ResultIsWhole

\* However often the control plane is replaced during a run, a result is of the
\* code that was identified before it, unless just that code was put back.
THEOREM ResultsAreOfTheirCode == Spec => ResultIsOfItsCode
  <1>1. WorkerInv /\ [Next]_vars =>
          [\A c \in Callers : Returns(c) /\ ~call[c].restored => ~worker[c].foreign]_vars
    BY ReturnStep
  <1> QED
    BY WorkerHolds, <1>1, PTL DEF Spec, ResultIsOfItsCode

\* On every way out of a call its group is dead and reaped, its pipes are closed
\* and its permit is back.
THEOREM NothingIsLeft == Spec => []EndedCallsLeaveNothing
  <1>1. WorkerInv => EndedCallsLeaveNothing
    BY DEF WorkerInv, EndedCallsLeaveNothing, Busy, PcIs, Sound, Alive, Framed
  <1> QED
    BY WorkerHolds, <1>1, PTL

=============================================================================
