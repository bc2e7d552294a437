------------------------ MODULE ShadowCampaignProofs -------------------------
(***************************************************************************)
(* For any number of writers, instants and revisions: records only append, *)
(* what a writer was told is stored is stored, and an ended campaign stays *)
(* ended although every check is made before the transaction.              *)
(***************************************************************************)
EXTENDS ShadowCampaign, TLAPS

\* A writer about to write holds a call of that kind.
CallInv ==
    \A w \in Writers :
        /\ pc[w] = "t_write" => call[w] \in Transition
        /\ pc[w] \in {"s_look", "s_insert"} => call[w] \in Seal
        /\ pc[w] = "o_insert" => call[w] \in Outcome

CampaignInv == TypeOK /\ CallInv

-----------------------------------------------------------------------------
\* The three kinds of call are told apart.
LEMMA CallKinds ==
  /\ Transition \cap Seal = {}
  /\ Transition \cap Outcome = {}
  /\ Seal \cap Outcome = {}
  <1>1. \A x \in Transition : DOMAIN x = {"from", "to"}
    BY DEF Transition
  <1>2. \A x \in Seal : DOMAIN x = {"instant", "opinion"}
    BY DEF Seal
  <1>3. \A x \in Outcome : DOMAIN x = {"instant", "revision", "label"}
    BY DEF Outcome
  <1>4. /\ "from" \notin {"instant", "opinion"}
        /\ "from" \notin {"instant", "revision", "label"}
        /\ "opinion" \notin {"instant", "revision", "label"}
    OBVIOUS
  <1> QED
    BY <1>1, <1>2, <1>3, <1>4

\* A log that grows by one transition keeps its type.
LEMMA LogGrows ==
  ASSUME log \in Seq(Transition), NEW t \in Transition, Len(log) < MaxTransitions
  PROVE  Append(log, t) \in Seq(Transition) /\ Len(Append(log, t)) <= MaxTransitions
  BY BoundAssumption

\* The initial state has the types.
LEMMA InvInit == Init => CampaignInv
  <1>1. <<>> \in Seq(Transition) /\ Len(<<>>) = 0
    OBVIOUS
  <1> QED
    BY <1>1, BoundAssumption DEF Init, CampaignInv, TypeOK, CallInv

\* Every step keeps the types and the kinds of the calls.
LEMMA InvStep ==
  ASSUME CampaignInv, [Next]_vars PROVE CampaignInv'
  <1> USE DEF CampaignInv, TypeOK, CallInv, Calls, Goes, Ends, database
  <1>1. CASE Create
    BY <1>1 DEF Create, States
  <1>2. ASSUME NEW w \in Writers, Crash(w) PROVE CampaignInv'
    BY <1>2 DEF Crash
  <1>3. ASSUME NEW w \in Writers, NEW target \in States, TransitionRead(w, target)
        PROVE  CampaignInv'
    <2>1. [from |-> state, to |-> target] \in Transition
      BY <1>3, CallKinds DEF TransitionRead, Transition, Allowed
    <2> QED
      BY <1>3, <2>1 DEF TransitionRead
  <1>4. ASSUME NEW w \in Writers, TransitionWrite(w) PROVE CampaignInv'
    <2>1. call[w] \in Transition /\ call[w].to \in States
      BY <1>4 DEF TransitionWrite, Transition
    <2>2. log' \in Seq(Transition) /\ Len(log') <= MaxTransitions
      BY <1>4, <2>1, LogGrows DEF TransitionWrite
    <2> QED
      BY <1>4, <2>1, <2>2 DEF TransitionWrite
  <1>5. ASSUME NEW w \in Writers,
               TransitionFails(w) \/ SealFails(w) \/ OutcomeFails(w) \/ SealLook(w)
        PROVE  CampaignInv'
    BY <1>5 DEF TransitionFails, SealFails, OutcomeFails, SealLook
  <1>6. ASSUME NEW w \in Writers, NEW i \in Instants, NEW o \in Opinions,
               SealRead(w, i, o)
        PROVE  CampaignInv'
    <2>1. [instant |-> i, opinion |-> o] \in Seal
      BY DEF Seal
    <2> QED
      BY <1>6, <2>1 DEF SealRead
  <1>7. ASSUME NEW w \in Writers, SealInsert(w) PROVE CampaignInv'
    <2>1. call[w].instant \in Instants /\ call[w].opinion \in Opinions
      BY <1>7 DEF SealInsert, Seal
    <2> QED
      BY <1>7, <2>1 DEF SealInsert
  <1>8. ASSUME NEW w \in Writers, NEW i \in Instants, NEW r \in Revisions,
               NEW l \in Labels, OutcomeLook(w, i, r, l) \/ OutcomeKnown(w, i, r, l)
        PROVE  CampaignInv'
    <2>1. [instant |-> i, revision |-> r, label |-> l] \in Outcome
      BY DEF Outcome
    <2> QED
      BY <1>8, <2>1 DEF OutcomeLook, OutcomeKnown
  <1>9. ASSUME NEW w \in Writers, OutcomeInsert(w) PROVE CampaignInv'
    <2>1. /\ call[w].instant \in Instants /\ call[w].revision \in Revisions
          /\ call[w].label \in Labels
      BY <1>9 DEF OutcomeInsert, Outcome
    <2> QED
      BY <1>9, <2>1 DEF OutcomeInsert
  <1>10. CASE UNCHANGED vars
    BY <1>10 DEF vars
  <1> QED
    BY <1>1, <1>2, <1>3, <1>4, <1>5, <1>6, <1>7, <1>8, <1>9, <1>10 DEF Next

\* Every variable keeps to its range.
THEOREM TypesHold == Spec => []TypeOK
  <1>1. CampaignInv => TypeOK
    BY DEF CampaignInv
  <1> QED
    BY <1>1, InvInit, InvStep, PTL DEF Spec

\* Types and kinds of calls hold of every behaviour.
LEMMA InvHolds == Spec => []CampaignInv
  BY InvInit, InvStep, PTL DEF Spec

-----------------------------------------------------------------------------
\* What a step of writer w leaves of the records: the insert refuses a row
\* that exists.
LEMMA StepAppends ==
  ASSUME CampaignInv, [Next]_vars, NEW i \in Instants
  PROVE  /\ batch[i] # None => batch'[i] = batch[i]
         /\ \A r \in Revisions : outcome[i][r] # None => outcome'[i][r] = outcome[i][r]
  <1> USE DEF CampaignInv, TypeOK, CallInv, Calls, Goes, Ends, database
  <1>1. CASE UNCHANGED database
    BY <1>1
  <1>2. ASSUME NEW w \in Writers, SealInsert(w)
        PROVE  /\ batch[i] # None => batch'[i] = batch[i]
               /\ UNCHANGED outcome
    BY <1>2 DEF SealInsert
  <1>3. ASSUME NEW w \in Writers, OutcomeInsert(w)
        PROVE  /\ UNCHANGED batch
               /\ \A r \in Revisions :
                     outcome[i][r] # None => outcome'[i][r] = outcome[i][r]
    BY <1>3 DEF OutcomeInsert
  <1>4. ASSUME NEW w \in Writers, TransitionWrite(w)
        PROVE  UNCHANGED <<batch, outcome>>
    BY <1>4 DEF TransitionWrite
  <1>5. CASE Create
    BY <1>5 DEF Create
  <1>6. \/ UNCHANGED database \/ Create
        \/ \E w \in Writers : SealInsert(w) \/ OutcomeInsert(w) \/ TransitionWrite(w)
    BY DEF Next, vars, Crash, TransitionRead, TransitionFails, SealRead, SealLook,
       SealFails, OutcomeLook, OutcomeKnown, OutcomeFails
  <1> QED
    BY <1>1, <1>2, <1>3, <1>4, <1>5, <1>6

\* What the writers were told, and the order of forecast and outcome.
RecordInv ==
    /\ SealedMeansStored
    /\ \A w \in Writers : pc[w] = "o_insert" => batch[call[w].instant] # None
    /\ \A i \in Instants, r \in Revisions : outcome[i][r] # None => batch[i] # None

\* An outcome is inserted only where a forecast is.
LEMMA OutcomeFollows ==
  ASSUME CampaignInv, RecordInv, [Next]_vars,
         NEW i \in Instants, NEW r \in Revisions, outcome'[i][r] # None
  PROVE  batch[i] # None
  <1> USE DEF CampaignInv, TypeOK, CallInv, Calls, Goes, Ends, database
  <1>1. CASE UNCHANGED outcome
    BY <1>1 DEF RecordInv
  <1>2. ASSUME NEW w \in Writers, OutcomeInsert(w)
        PROVE  batch[i] # None
    BY <1>2 DEF OutcomeInsert, RecordInv
  <1>3. UNCHANGED outcome \/ \E w \in Writers : OutcomeInsert(w)
    BY DEF Next, vars, Crash, TransitionRead, TransitionFails, SealRead, SealLook,
       SealFails, OutcomeLook, OutcomeKnown, OutcomeFails, Create, SealInsert,
       TransitionWrite
  <1> QED
    BY <1>1, <1>2, <1>3

\* A step of writer w.
StepOf(w) ==
    \/ Crash(w)
    \/ \E target \in States : TransitionRead(w, target)
    \/ TransitionWrite(w) \/ TransitionFails(w)
    \/ \E i \in Instants, o \in Opinions : SealRead(w, i, o)
    \/ SealLook(w) \/ SealInsert(w) \/ SealFails(w)
    \/ \E i \in Instants, r \in Revisions, l \in Labels :
          OutcomeLook(w, i, r, l) \/ OutcomeKnown(w, i, r, l)
    \/ OutcomeInsert(w) \/ OutcomeFails(w)

\* A step of one writer changes neither call nor answer of another.
LEMMA OthersWait ==
  ASSUME CampaignInv, [Next]_vars, NEW v \in Writers
  PROVE  StepOf(v) \/ (pc'[v] = pc[v] /\ call'[v] = call[v] /\ answer'[v] = answer[v])
  <1>1. CASE Create \/ UNCHANGED vars
    BY <1>1 DEF Create, vars
  <1>2. ASSUME NEW w \in Writers, StepOf(w), w # v
        PROVE  pc'[v] = pc[v] /\ call'[v] = call[v] /\ answer'[v] = answer[v]
    BY <1>2 DEF CampaignInv, TypeOK, StepOf, Calls, Goes, Ends, Crash,
       TransitionRead, TransitionWrite, TransitionFails, SealRead, SealLook,
       SealInsert, SealFails, OutcomeLook, OutcomeKnown, OutcomeInsert, OutcomeFails
  <1>3. Next => Create \/ \E w \in Writers : StepOf(w)
    BY DEF Next, StepOf
  <1> QED
    BY <1>1, <1>2, <1>3

\* A step of one writer concerns what that writer was told.
LEMMA AnswersAreTrue ==
  ASSUME CampaignInv, RecordInv, [Next]_vars PROVE SealedMeansStored'
  <1> USE DEF CampaignInv, TypeOK, CallInv, Calls, Goes, Ends, database
  <1> SUFFICES ASSUME NEW v \in Writers, answer'[v] = "ok"
               PROVE  /\ call'[v] \in Seal =>
                            batch'[call'[v].instant] = call'[v].opinion
                      /\ call'[v] \in Outcome =>
                            outcome'[call'[v].instant][call'[v].revision]
                               = call'[v].label
    BY DEF SealedMeansStored
  <1>1. CASE answer[v] = "ok" /\ call'[v] = call[v]
    <2>1. ASSUME call[v] \in Seal
          PROVE  batch'[call[v].instant] = call[v].opinion
      <3>1. /\ call[v].instant \in Instants /\ call[v].opinion \in Opinions
            /\ batch[call[v].instant] = call[v].opinion
        BY <1>1, <2>1 DEF RecordInv, SealedMeansStored, Seal
      <3> QED
        BY <3>1, StepAppends, NoneAssumption
    <2>2. ASSUME call[v] \in Outcome
          PROVE  outcome'[call[v].instant][call[v].revision] = call[v].label
      <3>1. /\ call[v].instant \in Instants /\ call[v].revision \in Revisions
            /\ call[v].label \in Labels
            /\ outcome[call[v].instant][call[v].revision] = call[v].label
        BY <1>1, <2>2 DEF RecordInv, SealedMeansStored, Outcome
      <3> QED
        BY <3>1, StepAppends, NoneAssumption
    <2> QED
      BY <1>1, <2>1, <2>2
  <1>2. CASE TransitionWrite(v)
    BY <1>2, CallKinds DEF TransitionWrite
  <1>3. CASE SealLook(v)
    <2>1. /\ call[v] \in Seal /\ call' = call /\ batch' = batch
          /\ batch[call[v].instant] = call[v].opinion
      BY <1>3, <1>1 DEF SealLook
    <2> QED
      BY <2>1, CallKinds
  <1>7. CASE SealInsert(v)
    <2>1. call[v] \in Seal /\ call' = call /\ call[v].instant \in Instants
      BY <1>7 DEF SealInsert, Seal
    <2> QED
      BY <1>7, <2>1, CallKinds DEF SealInsert
  <1>4. CASE OutcomeInsert(v)
    BY <1>4, CallKinds DEF OutcomeInsert, Outcome
  <1>5. CASE \E i \in Instants, r \in Revisions, l \in Labels :
                OutcomeKnown(v, i, r, l)
    <2>1. PICK i \in Instants, r \in Revisions, l \in Labels :
                OutcomeKnown(v, i, r, l)
      BY <1>5
    <2>2. [instant |-> i, revision |-> r, label |-> l] \in Outcome
      BY DEF Outcome
    <2>3. outcome[i][r] = l /\ UNCHANGED outcome
          /\ call'[v] = [instant |-> i, revision |-> r, label |-> l]
      BY <2>1 DEF OutcomeKnown
    <2> QED
      BY <2>2, <2>3, CallKinds
  <1>6. \/ answer[v] = "ok" /\ call'[v] = call[v]
        \/ TransitionWrite(v) \/ SealLook(v) \/ SealInsert(v) \/ OutcomeInsert(v)
        \/ \E i \in Instants, r \in Revisions, l \in Labels :
              OutcomeKnown(v, i, r, l)
    <2>1. CASE StepOf(v)
      BY <2>1 DEF StepOf, Crash, TransitionRead, TransitionFails, SealRead,
         SealFails, OutcomeLook, OutcomeFails
    <2> QED
      BY <2>1, OthersWait
  <1> QED
    BY <1>1, <1>2, <1>3, <1>4, <1>5, <1>6, <1>7

\* Nothing is recorded at first and nobody was told anything.
LEMMA RecordInit == Init => RecordInv
  BY DEF Init, RecordInv, SealedMeansStored

\* Every step keeps the record invariant.
LEMMA RecordStep ==
  ASSUME CampaignInv, RecordInv, [Next]_vars PROVE RecordInv'
  <1>1. SealedMeansStored'
    BY AnswersAreTrue
  <1>2. ASSUME NEW i \in Instants, NEW r \in Revisions, outcome'[i][r] # None
        PROVE  batch'[i] # None
    BY <1>2, OutcomeFollows, StepAppends
  <1>3. ASSUME NEW w \in Writers, pc'[w] = "o_insert"
        PROVE  batch'[call'[w].instant] # None
    <2>1. CASE pc[w] = "o_insert" /\ call'[w] = call[w]
      <3>1. call[w].instant \in Instants
        BY <2>1 DEF CampaignInv, CallInv, Outcome
      <3> QED
        BY <2>1, <3>1, StepAppends DEF RecordInv
    <2>2. ASSUME NEW i \in Instants, NEW r \in Revisions, NEW l \in Labels,
                 OutcomeLook(w, i, r, l)
          PROVE  batch'[call'[w].instant] # None
      BY <2>2 DEF OutcomeLook, Calls, database, CampaignInv, TypeOK
    <2>3. \/ pc[w] = "o_insert" /\ call'[w] = call[w]
          \/ \E i \in Instants, r \in Revisions, l \in Labels :
                OutcomeLook(w, i, r, l)
      <3>1. CASE StepOf(w)
        BY <1>3, <3>1 DEF CampaignInv, TypeOK, Calls, Goes, Ends, StepOf, Crash,
           TransitionRead, TransitionFails, SealRead, SealLook, SealFails,
           OutcomeKnown, OutcomeFails, SealInsert, TransitionWrite, OutcomeInsert
      <3> QED
        BY <1>3, <3>1, OthersWait
    <2> QED
      BY <2>1, <2>2, <2>3
  <1> QED
    BY <1>1, <1>2, <1>3 DEF RecordInv

\* The invariants hold of every behaviour.
LEMMA RecordsHold == Spec => [](CampaignInv /\ RecordInv)
  BY InvInit, InvStep, RecordInit, RecordStep, PTL DEF Spec

-----------------------------------------------------------------------------
\* What a writer was told is stored is stored and stays, however many writers
\* look for the batch before one of them inserts it (ShadowStore.seal_batch,
\* append_outcome, the unique indexes).
THEOREM WhatIsSealedStays == Spec => []SealedMeansStored
  <1>1. RecordInv => SealedMeansStored
    BY DEF RecordInv
  <1> QED
    BY <1>1, RecordsHold, PTL

\* Batches and outcomes only append, and an outcome follows its forecast.
THEOREM RecordsAreAppended == Spec => RecordsOnlyAppend
  <1>1. CampaignInv /\ RecordInv /\ [Next]_vars =>
          [\A i \in Instants :
              /\ batch[i] # None => batch'[i] = batch[i]
              /\ \A r \in Revisions :
                    /\ outcome[i][r] # None => outcome'[i][r] = outcome[i][r]
                    /\ outcome'[i][r] # None => batch[i] # None]_vars
    BY StepAppends, OutcomeFollows
  <1> QED
    BY <1>1, RecordsHold, PTL DEF Spec, RecordsOnlyAppend

\* A closed or abandoned campaign stays so although each writer checked an
\* earlier state (ShadowStore.transition, the trigger).
THEOREM EndIsFinal == Spec => EndedCampaignsStay
  <1>1. [Next]_vars => [(state \in Terminal) => state' = state]_vars
    <2> SUFFICES ASSUME Next, state \in Terminal PROVE state' = state
      OBVIOUS
    <2> QED
      BY NoneAssumption DEF Next, States, Terminal, database, Crash, TransitionRead,
         TransitionFails, SealRead, SealLook, SealFails, OutcomeLook, OutcomeKnown,
         OutcomeFails, Create, SealInsert, TransitionWrite, OutcomeInsert
  <1> QED
    BY <1>1, PTL DEF Spec, EndedCampaignsStay

\* A write records the transition that leads to the state it leaves, and a
\* campaign without a record is as it was created.
LEMMA LogStep ==
  ASSUME CampaignInv, LogTellsState, [Next]_vars PROVE LogTellsState'
  <1> USE DEF CampaignInv, TypeOK, CallInv
  <1>1. CASE UNCHANGED <<state, log>>
    BY <1>1 DEF LogTellsState
  <1>2. CASE Create
    <2>1. log = <<>>
      <3> SUFFICES ASSUME log # <<>> PROVE FALSE
        OBVIOUS
      <3>1. log[Len(log)] \in Transition
        OBVIOUS
      <3>2. log[Len(log)].to \in States
        BY <3>1 DEF Transition
      <3> QED
        BY <1>2, <3>2, NoneAssumption DEF LogTellsState, Create
    <2> QED
      BY <1>2, <2>1 DEF Create, LogTellsState
  <1>3. ASSUME NEW w \in Writers, TransitionWrite(w) PROVE LogTellsState'
    <2>1. /\ call[w] \in Transition /\ state' = call[w].to
          /\ log' = Append(log, call[w])
      BY <1>3 DEF TransitionWrite, Ends
    <2>2. log' # <<>> /\ log'[Len(log')] = call[w]
      BY <2>1
    <2> QED
      BY <2>1, <2>2 DEF LogTellsState
  <1>4. \/ UNCHANGED <<state, log>> \/ Create
        \/ \E w \in Writers : TransitionWrite(w)
    BY DEF Next, vars, database, Crash, TransitionRead, TransitionFails,
       SealRead, SealLook, SealInsert, SealFails, OutcomeLook, OutcomeKnown,
       OutcomeInsert, OutcomeFails
  <1> QED
    BY <1>1, <1>2, <1>3, <1>4

\* The last recorded transition leads to the current state, whichever writer
\* wrote it and whatever it had read (ShadowStore.transition).
THEOREM LogLeadsToState == Spec => []LogTellsState
  <1>1. Init => LogTellsState
    BY DEF Init, LogTellsState
  <1> QED
    BY <1>1, LogStep, InvHolds, PTL DEF Spec
=============================================================================
