--------------------------- MODULE ShadowCampaign ----------------------------
(***************************************************************************)
(* One shadow campaign in the registry database: ShadowStore's             *)
(* create_campaign, transition, seal_batch and append_outcome              *)
(* (packages/signalattice/src/quant_platform/shadow/store.py) with the     *)
(* triggers and unique indexes of tracking/migrations.py.                  *)
(*                                                                         *)
(* Every call opens its own connection.  A read outside a transaction and  *)
(* a write transaction are a step each: another writer may come between.   *)
(* A batch and its forecasts are inserted by one transaction, so a batch   *)
(* stands for its forecasts.                                               *)
(***************************************************************************)
EXTENDS Naturals, Sequences

CONSTANTS Writers,        \* connections at work
          Instants,       \* decision instants (as_of)
          Opinions,       \* contents a batch may have
          Labels,         \* realized labels
          Revisions,      \* outcome revisions
          MaxTransitions, \* bound: transitions recorded
          None

ASSUME BoundAssumption == MaxTransitions \in Nat

VARIABLES
    state,    \* the campaign's state, or None before it is created
    log,      \* its recorded transitions
    batch,    \* batch[i]: the opinion sealed for instant i, or None
    outcome,  \* outcome[i][r]: the label of revision r, or None
    pc,       \* pc[w]: what writer w does next
    call,     \* call[w]: what it was called with
    answer    \* answer[w]: how its last call ended

database == <<state, log, batch, outcome>>
vars     == <<database, pc, call, answer>>

States   == {"draft", "active", "sealed", "reconciling", "closed", "abandoned"}
Terminal == {"closed", "abandoned"}

ASSUME NoneAssumption == None \notin States \cup Opinions \cup Labels

\* ALLOWED_CAMPAIGN_TRANSITIONS
Allowed(s) ==
    CASE s = "draft"       -> {"active", "abandoned"}
      [] s = "active"      -> {"sealed", "abandoned"}
      [] s = "sealed"      -> {"reconciling", "abandoned"}
      [] s = "reconciling" -> {"closed", "abandoned"}
      [] OTHER             -> {}

Transition == [from : States, to : States]
Seal       == [instant : Instants, opinion : Opinions]
Outcome    == [instant : Instants, revision : Revisions, label : Labels]

Init ==
    /\ state = None
    /\ log = <<>>
    /\ batch = [i \in Instants |-> None]
    /\ outcome = [i \in Instants |-> [r \in Revisions |-> None]]
    /\ pc = [w \in Writers |-> "idle"]
    /\ call = [w \in Writers |-> None]
    /\ answer = [w \in Writers |-> "none"]

-----------------------------------------------------------------------------
\* Writer w goes on to point with the call c.
Calls(w, point, c) ==
    /\ pc[w] = "idle"
    /\ pc' = [pc EXCEPT ![w] = point]
    /\ call' = [call EXCEPT ![w] = c]
    /\ answer' = [answer EXCEPT ![w] = "none"]

Goes(w, from, to) ==
    /\ pc[w] = from
    /\ pc' = [pc EXCEPT ![w] = to]
    /\ UNCHANGED <<call, answer>>

Ends(w, from, how) ==
    /\ pc[w] = from
    /\ pc' = [pc EXCEPT ![w] = "idle"]
    /\ answer' = [answer EXCEPT ![w] = how]
    /\ UNCHANGED call

\* The writer's process dies; an open transaction is rolled back.
Crash(w) ==
    /\ pc[w] # "idle"
    /\ pc' = [pc EXCEPT ![w] = "idle"]
    /\ UNCHANGED <<database, call, answer>>

Create ==
    /\ state = None
    /\ state' = "draft"
    /\ UNCHANGED <<log, batch, outcome, pc, call, answer>>

-----------------------------------------------------------------------------
(* transition *)

\* The state is read and the transition is checked against it.
TransitionRead(w, target) ==
    /\ state # None
    /\ target \in Allowed(state)
    /\ Calls(w, "t_write", [from |-> state, to |-> target])
    /\ UNCHANGED database

\* Mutant: a write that finds another state is recorded and not made.
TransitionWrite_LogOnly(w) ==
    /\ Len(log) < MaxTransitions
    /\ state \notin Terminal
    /\ Ends(w, "t_write", "ok")
    /\ state' = IF state = call[w].from THEN call[w].to ELSE state
    /\ log' = Append(log, call[w])
    /\ UNCHANGED <<batch, outcome>>

\* State and record in one transaction; a trigger keeps terminal states.
TransitionWrite(w) ==
    /\ Len(log) < MaxTransitions
    /\ state \notin Terminal
    /\ Ends(w, "t_write", "ok")
    /\ state' = call[w].to
    /\ log' = Append(log, call[w])
    /\ UNCHANGED <<batch, outcome>>

TransitionFails(w) ==
    /\ state \in Terminal
    /\ Ends(w, "t_write", "error")
    /\ UNCHANGED database

-----------------------------------------------------------------------------
(* seal_batch *)

\* The campaign must be active when it is read.
SealRead(w, i, o) ==
    /\ state = "active"
    /\ Calls(w, "s_look", [instant |-> i, opinion |-> o])
    /\ UNCHANGED database

\* The stored batch of the instant: the same one, another one, or none.
SealLook(w) ==
    /\ pc[w] = "s_look"
    /\ LET stored == batch[call[w].instant] IN
          \/ stored = call[w].opinion /\ Ends(w, "s_look", "ok")
          \/ stored \notin {None, call[w].opinion} /\ Ends(w, "s_look", "conflict")
          \/ stored = None /\ Goes(w, "s_look", "s_insert")
    /\ UNCHANGED database

\* Mutant: the insert is skipped when the row exists.
SealInsert_Ignores(w) ==
    /\ Ends(w, "s_insert", "ok")
    /\ batch' = [batch EXCEPT ![call[w].instant] =
                    IF @ = None THEN call[w].opinion ELSE @]
    /\ UNCHANGED <<state, log, outcome>>

SealInsert(w) ==
    /\ pc[w] = "s_insert"
    /\ batch[call[w].instant] = None
    /\ Ends(w, "s_insert", "ok")
    /\ batch' = [batch EXCEPT ![call[w].instant] = call[w].opinion]
    /\ UNCHANGED <<state, log, outcome>>

\* UNIQUE(campaign, as_of): the integrity error reaches the caller.
SealFails(w) ==
    /\ pc[w] = "s_insert"
    /\ batch[call[w].instant] # None
    /\ Ends(w, "s_insert", "error")
    /\ UNCHANGED database

-----------------------------------------------------------------------------
(* append_outcome *)

OutcomeLook(w, i, r, l) ==
    /\ batch[i] # None
    /\ outcome[i][r] = None
    /\ Calls(w, "o_insert", [instant |-> i, revision |-> r, label |-> l])
    /\ UNCHANGED database

\* The revision exists: the same one, or a conflict.  Nothing is written.
OutcomeKnown(w, i, r, l) ==
    /\ pc[w] = "idle"
    /\ outcome[i][r] # None
    /\ answer' = [answer EXCEPT ![w] =
                     IF outcome[i][r] = l THEN "ok" ELSE "conflict"]
    /\ call' = [call EXCEPT ![w] = [instant |-> i, revision |-> r, label |-> l]]
    /\ UNCHANGED <<database, pc>>

OutcomeInsert(w) ==
    /\ pc[w] = "o_insert"
    /\ outcome[call[w].instant][call[w].revision] = None
    /\ Ends(w, "o_insert", "ok")
    /\ outcome' = [outcome EXCEPT ![call[w].instant][call[w].revision] =
                      call[w].label]
    /\ UNCHANGED <<state, log, batch>>

\* UNIQUE(forecast_id, revision).
OutcomeFails(w) ==
    /\ pc[w] = "o_insert"
    /\ outcome[call[w].instant][call[w].revision] # None
    /\ Ends(w, "o_insert", "error")
    /\ UNCHANGED database

-----------------------------------------------------------------------------
Next ==
    \/ Create
    \/ \E w \in Writers :
          \/ Crash(w)
          \/ \E target \in States : TransitionRead(w, target)
          \/ TransitionWrite(w) \/ TransitionFails(w)
          \/ \E i \in Instants, o \in Opinions : SealRead(w, i, o)
          \/ SealLook(w) \/ SealInsert(w) \/ SealFails(w)
          \/ \E i \in Instants, r \in Revisions, l \in Labels :
                OutcomeLook(w, i, r, l) \/ OutcomeKnown(w, i, r, l)
          \/ OutcomeInsert(w) \/ OutcomeFails(w)

Spec == Init /\ [][Next]_vars

-----------------------------------------------------------------------------
(* Properties *)

\* Every variable keeps to its range.
TypeOK ==
    /\ state \in States \cup {None}
    /\ log \in Seq(Transition) /\ Len(log) <= MaxTransitions
    /\ batch \in [Instants -> Opinions \cup {None}]
    /\ outcome \in [Instants -> [Revisions -> Labels \cup {None}]]
    /\ pc \in [Writers -> {"idle", "t_write", "s_look", "s_insert", "o_insert"}]
    /\ call \in [Writers -> Transition \cup Seal \cup Outcome \cup {None}]
    /\ answer \in [Writers -> {"none", "ok", "conflict", "error"}]

\* A campaign that was closed or abandoned stays so, whatever a writer read
\* before it was (ShadowStore.transition, migrations.py's trigger).
EndedCampaignsStay ==
    [][(state \in Terminal) => state' = state]_vars

\* What a writer was told is stored is stored, and stays: one decision instant
\* has one opinion although it is looked for before the transaction
\* (ShadowStore.seal_batch).
SealedMeansStored ==
    \A w \in Writers :
        /\ answer[w] = "ok" /\ call[w] \in Seal =>
               batch[call[w].instant] = call[w].opinion
        /\ answer[w] = "ok" /\ call[w] \in Outcome =>
               outcome[call[w].instant][call[w].revision] = call[w].label

\* Batches and outcome revisions are append-only, and an outcome never comes
\* before the forecast it scores (ShadowStore.append_outcome).
RecordsOnlyAppend ==
    [][\A i \in Instants :
          /\ batch[i] # None => batch'[i] = batch[i]
          /\ \A r \in Revisions :
                /\ outcome[i][r] # None => outcome'[i][r] = outcome[i][r]
                /\ outcome'[i][r] # None => batch[i] # None]_vars

\* The last recorded transition leads to the current state: the update and its
\* record are one transaction (ShadowStore.transition).
LogTellsState ==
    IF log = <<>> THEN state \in {None, "draft"} ELSE log[Len(log)].to = state

\* shadow/contracts.py:93-94: "Forward-only. There is no transition back to
\* ACTIVE from any later state": a change of state is a permitted transition.
ForwardOnly ==
    [][state' # state /\ state # None => state' \in Allowed(state)]_vars
=============================================================================
