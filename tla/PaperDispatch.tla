---------------------------- MODULE PaperDispatch ----------------------------
(***************************************************************************)
(* What paper trading promises about an order, whatever its worker, the    *)
(* network, the broker and the operator do: it is intended while no other  *)
(* order is unsettled, sent at most once, by the operation that intended   *)
(* it and not once the stop was seen, and the journal learns of it only    *)
(* what the broker reported, up to the last word.  This is the contract of *)
(* Engine.cycle and Engine.reconcile (signal_foundry/trading/engine.py)    *)
(* over the broker; PaperEngine implements it.                             *)
(***************************************************************************)
EXTENDS Integers

CONSTANTS Keys          \* client order ids

VARIABLES phase,        \* phase[k]: how far order k is
          size,         \* size[k]: units ordered
          filled,       \* filled[k]: units traded at the broker
          known,        \* known[k]: the journal's knowledge: nothing, open or final
          told,         \* told[k]: units the journal knows to be filled
          stopped       \* the persistent stop

vars == <<phase, size, filled, known, told, stopped>>

Init ==
    /\ phase = [k \in Keys |-> "none"]
    /\ size = [k \in Keys |-> 0]
    /\ filled = [k \in Keys |-> 0]
    /\ known = [k \in Keys |-> "nothing"]
    /\ told = [k \in Keys |-> 0]
    /\ stopped = FALSE

-----------------------------------------------------------------------------
(* The operation *)

\* Every order ever intended has its final report in the journal.
AllSettled == \A k \in Keys : phase[k] = "none" \/ known[k] = "final"

Intend(k) ==
    /\ phase[k] = "none" /\ AllSettled
    /\ phase' = [phase EXCEPT ![k] = "intended"]
    /\ size' = [size EXCEPT ![k] = size'[k]] /\ size'[k] > 0
    /\ UNCHANGED <<filled, known, told, stopped>>

\* How an order gets from one phase to the next when nothing else changes.
Moves(k, from, to) ==
    /\ phase[k] \in from
    /\ \E p \in to : phase' = [phase EXCEPT ![k] = p]
    /\ UNCHANGED <<size, filled, known, told, stopped>>

\* The last look at the stop.
Clear(k) == ~stopped /\ Moves(k, {"intended"}, {"cleared"})

Send(k) == Moves(k, {"cleared"}, {"sent"})

\* The operation ends before the request: the order is never sent.
Drop(k) == Moves(k, {"intended", "cleared"}, {"dropped"})

\* A report of the order as it is, or as it was when it was accepted.
Learn(k) ==
    /\ phase[k] \in {"working", "done"} /\ known[k] # "final"
    /\ \/ /\ known[k] = "nothing"
          /\ known' = [known EXCEPT ![k] = "open"]
          /\ UNCHANGED told
       \/ /\ known' = [known EXCEPT ![k] = IF phase[k] = "done" THEN "final" ELSE "open"]
          /\ told' = [told EXCEPT ![k] = filled[k]]
    /\ UNCHANGED <<phase, size, filled, stopped>>

-----------------------------------------------------------------------------
(* The operator, the network and the broker *)

Stop == stopped' = TRUE /\ UNCHANGED <<phase, size, filled, known, told>>

Arrive(k) == Moves(k, {"sent"}, {"working", "done"})
Lose(k)   == Moves(k, {"sent"}, {"lost"})
Close(k)  == Moves(k, {"working"}, {"done"})

Trade(k) ==
    /\ phase[k] = "working" /\ filled[k] < size[k]
    /\ filled' = [filled EXCEPT ![k] = @ + 1]
    /\ phase' = [phase EXCEPT ![k] = IF filled[k] + 1 < size[k] THEN @ ELSE "done"]
    /\ UNCHANGED <<size, known, told, stopped>>

Next ==
    \/ Stop
    \/ \E k \in Keys :
          \/ Intend(k) \/ Clear(k) \/ Send(k) \/ Drop(k) \/ Learn(k)
          \/ Arrive(k) \/ Lose(k) \/ Trade(k) \/ Close(k)

Spec == Init /\ [][Next]_vars
=============================================================================
