--------------------------- MODULE MCEventEngine ---------------------------
(* The instance of EventEngine that TLC checks.                            *)
EXTENDS EventEngine

Lots == {2, -1}
Market == [open |-> (0 :> 1 @@ 1 :> 2 @@ 2 :> 1), close |-> (0 :> 1 @@ 1 :> 1 @@ 2 :> 2)]

\* Queued ahead: an order of bar 1 that the target of bar 0 explains, and the
\* open mark of bar 2, true only while nothing has traded.
Ahead ==
    {[Event("submit", 1, 0, At("target", 0, 0)) EXCEPT !.order = 1, !.amount = 2],
     [Event("open", 2, 0, NoCause) EXCEPT !.amount = InitialCash, !.price = 1]}
=============================================================================
