--------------------------- MODULE MCMonthlyState ---------------------------
(* Instances of MonthlyState for TLC. *)
EXTENDS MonthlyState

\* Two products of one client in scope, one that is not of M90.
MCBase ==
  <<[prod |-> "p1", doc |-> "d1", cajon |-> "M90", puro |-> TRUE, deuda |-> 3],
    [prod |-> "p2", doc |-> "d1", cajon |-> "M90", puro |-> TRUE, deuda |-> 2],
    [prod |-> "p3", doc |-> "d2", cajon |-> "M60", puro |-> TRUE, deuda |-> 2]>>

\* Two plans of a product, one without product and a product that left.
MCPlanRows ==
  {[prod |-> "p1", doc |-> "d1", cajon |-> "M90", cuotas |-> 3, deuda |-> 4],
   [prod |-> "p1", doc |-> "d1", cajon |-> "M60", cuotas |-> 6, deuda |-> 3],
   [prod |-> "", doc |-> "d1", cajon |-> "M90", cuotas |-> 6, deuda |-> 2],
   [prod |-> "p2", doc |-> "d1", cajon |-> "CAN", cuotas |-> 3, deuda |-> 0]}

\* A partial payment in scope, one that leaves the scope, a recovered client.
MCPayRows ==
  {[prod |-> "p1", asig |-> "M90", actual |-> "M60", recupero |-> "", importe |-> 1, dt |-> NoAmount],
   [prod |-> "p1", asig |-> "M90", actual |-> "M30", recupero |-> "", importe |-> 1, dt |-> 1],
   [prod |-> "p2", asig |-> "M90", actual |-> "", recupero |-> "SI", importe |-> 2, dt |-> NoAmount]}
=============================================================================
