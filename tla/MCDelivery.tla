----------------------------- MODULE MCDelivery -----------------------------
EXTENDS Delivery

MCAlerts == 1..MaxRecords

(* The agent's key bound once, bound twice, and not at all.                *)
MCKeyFiles ==
  { [world |-> FALSE, lines |-> << <<"web", "k1">> >>],
    [world |-> FALSE, lines |-> << <<"web", "k1">>, <<"db", "k1">> >>],
    [world |-> FALSE, lines |-> << <<"db", "k2">> >>] }
=============================================================================
