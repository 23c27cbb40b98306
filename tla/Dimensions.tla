----------------------------- MODULE Dimensions -----------------------------
(* What the two models of an update, Economy and Distribution, have in       *)
(* common: the sectors in the order of their table, ITEM_MAX, and the bounds *)
(* on what happens between updates.                                          *)
EXTENDS Integers

CONSTANTS NSectors, ItemMax,
          MaxOrders, MaxUpdates      \* bounds on commands and updates

Sectors == 1..NSectors
=============================================================================
