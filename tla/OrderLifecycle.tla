---------------------------- MODULE OrderLifecycle ----------------------------
(***************************************************************************)
(* What the orders component promises, with no inventory in sight: an      *)
(* order takes its goods exactly once, when it is confirmed, gives them    *)
(* back exactly once, if it is cancelled after that, and never leaves      *)
(* DELIVERED or CANCELLED.  Module Orders implements it.                   *)
(***************************************************************************)
CONSTANT OrderIds

VARIABLES
  status,       \* status[o]: Order.Status, or "NONE" before the order exists
  goods         \* goods[o]: "none", "held" or "returned"

lifecycleVars == <<status, goods>>

Move(o, from, to) ==
  /\ status[o] \in from
  /\ status' = [status EXCEPT ![o] = to]

Init ==
  /\ status = [o \in OrderIds |-> "NONE"]
  /\ goods = [o \in OrderIds |-> "none"]

Draft(o) == Move(o, {"NONE"}, "DRAFT") /\ UNCHANGED goods

Take(o) ==
  /\ Move(o, {"DRAFT"}, "CONFIRMED")
  /\ goods[o] = "none"
  /\ goods' = [goods EXCEPT ![o] = "held"]

Progress(o) ==
  /\ Move(o, {"CONFIRMED"}, "PREPARED") \/ Move(o, {"PREPARED"}, "DELIVERED")
  /\ goods[o] = "held"
  /\ UNCHANGED goods

GiveBack(o) ==
  /\ Move(o, {"CONFIRMED", "PREPARED"}, "CANCELLED")
  /\ goods[o] = "held"
  /\ goods' = [goods EXCEPT ![o] = "returned"]

Drop(o) ==
  /\ Move(o, {"DRAFT"}, "CANCELLED")
  /\ goods[o] = "none"
  /\ UNCHANGED goods

Next == \E o \in OrderIds : Draft(o) \/ Take(o) \/ Progress(o) \/ GiveBack(o) \/ Drop(o)

Spec == Init /\ [][Next]_lifecycleVars
===============================================================================
