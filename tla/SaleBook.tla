------------------------------- MODULE SaleBook -------------------------------
(***************************************************************************)
(* What the sales component promises about the money and the goods of a    *)
(* sale: money comes in up to the price and no further, a sale that took   *)
(* money is never simply voided, a refund gives all of it back, once, and  *)
(* the goods of a direct sale are out exactly while the sale stands.       *)
(* Module Sales implements it.                                             *)
(***************************************************************************)
EXTENDS Naturals

CONSTANTS
  SaleIds,      \* sales that may be made
  Prices        \* prices a sale may have

VARIABLES
  book,         \* book[s]: "none", "open", "settled", "void" or "refunded"
  price,        \* price[s]: what the sale costs
  received,     \* received[s]: what was paid for it
  goods         \* goods[s]: "none", "out" or "back", of a direct sale

vars == <<book, price, received, goods>>

Init ==
  /\ book = [s \in SaleIds |-> "none"]
  /\ price = [s \in SaleIds |-> 0]
  /\ received = [s \in SaleIds |-> 0]
  /\ goods = [s \in SaleIds |-> "none"]

(* A sale of an order, whose goods left with the order.  One for nothing   *)
(* is settled; one for less than a cent has the price 0 and stays open.    *)
Open(s, p) ==
  /\ book[s] = "none"
  /\ \E b \in {"open", "settled"} :
       /\ b = "settled" => p = 0
       /\ book' = [book EXCEPT ![s] = b]
  /\ price' = [price EXCEPT ![s] = p]
  /\ UNCHANGED <<received, goods>>

(* A direct sale: paid and handed over at once.                            *)
SellDirectly(s, p) ==
  /\ book[s] = "none"
  /\ book' = [book EXCEPT ![s] = "settled"]
  /\ price' = [price EXCEPT ![s] = p]
  /\ received' = [received EXCEPT ![s] = p]
  /\ goods' = [goods EXCEPT ![s] = "out"]

Collect(s, a) ==
  /\ book[s] = "open"
  /\ received[s] + a <= price[s]
  /\ received' = [received EXCEPT ![s] = @ + a]
  /\ book' = [book EXCEPT ![s] = IF received[s] + a = price[s] THEN "settled" ELSE "open"]
  /\ UNCHANGED <<price, goods>>

Void(s) ==
  /\ book[s] = "open" /\ received[s] = 0
  /\ book' = [book EXCEPT ![s] = "void"]
  /\ UNCHANGED <<price, received, goods>>

Refund(s) ==
  /\ book[s] = "settled" /\ goods[s] = "out"
  /\ book' = [book EXCEPT ![s] = "refunded"]
  /\ goods' = [goods EXCEPT ![s] = "back"]
  /\ UNCHANGED <<price, received>>

Next ==
  \E s \in SaleIds :
    \/ \E p \in Prices : Open(s, p) \/ SellDirectly(s, p)
    \/ \E a \in 1..price[s] : Collect(s, a)
    \/ Void(s)
    \/ Refund(s)

Spec == Init /\ [][Next]_vars
==============================================================================
