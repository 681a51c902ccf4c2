------------------------------ MODULE MCBilling ------------------------------
(* Small instances of Billing for TLC. *)
EXTENDS BillingInv

CONSTANTS u1, u2, pro, plus

\* Everything is bought by u1; the second payment, where there is one, upgrades.
AllOfU1 == [p \in Payment |-> u1]
OneEach == [p \in Payment |-> IF p = 1 THEN u1 ELSE u2]
Upgrade == [p \in Payment |-> IF p = 1 THEN pro ELSE plus]
Renewal == [p \in Payment |-> pro]

Gateway == [p \in Payment |-> "gateway"]
Card == [p \in Payment |-> "card"]
Stars == [p \in Payment |-> "stars"]
StarsThenCard == [p \in Payment |-> IF p = 1 THEN "stars" ELSE "card"]
GatewayThenCard == [p \in Payment |-> IF p = 1 THEN "gateway" ELSE "card"]

TwoDays == [pl \in Plan |-> 2]
OneDay == [pl \in Plan |-> 1]
Prices == [pl \in Plan |-> IF pl = pro THEN 2 ELSE 3]
==============================================================================
