---------------------------- MODULE Reservations ----------------------------
(***************************************************************************)
(* What the order service promises its shoppers, with none of the          *)
(* requests, callbacks, webhooks and sweepers that keep the promise: an    *)
(* order id is handed out once, a shopper holds one reservation at a time, *)
(* a reservation is sold at most once and only against money, one that has *)
(* ended stays ended, and a sale is confirmed at most once.  It is the     *)
(* statement of internal/order/model.go and repository.go with every       *)
(* guarded write taken for granted; OrderRefinement shows that the         *)
(* handlers, interleaved and failing, implement it.                        *)
(***************************************************************************)
EXTENDS Naturals

CONSTANTS
  Orders,      \* order ids
  Shoppers,
  NoShopper    \* holder of an order id nobody has been given

VARIABLES
  phase,       \* what an order is: "free", "held", "sold" or "ended"
  holder,      \* whose order it is
  paid,        \* the orders whose money has been taken
  confirmed    \* how many confirmations of each order were sent

shopVars == <<phase, holder, paid, confirmed>>

Open ==
  /\ phase = [o \in Orders |-> "free"]
  /\ holder = [o \in Orders |-> NoShopper]
  /\ paid = {}
  /\ confirmed = [o \in Orders |-> 0]

HeldBy(u) == {o \in Orders : phase[o] = "held" /\ holder[o] = u}

\* A checkout reserves under an id of its own.
Hold(o, u) ==
  /\ phase[o] = "free"
  /\ HeldBy(u) = {}
  /\ phase' = [phase EXCEPT ![o] = "held"]
  /\ holder' = [holder EXCEPT ![o] = u]
  /\ UNCHANGED <<paid, confirmed>>

\* Money is taken for an order; the payment sheet of an order that has ended
\* meanwhile may still take it.
Take(o) ==
  /\ phase[o] # "free"
  /\ o \notin paid
  /\ paid' = paid \cup {o}
  /\ UNCHANGED <<phase, holder, confirmed>>

Sell(o) ==
  /\ phase[o] = "held"
  /\ o \in paid
  /\ phase' = [phase EXCEPT ![o] = "sold"]
  /\ UNCHANGED <<holder, paid, confirmed>>

\* It lapses, is superseded, or its payment fails.
Release(o) ==
  /\ phase[o] = "held"
  /\ phase' = [phase EXCEPT ![o] = "ended"]
  /\ UNCHANGED <<holder, paid, confirmed>>

\* The one confirmation of a sale.
Confirm(o) ==
  /\ phase[o] = "sold"
  /\ confirmed[o] = 0
  /\ confirmed' = [confirmed EXCEPT ![o] = 1]
  /\ UNCHANGED <<phase, holder, paid>>

Deal(o) ==
  \/ \E u \in Shoppers : Hold(o, u)
  \/ Take(o) \/ Sell(o) \/ Release(o) \/ Confirm(o)

Trade == \E o \in Orders : Deal(o)

ShopSpec == Open /\ [][Trade]_shopVars

=============================================================================
