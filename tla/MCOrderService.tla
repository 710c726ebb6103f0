--------------------------- MODULE MCOrderService ---------------------------
(***************************************************************************)
(* Values for model-checking the order service.                            *)
(***************************************************************************)
EXTENDS StockLedger, OrderRefinement, TLC

CONSTANTS u1, u2, p1, p2, o1, o2, o3

\* Requests, shoppers, handlers and, unless a constant tells them apart, order
\* ids are interchangeable (safety runs).
Symmetry ==
  Permutations(Requests) \cup Permutations(Users) \cup Permutations(Callbacks)
    \cup Permutations(Deliveries)
    \cup (IF Mispriced = {} /\ Payable \in {{}, OrderIds}
             THEN Permutations(OrderIds) ELSE {})

\* One shopper buying two of one product, the last two in the shop.
OneProduct == {p1}
TwoUnits == (p1 :> 2)
BuyTwo == {p1 :> 2}

\* Two products, one unit of the second: carts that compete for it.
TwoProducts == {p1, p2}
ScarceStock == (p1 :> 3) @@ (p2 :> 1)
MixedBaskets == {(p1 :> 2) @@ (p2 :> 1), (p1 :> 1) @@ (p2 :> 0)}

\* No capture, or that of o2, reports an amount other than the total.
NoMispricing == {}
MispricedO2 == {o2}

=============================================================================
