---------------------------- MODULE StockLedger -----------------------------
(***************************************************************************)
(* Where every unit of every product is: on the shelf, in a reservation or *)
(* a sale, or in the hands of a handler that has taken it or has still to  *)
(* put it back.                                                            *)
(***************************************************************************)
EXTENDS OrderProperties

\* One token for every unit when each party x of a finite set holds held[x]
\* units, and how many tokens there are: the sum of the values of held.
Units(held) == UNION {{x} \X (1 .. held[x]) : x \in DOMAIN held}
Total(held) == Cardinality(Units(held))

\* While a compensating checkout returns the lines of its own order, the
\* returned ones no longer count although the order is still pending.
Compensated(o) ==
  UNION {Items(orders[o].lines) \ co[r].todo : r \in {q \in Requests :
           co[q].pc = "compensate" /\ co[q].order = o}}

\* Units an order in the collection accounts for.
OrderUnits(o, p) ==
  IF orders[o].status \in {"pending_payment", "placed"} /\ p \notin Compensated(o)
    THEN orders[o].lines[p] ELSE 0

\* Units a checkout holds outside the orders collection.
CheckoutUnits(r, p) ==
  CASE co[r].pc = "take" /\ p \notin co[r].todo -> co[r].lines[p]
    [] co[r].pc = "insert" -> co[r].lines[p]
    [] co[r].pc = "releaseTaken" /\ p \in co[r].todo -> co[r].lines[p]
    [] co[r].pc = "releaseOld" /\ p \in co[r].todo -> orders[co[r].order].lines[p]
    [] OTHER -> 0

\* Units a release loop of the webhook or the sweeper has still to return.
DeliveryUnits(d, p) ==
  IF wh[d].pc = "release" /\ p \in wh[d].todo
    THEN orders[wh[d].event.order].lines[p] ELSE 0
SweeperUnits(s, p) ==
  IF sw[s].pc = "release" /\ p \in sw[s].todo
    THEN orders[sw[s].order].lines[p] ELSE 0

UnitsOut(p) ==
  Total([o \in OrderIds |-> OrderUnits(o, p)])
    + Total([r \in Requests |-> CheckoutUnits(r, p)])
    + Total([d \in Deliveries |-> DeliveryUnits(d, p)])
    + Total([s \in Sweepers |-> SweeperUnits(s, p)])

\* No unit is ever created or lost while no call fails: stock is exactly
\* conserved through every interleaving of checkouts, callbacks, webhooks
\* and sweeps.
StockIsConserved ==
  \A p \in Products : stock[p] + UnitsOut(p) = InitialStock[p]

\* The shop never promises more units than it owns.  Failures may strand
\* units; they must not invent any.
NeverOversold ==
  \A p \in Products : stock[p] + UnitsOut(p) <= InitialStock[p]

=============================================================================
