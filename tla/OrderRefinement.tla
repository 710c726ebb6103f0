--------------------------- MODULE OrderRefinement ---------------------------
(***************************************************************************)
(* The order service, with its requests, callbacks, deliveries, sweepers   *)
(* and failures, implements Reservations: every step of a handler is one   *)
(* deal of the abstract shop, or none.                                     *)
(***************************************************************************)
EXTENDS OrderInvariants

\* What a document's status says of the reservation: payment_failed and
\* expired are two ways to end.
PhaseOf(o) ==
  CASE orders[o].status = "absent" -> "free"
    [] orders[o].status = "pending_payment" -> "held"
    [] orders[o].status = "placed" -> "sold"
    [] OTHER -> "ended"

Shop == INSTANCE Reservations WITH
  Orders <- OrderIds,
  Shoppers <- Users,
  NoShopper <- NoUser,
  phase <- [o \in OrderIds |-> PhaseOf(o)],
  holder <- [o \in OrderIds |-> orders[o].user],
  paid <- {o \in OrderIds : Captured(o)},
  confirmed <- confirmations

\* The whole service implements the abstract shop: whatever order the handlers
\* of one order meet in, they leave one holder, one sale against money taken
\* and one confirmation (service.go, webhook.go, sweeper.go together).
KeepsItsPromise == Shop!ShopSpec

\* A checkout that still has an order to insert knows its shopper.
ShopperKnown ==
  \A r \in Requests :
    co[r].pc \in {"expire", "releaseOld", "take", "insert"} => co[r].user \in Users

=============================================================================
