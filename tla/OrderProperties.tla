-------------------------- MODULE OrderProperties ---------------------------
(***************************************************************************)
(* What the order service promises, stated over its whole composition.     *)
(***************************************************************************)
EXTENDS OrderService

\* At most one live reservation per shopper, whatever double clicks, sweeps
\* and gateway failures do (repository.go, index 5 of EnsureIndexes).
OnePendingPerUser ==
  \A u \in Users : \A o1, o2 \in PendingOf(u) : o1 = o2

\* A placed order was paid for: no path places an order whose money has not
\* been captured.
PlacedWasPaid ==
  \A o \in OrderIds : orders[o].status = "placed" => Captured(o)

\* The units of a placed order are never put back on the shelf, neither by
\* the sweeper, nor by a failed payment, nor by a checkout that compensates
\* ("releasing then would hand back units that a paid order already owns").
PlacedKeepsItsUnits ==
  \A o \in OrderIds : orders[o].status = "placed" =>
    \A p \in Products : returns[o][p] = 0

\* Each line of an order is put back at most once, however many parties try
\* to end the reservation.
ReturnedAtMostOnce ==
  \A o \in OrderIds, p \in Products : returns[o][p] <= 1

\* The confirmation email and the cart clear happen at most once per order,
\* across the callback, the webhook and every redelivery, and only for an
\* order that is placed.
ConfirmedOnce ==
  \A o \in OrderIds :
    /\ confirmations[o] <= 1
    /\ confirmations[o] = 1 => orders[o].status = "placed"

\* A captured payment always finds its order by Razorpay's id: the id is
\* committed before the shopper can pay, so no capture is dropped as unknown.
CaptureFindsItsOrder ==
  \A e \in emitted : ByRazorpayOrderID(e.order)

\* processed "reliably indicates that the business transition has been
\* applied" (events_repository.go): a processed event left nothing pending,
\* unless its amount was refused.
ProcessedMeansApplied ==
  \A e \in Event :
    events[e] = "processed" =>
      ~IsPending(e.order) \/ e.order \in Mispriced

\* An order that left pending_payment never changes status again: of the
\* callback, the webhook, the sweeper and a new checkout, one wins for good.
SettledIsFinal ==
  [][\A o \in OrderIds :
       orders[o].status \in {"placed", "payment_failed", "expired"} =>
         orders'[o].status = orders[o].status]_vars

\* Units go back on the shelf only for an order whose reservation has ended.
\* (It does not hold of a checkout that compensates: see the README.)
ReturnsFollowTheEnd ==
  [][\A o \in OrderIds :
       returns'[o] # returns[o] => orders[o].status \in {"payment_failed", "expired"}]_vars

\* A recorded payment method is never lost or recorded for an unpaid order.
MethodIsKept ==
  [][\A o \in OrderIds : orders[o].method =>
       orders'[o].method /\ orders'[o].status = "placed"]_vars

-----------------------------------------------------------------------------
(* Liveness, under FairSpec.                                               *)

\* A lapsed reservation does not hold its stock for ever.
LapsedIsEnded ==
  \A o \in OrderIds : (IsPending(o) /\ orders[o].lapsed) ~> ~IsPending(o)

\* A captured payment is applied: its order does not stay pending even when
\* the browser never calls back and deliveries fail or are repeated.
CaptureIsApplied ==
  \A o \in OrderIds : (Captured(o) /\ o \notin Mispriced) ~> ~IsPending(o)

\* While no call fails and no process dies, every placed order is confirmed
\* by email, by whichever path won it.
PlacedIsConfirmed ==
  [](faults = 0) => \A o \in OrderIds : orders[o].status = "placed" ~> confirmations[o] = 1

\* A placed order gets its payment method even when the callback, which does
\* not know it, won the race and one call fails or dies: order.paid repeats
\* what payment.captured carries.  Two failed writes can lose it, because a
\* FillPaymentDetail that fails is logged and the event acknowledged.
PlacedGetsItsMethod ==
  [](faults <= 1) =>
    \A o \in OrderIds :
      (orders[o].status = "placed" /\ o \notin Mispriced) ~> orders[o].method

-----------------------------------------------------------------------------
(* What the documentation says and the code does not do.                   *)

\* "200 the order, now placed" (roadmap.md) and "it means the order was
\* already placed by the other path" (repository.go): a callback that is
\* answered without an error shows a placed order.
AnswerIsPlaced ==
  \A c \in Callbacks : cb[c].pc = "answered" => cb[c].answer = "placed"

\* "Placed ... orders are complete purchases: PlacedAt, payment method and
\* payment capturedAt must all be present" (Order.Validate, model.go).
PlacedHasMethod ==
  \A o \in OrderIds : orders[o].status = "placed" => orders[o].method

\* "Razorpay keeps the modal open for a retry" (useShop.ts): a declined
\* attempt does not cost the shopper the order, so with no lapse and no other
\* checkout a captured payment is never met by a failed order.
RetryAfterDeclineIsHonoured ==
  \A o \in OrderIds :
    orders[o].status = "payment_failed" => ~Captured(o)

=============================================================================
