------------------------------ MODULE Payments ------------------------------
(***************************************************************************)
(* The two paths by which a payment reaches an order and race each other:  *)
(* Service.ConfirmPayment, called by the shopper's browser                 *)
(* (internal/order/service.go), and Service.HandleWebhook, called by       *)
(* Razorpay (internal/order/webhook.go), over the payment_events           *)
(* collection (internal/order/events_repository.go).                       *)
(*                                                                         *)
(* cb[c] is callback c:  pc, the order it names, the status in its answer. *)
(* wh[d] is delivery handler d:  pc, the event it handles, and the lines   *)
(* its release loop has still to return.                                   *)
(*                                                                         *)
(* The callbacks and events are genuine (the HMAC checks are external), so *)
(* the branches that reject a bad signature are not reached.               *)
(***************************************************************************)
EXTENDS Razorpay

CONSTANTS
  Callbacks,     \* calls of ConfirmPayment
  Deliveries,    \* handlers that can process a delivery at the same time
  NoEvent

ASSUME PaymentsAssumption == NoEvent \notin Event

ASSUME FiniteDeliveries == IsFiniteSet(Deliveries)

VARIABLES
  cb,
  wh,
  events,        \* payment_events: absent, recorded (processed: false), processed
  confirmations  \* confirmation emails handed to the mail goroutine, per order

paymentVars == <<cb, wh, events, confirmations>>

CallbackPC == {"idle", "write", "effects", "reread", "answered", "refused"}
Callback == [pc : CallbackPC, order : OrderIds \cup {NoOrder}, answer : Status]

DeliveryPC == {"idle", "check", "dispatch", "fill", "effects", "release", "mark"}
Delivery == [pc : DeliveryPC, event : Event \cup {NoEvent}, todo : SUBSET Products]

PaymentsTypeOK ==
  /\ cb \in [Callbacks -> Callback]
  /\ wh \in [Deliveries -> Delivery]
  /\ events \in [Event -> {"absent", "recorded", "processed"}]
  /\ confirmations \in [OrderIds -> Nat]

IdleDelivery == [pc |-> "idle", event |-> NoEvent, todo |-> {}]

PaymentsInit ==
  /\ cb = [c \in Callbacks |-> [pc |-> "idle", order |-> NoOrder, answer |-> "absent"]]
  /\ wh = [d \in Deliveries |-> IdleDelivery]
  /\ events = [e \in Event |-> "absent"]
  /\ confirmations = [o \in OrderIds |-> 0]

\* What follows a MarkPlaced that modified the order: the confirmation is
\* handed to its own goroutine, then the shopper's cart is cleared; a failure
\* to clear it is logged.
PlacedEffects(o) ==
  /\ confirmations' = [confirmations EXCEPT ![o] = @ + 1]
  /\ \/ cart' = [cart EXCEPT ![orders[o].user] = EmptyBasket] /\ NoFailure
     \/ Fail("db") /\ UNCHANGED cart

-----------------------------------------------------------------------------
(* ConfirmPayment.                                                         *)

Answer(c, status) ==
  cb' = [cb EXCEPT ![c].pc = "answered", ![c].answer = status]

\* ByOrderID and the two checks on the status it read.
ReadOrder(c, o) ==
  /\ cb[c].pc = "idle"
  /\ Captured(o)
  /\ cb' = [cb EXCEPT ![c].order = o,
                      ![c].pc = CASE orders[o].status = "placed" -> "answered"
                                  [] IsPending(o) -> "write"
                                  [] OTHER -> "refused",
                      ![c].answer = IF orders[o].status = "placed" THEN "placed" ELSE @]
  /\ UNCHANGED <<wh, events, confirmations, co, razorpayVars, storeVars>>

\* Bug variant: the side effects do not depend on modified.
ConfirmPlacedAlways(c) ==
  /\ cb[c].pc = "write"
  /\ \E modified \in BOOLEAN :
       /\ MarkPlaced(cb[c].order, FALSE, modified)
       /\ cb' = [cb EXCEPT ![c].pc = "effects"]
  /\ UNCHANGED <<wh, events, confirmations, co, razorpayVars,
                 stock, cart, returns, faults>>

\* Bug variant: the test of modified is inverted.
ConfirmPlacedInverted(c) ==
  /\ cb[c].pc = "write"
  /\ \E modified \in BOOLEAN :
       /\ MarkPlaced(cb[c].order, FALSE, modified)
       /\ cb' = [cb EXCEPT ![c].pc = IF modified THEN "reread" ELSE "effects"]
  /\ UNCHANGED <<wh, events, confirmations, co, razorpayVars,
                 stock, cart, returns, faults>>

\* The guarded transition; the callback does not know the payment method.
ConfirmPlaced(c) ==
  /\ cb[c].pc = "write"
  /\ \E modified \in BOOLEAN :
       /\ MarkPlaced(cb[c].order, FALSE, modified)
       /\ cb' = [cb EXCEPT ![c].pc = IF modified THEN "effects" ELSE "reread"]
  /\ UNCHANGED <<wh, events, confirmations, co, razorpayVars,
                 stock, cart, returns, faults>>

ConfirmEffects(c) ==
  /\ cb[c].pc = "effects"
  /\ PlacedEffects(cb[c].order)
  /\ Answer(c, "placed")
  /\ UNCHANGED <<wh, events, co, razorpayVars, orders, stock, returns>>

\* Not modified: whatever the order is by now is answered, without an error.
ConfirmReread(c) ==
  /\ cb[c].pc = "reread"
  /\ Answer(c, orders[cb[c].order].status)
  /\ UNCHANGED <<wh, events, confirmations, co, razorpayVars, storeVars>>

\* A database error, or the request dies.
ConfirmFails(c) ==
  /\ cb[c].pc \in {"write", "effects", "reread"}
  /\ \/ cb[c].pc # "effects" /\ Fail("db")
     \/ Fail("stop")
  /\ cb' = [cb EXCEPT ![c].pc = "refused"]
  /\ UNCHANGED <<wh, events, confirmations, co, razorpayVars,
                 orders, stock, cart, returns>>

ConfirmStep(c) == ConfirmPlaced(c) \/ ConfirmEffects(c) \/ ConfirmReread(c)

ConfirmPaymentNext(c) ==
  (\E o \in OrderIds : ReadOrder(c, o)) \/ ConfirmStep(c) \/ ConfirmFails(c)

-----------------------------------------------------------------------------
(* HandleWebhook.                                                          *)

MoveTo(d, pc) == wh' = [wh EXCEPT ![d].pc = pc]

\* Bug variant: the event is inserted as processed.
DeliverProcessed(d, e) ==
  /\ wh[d].pc = "idle"
  /\ e \in emitted
  /\ IF events[e] = "absent"
       THEN /\ events' = [events EXCEPT ![e] = "processed"]
            /\ wh' = [wh EXCEPT ![d].pc = "dispatch", ![d].event = e]
       ELSE /\ wh' = [wh EXCEPT ![d].pc = "check", ![d].event = e]
            /\ UNCHANGED events
  /\ UNCHANGED <<cb, confirmations, co, razorpayVars, storeVars>>

\* InsertEvent: the insert decides whether this delivery is the first.
Deliver(d, e) ==
  /\ wh[d].pc = "idle"
  /\ e \in emitted
  /\ IF events[e] = "absent"
       THEN /\ events' = [events EXCEPT ![e] = "recorded"]
            /\ wh' = [wh EXCEPT ![d].pc = "dispatch", ![d].event = e]
       ELSE /\ wh' = [wh EXCEPT ![d].pc = "check", ![d].event = e]
            /\ UNCHANGED events
  /\ UNCHANGED <<cb, confirmations, co, razorpayVars, storeVars>>

\* Bug variant: every duplicate is taken for one already handled.
CheckEventSeen(d) ==
  /\ wh[d].pc = "check"
  /\ wh' = [wh EXCEPT ![d] = IdleDelivery]
  /\ acked' = acked \cup {wh[d].event}
  /\ UNCHANGED <<cb, events, confirmations, emitted, co, storeVars>>

\* GetEvent after a duplicate: a processed event is acknowledged, one that is
\* not was interrupted and is dispatched again.
CheckEvent(d) ==
  /\ wh[d].pc = "check"
  /\ IF events[wh[d].event] = "processed"
       THEN wh' = [wh EXCEPT ![d] = IdleDelivery] /\ acked' = acked \cup {wh[d].event}
       ELSE MoveTo(d, "dispatch") /\ UNCHANGED acked
  /\ UNCHANGED <<cb, events, confirmations, emitted, co, storeVars>>

\* Bug variant: payment.failed falls into the capture case.
DispatchCaptureAny(d) ==
  /\ wh[d].pc = "dispatch"
  /\ LET o == wh[d].event.order IN
       \E modified \in BOOLEAN :
         /\ MarkPlaced(o, TRUE, modified)
         /\ MoveTo(d, IF modified THEN "effects" ELSE "fill")
  /\ UNCHANGED <<cb, events, confirmations, co, razorpayVars,
                 stock, cart, returns, faults>>

\* handleWebhookCapture for payment.captured and order.paid.  The lookup reads
\* only fields that no later write changes, so it is one step with MarkPlaced.
\* An unknown order and a wrong amount are logged and count as dispatched.
DispatchCapture(d) ==
  /\ wh[d].pc = "dispatch"
  /\ wh[d].event.kind \in {"payment.captured", "order.paid"}
  /\ LET o == wh[d].event.order IN
       IF ByRazorpayOrderID(o) /\ o \notin Mispriced
         THEN \E modified \in BOOLEAN :
                /\ MarkPlaced(o, TRUE, modified)
                /\ MoveTo(d, IF modified THEN "effects" ELSE "fill")
         ELSE MoveTo(d, "mark") /\ UNCHANGED orders
  /\ UNCHANGED <<cb, events, confirmations, co, razorpayVars,
                 stock, cart, returns, faults>>

\* MarkPlaced modified nothing: record how the order was paid, if it is placed.
DispatchFill(d) ==
  /\ wh[d].pc = "fill"
  /\ \/ FillPaymentDetail(wh[d].event.order) /\ NoFailure
     \/ Fail("db") /\ UNCHANGED orders
  /\ MoveTo(d, "mark")
  /\ UNCHANGED <<cb, events, confirmations, co, razorpayVars, stock, cart, returns>>

DispatchEffects(d) ==
  /\ wh[d].pc = "effects"
  /\ PlacedEffects(wh[d].event.order)
  /\ MoveTo(d, "mark")
  /\ UNCHANGED <<cb, events, co, razorpayVars, orders, stock, returns>>

\* Bug variant: the reservation is released whether or not it was ours to end.
DispatchFailedBlind(d) ==
  /\ wh[d].pc = "dispatch"
  /\ wh[d].event.kind = "payment.failed"
  /\ LET o == wh[d].event.order IN
       IF ByRazorpayOrderID(o)
         THEN \E modified \in BOOLEAN :
                /\ MarkPaymentFailed(o, modified)
                /\ wh' = [wh EXCEPT ![d].pc = "release",
                                    ![d].todo = Items(orders[o].lines)]
         ELSE MoveTo(d, "mark") /\ UNCHANGED orders
  /\ UNCHANGED <<cb, events, confirmations, co, razorpayVars,
                 stock, cart, returns, faults>>

\* handleWebhookFailed for payment.failed: release only what we failed.
DispatchFailed(d) ==
  /\ wh[d].pc = "dispatch"
  /\ wh[d].event.kind = "payment.failed"
  /\ LET o == wh[d].event.order IN
       IF ByRazorpayOrderID(o)
         THEN \E modified \in BOOLEAN :
                /\ MarkPaymentFailed(o, modified)
                /\ wh' = [wh EXCEPT ![d].pc = IF modified THEN "release" ELSE "mark",
                                    ![d].todo = IF modified THEN Items(orders[o].lines)
                                                            ELSE {}]
         ELSE MoveTo(d, "mark") /\ UNCHANGED orders
  /\ UNCHANGED <<cb, events, confirmations, co, razorpayVars,
                 stock, cart, returns, faults>>

\* One turn of releaseLines.
DispatchRelease(d) ==
  /\ wh[d].pc = "release"
  /\ \E p \in wh[d].todo :
       /\ ReturnLine(wh[d].event.order, p)
       /\ wh' = [wh EXCEPT ![d].todo = @ \ {p},
                           ![d].pc = IF wh[d].todo = {p} THEN "mark" ELSE "release"]
  /\ UNCHANGED <<cb, events, confirmations, co, razorpayVars, orders, cart>>

\* MarkEventProcessed, whose failure is logged; the delivery is answered 200.
AckDelivery(d) ==
  /\ wh[d].pc = "mark"
  /\ \/ events' = [events EXCEPT ![wh[d].event] = "processed"] /\ NoFailure
     \/ Fail("db") /\ UNCHANGED events
  /\ wh' = [wh EXCEPT ![d] = IdleDelivery]
  /\ acked' = acked \cup {wh[d].event}
  /\ UNCHANGED <<cb, confirmations, emitted, co, orders, stock, cart, returns>>

\* A database error that is returned to Razorpay (GetEvent or the guarded
\* write), or the process dies: nothing is acknowledged, the event stays.
DeliveryFails(d) ==
  /\ \/ wh[d].pc \in {"check", "dispatch"} /\ Fail("db")
     \/ wh[d].pc # "idle" /\ Fail("stop")
  /\ wh' = [wh EXCEPT ![d] = IdleDelivery]
  /\ UNCHANGED <<cb, events, confirmations, co, razorpayVars,
                 orders, stock, cart, returns>>

DeliveryStep(d) ==
  \/ CheckEvent(d) \/ DispatchCapture(d) \/ DispatchFill(d) \/ DispatchEffects(d)
  \/ DispatchFailed(d) \/ DispatchRelease(d) \/ AckDelivery(d)

HandleWebhookNext(d) ==
  (\E e \in Event : Deliver(d, e)) \/ DeliveryStep(d) \/ DeliveryFails(d)

=============================================================================
