---------------------------- MODULE OrderService ----------------------------
(***************************************************************************)
(* The order service as cmd/api runs it: any number of OpenCheckout        *)
(* requests, ConfirmPayment callbacks, webhook deliveries and sweepers,    *)
(* interleaved between their database calls over one database, with the    *)
(* shopper's cart, the clock and Razorpay around them.                     *)
(***************************************************************************)
EXTENDS Payments, Sweeper

vars == <<orders, stock, cart, returns, faults, co, emitted, acked,
          cb, wh, events, confirmations, sw>>

TypeOK ==
  /\ StoreTypeOK
  /\ CheckoutTypeOK
  /\ RazorpayTypeOK
  /\ PaymentsTypeOK
  /\ SweeperTypeOK

Init ==
  /\ StoreInit
  /\ CheckoutInit
  /\ RazorpayInit
  /\ PaymentsInit
  /\ SweeperInit

Shopper(u) == EditCart(u) /\ UNCHANGED <<co, razorpayVars, paymentVars, sw>>

Clock(o) == Lapse(o) /\ UNCHANGED <<co, razorpayVars, paymentVars, sw>>

OpenCheckout(r) == OpenCheckoutNext(r) /\ UNCHANGED <<razorpayVars, paymentVars, sw>>

Pay(o) ==
  (CapturePayment(o) \/ DeclinePayment(o)) /\ UNCHANGED <<paymentVars, sw>>

ConfirmPayment(c) == ConfirmPaymentNext(c) /\ UNCHANGED sw

HandleWebhook(d) == HandleWebhookNext(d) /\ UNCHANGED sw

Sweep(s) == SweeperNext(s) /\ UNCHANGED <<co, razorpayVars, paymentVars>>

Next ==
  \/ \E u \in Users : Shopper(u)
  \/ \E o \in OrderIds : Clock(o) \/ Pay(o)
  \/ \E r \in Requests : OpenCheckout(r)
  \/ \E c \in Callbacks : ConfirmPayment(c)
  \/ \E d \in Deliveries : HandleWebhook(d)
  \/ \E s \in Sweepers : Sweep(s)

Spec == Init /\ [][Next]_vars

(***************************************************************************)
(* Fairness.  A started handler runs on unless it fails; the sweeper's     *)
(* ticker goes on firing; Razorpay redelivers an event until a delivery of *)
(* it is acknowledged.  Redelivery is strongly fair because the handlers   *)
(* are a bounded pool here and a goroutine per request in the code.        *)
(* Shoppers and the clock promise nothing.                                 *)
(***************************************************************************)
Redeliver(e) ==
  /\ e \notin acked
  /\ \E d \in Deliveries : Deliver(d, e) /\ UNCHANGED sw

Fairness ==
  /\ \A r \in Requests :
       WF_vars(RequestStep(r) /\ UNCHANGED <<razorpayVars, paymentVars, sw>>)
  /\ \A c \in Callbacks : WF_vars(ConfirmStep(c) /\ UNCHANGED sw)
  /\ \A d \in Deliveries : WF_vars(DeliveryStep(d) /\ UNCHANGED sw)
  /\ \A e \in Event : SF_vars(Redeliver(e))
  /\ \A s \in Sweepers :
       WF_vars(SweeperStep(s) /\ UNCHANGED <<co, razorpayVars, paymentVars>>)

FairSpec == Spec /\ Fairness

=============================================================================
