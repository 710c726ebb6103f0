------------------------------ MODULE Razorpay ------------------------------
(***************************************************************************)
(* The payment provider, as internal/order uses it (external).  A Razorpay *)
(* order can be paid once its id has reached the shopper, that is once an  *)
(* OpenCheckout has answered.  An attempt may fail and be retried in the   *)
(* same sheet; at most one attempt per order is captured.  Razorpay does   *)
(* not know that our reservation lapses.  Every event is delivered at      *)
(* least once, in any order, until a delivery is answered with a 2xx, and  *)
(* possibly again after that.                                              *)
(***************************************************************************)
EXTENDS OpenCheckout

CONSTANTS
  Payable,       \* bound: the orders whose shopper goes on to the payment sheet
  Mispriced      \* orders whose capture reports an amount that is not our total

ASSUME RazorpayAssumption == Payable \subseteq OrderIds /\ Mispriced \subseteq OrderIds

VARIABLES
  emitted,       \* events Razorpay has emitted
  acked          \* events some delivery of which was answered 2xx

EventKind == {"payment.captured", "order.paid", "payment.failed"}
Event == [kind : EventKind, order : OrderIds]

CaptureEvent(o) == [kind |-> "payment.captured", order |-> o]
PaidEvent(o) == [kind |-> "order.paid", order |-> o]
FailedEvent(o) == [kind |-> "payment.failed", order |-> o]

razorpayVars == <<emitted, acked>>

RazorpayTypeOK ==
  /\ emitted \subseteq Event
  /\ acked \subseteq Event

RazorpayInit ==
  /\ emitted = {}
  /\ acked = {}

\* The money for order o has been taken.
Captured(o) == CaptureEvent(o) \in emitted

\* A payment sheet is open for o.
SheetOpen(o) ==
  o \in Payable /\ \E r \in Requests : co[r].pc = "opened" /\ co[r].order = o

CapturePayment(o) ==
  /\ SheetOpen(o)
  /\ ~Captured(o)
  /\ emitted' = emitted \cup {CaptureEvent(o), PaidEvent(o)}
  /\ UNCHANGED <<acked, co, storeVars>>

\* An attempt is declined; the sheet stays open for another one.
DeclinePayment(o) ==
  /\ SheetOpen(o)
  /\ ~Captured(o)
  /\ emitted' = emitted \cup {FailedEvent(o)}
  /\ UNCHANGED <<acked, co, storeVars>>

=============================================================================
