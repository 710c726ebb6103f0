------------------------- MODULE OrderSafetyProofs --------------------------
(***************************************************************************)
(* The safety properties of the order service, for every value of the      *)
(* constants: any number of shoppers, requests, callbacks, deliveries,     *)
(* sweepers and failures.                                                  *)
(*                                                                         *)
(* The argument.  (1) TypeInv, one lemma per operator of the store and one *)
(* per handler; every other proof stands on it.  OrdersStep says once and  *)
(* for all how an order may evolve in one step; finality and the single    *)
(* reservation follow.                                                     *)
(* (2) InsertInv and PaidInv tie every payment to the one request that     *)
(* inserted and linked its order; a placed order was paid, and a capture   *)
(* finds its order.  (3) ReleaseInv and ReturnsInv say who may put units   *)
(* back; a placed order was answered to its shopper, so nobody may.        *)
(* (4) A handler that confirms won the guarded write of an order that was  *)
(* pending, so no other handler is about to confirm it and nobody has      *)
(* (ConfirmInv).  (5) With ShopperKnown, what a checkout inserts has a     *)
(* holder, so a step is a deal of Reservations or a stutter: it changes    *)
(* one order, or the money, or one confirmation.                           *)
(***************************************************************************)
EXTENDS OrderRefinement, TLAPS

-----------------------------------------------------------------------------
(* What one database call does to the types of the store.                  *)

LEMMA FailType ==
  ASSUME StoreTypeOK, NEW kind, Fail(kind)
  PROVE  faults' \in 0 .. MaxFaults
BY StoreAssumption DEF StoreTypeOK, Fail

\* Writing well-typed fields into one order keeps the collection well typed.
LEMMA StatusType ==
  ASSUME StoreTypeOK, NEW o \in OrderIds, NEW status \in Status,
         orders' = [orders EXCEPT ![o].status = status]
  PROVE  orders' \in [OrderIds -> Order]
BY DEF StoreTypeOK, Order

LEMMA CreateType ==
  ASSUME StoreTypeOK, NEW o \in OrderIds, NEW u \in Users \cup {NoUser},
         NEW lines \in [Products -> Nat], Create(o, u, lines)
  PROVE  orders' \in [OrderIds -> Order]
<1>1. Document("pending_payment", u, lines) \in Order
  BY DEF Document, Order, Status
<1> QED BY <1>1 DEF StoreTypeOK, Create

LEMMA MarkPlacedType ==
  ASSUME StoreTypeOK, NEW o \in OrderIds, NEW method \in BOOLEAN,
         NEW modified \in BOOLEAN, MarkPlaced(o, method, modified)
  PROVE  orders' \in [OrderIds -> Order]
<1>1. CASE modified
  <2>1. /\ orders[o] \in Order
        /\ [orders[o] EXCEPT !.status = "placed", !.method = method] \in Order
    BY DEF StoreTypeOK, Order, Status
  <2>2. orders' = [orders EXCEPT ![o] =
                     [orders[o] EXCEPT !.status = "placed", !.method = method]]
    BY <1>1 DEF StoreTypeOK, MarkPlaced
  <2> QED BY <2>1, <2>2 DEF StoreTypeOK
<1>2. CASE ~modified
  BY <1>2 DEF StoreTypeOK, MarkPlaced
<1> QED BY <1>1, <1>2

LEMMA FillPaymentDetailType ==
  ASSUME StoreTypeOK, NEW o \in OrderIds, FillPaymentDetail(o)
  PROVE  orders' \in [OrderIds -> Order]
BY DEF StoreTypeOK, FillPaymentDetail, Order

LEMMA MarkEndedType ==
  ASSUME StoreTypeOK, NEW o \in OrderIds, NEW modified \in BOOLEAN,
         MarkPaymentFailed(o, modified) \/ MarkExpired(o, modified)
  PROVE  orders' \in [OrderIds -> Order]
BY StatusType DEF StoreTypeOK, MarkPaymentFailed, MarkExpired, Status

LEMMA ExpirePendingType ==
  ASSUME StoreTypeOK, NEW u, NEW found, ExpirePendingForUser(u, found)
  PROVE  /\ orders' \in [OrderIds -> Order]
         /\ found # NoOrder => found \in OrderIds
BY StatusType DEF StoreTypeOK, ExpirePendingForUser, PendingOf, Status

LEMMA StockType ==
  ASSUME StoreTypeOK, NEW p \in Products, NEW qty \in Nat,
         TakeStock(p, qty) \/ ReturnStock(p, qty)
  PROVE  stock' \in [Products -> Nat]
BY DEF StoreTypeOK, TakeStock, ReturnStock

LEMMA ReturnLineType ==
  ASSUME StoreTypeOK, NEW o \in OrderIds, NEW p \in Products, ReturnLine(o, p)
  PROVE  /\ stock' \in [Products -> Nat]
         /\ returns' \in [OrderIds -> [Products -> Nat]]
         /\ faults' \in 0 .. MaxFaults
<1>1. orders[o].lines[p] \in Nat
  BY DEF StoreTypeOK, Order
<1>2. CASE /\ ReturnStock(p, orders[o].lines[p])
           /\ returns' = [returns EXCEPT ![o][p] = @ + 1]
           /\ NoFailure
  BY <1>1, <1>2, StockType DEF StoreTypeOK, NoFailure
<1>3. CASE Fail("return") /\ UNCHANGED <<stock, returns>>
  BY <1>3, FailType DEF StoreTypeOK
<1> QED BY <1>2, <1>3 DEF ReturnLine

\* The lines of a basket are products.
LEMMA ItemsType == ASSUME NEW basket PROVE Items(basket) \subseteq Products
BY DEF Items

LEMMA EmptyBasketType == EmptyBasket \in [Products -> Nat]
BY DEF EmptyBasket

-----------------------------------------------------------------------------
(* OpenCheckout.                                                           *)

LEMMA NotRunningType ==
  ASSUME NEW pc \in RequestPC, NEW o \in OrderIds \cup {NoOrder}
  PROVE  NotRunning(pc, o) \in Request
BY EmptyBasketType, CheckoutAssumption DEF NotRunning, Request

LEMMA GotoType ==
  ASSUME CheckoutTypeOK, CheckoutLocals, NEW r \in Requests, NEW pc \in RequestPC,
         NEW todo \in SUBSET Products, Goto(r, pc, todo),
         pc \in {"releaseOld", "gateway", "link", "compensate", "opened"} =>
           co[r].order \in OrderIds
  PROVE  CheckoutTypeOK' /\ CheckoutLocals'
<1>1. co' \in [Requests -> Request]
  BY DEF CheckoutTypeOK, Goto, Request
<1> QED BY <1>1 DEF CheckoutTypeOK, CheckoutLocals, Goto, Request

LEMMA RefuseType ==
  ASSUME CheckoutTypeOK, CheckoutLocals, NEW r \in Requests, Refuse(r)
  PROVE  CheckoutTypeOK' /\ CheckoutLocals'
<1>1. NotRunning("failed", NoOrder) \in Request
  BY NotRunningType DEF RequestPC
<1> QED BY <1>1 DEF CheckoutTypeOK, CheckoutLocals, Refuse, NotRunning

\* One step of a request: it keeps the store and its own record well typed.
LEMMA RequestStepType ==
  ASSUME StoreTypeOK, CheckoutTypeOK, CheckoutLocals, NEW r \in Requests,
         RequestStep(r)
  PROVE  StoreTypeOK' /\ CheckoutTypeOK' /\ CheckoutLocals'
<1> USE DEF RequestPC
<1>0. /\ co[r] \in Request
      /\ Items(co[r].lines) \in SUBSET Products
      /\ \A p \in co[r].todo : p \in Products /\ co[r].lines[p] \in Nat
  BY ItemsType DEF CheckoutTypeOK, Request
<1>1. CASE ExpirePrevious(r)
  <2>1. PICK found \in OrderIds \cup {NoOrder} :
          /\ ExpirePendingForUser(co[r].user, found)
          /\ IF found = NoOrder
               THEN Goto(r, "take", Items(co[r].lines))
               ELSE co' = [co EXCEPT ![r].pc = "releaseOld", ![r].order = found,
                                     ![r].todo = Items(orders[found].lines)]
    BY <1>1 DEF ExpirePrevious
  <2>2. StoreTypeOK'
    BY <1>1, <2>1, ExpirePendingType DEF ExpirePrevious, StoreTypeOK
  <2>3. CASE found = NoOrder
    BY <1>0, <2>1, <2>2, <2>3, GotoType
  <2>4. CASE found # NoOrder
    <3> DEFINE rec == [co[r] EXCEPT !.pc = "releaseOld", !.order = found,
                                    !.todo = Items(orders[found].lines)]
    <3>1. rec \in Request /\ rec.pc = "releaseOld" /\ rec.order \in OrderIds
      BY <1>0, <2>4, ItemsType DEF Request
    <3>2. co' = [co EXCEPT ![r] = rec]
      BY <2>1, <2>4 DEF CheckoutTypeOK
    <3> HIDE DEF rec
    <3> QED BY <2>2, <3>1, <3>2 DEF CheckoutTypeOK, CheckoutLocals
  <2> QED BY <2>3, <2>4
<1>2. CASE ReleaseOrderLine(r)
  <2>1. PICK p \in co[r].todo : /\ ReturnLine(co[r].order, p)
                                /\ Goto(r, co[r].pc, co[r].todo \ {p})
    BY <1>2 DEF ReleaseOrderLine
  <2>2. co[r].order \in OrderIds
    BY <1>2 DEF ReleaseOrderLine, CheckoutLocals
  <2>3. StoreTypeOK'
    BY <1>0, <1>2, <2>1, <2>2, ReturnLineType DEF ReleaseOrderLine, StoreTypeOK
  <2>4. co[r].pc \in RequestPC /\ co[r].todo \ {p} \in SUBSET Products
    BY <1>0 DEF Request
  <2> QED BY <2>1, <2>2, <2>3, <2>4, GotoType
<1>3. CASE ReleaseTakenLine(r)
  <2>1. PICK p \in co[r].todo :
          /\ \/ ReturnStock(p, co[r].lines[p]) /\ NoFailure
             \/ Fail("return") /\ UNCHANGED stock
          /\ Goto(r, co[r].pc, co[r].todo \ {p})
    BY <1>3 DEF ReleaseTakenLine
  <2>2. stock' \in [Products -> Nat] /\ faults' \in 0 .. MaxFaults
    BY <1>0, <2>1, StockType, FailType DEF StoreTypeOK, NoFailure
  <2>3. StoreTypeOK'
    BY <1>3, <2>2 DEF ReleaseTakenLine, StoreTypeOK
  <2>4. co[r].pc = "releaseTaken" /\ co[r].todo \ {p} \in SUBSET Products
    BY <1>0, <1>3 DEF Request, ReleaseTakenLine
  <2> QED BY <2>1, <2>3, <2>4, GotoType
<1>4. CASE EndReleaseOld(r)
  <2> DEFINE rec == [co[r] EXCEPT !.pc = "take", !.order = NoOrder,
                                  !.todo = Items(co[r].lines)]
  <2>1. rec \in Request /\ rec.pc = "take"
    BY <1>0 DEF Request
  <2>2. co' = [co EXCEPT ![r] = rec]
    BY <1>4 DEF EndReleaseOld, CheckoutTypeOK
  <2>3. StoreTypeOK'
    BY <1>4 DEF EndReleaseOld, StoreTypeOK, storeVars
  <2> HIDE DEF rec
  <2> QED BY <2>1, <2>2, <2>3 DEF CheckoutTypeOK, CheckoutLocals
<1>5. CASE EndReleaseTaken(r)
  BY <1>5, RefuseType DEF EndReleaseTaken, StoreTypeOK, storeVars
<1>6. CASE TakeLine(r)
  <2>1. PICK p \in co[r].todo :
          /\ TakeStock(p, co[r].lines[p])
          /\ Goto(r, IF co[r].todo = {p} THEN "insert" ELSE "take", co[r].todo \ {p})
    BY <1>6 DEF TakeLine
  <2>2. StoreTypeOK'
    BY <1>0, <1>6, <2>1, StockType DEF TakeLine, StoreTypeOK
  <2>3. co[r].todo \ {p} \in SUBSET Products
    BY <1>0 DEF Request
  <2> QED BY <2>1, <2>2, <2>3, GotoType
<1>7. CASE TakeLineRefused(r)
  <2>1. StoreTypeOK'
    BY <1>7, FailType DEF TakeLineRefused, StoreTypeOK, NoFailure
  <2>2. Items(co[r].lines) \ co[r].todo \in SUBSET Products
    BY <1>0
  <2> QED BY <1>7, <2>1, <2>2, GotoType DEF TakeLineRefused
<1>8. CASE InsertOrder(r)
  <2>1. PICK o \in OrderIds :
          /\ Create(o, co[r].user, co[r].lines)
          /\ co' = [co EXCEPT ![r].pc = "gateway", ![r].order = o, ![r].tries = 0]
    BY <1>8 DEF InsertOrder
  <2> DEFINE rec == [co[r] EXCEPT !.pc = "gateway", !.order = o, !.tries = 0]
  <2>2. rec \in Request /\ rec.order \in OrderIds
    <3>1. 0 \in 0 .. MaxIDRetries
      BY CheckoutAssumption
    <3> QED BY <1>0, <3>1 DEF Request
  <2>3. co' = [co EXCEPT ![r] = rec]
    BY <2>1 DEF CheckoutTypeOK
  <2>4. co[r].user \in Users \cup {NoUser} /\ co[r].lines \in [Products -> Nat]
    BY <1>0 DEF Request
  <2>5. StoreTypeOK'
    BY <1>8, <2>1, <2>4, CreateType DEF InsertOrder, StoreTypeOK
  <2> HIDE DEF rec
  <2> QED BY <2>2, <2>3, <2>5 DEF CheckoutTypeOK, CheckoutLocals
<1>9. CASE DuplicateOrderID(r)
  <2> DEFINE tries == co[r].tries + 1
             spent == tries = MaxIDRetries
             rec == [co[r] EXCEPT !.tries = tries,
                                  !.pc = IF spent THEN "releaseTaken" ELSE "insert",
                                  !.todo = IF spent THEN Items(co[r].lines) ELSE {}]
  <2>1. tries \in 0 .. MaxIDRetries
    BY <1>0, <1>9, CheckoutAssumption DEF DuplicateOrderID, Request
  <2>2. rec \in Request /\ rec.pc \in {"releaseTaken", "insert"}
    <3> HIDE DEF tries, spent
    <3> QED BY <1>0, <2>1 DEF Request
  <2>3. co' = [co EXCEPT ![r] = rec]
    BY <1>9 DEF DuplicateOrderID, CheckoutTypeOK
  <2>4. StoreTypeOK'
    BY <1>9 DEF DuplicateOrderID, StoreTypeOK, storeVars
  <2> HIDE DEF rec
  <2> QED BY <2>2, <2>3, <2>4 DEF CheckoutTypeOK, CheckoutLocals
<1>10. CASE InsertRefused(r)
  <2>1. StoreTypeOK'
    BY <1>10, FailType DEF InsertRefused, StoreTypeOK, NoFailure
  <2> QED BY <1>0, <1>10, <2>1, GotoType DEF InsertRefused
<1>11. CASE CreateRazorpayOrder(r)
  <2>1. StoreTypeOK'
    BY <1>11 DEF CreateRazorpayOrder, StoreTypeOK, storeVars
  <2> QED BY <1>11, <2>1, GotoType DEF CreateRazorpayOrder, CheckoutLocals
<1>12. CASE LinkRazorpayOrder(r)
  <2>1. co[r].order \in OrderIds
    BY <1>12 DEF LinkRazorpayOrder, CheckoutLocals
  <2>2. StoreTypeOK'
    BY <1>12, <2>1 DEF LinkRazorpayOrder, SetRazorpayOrderID, StoreTypeOK, Order
  <2>3. NotRunning("opened", co[r].order) \in Request
    BY <2>1, NotRunningType
  <2> QED BY <1>12, <2>1, <2>2, <2>3
          DEF LinkRazorpayOrder, NotRunning, CheckoutTypeOK, CheckoutLocals
<1>13. CASE UndoInsert(r)
  <2>1. StoreTypeOK'
    BY <1>13, ExpirePendingType, FailType DEF UndoInsert, StoreTypeOK, NoFailure
  <2> QED BY <1>13, <2>1, RefuseType DEF UndoInsert
<1> QED BY <1>1, <1>2, <1>3, <1>4, <1>5, <1>6, <1>7, <1>8, <1>9, <1>10, <1>11,
           <1>12, <1>13 DEF RequestStep

\* A request that starts, or fails.
LEMMA OpenCheckoutType ==
  ASSUME StoreTypeOK, CheckoutTypeOK, CheckoutLocals, NEW r \in Requests,
         OpenCheckoutNext(r)
  PROVE  StoreTypeOK' /\ CheckoutTypeOK' /\ CheckoutLocals'
<1> USE DEF RequestPC
<1>1. ASSUME NEW u \in Users, ReadCart(r, u)
      PROVE  StoreTypeOK' /\ CheckoutTypeOK' /\ CheckoutLocals'
  <2> DEFINE rec == [co[r] EXCEPT !.pc = "expire", !.user = u, !.lines = cart[u]]
  <2>1. cart[u] \in [Products -> Nat]
    BY StoreAssumption, EmptyBasketType DEF StoreTypeOK
  <2>2. rec \in Request /\ rec.pc = "expire"
    BY <2>1 DEF CheckoutTypeOK, Request
  <2>3. co' = [co EXCEPT ![r] = rec]
    BY <1>1 DEF ReadCart, CheckoutTypeOK
  <2>4. StoreTypeOK'
    BY <1>1 DEF ReadCart, StoreTypeOK, storeVars
  <2> HIDE DEF rec
  <2> QED BY <2>2, <2>3, <2>4 DEF CheckoutTypeOK, CheckoutLocals
<1>2. CASE ExpirePreviousError(r) \/ StopRequest(r)
  BY <1>2, FailType, RefuseType DEF ExpirePreviousError, StopRequest, StoreTypeOK
<1>3. CASE GatewayError(r)
  <2>1. StoreTypeOK'
    BY <1>3, FailType DEF GatewayError, StoreTypeOK
  <2>2. co[r].order \in OrderIds
    BY <1>3 DEF GatewayError, CheckoutLocals
  <2>3. Items(co[r].lines) \in SUBSET Products
    BY ItemsType
  <2> QED BY <1>3, <2>1, <2>2, <2>3, GotoType DEF GatewayError
<1> QED BY <1>1, <1>2, <1>3, RequestStepType DEF OpenCheckoutNext

-----------------------------------------------------------------------------
(* ConfirmPayment.                                                         *)

LEMMA PlacedEffectsType ==
  ASSUME StoreTypeOK, confirmations \in [OrderIds -> Nat], NEW o \in OrderIds,
         PlacedEffects(o)
  PROVE  /\ confirmations' \in [OrderIds -> Nat]
         /\ cart' \in [Users -> Baskets \cup {EmptyBasket}]
         /\ faults' \in 0 .. MaxFaults
BY FailType DEF StoreTypeOK, PlacedEffects, NoFailure

LEMMA ConfirmPaymentType ==
  ASSUME StoreTypeOK, PaymentsTypeOK, CallbackLocals, NEW c \in Callbacks,
         ConfirmPaymentNext(c)
  PROVE  StoreTypeOK' /\ PaymentsTypeOK' /\ CallbackLocals'
<1> USE DEF CallbackPC
<1>0. cb[c] \in Callback
  BY DEF PaymentsTypeOK
<1>1. ASSUME NEW o \in OrderIds, ReadOrder(c, o)
      PROVE  StoreTypeOK' /\ PaymentsTypeOK' /\ CallbackLocals'
  <2> DEFINE pc == CASE orders[o].status = "placed" -> "answered"
                     [] IsPending(o) -> "write"
                     [] OTHER -> "refused"
             answer == IF orders[o].status = "placed" THEN "placed" ELSE cb[c].answer
             rec == [cb[c] EXCEPT !.order = o, !.pc = pc, !.answer = answer]
  <2>1. pc \in CallbackPC
    OBVIOUS
  <2>2. answer \in Status
    BY <1>0 DEF Callback, Status
  <2> HIDE DEF pc, answer
  <2>3. rec \in Callback /\ rec.order = o
    BY <1>0, <2>1, <2>2 DEF Callback
  <2>4. cb' = [cb EXCEPT ![c].order = o, ![c].pc = pc, ![c].answer = answer]
    BY <1>1 DEF ReadOrder, PaymentsTypeOK, pc, answer, IsPending
  <2>5. UNCHANGED <<wh, events, confirmations, storeVars>>
    BY <1>1 DEF ReadOrder
  <2>6. cb' = [cb EXCEPT ![c] = rec]
    BY <2>4 DEF PaymentsTypeOK
  <2> HIDE DEF rec
  <2>7. StoreTypeOK'
    BY <2>5 DEF StoreTypeOK, storeVars
  <2>8. PaymentsTypeOK'
    BY <2>3, <2>5, <2>6 DEF PaymentsTypeOK
  <2> QED BY <2>3, <2>6, <2>7, <2>8 DEF CallbackLocals, PaymentsTypeOK
<1>2. CASE ConfirmPlaced(c)
  <2>1. cb[c].order \in OrderIds
    BY <1>2 DEF ConfirmPlaced, CallbackLocals
  <2>2. PICK modified \in BOOLEAN :
          /\ MarkPlaced(cb[c].order, FALSE, modified)
          /\ cb' = [cb EXCEPT ![c].pc = IF modified THEN "effects" ELSE "reread"]
    BY <1>2 DEF ConfirmPlaced
  <2>3. StoreTypeOK'
    BY <1>2, <2>1, <2>2, MarkPlacedType DEF ConfirmPlaced, StoreTypeOK
  <2>4. PaymentsTypeOK'
    BY <1>2, <2>2 DEF ConfirmPlaced, PaymentsTypeOK, Callback
  <2> QED BY <2>1, <2>2, <2>3, <2>4 DEF CallbackLocals, PaymentsTypeOK, Callback
<1>3. CASE ConfirmEffects(c)
  <2>1. cb[c].order \in OrderIds
    BY <1>3 DEF ConfirmEffects, CallbackLocals
  <2>2. PlacedEffects(cb[c].order) /\ confirmations \in [OrderIds -> Nat]
    BY <1>3 DEF ConfirmEffects, PaymentsTypeOK
  <2>3. /\ confirmations' \in [OrderIds -> Nat]
        /\ cart' \in [Users -> Baskets \cup {EmptyBasket}]
        /\ faults' \in 0 .. MaxFaults
    BY <2>1, <2>2, PlacedEffectsType
  <2>4. cb' \in [Callbacks -> Callback]
    BY <1>3 DEF ConfirmEffects, Answer, PaymentsTypeOK, Callback, Status
  <2>5. StoreTypeOK' /\ PaymentsTypeOK'
    BY <1>3, <2>3, <2>4 DEF ConfirmEffects, StoreTypeOK, PaymentsTypeOK
  <2> QED BY <1>3, <2>5 DEF ConfirmEffects, Answer, CallbackLocals, PaymentsTypeOK, Callback
<1>4. CASE ConfirmReread(c)
  <2>1. cb[c].order \in OrderIds
    BY <1>4 DEF ConfirmReread, CallbackLocals
  <2>2. orders[cb[c].order].status \in Status
    BY <2>1 DEF StoreTypeOK, Order
  <2>3. StoreTypeOK' /\ PaymentsTypeOK'
    BY <1>4, <2>2
       DEF ConfirmReread, Answer, StoreTypeOK, storeVars, PaymentsTypeOK, Callback
  <2> QED BY <1>4, <2>3 DEF ConfirmReread, Answer, CallbackLocals, PaymentsTypeOK, Callback
<1>5. CASE ConfirmFails(c)
  <2>1. StoreTypeOK' /\ PaymentsTypeOK'
    BY <1>5, FailType DEF ConfirmFails, StoreTypeOK, PaymentsTypeOK, Callback
  <2> QED BY <1>5, <2>1 DEF ConfirmFails, CallbackLocals, PaymentsTypeOK, Callback
<1> QED BY <1>1, <1>2, <1>3, <1>4, <1>5 DEF ConfirmPaymentNext, ConfirmStep

-----------------------------------------------------------------------------
(* HandleWebhook.                                                          *)

LEMMA IdleDeliveryType == IdleDelivery \in Delivery
BY DEF IdleDelivery, Delivery, DeliveryPC

LEMMA MoveToType ==
  ASSUME wh \in [Deliveries -> Delivery], DeliveryLocals, NEW d \in Deliveries,
         NEW pc \in DeliveryPC, MoveTo(d, pc), wh[d].pc # "idle"
  PROVE  wh' \in [Deliveries -> Delivery] /\ DeliveryLocals'
BY DEF MoveTo, Delivery, DeliveryLocals

\* A delivery that ends leaves nothing behind.
LEMMA EndDeliveryType ==
  ASSUME wh \in [Deliveries -> Delivery], DeliveryLocals, NEW d \in Deliveries,
         wh' = [wh EXCEPT ![d] = IdleDelivery]
  PROVE  wh' \in [Deliveries -> Delivery] /\ DeliveryLocals'
BY IdleDeliveryType DEF IdleDelivery, DeliveryLocals

LEMMA DeliverType ==
  ASSUME StoreTypeOK, RazorpayTypeOK, PaymentsTypeOK, DeliveryLocals,
         NEW d \in Deliveries, NEW e \in Event, Deliver(d, e)
  PROVE  StoreTypeOK' /\ RazorpayTypeOK' /\ PaymentsTypeOK' /\ DeliveryLocals'
<1> DEFINE pc == IF events[e] = "absent" THEN "dispatch" ELSE "check"
           rec == [wh[d] EXCEPT !.pc = pc, !.event = e]
<1>1. rec \in Delivery /\ rec.event \in Event
  BY DEF PaymentsTypeOK, Delivery, DeliveryPC
<1>2. wh' = [wh EXCEPT ![d] = rec]
  BY DEF Deliver, PaymentsTypeOK
<1> HIDE DEF rec
<1>3. StoreTypeOK' /\ RazorpayTypeOK'
  BY DEF Deliver, StoreTypeOK, storeVars, RazorpayTypeOK, razorpayVars
<1>4. wh' \in [Deliveries -> Delivery] /\ DeliveryLocals'
  BY <1>1, <1>2 DEF PaymentsTypeOK, DeliveryLocals
<1>5. events' \in [Event -> {"absent", "recorded", "processed"}]
  BY DEF Deliver, PaymentsTypeOK
<1> QED BY <1>3, <1>4, <1>5 DEF Deliver, PaymentsTypeOK

LEMMA HandleWebhookType ==
  ASSUME StoreTypeOK, RazorpayTypeOK, PaymentsTypeOK, DeliveryLocals,
         NEW d \in Deliveries, HandleWebhookNext(d)
  PROVE  StoreTypeOK' /\ RazorpayTypeOK' /\ PaymentsTypeOK' /\ DeliveryLocals'
<1> USE DEF DeliveryPC
<1> DEFINE e == wh[d].event
           Types == StoreTypeOK' /\ RazorpayTypeOK' /\ PaymentsTypeOK' /\ DeliveryLocals'
<1>0. /\ wh \in [Deliveries -> Delivery]
      /\ wh[d] \in Delivery
      /\ wh[d].pc # "idle" => e \in Event /\ e.order \in OrderIds
  BY DEF PaymentsTypeOK, DeliveryLocals, Event
<1> HIDE DEF e
<1>1. CASE CheckEvent(d)
  <2>1. wh' \in [Deliveries -> Delivery] /\ DeliveryLocals'
    BY <1>0, <1>1, MoveToType, EndDeliveryType DEF CheckEvent
  <2>2. RazorpayTypeOK'
    BY <1>0, <1>1 DEF CheckEvent, RazorpayTypeOK, e
  <2> QED BY <1>1, <2>1, <2>2 DEF CheckEvent, StoreTypeOK, storeVars, PaymentsTypeOK
<1>2. CASE DispatchCapture(d)
  <2>1. CASE ByRazorpayOrderID(e.order) /\ e.order \notin Mispriced
    <3>1. PICK modified \in BOOLEAN :
            /\ MarkPlaced(e.order, TRUE, modified)
            /\ MoveTo(d, IF modified THEN "effects" ELSE "fill")
      BY <1>2, <2>1 DEF DispatchCapture, e
    <3>2. orders' \in [OrderIds -> Order]
      BY <1>0, <1>2, <3>1, MarkPlacedType DEF DispatchCapture
    <3>3. wh' \in [Deliveries -> Delivery] /\ DeliveryLocals'
      BY <1>0, <1>2, <3>1, MoveToType DEF DispatchCapture
    <3> QED BY <1>2, <3>2, <3>3
            DEF DispatchCapture, StoreTypeOK, RazorpayTypeOK, razorpayVars, PaymentsTypeOK
  <2>2. CASE ~(ByRazorpayOrderID(e.order) /\ e.order \notin Mispriced)
    <3>1. MoveTo(d, "mark") /\ UNCHANGED orders
      BY <1>2, <2>2 DEF DispatchCapture, e
    <3>2. wh' \in [Deliveries -> Delivery] /\ DeliveryLocals'
      BY <1>0, <1>2, <3>1, MoveToType DEF DispatchCapture
    <3> QED BY <1>2, <3>1, <3>2
            DEF DispatchCapture, StoreTypeOK, RazorpayTypeOK, razorpayVars, PaymentsTypeOK
  <2> QED BY <2>1, <2>2
<1>3. CASE DispatchFill(d)
  <2>1. wh' \in [Deliveries -> Delivery] /\ DeliveryLocals'
    BY <1>0, <1>3, MoveToType DEF DispatchFill
  <2>2. orders' \in [OrderIds -> Order] /\ faults' \in 0 .. MaxFaults
    BY <1>0, <1>3, FillPaymentDetailType, FailType
       DEF DispatchFill, StoreTypeOK, NoFailure, e
  <2> QED BY <1>3, <2>1, <2>2
          DEF DispatchFill, StoreTypeOK, RazorpayTypeOK, razorpayVars, PaymentsTypeOK
<1>4. CASE DispatchEffects(d)
  <2>1. wh' \in [Deliveries -> Delivery] /\ DeliveryLocals'
    BY <1>0, <1>4, MoveToType DEF DispatchEffects
  <2>2. /\ confirmations' \in [OrderIds -> Nat]
        /\ cart' \in [Users -> Baskets \cup {EmptyBasket}]
        /\ faults' \in 0 .. MaxFaults
    BY <1>0, <1>4, PlacedEffectsType DEF DispatchEffects, PaymentsTypeOK, e
  <2> QED BY <1>4, <2>1, <2>2
          DEF DispatchEffects, StoreTypeOK, RazorpayTypeOK, razorpayVars, PaymentsTypeOK
<1>5. CASE DispatchFailed(d)
  <2>1. CASE ByRazorpayOrderID(e.order)
    <3>1. PICK modified \in BOOLEAN :
            /\ MarkPaymentFailed(e.order, modified)
            /\ wh' = [wh EXCEPT ![d].pc = IF modified THEN "release" ELSE "mark",
                                ![d].todo = IF modified THEN Items(orders[e.order].lines)
                                                        ELSE {}]
      BY <1>5, <2>1 DEF DispatchFailed, e
    <3>2. orders' \in [OrderIds -> Order]
      BY <1>0, <1>5, <3>1, MarkEndedType DEF DispatchFailed
    <3> DEFINE rec == [wh[d] EXCEPT !.pc = IF modified THEN "release" ELSE "mark",
                                    !.todo = IF modified THEN Items(orders[e.order].lines)
                                                         ELSE {}]
    <3>3. rec \in Delivery /\ rec.event \in Event
      BY <1>0, <1>5, ItemsType DEF DispatchFailed, Delivery, e
    <3>4. wh' = [wh EXCEPT ![d] = rec]
      BY <1>0, <3>1
    <3> HIDE DEF rec
    <3>5. wh' \in [Deliveries -> Delivery] /\ DeliveryLocals'
      BY <1>0, <3>3, <3>4 DEF DeliveryLocals
    <3> QED BY <1>5, <3>2, <3>5
            DEF DispatchFailed, StoreTypeOK, RazorpayTypeOK, razorpayVars, PaymentsTypeOK
  <2>2. CASE ~ByRazorpayOrderID(e.order)
    <3>1. MoveTo(d, "mark") /\ UNCHANGED orders
      BY <1>5, <2>2 DEF DispatchFailed, e
    <3>2. wh' \in [Deliveries -> Delivery] /\ DeliveryLocals'
      BY <1>0, <1>5, <3>1, MoveToType DEF DispatchFailed
    <3> QED BY <1>5, <3>1, <3>2
            DEF DispatchFailed, StoreTypeOK, RazorpayTypeOK, razorpayVars, PaymentsTypeOK
  <2> QED BY <2>1, <2>2
<1>6. CASE DispatchRelease(d)
  <2>1. PICK p \in wh[d].todo :
          /\ ReturnLine(e.order, p)
          /\ wh' = [wh EXCEPT ![d].todo = @ \ {p},
                              ![d].pc = IF wh[d].todo = {p} THEN "mark" ELSE "release"]
    BY <1>6 DEF DispatchRelease, e
  <2>2. p \in Products /\ wh[d].todo \ {p} \in SUBSET Products
    BY <1>0 DEF Delivery
  <2>3. StoreTypeOK'
    BY <1>0, <1>6, <2>1, <2>2, ReturnLineType DEF DispatchRelease, StoreTypeOK
  <2> DEFINE rec == [wh[d] EXCEPT !.todo = wh[d].todo \ {p},
                                  !.pc = IF wh[d].todo = {p} THEN "mark" ELSE "release"]
  <2>4. rec \in Delivery /\ rec.event \in Event
    BY <1>0, <1>6, <2>2 DEF DispatchRelease, Delivery, e
  <2>5. wh' = [wh EXCEPT ![d] = rec]
    BY <1>0, <2>1
  <2> HIDE DEF rec
  <2>6. wh' \in [Deliveries -> Delivery] /\ DeliveryLocals'
    BY <1>0, <2>4, <2>5 DEF DeliveryLocals
  <2> QED BY <1>6, <2>3, <2>6 DEF DispatchRelease, RazorpayTypeOK, razorpayVars, PaymentsTypeOK
<1>7. CASE AckDelivery(d)
  <2>1. wh' \in [Deliveries -> Delivery] /\ DeliveryLocals'
    BY <1>0, <1>7, EndDeliveryType DEF AckDelivery
  <2>2. RazorpayTypeOK'
    BY <1>0, <1>7 DEF AckDelivery, RazorpayTypeOK, e
  <2>3. faults' \in 0 .. MaxFaults
    BY <1>7, FailType DEF AckDelivery, StoreTypeOK, NoFailure
  <2>4. events' \in [Event -> {"absent", "recorded", "processed"}]
    BY <1>7 DEF AckDelivery, PaymentsTypeOK
  <2> QED BY <1>7, <2>1, <2>2, <2>3, <2>4 DEF AckDelivery, StoreTypeOK, PaymentsTypeOK
<1>8. CASE DeliveryFails(d)
  <2>1. wh' \in [Deliveries -> Delivery] /\ DeliveryLocals'
    BY <1>0, <1>8, EndDeliveryType DEF DeliveryFails
  <2>2. faults' \in 0 .. MaxFaults
    BY <1>8, FailType DEF DeliveryFails
  <2> QED BY <1>8, <2>1, <2>2
          DEF DeliveryFails, StoreTypeOK, RazorpayTypeOK, razorpayVars, PaymentsTypeOK
<1>9. ASSUME NEW ev \in Event, Deliver(d, ev) PROVE Types
  BY <1>9, DeliverType
<1> QED BY <1>1, <1>2, <1>3, <1>4, <1>5, <1>6, <1>7, <1>8, <1>9
        DEF HandleWebhookNext, DeliveryStep

-----------------------------------------------------------------------------
(* The sweeper, Razorpay, the shopper and the clock.                       *)

LEMMA NoTickType == NoTick \in Tick
BY DEF NoTick, Tick, SweeperPC

LEMMA SweepType ==
  ASSUME StoreTypeOK, SweeperTypeOK, SweeperLocals, NEW s \in Sweepers, SweeperNext(s)
  PROVE  StoreTypeOK' /\ SweeperTypeOK' /\ SweeperLocals'
<1> USE DEF SweeperPC
<1>0. sw[s] \in Tick
  BY DEF SweeperTypeOK
<1>1. CASE FindExpired(s)
  <2>1. PICK batch \in SUBSET ExpiredPending :
          sw' = [sw EXCEPT ![s].pc = "claim", ![s].batch = batch]
    BY <1>1 DEF FindExpired
  <2> DEFINE rec == [sw[s] EXCEPT !.pc = "claim", !.batch = batch]
  <2>2. rec \in Tick /\ rec.pc = "claim"
    BY <1>0 DEF Tick, ExpiredPending
  <2>3. sw' = [sw EXCEPT ![s] = rec]
    BY <2>1 DEF SweeperTypeOK
  <2> HIDE DEF rec
  <2> QED BY <1>1, <2>2, <2>3
          DEF FindExpired, StoreTypeOK, storeVars, SweeperTypeOK, SweeperLocals
<1>2. CASE ClaimExpired(s)
  <2>1. PICK o \in sw[s].batch, modified \in BOOLEAN :
          /\ MarkExpired(o, modified)
          /\ sw' = [sw EXCEPT
               ![s] = IF modified
                        THEN [pc |-> "release", batch |-> sw[s].batch \ {o},
                              order |-> o, todo |-> Items(orders[o].lines)]
                        ELSE [sw[s] EXCEPT !.batch = @ \ {o}]]
    BY <1>2 DEF ClaimExpired
  <2>2. o \in OrderIds /\ sw[s].batch \ {o} \in SUBSET OrderIds
    BY <1>0 DEF Tick
  <2>3. StoreTypeOK'
    BY <1>2, <2>1, <2>2, MarkEndedType DEF ClaimExpired, StoreTypeOK
  <2> DEFINE claimed == [pc |-> "release", batch |-> sw[s].batch \ {o},
                         order |-> o, todo |-> Items(orders[o].lines)]
             lost == [sw[s] EXCEPT !.batch = sw[s].batch \ {o}]
  <2>4. claimed \in Tick /\ claimed.order \in OrderIds
    BY <2>2, ItemsType DEF Tick
  <2>5. lost \in Tick /\ lost.pc = "claim"
    BY <1>0, <1>2, <2>2 DEF Tick, ClaimExpired
  <2>6. CASE modified
    <3>1. sw' = [sw EXCEPT ![s] = claimed]
      BY <2>1, <2>6
    <3> HIDE DEF claimed, lost
    <3> QED BY <2>3, <2>4, <3>1 DEF SweeperTypeOK, SweeperLocals
  <2>7. CASE ~modified
    <3>1. sw' = [sw EXCEPT ![s] = lost]
      BY <2>1, <2>7
    <3> HIDE DEF claimed, lost
    <3> QED BY <2>3, <2>5, <3>1 DEF SweeperTypeOK, SweeperLocals
  <2> QED BY <2>6, <2>7
<1>3. CASE SweepReturn(s)
  <2>1. PICK p \in sw[s].todo :
          /\ ReturnLine(sw[s].order, p)
          /\ sw' = [sw EXCEPT ![s].todo = @ \ {p},
                              ![s].pc = IF sw[s].todo = {p} THEN "claim" ELSE "release"]
    BY <1>3 DEF SweepReturn
  <2>2. p \in Products /\ sw[s].todo \ {p} \in SUBSET Products /\ sw[s].order \in OrderIds
    BY <1>0, <1>3 DEF Tick, SweepReturn, SweeperLocals
  <2>3. StoreTypeOK'
    BY <1>3, <2>1, <2>2, ReturnLineType DEF SweepReturn, StoreTypeOK
  <2> DEFINE rec == [sw[s] EXCEPT !.todo = sw[s].todo \ {p},
                                  !.pc = IF sw[s].todo = {p} THEN "claim" ELSE "release"]
  <2>4. rec \in Tick /\ rec.order \in OrderIds
    BY <1>0, <2>2 DEF Tick
  <2>5. sw' = [sw EXCEPT ![s] = rec]
    BY <2>1 DEF SweeperTypeOK
  <2> HIDE DEF rec
  <2> QED BY <2>3, <2>4, <2>5 DEF SweeperTypeOK, SweeperLocals
<1>4. CASE EndTick(s)
  BY <1>4, NoTickType
     DEF EndTick, NoTick, StoreTypeOK, storeVars, SweeperTypeOK, SweeperLocals
<1>5. CASE TickFails(s)
  <2>1. StoreTypeOK'
    BY <1>5, FailType DEF TickFails, StoreTypeOK
  <2> QED BY <1>5, <2>1, NoTickType DEF TickFails, NoTick, SweeperTypeOK, SweeperLocals
<1> QED BY <1>1, <1>2, <1>3, <1>4, <1>5 DEF SweeperNext, SweeperStep

LEMMA PayType ==
  ASSUME RazorpayTypeOK, NEW o \in OrderIds, CapturePayment(o) \/ DeclinePayment(o)
  PROVE  RazorpayTypeOK'
BY DEF RazorpayTypeOK, CapturePayment, DeclinePayment, CaptureEvent, PaidEvent,
       FailedEvent, Event, EventKind

LEMMA ShopperType ==
  ASSUME StoreTypeOK, NEW u \in Users, EditCart(u)
  PROVE  StoreTypeOK'
BY DEF StoreTypeOK, EditCart

LEMMA ClockType ==
  ASSUME StoreTypeOK, NEW o \in OrderIds, Lapse(o)
  PROVE  StoreTypeOK'
BY DEF StoreTypeOK, Lapse, Order

-----------------------------------------------------------------------------
(* The composition.                                                        *)

LEMMA InitType == Init => TypeInv
<1> SUFFICES ASSUME Init PROVE TypeInv
  OBVIOUS
<1>1. StoreTypeOK
  <2>1. Document("absent", NoUser, EmptyBasket) \in Order
    BY EmptyBasketType DEF Document, Order, Status
  <2> QED BY <2>1, StoreAssumption, EmptyBasketType DEF Init, StoreInit, StoreTypeOK
<1>2. CheckoutTypeOK /\ CheckoutLocals
  <2>1. NotRunning("idle", NoOrder) \in Request
    BY NotRunningType DEF RequestPC
  <2> QED BY <2>1 DEF Init, CheckoutInit, CheckoutTypeOK, CheckoutLocals, NotRunning
<1>3. RazorpayTypeOK
  BY DEF Init, RazorpayInit, RazorpayTypeOK
<1>4. PaymentsTypeOK /\ CallbackLocals /\ DeliveryLocals
  BY IdleDeliveryType DEF Init, PaymentsInit, PaymentsTypeOK, CallbackLocals,
       DeliveryLocals, IdleDelivery, Callback, CallbackPC, Status
<1>5. SweeperTypeOK /\ SweeperLocals
  BY NoTickType DEF Init, SweeperInit, SweeperTypeOK, SweeperLocals, NoTick
<1> QED BY <1>1, <1>2, <1>3, <1>4, <1>5 DEF TypeInv, TypeOK, LocalsOK

LEMMA StepType == TypeInv /\ [Next]_vars => TypeInv'
<1> SUFFICES ASSUME TypeInv, [Next]_vars PROVE TypeInv'
  OBVIOUS
<1> USE DEF TypeInv, TypeOK, LocalsOK
<1>1. ASSUME NEW u \in Users, Shopper(u) PROVE TypeInv'
  <2>1. StoreTypeOK'
    BY <1>1, ShopperType DEF Shopper
  <2> QED BY <1>1, <2>1 DEF Shopper, razorpayVars, paymentVars, CheckoutTypeOK,
        RazorpayTypeOK, PaymentsTypeOK, SweeperTypeOK, CheckoutLocals,
        CallbackLocals, DeliveryLocals, SweeperLocals
<1>2. ASSUME NEW o \in OrderIds, Clock(o) PROVE TypeInv'
  <2>1. StoreTypeOK'
    BY <1>2, ClockType DEF Clock
  <2> QED BY <1>2, <2>1 DEF Clock, razorpayVars, paymentVars, CheckoutTypeOK,
        RazorpayTypeOK, PaymentsTypeOK, SweeperTypeOK, CheckoutLocals,
        CallbackLocals, DeliveryLocals, SweeperLocals
<1>3. ASSUME NEW o \in OrderIds, Pay(o) PROVE TypeInv'
  <2>1. RazorpayTypeOK'
    BY <1>3, PayType DEF Pay
  <2>2. UNCHANGED <<storeVars, co, cb, wh, events, confirmations, sw>>
    BY <1>3 DEF Pay, CapturePayment, DeclinePayment, paymentVars
  <2> QED BY <2>1, <2>2 DEF storeVars, StoreTypeOK, CheckoutTypeOK,
        PaymentsTypeOK, SweeperTypeOK, CheckoutLocals,
        CallbackLocals, DeliveryLocals, SweeperLocals
<1>4. ASSUME NEW r \in Requests, OpenCheckout(r) PROVE TypeInv'
  <2>1. StoreTypeOK' /\ CheckoutTypeOK' /\ CheckoutLocals'
    BY <1>4, OpenCheckoutType DEF OpenCheckout
  <2> QED BY <1>4, <2>1 DEF OpenCheckout, razorpayVars, paymentVars,
        RazorpayTypeOK, PaymentsTypeOK, SweeperTypeOK,
        CallbackLocals, DeliveryLocals, SweeperLocals
<1>5. ASSUME NEW c \in Callbacks, ConfirmPayment(c) PROVE TypeInv'
  <2>1. StoreTypeOK' /\ PaymentsTypeOK' /\ CallbackLocals'
    BY <1>5, ConfirmPaymentType DEF ConfirmPayment
  <2>2. UNCHANGED <<co, emitted, acked, wh, sw>>
    BY <1>5 DEF ConfirmPayment, ConfirmPaymentNext, ConfirmStep, ReadOrder,
         ConfirmPlaced, ConfirmEffects, ConfirmReread, ConfirmFails, razorpayVars
  <2> QED BY <2>1, <2>2 DEF CheckoutTypeOK, RazorpayTypeOK, SweeperTypeOK,
        CheckoutLocals, DeliveryLocals, SweeperLocals
<1>6. ASSUME NEW d \in Deliveries, HandleWebhook(d) PROVE TypeInv'
  <2>1. StoreTypeOK' /\ RazorpayTypeOK' /\ PaymentsTypeOK' /\ DeliveryLocals'
    BY <1>6, HandleWebhookType DEF HandleWebhook
  <2>2. UNCHANGED <<co, cb, sw>>
    BY <1>6 DEF HandleWebhook, HandleWebhookNext, DeliveryStep, Deliver, CheckEvent,
         DispatchCapture, DispatchFill, DispatchEffects, DispatchFailed,
         DispatchRelease, AckDelivery, DeliveryFails
  <2> QED BY <2>1, <2>2 DEF CheckoutTypeOK, SweeperTypeOK, CheckoutLocals,
        CallbackLocals, SweeperLocals
<1>7. ASSUME NEW s \in Sweepers, Sweep(s) PROVE TypeInv'
  <2>1. StoreTypeOK' /\ SweeperTypeOK' /\ SweeperLocals'
    BY <1>7, SweepType DEF Sweep
  <2> QED BY <1>7, <2>1 DEF Sweep, razorpayVars, paymentVars, CheckoutTypeOK,
        RazorpayTypeOK, PaymentsTypeOK, CheckoutLocals, CallbackLocals, DeliveryLocals
<1>8. CASE UNCHANGED vars
  BY <1>8 DEF vars, StoreTypeOK, CheckoutTypeOK, RazorpayTypeOK, PaymentsTypeOK,
       SweeperTypeOK, CheckoutLocals, CallbackLocals, DeliveryLocals, SweeperLocals
<1> QED BY <1>1, <1>2, <1>3, <1>4, <1>5, <1>6, <1>7, <1>8 DEF Next

\* Every behaviour of the order service is type correct, and a handler that is
\* about to touch an order or an event has one.
THEOREM TypeCorrect == Spec => []TypeInv
BY InitType, StepType, PTL DEF Spec

\* TypeOK, as the runs check it.
THEOREM TypeOKHolds == Spec => []TypeOK
<1>1. TypeInv => TypeOK
  BY DEF TypeInv
<1> QED BY <1>1, TypeCorrect, PTL

-----------------------------------------------------------------------------
(* What each handler leaves alone.                                         *)

LEMMA CheckoutFrame ==
  ASSUME NEW r \in Requests, OpenCheckout(r)
  PROVE  UNCHANGED <<emitted, acked, cb, wh, events, confirmations, sw>>
BY DEF OpenCheckout, razorpayVars, paymentVars

LEMMA CallbackFrame ==
  ASSUME NEW c \in Callbacks, ConfirmPayment(c)
  PROVE  UNCHANGED <<co, emitted, acked, wh, events, stock, returns, sw>>
BY DEF ConfirmPayment, ConfirmPaymentNext, ConfirmStep, ReadOrder, ConfirmPlaced,
       ConfirmEffects, ConfirmReread, ConfirmFails, razorpayVars, storeVars

LEMMA DeliveryFrame ==
  ASSUME NEW d \in Deliveries, HandleWebhook(d)
  PROVE  UNCHANGED <<co, emitted, cb, sw>>
BY DEF HandleWebhook, HandleWebhookNext, DeliveryStep, Deliver, CheckEvent,
       DispatchCapture, DispatchFill, DispatchEffects, DispatchFailed,
       DispatchRelease, AckDelivery, DeliveryFails, razorpayVars, storeVars

LEMMA SweepFrame ==
  ASSUME NEW s \in Sweepers, Sweep(s)
  PROVE  UNCHANGED <<co, emitted, acked, cb, wh, events, confirmations>>
BY DEF Sweep, razorpayVars, paymentVars

LEMMA PayFrame ==
  ASSUME NEW o \in OrderIds, Pay(o)
  PROVE  UNCHANGED <<orders, stock, cart, returns, faults, co, acked,
                     cb, wh, events, confirmations, sw>>
BY DEF Pay, CapturePayment, DeclinePayment, storeVars, paymentVars

LEMMA ShopperFrame ==
  ASSUME NEW u \in Users, Shopper(u)
  PROVE  UNCHANGED <<orders, stock, returns, co, emitted, acked,
                     cb, wh, events, confirmations, sw>>
BY DEF Shopper, EditCart, razorpayVars, paymentVars

LEMMA ClockFrame ==
  ASSUME NEW o \in OrderIds, Clock(o)
  PROVE  UNCHANGED <<stock, returns, co, emitted, acked,
                     cb, wh, events, confirmations, sw>>
BY DEF Clock, Lapse, razorpayVars, paymentVars

-----------------------------------------------------------------------------
(* How an order evolves.                                                   *)

Settled == {"placed", "payment_failed", "expired"}

\* The database call may turn order o into new.
Inserts(o, new) ==
  /\ orders[o].status = "absent"
  /\ \E r \in Requests :
       /\ co[r].pc = "insert"
       /\ PendingOf(co[r].user) = {}
       /\ new = Document("pending_payment", co[r].user, co[r].lines)

\* Someone is entitled to place o: a callback, or a capture event.
Entitled(o) ==
  \/ \E c \in Callbacks : cb[c].pc = "write" /\ cb[c].order = o
  \/ \E d \in Deliveries :
       /\ wh[d].pc = "dispatch" /\ wh[d].event.order = o
       /\ wh[d].event.kind \in {"payment.captured", "order.paid"}

Settles(o, new) ==
  /\ IsPending(o)
  /\ new.status \in Settled
  /\ new.status = "placed" => Entitled(o)
  /\ new.user = orders[o].user
  /\ new.lines = orders[o].lines
  /\ new.linked = orders[o].linked
  /\ new.method /\ ~orders[o].method => new.status = "placed"

Annotates(o, new) ==
  /\ new.status = orders[o].status
  /\ new.user = orders[o].user
  /\ new.lines = orders[o].lines
  /\ orders[o].linked => new.linked
  /\ new.linked /\ ~orders[o].linked =>
       \E r \in Requests : co[r].pc = "link" /\ co[r].order = o
  /\ orders[o].method => new.method
  /\ new.method /\ ~orders[o].method => new.status = "placed"

Evolves(o, new) == Inserts(o, new) \/ Settles(o, new) \/ Annotates(o, new)

OrderEvolves ==
  \/ UNCHANGED orders
  \/ \E o \in OrderIds, new \in Order :
       orders' = [orders EXCEPT ![o] = new] /\ Evolves(o, new)

LEMMA ExpireEvolves ==
  ASSUME StoreTypeOK, NEW u, NEW found, ExpirePendingForUser(u, found)
  PROVE  OrderEvolves
<1>1. CASE found \in PendingOf(u) /\ orders' = [orders EXCEPT ![found].status = "expired"]
  <2> DEFINE new == [orders[found] EXCEPT !.status = "expired"]
  <2>1. found \in OrderIds /\ IsPending(found)
    BY <1>1 DEF PendingOf
  <2>2. new \in Order /\ Settles(found, new)
    BY <2>1 DEF StoreTypeOK, Order, Status, Settles, Settled
  <2>3. orders' = [orders EXCEPT ![found] = new]
    BY <1>1
  <2> HIDE DEF new
  <2> QED BY <2>1, <2>2, <2>3 DEF OrderEvolves, Evolves
<1>2. CASE UNCHANGED orders
  BY <1>2 DEF OrderEvolves
<1> QED BY <1>1, <1>2 DEF ExpirePendingForUser

LEMMA EndEvolves ==
  ASSUME StoreTypeOK, NEW o \in OrderIds, NEW modified \in BOOLEAN,
         MarkPaymentFailed(o, modified) \/ MarkExpired(o, modified)
  PROVE  OrderEvolves
<1>1. CASE ~modified
  BY <1>1 DEF MarkPaymentFailed, MarkExpired, OrderEvolves
<1>2. ASSUME modified, NEW status \in {"payment_failed", "expired"},
             orders' = [orders EXCEPT ![o].status = status], IsPending(o)
      PROVE  OrderEvolves
  <2> DEFINE new == [orders[o] EXCEPT !.status = status]
  <2>1. new \in Order /\ Settles(o, new)
    BY <1>2 DEF StoreTypeOK, Order, Status, Settles, Settled
  <2>2. orders' = [orders EXCEPT ![o] = new]
    BY <1>2
  <2> HIDE DEF new
  <2> QED BY <2>1, <2>2 DEF OrderEvolves, Evolves
<1> QED BY <1>1, <1>2 DEF MarkPaymentFailed, MarkExpired

LEMMA PlaceEvolves ==
  ASSUME StoreTypeOK, NEW o \in OrderIds, NEW method \in BOOLEAN,
         NEW modified \in BOOLEAN, MarkPlaced(o, method, modified), Entitled(o)
  PROVE  OrderEvolves
<1>1. CASE ~modified
  BY <1>1 DEF MarkPlaced, OrderEvolves
<1>2. CASE modified
  <2> DEFINE new == [orders[o] EXCEPT !.status = "placed", !.method = method]
  <2>1. new \in Order /\ Settles(o, new)
    BY <1>2 DEF MarkPlaced, StoreTypeOK, Order, Status, Settles, Settled
  <2>2. orders' = [orders EXCEPT ![o] = new]
    BY <1>2 DEF MarkPlaced, StoreTypeOK
  <2> HIDE DEF new
  <2> QED BY <2>1, <2>2 DEF OrderEvolves, Evolves
<1> QED BY <1>1, <1>2

LEMMA FillEvolves ==
  ASSUME StoreTypeOK, NEW o \in OrderIds, FillPaymentDetail(o)
  PROVE  OrderEvolves
<1>1. CASE orders[o].status = "placed" /\ ~orders[o].method
  <2> DEFINE new == [orders[o] EXCEPT !.method = TRUE]
  <2>1. new \in Order /\ Annotates(o, new)
    BY <1>1 DEF StoreTypeOK, Order, Annotates
  <2>2. orders' = [orders EXCEPT ![o] = new]
    BY <1>1 DEF FillPaymentDetail
  <2> HIDE DEF new
  <2> QED BY <2>1, <2>2 DEF OrderEvolves, Evolves
<1>2. CASE ~(orders[o].status = "placed" /\ ~orders[o].method)
  BY <1>2 DEF FillPaymentDetail, OrderEvolves
<1> QED BY <1>1, <1>2

LEMMA CheckoutEvolves ==
  ASSUME StoreTypeOK, CheckoutTypeOK, CheckoutLocals, NEW r \in Requests,
         OpenCheckoutNext(r)
  PROVE  OrderEvolves
<1>1. CASE ExpirePrevious(r) \/ UndoInsert(r)
  BY <1>1, ExpireEvolves DEF ExpirePrevious, UndoInsert, OrderEvolves
<1>2. CASE InsertOrder(r)
  <2>1. PICK o \in OrderIds : Create(o, co[r].user, co[r].lines)
    BY <1>2 DEF InsertOrder
  <2> DEFINE new == Document("pending_payment", co[r].user, co[r].lines)
  <2>2. co[r].user \in Users \cup {NoUser} /\ co[r].lines \in [Products -> Nat]
    BY DEF CheckoutTypeOK, Request
  <2>3. new \in Order /\ Inserts(o, new)
    BY <1>2, <2>1, <2>2 DEF InsertOrder, Create, Inserts, Document, Order, Status
  <2>4. orders' = [orders EXCEPT ![o] = new]
    BY <2>1 DEF Create
  <2> HIDE DEF new
  <2> QED BY <2>3, <2>4 DEF OrderEvolves, Evolves
<1>3. CASE LinkRazorpayOrder(r)
  <2> DEFINE o == co[r].order
             new == [orders[o] EXCEPT !.linked = TRUE]
  <2>1. o \in OrderIds
    BY <1>3 DEF LinkRazorpayOrder, CheckoutLocals
  <2>2. new \in Order /\ Annotates(o, new)
    BY <1>3, <2>1 DEF LinkRazorpayOrder, StoreTypeOK, Order, Annotates
  <2>3. orders' = [orders EXCEPT ![o] = new]
    BY <1>3 DEF LinkRazorpayOrder, SetRazorpayOrderID
  <2> HIDE DEF new
  <2> QED BY <2>1, <2>2, <2>3 DEF OrderEvolves, Evolves
<1>4. CASE UNCHANGED orders
  BY <1>4 DEF OrderEvolves
<1>5. \/ ExpirePrevious(r) \/ UndoInsert(r) \/ InsertOrder(r) \/ LinkRazorpayOrder(r)
      \/ UNCHANGED orders
  BY DEF OpenCheckoutNext, RequestStep, ReadCart, ExpirePreviousError, ReleaseOrderLine,
         ReleaseTakenLine, EndReleaseOld, EndReleaseTaken, TakeLine, TakeLineRefused,
         DuplicateOrderID, InsertRefused, CreateRazorpayOrder, GatewayError, StopRequest,
         storeVars
<1> QED BY <1>1, <1>2, <1>3, <1>4, <1>5

LEMMA CallbackEvolves ==
  ASSUME StoreTypeOK, CallbackLocals, NEW c \in Callbacks, ConfirmPaymentNext(c)
  PROVE  OrderEvolves
<1>1. CASE ConfirmPlaced(c)
  <2>1. cb[c].order \in OrderIds /\ Entitled(cb[c].order)
    BY <1>1 DEF ConfirmPlaced, CallbackLocals, Entitled
  <2> QED BY <1>1, <2>1, PlaceEvolves DEF ConfirmPlaced
<1>2. CASE UNCHANGED orders
  BY <1>2 DEF OrderEvolves
<1>3. ConfirmPlaced(c) \/ UNCHANGED orders
  BY DEF ConfirmPaymentNext, ConfirmStep, ReadOrder, ConfirmEffects, ConfirmReread,
         ConfirmFails, storeVars
<1> QED BY <1>1, <1>2, <1>3

LEMMA DeliveryEvolves ==
  ASSUME StoreTypeOK, DeliveryLocals, NEW d \in Deliveries, HandleWebhookNext(d)
  PROVE  OrderEvolves
<1>0. wh[d].pc # "idle" => wh[d].event.order \in OrderIds
  BY DEF DeliveryLocals, Event
<1>1. CASE DispatchCapture(d)
  <2>1. wh[d].event.order \in OrderIds /\ Entitled(wh[d].event.order)
    BY <1>0, <1>1 DEF DispatchCapture, Entitled
  <2>2. CASE UNCHANGED orders
    BY <2>2 DEF OrderEvolves
  <2>3. CASE \E modified \in BOOLEAN : MarkPlaced(wh[d].event.order, TRUE, modified)
    BY <2>1, <2>3, PlaceEvolves
  <2> QED BY <1>1, <2>2, <2>3 DEF DispatchCapture
<1>2. CASE DispatchFailed(d)
  <2>1. wh[d].event.order \in OrderIds
    BY <1>0, <1>2 DEF DispatchFailed
  <2>2. CASE UNCHANGED orders
    BY <2>2 DEF OrderEvolves
  <2>3. CASE \E modified \in BOOLEAN : MarkPaymentFailed(wh[d].event.order, modified)
    BY <2>1, <2>3, EndEvolves
  <2> QED BY <1>2, <2>2, <2>3 DEF DispatchFailed
<1>3. CASE DispatchFill(d)
  BY <1>0, <1>3, FillEvolves DEF DispatchFill, OrderEvolves
<1>4. CASE UNCHANGED orders
  BY <1>4 DEF OrderEvolves
<1>5. DispatchCapture(d) \/ DispatchFailed(d) \/ DispatchFill(d) \/ UNCHANGED orders
  BY DEF HandleWebhookNext, DeliveryStep, Deliver, CheckEvent, DispatchEffects,
         DispatchRelease, AckDelivery, DeliveryFails, storeVars
<1> QED BY <1>1, <1>2, <1>3, <1>4, <1>5

LEMMA SweepEvolves ==
  ASSUME StoreTypeOK, SweeperTypeOK, NEW s \in Sweepers, SweeperNext(s)
  PROVE  OrderEvolves
<1>1. CASE ClaimExpired(s)
  <2>1. PICK o \in sw[s].batch, modified \in BOOLEAN : MarkExpired(o, modified)
    BY <1>1 DEF ClaimExpired
  <2>2. o \in OrderIds
    BY DEF SweeperTypeOK, Tick
  <2> QED BY <2>1, <2>2, EndEvolves
<1>2. CASE UNCHANGED orders
  BY <1>2 DEF OrderEvolves
<1>3. ClaimExpired(s) \/ UNCHANGED orders
  BY DEF SweeperNext, SweeperStep, FindExpired, SweepReturn, EndTick, TickFails, storeVars
<1> QED BY <1>1, <1>2, <1>3

LEMMA LapseEvolves ==
  ASSUME StoreTypeOK, NEW o \in OrderIds, Lapse(o)
  PROVE  OrderEvolves
<1> DEFINE new == [orders[o] EXCEPT !.lapsed = TRUE]
<1>1. new \in Order /\ Annotates(o, new)
  BY DEF StoreTypeOK, Order, Annotates
<1>2. orders' = [orders EXCEPT ![o] = new]
  BY DEF Lapse
<1> HIDE DEF new
<1> QED BY <1>1, <1>2 DEF OrderEvolves, Evolves

\* Every step inserts an order under a free id for a shopper without a
\* reservation, settles a pending one, annotates one, or touches none.
LEMMA OrdersStep == TypeInv /\ [Next]_vars => OrderEvolves
<1> SUFFICES ASSUME TypeInv, [Next]_vars PROVE OrderEvolves
  OBVIOUS
<1> USE DEF TypeInv, TypeOK, LocalsOK
<1>1. ASSUME NEW u \in Users, Shopper(u) PROVE OrderEvolves
  BY <1>1, ShopperFrame DEF OrderEvolves
<1>2. ASSUME NEW o \in OrderIds, Clock(o) PROVE OrderEvolves
  BY <1>2, LapseEvolves DEF Clock
<1>3. ASSUME NEW o \in OrderIds, Pay(o) PROVE OrderEvolves
  BY <1>3, PayFrame DEF OrderEvolves
<1>4. ASSUME NEW r \in Requests, OpenCheckout(r) PROVE OrderEvolves
  BY <1>4, CheckoutEvolves DEF OpenCheckout
<1>5. ASSUME NEW c \in Callbacks, ConfirmPayment(c) PROVE OrderEvolves
  BY <1>5, CallbackEvolves DEF ConfirmPayment
<1>6. ASSUME NEW d \in Deliveries, HandleWebhook(d) PROVE OrderEvolves
  BY <1>6, DeliveryEvolves DEF HandleWebhook
<1>7. ASSUME NEW s \in Sweepers, Sweep(s) PROVE OrderEvolves
  BY <1>7, SweepEvolves DEF Sweep
<1>8. CASE UNCHANGED vars
  BY <1>8 DEF vars, OrderEvolves
<1> QED BY <1>1, <1>2, <1>3, <1>4, <1>5, <1>6, <1>7, <1>8 DEF Next

-----------------------------------------------------------------------------
(* Finality and the single reservation.                                    *)

\* What one step cannot undo.
LEMMA OrdersMonotone ==
  ASSUME TypeInv, OrderEvolves, NEW o \in OrderIds
  PROVE  /\ orders[o].status # "absent" => orders'[o].status # "absent"
         /\ orders[o].status \in Settled => orders'[o].status = orders[o].status
         /\ orders[o].status # "absent" /\ orders[o].linked => orders'[o].linked
         /\ orders'[o].status = "placed" => orders[o].status = "placed" \/ Entitled(o)
         /\ orders[o].status # "absent" => orders'[o].lines = orders[o].lines
<1>0. orders \in [OrderIds -> Order]
  BY DEF TypeInv, TypeOK, StoreTypeOK
<1>1. CASE UNCHANGED orders
  BY <1>1
<1>2. ASSUME NEW q \in OrderIds, NEW new \in Order,
             orders' = [orders EXCEPT ![q] = new], Evolves(q, new), q # o
      PROVE  orders'[o] = orders[o]
  BY <1>0, <1>2
<1>3. ASSUME NEW new \in Order, orders' = [orders EXCEPT ![o] = new], Evolves(o, new)
      PROVE  /\ orders[o].status # "absent" => orders'[o].status # "absent"
             /\ orders[o].status \in Settled => orders'[o].status = orders[o].status
             /\ orders[o].status # "absent" /\ orders[o].linked => orders'[o].linked
             /\ orders'[o].status = "placed" =>
                  orders[o].status = "placed" \/ Entitled(o)
             /\ orders[o].status # "absent" => orders'[o].lines = orders[o].lines
  <2>1. orders'[o] = new
    BY <1>0, <1>3
  <2>2. CASE Inserts(o, new)
    BY <2>1, <2>2 DEF Inserts, Document, Settled
  <2>3. CASE Settles(o, new)
    BY <2>1, <2>3 DEF Settles, Settled, IsPending
  <2>4. CASE Annotates(o, new)
    BY <2>1, <2>4 DEF Annotates
  <2> QED BY <1>3, <2>2, <2>3, <2>4 DEF Evolves
<1> QED BY <1>1, <1>2, <1>3 DEF OrderEvolves

\* Of the callback, the webhook, the sweeper and a new checkout, one ends a
\* reservation for good.
THEOREM SettlementIsFinal == Spec => SettledIsFinal
<1>1. TypeInv /\ [Next]_vars =>
        [\A o \in OrderIds :
           orders[o].status \in {"placed", "payment_failed", "expired"} =>
             orders'[o].status = orders[o].status]_vars
  BY OrdersStep, OrdersMonotone DEF Settled
<1> QED BY <1>1, TypeCorrect, PTL DEF Spec, SettledIsFinal

\* The inductive form: only a placed order has a payment method.
MethodInv == \A o \in OrderIds : orders[o].method => orders[o].status = "placed"

LEMMA MethodStep ==
  ASSUME TypeInv, MethodInv, OrderEvolves, NEW o \in OrderIds
  PROVE  /\ orders'[o].method => orders'[o].status = "placed"
         /\ orders[o].method => orders'[o].method
<1>1. CASE orders'[o] = orders[o]
  BY <1>1 DEF MethodInv
<1>2. ASSUME NEW new \in Order, orders' = [orders EXCEPT ![o] = new], Evolves(o, new)
      PROVE  /\ orders'[o].method => orders'[o].status = "placed"
             /\ orders[o].method => orders'[o].method
  <2>1. orders'[o] = new
    BY <1>2 DEF TypeInv, TypeOK, StoreTypeOK
  <2>2. CASE Inserts(o, new)
    BY <2>1, <2>2 DEF Inserts, Document, MethodInv
  <2>3. CASE Settles(o, new)
    BY <2>1, <2>3 DEF Settles, MethodInv, IsPending
  <2>4. CASE Annotates(o, new)
    BY <2>1, <2>4 DEF Annotates, MethodInv
  <2> QED BY <1>2, <2>2, <2>3, <2>4 DEF Evolves
<1>3. \/ orders'[o] = orders[o]
      \/ \E new \in Order : orders' = [orders EXCEPT ![o] = new] /\ Evolves(o, new)
  BY DEF OrderEvolves, TypeInv, TypeOK, StoreTypeOK
<1> QED BY <1>1, <1>2, <1>3

\* Neither path loses the payment method the other one recorded, and no path
\* records one for an order that is not placed.
THEOREM MethodStays == Spec => MethodIsKept
<1>1. Init => MethodInv
  BY DEF Init, StoreInit, Document, MethodInv
<1>2. TypeInv /\ MethodInv /\ [Next]_vars => MethodInv'
  BY OrdersStep, MethodStep DEF MethodInv
<1>3. TypeInv /\ MethodInv /\ [Next]_vars =>
        [\A o \in OrderIds : orders[o].method =>
           orders'[o].method /\ orders'[o].status = "placed"]_vars
  BY OrdersStep, MethodStep
<1> QED BY <1>1, <1>2, <1>3, TypeCorrect, PTL DEF Spec, MethodIsKept

\* A shopper never holds two live reservations.
THEOREM SingleReservation == Spec => []OnePendingPerUser
<1>1. Init => OnePendingPerUser
  BY DEF Init, StoreInit, OnePendingPerUser, PendingOf, IsPending, Document
<1>2. TypeInv /\ OnePendingPerUser /\ [Next]_vars => OnePendingPerUser'
  <2> SUFFICES ASSUME TypeInv, OnePendingPerUser, OrderEvolves,
                      NEW u \in Users, NEW o1 \in PendingOf(u)', NEW o2 \in PendingOf(u)'
               PROVE  o1 = o2
    BY OrdersStep DEF OnePendingPerUser
  <2>0. orders \in [OrderIds -> Order] /\ o1 \in OrderIds /\ o2 \in OrderIds
    BY DEF TypeInv, TypeOK, StoreTypeOK, PendingOf
  <2>1. CASE UNCHANGED orders
    BY <2>1 DEF OnePendingPerUser, PendingOf, IsPending
  <2>2. ASSUME NEW q \in OrderIds, NEW new \in Order,
               orders' = [orders EXCEPT ![q] = new], Evolves(q, new)
        PROVE  o1 = o2
    <3>1. CASE Inserts(q, new)
      <4>1. PICK v : PendingOf(v) = {} /\ new.user = v
        BY <3>1 DEF Inserts, Document
      <4>2. ASSUME NEW o \in PendingOf(u)', o # q PROVE v # u
        BY <2>0, <2>2, <4>1, <4>2 DEF PendingOf, IsPending
      <4>3. q \in PendingOf(u)' => v = u
        BY <2>0, <2>2, <4>1 DEF PendingOf, IsPending
      <4>4. ASSUME NEW o \in PendingOf(u)', o # q PROVE o \in PendingOf(u)
        BY <2>0, <2>2, <4>4 DEF PendingOf, IsPending
      <4> QED BY <4>2, <4>3, <4>4 DEF OnePendingPerUser
    <3>2. CASE Settles(q, new) \/ Annotates(q, new)
      <4>1. ASSUME NEW o \in PendingOf(u)' PROVE o \in PendingOf(u)
        BY <2>0, <2>2, <3>2 DEF PendingOf, IsPending, Settles, Settled, Annotates
      <4> QED BY <4>1 DEF OnePendingPerUser
    <3> QED BY <2>2, <3>1, <3>2 DEF Evolves
  <2> QED BY <2>1, <2>2 DEF OrderEvolves
<1> QED BY <1>1, <1>2, TypeCorrect, PTL DEF Spec

-----------------------------------------------------------------------------
(* Whose order it is.                                                      *)

\* A step of a request touches no other request, and it comes to hold an order
\* only by inserting it under a free id, and to answer it only by linking it.
LEMMA CheckoutMoves ==
  ASSUME StoreTypeOK, CheckoutTypeOK, CheckoutLocals, NEW r \in Requests,
         OpenCheckoutNext(r)
  PROVE  /\ \A q \in Requests : q # r => co'[q] = co[q]
         /\ co[r].pc = "opened" => co'[r] = co[r]
         /\ \A o \in OrderIds :
              /\ Inserted(r, o)' => Inserted(r, o) \/ orders[o].status = "absent"
              /\ Inserted(r, o)' /\ ~Inserted(r, o) =>
                   orders'[o].status = "pending_payment" /\ co'[r].pc = "gateway"
              /\ Inserted(r, o)' /\ Inserted(r, o) /\ co[r].pc = "compensate" =>
                   co'[r].pc = "compensate"
              /\ co'[r].pc = "opened" /\ co'[r].order = o =>
                   co[r].pc = "opened" \/ orders'[o].linked
<1> USE DEF Inserted
<1>0. co \in [Requests -> Request] /\ orders \in [OrderIds -> Order]
  BY DEF CheckoutTypeOK, StoreTypeOK
<1>1. CASE InsertOrder(r)
  <2>1. PICK o \in OrderIds :
          /\ Create(o, co[r].user, co[r].lines)
          /\ co' = [co EXCEPT ![r].pc = "gateway", ![r].order = o, ![r].tries = 0]
    BY <1>1 DEF InsertOrder
  <2>2. orders[o].status = "absent" /\ orders'[o].status = "pending_payment"
    BY <1>0, <2>1 DEF Create, Document
  <2>3. /\ co'[r].pc = "gateway" /\ co'[r].order = o
        /\ \A q \in Requests : q # r => co'[q] = co[q]
    BY <1>0, <2>1 DEF Request
  <2> QED BY <1>1, <2>2, <2>3 DEF InsertOrder
<1>2. CASE LinkRazorpayOrder(r)
  <2>1. /\ co[r].pc = "link" /\ co[r].order \in OrderIds
        /\ co' = [co EXCEPT ![r] = NotRunning("opened", co[r].order)]
        /\ orders' = [orders EXCEPT ![co[r].order].linked = TRUE]
    BY <1>2 DEF LinkRazorpayOrder, CheckoutLocals, SetRazorpayOrderID
  <2>2. /\ co'[r].pc = "opened" /\ co'[r].order = co[r].order
        /\ \A q \in Requests : q # r => co'[q] = co[q]
    BY <1>0, <2>1 DEF NotRunning
  <2>3. orders'[co[r].order].linked
    BY <1>0, <2>1 DEF Order
  <2> QED BY <2>1, <2>2, <2>3
<1>3. CASE CreateRazorpayOrder(r) \/ GatewayError(r) \/ ReleaseOrderLine(r)
  <2>1. CASE CreateRazorpayOrder(r)
    BY <1>0, <2>1 DEF CreateRazorpayOrder, Goto, Request
  <2>2. CASE GatewayError(r)
    BY <1>0, <2>2 DEF GatewayError, Goto, Request
  <2>3. CASE ReleaseOrderLine(r)
    BY <1>0, <2>3 DEF ReleaseOrderLine, Goto, Request
  <2> QED BY <1>3, <2>1, <2>2, <2>3
<1>4. CASE UndoInsert(r) \/ StopRequest(r) \/ ExpirePreviousError(r) \/ EndReleaseTaken(r)
  BY <1>0, <1>4 DEF UndoInsert, StopRequest, ExpirePreviousError, EndReleaseTaken,
     Refuse, NotRunning, Returned
<1>5. CASE \/ ExpirePrevious(r) \/ ReleaseTakenLine(r) \/ EndReleaseOld(r)
           \/ TakeLine(r) \/ TakeLineRefused(r) \/ DuplicateOrderID(r)
           \/ InsertRefused(r) \/ \E u \in Users : ReadCart(r, u)
  <2>1. /\ \A q \in Requests : q # r => co'[q] = co[q]
        /\ co'[r].pc \notin {"gateway", "link", "compensate", "opened"}
        /\ co[r].pc # "opened"
    <3>1. CASE ExpirePrevious(r)
      BY <1>0, <3>1 DEF ExpirePrevious, Goto, Request
    <3>2. CASE ReleaseTakenLine(r)
      BY <1>0, <3>2 DEF ReleaseTakenLine, Goto, Request
    <3>3. CASE EndReleaseOld(r)
      BY <1>0, <3>3 DEF EndReleaseOld, Request
    <3>4. CASE TakeLine(r)
      BY <1>0, <3>4 DEF TakeLine, Goto, Request
    <3>5. CASE TakeLineRefused(r)
      BY <1>0, <3>5 DEF TakeLineRefused, Goto, Request
    <3>6. CASE DuplicateOrderID(r)
      BY <1>0, <3>6 DEF DuplicateOrderID, Request
    <3>7. CASE InsertRefused(r)
      BY <1>0, <3>7 DEF InsertRefused, Goto, Request
    <3>8. CASE \E u \in Users : ReadCart(r, u)
      BY <1>0, <3>8 DEF ReadCart, Request
    <3> QED BY <1>5, <3>1, <3>2, <3>3, <3>4, <3>5, <3>6, <3>7, <3>8
  <2> QED BY <2>1
<1> QED BY <1>1, <1>2, <1>3, <1>4, <1>5 DEF OpenCheckoutNext, RequestStep

LEMMA InitInsert == Init => InsertInv
<1> SUFFICES ASSUME Init PROVE InsertInv
  OBVIOUS
<1>1. \A r \in Requests : co[r].pc = "idle"
  BY DEF Init, CheckoutInit, NotRunning
<1>2. \A o \in OrderIds : ~orders[o].linked
  BY DEF Init, StoreInit, Document
<1> QED BY <1>1, <1>2 DEF InsertInv, Inserted

\* A linked order exists, whatever the step.
LEMMA LinkedExists ==
  ASSUME TypeInv, InsertInv, OrderEvolves, NEW o \in OrderIds, orders'[o].linked
  PROVE  orders'[o].status # "absent"
<1>1. CASE orders'[o] = orders[o]
  BY <1>1 DEF InsertInv
<1>2. ASSUME NEW new \in Order, orders' = [orders EXCEPT ![o] = new], Evolves(o, new)
      PROVE  orders'[o].status # "absent"
  <2>1. orders'[o] = new
    BY <1>2 DEF TypeInv, TypeOK, StoreTypeOK
  <2>2. CASE Inserts(o, new) \/ Settles(o, new)
    BY <2>1, <2>2 DEF Inserts, Settles, Settled, Document
  <2>3. CASE Annotates(o, new)
    BY <2>1, <2>3 DEF Annotates, InsertInv, Inserted
  <2> QED BY <1>2, <2>2, <2>3 DEF Evolves
<1>3. \/ orders'[o] = orders[o]
      \/ \E new \in Order : orders' = [orders EXCEPT ![o] = new] /\ Evolves(o, new)
  BY DEF OrderEvolves, TypeInv, TypeOK, StoreTypeOK
<1> QED BY <1>1, <1>2, <1>3

\* A step of a handler that is not a checkout.
LEMMA InsertStable ==
  ASSUME TypeInv, InsertInv, OrderEvolves, UNCHANGED co
  PROVE  InsertInv'
<1>1. \A r \in Requests, o \in OrderIds : Inserted(r, o)' <=> Inserted(r, o)
  BY DEF Inserted
<1>2. \A r \in Requests, o \in OrderIds :
        /\ Inserted(r, o)' => orders'[o].status # "absent"
        /\ co'[r].pc = "opened" /\ co'[r].order = o => orders'[o].linked
  BY <1>1, OrdersMonotone DEF InsertInv, Inserted
<1> QED BY <1>1, <1>2, LinkedExists DEF InsertInv

LEMMA InsertCheckout ==
  ASSUME TypeInv, InsertInv, OrderEvolves, NEW r \in Requests, OpenCheckoutNext(r)
  PROVE  InsertInv'
<1> USE DEF TypeInv, TypeOK, LocalsOK
<1>1. ASSUME NEW q \in Requests, NEW o \in OrderIds, Inserted(q, o)', ~Inserted(q, o)
      PROVE  q = r /\ orders[o].status = "absent" /\ orders'[o].status = "pending_payment"
  BY <1>1, CheckoutMoves DEF Inserted
<1>2. ASSUME NEW q \in Requests, NEW o \in OrderIds, Inserted(q, o)'
      PROVE  orders'[o].status # "absent"
  BY <1>1, <1>2, OrdersMonotone DEF InsertInv
<1>3. ASSUME NEW r1 \in Requests, NEW r2 \in Requests, NEW o \in OrderIds,
             Inserted(r1, o)', Inserted(r2, o)'
      PROVE  r1 = r2
  BY <1>1, <1>3 DEF InsertInv
<1>4. ASSUME NEW q \in Requests, NEW o \in OrderIds,
             co'[q].pc = "opened", co'[q].order = o
      PROVE  orders'[o].linked
  <2>1. CASE co[q].pc = "opened" /\ co'[q] = co[q]
    BY <1>4, <2>1, OrdersMonotone DEF InsertInv, Inserted
  <2>2. CASE ~(co[q].pc = "opened" /\ co'[q] = co[q])
    BY <1>4, <2>2, CheckoutMoves
  <2> QED BY <2>1, <2>2
<1> QED BY <1>2, <1>3, <1>4, LinkedExists DEF InsertInv

LEMMA InsertStep == TypeInv /\ InsertInv /\ [Next]_vars => InsertInv'
<1> SUFFICES ASSUME TypeInv, InsertInv, [Next]_vars PROVE InsertInv'
  OBVIOUS
<1>0. OrderEvolves
  BY OrdersStep
<1>1. ASSUME NEW r \in Requests, OpenCheckout(r) PROVE InsertInv'
  BY <1>0, <1>1, InsertCheckout DEF OpenCheckout
<1>2. CASE UNCHANGED co
  BY <1>0, <1>2, InsertStable
<1>3. (\E r \in Requests : OpenCheckout(r)) \/ UNCHANGED co
  BY ShopperFrame, ClockFrame, PayFrame, CallbackFrame, DeliveryFrame, SweepFrame
     DEF Next, vars
<1> QED BY <1>1, <1>2, <1>3

-----------------------------------------------------------------------------
(* What was paid.                                                          *)

LEMMA InitPaid == Init => PaidInv
BY DEF Init, RazorpayInit, PaymentsInit, PaidInv, IdleDelivery

\* An answered request keeps its answer, and Razorpay keeps its events.
LEMMA PaidFacts ==
  ASSUME TypeInv, [Next]_vars
  PROVE  /\ \A r \in Requests : co[r].pc = "opened" => co'[r] = co[r]
         /\ emitted \subseteq emitted'
<1> USE DEF TypeInv, TypeOK, LocalsOK
<1>1. \A r \in Requests : co[r].pc = "opened" => co'[r] = co[r]
  <2>1. ASSUME NEW q \in Requests, OpenCheckout(q), NEW r \in Requests,
               co[r].pc = "opened"
        PROVE  co'[r] = co[r]
    BY <2>1, CheckoutMoves DEF OpenCheckout
  <2>2. (\E r \in Requests : OpenCheckout(r)) \/ UNCHANGED co
    BY ShopperFrame, ClockFrame, PayFrame, CallbackFrame, DeliveryFrame, SweepFrame
       DEF Next, vars
  <2> QED BY <2>1, <2>2
<1>2. emitted \subseteq emitted'
  <2>1. ASSUME NEW o \in OrderIds, Pay(o) PROVE emitted \subseteq emitted'
    BY <2>1 DEF Pay, CapturePayment, DeclinePayment
  <2>2. (\E o \in OrderIds : Pay(o)) \/ UNCHANGED emitted
    BY ShopperFrame, ClockFrame, CheckoutFrame, CallbackFrame, DeliveryFrame, SweepFrame
       DEF Next, vars
  <2> QED BY <2>1, <2>2
<1> QED BY <1>1, <1>2

\* Only a payment adds events, and about an order whose sheet is open.
LEMMA PaidEvents ==
  ASSUME TypeInv, PaidInv, [Next]_vars
  PROVE  /\ \A e \in emitted' :
              \E r \in Requests : co'[r].pc = "opened" /\ co'[r].order = e.order
         /\ \A o \in OrderIds : PaidEvent(o) \in emitted' => CaptureEvent(o) \in emitted'
<1>1. ASSUME NEW o \in OrderIds, Pay(o)
      PROVE  /\ \A e \in emitted' :
                  \E r \in Requests : co[r].pc = "opened" /\ co[r].order = e.order
             /\ \A q \in OrderIds :
                  PaidEvent(q) \in emitted' => CaptureEvent(q) \in emitted'
  <2>1. PICK r \in Requests : co[r].pc = "opened" /\ co[r].order = o
    BY <1>1 DEF Pay, CapturePayment, DeclinePayment, SheetOpen
  <2>2. emitted' \subseteq emitted \cup {CaptureEvent(o), PaidEvent(o), FailedEvent(o)}
    BY <1>1 DEF Pay, CapturePayment, DeclinePayment
  <2>3. \A e \in {CaptureEvent(o), PaidEvent(o), FailedEvent(o)} : e.order = o
    BY DEF CaptureEvent, PaidEvent, FailedEvent
  <2>4. ASSUME NEW q \in OrderIds, PaidEvent(q) \in emitted'
        PROVE  CaptureEvent(q) \in emitted'
    BY <1>1, <2>4 DEF Pay, CapturePayment, DeclinePayment, PaidInv, Captured,
       PaidEvent, CaptureEvent, FailedEvent
  <2> QED BY <2>1, <2>2, <2>3, <2>4 DEF PaidInv
<1>2. CASE UNCHANGED emitted
  BY <1>2, PaidFacts DEF PaidInv, Captured
<1>3. (\E o \in OrderIds : Pay(o)) \/ UNCHANGED emitted
  BY ShopperFrame, ClockFrame, CheckoutFrame, CallbackFrame, DeliveryFrame, SweepFrame
     DEF Next, vars
<1> QED BY <1>1, <1>2, <1>3, PaidFacts

\* A callback acts on an order only once its money was taken.
LEMMA PaidCallbacks ==
  ASSUME TypeInv, PaidInv, [Next]_vars, NEW c \in Callbacks,
         cb'[c].pc \in {"write", "effects", "reread"}
  PROVE  CaptureEvent(cb'[c].order) \in emitted'
<1>0. cb \in [Callbacks -> Callback]
  BY DEF TypeInv, TypeOK, PaymentsTypeOK
<1>1. CASE cb'[c] = cb[c]
  BY <1>1, PaidFacts DEF PaidInv, Captured
<1>2. ASSUME NEW b \in Callbacks, ConfirmPayment(b)
      PROVE  CaptureEvent(cb'[c].order) \in emitted'
  <2>1. CASE b # c
    <3>1. cb'[c] = cb[c]
      BY <1>0, <1>2, <2>1 DEF ConfirmPayment, ConfirmPaymentNext, ConfirmStep, ReadOrder,
         ConfirmPlaced, ConfirmEffects, ConfirmReread, ConfirmFails, Answer
    <3> QED BY <1>1, <3>1
  <2>2. CASE b = c /\ \E o \in OrderIds : ReadOrder(c, o)
    <3>1. PICK o \in OrderIds : ReadOrder(c, o)
      BY <2>2
    <3>2. CaptureEvent(o) \in emitted
      BY <3>1 DEF ReadOrder, Captured
    <3>3. cb'[c].order = o
      BY <1>0, <3>1 DEF ReadOrder, Callback
    <3> QED BY <3>2, <3>3, PaidFacts
  <2>3. CASE b = c /\ ~\E o \in OrderIds : ReadOrder(c, o)
    <3>1. cb'[c].order = cb[c].order /\ cb[c].pc \in {"write", "effects", "reread"}
      <4>1. CASE ConfirmPlaced(c)
        <5>1. PICK pc : cb' = [cb EXCEPT ![c].pc = pc]
          BY <4>1 DEF ConfirmPlaced
        <5> QED BY <1>0, <4>1, <5>1 DEF ConfirmPlaced, Callback
      <4>2. CASE ConfirmEffects(c) \/ ConfirmReread(c)
        BY <1>0, <4>2 DEF ConfirmEffects, ConfirmReread, Answer, Callback
      <4>3. CASE ConfirmFails(c)
        BY <1>0, <4>3 DEF ConfirmFails, Callback
      <4> QED BY <1>2, <2>3, <4>1, <4>2, <4>3
              DEF ConfirmPayment, ConfirmPaymentNext, ConfirmStep
    <3> QED BY <3>1, PaidFacts DEF PaidInv, Captured
  <2> QED BY <2>1, <2>2, <2>3
<1>3. (\E b \in Callbacks : ConfirmPayment(b)) \/ UNCHANGED cb
  BY ShopperFrame, ClockFrame, CheckoutFrame, PayFrame, DeliveryFrame, SweepFrame
     DEF Next, vars
<1> QED BY <1>1, <1>2, <1>3

\* A delivery handles an event Razorpay emitted, from start to end.
LEMMA DeliveryMoves ==
  ASSUME PaymentsTypeOK, NEW d \in Deliveries, HandleWebhookNext(d),
         NEW f \in Deliveries, wh'[f].pc # "idle"
  PROVE  \/ wh'[f].event = wh[f].event /\ wh[f].pc # "idle"
         \/ wh'[f].event \in emitted
<1>0. wh \in [Deliveries -> Delivery]
  BY DEF PaymentsTypeOK
<1>1. ASSUME NEW e \in Event, Deliver(d, e)
      PROVE  f # d => wh'[f] = wh[f]
  BY <1>0, <1>1 DEF Deliver
<1>2. ASSUME NEW e \in Event, Deliver(d, e)
      PROVE  wh'[d].event \in emitted
  BY <1>0, <1>2 DEF Deliver, Delivery
<1>3. ASSUME DeliveryStep(d)
      PROVE  wh'[f] = wh[f] \/ (wh'[f].event = wh[f].event /\ wh[f].pc # "idle")
  <2>1. CASE CheckEvent(d) \/ AckDelivery(d)
    BY <1>0, <2>1 DEF CheckEvent, AckDelivery, MoveTo, IdleDelivery, Delivery
  <2>2. CASE DispatchCapture(d) \/ DispatchFill(d) \/ DispatchEffects(d)
    <3>1. wh[d].pc # "idle" /\ \E pc : MoveTo(d, pc)
      BY <2>2 DEF DispatchCapture, DispatchFill, DispatchEffects
    <3> QED BY <1>0, <3>1 DEF MoveTo, Delivery
  <2>3. CASE DispatchFailed(d)
    <3>1. wh[d].pc # "idle"
      BY <2>3 DEF DispatchFailed
    <3>2. CASE MoveTo(d, "mark")
      BY <1>0, <3>1, <3>2 DEF MoveTo, Delivery
    <3>3. CASE ByRazorpayOrderID(wh[d].event.order)
      <4>1. PICK modified \in BOOLEAN :
              wh' = [wh EXCEPT ![d].pc = IF modified THEN "release" ELSE "mark",
                               ![d].todo = IF modified
                                             THEN Items(orders[wh[d].event.order].lines)
                                             ELSE {}]
        BY <2>3, <3>3 DEF DispatchFailed
      <4> DEFINE rec == [wh[d] EXCEPT
                           !.pc = IF modified THEN "release" ELSE "mark",
                           !.todo = IF modified
                                      THEN Items(orders[wh[d].event.order].lines)
                                      ELSE {}]
      <4>2. rec.event = wh[d].event
        BY <1>0 DEF Delivery
      <4>3. wh' = [wh EXCEPT ![d] = rec]
        BY <1>0, <4>1
      <4> HIDE DEF rec
      <4> QED BY <1>0, <3>1, <4>2, <4>3
    <3> QED BY <2>3, <3>2, <3>3 DEF DispatchFailed
  <2>4. CASE DispatchRelease(d)
    BY <1>0, <2>4 DEF DispatchRelease, Delivery
  <2> QED BY <1>3, <2>1, <2>2, <2>3, <2>4 DEF DeliveryStep
<1>4. CASE DeliveryFails(d)
  BY <1>0, <1>4 DEF DeliveryFails, IdleDelivery
<1> QED BY <1>1, <1>2, <1>3, <1>4 DEF HandleWebhookNext

LEMMA PaidStep == TypeInv /\ PaidInv /\ [Next]_vars => PaidInv'
<1> SUFFICES ASSUME TypeInv, PaidInv, [Next]_vars PROVE PaidInv'
  OBVIOUS
<1>1. ASSUME NEW d \in Deliveries, wh'[d].pc # "idle" PROVE wh'[d].event \in emitted'
  <2>1. ASSUME NEW f \in Deliveries, HandleWebhook(f) PROVE wh'[d].event \in emitted'
    BY <1>1, <2>1, DeliveryMoves, PaidFacts
       DEF HandleWebhook, PaidInv, TypeInv, TypeOK
  <2>2. CASE UNCHANGED wh
    BY <1>1, <2>2, PaidFacts DEF PaidInv
  <2>3. (\E f \in Deliveries : HandleWebhook(f)) \/ UNCHANGED wh
    BY ShopperFrame, ClockFrame, CheckoutFrame, PayFrame, CallbackFrame, SweepFrame
       DEF Next, vars
  <2> QED BY <2>1, <2>2, <2>3
<1> QED BY <1>1, PaidEvents, PaidCallbacks DEF PaidInv, Captured, PaidEvent, CaptureEvent

\* Whoever is entitled to place an order acts on money that was taken.
LEMMA EntitledIsPaid ==
  ASSUME TypeInv, PaidInv, NEW o \in OrderIds, Entitled(o)
  PROVE  Captured(o)
<1>1. ASSUME NEW d \in Deliveries, wh[d].pc = "dispatch", wh[d].event.order = o,
             wh[d].event.kind \in {"payment.captured", "order.paid"}
      PROVE  Captured(o)
  <2>1. wh[d].event \in Event /\ wh[d].event \in emitted
    BY <1>1 DEF PaidInv, TypeInv, LocalsOK, DeliveryLocals
  <2>2. wh[d].event = CaptureEvent(o) \/ wh[d].event = PaidEvent(o)
    BY <1>1, <2>1 DEF Event, CaptureEvent, PaidEvent
  <2> QED BY <2>1, <2>2 DEF PaidInv, Captured
<1>2. ASSUME NEW c \in Callbacks, cb[c].pc = "write", cb[c].order = o
      PROVE  Captured(o)
  BY <1>2 DEF PaidInv
<1> QED BY <1>1, <1>2 DEF Entitled

\* The money of a placed order was taken.
THEOREM PaidOrders ==
  Spec => [](TypeInv /\ InsertInv /\ PaidInv /\ PlacedWasPaid)
<1>1. Init => InsertInv /\ PaidInv /\ PlacedWasPaid
  BY InitInsert, InitPaid DEF Init, StoreInit, Document, PlacedWasPaid
<1>2. TypeInv /\ PaidInv /\ PlacedWasPaid /\ [Next]_vars => PlacedWasPaid'
  <2> SUFFICES ASSUME TypeInv, PaidInv, PlacedWasPaid, [Next]_vars,
                      NEW o \in OrderIds, orders'[o].status = "placed"
               PROVE  CaptureEvent(o) \in emitted'
    BY DEF PlacedWasPaid, Captured, CaptureEvent
  <2>1. orders[o].status = "placed" \/ Entitled(o)
    BY OrdersStep, OrdersMonotone
  <2> QED BY <2>1, EntitledIsPaid, PaidFacts DEF PlacedWasPaid, Captured
<1> QED BY <1>1, <1>2, InsertStep, PaidStep, TypeCorrect, PTL DEF Spec

\* No path places an order whose money has not been captured.
THEOREM NothingUnpaidIsPlaced == Spec => []PlacedWasPaid
BY PaidOrders, PTL

\* The id Razorpay reports is committed before the shopper can pay.
THEOREM NoCaptureIsUnknown == Spec => []CaptureFindsItsOrder
<1>1. TypeInv /\ InsertInv /\ PaidInv => CaptureFindsItsOrder
  BY DEF TypeInv, TypeOK, RazorpayTypeOK, Event, InsertInv, PaidInv,
         CaptureFindsItsOrder, ByRazorpayOrderID
<1> QED BY <1>1, PaidOrders, PTL

-----------------------------------------------------------------------------
(* Who may put the units of an order back on the shelf, and what a         *)
(* processed event has done, whatever fails.  The units of a placed order  *)
(* stay sold: an order is placed only if it was answered to its shopper,   *)
(* and what was put back of a live order belongs to a checkout that        *)
(* compensates and never answers.  A delivery acknowledges an event only   *)
(* past its dispatch, where the order is settled or its amount was         *)
(* refused.                                                                *)

LEMMA EndedIsFinal ==
  ASSUME TypeInv, OrderEvolves, NEW o \in OrderIds, orders[o].status \in Ended
  PROVE  orders'[o].status \in Ended
BY OrdersMonotone DEF Ended, Settled

-----------------------------------------------------------------------------
(* ReleaseInv.                                                             *)

LEMMA ReleaseCheckout ==
  ASSUME TypeInv, ReleaseInv, OrderEvolves, NEW r \in Requests, OpenCheckoutNext(r),
         NEW q \in Requests, co'[q].pc = "releaseOld"
  PROVE  orders'[co'[q].order].status \in Ended
<1> USE DEF TypeInv, TypeOK, LocalsOK
<1>0. co \in [Requests -> Request] /\ orders \in [OrderIds -> Order]
  BY DEF CheckoutTypeOK, StoreTypeOK
<1>1. CASE co[q].pc = "releaseOld" /\ co'[q].order = co[q].order
  BY <1>1, EndedIsFinal DEF ReleaseInv, CheckoutLocals
<1>2. CASE q # r
  BY <1>1, <1>2, CheckoutMoves
<1>3. CASE ExpirePrevious(r) /\ q = r
  <2>1. PICK found \in OrderIds \cup {NoOrder} :
          /\ ExpirePendingForUser(co[r].user, found)
          /\ IF found = NoOrder
               THEN Goto(r, "take", Items(co[r].lines))
               ELSE co' = [co EXCEPT ![r].pc = "releaseOld", ![r].order = found,
                                     ![r].todo = Items(orders[found].lines)]
    BY <1>3 DEF ExpirePrevious
  <2>2. found # NoOrder
    BY <1>0, <1>3, <2>1 DEF Goto, Request
  <2>3. co'[r].order = found
    BY <1>0, <2>1, <2>2 DEF Request
  <2>4. found \in OrderIds /\ orders' = [orders EXCEPT ![found].status = "expired"]
    BY <2>1, <2>2 DEF ExpirePendingForUser
  <2>5. orders'[found].status = "expired"
    BY <1>0, <2>4 DEF Order
  <2> QED BY <1>3, <2>3, <2>5 DEF Ended
<1>4. CASE ReleaseOrderLine(r) /\ q = r
  BY <1>0, <1>1, <1>4 DEF ReleaseOrderLine, Goto, Request
<1>5. CASE ~ExpirePrevious(r) /\ ~ReleaseOrderLine(r) /\ q = r
  <2>1. co'[r].pc # "releaseOld"
    <3>1. CASE ReleaseTakenLine(r) \/ EndReleaseOld(r)
      BY <1>0, <3>1 DEF ReleaseTakenLine, EndReleaseOld, Goto, Request
    <3>6. CASE EndReleaseTaken(r) \/ UndoInsert(r) \/ ExpirePreviousError(r) \/ StopRequest(r)
      <4>1. Refuse(r)
        BY <3>6 DEF EndReleaseTaken, UndoInsert, ExpirePreviousError, StopRequest
      <4> QED BY <1>0, <4>1 DEF Refuse, NotRunning
    <3>2. CASE TakeLine(r) \/ TakeLineRefused(r) \/ InsertRefused(r)
      BY <1>0, <3>2 DEF TakeLine, TakeLineRefused, InsertRefused, Goto, Request
    <3>3. CASE InsertOrder(r)
      BY <1>0, <3>3 DEF InsertOrder, Request
    <3>7. CASE DuplicateOrderID(r)
      BY <1>0, <3>7 DEF DuplicateOrderID, Request
    <3>4. CASE CreateRazorpayOrder(r) \/ LinkRazorpayOrder(r) \/ GatewayError(r)
      BY <1>0, <3>4 DEF CreateRazorpayOrder, LinkRazorpayOrder, GatewayError, Goto,
         NotRunning, Request
    <3>5. CASE \E u \in Users : ReadCart(r, u)
      BY <1>0, <3>5 DEF ReadCart, Request
    <3> QED BY <1>5, <3>1, <3>2, <3>3, <3>4, <3>5, <3>6, <3>7
           DEF OpenCheckoutNext, RequestStep
  <2> QED BY <1>5, <2>1
<1> QED BY <1>2, <1>3, <1>4, <1>5

\* A delivery that releases failed the order itself.
LEMMA ReleaseDelivery ==
  ASSUME TypeInv, ReleaseInv, OrderEvolves, NEW d \in Deliveries, HandleWebhookNext(d),
         NEW f \in Deliveries, wh'[f].pc = "release"
  PROVE  orders'[wh'[f].event.order].status \in Ended
<1> USE DEF TypeInv, TypeOK, LocalsOK
<1>0. wh \in [Deliveries -> Delivery] /\ orders \in [OrderIds -> Order]
  BY DEF PaymentsTypeOK, StoreTypeOK
<1>1. CASE wh[f].pc = "release" /\ wh'[f].event = wh[f].event
  <2>1. wh[f].event.order \in OrderIds
    BY <1>1 DEF DeliveryLocals, Event
  <2> QED BY <1>1, <2>1, EndedIsFinal DEF ReleaseInv
<1>2. CASE DispatchFailed(d) /\ f = d /\ ByRazorpayOrderID(wh[d].event.order)
  <2> DEFINE o == wh[d].event.order
  <2>0. o \in OrderIds
    BY <1>2 DEF DispatchFailed, DeliveryLocals, Event
  <2>1. PICK modified \in BOOLEAN :
          /\ MarkPaymentFailed(o, modified)
          /\ wh' = [wh EXCEPT ![d].pc = IF modified THEN "release" ELSE "mark",
                              ![d].todo = IF modified THEN Items(orders[o].lines) ELSE {}]
    BY <1>2 DEF DispatchFailed
  <2> DEFINE rec == [wh[d] EXCEPT !.pc = IF modified THEN "release" ELSE "mark",
                                  !.todo = IF modified THEN Items(orders[o].lines) ELSE {}]
  <2>2. /\ rec.event = wh[d].event
        /\ rec.pc = "release" => modified
    BY <1>0 DEF Delivery
  <2>3. wh' = [wh EXCEPT ![d] = rec]
    BY <1>0, <2>1
  <2> HIDE DEF rec
  <2>4. modified /\ wh'[f].event = wh[d].event
    BY <1>0, <1>2, <2>2, <2>3
  <2>5. orders'[o].status = "payment_failed"
    BY <1>0, <2>0, <2>1, <2>4 DEF MarkPaymentFailed, Order
  <2> QED BY <2>4, <2>5 DEF Ended
<1>3. CASE ~(DispatchFailed(d) /\ f = d /\ ByRazorpayOrderID(wh[d].event.order))
  <2>1. CASE f # d
    <3>1. wh'[f] = wh[f]
      BY <1>0, <2>1 DEF HandleWebhookNext, DeliveryStep, Deliver, CheckEvent,
         DispatchCapture, DispatchFill, DispatchEffects, DispatchFailed,
         DispatchRelease, AckDelivery, DeliveryFails, MoveTo
    <3> QED BY <1>1, <3>1
  <2>2. CASE f = d /\ DispatchRelease(d)
    BY <1>0, <1>1, <2>2 DEF DispatchRelease, Delivery
  <2>3. CASE f = d /\ ~DispatchRelease(d)
    <3>1. wh'[d].pc # "release"
      <4>1. ASSUME NEW e \in Event, Deliver(d, e) PROVE wh'[d].pc # "release"
        BY <1>0, <4>1 DEF Deliver, Delivery
      <4>2. CASE CheckEvent(d) \/ AckDelivery(d) \/ DeliveryFails(d)
        <5>1. wh' = [wh EXCEPT ![d] = IdleDelivery] \/ MoveTo(d, "dispatch")
          BY <4>2 DEF CheckEvent, AckDelivery, DeliveryFails
        <5> QED BY <1>0, <5>1 DEF MoveTo, IdleDelivery, Delivery
      <4>3. CASE DispatchCapture(d)
        <5>1. \E pc \in {"effects", "fill", "mark"} : MoveTo(d, pc)
          BY <4>3 DEF DispatchCapture
        <5> QED BY <1>0, <5>1 DEF MoveTo, Delivery
      <4>4. CASE DispatchFailed(d)
        <5>1. MoveTo(d, "mark")
          BY <1>3, <2>3, <4>4 DEF DispatchFailed
        <5> QED BY <1>0, <5>1 DEF MoveTo, Delivery
      <4>5. CASE DispatchFill(d) \/ DispatchEffects(d)
        BY <1>0, <4>5 DEF DispatchFill, DispatchEffects, MoveTo, Delivery
      <4> QED BY <2>3, <4>1, <4>2, <4>3, <4>4, <4>5 DEF HandleWebhookNext, DeliveryStep
    <3> QED BY <2>3, <3>1
  <2> QED BY <2>1, <2>2, <2>3
<1> QED BY <1>2, <1>3

\* A sweeper that releases expired the order itself.
LEMMA ReleaseSweep ==
  ASSUME TypeInv, ReleaseInv, OrderEvolves, NEW s \in Sweepers, SweeperNext(s),
         NEW f \in Sweepers, sw'[f].pc = "release"
  PROVE  orders'[sw'[f].order].status \in Ended
<1> USE DEF TypeInv, TypeOK, LocalsOK
<1>0. sw \in [Sweepers -> Tick] /\ orders \in [OrderIds -> Order]
  BY DEF SweeperTypeOK, StoreTypeOK
<1>1. CASE sw[f].pc = "release" /\ sw'[f].order = sw[f].order
  BY <1>1, EndedIsFinal DEF ReleaseInv, SweeperLocals
<1>2. CASE f # s
  <2>1. sw'[f] = sw[f]
    BY <1>0, <1>2 DEF SweeperNext, SweeperStep, FindExpired, ClaimExpired, SweepReturn,
       EndTick, TickFails
  <2> QED BY <1>1, <2>1
<1>3. CASE f = s /\ ClaimExpired(s)
  <2>1. PICK o \in sw[s].batch, modified \in BOOLEAN :
          /\ MarkExpired(o, modified)
          /\ sw' = [sw EXCEPT
               ![s] = IF modified
                        THEN [pc |-> "release", batch |-> sw[s].batch \ {o},
                              order |-> o, todo |-> Items(orders[o].lines)]
                        ELSE [sw[s] EXCEPT !.batch = @ \ {o}]]
    BY <1>3 DEF ClaimExpired
  <2>2. o \in OrderIds /\ sw[s].pc = "claim"
    BY <1>0, <1>3 DEF Tick, ClaimExpired
  <2>3. modified
    <3> SUFFICES ASSUME ~modified PROVE FALSE
      OBVIOUS
    <3>1. sw'[s] = [sw[s] EXCEPT !.batch = @ \ {o}]
      BY <1>0, <2>1
    <3>2. sw'[s].pc = "claim"
      BY <1>0, <2>2, <3>1 DEF Tick
    <3> QED BY <1>3, <3>2
  <2>4. sw'[s].order = o
    BY <1>0, <2>1, <2>3
  <2>5. orders'[o].status = "expired"
    BY <1>0, <2>1, <2>2, <2>3 DEF MarkExpired, Order
  <2> QED BY <1>3, <2>4, <2>5 DEF Ended
<1>4. CASE f = s /\ SweepReturn(s)
  BY <1>0, <1>1, <1>4 DEF SweepReturn, Tick
<1>5. CASE f = s /\ ~ClaimExpired(s) /\ ~SweepReturn(s)
  BY <1>0, <1>5 DEF SweeperNext, SweeperStep, FindExpired, EndTick, TickFails, NoTick, Tick
<1> QED BY <1>2, <1>3, <1>4, <1>5

LEMMA ReleaseStep == TypeInv /\ ReleaseInv /\ [Next]_vars => ReleaseInv'
<1> SUFFICES ASSUME TypeInv, ReleaseInv, [Next]_vars PROVE ReleaseInv'
  OBVIOUS
<1>0. OrderEvolves
  BY OrdersStep
<1>1. ASSUME NEW r \in Requests, co'[r].pc = "releaseOld"
      PROVE  orders'[co'[r].order].status \in Ended
  <2>1. ASSUME NEW q \in Requests, OpenCheckout(q)
        PROVE  orders'[co'[r].order].status \in Ended
    BY <1>0, <1>1, <2>1, ReleaseCheckout DEF OpenCheckout
  <2>2. CASE UNCHANGED co
    BY <1>0, <1>1, <2>2, EndedIsFinal DEF ReleaseInv, TypeInv, LocalsOK, CheckoutLocals
  <2>3. (\E q \in Requests : OpenCheckout(q)) \/ UNCHANGED co
    BY ShopperFrame, ClockFrame, PayFrame, CallbackFrame, DeliveryFrame, SweepFrame
       DEF Next, vars
  <2> QED BY <2>1, <2>2, <2>3
<1>2. ASSUME NEW d \in Deliveries, wh'[d].pc = "release"
      PROVE  orders'[wh'[d].event.order].status \in Ended
  <2>1. ASSUME NEW f \in Deliveries, HandleWebhook(f)
        PROVE  orders'[wh'[d].event.order].status \in Ended
    BY <1>0, <1>2, <2>1, ReleaseDelivery DEF HandleWebhook
  <2>2. CASE UNCHANGED wh
    <3>1. wh[d].event.order \in OrderIds
      BY <1>2, <2>2 DEF TypeInv, LocalsOK, DeliveryLocals, Event
    <3> QED BY <1>0, <1>2, <2>2, <3>1, EndedIsFinal DEF ReleaseInv
  <2>3. (\E f \in Deliveries : HandleWebhook(f)) \/ UNCHANGED wh
    BY ShopperFrame, ClockFrame, CheckoutFrame, PayFrame, CallbackFrame, SweepFrame
       DEF Next, vars
  <2> QED BY <2>1, <2>2, <2>3
<1>3. ASSUME NEW s \in Sweepers, sw'[s].pc = "release"
      PROVE  orders'[sw'[s].order].status \in Ended
  <2>1. ASSUME NEW f \in Sweepers, Sweep(f)
        PROVE  orders'[sw'[s].order].status \in Ended
    BY <1>0, <1>3, <2>1, ReleaseSweep DEF Sweep
  <2>2. CASE UNCHANGED sw
    BY <1>0, <1>3, <2>2, EndedIsFinal DEF ReleaseInv, TypeInv, LocalsOK, SweeperLocals
  <2>3. (\E f \in Sweepers : Sweep(f)) \/ UNCHANGED sw
    BY ShopperFrame, ClockFrame, CheckoutFrame, PayFrame, CallbackFrame, DeliveryFrame
       DEF Next, vars
  <2> QED BY <2>1, <2>2, <2>3
<1> QED BY <1>1, <1>2, <1>3 DEF ReleaseInv

-----------------------------------------------------------------------------
(* ReturnsInv.                                                             *)

\* Units of an order come back only from an order that has ended, or from the
\* compensation of the checkout that inserted it.
LEMMA WhoReturns ==
  ASSUME TypeInv, ReleaseInv, [Next]_vars, NEW o \in OrderIds, NEW p \in Products,
         returns'[o][p] # returns[o][p]
  PROVE  \/ orders[o].status \in Ended
         \/ \E r \in Requests : co[r].pc = "compensate" /\ co[r].order = o
<1> USE DEF TypeInv, TypeOK, LocalsOK
<1>0. returns \in [OrderIds -> [Products -> Nat]]
  BY DEF StoreTypeOK
<1>1. ASSUME NEW q \in OrderIds, NEW x \in Products, ReturnLine(q, x) PROVE q = o
  BY <1>0, <1>1 DEF ReturnLine
<1>2. ASSUME NEW r \in Requests, OpenCheckout(r)
      PROVE  ReleaseOrderLine(r)
  BY <1>2 DEF OpenCheckout, OpenCheckoutNext, RequestStep, ReadCart, ExpirePrevious,
     ExpirePreviousError, ReleaseTakenLine, EndReleaseOld, EndReleaseTaken, TakeLine,
     TakeLineRefused, InsertOrder, DuplicateOrderID, InsertRefused, CreateRazorpayOrder,
     LinkRazorpayOrder, GatewayError, UndoInsert, StopRequest, storeVars
<1>3. ASSUME NEW r \in Requests, ReleaseOrderLine(r)
      PROVE  \/ orders[o].status \in Ended
             \/ co[r].pc = "compensate" /\ co[r].order = o
  <2>1. co[r].pc \in {"releaseOld", "compensate"} /\ co[r].order \in OrderIds
    BY <1>3 DEF ReleaseOrderLine, CheckoutLocals
  <2>2. \E x \in Products : ReturnLine(co[r].order, x)
    BY <1>3 DEF ReleaseOrderLine, CheckoutTypeOK, Request
  <2> QED BY <1>1, <2>1, <2>2 DEF ReleaseInv
<1>4. ASSUME NEW d \in Deliveries, HandleWebhook(d)
      PROVE  orders[o].status \in Ended
  <2>1. DispatchRelease(d)
    BY <1>4 DEF HandleWebhook, HandleWebhookNext, DeliveryStep, Deliver, CheckEvent,
       DispatchCapture, DispatchFill, DispatchEffects, DispatchFailed, AckDelivery,
       DeliveryFails, storeVars
  <2>2. wh[d].pc = "release" /\ wh[d].event.order \in OrderIds
    BY <2>1 DEF DispatchRelease, DeliveryLocals, Event
  <2>3. \E x \in Products : ReturnLine(wh[d].event.order, x)
    BY <2>1 DEF DispatchRelease, PaymentsTypeOK, Delivery
  <2> QED BY <1>1, <2>2, <2>3 DEF ReleaseInv
<1>5. ASSUME NEW s \in Sweepers, Sweep(s)
      PROVE  orders[o].status \in Ended
  <2>1. SweepReturn(s)
    BY <1>5 DEF Sweep, SweeperNext, SweeperStep, FindExpired, ClaimExpired, EndTick,
       TickFails, storeVars
  <2>2. sw[s].pc = "release" /\ sw[s].order \in OrderIds
    BY <2>1 DEF SweepReturn, SweeperLocals
  <2>3. \E x \in Products : ReturnLine(sw[s].order, x)
    BY <2>1 DEF SweepReturn, SweeperTypeOK, Tick
  <2> QED BY <1>1, <2>2, <2>3 DEF ReleaseInv
<1>6. \/ \E r \in Requests : OpenCheckout(r)
      \/ \E d \in Deliveries : HandleWebhook(d)
      \/ \E s \in Sweepers : Sweep(s)
  BY ShopperFrame, ClockFrame, PayFrame, CallbackFrame DEF Next, vars
<1> QED BY <1>2, <1>3, <1>4, <1>5, <1>6

\* A compensating checkout does not come back to life.
LEMMA CompensationLasts ==
  ASSUME TypeInv, InsertInv, [Next]_vars, NEW o \in OrderIds,
         orders[o].status # "absent",
         \A r \in Requests : Inserted(r, o) => co[r].pc = "compensate"
  PROVE  \A r \in Requests : Inserted(r, o)' => co'[r].pc = "compensate"
<1> USE DEF TypeInv, TypeOK, LocalsOK
<1>1. ASSUME NEW q \in Requests, OpenCheckout(q), NEW r \in Requests, Inserted(r, o)'
      PROVE  co'[r].pc = "compensate"
  <2>1. CASE r # q
    BY <1>1, <2>1, CheckoutMoves DEF OpenCheckout, Inserted
  <2>2. CASE r = q
    BY <1>1, <2>2, CheckoutMoves DEF OpenCheckout
  <2> QED BY <2>1, <2>2
<1>2. CASE UNCHANGED co
  BY <1>2 DEF Inserted
<1>3. (\E q \in Requests : OpenCheckout(q)) \/ UNCHANGED co
  BY ShopperFrame, ClockFrame, PayFrame, CallbackFrame, DeliveryFrame, SweepFrame
     DEF Next, vars
<1> QED BY <1>1, <1>2, <1>3

LEMMA ReturnsStep ==
  TypeInv /\ InsertInv /\ ReleaseInv /\ ReturnsInv /\ [Next]_vars => ReturnsInv'
<1> SUFFICES ASSUME TypeInv, InsertInv, ReleaseInv, ReturnsInv, [Next]_vars,
                    NEW o \in OrderIds, NEW p \in Products, returns'[o][p] # 0
             PROVE  /\ orders'[o].status # "absent"
                    /\ \/ orders'[o].status \in Ended
                       \/ \A r \in Requests : Inserted(r, o)' => co'[r].pc = "compensate"
  BY DEF ReturnsInv
<1>1. /\ orders[o].status # "absent"
      /\ \/ orders[o].status \in Ended
         \/ \A r \in Requests : Inserted(r, o) => co[r].pc = "compensate"
  <2>1. CASE returns'[o][p] = returns[o][p]
    BY <2>1 DEF ReturnsInv
  <2>2. ASSUME NEW q \in Requests, co[q].pc = "compensate", co[q].order = o
        PROVE  /\ orders[o].status # "absent"
               /\ \A r \in Requests : Inserted(r, o) => co[r].pc = "compensate"
    BY <2>2 DEF InsertInv, Inserted
  <2> QED BY <2>1, <2>2, WhoReturns DEF Ended
<1> QED BY <1>1, OrdersStep, OrdersMonotone, EndedIsFinal, CompensationLasts

LEMMA InitRelease == Init => ReleaseInv /\ ReturnsInv
BY DEF Init, StoreInit, EmptyBasket, CheckoutInit, NotRunning, PaymentsInit, IdleDelivery,
       SweeperInit, NoTick, ReleaseInv, ReturnsInv

\* The units of a placed order are never put back on the shelf.
THEOREM SoldStaysSold == Spec => []PlacedKeepsItsUnits
<1>1. /\ TypeInv /\ InsertInv /\ PaidInv /\ PlacedWasPaid
      /\ ReturnsInv
      => PlacedKeepsItsUnits
  <2> SUFFICES ASSUME PaidInv, PlacedWasPaid, ReturnsInv, NEW o \in OrderIds,
                      orders[o].status = "placed", NEW p \in Products
               PROVE  returns[o][p] = 0
    BY DEF PlacedKeepsItsUnits
  <2>1. CaptureEvent(o) \in emitted
    BY DEF PlacedWasPaid, Captured
  <2>2. PICK r \in Requests : co[r].pc = "opened" /\ co[r].order = o
    BY <2>1 DEF PaidInv, CaptureEvent
  <2> QED BY <2>2 DEF ReturnsInv, Inserted, Ended
<1> QED BY <1>1, InitRelease, ReleaseStep, ReturnsStep, PaidOrders, PTL DEF Spec

\* While no checkout compensates, units go back only for an ended reservation.
THEOREM UnitsFollowTheEnd == Spec /\ []NobodyCompensates => ReturnsFollowTheEnd
<1>1. TypeInv /\ TypeInv' /\ ReleaseInv /\ NobodyCompensates /\ [Next]_vars =>
        [\A o \in OrderIds :
           returns'[o] # returns[o] => orders[o].status \in {"payment_failed", "expired"}]_vars
  <2> SUFFICES ASSUME TypeInv, TypeInv', ReleaseInv, NobodyCompensates, [Next]_vars,
                      NEW o \in OrderIds, returns'[o] # returns[o]
               PROVE  orders[o].status \in {"payment_failed", "expired"}
    OBVIOUS
  <2>1. returns[o] \in [Products -> Nat] /\ returns'[o] \in [Products -> Nat]
    BY DEF TypeInv, TypeOK, StoreTypeOK
  <2>2. PICK p \in Products : returns'[o][p] # returns[o][p]
    BY <2>1
  <2> QED BY <2>2, WhoReturns DEF NobodyCompensates, Ended
<1> QED BY <1>1, InitRelease, ReleaseStep, TypeCorrect, PTL DEF Spec, ReturnsFollowTheEnd

-----------------------------------------------------------------------------
(* Each line goes back at most once.                                       *)

\* What a step of a handler does to a line it may owe: it starts to owe it by
\* ending the reservation, it goes on, it puts it back, or it gives up.
Pays(o, p, owes, owed) ==
  \/ /\ returns'[o][p] = returns[o][p]
     /\ owes => owed \/ IsPending(o)
  \/ returns'[o][p] = returns[o][p] + 1 /\ owed /\ ~owes

LEMMA ReturnPays ==
  ASSUME TypeInv, NEW q \in OrderIds, NEW x \in Products, ReturnLine(q, x),
         NEW o \in OrderIds, NEW p \in Products
  PROVE  \/ returns'[o][p] = returns[o][p]
         \/ returns'[o][p] = returns[o][p] + 1 /\ o = q /\ p = x
<1>1. returns \in [OrderIds -> [Products -> Nat]]
  BY DEF TypeInv, TypeOK, StoreTypeOK
<1> QED BY <1>1 DEF ReturnLine

LEMMA CheckoutPays ==
  ASSUME TypeInv, NobodyCompensates, NEW r \in Requests, OpenCheckoutNext(r),
         NEW o \in OrderIds, NEW p \in Products
  PROVE  Pays(o, p, CheckoutOwes(r, o, p)', CheckoutOwes(r, o, p))
<1> USE DEF TypeInv, TypeOK, LocalsOK
<1>0. co \in [Requests -> Request]
  BY DEF CheckoutTypeOK
<1>1. CASE ExpirePrevious(r)
  <2>1. UNCHANGED returns
    BY <1>1 DEF ExpirePrevious
  <2>2. PICK found \in OrderIds \cup {NoOrder} :
          /\ ExpirePendingForUser(co[r].user, found)
          /\ IF found = NoOrder
               THEN Goto(r, "take", Items(co[r].lines))
               ELSE co' = [co EXCEPT ![r].pc = "releaseOld", ![r].order = found,
                                     ![r].todo = Items(orders[found].lines)]
    BY <1>1 DEF ExpirePrevious
  <2>3. CASE found = NoOrder
    BY <1>0, <2>1, <2>2, <2>3 DEF Goto, Request, CheckoutOwes, Pays
  <2>4. CASE found # NoOrder
    <3>1. co'[r].order = found /\ IsPending(found)
      BY <1>0, <2>2, <2>4 DEF Request, ExpirePendingForUser, PendingOf
    <3> QED BY <2>1, <3>1 DEF CheckoutOwes, Pays
  <2> QED BY <2>3, <2>4
<1>2. CASE ReleaseOrderLine(r)
  <2>1. co[r].pc = "releaseOld" /\ co[r].order \in OrderIds
    BY <1>2 DEF ReleaseOrderLine, NobodyCompensates, CheckoutLocals
  <2>2. PICK x \in co[r].todo : ReturnLine(co[r].order, x) /\ Goto(r, "releaseOld", co[r].todo \ {x})
    BY <1>2, <2>1 DEF ReleaseOrderLine
  <2>3. co'[r].pc = "releaseOld" /\ co'[r].order = co[r].order /\ co'[r].todo = co[r].todo \ {x}
    BY <1>0, <2>2 DEF Goto, Request
  <2>4. x \in Products
    BY <1>0, <2>2 DEF Request
  <2>5. \/ returns'[o][p] = returns[o][p]
        \/ returns'[o][p] = returns[o][p] + 1 /\ o = co[r].order /\ p = x
    BY <2>1, <2>2, <2>4, ReturnPays
  <2> QED BY <2>1, <2>2, <2>3, <2>5 DEF CheckoutOwes, Pays
<1>3. CASE ~ExpirePrevious(r) /\ ~ReleaseOrderLine(r)
  <2>1. UNCHANGED returns
    BY <1>3 DEF OpenCheckoutNext, RequestStep, ReadCart, ExpirePreviousError,
       ReleaseTakenLine, EndReleaseOld, EndReleaseTaken, TakeLine, TakeLineRefused,
       InsertOrder, DuplicateOrderID, InsertRefused, CreateRazorpayOrder,
       LinkRazorpayOrder, GatewayError, UndoInsert, StopRequest, storeVars
  <2>2. co'[r].pc # "releaseOld"
    <3>1. CASE ReleaseTakenLine(r) \/ EndReleaseOld(r)
      BY <1>0, <3>1 DEF ReleaseTakenLine, EndReleaseOld, Goto, Request
    <3>2. CASE EndReleaseTaken(r) \/ UndoInsert(r) \/ ExpirePreviousError(r) \/ StopRequest(r)
      <4>1. Refuse(r)
        BY <3>2 DEF EndReleaseTaken, UndoInsert, ExpirePreviousError, StopRequest
      <4> QED BY <1>0, <4>1 DEF Refuse, NotRunning
    <3>3. CASE TakeLine(r) \/ TakeLineRefused(r) \/ InsertRefused(r)
      BY <1>0, <3>3 DEF TakeLine, TakeLineRefused, InsertRefused, Goto, Request
    <3>4. CASE InsertOrder(r)
      BY <1>0, <3>4 DEF InsertOrder, Request
    <3>5. CASE DuplicateOrderID(r)
      BY <1>0, <3>5 DEF DuplicateOrderID, Request
    <3>6. CASE CreateRazorpayOrder(r) \/ LinkRazorpayOrder(r) \/ GatewayError(r)
      BY <1>0, <3>6 DEF CreateRazorpayOrder, LinkRazorpayOrder, GatewayError, Goto,
         NotRunning, Request
    <3>7. CASE \E u \in Users : ReadCart(r, u)
      BY <1>0, <3>7 DEF ReadCart, Request
    <3> QED BY <1>3, <3>1, <3>2, <3>3, <3>4, <3>5, <3>6, <3>7
           DEF OpenCheckoutNext, RequestStep
  <2> QED BY <2>1, <2>2 DEF CheckoutOwes, Pays
<1> QED BY <1>1, <1>2, <1>3

LEMMA DeliveryPays ==
  ASSUME TypeInv, NEW d \in Deliveries, HandleWebhookNext(d),
         NEW o \in OrderIds, NEW p \in Products
  PROVE  Pays(o, p, DeliveryOwes(d, o, p)', DeliveryOwes(d, o, p))
<1> USE DEF TypeInv, TypeOK, LocalsOK
<1>0. wh \in [Deliveries -> Delivery]
  BY DEF PaymentsTypeOK
<1>1. CASE DispatchRelease(d)
  <2>1. PICK x \in wh[d].todo :
          /\ ReturnLine(wh[d].event.order, x)
          /\ wh' = [wh EXCEPT ![d].todo = wh[d].todo \ {x},
                              ![d].pc = IF wh[d].todo = {x} THEN "mark" ELSE "release"]
    BY <1>1 DEF DispatchRelease
  <2> DEFINE rec == [wh[d] EXCEPT !.todo = wh[d].todo \ {x},
                                  !.pc = IF wh[d].todo = {x} THEN "mark" ELSE "release"]
  <2>2. rec.todo = wh[d].todo \ {x} /\ rec.event = wh[d].event
    BY <1>0 DEF Delivery
  <2>3. wh'[d] = rec
    BY <1>0, <2>1
  <2> HIDE DEF rec
  <2>4. wh[d].pc = "release" /\ wh[d].event.order \in OrderIds /\ x \in Products
    BY <1>0, <1>1 DEF DispatchRelease, DeliveryLocals, Event, Delivery
  <2>5. \/ returns'[o][p] = returns[o][p]
        \/ returns'[o][p] = returns[o][p] + 1 /\ o = wh[d].event.order /\ p = x
    BY <2>1, <2>4, ReturnPays
  <2> QED BY <2>1, <2>2, <2>3, <2>4, <2>5 DEF DeliveryOwes, Pays
<1>2. CASE DispatchFailed(d)
  <2>1. UNCHANGED returns
    BY <1>2 DEF DispatchFailed
  <2>2. CASE MoveTo(d, "mark")
    <3>1. wh'[d].pc = "mark"
      BY <1>0, <2>2 DEF MoveTo, Delivery
    <3> QED BY <2>1, <3>1 DEF DeliveryOwes, Pays
  <2>3. ASSUME NEW modified \in BOOLEAN, MarkPaymentFailed(wh[d].event.order, modified),
               wh' = [wh EXCEPT ![d].pc = IF modified THEN "release" ELSE "mark",
                                ![d].todo = IF modified
                                              THEN Items(orders[wh[d].event.order].lines)
                                              ELSE {}]
        PROVE  Pays(o, p, DeliveryOwes(d, o, p)', DeliveryOwes(d, o, p))
    <3> DEFINE rec == [wh[d] EXCEPT
                         !.pc = IF modified THEN "release" ELSE "mark",
                         !.todo = IF modified
                                    THEN Items(orders[wh[d].event.order].lines) ELSE {}]
    <3>1. rec.event = wh[d].event /\ (rec.pc = "release" => modified)
      BY <1>0 DEF Delivery
    <3>2. wh'[d] = rec
      BY <1>0, <2>3
    <3> HIDE DEF rec
    <3>3. modified => IsPending(wh[d].event.order)
      BY <2>3 DEF MarkPaymentFailed
    <3> QED BY <2>1, <3>1, <3>2, <3>3 DEF DeliveryOwes, Pays
  <2> QED BY <1>2, <2>2, <2>3 DEF DispatchFailed
<1>3. CASE ~DispatchRelease(d) /\ ~DispatchFailed(d)
  <2>1. UNCHANGED returns
    BY <1>3 DEF HandleWebhookNext, DeliveryStep, Deliver, CheckEvent, DispatchCapture,
       DispatchFill, DispatchEffects, AckDelivery, DeliveryFails, storeVars
  <2>2. wh'[d].pc # "release"
    <3>1. ASSUME NEW e \in Event, Deliver(d, e) PROVE wh'[d].pc # "release"
      BY <1>0, <3>1 DEF Deliver, Delivery
    <3>2. CASE CheckEvent(d) \/ AckDelivery(d) \/ DeliveryFails(d)
      <4>1. wh' = [wh EXCEPT ![d] = IdleDelivery] \/ MoveTo(d, "dispatch")
        BY <3>2 DEF CheckEvent, AckDelivery, DeliveryFails
      <4> QED BY <1>0, <4>1 DEF MoveTo, IdleDelivery, Delivery
    <3>3. CASE DispatchCapture(d) \/ DispatchFill(d) \/ DispatchEffects(d)
      <4>1. \E pc \in {"effects", "fill", "mark"} : MoveTo(d, pc)
        BY <3>3 DEF DispatchCapture, DispatchFill, DispatchEffects
      <4> QED BY <1>0, <4>1 DEF MoveTo, Delivery
    <3> QED BY <1>3, <3>1, <3>2, <3>3 DEF HandleWebhookNext, DeliveryStep
  <2> QED BY <2>1, <2>2 DEF DeliveryOwes, Pays
<1> QED BY <1>1, <1>2, <1>3

LEMMA SweepPays ==
  ASSUME TypeInv, NEW s \in Sweepers, SweeperNext(s), NEW o \in OrderIds, NEW p \in Products
  PROVE  Pays(o, p, SweeperOwes(s, o, p)', SweeperOwes(s, o, p))
<1> USE DEF TypeInv, TypeOK, LocalsOK
<1>0. sw \in [Sweepers -> Tick]
  BY DEF SweeperTypeOK
<1>1. CASE SweepReturn(s)
  <2>1. PICK x \in sw[s].todo :
          /\ ReturnLine(sw[s].order, x)
          /\ sw' = [sw EXCEPT ![s].todo = sw[s].todo \ {x},
                              ![s].pc = IF sw[s].todo = {x} THEN "claim" ELSE "release"]
    BY <1>1 DEF SweepReturn
  <2> DEFINE rec == [sw[s] EXCEPT !.todo = sw[s].todo \ {x},
                                  !.pc = IF sw[s].todo = {x} THEN "claim" ELSE "release"]
  <2>2. rec.todo = sw[s].todo \ {x} /\ rec.order = sw[s].order
    BY <1>0 DEF Tick
  <2>3. sw'[s] = rec
    BY <1>0, <2>1
  <2> HIDE DEF rec
  <2>4. sw[s].pc = "release" /\ sw[s].order \in OrderIds /\ x \in Products
    BY <1>0, <1>1 DEF SweepReturn, SweeperLocals, Tick
  <2>5. \/ returns'[o][p] = returns[o][p]
        \/ returns'[o][p] = returns[o][p] + 1 /\ o = sw[s].order /\ p = x
    BY <2>1, <2>4, ReturnPays
  <2> QED BY <2>1, <2>2, <2>3, <2>4, <2>5 DEF SweeperOwes, Pays
<1>2. CASE ClaimExpired(s)
  <2>1. PICK q \in sw[s].batch, modified \in BOOLEAN :
          /\ MarkExpired(q, modified)
          /\ sw' = [sw EXCEPT
               ![s] = IF modified
                        THEN [pc |-> "release", batch |-> sw[s].batch \ {q},
                              order |-> q, todo |-> Items(orders[q].lines)]
                        ELSE [sw[s] EXCEPT !.batch = @ \ {q}]]
    BY <1>2 DEF ClaimExpired
  <2>2. UNCHANGED returns /\ sw[s].pc = "claim"
    BY <1>2 DEF ClaimExpired
  <2>3. CASE modified
    <3>1. sw'[s].order = q /\ IsPending(q)
      BY <1>0, <2>1, <2>3 DEF MarkExpired
    <3> QED BY <2>2, <3>1 DEF SweeperOwes, Pays
  <2>4. CASE ~modified
    <3>1. sw'[s].pc = "claim"
      BY <1>0, <2>1, <2>2, <2>4 DEF Tick
    <3> QED BY <2>2, <3>1 DEF SweeperOwes, Pays
  <2> QED BY <2>3, <2>4
<1>3. CASE FindExpired(s) \/ EndTick(s) \/ TickFails(s)
  <2>1. UNCHANGED returns
    BY <1>3 DEF FindExpired, EndTick, TickFails, storeVars
  <2>2. sw'[s].pc # "release"
    BY <1>0, <1>3 DEF FindExpired, EndTick, TickFails, NoTick, Tick
  <2> QED BY <2>1, <2>2 DEF SweeperOwes, Pays
<1> QED BY <1>1, <1>2, <1>3 DEF SweeperNext, SweeperStep

\* What a step does to line p of order o.
LineMoves(o, p) ==
  \/ returns'[o][p] = returns[o][p] /\ Owing(o, p)' \subseteq Owing(o, p)
  \/ /\ returns'[o][p] = returns[o][p] /\ IsPending(o)
     /\ \E x : Owing(o, p)' \subseteq Owing(o, p) \cup {x}
  \/ /\ returns'[o][p] = returns[o][p] + 1
     /\ \E x \in Owing(o, p) : Owing(o, p)' \subseteq Owing(o, p) \ {x}

LEMMA LinesMove ==
  ASSUME TypeInv, NobodyCompensates, [Next]_vars, NEW o \in OrderIds, NEW p \in Products
  PROVE  LineMoves(o, p)
<1> USE DEF TypeInv, TypeOK, LocalsOK
<1>1. ASSUME NEW r \in Requests, OpenCheckout(r) PROVE LineMoves(o, p)
  <2> DEFINE x == <<"checkout", r>>
  <2>1. /\ \A q \in Requests : q # r => co'[q] = co[q]
        /\ UNCHANGED <<wh, sw>>
    BY <1>1, CheckoutMoves, CheckoutFrame DEF OpenCheckout
  <2>2. \A y \in Owing(o, p)' : y # x => y \in Owing(o, p)
    BY <2>1 DEF Owing, CheckoutOwes, DeliveryOwes, SweeperOwes
  <2>3. /\ x \in Owing(o, p)' <=> CheckoutOwes(r, o, p)'
        /\ x \in Owing(o, p) <=> CheckoutOwes(r, o, p)
    BY DEF Owing
  <2>4. Pays(o, p, CheckoutOwes(r, o, p)', CheckoutOwes(r, o, p))
    BY <1>1, CheckoutPays DEF OpenCheckout
  <2> HIDE DEF x
  <2> QED BY <2>2, <2>3, <2>4 DEF Pays, LineMoves
<1>2. ASSUME NEW d \in Deliveries, HandleWebhook(d) PROVE LineMoves(o, p)
  <2> DEFINE x == <<"delivery", d>>
  <2>1. /\ \A q \in Deliveries : q # d => wh'[q] = wh[q]
        /\ UNCHANGED <<co, sw>>
    BY <1>2, DeliveryFrame DEF PaymentsTypeOK, HandleWebhook, HandleWebhookNext,
       DeliveryStep, Deliver, CheckEvent, DispatchCapture, DispatchFill, DispatchEffects,
       DispatchFailed, DispatchRelease, AckDelivery, DeliveryFails, MoveTo
  <2>2. \A y \in Owing(o, p)' : y # x => y \in Owing(o, p)
    BY <2>1 DEF Owing, CheckoutOwes, DeliveryOwes, SweeperOwes
  <2>3. /\ x \in Owing(o, p)' <=> DeliveryOwes(d, o, p)'
        /\ x \in Owing(o, p) <=> DeliveryOwes(d, o, p)
    BY DEF Owing
  <2>4. Pays(o, p, DeliveryOwes(d, o, p)', DeliveryOwes(d, o, p))
    BY <1>2, DeliveryPays DEF HandleWebhook
  <2> HIDE DEF x
  <2> QED BY <2>2, <2>3, <2>4 DEF Pays, LineMoves
<1>3. ASSUME NEW s \in Sweepers, Sweep(s) PROVE LineMoves(o, p)
  <2> DEFINE x == <<"sweeper", s>>
  <2>1. /\ \A q \in Sweepers : q # s => sw'[q] = sw[q]
        /\ UNCHANGED <<co, wh>>
    BY <1>3, SweepFrame DEF SweeperTypeOK, Sweep, SweeperNext, SweeperStep, FindExpired,
       ClaimExpired, SweepReturn, EndTick, TickFails
  <2>2. \A y \in Owing(o, p)' : y # x => y \in Owing(o, p)
    BY <2>1 DEF Owing, CheckoutOwes, DeliveryOwes, SweeperOwes
  <2>3. /\ x \in Owing(o, p)' <=> SweeperOwes(s, o, p)'
        /\ x \in Owing(o, p) <=> SweeperOwes(s, o, p)
    BY DEF Owing
  <2>4. Pays(o, p, SweeperOwes(s, o, p)', SweeperOwes(s, o, p))
    BY <1>3, SweepPays DEF Sweep
  <2> HIDE DEF x
  <2> QED BY <2>2, <2>3, <2>4 DEF Pays, LineMoves
<1>4. CASE UNCHANGED <<co, wh, sw, returns>>
  BY <1>4 DEF LineMoves, Owing, CheckoutOwes, DeliveryOwes, SweeperOwes
<1>5. \/ \E r \in Requests : OpenCheckout(r)
      \/ \E d \in Deliveries : HandleWebhook(d)
      \/ \E s \in Sweepers : Sweep(s)
      \/ UNCHANGED <<co, wh, sw, returns>>
  BY ShopperFrame, ClockFrame, PayFrame, CallbackFrame DEF Next, vars
<1> QED BY <1>1, <1>2, <1>3, <1>4, <1>5

LEMMA LineStep ==
  TypeInv /\ ReleaseInv /\ NobodyCompensates /\ LineInv /\ [Next]_vars => LineInv'
<1> SUFFICES ASSUME TypeInv, ReleaseInv, NobodyCompensates, LineInv, [Next]_vars,
                    NEW o \in OrderIds, NEW p \in Products
             PROVE  /\ \/ returns'[o][p] = 0
                       \/ returns'[o][p] = 1 /\ Owing(o, p)' = {}
                    /\ \A x, y \in Owing(o, p)' : x = y
                    /\ orders'[o].status \notin Ended => returns'[o][p] = 0
  BY DEF LineInv
<1>1. /\ returns[o][p] = 0 \/ (returns[o][p] = 1 /\ Owing(o, p) = {})
      /\ \A x, y \in Owing(o, p) : x = y
      /\ orders[o].status \notin Ended => returns[o][p] = 0
  BY DEF LineInv
<1>2. Owing(o, p) # {} => orders[o].status \in Ended
  BY DEF Owing, CheckoutOwes, DeliveryOwes, SweeperOwes, ReleaseInv
<1>3. orders[o].status \in Ended => orders'[o].status \in Ended
  BY OrdersStep, EndedIsFinal
<1>4. CASE returns'[o][p] = returns[o][p] /\ Owing(o, p)' \subseteq Owing(o, p)
  BY <1>1, <1>3, <1>4
<1>5. CASE /\ returns'[o][p] = returns[o][p] /\ IsPending(o)
           /\ \E x : Owing(o, p)' \subseteq Owing(o, p) \cup {x}
  <2>1. Owing(o, p) = {} /\ returns'[o][p] = 0
    BY <1>1, <1>2, <1>5 DEF IsPending, Ended
  <2> QED BY <1>5, <2>1
<1>6. CASE /\ returns'[o][p] = returns[o][p] + 1
           /\ \E x \in Owing(o, p) : Owing(o, p)' \subseteq Owing(o, p) \ {x}
  <2>1. returns[o][p] = 0 /\ orders'[o].status \in Ended
    BY <1>1, <1>2, <1>3, <1>6
  <2>2. Owing(o, p)' = {}
    BY <1>1, <1>6
  <2> QED BY <1>6, <2>1, <2>2
<1> QED BY <1>4, <1>5, <1>6, LinesMove DEF LineMoves

\* However many parties try to end a reservation, each line of it goes back on
\* the shelf at most once, as long as no checkout compensates.
THEOREM LinesReturnOnce == Spec /\ []NobodyCompensates => []ReturnedAtMostOnce
<1>1. Init => LineInv
  <2> SUFFICES ASSUME Init PROVE LineInv
    OBVIOUS
  <2>1. \A o \in OrderIds, p \in Products : Owing(o, p) = {}
    BY DEF Init, CheckoutInit, NotRunning, PaymentsInit, IdleDelivery, SweeperInit, NoTick,
       Owing, CheckoutOwes, DeliveryOwes, SweeperOwes
  <2>2. \A o \in OrderIds, p \in Products : returns[o][p] = 0
    BY DEF Init, StoreInit, EmptyBasket
  <2> QED BY <2>1, <2>2 DEF LineInv
<1>2. LineInv => ReturnedAtMostOnce
  BY DEF LineInv, ReturnedAtMostOnce
<1> QED BY <1>1, <1>2, InitRelease, LineStep, ReleaseStep, TypeCorrect, PTL DEF Spec

-----------------------------------------------------------------------------
(* What a processed event has done.                                        *)

\* The transition an event of order o asks for has been applied, or refused
\* for its amount.
Applied(o) == orders[o].status \in Settled \/ o \in Mispriced

\* A delivery past its dispatch.
Past == {"fill", "effects", "release", "mark"}

AppliedEverywhere ==
  /\ \A d \in Deliveries : wh[d].pc \in Past => Applied(wh[d].event.order)
  /\ \A e \in Event : events[e] = "processed" => Applied(e.order)

\* An event that is being handled is about an order with a Razorpay id.
LEMMA HandledIsLinked ==
  ASSUME TypeInv, InsertInv, PaidInv, NEW d \in Deliveries, wh[d].pc # "idle"
  PROVE  LET o == wh[d].event.order IN
           o \in OrderIds /\ orders[o].linked /\ orders[o].status # "absent"
<1>1. wh[d].event \in emitted /\ wh[d].event.order \in OrderIds
  BY DEF PaidInv, TypeInv, LocalsOK, DeliveryLocals, Event
<1> QED BY <1>1 DEF PaidInv, InsertInv

\* A delivery gets past its dispatch only by finding the order settled,
\* settling it, or refusing the amount.
LEMMA DispatchApplies ==
  ASSUME TypeInv, InsertInv, PaidInv, NEW d \in Deliveries, HandleWebhookNext(d),
         wh[d].pc \notin Past, wh'[d].pc \in Past
  PROVE  wh'[d].event = wh[d].event /\ Applied(wh[d].event.order)'
<1> USE DEF TypeInv, TypeOK, LocalsOK, Past
<1>0. wh \in [Deliveries -> Delivery] /\ orders \in [OrderIds -> Order]
  BY DEF PaymentsTypeOK, StoreTypeOK
<1>1. DispatchCapture(d) \/ DispatchFailed(d)
  <2>1. ASSUME NEW e \in Event, Deliver(d, e) PROVE FALSE
    BY <1>0, <2>1 DEF Deliver, Delivery
  <2>2. CASE CheckEvent(d) \/ AckDelivery(d) \/ DeliveryFails(d)
    <3>1. wh' = [wh EXCEPT ![d] = IdleDelivery] \/ MoveTo(d, "dispatch")
      BY <2>2 DEF CheckEvent, AckDelivery, DeliveryFails
    <3> QED BY <1>0, <3>1 DEF MoveTo, IdleDelivery, Delivery
  <2>3. CASE DispatchFill(d) \/ DispatchEffects(d) \/ DispatchRelease(d)
    BY <2>3 DEF DispatchFill, DispatchEffects, DispatchRelease
  <2> QED BY <2>1, <2>2, <2>3 DEF HandleWebhookNext, DeliveryStep
<1>2. wh[d].pc = "dispatch"
  BY <1>1 DEF DispatchCapture, DispatchFailed
<1>3. PICK o \in OrderIds :
        o = wh[d].event.order /\ orders[o].linked /\ orders[o].status # "absent"
  BY <1>2, HandledIsLinked
<1>4. wh'[d].event = wh[d].event
  <2>1. CASE \E pc \in {"effects", "fill", "mark"} : MoveTo(d, pc)
    BY <1>0, <2>1 DEF MoveTo, Delivery
  <2>3. CASE DispatchCapture(d)
    BY <2>1, <2>3 DEF DispatchCapture
  <2>4. CASE DispatchFailed(d)
    <3>1. PICK modified \in BOOLEAN :
            wh' = [wh EXCEPT ![d].pc = IF modified THEN "release" ELSE "mark",
                             ![d].todo = IF modified THEN Items(orders[o].lines) ELSE {}]
      BY <1>3, <2>4 DEF DispatchFailed, ByRazorpayOrderID
    <3> DEFINE rec == [wh[d] EXCEPT !.pc = IF modified THEN "release" ELSE "mark",
                                    !.todo = IF modified THEN Items(orders[o].lines) ELSE {}]
    <3>2. rec.event = wh[d].event
      BY <1>0 DEF Delivery
    <3>3. wh' = [wh EXCEPT ![d] = rec]
      BY <1>0, <3>1
    <3> HIDE DEF rec
    <3> QED BY <1>0, <3>2, <3>3
  <2> QED BY <1>1, <2>3, <2>4
<1>5. Applied(o)'
  <2>1. ~IsPending(o) /\ UNCHANGED orders => Applied(o)'
    BY <1>0, <1>3 DEF IsPending, Applied, Settled, Order, Status
  <2>2. ASSUME NEW modified \in BOOLEAN, MarkPlaced(o, TRUE, modified)
        PROVE  Applied(o)'
    BY <1>0, <2>1, <2>2 DEF MarkPlaced, Applied, Settled, Order
  <2>3. ASSUME NEW modified \in BOOLEAN, MarkPaymentFailed(o, modified)
        PROVE  Applied(o)'
    BY <1>0, <2>1, <2>3 DEF MarkPaymentFailed, Applied, Settled, Order
  <2>4. CASE DispatchCapture(d)
    BY <1>3, <2>2, <2>4 DEF DispatchCapture, ByRazorpayOrderID, Applied
  <2>5. CASE DispatchFailed(d)
    BY <1>3, <2>3, <2>5 DEF DispatchFailed, ByRazorpayOrderID
  <2> QED BY <1>1, <2>4, <2>5
<1>6. wh'[d].event.order = o
  BY <1>3, <1>4
<1> QED BY <1>4, <1>5, <1>6 DEF Applied

\* What has been applied stays applied.
LEMMA AppliedLasts ==
  ASSUME TypeInv, [Next]_vars, NEW o \in OrderIds, Applied(o)
  PROVE  Applied(o)'
BY OrdersStep, OrdersMonotone DEF Applied, Settled

LEMMA AppliedStep ==
  TypeInv /\ InsertInv /\ PaidInv /\ AppliedEverywhere /\ [Next]_vars => AppliedEverywhere'
<1> SUFFICES ASSUME TypeInv, InsertInv, PaidInv, AppliedEverywhere, [Next]_vars
             PROVE  AppliedEverywhere'
  OBVIOUS
<1>0. /\ wh \in [Deliveries -> Delivery]
      /\ events \in [Event -> {"absent", "recorded", "processed"}]
      /\ \A e \in Event : e.order \in OrderIds
  BY DEF TypeInv, TypeOK, PaymentsTypeOK, Event
<1>1. ASSUME NEW f \in Deliveries, wh[f].pc \in Past
      PROVE  wh[f].event.order \in OrderIds /\ Applied(wh[f].event.order)
  BY <1>0, <1>1 DEF TypeInv, LocalsOK, DeliveryLocals, AppliedEverywhere, Past
<1>2. ASSUME NEW d \in Deliveries, HandleWebhook(d),
             NEW f \in Deliveries, wh'[f].pc \in Past
      PROVE  Applied(wh[f].event.order)'
  <2>1. CASE wh[f].pc \in Past /\ wh'[f].event = wh[f].event
    <3>1. PICK o \in OrderIds : o = wh[f].event.order
      BY <1>1, <2>1
    <3>2. Applied(o)' /\ wh'[f].event.order = o
      BY <1>1, <2>1, <3>1, AppliedLasts
    <3> QED BY <3>2 DEF Applied
  <2>2. CASE f # d
    <3>1. wh'[f] = wh[f]
      BY <1>0, <1>2, <2>2 DEF HandleWebhook, HandleWebhookNext, DeliveryStep, Deliver,
         CheckEvent, DispatchCapture, DispatchFill, DispatchEffects, DispatchFailed,
         DispatchRelease, AckDelivery, DeliveryFails, MoveTo
    <3> QED BY <1>2, <2>1, <3>1
  <2>3. CASE f = d /\ wh[d].pc \notin Past
    BY <1>2, <2>3, DispatchApplies DEF HandleWebhook
  <2>4. CASE f = d /\ wh[d].pc \in Past
    <3>1. wh'[d].event = wh[d].event
      <4>1. wh'[d] # IdleDelivery
        BY <1>2, <2>4 DEF IdleDelivery, Past
      <4>2. CASE DispatchFill(d) \/ DispatchEffects(d)
        BY <1>0, <4>2 DEF DispatchFill, DispatchEffects, MoveTo, Delivery
      <4>3. CASE DispatchRelease(d)
        BY <1>0, <4>3 DEF DispatchRelease, Delivery
      <4> QED BY <1>0, <1>2, <2>4, <4>1, <4>2, <4>3
             DEF HandleWebhook, HandleWebhookNext, DeliveryStep, Deliver, CheckEvent,
                 DispatchCapture, DispatchFailed, AckDelivery, DeliveryFails, Past
    <3> QED BY <2>1, <2>4, <3>1
  <2> QED BY <2>2, <2>3, <2>4
<1>3. ASSUME NEW d \in Deliveries, HandleWebhook(d),
             NEW e \in Event, events'[e] = "processed"
      PROVE  Applied(e.order)'
  <2>1. CASE events[e] = "processed"
    BY <1>0, <2>1, AppliedLasts DEF AppliedEverywhere
  <2>2. CASE events[e] # "processed"
    <3>1. AckDelivery(d) /\ wh[d].event = e
      BY <1>0, <1>3, <2>2 DEF HandleWebhook, HandleWebhookNext, DeliveryStep, Deliver,
         CheckEvent, DispatchCapture, DispatchFill, DispatchEffects, DispatchFailed,
         DispatchRelease, AckDelivery, DeliveryFails
    <3> QED BY <1>0, <1>1, <3>1, AppliedLasts DEF AckDelivery, Past
  <2> QED BY <2>1, <2>2
<1>4. CASE UNCHANGED <<wh, events>>
  <2>1. ASSUME NEW f \in Deliveries, wh[f].pc \in Past
        PROVE  Applied(wh[f].event.order)'
    <3>1. PICK o \in OrderIds : o = wh[f].event.order
      BY <1>1, <2>1
    <3>2. Applied(o)' /\ wh'[f].event.order = o
      BY <1>1, <1>4, <2>1, <3>1, AppliedLasts
    <3> QED BY <3>2 DEF Applied
  <2>2. ASSUME NEW e \in Event, events[e] = "processed"
        PROVE  Applied(e.order)'
    BY <1>0, <2>2, AppliedLasts DEF AppliedEverywhere
  <2> QED BY <1>4, <2>1, <2>2 DEF AppliedEverywhere, Applied
<1>5. (\E d \in Deliveries : HandleWebhook(d)) \/ UNCHANGED <<wh, events>>
  BY ShopperFrame, ClockFrame, CheckoutFrame, PayFrame, CallbackFrame, SweepFrame
     DEF Next, vars
<1> QED BY <1>2, <1>3, <1>4, <1>5 DEF AppliedEverywhere

\* An event marked processed left its order settled, unless its amount was
\* refused: a crash between the two writes never loses a transition.
THEOREM ProcessedIsApplied == Spec => []ProcessedMeansApplied
<1>1. Init => AppliedEverywhere
  BY DEF Init, PaymentsInit, IdleDelivery, AppliedEverywhere, Past
<1>2. AppliedEverywhere => ProcessedMeansApplied
  BY DEF AppliedEverywhere, ProcessedMeansApplied, Applied, Settled, IsPending
<1> QED BY <1>1, <1>2, AppliedStep, PaidOrders, PTL DEF Spec

-----------------------------------------------------------------------------
(* Who a checkout is for.                                                  *)

LEMMA ShopperKnownStep == TypeInv /\ ShopperKnown /\ [Next]_vars => ShopperKnown'
<1> SUFFICES ASSUME TypeInv, ShopperKnown, [Next]_vars,
                    NEW q \in Requests,
                    co'[q].pc \in {"expire", "releaseOld", "take", "insert"}
             PROVE  co'[q].user \in Users
  BY DEF ShopperKnown
<1> USE DEF TypeInv, TypeOK, LocalsOK, ShopperKnown
<1>0. co \in [Requests -> Request]
  BY DEF CheckoutTypeOK
<1>1. ASSUME NEW r \in Requests, OpenCheckoutNext(r)
      PROVE  co'[q].user \in Users
  <2>1. CASE q # r
    BY <1>1, <2>1, CheckoutMoves
  <2>2. CASE q = r /\ \E u \in Users : ReadCart(r, u)
    BY <1>0, <2>2 DEF ReadCart, Request
  <2>3. CASE ExpirePrevious(r)
    <3>1. PICK found \in OrderIds \cup {NoOrder} :
            IF found = NoOrder
              THEN Goto(r, "take", Items(co[r].lines))
              ELSE co' = [co EXCEPT ![r].pc = "releaseOld", ![r].order = found,
                                    ![r].todo = Items(orders[found].lines)]
      BY <2>3 DEF ExpirePrevious
    <3>2. co[r].user \in Users
      BY <2>3 DEF ExpirePrevious
    <3>3. CASE found = NoOrder
      <4>1. co'[r].user = co[r].user
        BY <1>0, <3>1, <3>3 DEF Goto, Request
      <4> QED BY <2>1, <3>2, <4>1
    <3>4. CASE found # NoOrder
      <4>1. co'[r].user = co[r].user
        BY <1>0, <3>1, <3>4 DEF Request
      <4> QED BY <2>1, <3>2, <4>1
    <3> QED BY <3>3, <3>4
  <2>4. CASE ReleaseOrderLine(r) \/ ReleaseTakenLine(r)
    BY <1>0, <2>1, <2>4 DEF ReleaseOrderLine, ReleaseTakenLine, Goto, Request
  <2>5. CASE EndReleaseOld(r) \/ TakeLine(r) \/ TakeLineRefused(r)
    BY <1>0, <2>1, <2>5 DEF EndReleaseOld, TakeLine, TakeLineRefused, Goto, Request
  <2>6. CASE InsertOrder(r) \/ DuplicateOrderID(r) \/ InsertRefused(r)
    <3>1. co[r].user \in Users
      BY <2>6 DEF InsertOrder, DuplicateOrderID, InsertRefused
    <3>2. co'[r].user = co[r].user
      <4>1. CASE InsertOrder(r)
        BY <1>0, <4>1 DEF InsertOrder, Request
      <4>2. CASE DuplicateOrderID(r)
        BY <1>0, <4>2 DEF DuplicateOrderID, Request
      <4>3. CASE InsertRefused(r)
        BY <1>0, <4>3 DEF InsertRefused, Goto, Request
      <4> QED BY <2>6, <4>1, <4>2, <4>3
    <3> QED BY <2>1, <3>1, <3>2
  <2>7. CASE CreateRazorpayOrder(r) \/ GatewayError(r)
    BY <1>0, <2>1, <2>7 DEF CreateRazorpayOrder, GatewayError, Goto, Request
  <2>8. CASE LinkRazorpayOrder(r)
    BY <1>0, <2>1, <2>8 DEF LinkRazorpayOrder, NotRunning
  <2>9. CASE EndReleaseTaken(r) \/ UndoInsert(r) \/ ExpirePreviousError(r) \/ StopRequest(r)
    <3>1. Refuse(r)
      BY <2>9 DEF EndReleaseTaken, UndoInsert, ExpirePreviousError, StopRequest
    <3> QED BY <1>0, <2>1, <3>1 DEF Refuse, NotRunning
  <2> QED BY <1>1, <2>1, <2>2, <2>3, <2>4, <2>5, <2>6, <2>7, <2>8, <2>9
         DEF OpenCheckoutNext, RequestStep
<1>2. (\E r \in Requests : OpenCheckout(r)) \/ UNCHANGED co
  BY ShopperFrame, ClockFrame, PayFrame, CallbackFrame, DeliveryFrame, SweepFrame
     DEF Next, vars
<1> QED BY <1>1, <1>2 DEF OpenCheckout

-----------------------------------------------------------------------------
(* One confirmation.                                                       *)

\* Nobody starts to confirm order o in this step.
NoneStarts(o) ==
  /\ Confirming(o)' \subseteq Confirming(o)
  /\ DeliveryConfirming(o)' \subseteq DeliveryConfirming(o)

\* The step has no part in confirming any order.
Bystands ==
  /\ UNCHANGED confirmations
  /\ \A o \in OrderIds : NoneStarts(o)

\* One handler wins the guarded write of order o and will confirm it.
Wins(o) ==
  /\ IsPending(o) /\ orders'[o].status = "placed"
  /\ UNCHANGED confirmations
  /\ \A q \in OrderIds \ {o} : NoneStarts(q)
  /\ \/ /\ \E c \in Callbacks : Confirming(o)' \subseteq Confirming(o) \cup {c}
        /\ DeliveryConfirming(o)' \subseteq DeliveryConfirming(o)
     \/ /\ \E d \in Deliveries :
             DeliveryConfirming(o)' \subseteq DeliveryConfirming(o) \cup {d}
        /\ Confirming(o)' \subseteq Confirming(o)

\* One handler confirms order o and is done with it.
Confirms(o) ==
  /\ confirmations' = [confirmations EXCEPT ![o] = @ + 1]
  /\ UNCHANGED orders
  /\ \A q \in OrderIds : NoneStarts(q)
  /\ \/ \E c \in Confirming(o) : Confirming(o)' \subseteq Confirming(o) \ {c}
     \/ \E d \in DeliveryConfirming(o) :
          DeliveryConfirming(o)' \subseteq DeliveryConfirming(o) \ {d}

ConfirmMove == Bystands \/ \E o \in OrderIds : Wins(o) \/ Confirms(o)

LEMMA CallbackConfirms ==
  ASSUME TypeInv, NEW c \in Callbacks, ConfirmPayment(c)
  PROVE  ConfirmMove
<1> USE DEF TypeInv, TypeOK, LocalsOK
<1>0. cb \in [Callbacks -> Callback] /\ orders \in [OrderIds -> Order] /\ UNCHANGED wh
  BY CallbackFrame DEF PaymentsTypeOK, StoreTypeOK
<1>1. \A o \in OrderIds : DeliveryConfirming(o)' = DeliveryConfirming(o)
  BY <1>0 DEF DeliveryConfirming
<1>2. \A b \in Callbacks : b # c => cb'[b] = cb[b]
  BY <1>0 DEF ConfirmPayment, ConfirmPaymentNext, ConfirmStep, ReadOrder,
     ConfirmPlaced, ConfirmEffects, ConfirmReread, ConfirmFails, Answer
<1>3. ASSUME cb'[c].pc # "effects"
      PROVE  \A o \in OrderIds : Confirming(o)' \subseteq Confirming(o) \ {c}
  BY <1>2, <1>3 DEF Confirming
<1>4. CASE ConfirmEffects(c)
  <2>0. PICK o \in OrderIds : o = cb[c].order
    BY <1>4 DEF ConfirmEffects, CallbackLocals
  <2>1. cb'[c].pc # "effects"
    BY <1>0, <1>4 DEF ConfirmEffects, Answer, Callback
  <2>2. o \in OrderIds /\ c \in Confirming(o)
    BY <1>4, <2>0 DEF ConfirmEffects, Confirming
  <2>3. confirmations' = [confirmations EXCEPT ![o] = @ + 1] /\ UNCHANGED orders
    BY <1>4, <2>0 DEF ConfirmEffects, PlacedEffects
  <2>4. Confirms(o)
    BY <1>1, <1>3, <2>1, <2>2, <2>3 DEF Confirms, NoneStarts
  <2> QED BY <2>2, <2>4 DEF ConfirmMove
<1>5. CASE ConfirmPlaced(c)
  <2>0. PICK o \in OrderIds : o = cb[c].order
    BY <1>5 DEF ConfirmPlaced, CallbackLocals
  <2>1. PICK modified \in BOOLEAN :
          /\ MarkPlaced(o, FALSE, modified)
          /\ cb' = [cb EXCEPT ![c].pc = IF modified THEN "effects" ELSE "reread"]
    BY <1>5, <2>0 DEF ConfirmPlaced
  <2>2. o \in OrderIds /\ UNCHANGED confirmations
    BY <1>5 DEF ConfirmPlaced
  <2>3. cb'[c].order = o /\ cb'[c].pc = IF modified THEN "effects" ELSE "reread"
    BY <1>0, <2>0, <2>1 DEF Callback
  <2>4. CASE ~modified
    BY <1>1, <1>3, <2>2, <2>3, <2>4 DEF ConfirmMove, Bystands, NoneStarts
  <2>5. CASE modified
    <3>1. IsPending(o) /\ orders'[o].status = "placed"
      BY <1>0, <2>1, <2>2, <2>5 DEF MarkPlaced, Order
    <3>2. \A q \in OrderIds \ {o} : Confirming(q)' \subseteq Confirming(q)
      BY <1>2, <2>3 DEF Confirming
    <3>3. Confirming(o)' \subseteq Confirming(o) \cup {c}
      BY <1>2 DEF Confirming
    <3>4. Wins(o)
      BY <1>1, <2>2, <3>1, <3>2, <3>3 DEF Wins, NoneStarts
    <3> QED BY <2>2, <3>4 DEF ConfirmMove
  <2> QED BY <2>4, <2>5
<1>6. CASE (\E o \in OrderIds : ReadOrder(c, o)) \/ ConfirmReread(c) \/ ConfirmFails(c)
  <2>1. cb'[c].pc # "effects"
    <3>1. ASSUME NEW o \in OrderIds, ReadOrder(c, o) PROVE cb'[c].pc # "effects"
      BY <1>0, <3>1 DEF ReadOrder, Callback
    <3> QED BY <1>0, <1>6, <3>1 DEF ConfirmReread, ConfirmFails, Answer, Callback
  <2>2. UNCHANGED confirmations
    BY <1>6 DEF ReadOrder, ConfirmReread, ConfirmFails
  <2> QED BY <1>1, <1>3, <2>1, <2>2 DEF ConfirmMove, Bystands, NoneStarts
<1> QED BY <1>4, <1>5, <1>6 DEF ConfirmPayment, ConfirmPaymentNext, ConfirmStep

LEMMA DeliveryConfirms ==
  ASSUME TypeInv, NEW d \in Deliveries, HandleWebhook(d)
  PROVE  ConfirmMove
<1> USE DEF TypeInv, TypeOK, LocalsOK
<1>0. wh \in [Deliveries -> Delivery] /\ orders \in [OrderIds -> Order] /\ UNCHANGED cb
  BY DeliveryFrame DEF PaymentsTypeOK, StoreTypeOK
<1>1. \A o \in OrderIds : Confirming(o)' = Confirming(o)
  BY <1>0 DEF Confirming
<1>2. \A f \in Deliveries : f # d => wh'[f] = wh[f]
  BY <1>0 DEF HandleWebhook, HandleWebhookNext, DeliveryStep, Deliver, CheckEvent,
     DispatchCapture, DispatchFill, DispatchEffects, DispatchFailed, DispatchRelease,
     AckDelivery, DeliveryFails, MoveTo
<1>3. ASSUME wh'[d].pc # "effects"
      PROVE  \A o \in OrderIds :
               DeliveryConfirming(o)' \subseteq DeliveryConfirming(o) \ {d}
  BY <1>2, <1>3 DEF DeliveryConfirming
<1>4. CASE DispatchEffects(d)
  <2>0. PICK o \in OrderIds : o = wh[d].event.order
    BY <1>4 DEF DispatchEffects, DeliveryLocals, Event
  <2>1. wh'[d].pc # "effects"
    BY <1>0, <1>4 DEF DispatchEffects, MoveTo, Delivery
  <2>2. o \in OrderIds /\ d \in DeliveryConfirming(o)
    BY <1>4, <2>0 DEF DispatchEffects, DeliveryConfirming
  <2>3. confirmations' = [confirmations EXCEPT ![o] = @ + 1] /\ UNCHANGED orders
    BY <1>4, <2>0 DEF DispatchEffects, PlacedEffects
  <2>4. Confirms(o)
    BY <1>1, <1>3, <2>1, <2>2, <2>3 DEF Confirms, NoneStarts
  <2> QED BY <2>2, <2>4 DEF ConfirmMove
<1>5. CASE DispatchCapture(d)
  <2>0. PICK o \in OrderIds : o = wh[d].event.order
    BY <1>5 DEF DispatchCapture, DeliveryLocals, Event
  <2>1. o \in OrderIds /\ UNCHANGED confirmations
    BY <1>5 DEF DispatchCapture
  <2>2. CASE MoveTo(d, "mark") \/ MoveTo(d, "fill")
    <3>1. wh'[d].pc # "effects"
      BY <1>0, <2>2 DEF MoveTo, Delivery
    <3> QED BY <1>1, <1>3, <2>1, <3>1 DEF ConfirmMove, Bystands, NoneStarts
  <2>3. CASE MarkPlaced(o, TRUE, TRUE) /\ MoveTo(d, "effects")
    <3>1. IsPending(o) /\ orders'[o].status = "placed"
      BY <1>0, <2>1, <2>3 DEF MarkPlaced, Order
    <3>2. wh'[d].event = wh[d].event
      BY <1>0, <2>3 DEF MoveTo, Delivery
    <3>3. \A q \in OrderIds \ {o} : DeliveryConfirming(q)' \subseteq DeliveryConfirming(q)
      BY <1>2, <2>0, <3>2 DEF DeliveryConfirming
    <3>4. DeliveryConfirming(o)' \subseteq DeliveryConfirming(o) \cup {d}
      BY <1>2 DEF DeliveryConfirming
    <3>5. Wins(o)
      BY <1>1, <2>1, <3>1, <3>3, <3>4 DEF Wins, NoneStarts
    <3> QED BY <2>1, <3>5 DEF ConfirmMove
  <2>4. \/ MoveTo(d, "mark") \/ MoveTo(d, "fill")
        \/ MarkPlaced(o, TRUE, TRUE) /\ MoveTo(d, "effects")
    BY <1>5, <2>0 DEF DispatchCapture
  <2> QED BY <2>2, <2>3, <2>4
<1>6. CASE \/ \E e \in Event : Deliver(d, e)
           \/ CheckEvent(d) \/ DispatchFill(d) \/ DispatchFailed(d)
           \/ DispatchRelease(d) \/ AckDelivery(d) \/ DeliveryFails(d)
  <2>1. wh'[d].pc # "effects"
    <3>1. ASSUME NEW e \in Event, Deliver(d, e) PROVE wh'[d].pc # "effects"
      BY <1>0, <3>1 DEF Deliver, Delivery
    <3>2. CASE CheckEvent(d) \/ AckDelivery(d) \/ DeliveryFails(d)
      <4>1. wh' = [wh EXCEPT ![d] = IdleDelivery] \/ MoveTo(d, "dispatch")
        BY <3>2 DEF CheckEvent, AckDelivery, DeliveryFails
      <4> QED BY <1>0, <4>1 DEF MoveTo, IdleDelivery, Delivery
    <3>3. CASE DispatchFill(d)
      BY <1>0, <3>3 DEF DispatchFill, MoveTo, Delivery
    <3>4. CASE DispatchFailed(d) /\ MoveTo(d, "mark")
      BY <1>0, <3>4 DEF MoveTo, Delivery
    <3>5. CASE DispatchFailed(d) /\ ~MoveTo(d, "mark")
      <4>1. \E pc \in {"release", "mark"}, todo \in {Items(orders[wh[d].event.order].lines), {}} :
              wh' = [wh EXCEPT ![d].pc = pc, ![d].todo = todo]
        BY <3>5 DEF DispatchFailed
      <4> QED BY <1>0, <4>1 DEF Delivery
    <3>6. CASE DispatchRelease(d)
      BY <1>0, <3>6 DEF DispatchRelease, Delivery
    <3> QED BY <1>6, <3>1, <3>2, <3>3, <3>4, <3>5, <3>6
  <2>2. UNCHANGED confirmations
    BY <1>6 DEF Deliver, CheckEvent, DispatchFill, DispatchFailed, DispatchRelease,
       AckDelivery, DeliveryFails
  <2> QED BY <1>1, <1>3, <2>1, <2>2 DEF ConfirmMove, Bystands, NoneStarts
<1> QED BY <1>4, <1>5, <1>6 DEF HandleWebhook, HandleWebhookNext, DeliveryStep

LEMMA ConfirmMoves == TypeInv /\ [Next]_vars => ConfirmMove
<1> SUFFICES ASSUME TypeInv, [Next]_vars PROVE ConfirmMove
  OBVIOUS
<1>1. CASE UNCHANGED <<cb, wh, confirmations>>
  BY <1>1 DEF ConfirmMove, Bystands, NoneStarts, Confirming, DeliveryConfirming
<1>2. \/ \E c \in Callbacks : ConfirmPayment(c)
      \/ \E d \in Deliveries : HandleWebhook(d)
      \/ UNCHANGED <<cb, wh, confirmations>>
  BY ShopperFrame, ClockFrame, CheckoutFrame, PayFrame, SweepFrame DEF Next, vars
<1> QED BY <1>1, <1>2, CallbackConfirms, DeliveryConfirms

\* ConfirmInv and ConfirmedOnce, order by order.
Fine(o) ==
  /\ confirmations[o] <= 1
  /\ confirmations[o] = 1 => orders[o].status = "placed"
  /\ Confirming(o) # {} \/ DeliveryConfirming(o) # {} =>
       orders[o].status = "placed" /\ confirmations[o] = 0
  /\ Confirming(o) = {} \/ DeliveryConfirming(o) = {}
  /\ \A c1, c2 \in Confirming(o) : c1 = c2
  /\ \A d1, d2 \in DeliveryConfirming(o) : d1 = d2

LEMMA ConfirmStepped ==
  TypeInv /\ ConfirmInv /\ ConfirmedOnce /\ [Next]_vars => ConfirmInv' /\ ConfirmedOnce'
<1> SUFFICES ASSUME TypeInv, ConfirmInv, ConfirmedOnce, [Next]_vars
             PROVE  ConfirmInv' /\ ConfirmedOnce'
  OBVIOUS
<1>0. /\ confirmations \in [OrderIds -> Nat]
      /\ \A o \in OrderIds : orders[o].status = "placed" => orders'[o].status = "placed"
  BY OrdersStep, OrdersMonotone DEF TypeInv, TypeOK, PaymentsTypeOK, Settled
<1>1. \A o \in OrderIds : Fine(o)
  BY DEF ConfirmInv, ConfirmedOnce, Fine
<1>2. ASSUME NEW o \in OrderIds, NoneStarts(o), confirmations'[o] = confirmations[o]
      PROVE  Fine(o)'
  BY <1>0, <1>1, <1>2 DEF NoneStarts, Fine
<1>3. ASSUME NEW o \in OrderIds, Wins(o)
      PROVE  \A q \in OrderIds : Fine(q)'
  <2>1. Confirming(o) = {} /\ DeliveryConfirming(o) = {} /\ confirmations[o] = 0
    <3>1. orders[o].status # "placed"
      BY <1>3 DEF Wins, IsPending
    <3> QED BY <1>0, <1>1, <3>1 DEF Fine
  <2>2. orders'[o].status = "placed" /\ confirmations'[o] = 0
    BY <1>3, <2>1 DEF Wins
  <2>3. Fine(o)'
    BY <1>3, <2>1, <2>2 DEF Wins, Fine
  <2>4. \A q \in OrderIds \ {o} : Fine(q)'
    BY <1>2, <1>3 DEF Wins
  <2> QED BY <2>3, <2>4
<1>4. ASSUME NEW o \in OrderIds, Confirms(o)
      PROVE  \A q \in OrderIds : Fine(q)'
  <2>1. orders[o].status = "placed" /\ confirmations[o] = 0
    BY <1>1, <1>4 DEF Confirms, Fine
  <2>2. confirmations'[o] = 1
    BY <1>0, <1>4, <2>1 DEF Confirms
  <2>3. Confirming(o)' = {} /\ DeliveryConfirming(o)' = {}
    BY <1>1, <1>4 DEF Confirms, NoneStarts, Fine
  <2>4. Fine(o)'
    BY <1>0, <2>1, <2>2, <2>3 DEF Fine
  <2>5. \A q \in OrderIds \ {o} : Fine(q)'
    BY <1>0, <1>2, <1>4 DEF Confirms
  <2> QED BY <2>4, <2>5
<1>5. ASSUME Bystands, NEW o \in OrderIds
      PROVE  Fine(o)'
  BY <1>2, <1>5 DEF Bystands
<1>6. \A o \in OrderIds : Fine(o)'
  BY <1>3, <1>4, <1>5, ConfirmMoves DEF ConfirmMove
<1>7. ConfirmedOnce'
  BY <1>6 DEF ConfirmedOnce, Fine
<1>8. ConfirmInv'
  BY <1>6 DEF ConfirmInv, Fine
<1> QED BY <1>7, <1>8

LEMMA ConfirmInit == Init => ConfirmInv /\ ConfirmedOnce
BY DEF Init, PaymentsInit, IdleDelivery, ConfirmInv, ConfirmedOnce, Confirming,
       DeliveryConfirming

\* The confirmation email and the cart clear happen at most once per order, and
\* only for an order that is placed, across the callback, the webhook and every
\* redelivery of an event (service.go and webhook.go, the tests of modified).
THEOREM OneConfirmation == Spec => []ConfirmedOnce
BY ConfirmInit, ConfirmStepped, TypeCorrect, PTL DEF Spec

-----------------------------------------------------------------------------
(* Every step is a deal of the abstract shop, or none.                     *)

LEMMA OpensEmpty == Init => Shop!Open
BY DEF Init, StoreInit, Document, RazorpayInit, PaymentsInit, Captured, PhaseOf, Shop!Open

\* A step that takes no money and confirms nothing reserves, sells or ends one
\* reservation, or leaves them all as they are.
LEMMA OrdersDeal ==
  ASSUME TypeInv, ShopperKnown, PaidInv, OrderEvolves, UNCHANGED <<emitted, confirmations>>
  PROVE  [Shop!Trade]_Shop!shopVars
<1>0. orders \in [OrderIds -> Order]
  BY DEF TypeInv, TypeOK, StoreTypeOK
<1>1. {o \in OrderIds : Captured(o)}' = {o \in OrderIds : Captured(o)}
  BY DEF Captured
<1>2. CASE UNCHANGED orders
  BY <1>1, <1>2 DEF Shop!shopVars, PhaseOf
<1>3. ASSUME NEW o \in OrderIds, NEW new \in Order,
             orders' = [orders EXCEPT ![o] = new], Evolves(o, new)
      PROVE  [Shop!Trade]_Shop!shopVars
  <2>0. orders'[o] = new /\ \A q \in OrderIds \ {o} : orders'[q] = orders[q]
    BY <1>0, <1>3
  <2>1. CASE Inserts(o, new)
    <3>1. PICK r \in Requests :
            /\ co[r].pc = "insert"
            /\ PendingOf(co[r].user) = {}
            /\ new = Document("pending_payment", co[r].user, co[r].lines)
      BY <2>1 DEF Inserts
    <3>2. PICK u \in Users : u = co[r].user
      BY <3>1 DEF ShopperKnown
    <3>3. PhaseOf(o) = "free" /\ Shop!HeldBy(u) = {}
      BY <2>1, <3>1, <3>2 DEF Inserts, PhaseOf, Shop!HeldBy, PendingOf, IsPending
    <3>4. [q \in OrderIds |-> PhaseOf(q)]'
            = [[q \in OrderIds |-> PhaseOf(q)] EXCEPT ![o] = "held"]
      <4>1. orders'[o].status = "pending_payment"
        BY <2>0, <3>1 DEF Document
      <4>2. PhaseOf(o)' = "held" /\ \A q \in OrderIds \ {o} : PhaseOf(q)' = PhaseOf(q)
        BY <2>0, <4>1 DEF PhaseOf
      <4> QED BY <4>2
    <3>5. [q \in OrderIds |-> orders[q].user]'
            = [[q \in OrderIds |-> orders[q].user] EXCEPT ![o] = u]
      <4>1. orders'[o].user = u
        BY <2>0, <3>1, <3>2 DEF Document
      <4> QED BY <2>0, <4>1
    <3>6. Shop!Hold(o, u)
      BY <1>1, <3>3, <3>4, <3>5 DEF Shop!Hold
    <3> QED BY <3>2, <3>6 DEF Shop!Trade, Shop!Deal
  <2>2. CASE Settles(o, new)
    <3>1. PhaseOf(o) = "held"
      BY <2>2 DEF Settles, IsPending, PhaseOf
    <3>2. [q \in OrderIds |-> orders[q].user]' = [q \in OrderIds |-> orders[q].user]
      BY <2>0, <2>2 DEF Settles
    <3>3. CASE new.status = "placed"
      <4>1. Captured(o)
        BY <2>2, <3>3, EntitledIsPaid DEF Settles
      <4>2. [q \in OrderIds |-> PhaseOf(q)]'
              = [[q \in OrderIds |-> PhaseOf(q)] EXCEPT ![o] = "sold"]
        BY <2>0, <3>3 DEF PhaseOf
      <4>3. Shop!Sell(o)
        BY <1>1, <3>1, <3>2, <4>1, <4>2 DEF Shop!Sell
      <4> QED BY <4>3 DEF Shop!Trade, Shop!Deal
    <3>4. CASE new.status # "placed"
      <4>1. [q \in OrderIds |-> PhaseOf(q)]'
              = [[q \in OrderIds |-> PhaseOf(q)] EXCEPT ![o] = "ended"]
        BY <2>0, <2>2, <3>4 DEF PhaseOf, Settles, Settled
      <4>2. Shop!Release(o)
        BY <1>1, <3>1, <3>2, <4>1 DEF Shop!Release
      <4> QED BY <4>2 DEF Shop!Trade, Shop!Deal
    <3> QED BY <3>3, <3>4
  <2>3. CASE Annotates(o, new)
    <3>1. /\ [q \in OrderIds |-> PhaseOf(q)]' = [q \in OrderIds |-> PhaseOf(q)]
          /\ [q \in OrderIds |-> orders[q].user]' = [q \in OrderIds |-> orders[q].user]
      BY <2>0, <2>3 DEF Annotates, PhaseOf
    <3> QED BY <1>1, <3>1 DEF Shop!shopVars
  <2> QED BY <1>3, <2>1, <2>2, <2>3 DEF Evolves
<1> QED BY <1>2, <1>3 DEF OrderEvolves

\* Razorpay takes the money of an order that was answered to its shopper.
LEMMA PayDeals ==
  ASSUME TypeInv, InsertInv, NEW o \in OrderIds, Pay(o)
  PROVE  [Shop!Trade]_Shop!shopVars
<1>0. UNCHANGED <<orders, confirmations>>
  BY PayFrame
<1>1. CASE CapturePayment(o)
  <2>1. PhaseOf(o) # "free"
    BY <1>1 DEF CapturePayment, SheetOpen, InsertInv, Inserted, PhaseOf
  <2>2. {q \in OrderIds : Captured(q)}' = {q \in OrderIds : Captured(q)} \cup {o}
    BY <1>1 DEF CapturePayment, Captured, CaptureEvent, PaidEvent
  <2>3. Shop!Take(o)
    BY <1>0, <1>1, <2>1, <2>2 DEF Shop!Take, PhaseOf, CapturePayment
  <2> QED BY <2>3 DEF Shop!Trade, Shop!Deal
<1>2. CASE DeclinePayment(o)
  <2>1. {q \in OrderIds : Captured(q)}' = {q \in OrderIds : Captured(q)}
    BY <1>2 DEF DeclinePayment, Captured, CaptureEvent, FailedEvent
  <2> QED BY <1>0, <2>1 DEF Shop!shopVars, PhaseOf
<1> QED BY <1>1, <1>2 DEF Pay

\* A handler that confirms is the only one that may.
LEMMA ConfirmDeals ==
  ASSUME TypeInv, ConfirmInv, UNCHANGED emitted, NEW o \in OrderIds, Confirms(o)
  PROVE  [Shop!Trade]_Shop!shopVars
<1>1. PhaseOf(o) = "sold" /\ confirmations[o] = 0
  BY DEF ConfirmInv, Confirms, PhaseOf
<1>2. confirmations' = [confirmations EXCEPT ![o] = 1] /\ UNCHANGED orders
  BY <1>1 DEF Confirms, TypeInv, TypeOK, PaymentsTypeOK
<1>3. {q \in OrderIds : Captured(q)}' = {q \in OrderIds : Captured(q)}
  BY DEF Captured
<1>4. Shop!Confirm(o)
  BY <1>1, <1>2, <1>3 DEF Shop!Confirm, PhaseOf
<1> QED BY <1>4 DEF Shop!Trade, Shop!Deal

LEMMA StepDeals ==
  /\ TypeInv /\ ShopperKnown /\ InsertInv /\ PaidInv /\ ConfirmInv
  /\ [Next]_vars
  => [Shop!Trade]_Shop!shopVars
<1> SUFFICES ASSUME TypeInv, ShopperKnown, InsertInv, PaidInv, ConfirmInv, [Next]_vars
             PROVE  [Shop!Trade]_Shop!shopVars
  OBVIOUS
<1>1. CASE \E o \in OrderIds : Pay(o)
  BY <1>1, PayDeals
<1>2. CASE UNCHANGED emitted
  <2>1. CASE \E o \in OrderIds : Confirms(o)
    BY <1>2, <2>1, ConfirmDeals
  <2>2. CASE UNCHANGED confirmations
    BY <1>2, <2>2, OrdersStep, OrdersDeal
  <2> QED BY <2>1, <2>2, ConfirmMoves DEF ConfirmMove, Bystands, Wins
<1>3. (\E o \in OrderIds : Pay(o)) \/ UNCHANGED emitted
  BY ShopperFrame, ClockFrame, CheckoutFrame, CallbackFrame, DeliveryFrame, SweepFrame
     DEF Next, vars
<1> QED BY <1>1, <1>2, <1>3

\* The requests, callbacks, deliveries and sweepers, interleaved and failing,
\* implement the abstract shop.
THEOREM ServiceKeepsItsPromise == Spec => KeepsItsPromise
<1>1. Init => ShopperKnown
  BY DEF Init, CheckoutInit, NotRunning, ShopperKnown
<1>2. Spec => [](TypeInv /\ InsertInv /\ PaidInv)
  BY PaidOrders, PTL
<1>3. Spec => []ShopperKnown
  BY <1>1, ShopperKnownStep, TypeCorrect, PTL DEF Spec
<1>4. Spec => []ConfirmInv
  BY ConfirmInit, ConfirmStepped, TypeCorrect, PTL DEF Spec
<1> QED BY <1>2, <1>3, <1>4, OpensEmpty, StepDeals, PTL DEF Spec, KeepsItsPromise, Shop!ShopSpec

=============================================================================
