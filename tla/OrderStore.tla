----------------------------- MODULE OrderStore -----------------------------
(***************************************************************************)
(* The shared database of the order service: the orders collection         *)
(* (internal/order/repository.go), the stock field of the products         *)
(* collection (internal/catalogue/repository.go) and the carts.  Each      *)
(* operator below is ONE database call, which MongoDB applies atomically   *)
(* to one document; everything between two calls is an interleaving point. *)
(*                                                                         *)
(* A Razorpay order is created for exactly one of our orders (its receipt  *)
(* is our orderId), so payment.razorpayOrderId is the flag "linked" and a  *)
(* lookup by Razorpay's id is a lookup of a linked order.                  *)
(***************************************************************************)
EXTENDS Naturals, FiniteSets

CONSTANTS
  Users,         \* shoppers
  Products,      \* catalogue ids
  OrderIds,      \* the EFF-###### ids the generator can draw
  NoOrder,       \* the result of a lookup that found nothing
  NoUser,        \* the owner of an id no document carries yet
  InitialStock,  \* stock of each product before the first checkout
  Baskets,       \* the carts a shopper may build: quantity of every product
  FaultKinds,    \* which kinds of failure may happen, see Fail
  MaxFaults      \* bound: how many failures a behaviour may contain

EmptyBasket == [p \in Products |-> 0]

\* The products a basket or an order has a line for.
Items(basket) == {p \in Products : basket[p] > 0}

ASSUME StoreAssumption ==
  /\ NoOrder \notin OrderIds
  /\ NoUser \notin Users
  /\ InitialStock \in [Products -> Nat]
  /\ Baskets \subseteq [Products -> Nat]
  /\ EmptyBasket \notin Baskets
  /\ MaxFaults \in Nat

ASSUME FiniteOrderIds == IsFiniteSet(OrderIds)

VARIABLES
  orders,   \* the orders collection, by orderId
  stock,    \* products.stock
  cart,     \* carts, by user
  returns,  \* history: how often each line of an order was put back on the shelf
  faults    \* how many failures have happened

storeVars == <<orders, stock, cart, returns, faults>>

Status == {"absent", "pending_payment", "placed", "payment_failed", "expired"}

\* lapsed: expiresAt has passed.  method: payment.method is recorded.
Order == [status : Status, user : Users \cup {NoUser}, lines : [Products -> Nat],
          linked : BOOLEAN, method : BOOLEAN, lapsed : BOOLEAN]

Document(status, user, lines) ==
  [status |-> status, user |-> user, lines |-> lines,
   linked |-> FALSE, method |-> FALSE, lapsed |-> FALSE]

StoreTypeOK ==
  /\ orders \in [OrderIds -> Order]
  /\ stock \in [Products -> Nat]
  /\ cart \in [Users -> Baskets \cup {EmptyBasket}]
  /\ returns \in [OrderIds -> [Products -> Nat]]
  /\ faults \in 0 .. MaxFaults

StoreInit ==
  /\ orders = [o \in OrderIds |-> Document("absent", NoUser, EmptyBasket)]
  /\ stock = InitialStock
  /\ cart = [u \in Users |-> EmptyBasket]
  /\ returns = [o \in OrderIds |-> EmptyBasket]
  /\ faults = 0

(***************************************************************************)
(* Failures.  "gateway": Razorpay's order API.  "link": the write of the   *)
(* Razorpay id.  "return": a ReturnStock.  "db": any other database call.  *)
(* "stop": the process dies or the request context is cancelled, after     *)
(* which no later call of that request takes effect.  A failed write is    *)
(* not applied.                                                            *)
(***************************************************************************)
Fail(kind) ==
  /\ kind \in FaultKinds
  /\ faults < MaxFaults
  /\ faults' = faults + 1

NoFailure == UNCHANGED faults

-----------------------------------------------------------------------------
(* The orders collection.                                                  *)

IsPending(o) == orders[o].status = "pending_payment"

PendingOf(u) == {o \in OrderIds : IsPending(o) /\ orders[o].user = u}

\* Bug variant: the partial unique index on userId is missing.
CreateUnindexed(o, u, lines) ==
  /\ orders[o].status = "absent"
  /\ orders' = [orders EXCEPT ![o] = Document("pending_payment", u, lines)]

\* Create succeeds: neither unique index (orderId, pending userId) fires.
Create(o, u, lines) ==
  /\ orders[o].status = "absent"
  /\ PendingOf(u) = {}
  /\ orders' = [orders EXCEPT ![o] = Document("pending_payment", u, lines)]

\* Bug variant: the status filter of the update is dropped.
MarkPlacedBlind(o, method, modified) ==
  /\ modified = TRUE
  /\ orders' = [orders EXCEPT ![o].status = "placed", ![o].method = method]

\* MarkPlaced replaces the whole payment sub-document, the method included.
MarkPlaced(o, method, modified) ==
  /\ modified = IsPending(o)
  /\ orders' = IF modified
                 THEN [orders EXCEPT ![o].status = "placed", ![o].method = method]
                 ELSE orders

\* Bug variant: it filters on pending_payment, as MarkPlaced does.
FillPaymentDetailPending(o) ==
  orders' = IF IsPending(o) THEN [orders EXCEPT ![o].method = TRUE] ELSE orders

\* FillPaymentDetail records the method of an already placed order, once.
FillPaymentDetail(o) ==
  orders' = IF orders[o].status = "placed" /\ ~orders[o].method
              THEN [orders EXCEPT ![o].method = TRUE]
              ELSE orders

MarkPaymentFailed(o, modified) ==
  /\ modified = IsPending(o)
  /\ orders' = IF modified
                 THEN [orders EXCEPT ![o].status = "payment_failed"]
                 ELSE orders

\* Bug variant: "releasing on a blind write", the sweep without its filter.
MarkExpiredBlind(o, modified) ==
  /\ modified = TRUE
  /\ orders' = [orders EXCEPT ![o].status = "expired"]

MarkExpired(o, modified) ==
  /\ modified = IsPending(o)
  /\ orders' = IF modified
                 THEN [orders EXCEPT ![o].status = "expired"]
                 ELSE orders

\* FindOneAndUpdate on the user's pending order; found is what it returns.
ExpirePendingForUser(u, found) ==
  \/ /\ found \in PendingOf(u)
     /\ orders' = [orders EXCEPT ![found].status = "expired"]
  \/ /\ found = NoOrder
     /\ PendingOf(u) = {}
     /\ UNCHANGED orders

\* The filter is the orderId alone: the write lands whatever the status is.
SetRazorpayOrderID(o) == orders' = [orders EXCEPT ![o].linked = TRUE]

ByRazorpayOrderID(o) == orders[o].linked

\* Bug variant: the comparison with expiresAt is reversed.
UnexpiredPending == {o \in OrderIds : IsPending(o) /\ ~orders[o].lapsed}

\* What FindExpiredPending can return, before its limit.
ExpiredPending == {o \in OrderIds : IsPending(o) /\ orders[o].lapsed}

-----------------------------------------------------------------------------
(* The stock field.                                                        *)

\* Bug variant: the $gte guard is an unguarded decrement.
TakeStockUnguarded(p, qty) ==
  stock' = [stock EXCEPT ![p] = @ - qty]

\* TakeStock: the $gte guard is in the filter of the decrement.
TakeStock(p, qty) ==
  /\ stock[p] >= qty
  /\ stock' = [stock EXCEPT ![p] = @ - qty]

OutOfStock(p, qty) == stock[p] < qty

ReturnStock(p, qty) == stock' = [stock EXCEPT ![p] = @ + qty]

\* One turn of a release loop over the lines of order o: an error is logged
\* and the loop goes on.
ReturnLine(o, p) ==
  \/ /\ ReturnStock(p, orders[o].lines[p])
     /\ returns' = [returns EXCEPT ![o][p] = @ + 1]
     /\ NoFailure
  \/ Fail("return") /\ UNCHANGED <<stock, returns>>

-----------------------------------------------------------------------------
(* The shopper and the clock.                                              *)

\* Cart edits, whatever their order; the cart service has its own module.
EditCart(u) ==
  /\ \E b \in Baskets : cart' = [cart EXCEPT ![u] = b]
  /\ UNCHANGED <<orders, stock, returns, faults>>

\* The reservation window of a pending order runs out.
Lapse(o) ==
  /\ IsPending(o)
  /\ orders' = [orders EXCEPT ![o].lapsed = TRUE]
  /\ UNCHANGED <<stock, cart, returns, faults>>

=============================================================================
