---------------------------- MODULE OpenCheckout ----------------------------
(***************************************************************************)
(* POST /api/v1/orders: Service.OpenCheckout (internal/order/service.go),  *)
(* one action per database or gateway call.  co[r] is the local state of   *)
(* request r:                                                              *)
(*   pc     the next step                                                  *)
(*   lines  the order lines, copied from the cart at the first step        *)
(*   todo   the lines the current loop (take or release) has still to do   *)
(*   order  the order being released or opened                             *)
(*   tries  order ids drawn so far                                         *)
(* The loops visit the lines in cart order; the order of the lines is      *)
(* abstracted to "any".                                                    *)
(***************************************************************************)
EXTENDS OrderStore

CONSTANTS
  Requests,      \* calls of OpenCheckout
  MaxIDRetries   \* maxIDRetries of the code (5 there)

ASSUME CheckoutAssumption == MaxIDRetries \in Nat \ {0}

ASSUME FiniteRequests == IsFiniteSet(Requests)

VARIABLE co

RequestPC == {"idle", "expire", "releaseOld", "take", "releaseTaken", "insert",
              "gateway", "link", "compensate", "opened", "failed"}

Returned == {"idle", "opened", "failed"}

Request == [pc : RequestPC, user : Users \cup {NoUser}, lines : [Products -> Nat],
            todo : SUBSET Products, order : OrderIds \cup {NoOrder},
            tries : 0 .. MaxIDRetries]

CheckoutTypeOK == co \in [Requests -> Request]

\* A request that is not running has no locals, but for the order it opened.
NotRunning(pc, order) ==
  [pc |-> pc, user |-> NoUser, lines |-> EmptyBasket, todo |-> {},
   order |-> order, tries |-> 0]

CheckoutInit == co = [r \in Requests |-> NotRunning("idle", NoOrder)]

Goto(r, pc, todo) == co' = [co EXCEPT ![r].pc = pc, ![r].todo = todo]

\* The handler returns an error.
Refuse(r) == co' = [co EXCEPT ![r] = NotRunning("failed", NoOrder)]

\* Steps 1-3: the cart is not empty and no line is blocking at this moment.
\* The reads write nothing; a request they refuse stays as it was.
ReadCart(r, u) ==
  /\ co[r].pc = "idle"
  /\ cart[u] # EmptyBasket
  /\ \A p \in Products : cart[u][p] <= stock[p]
  /\ co' = [co EXCEPT ![r].pc = "expire", ![r].user = u, ![r].lines = cart[u]]
  /\ UNCHANGED storeVars

\* Step 4: expire the reservation the shopper already holds, if any.
ExpirePrevious(r) ==
  /\ co[r].pc = "expire"
  /\ \E found \in OrderIds \cup {NoOrder} :
       /\ ExpirePendingForUser(co[r].user, found)
       /\ IF found = NoOrder
            THEN Goto(r, "take", Items(co[r].lines))
            ELSE co' = [co EXCEPT ![r].pc = "releaseOld", ![r].order = found,
                                  ![r].todo = Items(orders[found].lines)]
  /\ UNCHANGED <<stock, cart, returns, faults>>

ExpirePreviousError(r) ==
  /\ co[r].pc = "expire"
  /\ Fail("db")
  /\ Refuse(r)
  /\ UNCHANGED <<orders, stock, cart, returns>>

\* One turn of releaseLines over the lines of an order in the collection:
\* the expired previous one, or our own when compensating.
ReleaseOrderLine(r) ==
  /\ co[r].pc \in {"releaseOld", "compensate"}
  /\ \E p \in co[r].todo :
       /\ ReturnLine(co[r].order, p)
       /\ Goto(r, co[r].pc, co[r].todo \ {p})
  /\ UNCHANGED <<orders, cart>>

\* One turn of releaseLines over units taken for an order never inserted.
ReleaseTakenLine(r) ==
  /\ co[r].pc = "releaseTaken"
  /\ \E p \in co[r].todo :
       /\ \/ ReturnStock(p, co[r].lines[p]) /\ NoFailure
          \/ Fail("return") /\ UNCHANGED stock
       /\ Goto(r, co[r].pc, co[r].todo \ {p})
  /\ UNCHANGED <<orders, cart, returns>>

\* The previous reservation is back on the shelf.
EndReleaseOld(r) ==
  /\ co[r].pc = "releaseOld"
  /\ co[r].todo = {}
  /\ co' = [co EXCEPT ![r].pc = "take", ![r].order = NoOrder,
                      ![r].todo = Items(co[r].lines)]
  /\ UNCHANGED storeVars

\* What was taken for an order never inserted is back on the shelf.
EndReleaseTaken(r) ==
  /\ co[r].pc = "releaseTaken"
  /\ co[r].todo = {}
  /\ Refuse(r)
  /\ UNCHANGED storeVars

\* Step 5: reserve one line.
TakeLine(r) ==
  /\ co[r].pc = "take"
  /\ \E p \in co[r].todo :
       /\ TakeStock(p, co[r].lines[p])
       /\ Goto(r, IF co[r].todo = {p} THEN "insert" ELSE "take", co[r].todo \ {p})
  /\ UNCHANGED <<orders, cart, returns, faults>>

\* Bug variant: the units already taken are not put back.
TakeLineRefusedKeep(r) ==
  /\ co[r].pc = "take"
  /\ \/ (\E p \in co[r].todo : OutOfStock(p, co[r].lines[p])) /\ NoFailure
     \/ Fail("db")
  /\ Refuse(r)
  /\ UNCHANGED <<orders, stock, cart, returns>>

\* Step 5 fails: someone took the units first, or the write failed.
TakeLineRefused(r) ==
  /\ co[r].pc = "take"
  /\ \/ (\E p \in co[r].todo : OutOfStock(p, co[r].lines[p])) /\ NoFailure
     \/ Fail("db")
  /\ Goto(r, "releaseTaken", Items(co[r].lines) \ co[r].todo)
  /\ UNCHANGED <<orders, stock, cart, returns>>

\* Step 6: insert the order under a fresh id.
InsertOrder(r) ==
  /\ co[r].pc = "insert"
  /\ \E o \in OrderIds :
       /\ Create(o, co[r].user, co[r].lines)
       /\ co' = [co EXCEPT ![r].pc = "gateway", ![r].order = o, ![r].tries = 0]
  /\ UNCHANGED <<stock, cart, returns, faults>>

\* Step 6: the drawn id is taken; after the last retry the request gives up.
DuplicateOrderID(r) ==
  /\ co[r].pc = "insert"
  /\ co[r].tries < MaxIDRetries
  /\ \E o \in OrderIds : orders[o].status # "absent"
  /\ LET tries == co[r].tries + 1
         spent == tries = MaxIDRetries
     IN  co' = [co EXCEPT ![r].tries = tries,
                          ![r].pc = IF spent THEN "releaseTaken" ELSE "insert",
                          ![r].todo = IF spent THEN Items(co[r].lines) ELSE {}]
  /\ UNCHANGED storeVars

\* Step 6: the pending-order index fires, or the insert fails.
InsertRefused(r) ==
  /\ co[r].pc = "insert"
  /\ \/ PendingOf(co[r].user) # {} /\ NoFailure
     \/ Fail("db")
  /\ Goto(r, "releaseTaken", Items(co[r].lines))
  /\ UNCHANGED <<orders, stock, cart, returns>>

\* Bug variant: the shopper is answered before the id is committed.
CreateRazorpayOrderAnswer(r) ==
  /\ co[r].pc = "gateway"
  /\ co' = [co EXCEPT ![r] = NotRunning("opened", co[r].order)]
  /\ UNCHANGED storeVars

\* Step 7: Razorpay creates its order.
CreateRazorpayOrder(r) ==
  /\ co[r].pc = "gateway"
  /\ Goto(r, "link", {})
  /\ UNCHANGED storeVars

\* Step 8: commit Razorpay's id and answer the shopper.
LinkRazorpayOrder(r) ==
  /\ co[r].pc = "link"
  /\ SetRazorpayOrderID(co[r].order)
  /\ co' = [co EXCEPT ![r] = NotRunning("opened", co[r].order)]
  /\ UNCHANGED <<stock, cart, returns, faults>>

\* Steps 7-8 fail: compensateAfterInsert starts by releasing the lines.
GatewayError(r) ==
  /\ \/ co[r].pc = "gateway" /\ Fail("gateway")
     \/ co[r].pc = "link" /\ Fail("link")
  /\ Goto(r, "compensate", Items(co[r].lines))
  /\ UNCHANGED <<orders, stock, cart, returns>>

\* compensateAfterInsert ends by expiring WHATEVER order of the user is
\* pending; the order it expires is not looked at and an error is logged.
UndoInsert(r) ==
  /\ co[r].pc = "compensate"
  /\ co[r].todo = {}
  /\ \/ (\E found \in OrderIds \cup {NoOrder} :
           ExpirePendingForUser(co[r].user, found)) /\ NoFailure
     \/ Fail("db") /\ UNCHANGED orders
  /\ Refuse(r)
  /\ UNCHANGED <<stock, cart, returns>>

\* The process dies or the request is cancelled between two calls.
StopRequest(r) ==
  /\ co[r].pc \notin Returned
  /\ Fail("stop")
  /\ Refuse(r)
  /\ UNCHANGED <<orders, stock, cart, returns>>

\* The steps the handler takes by itself once a request has started.
RequestStep(r) ==
  \/ ExpirePrevious(r) \/ ReleaseOrderLine(r) \/ ReleaseTakenLine(r)
  \/ EndReleaseOld(r) \/ EndReleaseTaken(r) \/ TakeLine(r) \/ TakeLineRefused(r)
  \/ InsertOrder(r) \/ DuplicateOrderID(r) \/ InsertRefused(r)
  \/ CreateRazorpayOrder(r) \/ LinkRazorpayOrder(r) \/ UndoInsert(r)

OpenCheckoutNext(r) ==
  \/ \E u \in Users : ReadCart(r, u)
  \/ RequestStep(r)
  \/ ExpirePreviousError(r) \/ GatewayError(r) \/ StopRequest(r)

=============================================================================
