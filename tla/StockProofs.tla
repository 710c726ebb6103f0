----------------------------- MODULE StockProofs -----------------------------
(***************************************************************************)
(* The units of the shop, for every value of the constants.                *)
(*                                                                         *)
(* A total is the cardinality of a set of tokens, one per unit, so sums    *)
(* over parties need no recursion: a step that changes the amount of one   *)
(* party changes the total by that much (TotalChanges), and of two by both.*)
(* The ledger then needs one fact per action, which party's units go up    *)
(* and which go down (LedgerStep): a take moves a unit from the shelf to a *)
(* checkout, an insert from the checkout to its order, an end from the     *)
(* order to whoever ended it, and a return back to the shelf.              *)
(*                                                                         *)
(* Where a step fails, the units that leave a party reach nobody: the      *)
(* total never grows, which is NothingIsOversold.  Without failures they   *)
(* always reach another, which is StockStaysConserved.  Both need that no  *)
(* checkout compensates: compensateAfterInsert returns units that may no   *)
(* longer be its own.                                                      *)
(***************************************************************************)
EXTENDS OrderSafetyProofs, StockLedger, FiniteSetTheorems

-----------------------------------------------------------------------------
(* Sums over a finite set, as numbers of tokens.                           *)

Amounts(S) == [S -> Nat]

\* The tokens of every party but h.
Others(held, h) == UNION {{x} \X (1 .. held[x]) : x \in DOMAIN held \ {h}}

LEMMA UnitsFinite ==
  ASSUME NEW S, IsFiniteSet(S), NEW held \in Amounts(S)
  PROVE  IsFiniteSet(Units(held))
<1> DEFINE tokens == [x \in S |-> {x} \X (1 .. held[x])]
           T == {{x} \X (1 .. held[x]) : x \in S}
<1>1. tokens \in Surjection(S, T)
  BY DEF Surjection
<1>2. IsFiniteSet(T)
  <2> HIDE DEF tokens, T
  <2> QED BY <1>1, FS_Surjection
<1>3. ASSUME NEW x \in S PROVE IsFiniteSet({x} \X (1 .. held[x]))
  <2>1. held[x] \in Nat
    BY DEF Amounts
  <2>2. IsFiniteSet({x})
    BY FS_Singleton
  <2>3. IsFiniteSet(1 .. held[x])
    BY <2>1, FS_Interval
  <2> QED BY <2>2, <2>3, FS_Product
<1>4. Units(held) = UNION T
  BY DEF Units, Amounts
<1> QED BY <1>2, <1>3, <1>4, FS_UNION

LEMMA TotalType ==
  ASSUME NEW S, IsFiniteSet(S), NEW held \in Amounts(S)
  PROVE  Total(held) \in Nat
BY UnitsFinite, FS_CardinalityType DEF Total

\* The total is what h holds and what the others hold.
LEMMA TotalSplit ==
  ASSUME NEW S, IsFiniteSet(S), NEW held \in Amounts(S), NEW h \in S
  PROVE  /\ Cardinality(Others(held, h)) \in Nat
         /\ Total(held) = Cardinality(Others(held, h)) + held[h]
<1> DEFINE own == {h} \X (1 .. held[h])
           rest == Others(held, h)
<1>0. held[h] \in Nat /\ DOMAIN held = S
  BY DEF Amounts
<1>1. Units(held) = rest \cup own
  BY <1>0 DEF Units, Others
<1>2. rest \cap own = {}
  BY DEF Others
<1>3. IsFiniteSet(rest)
  <2>1. rest \in SUBSET Units(held)
    BY <1>1
  <2> QED BY <2>1, UnitsFinite, FS_Subset
<1>4. IsFiniteSet(own) /\ Cardinality(own) = held[h]
  <2>1. IsFiniteSet({h}) /\ Cardinality({h}) = 1
    BY FS_Singleton
  <2>2. IsFiniteSet(1 .. held[h]) /\ Cardinality(1 .. held[h]) = held[h]
    BY <1>0, FS_Interval
  <2>3. IsFiniteSet(own) /\ Cardinality(own) = 1 * held[h]
    BY <2>1, <2>2, FS_Product
  <2> QED BY <1>0, <2>3
<1>5. Cardinality(rest) \in Nat
  BY <1>3, FS_CardinalityType
<1>6. Cardinality(rest \cup own) =
        Cardinality(rest) + Cardinality(own) - Cardinality(rest \cap own)
  <2> HIDE DEF rest, own
  <2> QED BY <1>3, <1>4, FS_Union
<1> HIDE DEF rest, own
<1>7. Total(held) = Cardinality(rest) + held[h]
  <2>1. Cardinality(rest \cap own) = 0
    BY <1>2, FS_EmptySet
  <2>2. Total(held) = Cardinality(rest \cup own)
    BY <1>1 DEF Total
  <2> QED BY <1>0, <1>4, <1>5, <1>6, <2>1, <2>2
<1> QED BY <1>5, <1>7 DEF rest

\* If only h's amount changes, the total changes by as much.
LEMMA TotalChanges ==
  ASSUME NEW S, IsFiniteSet(S), NEW f \in Amounts(S), NEW g \in Amounts(S),
         NEW h \in S, \A x \in S : x # h => g[x] = f[x]
  PROVE  Total(g) + f[h] = Total(f) + g[h]
<1>1. Others(f, h) = Others(g, h)
  BY DEF Others, Amounts
<1>2. f[h] \in Nat /\ g[h] \in Nat
  BY DEF Amounts
<1> QED BY <1>1, <1>2, TotalSplit

-----------------------------------------------------------------------------
(* What a party holds.                                                     *)

Live == {"pending_payment", "placed"}

LEMMA LiveUnits ==
  ASSUME NEW o \in OrderIds, NEW p \in Products
  PROVE  /\ NobodyCompensates =>
              OrderUnits(o, p) = IF orders[o].status \in Live
                                   THEN orders[o].lines[p] ELSE 0
         /\ NobodyCompensates' =>
              OrderUnits(o, p)' = IF orders'[o].status \in Live
                                    THEN orders'[o].lines[p] ELSE 0
<1>1. NobodyCompensates => Compensated(o) = {}
  BY DEF NobodyCompensates, Compensated
<1>2. NobodyCompensates' => Compensated(o)' = {}
  BY DEF NobodyCompensates, Compensated
<1> QED BY <1>1, <1>2 DEF OrderUnits, Live

LEMMA UnitsType ==
  ASSUME TypeInv, NobodyCompensates, NEW p \in Products
  PROVE  /\ \A o \in OrderIds : OrderUnits(o, p) \in Nat
         /\ \A r \in Requests : CheckoutUnits(r, p) \in Nat
         /\ \A d \in Deliveries : DeliveryUnits(d, p) \in Nat
         /\ \A s \in Sweepers : SweeperUnits(s, p) \in Nat
<1> USE DEF TypeInv, TypeOK, LocalsOK
<1>1. \A o \in OrderIds : orders[o].lines[p] \in Nat
  BY DEF StoreTypeOK, Order
<1>2. \A o \in OrderIds : OrderUnits(o, p) \in Nat
  BY <1>1, LiveUnits
<1>3. \A r \in Requests : CheckoutUnits(r, p) \in Nat
  BY <1>1 DEF CheckoutUnits, CheckoutTypeOK, CheckoutLocals, Request
<1>4. \A d \in Deliveries : DeliveryUnits(d, p) \in Nat
  BY <1>1 DEF DeliveryUnits, DeliveryLocals, Event
<1>5. \A s \in Sweepers : SweeperUnits(s, p) \in Nat
  BY <1>1 DEF SweeperUnits, SweeperLocals
<1> QED BY <1>2, <1>3, <1>4, <1>5

\* A party that does not move holds what it held: nobody rewrites the lines of
\* an order whose release loop is running.
LEMMA UnitsKept ==
  ASSUME TypeInv, ReleaseInv, OrderEvolves, NEW p \in Products
  PROVE  /\ \A r \in Requests : co'[r] = co[r] => CheckoutUnits(r, p)' = CheckoutUnits(r, p)
         /\ \A d \in Deliveries : wh'[d] = wh[d] => DeliveryUnits(d, p)' = DeliveryUnits(d, p)
         /\ \A s \in Sweepers : sw'[s] = sw[s] => SweeperUnits(s, p)' = SweeperUnits(s, p)
<1> USE DEF TypeInv, TypeOK, LocalsOK
<1>1. \A o \in OrderIds : orders[o].status \in Ended => orders'[o].lines = orders[o].lines
  BY OrdersMonotone DEF Ended
<1>2. ASSUME NEW r \in Requests, co'[r] = co[r]
      PROVE  CheckoutUnits(r, p)' = CheckoutUnits(r, p)
  <2>1. CASE co[r].pc = "releaseOld"
    <3>1. orders'[co[r].order].lines = orders[co[r].order].lines
      BY <1>1, <2>1 DEF ReleaseInv, CheckoutLocals
    <3> QED BY <1>2, <2>1, <3>1 DEF CheckoutUnits
  <2>2. CASE co[r].pc # "releaseOld"
    BY <1>2, <2>2 DEF CheckoutUnits
  <2> QED BY <2>1, <2>2
<1>3. ASSUME NEW d \in Deliveries, wh'[d] = wh[d]
      PROVE  DeliveryUnits(d, p)' = DeliveryUnits(d, p)
  BY <1>1, <1>3 DEF ReleaseInv, DeliveryLocals, DeliveryUnits, Event
<1>4. ASSUME NEW s \in Sweepers, sw'[s] = sw[s]
      PROVE  SweeperUnits(s, p)' = SweeperUnits(s, p)
  BY <1>1, <1>4 DEF ReleaseInv, SweeperLocals, SweeperUnits
<1> QED BY <1>2, <1>3, <1>4

-----------------------------------------------------------------------------
(* How units move in one step.                                             *)

\* Product p's units move between the shelf and parties that held `before' of
\* them and hold `after' now; only a failure loses any.
Moved(p, before, after) ==
  /\ stock'[p] + after <= stock[p] + before
  /\ UNCHANGED faults => stock'[p] + after = stock[p] + before

\* Every order but o accounts for what it did.
OrdersKept(p, except) ==
  \A o \in OrderIds \ except : OrderUnits(o, p)' = OrderUnits(o, p)

LEMMA FailCounts == ASSUME StoreTypeOK, NEW kind, Fail(kind) PROVE faults' # faults
BY DEF Fail, StoreTypeOK

\* A database call that neither begins nor ends a reservation.
LEMMA QuietOrders ==
  ASSUME TypeInv, NobodyCompensates, NobodyCompensates', NEW p \in Products,
         \A o \in OrderIds :
           /\ orders'[o].status \in Live <=> orders[o].status \in Live
           /\ orders'[o].lines = orders[o].lines
  PROVE  OrdersKept(p, {})
BY LiveUnits DEF OrdersKept

LEMMA MarkPlacedQuiet ==
  ASSUME StoreTypeOK, NEW q \in OrderIds, NEW method \in BOOLEAN,
         NEW modified \in BOOLEAN, MarkPlaced(q, method, modified), NEW o \in OrderIds
  PROVE  /\ orders'[o].status \in Live <=> orders[o].status \in Live
         /\ orders'[o].lines = orders[o].lines
BY DEF StoreTypeOK, Order, MarkPlaced, IsPending, Live

LEMMA AnnotatingQuiet ==
  ASSUME StoreTypeOK, NEW q \in OrderIds,
         FillPaymentDetail(q) \/ SetRazorpayOrderID(q) \/ Lapse(q), NEW o \in OrderIds
  PROVE  /\ orders'[o].status \in Live <=> orders[o].status \in Live
         /\ orders'[o].lines = orders[o].lines
BY DEF StoreTypeOK, Order, FillPaymentDetail, SetRazorpayOrderID, Lapse

\* The call that ends a reservation hands its units to the caller.
LEMMA EndingMoves ==
  ASSUME TypeInv, NobodyCompensates, NobodyCompensates', NEW p \in Products,
         NEW o \in OrderIds, IsPending(o), NEW status \in Ended,
         orders' = [orders EXCEPT ![o].status = status]
  PROVE  /\ OrdersKept(p, {o})
         /\ OrderUnits(o, p) = orders[o].lines[p]
         /\ OrderUnits(o, p)' = 0
         /\ orders'[o].lines = orders[o].lines
<1>1. orders \in [OrderIds -> Order]
  BY DEF TypeInv, TypeOK, StoreTypeOK
<1>2. \A q \in OrderIds : q # o => orders'[q] = orders[q]
  BY <1>1
<1>3. orders'[o].status = status /\ orders'[o].lines = orders[o].lines
  BY <1>1 DEF Order
<1> QED BY <1>2, <1>3, LiveUnits DEF OrdersKept, Ended, Live, IsPending

\* The units of a line are put back, or stranded by a failure.
LEMMA ReturnMoves ==
  ASSUME TypeInv, NEW o \in OrderIds, NEW x \in Products, ReturnLine(o, x),
         NEW p \in Products
  PROVE  Moved(p, IF p = x THEN orders[o].lines[x] ELSE 0, 0)
<1>1. stock \in [Products -> Nat] /\ orders[o].lines \in [Products -> Nat]
  BY DEF TypeInv, TypeOK, StoreTypeOK, Order
<1>2. CASE ReturnStock(x, orders[o].lines[x])
  BY <1>1, <1>2 DEF ReturnStock, Moved
<1>3. CASE Fail("return") /\ UNCHANGED stock
  BY <1>1, <1>3, FailCounts DEF Moved, TypeInv, TypeOK
<1> QED BY <1>2, <1>3 DEF ReturnLine

\* Units move between the shelf, one order at most, and the party that moves.
Flow(p, before, after) ==
  \/ OrdersKept(p, {}) /\ Moved(p, before, after)
  \/ \E o \in OrderIds :
       OrdersKept(p, {o}) /\ Moved(p, before + OrderUnits(o, p), after + OrderUnits(o, p)')

LEMMA UnchangedOrders ==
  ASSUME TypeInv, NobodyCompensates, NobodyCompensates', NEW p \in Products,
         UNCHANGED orders
  PROVE  OrdersKept(p, {})
BY QuietOrders

LEMMA CheckoutFlow ==
  ASSUME TypeInv, ReleaseInv, NobodyCompensates, NobodyCompensates',
         NEW p \in Products, NEW r \in Requests, OpenCheckoutNext(r)
  PROVE  Flow(p, CheckoutUnits(r, p), CheckoutUnits(r, p)')
<1> USE DEF TypeInv, TypeOK, LocalsOK
<1> DEFINE before == CheckoutUnits(r, p)
           after == CheckoutUnits(r, p)'
<1>0. /\ co \in [Requests -> Request] /\ orders \in [OrderIds -> Order]
      /\ stock \in [Products -> Nat] /\ faults \in Nat
      /\ co[r].lines \in [Products -> Nat] /\ co[r].todo \in SUBSET Products
  BY DEF CheckoutTypeOK, StoreTypeOK, Request
<1>1. before \in Nat
  BY UnitsType
<1>2. CASE \E u \in Users : ReadCart(r, u)
  <2>1. before = 0 /\ after = 0
    BY <1>0, <1>2 DEF ReadCart, Request, CheckoutUnits
  <2>2. OrdersKept(p, {}) /\ Moved(p, before, after)
    BY <1>0, <1>2, <2>1, UnchangedOrders DEF ReadCart, storeVars, Moved
  <2> QED BY <2>2 DEF Flow
<1>3. CASE ExpirePrevious(r)
  <2>1. PICK found \in OrderIds \cup {NoOrder} :
          /\ ExpirePendingForUser(co[r].user, found)
          /\ IF found = NoOrder
               THEN Goto(r, "take", Items(co[r].lines))
               ELSE co' = [co EXCEPT ![r].pc = "releaseOld", ![r].order = found,
                                     ![r].todo = Items(orders[found].lines)]
    BY <1>3 DEF ExpirePrevious
  <2>2. before = 0 /\ UNCHANGED <<stock, faults>>
    BY <1>3 DEF ExpirePrevious, CheckoutUnits
  <2>3. CASE found = NoOrder
    <3>1. after = 0
      BY <1>0, <2>1, <2>3 DEF Goto, Request, CheckoutUnits, Items
    <3>2. UNCHANGED orders
      BY <2>1, <2>3, StoreAssumption DEF ExpirePendingForUser, PendingOf
    <3>3. OrdersKept(p, {}) /\ Moved(p, before, after)
      BY <1>0, <2>2, <3>1, <3>2, UnchangedOrders DEF Moved
    <3> QED BY <3>3 DEF Flow
  <2>4. CASE found # NoOrder
    <3>1. found \in OrderIds /\ IsPending(found)
      BY <2>1, <2>4 DEF ExpirePendingForUser, PendingOf
    <3>2. orders' = [orders EXCEPT ![found].status = "expired"]
      BY <2>1, <2>4 DEF ExpirePendingForUser
    <3>3. /\ OrdersKept(p, {found})
          /\ OrderUnits(found, p) = orders[found].lines[p]
          /\ OrderUnits(found, p)' = 0
          /\ orders'[found].lines = orders[found].lines
      BY <3>1, <3>2, EndingMoves DEF Ended
    <3>4. orders[found].lines \in [Products -> Nat]
      BY <1>0, <3>1 DEF Order
    <3>5. /\ co'[r].pc = "releaseOld" /\ co'[r].order = found
          /\ co'[r].todo = Items(orders[found].lines)
      BY <1>0, <2>1, <2>4 DEF Request
    <3>6. after = orders[found].lines[p]
      BY <3>3, <3>4, <3>5 DEF CheckoutUnits, Items
    <3>7. Moved(p, before + OrderUnits(found, p), after + OrderUnits(found, p)')
      BY <1>0, <2>2, <3>3, <3>4, <3>6 DEF Moved
    <3> QED BY <3>1, <3>3, <3>7 DEF Flow
  <2> QED BY <2>3, <2>4
<1>4. CASE InsertOrder(r)
  <2>1. PICK o \in OrderIds :
          /\ Create(o, co[r].user, co[r].lines)
          /\ co' = [co EXCEPT ![r].pc = "gateway", ![r].order = o, ![r].tries = 0]
    BY <1>4 DEF InsertOrder
  <2>2. before = co[r].lines[p] /\ after = 0
    BY <1>0, <1>4, <2>1 DEF InsertOrder, CheckoutUnits, Request
  <2>3. /\ OrderUnits(o, p) = 0
        /\ OrderUnits(o, p)' = co[r].lines[p]
    BY <1>0, <2>1, LiveUnits DEF Create, Document, Live
  <2>4. OrdersKept(p, {o})
    BY <1>0, <2>1, LiveUnits DEF Create, OrdersKept
  <2>5. Moved(p, before + OrderUnits(o, p), after + OrderUnits(o, p)')
    BY <1>0, <1>4, <2>2, <2>3 DEF InsertOrder, Moved
  <2> QED BY <2>4, <2>5 DEF Flow
<1>5. CASE LinkRazorpayOrder(r)
  <2>1. before = 0 /\ after = 0
    BY <1>0, <1>5 DEF LinkRazorpayOrder, CheckoutUnits, NotRunning
  <2>2. OrdersKept(p, {})
    BY <1>5, AnnotatingQuiet, QuietOrders DEF LinkRazorpayOrder, CheckoutLocals
  <2>3. Moved(p, before, after)
    BY <1>0, <1>5, <2>1 DEF LinkRazorpayOrder, Moved
  <2> QED BY <2>2, <2>3 DEF Flow
<1>6. CASE ReleaseOrderLine(r)
  <2>1. co[r].pc = "releaseOld" /\ co[r].order \in OrderIds
    BY <1>6 DEF ReleaseOrderLine, NobodyCompensates, CheckoutLocals
  <2>2. PICK x \in co[r].todo : ReturnLine(co[r].order, x) /\ Goto(r, "releaseOld", co[r].todo \ {x})
    BY <1>6, <2>1 DEF ReleaseOrderLine
  <2>3. co'[r].pc = "releaseOld" /\ co'[r].order = co[r].order /\ co'[r].todo = co[r].todo \ {x}
    BY <1>0, <2>2 DEF Goto, Request
  <2>4. UNCHANGED orders
    BY <1>6 DEF ReleaseOrderLine
  <2>5. orders[co[r].order].lines \in [Products -> Nat] /\ x \in Products
    BY <1>0, <2>1, <2>2 DEF Order
  <2>6. before = after + (IF p = x THEN orders[co[r].order].lines[x] ELSE 0) /\ after \in Nat
    BY <2>1, <2>2, <2>3, <2>4, <2>5 DEF CheckoutUnits
  <2>7. Moved(p, IF p = x THEN orders[co[r].order].lines[x] ELSE 0, 0)
    BY <2>1, <2>2, <2>5, ReturnMoves
  <2>8. stock'[p] \in Nat
    BY <1>0, <2>2, <2>5 DEF ReturnLine, ReturnStock
  <2>9. Moved(p, before, after)
    BY <1>0, <2>5, <2>6, <2>7, <2>8 DEF Moved
  <2> QED BY <2>4, <2>9, UnchangedOrders DEF Flow
<1>7. CASE ReleaseTakenLine(r)
  <2>1. PICK x \in co[r].todo :
          /\ \/ ReturnStock(x, co[r].lines[x]) /\ NoFailure
             \/ Fail("return") /\ UNCHANGED stock
          /\ Goto(r, "releaseTaken", co[r].todo \ {x})
    BY <1>7 DEF ReleaseTakenLine
  <2>2. co'[r].pc = "releaseTaken" /\ co'[r].todo = co[r].todo \ {x} /\ co'[r].lines = co[r].lines
    BY <1>0, <2>1 DEF Goto, Request
  <2>3. before = after + (IF p = x THEN co[r].lines[x] ELSE 0) /\ after \in Nat
    BY <1>0, <1>7, <2>1, <2>2 DEF ReleaseTakenLine, CheckoutUnits
  <2>4. Moved(p, before, after)
    BY <1>0, <2>1, <2>3, FailCounts DEF ReturnStock, Moved
  <2> QED BY <1>7, <2>4, UnchangedOrders DEF ReleaseTakenLine, Flow
<1>8. CASE TakeLine(r)
  <2>1. PICK x \in co[r].todo :
          /\ TakeStock(x, co[r].lines[x])
          /\ Goto(r, IF co[r].todo = {x} THEN "insert" ELSE "take", co[r].todo \ {x})
    BY <1>8 DEF TakeLine
  <2>2. /\ co'[r].pc = IF co[r].todo = {x} THEN "insert" ELSE "take"
        /\ co'[r].todo = co[r].todo \ {x} /\ co'[r].lines = co[r].lines
    BY <1>0, <2>1 DEF Goto, Request
  <2>3. after = before + (IF p = x THEN co[r].lines[x] ELSE 0)
    BY <1>0, <1>8, <2>1, <2>2 DEF TakeLine, CheckoutUnits
  <2>4. Moved(p, before, after)
    BY <1>0, <1>1, <1>8, <2>1, <2>3 DEF TakeLine, TakeStock, Moved
  <2> QED BY <1>8, <2>4, UnchangedOrders DEF TakeLine, Flow
<1>9. CASE TakeLineRefused(r) \/ InsertRefused(r) \/ DuplicateOrderID(r)
  <2>1. after = before
    <3>1. CASE TakeLineRefused(r)
      BY <1>0, <3>1 DEF TakeLineRefused, Goto, Request, CheckoutUnits, Items
    <3>2. CASE InsertRefused(r)
      BY <1>0, <3>2 DEF InsertRefused, Goto, Request, CheckoutUnits, Items
    <3>3. CASE DuplicateOrderID(r)
      BY <1>0, <3>3 DEF DuplicateOrderID, Request, CheckoutUnits, Items
    <3> QED BY <1>9, <3>1, <3>2, <3>3
  <2>2. UNCHANGED <<orders, stock>>
    BY <1>9 DEF TakeLineRefused, InsertRefused, DuplicateOrderID, storeVars
  <2>3. Moved(p, before, after)
    BY <1>0, <1>1, <2>1, <2>2 DEF Moved
  <2> QED BY <2>2, <2>3, UnchangedOrders DEF Flow
<1>10. CASE EndReleaseOld(r) \/ EndReleaseTaken(r) \/ CreateRazorpayOrder(r)
  <2>1. before = 0 /\ after = 0
    <3>1. CASE EndReleaseOld(r)
      BY <1>0, <3>1 DEF EndReleaseOld, Request, CheckoutUnits, Items
    <3>2. CASE EndReleaseTaken(r)
      BY <1>0, <3>2 DEF EndReleaseTaken, Refuse, NotRunning, CheckoutUnits
    <3>3. CASE CreateRazorpayOrder(r)
      BY <1>0, <3>3 DEF CreateRazorpayOrder, Goto, Request, CheckoutUnits
    <3> QED BY <1>10, <3>1, <3>2, <3>3
  <2>2. UNCHANGED <<orders, stock>>
    BY <1>10 DEF EndReleaseOld, EndReleaseTaken, CreateRazorpayOrder, storeVars
  <2>3. Moved(p, before, after)
    BY <1>0, <2>1, <2>2 DEF Moved
  <2> QED BY <2>2, <2>3, UnchangedOrders DEF Flow
<1>11. CASE ExpirePreviousError(r) \/ StopRequest(r)
  <2>1. after = 0 /\ UNCHANGED <<orders, stock>> /\ \E kind : Fail(kind)
    BY <1>0, <1>11 DEF ExpirePreviousError, StopRequest, Refuse, NotRunning, CheckoutUnits
  <2>2. faults' # faults
    BY <2>1, FailCounts
  <2>3. Moved(p, before, after)
    BY <1>0, <1>1, <2>1, <2>2 DEF Moved
  <2> QED BY <2>1, <2>3, UnchangedOrders DEF Flow
<1>12. ~GatewayError(r) /\ ~UndoInsert(r)
  BY <1>0 DEF GatewayError, UndoInsert, Goto, Request, NobodyCompensates
<1> QED BY <1>2, <1>3, <1>4, <1>5, <1>6, <1>7, <1>8, <1>9, <1>10, <1>11, <1>12
       DEF OpenCheckoutNext, RequestStep

LEMMA DeliveryFlow ==
  ASSUME TypeInv, ReleaseInv, NobodyCompensates, NobodyCompensates',
         NEW p \in Products, NEW d \in Deliveries, HandleWebhookNext(d)
  PROVE  Flow(p, DeliveryUnits(d, p), DeliveryUnits(d, p)')
<1> USE DEF TypeInv, TypeOK, LocalsOK
<1> DEFINE before == DeliveryUnits(d, p)
           after == DeliveryUnits(d, p)'
           o == wh[d].event.order
<1>0. /\ wh \in [Deliveries -> Delivery] /\ orders \in [OrderIds -> Order]
      /\ stock \in [Products -> Nat] /\ faults \in Nat
  BY DEF PaymentsTypeOK, StoreTypeOK
<1>1. before \in Nat
  BY UnitsType
<1>2. wh[d].pc # "idle" => o \in OrderIds
  BY DEF DeliveryLocals, Event
<1>3. CASE DispatchRelease(d)
  <2>1. PICK x \in wh[d].todo :
          /\ ReturnLine(o, x)
          /\ wh' = [wh EXCEPT ![d].todo = wh[d].todo \ {x},
                              ![d].pc = IF wh[d].todo = {x} THEN "mark" ELSE "release"]
    BY <1>3 DEF DispatchRelease
  <2> DEFINE rec == [wh[d] EXCEPT !.todo = wh[d].todo \ {x},
                                  !.pc = IF wh[d].todo = {x} THEN "mark" ELSE "release"]
  <2>2. /\ rec.todo = wh[d].todo \ {x} /\ rec.event = wh[d].event
        /\ rec.pc = IF wh[d].todo = {x} THEN "mark" ELSE "release"
    BY <1>0 DEF Delivery
  <2>3. wh'[d] = rec
    BY <1>0, <2>1
  <2> HIDE DEF rec
  <2>4. UNCHANGED orders /\ wh[d].pc = "release"
    BY <1>3 DEF DispatchRelease
  <2>5. o \in OrderIds /\ orders[o].lines \in [Products -> Nat] /\ x \in Products
    BY <1>0, <1>2, <2>1, <2>4 DEF Order, Delivery
  <2>6. before = after + (IF p = x THEN orders[o].lines[x] ELSE 0) /\ after \in Nat
    BY <2>1, <2>2, <2>3, <2>4, <2>5 DEF DeliveryUnits
  <2>7. Moved(p, IF p = x THEN orders[o].lines[x] ELSE 0, 0)
    BY <2>1, <2>5, ReturnMoves
  <2>8. stock'[p] \in Nat
    BY <1>0, <2>1, <2>5 DEF ReturnLine, ReturnStock
  <2>9. Moved(p, before, after)
    BY <1>0, <2>5, <2>6, <2>7, <2>8 DEF Moved
  <2> QED BY <2>4, <2>9, UnchangedOrders DEF Flow
<1>4. CASE DispatchFailed(d) /\ IsPending(o) /\ ByRazorpayOrderID(o)
  <2>0. wh[d].pc = "dispatch" /\ UNCHANGED <<stock, faults>>
    BY <1>4 DEF DispatchFailed
  <2>1. PICK q \in OrderIds : q = o
    BY <1>2, <2>0
  <2>2. /\ orders' = [orders EXCEPT ![q].status = "payment_failed"]
        /\ wh' = [wh EXCEPT ![d].pc = "release", ![d].todo = Items(orders[q].lines)]
    BY <1>4, <2>1 DEF DispatchFailed, MarkPaymentFailed
  <2>3. wh'[d].pc = "release" /\ wh'[d].todo = Items(orders[q].lines) /\ wh'[d].event.order = q
    BY <1>0, <2>1, <2>2 DEF Delivery
  <2>4. IsPending(q)
    BY <1>4, <2>1
  <2> HIDE DEF o
  <2>5. /\ OrdersKept(p, {q})
        /\ OrderUnits(q, p) = orders[q].lines[p]
        /\ OrderUnits(q, p)' = 0
        /\ orders'[q].lines = orders[q].lines
    BY <2>2, <2>4, EndingMoves DEF Ended
  <2>6. orders[q].lines \in [Products -> Nat]
    BY <1>0 DEF Order
  <2>7. before = 0 /\ after = orders[q].lines[p]
    BY <2>0, <2>3, <2>5, <2>6 DEF DeliveryUnits, Items
  <2>8. Moved(p, before + OrderUnits(q, p), after + OrderUnits(q, p)')
    BY <1>0, <2>0, <2>5, <2>6, <2>7 DEF Moved
  <2> QED BY <2>5, <2>8 DEF Flow
<1>5. CASE DeliveryFails(d)
  <2>1. after = 0 /\ UNCHANGED <<orders, stock>> /\ \E kind : Fail(kind)
    BY <1>0, <1>5 DEF DeliveryFails, IdleDelivery, DeliveryUnits
  <2>2. faults' # faults
    BY <2>1, FailCounts
  <2>3. Moved(p, before, after)
    BY <1>0, <1>1, <2>1, <2>2 DEF Moved
  <2> QED BY <2>1, <2>3, UnchangedOrders DEF Flow
<1>6. CASE DispatchFailed(d) /\ ~(IsPending(o) /\ ByRazorpayOrderID(o))
  <2>1. UNCHANGED <<orders, stock>> /\ before = 0
    BY <1>6 DEF DispatchFailed, MarkPaymentFailed, DeliveryUnits
  <2>2. wh'[d].pc = "mark"
    <3>1. CASE MoveTo(d, "mark")
      BY <1>0, <3>1 DEF MoveTo, Delivery
    <3>2. CASE wh' = [wh EXCEPT ![d].pc = "mark", ![d].todo = {}]
      BY <1>0, <3>2 DEF Delivery
    <3> QED BY <1>6, <3>1, <3>2 DEF DispatchFailed, MarkPaymentFailed
  <2>3. after = 0
    BY <2>2 DEF DeliveryUnits
  <2>4. Moved(p, before, after)
    BY <1>0, <2>1, <2>3 DEF Moved
  <2> QED BY <2>1, <2>4, UnchangedOrders DEF Flow
<1>7. CASE \/ (\E e \in Event : Deliver(d, e)) \/ CheckEvent(d) \/ DispatchCapture(d)
           \/ DispatchFill(d) \/ DispatchEffects(d) \/ AckDelivery(d)
  <2>1. before = 0 /\ UNCHANGED stock
    BY <1>7 DEF Deliver, CheckEvent, DispatchCapture, DispatchFill, DispatchEffects,
       AckDelivery, DeliveryUnits, storeVars
  <2>2. wh'[d].pc # "release"
    <3>1. ASSUME NEW e \in Event, Deliver(d, e) PROVE wh'[d].pc # "release"
      BY <1>0, <3>1 DEF Deliver, Delivery
    <3>2. CASE CheckEvent(d) \/ AckDelivery(d)
      <4>1. wh' = [wh EXCEPT ![d] = IdleDelivery] \/ MoveTo(d, "dispatch")
        BY <3>2 DEF CheckEvent, AckDelivery
      <4> QED BY <1>0, <4>1 DEF MoveTo, IdleDelivery, Delivery
    <3>3. CASE DispatchCapture(d) \/ DispatchFill(d) \/ DispatchEffects(d)
      <4>1. \E pc \in {"effects", "fill", "mark"} : MoveTo(d, pc)
        BY <3>3 DEF DispatchCapture, DispatchFill, DispatchEffects
      <4> QED BY <1>0, <4>1 DEF MoveTo, Delivery
    <3> QED BY <1>7, <3>1, <3>2, <3>3
  <2>3. OrdersKept(p, {})
    <3>1. CASE UNCHANGED orders
      BY <3>1, UnchangedOrders
    <3>2. CASE FillPaymentDetail(o) /\ o \in OrderIds
      BY <3>2, AnnotatingQuiet, QuietOrders
    <3>3. CASE o \in OrderIds /\ \E modified \in BOOLEAN : MarkPlaced(o, TRUE, modified)
      BY <3>3, MarkPlacedQuiet, QuietOrders
    <3> QED BY <1>2, <1>7, <3>1, <3>2, <3>3 DEF Deliver, CheckEvent, DispatchCapture,
           DispatchFill, DispatchEffects, AckDelivery, storeVars
  <2>4. after = 0
    BY <2>2 DEF DeliveryUnits
  <2>5. Moved(p, before, after)
    BY <1>0, <2>1, <2>4 DEF Moved
  <2> QED BY <2>3, <2>5 DEF Flow
<1> QED BY <1>3, <1>4, <1>5, <1>6, <1>7 DEF HandleWebhookNext, DeliveryStep

LEMMA SweepFlow ==
  ASSUME TypeInv, ReleaseInv, NobodyCompensates, NobodyCompensates',
         NEW p \in Products, NEW s \in Sweepers, SweeperNext(s)
  PROVE  Flow(p, SweeperUnits(s, p), SweeperUnits(s, p)')
<1> USE DEF TypeInv, TypeOK, LocalsOK
<1> DEFINE before == SweeperUnits(s, p)
           after == SweeperUnits(s, p)'
<1>0. /\ sw \in [Sweepers -> Tick] /\ orders \in [OrderIds -> Order]
      /\ stock \in [Products -> Nat] /\ faults \in Nat
  BY DEF SweeperTypeOK, StoreTypeOK
<1>1. before \in Nat
  BY UnitsType
<1>2. CASE ClaimExpired(s)
  <2>1. PICK o \in sw[s].batch, modified \in BOOLEAN :
          /\ MarkExpired(o, modified)
          /\ sw' = [sw EXCEPT
               ![s] = IF modified
                        THEN [pc |-> "release", batch |-> sw[s].batch \ {o},
                              order |-> o, todo |-> Items(orders[o].lines)]
                        ELSE [sw[s] EXCEPT !.batch = @ \ {o}]]
    BY <1>2 DEF ClaimExpired
  <2>2. before = 0 /\ sw[s].pc = "claim" /\ UNCHANGED <<stock, faults>>
    BY <1>2 DEF ClaimExpired, SweeperUnits
  <2>3. o \in OrderIds
    BY <1>0 DEF Tick
  <2>4. CASE modified
    <3>1. IsPending(o) /\ orders' = [orders EXCEPT ![o].status = "expired"]
      BY <2>1, <2>4 DEF MarkExpired
    <3>2. /\ OrdersKept(p, {o})
          /\ OrderUnits(o, p) = orders[o].lines[p]
          /\ OrderUnits(o, p)' = 0
          /\ orders'[o].lines = orders[o].lines
      BY <2>3, <3>1, EndingMoves DEF Ended
    <3>3. sw'[s].pc = "release" /\ sw'[s].todo = Items(orders[o].lines) /\ sw'[s].order = o
      BY <1>0, <2>1, <2>4
    <3>4. orders[o].lines \in [Products -> Nat]
      BY <1>0, <2>3 DEF Order
    <3>5. after = orders[o].lines[p]
      BY <3>2, <3>3, <3>4 DEF SweeperUnits, Items
    <3>6. Moved(p, before + OrderUnits(o, p), after + OrderUnits(o, p)')
      BY <1>0, <2>2, <3>2, <3>4, <3>5 DEF Moved
    <3> QED BY <2>3, <3>2, <3>6 DEF Flow
  <2>5. CASE ~modified
    <3>1. UNCHANGED orders /\ sw'[s] = [sw[s] EXCEPT !.batch = @ \ {o}]
      BY <1>0, <2>1, <2>5 DEF MarkExpired
    <3>2. after = 0
      BY <1>0, <2>2, <3>1 DEF SweeperUnits, Tick
    <3>3. Moved(p, before, after)
      BY <1>0, <2>2, <3>2 DEF Moved
    <3> QED BY <3>1, <3>3, UnchangedOrders DEF Flow
  <2> QED BY <2>4, <2>5
<1>3. CASE SweepReturn(s)
  <2>1. PICK x \in sw[s].todo :
          /\ ReturnLine(sw[s].order, x)
          /\ sw' = [sw EXCEPT ![s].todo = sw[s].todo \ {x},
                              ![s].pc = IF sw[s].todo = {x} THEN "claim" ELSE "release"]
    BY <1>3 DEF SweepReturn
  <2> DEFINE o == sw[s].order
             rec == [sw[s] EXCEPT !.todo = sw[s].todo \ {x},
                                  !.pc = IF sw[s].todo = {x} THEN "claim" ELSE "release"]
  <2>2. /\ rec.todo = sw[s].todo \ {x} /\ rec.order = o
        /\ rec.pc = IF sw[s].todo = {x} THEN "claim" ELSE "release"
    BY <1>0 DEF Tick
  <2>3. sw'[s] = rec
    BY <1>0, <2>1
  <2> HIDE DEF rec
  <2>4. UNCHANGED orders /\ sw[s].pc = "release"
    BY <1>3 DEF SweepReturn
  <2>5. o \in OrderIds /\ orders[o].lines \in [Products -> Nat] /\ x \in Products
    BY <1>0, <2>1, <2>4 DEF Order, Tick, SweeperLocals
  <2>6. before = after + (IF p = x THEN orders[o].lines[x] ELSE 0) /\ after \in Nat
    BY <2>1, <2>2, <2>3, <2>4, <2>5 DEF SweeperUnits
  <2>7. Moved(p, IF p = x THEN orders[o].lines[x] ELSE 0, 0)
    BY <2>1, <2>5, ReturnMoves
  <2>8. stock'[p] \in Nat
    BY <1>0, <2>1, <2>5 DEF ReturnLine, ReturnStock
  <2>9. Moved(p, before, after)
    BY <1>0, <2>5, <2>6, <2>7, <2>8 DEF Moved
  <2> QED BY <2>4, <2>9, UnchangedOrders DEF Flow
<1>4. CASE FindExpired(s) \/ EndTick(s)
  <2>1. before = 0 /\ UNCHANGED <<orders, stock>>
    BY <1>4 DEF FindExpired, EndTick, storeVars, SweeperUnits
  <2>2. after = 0
    <3>1. CASE FindExpired(s)
      BY <1>0, <3>1 DEF FindExpired, Tick, SweeperUnits
    <3>2. CASE EndTick(s)
      BY <1>0, <3>2 DEF EndTick, NoTick, SweeperUnits
    <3> QED BY <1>4, <3>1, <3>2
  <2>3. Moved(p, before, after)
    BY <1>0, <2>1, <2>2 DEF Moved
  <2> QED BY <2>1, <2>3, UnchangedOrders DEF Flow
<1>5. CASE TickFails(s)
  <2>1. after = 0 /\ UNCHANGED <<orders, stock>> /\ \E kind : Fail(kind)
    BY <1>0, <1>5 DEF TickFails, NoTick, SweeperUnits
  <2>2. faults' # faults
    BY <2>1, FailCounts
  <2>3. Moved(p, before, after)
    BY <1>0, <1>1, <2>1, <2>2 DEF Moved
  <2> QED BY <2>1, <2>3, UnchangedOrders DEF Flow
<1> QED BY <1>2, <1>3, <1>4, <1>5 DEF SweeperNext, SweeperStep

-----------------------------------------------------------------------------
(* The ledger.                                                             *)

\* Whoever moves, the other parties hold what they held.
LEMMA OthersKept ==
  ASSUME TypeInv, ReleaseInv, NobodyCompensates, [Next]_vars, NobodyCompensates',
         NEW p \in Products
  PROVE  \/ /\ \E r \in Requests :
                 /\ \A q \in Requests : q # r => CheckoutUnits(q, p)' = CheckoutUnits(q, p)
                 /\ Flow(p, CheckoutUnits(r, p), CheckoutUnits(r, p)')
            /\ \A d \in Deliveries : DeliveryUnits(d, p)' = DeliveryUnits(d, p)
            /\ \A s \in Sweepers : SweeperUnits(s, p)' = SweeperUnits(s, p)
         \/ /\ \E d \in Deliveries :
                 /\ \A q \in Deliveries : q # d => DeliveryUnits(q, p)' = DeliveryUnits(q, p)
                 /\ Flow(p, DeliveryUnits(d, p), DeliveryUnits(d, p)')
            /\ \A r \in Requests : CheckoutUnits(r, p)' = CheckoutUnits(r, p)
            /\ \A s \in Sweepers : SweeperUnits(s, p)' = SweeperUnits(s, p)
         \/ /\ \E s \in Sweepers :
                 /\ \A q \in Sweepers : q # s => SweeperUnits(q, p)' = SweeperUnits(q, p)
                 /\ Flow(p, SweeperUnits(s, p), SweeperUnits(s, p)')
            /\ \A r \in Requests : CheckoutUnits(r, p)' = CheckoutUnits(r, p)
            /\ \A d \in Deliveries : DeliveryUnits(d, p)' = DeliveryUnits(d, p)
         \/ /\ Flow(p, 0, 0)
            /\ \A r \in Requests : CheckoutUnits(r, p)' = CheckoutUnits(r, p)
            /\ \A d \in Deliveries : DeliveryUnits(d, p)' = DeliveryUnits(d, p)
            /\ \A s \in Sweepers : SweeperUnits(s, p)' = SweeperUnits(s, p)
<1> USE DEF TypeInv, TypeOK, LocalsOK
<1>0. /\ OrderEvolves
      /\ \A r \in Requests : co'[r] = co[r] => CheckoutUnits(r, p)' = CheckoutUnits(r, p)
      /\ \A d \in Deliveries : wh'[d] = wh[d] => DeliveryUnits(d, p)' = DeliveryUnits(d, p)
      /\ \A s \in Sweepers : sw'[s] = sw[s] => SweeperUnits(s, p)' = SweeperUnits(s, p)
  BY OrdersStep, UnitsKept
<1>1. ASSUME UNCHANGED stock PROVE Moved(p, 0, 0)
  BY <1>1 DEF StoreTypeOK, Moved
<1>2. ASSUME NEW u \in Users, Shopper(u)
      PROVE  UNCHANGED <<co, wh, sw>> /\ Flow(p, 0, 0)
  BY <1>1, <1>2, ShopperFrame, UnchangedOrders DEF Flow
<1>3. ASSUME NEW o \in OrderIds, Clock(o)
      PROVE  UNCHANGED <<co, wh, sw>> /\ Flow(p, 0, 0)
  <2>1. OrdersKept(p, {})
    BY <1>3, AnnotatingQuiet, QuietOrders DEF Clock
  <2> QED BY <1>1, <1>3, <2>1, ClockFrame DEF Flow
<1>4. ASSUME NEW o \in OrderIds, Pay(o)
      PROVE  UNCHANGED <<co, wh, sw>> /\ Flow(p, 0, 0)
  BY <1>1, <1>4, PayFrame, UnchangedOrders DEF Flow
<1>5. ASSUME NEW c \in Callbacks, ConfirmPayment(c)
      PROVE  UNCHANGED <<co, wh, sw>> /\ Flow(p, 0, 0)
  <2>1. OrdersKept(p, {})
    <3>1. CASE UNCHANGED orders
      BY <3>1, UnchangedOrders
    <3>2. CASE ConfirmPlaced(c)
      BY <3>2, MarkPlacedQuiet, QuietOrders DEF ConfirmPlaced, CallbackLocals
    <3>3. ConfirmPlaced(c) \/ UNCHANGED orders
      BY <1>5 DEF ConfirmPayment, ConfirmPaymentNext, ConfirmStep, ReadOrder,
         ConfirmEffects, ConfirmReread, ConfirmFails, storeVars
    <3> QED BY <3>1, <3>2, <3>3
  <2> QED BY <1>1, <1>5, <2>1, CallbackFrame DEF Flow
<1>6. CASE UNCHANGED vars
  BY <1>0, <1>1, <1>6, UnchangedOrders DEF Flow, vars
<1>7. ASSUME NEW r \in Requests, OpenCheckout(r)
      PROVE  /\ \A q \in Requests : q # r => CheckoutUnits(q, p)' = CheckoutUnits(q, p)
             /\ Flow(p, CheckoutUnits(r, p), CheckoutUnits(r, p)')
             /\ UNCHANGED <<wh, sw>>
  <2>1. \A q \in Requests : q # r => co'[q] = co[q]
    BY <1>7, CheckoutMoves DEF OpenCheckout
  <2> QED BY <1>0, <1>7, <2>1, CheckoutFrame, CheckoutFlow DEF OpenCheckout
<1>8. ASSUME NEW d \in Deliveries, HandleWebhook(d)
      PROVE  /\ \A q \in Deliveries : q # d => DeliveryUnits(q, p)' = DeliveryUnits(q, p)
             /\ Flow(p, DeliveryUnits(d, p), DeliveryUnits(d, p)')
             /\ UNCHANGED <<co, sw>>
  <2>1. \A q \in Deliveries : q # d => wh'[q] = wh[q]
    BY <1>8 DEF PaymentsTypeOK, HandleWebhook, HandleWebhookNext, DeliveryStep, Deliver,
       CheckEvent, DispatchCapture, DispatchFill, DispatchEffects, DispatchFailed,
       DispatchRelease, AckDelivery, DeliveryFails, MoveTo
  <2> QED BY <1>0, <1>8, <2>1, DeliveryFrame, DeliveryFlow DEF HandleWebhook
<1>9. ASSUME NEW s \in Sweepers, Sweep(s)
      PROVE  /\ \A q \in Sweepers : q # s => SweeperUnits(q, p)' = SweeperUnits(q, p)
             /\ Flow(p, SweeperUnits(s, p), SweeperUnits(s, p)')
             /\ UNCHANGED <<co, wh>>
  <2>1. \A q \in Sweepers : q # s => sw'[q] = sw[q]
    BY <1>9 DEF SweeperTypeOK, Sweep, SweeperNext, SweeperStep, FindExpired, ClaimExpired,
       SweepReturn, EndTick, TickFails
  <2> QED BY <1>0, <1>9, <2>1, SweepFrame, SweepFlow DEF Sweep
<1> QED BY <1>0, <1>2, <1>3, <1>4, <1>5, <1>6, <1>7, <1>8, <1>9 DEF Next

UnitsTyped ==
  \A p \in Products :
    /\ [o \in OrderIds |-> OrderUnits(o, p)] \in Amounts(OrderIds)
    /\ [r \in Requests |-> CheckoutUnits(r, p)] \in Amounts(Requests)
    /\ [d \in Deliveries |-> DeliveryUnits(d, p)] \in Amounts(Deliveries)
    /\ [s \in Sweepers |-> SweeperUnits(s, p)] \in Amounts(Sweepers)

LEMMA TypedUnits == TypeInv /\ NobodyCompensates => UnitsTyped
BY UnitsType DEF UnitsTyped, Amounts

LEMMA TypedUnitsNext == TypeInv' /\ NobodyCompensates' => UnitsTyped'
BY TypedUnits, PTL

LEMMA UnitsOutType ==
  TypeInv /\ NobodyCompensates => \A p \in Products : UnitsOut(p) \in Nat
<1> SUFFICES ASSUME TypeInv, NobodyCompensates, NEW p \in Products PROVE UnitsOut(p) \in Nat
  OBVIOUS
<1> DEFINE C == [o \in OrderIds |-> OrderUnits(o, p)]
           K == [r \in Requests |-> CheckoutUnits(r, p)]
           D == [d \in Deliveries |-> DeliveryUnits(d, p)]
           W == [s \in Sweepers |-> SweeperUnits(s, p)]
<1>1. /\ C \in Amounts(OrderIds) /\ K \in Amounts(Requests)
      /\ D \in Amounts(Deliveries) /\ W \in Amounts(Sweepers)
  BY TypedUnits DEF UnitsTyped
<1>2. UnitsOut(p) = Total(C) + Total(K) + Total(D) + Total(W)
  BY DEF UnitsOut
<1> HIDE DEF C, K, D, W
<1>3. Total(C) \in Nat /\ Total(K) \in Nat /\ Total(D) \in Nat /\ Total(W) \in Nat
  BY <1>1, TotalType, FiniteOrderIds, FiniteRequests, FiniteDeliveries, FiniteSweepers
<1> QED BY <1>2, <1>3

LEMMA UnitsOutTypeNext ==
  TypeInv' /\ NobodyCompensates' => (\A p \in Products : UnitsOut(p) \in Nat)'
BY UnitsOutType, PTL

\* The arithmetic of a step: a party that held h of a total t, orders that
\* accounted for c, and a rest that did not move.
LEMMA Transfer ==
  ASSUME NEW s \in Nat, NEW h \in Nat, NEW t \in Nat, NEW c \in Nat,
         NEW s1 \in Nat, NEW h1 \in Nat, NEW t1 \in Nat, NEW c1 \in Nat,
         NEW rest \in Nat, t1 + h = t + h1
  PROVE  /\ s1 + (h1 + c1) <= s + (h + c) => s1 + (c1 + t1 + rest) <= s + (c + t + rest)
         /\ s1 + (h1 + c1) = s + (h + c) => s1 + (c1 + t1 + rest) = s + (c + t + rest)
OBVIOUS

LEMMA PartyMoves ==
  ASSUME NEW p \in Products, stock[p] \in Nat, stock'[p] \in Nat,
         NEW h \in Nat, NEW t \in Nat, NEW c \in Nat,
         NEW h1 \in Nat, NEW t1 \in Nat, NEW c1 \in Nat,
         NEW rest \in Nat, t1 + h = t + h1, Moved(p, h + c, h1 + c1)
  PROVE  Moved(p, c + t + rest, c1 + t1 + rest)
BY Transfer DEF Moved

\* In a step of a behaviour where no checkout compensates, units only move,
\* and without a failure none is lost.
LEMMA LedgerStep ==
  ASSUME TypeInv, TypeInv', ReleaseInv, NobodyCompensates, [Next]_vars,
         NobodyCompensates', NEW p \in Products
  PROVE  Moved(p, UnitsOut(p), UnitsOut(p)')
<1> DEFINE C == [o \in OrderIds |-> OrderUnits(o, p)]
           K == [r \in Requests |-> CheckoutUnits(r, p)]
           D == [d \in Deliveries |-> DeliveryUnits(d, p)]
           W == [s \in Sweepers |-> SweeperUnits(s, p)]
<1>0. /\ C \in Amounts(OrderIds) /\ C' \in Amounts(OrderIds)
      /\ K \in Amounts(Requests) /\ K' \in Amounts(Requests)
      /\ D \in Amounts(Deliveries) /\ D' \in Amounts(Deliveries)
      /\ W \in Amounts(Sweepers) /\ W' \in Amounts(Sweepers)
  BY TypedUnits, TypedUnitsNext DEF UnitsTyped
<1> USE FiniteOrderIds, FiniteRequests, FiniteDeliveries, FiniteSweepers
<1>1. /\ Total(C) \in Nat /\ Total(C') \in Nat /\ Total(K) \in Nat /\ Total(K') \in Nat
      /\ Total(D) \in Nat /\ Total(D') \in Nat /\ Total(W) \in Nat /\ Total(W') \in Nat
  <2> HIDE DEF C, K, D, W
  <2> QED BY <1>0, TotalType
<1>2. /\ UnitsOut(p) = Total(C) + Total(K) + Total(D) + Total(W)
      /\ UnitsOut(p)' = Total(C') + Total(K') + Total(D') + Total(W')
  BY DEF UnitsOut
<1>3. stock[p] \in Nat /\ stock'[p] \in Nat
  BY DEF TypeInv, TypeOK, StoreTypeOK
<1>4. (\A r \in Requests : CheckoutUnits(r, p)' = CheckoutUnits(r, p)) => Total(K') = Total(K)
  <2> SUFFICES ASSUME \A r \in Requests : CheckoutUnits(r, p)' = CheckoutUnits(r, p)
               PROVE  Total(K') = Total(K)
    OBVIOUS
  <2>1. K' = K
    OBVIOUS
  <2> QED BY <2>1
<1>5. (\A d \in Deliveries : DeliveryUnits(d, p)' = DeliveryUnits(d, p)) => Total(D') = Total(D)
  <2> SUFFICES ASSUME \A d \in Deliveries : DeliveryUnits(d, p)' = DeliveryUnits(d, p)
               PROVE  Total(D') = Total(D)
    OBVIOUS
  <2>1. D' = D
    OBVIOUS
  <2> QED BY <2>1
<1>6. (\A s \in Sweepers : SweeperUnits(s, p)' = SweeperUnits(s, p)) => Total(W') = Total(W)
  <2> SUFFICES ASSUME \A s \in Sweepers : SweeperUnits(s, p)' = SweeperUnits(s, p)
               PROVE  Total(W') = Total(W)
    OBVIOUS
  <2>1. W' = W
    OBVIOUS
  <2> QED BY <2>1
\* Orders and one party: what they hold together moves as Flow says.
<1>7. ASSUME NEW before \in Nat, NEW after \in Nat, Flow(p, before, after)
      PROVE  Moved(p, before + Total(C), after + Total(C'))
  <2>1. CASE OrdersKept(p, {}) /\ Moved(p, before, after)
    <3>1. C' = C
      BY <2>1 DEF OrdersKept
    <3>2. Total(C') = Total(C)
      BY <3>1
    <3> HIDE DEF C
    <3> QED BY <1>1, <1>3, <2>1, <3>2 DEF Moved
  <2>2. ASSUME NEW o \in OrderIds, OrdersKept(p, {o}),
               Moved(p, before + OrderUnits(o, p), after + OrderUnits(o, p)')
        PROVE  Moved(p, before + Total(C), after + Total(C'))
    <3>1. /\ C[o] = OrderUnits(o, p) /\ C'[o] = OrderUnits(o, p)'
          /\ \A x \in OrderIds : x # o => C'[x] = C[x]
      BY <2>2 DEF OrdersKept
    <3> HIDE DEF C
    <3>2. Total(C') + C[o] = Total(C) + C'[o]
      BY <1>0, <3>1, TotalChanges
    <3>3. C[o] \in Nat /\ C'[o] \in Nat
      BY <1>0 DEF Amounts
    <3> QED BY <1>1, <1>3, <2>2, <3>1, <3>2, <3>3 DEF Moved
  <2> QED BY <1>7, <2>1, <2>2 DEF Flow
<1>8. ASSUME NEW r \in Requests,
             \A q \in Requests : q # r => CheckoutUnits(q, p)' = CheckoutUnits(q, p),
             Flow(p, CheckoutUnits(r, p), CheckoutUnits(r, p)'),
             Total(D') = Total(D), Total(W') = Total(W)
      PROVE  Moved(p, UnitsOut(p), UnitsOut(p)')
  <2>1. /\ K[r] = CheckoutUnits(r, p) /\ K'[r] = CheckoutUnits(r, p)'
        /\ \A q \in Requests : q # r => K'[q] = K[q]
    BY <1>8
  <2> HIDE DEF C, K, D, W
  <2>2. K[r] \in Nat /\ K'[r] \in Nat
    BY <1>0 DEF Amounts
  <2>3. Total(K') + K[r] = Total(K) + K'[r]
    BY <1>0, <2>1, TotalChanges
  <2>4. Moved(p, K[r] + Total(C), K'[r] + Total(C'))
    BY <1>7, <1>8, <2>1, <2>2
  <2>5. Total(D') = Total(D) /\ Total(W') = Total(W)
    BY <1>8
  <2> DEFINE rest == Total(D) + Total(W)
  <2>6. rest \in Nat
    BY <1>1
  <2>7. /\ UnitsOut(p) = Total(C) + Total(K) + rest
        /\ UnitsOut(p)' = Total(C') + Total(K') + rest
    BY <1>1, <1>2, <2>5
  <2> HIDE DEF rest
  <2>8. Moved(p, Total(C) + Total(K) + rest, Total(C') + Total(K') + rest)
    BY <1>1, <1>3, <2>2, <2>3, <2>4, <2>6, PartyMoves
  <2> QED BY <2>7, <2>8
<1>9. ASSUME NEW d \in Deliveries,
             \A q \in Deliveries : q # d => DeliveryUnits(q, p)' = DeliveryUnits(q, p),
             Flow(p, DeliveryUnits(d, p), DeliveryUnits(d, p)'),
             Total(K') = Total(K), Total(W') = Total(W)
      PROVE  Moved(p, UnitsOut(p), UnitsOut(p)')
  <2>1. /\ D[d] = DeliveryUnits(d, p) /\ D'[d] = DeliveryUnits(d, p)'
        /\ \A q \in Deliveries : q # d => D'[q] = D[q]
    BY <1>9
  <2> HIDE DEF C, K, D, W
  <2>2. D[d] \in Nat /\ D'[d] \in Nat
    BY <1>0 DEF Amounts
  <2>3. Total(D') + D[d] = Total(D) + D'[d]
    BY <1>0, <2>1, TotalChanges
  <2>4. Moved(p, D[d] + Total(C), D'[d] + Total(C'))
    BY <1>7, <1>9, <2>1, <2>2
  <2>5. Total(K') = Total(K) /\ Total(W') = Total(W)
    BY <1>9
  <2> DEFINE rest == Total(K) + Total(W)
  <2>6. rest \in Nat
    BY <1>1
  <2>7. /\ UnitsOut(p) = Total(C) + Total(D) + rest
        /\ UnitsOut(p)' = Total(C') + Total(D') + rest
    BY <1>1, <1>2, <2>5
  <2> HIDE DEF rest
  <2>8. Moved(p, Total(C) + Total(D) + rest, Total(C') + Total(D') + rest)
    BY <1>1, <1>3, <2>2, <2>3, <2>4, <2>6, PartyMoves
  <2> QED BY <2>7, <2>8
<1>10. ASSUME NEW s \in Sweepers,
              \A q \in Sweepers : q # s => SweeperUnits(q, p)' = SweeperUnits(q, p),
              Flow(p, SweeperUnits(s, p), SweeperUnits(s, p)'),
              Total(K') = Total(K), Total(D') = Total(D)
       PROVE  Moved(p, UnitsOut(p), UnitsOut(p)')
  <2>1. /\ W[s] = SweeperUnits(s, p) /\ W'[s] = SweeperUnits(s, p)'
        /\ \A q \in Sweepers : q # s => W'[q] = W[q]
    BY <1>10
  <2> HIDE DEF C, K, D, W
  <2>2. W[s] \in Nat /\ W'[s] \in Nat
    BY <1>0 DEF Amounts
  <2>3. Total(W') + W[s] = Total(W) + W'[s]
    BY <1>0, <2>1, TotalChanges
  <2>4. Moved(p, W[s] + Total(C), W'[s] + Total(C'))
    BY <1>7, <1>10, <2>1, <2>2
  <2>5. Total(K') = Total(K) /\ Total(D') = Total(D)
    BY <1>10
  <2> DEFINE rest == Total(K) + Total(D)
  <2>6. rest \in Nat
    BY <1>1
  <2>7. /\ UnitsOut(p) = Total(C) + Total(W) + rest
        /\ UnitsOut(p)' = Total(C') + Total(W') + rest
    BY <1>1, <1>2, <2>5
  <2> HIDE DEF rest
  <2>8. Moved(p, Total(C) + Total(W) + rest, Total(C') + Total(W') + rest)
    BY <1>1, <1>3, <2>2, <2>3, <2>4, <2>6, PartyMoves
  <2> QED BY <2>7, <2>8
<1>11. ASSUME Flow(p, 0, 0), Total(K') = Total(K), Total(D') = Total(D), Total(W') = Total(W)
       PROVE  Moved(p, UnitsOut(p), UnitsOut(p)')
  <2>1. Moved(p, 0 + Total(C), 0 + Total(C'))
    BY <1>7, <1>11
  <2> HIDE DEF C, K, D, W
  <2> QED BY <1>1, <1>2, <1>3, <1>11, <2>1 DEF Moved
<1> HIDE DEF C, K, D, W
<1> QED BY <1>4, <1>5, <1>6, <1>8, <1>9, <1>10, <1>11, OthersKept

LEMMA TotalZero ==
  ASSUME NEW S, NEW held \in Amounts(S), \A x \in S : held[x] = 0
  PROVE  Total(held) = 0
<1>1. Units(held) = {}
  BY DEF Units, Amounts
<1> QED BY <1>1, FS_EmptySet DEF Total

LEMMA InitStock == Init => StockIsConserved
<1> SUFFICES ASSUME Init, NEW p \in Products
             PROVE  stock[p] + UnitsOut(p) = InitialStock[p]
  BY DEF StockIsConserved
<1> DEFINE C == [o \in OrderIds |-> OrderUnits(o, p)]
           K == [r \in Requests |-> CheckoutUnits(r, p)]
           D == [d \in Deliveries |-> DeliveryUnits(d, p)]
           W == [s \in Sweepers |-> SweeperUnits(s, p)]
<1>1. /\ \A o \in OrderIds : OrderUnits(o, p) = 0
      /\ \A r \in Requests : CheckoutUnits(r, p) = 0
      /\ \A d \in Deliveries : DeliveryUnits(d, p) = 0
      /\ \A s \in Sweepers : SweeperUnits(s, p) = 0
  BY DEF Init, StoreInit, CheckoutInit, PaymentsInit, SweeperInit, Document, NotRunning,
     IdleDelivery, NoTick, OrderUnits, CheckoutUnits, DeliveryUnits, SweeperUnits
<1>2. /\ C \in Amounts(OrderIds) /\ \A o \in OrderIds : C[o] = 0
      /\ K \in Amounts(Requests) /\ \A r \in Requests : K[r] = 0
      /\ D \in Amounts(Deliveries) /\ \A d \in Deliveries : D[d] = 0
      /\ W \in Amounts(Sweepers) /\ \A s \in Sweepers : W[s] = 0
  BY <1>1 DEF Amounts
<1>3. UnitsOut(p) = Total(C) + Total(K) + Total(D) + Total(W)
  BY DEF UnitsOut
<1> HIDE DEF C, K, D, W
<1>4. Total(C) = 0 /\ Total(K) = 0 /\ Total(D) = 0 /\ Total(W) = 0
  BY <1>2, TotalZero
<1>5. stock[p] = InitialStock[p] /\ InitialStock[p] \in Nat
  BY StoreAssumption DEF Init, StoreInit
<1> QED BY <1>3, <1>4, <1>5

-----------------------------------------------------------------------------
(* When nobody compensates.                                                *)

\* A checkout gives up an inserted order only after a call to Razorpay or the
\* write of its id has failed.
LEMMA CompensatingFailed ==
  ASSUME TypeInv, NobodyCompensates, [Next]_vars, ~NobodyCompensates'
  PROVE  \E kind \in {"gateway", "link"} : Fail(kind)
<1> USE DEF TypeInv, TypeOK, LocalsOK
<1>0. co \in [Requests -> Request]
  BY DEF CheckoutTypeOK
<1>1. ASSUME NEW r \in Requests, OpenCheckout(r)
      PROVE  \E kind \in {"gateway", "link"} : Fail(kind)
  <2>1. \A q \in Requests : q # r => co'[q] = co[q]
    BY <1>1, CheckoutMoves DEF OpenCheckout
  <2>2. co'[r].pc = "compensate"
    BY <2>1 DEF NobodyCompensates
  <2>3. GatewayError(r)
    <3>1. CASE \E u \in Users : ReadCart(r, u)
      BY <1>0, <2>2, <3>1 DEF ReadCart, Request
    <3>2. CASE ExpirePrevious(r)
      BY <1>0, <2>2, <3>2 DEF ExpirePrevious, Goto, Request
    <3>3. CASE ReleaseOrderLine(r) \/ ReleaseTakenLine(r)
      <4>1. \E pc \in RequestPC : \E todo : Goto(r, pc, todo) /\ pc # "compensate"
        BY <1>0, <3>3 DEF ReleaseOrderLine, ReleaseTakenLine, NobodyCompensates, Request
      <4> QED BY <1>0, <2>2, <4>1 DEF Goto, Request
    <3>4. CASE EndReleaseOld(r)
      BY <1>0, <2>2, <3>4 DEF EndReleaseOld, Request
    <3>5. CASE TakeLine(r) \/ TakeLineRefused(r) \/ InsertRefused(r) \/ CreateRazorpayOrder(r)
      <4>1. \E pc \in RequestPC : \E todo : Goto(r, pc, todo) /\ pc # "compensate"
        BY <3>5 DEF TakeLine, TakeLineRefused, InsertRefused, CreateRazorpayOrder, RequestPC
      <4> QED BY <1>0, <2>2, <4>1 DEF Goto, Request
    <3>6. CASE InsertOrder(r)
      BY <1>0, <2>2, <3>6 DEF InsertOrder, Request
    <3>7. CASE DuplicateOrderID(r)
      BY <1>0, <2>2, <3>7 DEF DuplicateOrderID, Request
    <3>8. CASE LinkRazorpayOrder(r)
      BY <1>0, <2>2, <3>8 DEF LinkRazorpayOrder, NotRunning
    <3>9. CASE EndReleaseTaken(r) \/ UndoInsert(r) \/ ExpirePreviousError(r) \/ StopRequest(r)
      BY <1>0, <2>2, <3>9 DEF EndReleaseTaken, UndoInsert, ExpirePreviousError, StopRequest,
         Refuse, NotRunning
    <3> QED BY <1>1, <3>1, <3>2, <3>3, <3>4, <3>5, <3>6, <3>7, <3>8, <3>9
           DEF OpenCheckout, OpenCheckoutNext, RequestStep
  <2> QED BY <2>3 DEF GatewayError
<1>2. UNCHANGED co => FALSE
  BY DEF NobodyCompensates
<1>3. (\E r \in Requests : OpenCheckout(r)) \/ UNCHANGED co
  BY ShopperFrame, ClockFrame, PayFrame, CallbackFrame, DeliveryFrame, SweepFrame
     DEF Next, vars
<1> QED BY <1>1, <1>2, <1>3

\* While Razorpay answers and its id is written, no checkout compensates.
THEOREM GatewayUpMeansNoCompensation ==
  ASSUME FaultKinds \cap {"gateway", "link"} = {}
  PROVE  Spec => []NobodyCompensates
<1>1. Init => NobodyCompensates
  BY DEF Init, CheckoutInit, NotRunning, NobodyCompensates
<1>2. TypeInv /\ NobodyCompensates /\ [Next]_vars => NobodyCompensates'
  BY CompensatingFailed DEF Fail
<1> QED BY <1>1, <1>2, TypeCorrect, PTL DEF Spec

\* No unit is created or lost while no call fails, whatever the interleaving
\* of checkouts, callbacks, webhooks, sweeps, cart edits and lapses.
THEOREM StockStaysConserved == Spec /\ [](faults = 0) => []StockIsConserved
<1>1. Init => NobodyCompensates /\ ReleaseInv /\ StockIsConserved
  BY InitStock, InitRelease DEF Init, CheckoutInit, NotRunning, NobodyCompensates
<1>2. TypeInv /\ NobodyCompensates /\ [Next]_vars /\ faults = 0 /\ (faults = 0)' =>
        NobodyCompensates'
  BY CompensatingFailed DEF Fail
<1>3. /\ TypeInv /\ TypeInv' /\ ReleaseInv /\ NobodyCompensates /\ NobodyCompensates'
      /\ StockIsConserved /\ [Next]_vars /\ faults = 0 /\ (faults = 0)'
      => StockIsConserved'
  BY LedgerStep DEF StockIsConserved, Moved
<1> QED BY <1>1, <1>2, <1>3, ReleaseStep, TypeCorrect, PTL DEF Spec

\* The shop never promises more units than it owns, whatever fails, as long
\* as no checkout has to give up an order it has inserted.
THEOREM NothingIsOversold == Spec /\ []NobodyCompensates => []NeverOversold
<1>1. Init => ReleaseInv /\ NeverOversold
  BY InitStock, InitRelease, StoreAssumption DEF StockIsConserved, NeverOversold
<1>2. /\ TypeInv /\ TypeInv' /\ ReleaseInv /\ NobodyCompensates /\ NobodyCompensates'
      /\ NeverOversold /\ [Next]_vars
      => NeverOversold'
  <2> SUFFICES ASSUME TypeInv, TypeInv', ReleaseInv, NobodyCompensates, NobodyCompensates',
                      NeverOversold, [Next]_vars, NEW p \in Products
               PROVE  stock'[p] + UnitsOut(p)' <= InitialStock[p]
    BY DEF NeverOversold
  <2>1. stock[p] \in Nat /\ stock'[p] \in Nat /\ InitialStock[p] \in Nat
    BY StoreAssumption DEF TypeInv, TypeOK, StoreTypeOK
  <2>2. UnitsOut(p) \in Nat /\ UnitsOut(p)' \in Nat
    BY UnitsOutType, UnitsOutTypeNext
  <2>3. stock'[p] + UnitsOut(p)' <= stock[p] + UnitsOut(p)
    BY LedgerStep DEF Moved
  <2>4. stock[p] + UnitsOut(p) <= InitialStock[p]
    BY DEF NeverOversold
  <2> QED BY <2>1, <2>2, <2>3, <2>4
<1> QED BY <1>1, <1>2, ReleaseStep, TypeCorrect, PTL DEF Spec

=============================================================================
