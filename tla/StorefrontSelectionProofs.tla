---------------------- MODULE StorefrontSelectionProofs ----------------------
(***************************************************************************)
(* What was selected offline is added to the account's cart once, for      *)
(* every value of the constants.                                           *)
(*                                                                         *)
(* The argument.  AskedInv says of a tab that whatever may still be added  *)
(* to a cart -- the selection, what a sign-in has left to replay, a cart   *)
(* call on its way -- fits, on top of what the server holds or the page    *)
(* shows, into what the shopper asked for.  The steps are of three sorts:  *)
(* (1) Same and Aside: those that are not about the selection; (2) Bears:  *)
(* those that add nothing to it, a cart call's end among them; (3) those   *)
(* that Affords is about: a click asks for more before it sends or selects *)
(* more, the widget takes the selection and hands it to a sign-in, and the *)
(* server adds what a call asks for, after which it is not sent again.     *)
(***************************************************************************)
EXTENDS StorefrontProofs

-----------------------------------------------------------------------------
(* The offline selection: what the reducer leaves of cart, selection and   *)
(* sign-in flag.                                                           *)

Same(s, t) ==
  /\ t.cart = s.cart /\ t.buffer = s.buffer
  /\ "widgetSession" \in t.pending <=> "widgetSession" \in s.pending

LEMMA SameTrans ==
  ASSUME NEW s, NEW t, NEW u, Same(s, t), Same(t, u)
  PROVE  Same(s, u)
BY DEF Same

LEMMA GoSame ==
  ASSUME NEW s \in State
  PROVE  /\ \A screen : Same(s, Go(s, screen))
         /\ Same(s, RequireAuth(s, "cart")) /\ Same(s, GoCheckout(s))
         /\ \A p : Same(s, OpenPdp(s, p))
         /\ \A up : Same(s, BumpQty(s, up))
BY DEF Same, State, Go, RequireAuth, GoCheckout, OpenPdp, BumpQty

LEMMA SettledSame ==
  ASSUME NEW s \in State, NEW key, key # "widgetSession"
  PROVE  Same(s, ReqStart(s, key)) /\ Same(s, Settled(s, key)) /\ Same(s, ReqFail(s, key))
BY DEF Same, State, ReqStart, Settled, ReqFail

LEMMA LoadedSame ==
  ASSUME NEW s \in State
  PROVE  /\ Same(s, TrustLoaded(s))
         /\ \A ps : Same(s, ProductsLoaded(s, ps))
         /\ \A p : Same(s, ProductLoaded(s, p))
         /\ \A ids : Same(s, OrdersLoaded(s, ids))
         /\ \A o : Same(s, CheckoutOpened(s, o))
         /\ \A order : Same(s, PaymentConfirmed(s, order))
         /\ Same(s, PaymentCancelled(s))
BY DEF Same, State, TrustLoaded, ProductsLoaded, ProductLoaded, OrdersLoaded, CheckoutOpened,
       PaymentConfirmed, PaymentCancelled, Settled

LEMMA UserSame ==
  ASSUME NEW s \in State
  PROVE  /\ Same(s, BootStart(s)) /\ Same(s, BootDone(s)) /\ Same(s, ClearBanner(s))
         /\ \A user : Same(s, OtpVerified(s, user)) /\ Same(s, SessionRestored(s, user))
BY DEF Same, State, BootStart, BootDone, ClearBanner, OtpVerified, SessionRestored

LEMMA BookSame ==
  ASSUME NEW s \in State
  PROVE  /\ \A book : Same(s, AddressesLoaded(s, book)) /\ Same(s, AddressDeleted(s, book))
         /\ \A a : /\ Same(s, AddressSaved(s, a)) /\ Same(s, SelectAddress(s, a))
                   /\ Same(s, ShowAddressForm(s, a))
         /\ Same(s, HideAddressForm(s)) /\ Same(s, SetAddr(s)) /\ Same(s, SetAddrFieldError(s))
BY DEF Same, State, AddressesLoaded, AddressDeleted, AddressSaved, SelectAddress, ShowAddressForm,
       HideAddressForm, SetAddr, SetAddrFieldError, Settled, WithBook

\* The actions that are about the cart, the selection or the sign-in.
LEMMA CartLoadedIs ==
  ASSUME NEW s \in State, NEW lines
  PROVE  LET t == CartLoaded(s, lines)
         IN /\ t.cart = lines /\ t.buffer = s.buffer
            /\ "widgetSession" \in t.pending <=> "widgetSession" \in s.pending
BY DEF State, CartLoaded, Settled

LEMMA SignOutIs ==
  ASSUME NEW s \in State
  PROVE  SignOut(s).cart = None /\ SignOut(s).buffer = NoLines /\ SignOut(s).pending = s.pending
BY DEF State, SignOut

LEMMA SetCartBufferIs ==
  ASSUME NEW s \in State, NEW lines
  PROVE  LET t == SetCartBuffer(s, lines)
         IN t.cart = s.cart /\ t.buffer = lines /\ t.pending = s.pending
BY DEF State, SetCartBuffer

LEMMA SignInFlag ==
  ASSUME NEW s \in State
  PROVE  /\ ReqStart(s, "widgetSession").cart = s.cart
         /\ ReqStart(s, "widgetSession").buffer = s.buffer
         /\ "widgetSession" \in ReqStart(s, "widgetSession").pending
         /\ ReqFail(s, "widgetSession").cart = s.cart
         /\ ReqFail(s, "widgetSession").buffer = s.buffer
         /\ "widgetSession" \notin ReqFail(s, "widgetSession").pending
BY DEF State, ReqStart, ReqFail, Settled

-----------------------------------------------------------------------------
(* The offline selection: steps that are not about it, and steps that take *)
(* from it.                                                                *)

Plain(f) == f = None \/ f.kind \notin {"cart", "widgetSession"}

\* A step that leaves the cart, the selection, their calls and the widget.
Aside(c, d) ==
  /\ d.shown = c.shown /\ d.widget = c.widget /\ d.stored = c.stored
  /\ Same(c.st, d.st)
  /\ \A key \in {"cart", "widgetSession"} : key \in d.inflight <=> key \in c.inflight
  /\ \A i \in FlowIds : d.flows[i] = c.flows[i] \/ (Plain(c.flows[i]) /\ Plain(d.flows[i]))

\* Nothing is selected, shown or about to be added that was not so before.
Less(c, d) ==
  /\ \A s : Selects(d, s) => Selects(c, s)
  /\ \A x : Shows(d, x) => Shows(c, x)
  /\ \A a : Sends(d, a) => Sends(c, a) \/ a.op \in {"get", "remove"}

Fine(c) == Once(c) /\ Awaits(c)

Bears(c, d) == Fine(c) => Fine(d) /\ Less(c, d)

LEMMA AsideTrans ==
  ASSUME NEW c, NEW d, NEW e, Aside(c, d), Aside(d, e)
  PROVE  Aside(c, e)
BY DEF Aside, Same

LEMMA AsideSame ==
  ASSUME NEW c
  PROVE  Aside(c, c) /\ Less(c, c) /\ Bears(c, c)
BY DEF Aside, Same, Less, Bears

LEMMA LessTrans ==
  ASSUME NEW c, NEW d, NEW e, Less(c, d), Less(d, e)
  PROVE  Less(c, e)
BY DEF Less

LEMMA BearsTrans ==
  ASSUME NEW c, NEW d, NEW e, Bears(c, d), Bears(d, e)
  PROVE  Bears(c, e)
BY LessTrans DEF Bears

LEMMA AsideBears ==
  ASSUME NEW c, NEW d, Aside(c, d)
  PROVE  Bears(c, d) /\ Less(c, d) /\ (Once(c) => Once(d))
<1>1. \A i \in FlowIds : (Carts(d, i) <=> Carts(c, i)) /\ (SignsIn(d, i) <=> SignsIn(c, i))
  BY DEF Aside, Plain, Carts, SignsIn
<1>2. \A i \in FlowIds : Carts(c, i) \/ SignsIn(c, i) => d.flows[i] = c.flows[i]
  BY DEF Aside, Plain, Carts, SignsIn
<1>3. Replays(d) <=> Replays(c)
  BY <1>1, <1>2 DEF Replays
<1>4. \A s : Selects(d, s) => Selects(c, s)
  BY <1>1, <1>2, <1>3 DEF Selects, Aside, Same
<1>5. \A x : Shows(d, x) => Shows(c, x)
  BY <1>1, <1>2 DEF Shows, Aside, Same
<1>6. \A a : Sends(d, a) => Sends(c, a)
  BY <1>1, <1>2 DEF Sends
<1>7. Less(c, d)
  BY <1>4, <1>5, <1>6 DEF Less
<1>8. Once(c) => Once(d)
  BY <1>1, <1>2 DEF Once, Aside, Same
<1>9. Awaits(c) => Awaits(d)
  BY <1>1 DEF Awaits, Aside
<1> QED BY <1>7, <1>8, <1>9 DEF Bears, Fine

LEMMA FrameAside ==
  ASSUME NEW c, NEW d, Frames(c, d), d.stored = c.stored, Same(c.st, d.st),
         \A key \in {"cart", "widgetSession"} : key \in d.inflight <=> key \in c.inflight
  PROVE  Aside(c, d)
BY DEF Frames, Aside

LEMMA PlaceAside ==
  ASSUME NEW c, NEW d, NEW i \in FlowIds, NEW f, Places(c, d, i, f), d.stored = c.stored,
         Same(c.st, d.st), Plain(c.flows[i]), Plain(f),
         \A key \in {"cart", "widgetSession"} : key \in d.inflight <=> key \in c.inflight
  PROVE  Aside(c, d)
BY DEF Places, Aside

LEMMA StAside ==
  ASSUME NEW c, Shape(c), NEW s, Same(c.st, s)
  PROVE  Aside(c, [c EXCEPT !.st = s])
<1>1. PICK d : d = [c EXCEPT !.st = s]
  OBVIOUS
<1>2. /\ Frames(c, d) /\ d.st = s /\ d.inflight = c.inflight /\ d.stored = c.stored
  BY <1>1, StIs
<1> QED BY <1>1, <1>2, FrameAside

LEMMA AskAside ==
  ASSUME NEW c, Shape(c), Typed(c), NEW kind \in Kind \ {"cart", "widgetSession"},
         NEW arg \in ArgsOf(kind), NEW of \in 0..MaxFlows, HasRoom(Ask(c, kind, arg, of))
  PROVE  Aside(c, Ask(c, kind, arg, of))
<1>1. PICK d : d = Ask(c, kind, arg, of)
  OBVIOUS
<1>2. PICK i, f : i = FreeSlot(c) /\ f = Flow(c, kind, arg, of)
  OBVIOUS
<1>3. c.token \in Tokens \cup {NoToken}
  BY DEF Typed
<1>4. /\ i \in FlowIds /\ c.flows[i] = None /\ Places(c, d, i, f)
      /\ d.st = c.st /\ d.inflight = c.inflight /\ d.stored = c.stored
  BY <1>1, <1>2, <1>3, AskIs
<1>5. f.kind = kind
  BY <1>2, <1>3, FlowIs
<1>6. Plain(c.flows[i]) /\ Plain(f) /\ Same(c.st, d.st)
  BY <1>4, <1>5 DEF Plain, Same
<1> QED BY <1>1, <1>4, <1>6, PlaceAside

LEMMA GuardedAside ==
  ASSUME NEW c, Shape(c), Typed(c), NEW key \in RequestKey \ {"cart", "widgetSession"},
         NEW arg, MayAsk(key, arg), NEW of \in 0..MaxFlows, HasRoom(Guarded(c, key, arg, of))
  PROVE  Aside(c, Guarded(c, key, arg, of))
<1>1. CASE key \in c.inflight
  BY <1>1, AsideSame DEF Guarded
<1>2. CASE key \notin c.inflight
  <2>1. PICK d : d = Guarded(c, key, arg, of)
    OBVIOUS
  <2>2. PICK i, f :
          /\ i \in FlowIds /\ c.flows[i] = None /\ Places(c, d, i, f) /\ f # None /\ GoodCall(f)
          /\ f.kind = key /\ f.at = "asked" /\ f.arg = arg
          /\ Typed(d) /\ d.st = ReqStart(c.st, key)
          /\ d.inflight = c.inflight \cup {key} /\ d.stored = c.stored
    BY <1>2, <2>1, GuardedIs
  <2>3. Same(c.st, d.st)
    BY <2>2, SettledSame DEF Typed
  <2>4. Plain(c.flows[i]) /\ Plain(f)
    BY <2>2 DEF Plain
  <2>5. \A k \in {"cart", "widgetSession"} : k \in d.inflight <=> k \in c.inflight
    BY <2>2
  <2> QED BY <2>1, <2>2, <2>3, <2>4, <2>5, PlaceAside
<1> QED BY <1>1, <1>2

LEMMA LoadsAside ==
  ASSUME NEW c, Shape(c), Typed(c), NEW of \in 0..MaxFlows
  PROVE  /\ HasRoom(LoadTrust(c, of)) => Aside(c, LoadTrust(c, of))
         /\ HasRoom(LoadProducts(c, of)) => Aside(c, LoadProducts(c, of))
         /\ HasRoom(LoadAddresses(c, of)) => Aside(c, LoadAddresses(c, of))
         /\ HasRoom(LoadOrders(c)) => Aside(c, LoadOrders(c))
<1>1. /\ MayAsk("trust", None) /\ MayAsk("products", None) /\ MayAsk("addresses", None)
      /\ MayAsk("orders", None)
  BY DEF MayAsk, ArgsOf, Kind, RequestKey, CallKind
<1>2. \A key \in {"trust", "products", "addresses", "orders"} :
        key \in RequestKey \ {"cart", "widgetSession"}
  BY DEF RequestKey
<1>3. 0 \in 0..MaxFlows
  BY FlowsAssumption
<1>4. HasRoom(LoadTrust(c, of)) => Aside(c, LoadTrust(c, of))
  BY <1>1, <1>2, GuardedAside DEF LoadTrust
<1>5. HasRoom(LoadProducts(c, of)) => Aside(c, LoadProducts(c, of))
  BY <1>1, <1>2, GuardedAside DEF LoadProducts
<1>6. HasRoom(LoadAddresses(c, of)) => Aside(c, LoadAddresses(c, of))
  BY <1>1, <1>2, GuardedAside DEF LoadAddresses
<1>7. HasRoom(LoadOrders(c)) => Aside(c, LoadOrders(c))
  BY <1>1, <1>2, <1>3, GuardedAside DEF LoadOrders
<1> QED BY <1>4, <1>5, <1>6, <1>7

\* A cart call asks what it asks, and nothing more.
CartAsked(c, d, call) ==
  /\ Fine(c) => Fine(d)
  /\ \A s : Selects(d, s) => Selects(c, s)
  /\ \A x : Shows(d, x) => Shows(c, x)
  /\ \A a : Sends(d, a) => Sends(c, a) \/ a = call

LEMMA CartAsks ==
  ASSUME NEW c, Shape(c), Typed(c), NEW call, MayAsk("cart", call), NEW of \in 0..MaxFlows,
         HasRoom(CartMutation(c, call, of))
  PROVE  CartAsked(c, CartMutation(c, call, of), call)
<1>1. "cart" \in RequestKey
  BY DEF RequestKey
<1>2. PICK d : d = CartMutation(c, call, of)
  OBVIOUS
<1>3. d = Guarded(c, "cart", call, of)
  BY <1>2 DEF CartMutation
<1>4. CASE "cart" \in c.inflight
  BY <1>2, <1>3, <1>4 DEF Guarded, CartAsked
<1>5. CASE "cart" \notin c.inflight
  <2>1. PICK i, f :
          /\ i \in FlowIds /\ c.flows[i] = None /\ Places(c, d, i, f) /\ f # None /\ GoodCall(f)
          /\ f.kind = "cart" /\ f.at = "asked" /\ f.arg = call
          /\ Typed(d) /\ d.st = ReqStart(c.st, "cart")
          /\ d.inflight = c.inflight \cup {"cart"} /\ d.stored = c.stored
    BY <1>1, <1>2, <1>3, <1>5, GuardedIs
  <2>2. Same(c.st, d.st)
    BY <2>1, SettledSame DEF Typed
  <2>3. /\ \A j \in FlowIds : j # i => d.flows[j] = c.flows[j]
        /\ d.flows[i] = f /\ d.shown = c.shown /\ d.widget = c.widget
    BY <2>1 DEF Places
  <2>4. \A j \in FlowIds : SignsIn(d, j) <=> SignsIn(c, j)
    BY <2>1, <2>3 DEF SignsIn
  <2>5. \A j \in FlowIds : SignsIn(c, j) => d.flows[j] = c.flows[j]
    BY <2>1, <2>3 DEF SignsIn
  <2>6. \A j \in FlowIds : Carts(d, j) => j = i \/ Carts(c, j)
    BY <2>3 DEF Carts
  <2>7. Replays(d) <=> Replays(c)
    BY <2>4, <2>5 DEF Replays
  <2>8. \A s : Selects(d, s) => Selects(c, s)
    BY <2>2, <2>3, <2>4, <2>5, <2>7 DEF Selects, Same
  <2>9. \A x : Shows(d, x) => Shows(c, x)
    BY <2>1, <2>2, <2>3, <2>4, <2>5, <2>6 DEF Shows, Same
  <2>10. \A a : Sends(d, a) => Sends(c, a) \/ a = call
    BY <2>1, <2>3, <2>6 DEF Sends
  <2>11. ASSUME Fine(c)
         PROVE  Fine(d)
    <3>1. \A j \in FlowIds : ~ Carts(c, j)
      BY <1>5, <2>11 DEF Fine, Once
    <3>2. Once(d)
      BY <2>1, <2>2, <2>3, <2>4, <2>5, <2>6, <2>11, <3>1 DEF Fine, Once, Same
    <3>3. Awaits(d)
      BY <2>3, <2>4, <2>11 DEF Fine, Awaits
    <3> QED BY <3>2, <3>3 DEF Fine
  <2> QED BY <1>2, <2>8, <2>9, <2>10, <2>11 DEF CartAsked
<1> QED BY <1>4, <1>5

\* A load of the cart takes part in nothing that adds to it.
LEMMA LoadCartBears ==
  ASSUME NEW c, Shape(c), Typed(c), NEW of \in 0..MaxFlows, HasRoom(LoadCart(c, of))
  PROVE  Bears(c, LoadCart(c, of))
<1>1. PICK call : call = Call("get", None, 0, None)
  OBVIOUS
<1>2. MayAsk("cart", call) /\ call.op = "get"
  <2>1. call \in CartCalls /\ call.op = "get"
    BY <1>1, ShopAssumption DEF Call, CartCalls
  <2> QED BY <2>1 DEF MayAsk, ArgsOf, Kind, RequestKey, CallKind
<1>3. PICK d : d = LoadCart(c, of)
  OBVIOUS
<1>4. d = CartMutation(c, call, of)
  BY <1>1, <1>3 DEF LoadCart
<1>5. CartAsked(c, d, call)
  BY <1>2, <1>3, <1>4, CartAsks
<1>6. \A a : Sends(d, a) => Sends(c, a) \/ a.op \in {"get", "remove"}
  BY <1>2, <1>5 DEF CartAsked
<1> QED BY <1>3, <1>5, <1>6 DEF CartAsked, Bears, Less

LEMMA SettleAside ==
  ASSUME NEW c, Shape(c), Typed(c), NEW i \in FlowIds, NEW key, key \notin {"cart", "widgetSession"},
         NEW loaded, Plain(c.flows[i]), c.flows[i].status = "ok" => Same(c.st, loaded)
  PROVE  Aside(c, Settle(c, i, key, loaded))
<1>1. PICK s : s = IF c.flows[i].status = "ok" THEN loaded ELSE ReqFail(c.st, key)
  OBVIOUS
<1>2. Same(c.st, s)
  BY <1>1, SettledSame DEF Typed
<1>3. PICK e : e = [c EXCEPT !.st = s]
  OBVIOUS
<1>4. /\ Frames(c, e) /\ e.st = s /\ e.inflight = c.inflight /\ e.stored = c.stored
  BY <1>3, StIs
<1>5. PICK d : d = Settle(c, i, key, loaded)
  OBVIOUS
<1>6. d = Finally(e, i, key)
  BY <1>1, <1>3, <1>5 DEF Settle
<1>7. Shape(e)
  BY <1>4 DEF Frames
<1>8. /\ Places(e, d, i, None) /\ d.st = e.st /\ d.inflight = e.inflight \ {key}
      /\ d.stored = e.stored
  BY <1>6, <1>7, EndIs
<1>9. Places(c, d, i, None)
  BY <1>4, <1>8 DEF Places, Frames
<1>10. Plain(None)
  BY DEF Plain
<1>11. \A k \in {"cart", "widgetSession"} : k \in d.inflight <=> k \in c.inflight
  BY <1>4, <1>8
<1> QED BY <1>2, <1>4, <1>5, <1>8, <1>9, <1>10, <1>11, PlaceAside

LEMMA FinallyAside ==
  ASSUME NEW c, Shape(c), NEW i \in FlowIds, Plain(c.flows[i]),
         NEW key, key \notin {"cart", "widgetSession"}
  PROVE  Aside(c, Finally(c, i, key)) /\ Aside(c, End(c, i))
<1>1. PICK d : d = Finally(c, i, key)
  OBVIOUS
<1>2. PICK e : e = End(c, i)
  OBVIOUS
<1>3. /\ Places(c, e, i, None) /\ e.st = c.st /\ e.inflight = c.inflight /\ e.stored = c.stored
      /\ Places(c, d, i, None) /\ d.st = c.st /\ d.inflight = c.inflight \ {key}
      /\ d.stored = c.stored
  BY <1>1, <1>2, EndIs
<1>4. Plain(None) /\ Same(c.st, d.st) /\ Same(c.st, e.st)
  BY <1>3 DEF Plain, Same
<1>5. \A k \in {"cart", "widgetSession"} :
        (k \in d.inflight <=> k \in c.inflight) /\ (k \in e.inflight <=> k \in c.inflight)
  BY <1>3
<1>6. Aside(c, d)
  BY <1>3, <1>4, <1>5, PlaceAside
<1>7. Aside(c, e)
  BY <1>3, <1>4, <1>5, PlaceAside
<1> QED BY <1>1, <1>2, <1>6, <1>7

LEMMA JoinAside ==
  ASSUME NEW c, Sound(c), NEW i \in FlowIds, c.flows[i] # None, Plain(c.flows[i])
  PROVE  Aside(c, Join(c, i))
<1>1. PICK f : f = c.flows[i]
  OBVIOUS
<1>2. Shape(c) /\ GoodCall(f)
  BY <1>1, SoundTyped
<1>3. f = [kind |-> f.kind, at |-> f.at, tok |-> f.tok, arg |-> f.arg, of |-> f.of,
           status |-> f.status, body |-> f.body]
  BY <1>2, GoodCallIs
<1>4. PICK g : g = Joining(f)
  OBVIOUS
<1>5. PICK d : d = Join(c, i)
  OBVIOUS
<1>6. Places(c, d, i, g) /\ d.st = c.st /\ d.inflight = c.inflight /\ d.stored = c.stored
  BY <1>1, <1>2, <1>3, <1>4, <1>5, JoinIs
<1>7. g.kind = f.kind
  BY <1>4 DEF Joining
<1>8. Plain(g) /\ Same(c.st, d.st)
  BY <1>1, <1>2, <1>6, <1>7, GoodCallIs DEF Plain, Same
<1> QED BY <1>5, <1>6, <1>8, PlaceAside

LEMMA AskAgainAside ==
  ASSUME NEW c, Shape(c), NEW i \in FlowIds, Plain(c.flows[i]), c.flows[i] # None, NEW arg
  PROVE  Aside(c, AskAgain(c, i, arg))
<1>1. PICK f : f = Flow(c, c.flows[i].kind, arg, c.flows[i].of)
  OBVIOUS
<1>2. PICK d : d = AskAgain(c, i, arg)
  OBVIOUS
<1>3. Places(c, d, i, f) /\ d.st = c.st /\ d.inflight = c.inflight /\ d.stored = c.stored
  BY <1>1, <1>2, AskAgainIs
<1>4. f.kind = c.flows[i].kind
  BY <1>1 DEF Flow
<1>5. Plain(f) /\ Same(c.st, d.st)
  BY <1>3, <1>4 DEF Plain, Same
<1> QED BY <1>2, <1>3, <1>5, PlaceAside

LEMMA LoadProductAside ==
  ASSUME NEW c, Shape(c), Typed(c), NEW p \in Products, HasRoom(LoadProduct(c, p))
  PROVE  Aside(c, LoadProduct(c, p))
<1>1. PICK flows : flows = [i \in FlowIds |->
                              IF c.flows[i] # None /\ c.flows[i].kind = "product" THEN None
                              ELSE c.flows[i]]
  OBVIOUS
<1>2. PICK keys, s : keys = c.inflight \cup {"product"} /\ s = ReqStart(c.st, "product")
  OBVIOUS
<1>3. PICK e : e = [c EXCEPT !.flows = flows, !.inflight = keys, !.st = s]
  OBVIOUS
<1>4. LoadProduct(c, p) = Ask(e, "product", p, 0)
  BY <1>1, <1>2, <1>3 DEF LoadProduct
<1>5. e = [st |-> s, shown |-> c.shown, inflight |-> keys, token |-> c.token,
           stored |-> c.stored, flows |-> flows, widget |-> c.widget, sheet |-> c.sheet]
  BY <1>3 DEF Shape
<1>6. flows = [j \in FlowIds |-> flows[j]]
  BY <1>1
<1>7. Shape(e)
  BY <1>5, <1>6 DEF Shape
<1>8. "product" \in RequestKey /\ 0 \in 0..MaxFlows /\ "product" \in Kind \ {"cart", "widgetSession"}
      /\ p \in ArgsOf("product")
  BY FlowsAssumption DEF ArgsOf, Kind, RequestKey
<1>9. s \in State /\ Same(c.st, s)
  BY <1>2, <1>8, ReqStartIs, SettledSame DEF Typed
<1>10. Typed(e)
  BY <1>2, <1>5, <1>8, <1>9 DEF Typed
<1>11. HasRoom(Ask(e, "product", p, 0))
  BY <1>4
<1>12. Aside(e, Ask(e, "product", p, 0))
  BY <1>7, <1>8, <1>10, <1>11, AskAside
<1>13. /\ e.flows = flows /\ e.shown = c.shown /\ e.widget = c.widget /\ e.stored = c.stored
       /\ e.st = s /\ e.inflight = keys
  BY <1>5
<1>14. \A j \in FlowIds : e.flows[j] = c.flows[j] \/ (Plain(c.flows[j]) /\ Plain(e.flows[j]))
  BY <1>1, <1>13 DEF Plain
<1>15. Aside(c, e)
  BY <1>2, <1>9, <1>13, <1>14 DEF Aside
<1> QED BY <1>4, <1>12, <1>15, AsideTrans

LEMMA RestoreSessionAside ==
  ASSUME NEW c, Shape(c), Typed(c), NEW of \in 0..MaxFlows, HasRoom(RestoreSession(c, of))
  PROVE  Aside(c, RestoreSession(c, of))
<1>1. "restore" \in Kind \ {"cart", "widgetSession"} /\ None \in ArgsOf("restore")
  BY DEF Kind, RequestKey, ArgsOf
<1>2. CASE c.token = NoToken
  BY <1>2, AsideSame DEF RestoreSession
<1>3. CASE c.token # NoToken
  BY <1>1, <1>3, AskAside DEF RestoreSession
<1> QED BY <1>2, <1>3

LEMMA StartedAside ==
  ASSUME NEW c, Sound(c), HasRoom(c), NEW i, i = FreeSlot(c)
  PROVE  Aside(c, Join(Ask([c EXCEPT !.st = BootStart(@)], "boot", None, 0), i))
<1>1. PICK s : s = BootStart(c.st)
  OBVIOUS
<1>2. PICK c1 : c1 = [c EXCEPT !.st = s]
  OBVIOUS
<1>3. Shape(c) /\ Typed(c) /\ c.st \in State
  BY SoundTyped
<1>4. /\ Frames(c, c1) /\ c1.st = s /\ c1.inflight = c.inflight /\ c1.token = c.token
      /\ c1.stored = c.stored
  BY <1>2, <1>3, StIs
<1>5. Same(c.st, s)
  BY <1>1, <1>3, UserSame
<1>6. i \in FlowIds /\ c.flows[i] = None
  BY DEF FreeSlot, HasRoom
<1>7. i = FreeSlot(c1)
  BY <1>4 DEF FreeSlot, Frames
<1>8. PICK f : f = Flow(c1, "boot", None, 0)
  OBVIOUS
<1>9. f.kind = "boot" /\ f = [kind |-> f.kind, at |-> f.at, tok |-> f.tok, arg |-> f.arg,
                              of |-> f.of, status |-> f.status, body |-> f.body]
  BY <1>8 DEF Flow
<1>10. PICK e : e = Ask(c1, "boot", None, 0)
  OBVIOUS
<1>11. e = [c1 EXCEPT !.flows[i] = f]
  BY <1>7, <1>8, <1>10 DEF Ask
<1>12. Shape(c1)
  BY <1>4 DEF Frames
<1>13. Places(c1, e, i, f) /\ e.st = c1.st /\ e.inflight = c1.inflight /\ e.stored = c1.stored
  BY <1>11, <1>12, SlotIs
<1>14. Shape(e) /\ e.flows[i] = f
  BY <1>6, <1>13 DEF Places
<1>15. PICK g : g = Joining(f)
  OBVIOUS
<1>16. PICK d : d = Join(e, i)
  OBVIOUS
<1>17. Places(e, d, i, g) /\ d.st = e.st /\ d.inflight = e.inflight /\ d.stored = e.stored
  BY <1>6, <1>9, <1>14, <1>15, <1>16, JoinIs
<1>18. g.kind = "boot"
  BY <1>9, <1>15 DEF Joining
<1>19. Places(c, d, i, g)
  BY <1>4, <1>13, <1>17 DEF Places, Frames
<1>20. Plain(c.flows[i]) /\ Plain(g) /\ Same(c.st, d.st)
  BY <1>4, <1>5, <1>6, <1>13, <1>17, <1>18 DEF Plain
<1>21. Aside(c, d)
  BY <1>4, <1>6, <1>13, <1>17, <1>19, <1>20, PlaceAside
<1> QED BY <1>1, <1>2, <1>10, <1>16, <1>21

LEMMA RunBootAside ==
  ASSUME NEW c, Sound(c), HasRoom(c), HasRoom(RunBoot(c))
  PROVE  Aside(c, RunBoot(c))
<1>1. PICK i : i = FreeSlot(c)
  OBVIOUS
<1>2. PICK d1 : d1 = Join(Ask([c EXCEPT !.st = BootStart(@)], "boot", None, 0), i)
  OBVIOUS
<1>3. i \in FlowIds /\ Sound(d1) /\ Asks(c, d1) /\ Aside(c, d1)
  BY <1>1, <1>2, StartedKeeps, StartedAside
<1>4. i \in 0..MaxFlows
  BY <1>3, FlowsAssumption DEF FlowIds
<1>5. PICK d2 : d2 = LoadTrust(d1, i)
  OBVIOUS
<1>6. PICK d3 : d3 = LoadProducts(d2, i)
  OBVIOUS
<1>7. PICK d4 : d4 = RestoreSession(d3, i)
  OBVIOUS
<1>8. d4 = RunBoot(c)
  BY <1>1, <1>2, <1>5, <1>6, <1>7 DEF RunBoot
<1>9. Asks(d1, d2)
  BY <1>3, <1>4, <1>5, LoadsAsk DEF Asks
<1>10. Asks(d2, d3)
  BY <1>4, <1>6, <1>9, LoadsAsk DEF Asks
<1>11. Asks(d3, d4)
  BY <1>4, <1>7, <1>10, RestoreSessionAsks DEF Asks
<1>12. HasRoom(d4) /\ HasRoom(d3) /\ HasRoom(d2)
  BY <1>8, <1>10, <1>11 DEF Asks
<1>13. Aside(d1, d2)
  BY <1>3, <1>4, <1>5, <1>12, LoadsAside DEF Asks
<1>14. Aside(d2, d3)
  BY <1>4, <1>6, <1>9, <1>12, LoadsAside DEF Asks
<1>15. Aside(d3, d4)
  BY <1>4, <1>7, <1>10, <1>12, RestoreSessionAside DEF Asks
<1>16. Aside(d1, d4)
  BY <1>13, <1>14, <1>15, AsideTrans
<1> QED BY <1>3, <1>8, <1>16, AsideTrans

\* A render shows what the state has, and that a sign-in is under way.
LEMMA RenderBears ==
  ASSUME NEW c, Sound(c), HasRoom(Render(c)), Once(c)
  PROVE  Fine(Render(c)) /\ Less(c, Render(c))
<1>1. PICK on : on = [c EXCEPT !.shown = c.st]
  OBVIOUS
<1>2. PICK page : page = IF c.st.pdp \notin {None, c.shown.pdp} THEN LoadProduct(on, c.st.pdp) ELSE on
  OBVIOUS
<1>3. PICK last : last = IF c.st.screen = "orders" /\ c.shown.screen # "orders" THEN LoadOrders(page)
                         ELSE IF c.st.screen = "addresses" /\ c.shown.screen # "addresses"
                           THEN LoadAddresses(page, 0)
                         ELSE page
  OBVIOUS
<1>4. PICK d : d = Render(c)
  OBVIOUS
<1>5. d = [last EXCEPT !.shown = last.st]
  BY <1>1, <1>2, <1>3, <1>4 DEF Render
<1>6. Shape(c) /\ Typed(c) /\ c.st \in State
  BY SoundTyped
<1>7. /\ Shape(on) /\ on.shown = c.st /\ on.st = c.st /\ on.inflight = c.inflight
      /\ on.token = c.token /\ on.stored = c.stored /\ on.flows = c.flows /\ on.widget = c.widget
  BY <1>1, <1>6, ShownIs
<1>8. Typed(on) /\ 0 \in 0..MaxFlows
  BY <1>6, <1>7, FlowsAssumption DEF Typed
<1>9. last \in {page, LoadOrders(page), LoadAddresses(page, 0)}
  BY <1>3
<1>10. c.st.pdp \notin {None, c.shown.pdp} => c.st.pdp \in Products
  BY <1>6 DEF State
<1>11. Shape(page) /\ Typed(page)
  BY <1>2, <1>7, <1>8, <1>10, LoadProductIs
<1>12. Asks(page, last)
  BY <1>9, <1>11, ArrivalAsks
<1>13. Shape(last)
  BY <1>12 DEF Asks
<1>14. /\ d.shown = last.st /\ d.st = last.st /\ d.inflight = last.inflight
       /\ d.stored = last.stored /\ d.flows = last.flows /\ d.widget = last.widget
  BY <1>5, <1>13, ShownIs
<1>15. HasRoom(last) /\ HasRoom(page)
  BY <1>4, <1>12, <1>14 DEF HasRoom, Asks
<1>16. Aside(on, page)
  BY <1>2, <1>7, <1>8, <1>10, <1>15, LoadProductAside, AsideSame
<1>17. Aside(page, last)
  <2>1. CASE last = page
    BY <2>1, AsideSame
  <2>2. CASE last = LoadOrders(page)
    BY <1>8, <1>11, <1>15, <2>2, LoadsAside
  <2>3. CASE last = LoadAddresses(page, 0)
    BY <1>8, <1>11, <1>15, <2>3, LoadsAside
  <2> QED BY <1>9, <2>1, <2>2, <2>3
<1>18. Aside(on, last)
  BY <1>16, <1>17, AsideTrans
<1>19. Once(on)
  BY <1>7 DEF Once, Carts, SignsIn
<1>20. Once(last)
  BY <1>18, <1>19, AsideBears
<1>21. Once(d)
  BY <1>14, <1>20 DEF Once, Carts, SignsIn
<1>22. Awaits(d)
  BY <1>14, <1>20 DEF Awaits, Once, SignsIn
<1>23. \A i \in FlowIds :
         /\ Carts(d, i) <=> Carts(c, i)
         /\ SignsIn(d, i) <=> SignsIn(c, i)
         /\ Carts(c, i) \/ SignsIn(c, i) => d.flows[i] = c.flows[i]
  BY <1>7, <1>14, <1>18 DEF Aside, Plain, Carts, SignsIn
<1>24. /\ d.shown.buffer = c.st.buffer /\ d.shown.cart = c.st.cart /\ d.st.buffer = c.st.buffer
       /\ d.st.cart = c.st.cart /\ d.widget = c.widget
       /\ "widgetSession" \in d.shown.pending <=> "widgetSession" \in c.st.pending
  BY <1>7, <1>14, <1>18 DEF Aside, Same
<1>25. Replays(d) <=> Replays(c)
  BY <1>23 DEF Replays
<1>26. "widgetSession" \notin c.st.pending => ~ Replays(c)
  BY DEF Once, Replays
<1>27. \A s : Selects(d, s) => Selects(c, s)
  BY <1>23, <1>24, <1>25, <1>26 DEF Selects
<1>28. \A x : Shows(d, x) => Shows(c, x)
  BY <1>23, <1>24 DEF Shows
<1>29. \A a : Sends(d, a) => Sends(c, a)
  BY <1>23 DEF Sends
<1> QED BY <1>4, <1>21, <1>22, <1>27, <1>28, <1>29 DEF Fine, Less

LEMMA RestingFine ==
  ASSUME NEW c, Resting(c), c.stored = c.st.buffer
  PROVE  /\ Fine(c)
         /\ \A s : Selects(c, s) => s \in {NoLines, c.st.buffer, c.shown.buffer}
         /\ \A x : Shows(c, x) => x # None /\ x \in {c.st.cart, c.shown.cart}
         /\ \A a : ~ Sends(c, a)
<1>1. \A i \in FlowIds : ~ Carts(c, i) /\ ~ SignsIn(c, i)
  BY DEF Resting, Carts, SignsIn
<1>2. Fine(c)
  BY <1>1 DEF Fine, Once, Awaits
<1>3. \A s : Selects(c, s) => s \in {NoLines, c.st.buffer, c.shown.buffer}
  BY <1>1 DEF Selects, Resting
<1>4. \A x : Shows(c, x) => x # None /\ x \in {c.st.cart, c.shown.cart}
  BY <1>1 DEF Shows
<1>5. \A a : ~ Sends(c, a)
  BY <1>1 DEF Sends
<1> QED BY <1>2, <1>3, <1>4, <1>5

\* A page load knows the stored selection and no cart.
LEMMA OpenPageBears ==
  ASSUME NEW token \in Tokens \cup {NoToken}, NEW stored \in Lines,
         HasRoom(OpenPage(token, stored))
  PROVE  LET d == OpenPage(token, stored)
         IN /\ Fine(d)
            /\ \A s : Selects(d, s) => s \in {NoLines, stored}
            /\ \A x : ~ Shows(d, x)
            /\ \A a : Sends(d, a) => a.op \in {"get", "remove"}
<1>1. PICK s0 : s0 = SetCartBuffer(InitialState, stored)
  OBVIOUS
<1>2. PICK none : none = {}
  OBVIOUS
<1>3. PICK flows : flows = [i \in FlowIds |-> None]
  OBVIOUS
<1>4. PICK blank : blank = [st |-> s0, shown |-> InitialState,
                inflight |-> none, token |-> token, stored |-> stored,
                flows |-> flows, widget |-> None, sheet |-> None]
  OBVIOUS
<1>5. PICK d : d = OpenPage(token, stored)
  OBVIOUS
<1>6. d = RunBoot(blank)
  BY <1>1, <1>2, <1>3, <1>4, <1>5 DEF OpenPage
<1>7. Sets(InitialState, s0)
  BY <1>1, InitialStateIs, BufferFollows
<1>8. s0 \in State /\ s0.pending = {} /\ s0.pdp = None /\ s0.detail = None /\ s0.cancelled = FALSE
  <2>1. s0 \in State /\ s0.pending = {} /\ s0.pdp = None /\ s0.detail = None
    BY <1>7, InitialStateIs DEF Sets, Follows
  <2>2. s0.cancelled \in BOOLEAN
    BY <2>1 DEF State
  <2>3. ~ s0.cancelled
    BY <1>7, InitialStateIs DEF Sets, Follows
  <2> QED BY <2>1, <2>2, <2>3
<1>9. flows = [i \in FlowIds |-> flows[i]] /\ \A i \in FlowIds : flows[i] = None
  BY <1>3
<1>10. Shape(blank)
  BY <1>4, <1>9 DEF Shape
<1>11. Typed(blank)
  BY <1>2, <1>4, <1>8 DEF Typed
<1>12. Resting(blank)
  BY <1>4, <1>8, <1>9, <1>10, <1>11, InitialStateIs DEF Resting
<1>13. Sound(blank)
  BY <1>12, RestingSound
<1>14. HasRoom(blank)
  BY <1>5, <1>9, <1>4 DEF HasRoom
<1>15. Aside(blank, d)
  BY <1>5, <1>6, <1>13, <1>14, RunBootAside
<1>16. s0.buffer = stored /\ s0.cart = None /\ InitialState.buffer = NoLines
       /\ InitialState.cart = None
  <2>1. InitialState.buffer = NoLines /\ InitialState.cart = None
    BY DEF InitialState
  <2> QED BY <1>1, <2>1, InitialStateIs, SetCartBufferIs
<1>17. blank.stored = blank.st.buffer /\ blank.st = s0 /\ blank.shown = InitialState
  BY <1>4, <1>16
<1>18. /\ Fine(blank)
       /\ \A s : Selects(blank, s) => s \in {NoLines, stored}
       /\ \A x : ~ Shows(blank, x)
       /\ \A a : ~ Sends(blank, a)
  BY <1>12, <1>16, <1>17, RestingFine
<1>19. Fine(d) /\ Less(blank, d)
  BY <1>15, <1>18, AsideBears DEF Bears
<1> QED BY <1>5, <1>18, <1>19 DEF Less

-----------------------------------------------------------------------------
(* The offline selection: the answers.                                     *)

\* A cart call ends; the page is told the cart it brought.
LEMMA CartTurn ==
  ASSUME NEW c, NEW i \in FlowIds, Carts(c, i), NEW d, Places(c, d, i, None),
         d.stored = c.stored, d.st.buffer = c.st.buffer,
         d.st.cart = c.st.cart \/ Shows(c, d.st.cart),
         "widgetSession" \in d.st.pending <=> "widgetSession" \in c.st.pending,
         d.inflight = c.inflight \ {"cart"}
  PROVE  Bears(c, d)
<1>1. /\ \A j \in FlowIds : j # i => d.flows[j] = c.flows[j]
      /\ d.flows[i] = None /\ d.shown = c.shown /\ d.widget = c.widget
  BY DEF Places
<1>2. \A j \in FlowIds : SignsIn(d, j) <=> SignsIn(c, j)
  BY <1>1 DEF SignsIn, Carts
<1>3. \A j \in FlowIds : SignsIn(c, j) => d.flows[j] = c.flows[j]
  BY <1>1 DEF SignsIn, Carts
<1>4. \A j \in FlowIds : Carts(d, j) => Carts(c, j) /\ j # i /\ d.flows[j] = c.flows[j]
  BY <1>1 DEF Carts
<1>5. Replays(d) <=> Replays(c)
  BY <1>2, <1>3 DEF Replays
<1>6. \A s : Selects(d, s) => Selects(c, s)
  BY <1>1, <1>2, <1>3, <1>5 DEF Selects
<1>7. \A x : Shows(d, x) => Shows(c, x)
  <2>1. ASSUME NEW x, Shows(d, x)
        PROVE  Shows(c, x)
    <3>1. CASE x # None /\ x \in {d.st.cart, d.shown.cart}
      <4>1. x = c.shown.cart \/ x = c.st.cart \/ Shows(c, x)
        BY <1>1, <3>1
      <4> QED BY <3>1, <4>1 DEF Shows
    <3>2. CASE ~ (x # None /\ x \in {d.st.cart, d.shown.cart})
      BY <1>2, <1>3, <1>4, <2>1, <3>2 DEF Shows
    <3> QED BY <3>1, <3>2
  <2> QED BY <2>1
<1>8. \A a : Sends(d, a) => Sends(c, a)
  BY <1>4 DEF Sends
<1>9. ASSUME Fine(c)
      PROVE  Fine(d)
  <2>1. \A j \in FlowIds : ~ Carts(d, j)
    BY <1>4, <1>9 DEF Fine, Once
  <2>2. Once(d)
    BY <1>1, <1>2, <1>3, <1>9, <2>1 DEF Fine, Once
  <2>3. Awaits(d)
    BY <1>1, <1>2, <1>9 DEF Fine, Awaits
  <2> QED BY <2>2, <2>3 DEF Fine
<1> QED BY <1>6, <1>7, <1>8, <1>9 DEF Bears, Less

\* A sign-in goes on with what it has yet to add, or it ends: then it has
\* wiped the selection, unless it was not to add it.
LEMMA SignInTurn ==
  ASSUME NEW c, NEW i \in FlowIds, SignsIn(c, i), NEW d, NEW f, Places(c, d, i, f),
         d.st.cart \in {None, c.st.cart},
         \/ d.stored = c.stored /\ d.st.buffer = c.st.buffer
         \/ d.stored = NoLines /\ d.st.buffer = NoLines,
         "cart" \in d.inflight <=> "cart" \in c.inflight,
         f = None =>
           (c.flows[i].arg.step = "replay" /\ c.flows[i].arg.replays => d.st.buffer = NoLines),
         f # None =>
           /\ f.kind = "widgetSession" /\ f.at # "answered" /\ f.arg.step = "replay"
           /\ f.arg.left = Left(c.flows[i]) /\ f.arg.replays = c.flows[i].arg.replays
           /\ IsEmpty(c.flows[i].arg.left) => IsEmpty(f.arg.left)
           /\ "widgetSession" \in c.inflight => "widgetSession" \in d.inflight
           /\ "widgetSession" \in c.st.pending => "widgetSession" \in d.st.pending
  PROVE  Bears(c, d)
<1>1. /\ \A j \in FlowIds : j # i => d.flows[j] = c.flows[j]
      /\ d.flows[i] = f /\ d.shown = c.shown /\ d.widget = c.widget
  BY DEF Places
<1>2. \A j \in FlowIds : Carts(d, j) <=> Carts(c, j)
  BY <1>1 DEF SignsIn, Carts
<1>3. \A j \in FlowIds : Carts(c, j) => d.flows[j] = c.flows[j]
  BY <1>1 DEF SignsIn, Carts
<1>4. \A j \in FlowIds : SignsIn(d, j) => SignsIn(c, j)
  BY <1>1 DEF SignsIn
<1>5. \A j \in FlowIds : SignsIn(c, j) /\ j # i => SignsIn(d, j) /\ d.flows[j] = c.flows[j]
  BY <1>1 DEF SignsIn
<1>6. Replays(c) => Replays(d) \/ d.st.buffer = NoLines
  <2>1. ASSUME Replays(c)
        PROVE  Replays(d) \/ d.st.buffer = NoLines
    <3>1. PICK j \in FlowIds :
            SignsIn(c, j) /\ c.flows[j].arg.step = "replay" /\ c.flows[j].arg.replays
      BY <2>1 DEF Replays
    <3>2. CASE j # i
      BY <1>5, <3>1, <3>2 DEF Replays
    <3>3. CASE j = i /\ f = None
      BY <3>1, <3>3
    <3>4. CASE j = i /\ f # None
      <4>1. SignsIn(d, i) /\ d.flows[i].arg.step = "replay" /\ d.flows[i].arg.replays
        BY <1>1, <3>1, <3>4 DEF SignsIn
      <4> QED BY <4>1 DEF Replays
    <3> QED BY <3>2, <3>3, <3>4
  <2> QED BY <2>1
<1>7. \A j \in FlowIds : SignsIn(d, j) => Left(d.flows[j]) = Left(c.flows[j])
  <2>1. ASSUME NEW j \in FlowIds, SignsIn(d, j)
        PROVE  Left(d.flows[j]) = Left(c.flows[j])
    <3>1. CASE j # i
      BY <1>1, <3>1
    <3>2. CASE j = i
      <4>1. f # None
        BY <1>1, <2>1, <3>2 DEF SignsIn
      <4>2. Left(f) = f.arg.left
        BY <4>1 DEF Left
      <4> QED BY <1>1, <3>2, <4>1, <4>2
    <3> QED BY <3>1, <3>2
  <2> QED BY <2>1
<1>8. \A s : Selects(d, s) => Selects(c, s)
  BY <1>1, <1>4, <1>6, <1>7 DEF Selects
<1>9. \A x : Shows(d, x) => Shows(c, x)
  <2>1. \A j \in FlowIds : SignsIn(d, j) /\ d.flows[j].at = "answered" => d.flows[j] = c.flows[j]
    BY <1>1 DEF SignsIn
  <2> QED BY <1>1, <1>2, <1>3, <1>4, <2>1 DEF Shows
<1>10. \A a : Sends(d, a) => Sends(c, a)
  BY <1>2, <1>3 DEF Sends
<1>11. ASSUME Fine(c)
       PROVE  Fine(d)
  <2>1. \A j \in FlowIds : SignsIn(d, j) => j = i /\ f # None
    BY <1>1, <1>4, <1>11 DEF Fine, Once, SignsIn
  <2>2. d.stored = d.st.buffer
    BY <1>11 DEF Fine, Once
  <2>3. \A j \in FlowIds : SignsIn(d, j) =>
          /\ "widgetSession" \in d.inflight /\ "widgetSession" \in d.st.pending
          /\ d.widget = None
          /\ ~ IsEmpty(d.flows[j].arg.left) => d.flows[j].arg.replays
    BY <1>1, <1>11, <2>1 DEF Fine, Once
  <2>4. Once(d)
    BY <1>2, <1>11, <2>1, <2>2, <2>3 DEF Fine, Once
  <2>5. Awaits(d)
    BY <1>1, <1>4, <1>11 DEF Fine, Awaits
  <2> QED BY <2>4, <2>5 DEF Fine
<1> QED BY <1>8, <1>9, <1>10, <1>11 DEF Bears, Less

LEMMA SignOutBears ==
  ASSUME NEW c, Sound(c)
  PROVE  Bears(c, PerformSignOut(c))
<1>1. PICK s : s = SignOut(c.st)
  OBVIOUS
<1>2. PICK none, lines : none = NoToken /\ lines = NoLines
  OBVIOUS
<1>3. PICK d : d = PerformSignOut(c)
  OBVIOUS
<1>4. Shape(c) /\ c.st \in State
  BY SoundTyped
<1>5. d = [c EXCEPT !.token = none, !.stored = lines, !.st = s]
  BY <1>1, <1>2, <1>3 DEF PerformSignOut
<1>6. /\ d.shown = c.shown /\ d.flows = c.flows /\ d.widget = c.widget /\ d.inflight = c.inflight
      /\ d.stored = lines /\ d.st = s
  BY <1>4, <1>5 DEF Shape
<1>7. s.cart = None /\ s.buffer = lines /\ s.pending = c.st.pending
  BY <1>1, <1>2, <1>4, SignOutIs
<1>8. \A j \in FlowIds : (Carts(d, j) <=> Carts(c, j)) /\ (SignsIn(d, j) <=> SignsIn(c, j))
  BY <1>6 DEF Carts, SignsIn
<1>9. \A t : Selects(d, t) => Selects(c, t)
  BY <1>2, <1>6, <1>7, <1>8 DEF Selects
<1>10. \A x : Shows(d, x) => Shows(c, x)
  BY <1>6, <1>7, <1>8 DEF Shows
<1>11. \A a : Sends(d, a) => Sends(c, a)
  BY <1>6, <1>8 DEF Sends
<1>12. Fine(c) => Fine(d)
  BY <1>6, <1>7, <1>8 DEF Fine, Once, Awaits
<1> QED BY <1>3, <1>9, <1>10, <1>11, <1>12 DEF Bears, Less

LEMMA UnauthorizedBears ==
  ASSUME NEW c, Sound(c), NEW i
  PROVE  Bears(c, Unauthorized(c, i))
BY SignOutBears, AsideSame DEF Unauthorized

\* The answers that are not about the cart or the selection.
LEMMA LoadsAnsweredAside ==
  ASSUME NEW c, NEW i, Heard(c, i)
  PROVE  /\ c.flows[i].kind = "trust" => Aside(c, TrustAnswered(c, i))
         /\ c.flows[i].kind = "products" => Aside(c, ProductsAnswered(c, i))
         /\ c.flows[i].kind = "product" => Aside(c, ProductAnswered(c, i))
         /\ c.flows[i].kind = "addresses" => Aside(c, AddressesAnswered(c, i))
         /\ c.flows[i].kind = "orders" => Aside(c, OrdersAnswered(c, i))
         /\ c.flows[i].kind = "addressDelete" => Aside(c, AddressDeleteAnswered(c, i))
<1>1. i \in FlowIds /\ c.st \in State /\ Shape(c) /\ Typed(c)
  BY HeardIs DEF Heard
<1>2. PICK body : body = c.flows[i].body
  OBVIOUS
<1>3. ASSUME c.flows[i].kind \notin {"cart", "widgetSession"}
      PROVE  Plain(c.flows[i])
  BY <1>3 DEF Plain
<1>4. ASSUME c.flows[i].kind = "trust"
      PROVE  Aside(c, TrustAnswered(c, i))
  <2>1. PICK s : s = TrustLoaded(c.st)
    OBVIOUS
  <2>2. Same(c.st, s)
    BY <1>1, <2>1, LoadedSame
  <2>3. TrustAnswered(c, i) = Settle(c, i, "trust", s)
    BY <2>1 DEF TrustAnswered
  <2> QED BY <1>1, <1>3, <1>4, <2>2, <2>3, SettleAside
<1>5. ASSUME c.flows[i].kind = "products"
      PROVE  Aside(c, ProductsAnswered(c, i))
  <2>1. PICK s : s = ProductsLoaded(c.st, body)
    OBVIOUS
  <2>2. Same(c.st, s)
    BY <1>1, <2>1, LoadedSame
  <2>3. ProductsAnswered(c, i) = Settle(c, i, "products", s)
    BY <1>2, <2>1 DEF ProductsAnswered
  <2> QED BY <1>1, <1>3, <1>5, <2>2, <2>3, SettleAside
<1>6. ASSUME c.flows[i].kind = "product"
      PROVE  Aside(c, ProductAnswered(c, i))
  <2>1. PICK s : s = ProductLoaded(c.st, body)
    OBVIOUS
  <2>2. Same(c.st, s)
    BY <1>1, <2>1, LoadedSame
  <2>3. ProductAnswered(c, i) = Settle(c, i, "product", s)
    BY <1>2, <2>1 DEF ProductAnswered
  <2> QED BY <1>1, <1>3, <1>6, <2>2, <2>3, SettleAside
<1>7. ASSUME c.flows[i].kind = "addresses"
      PROVE  Aside(c, AddressesAnswered(c, i))
  <2>1. PICK s : s = AddressesLoaded(c.st, body)
    OBVIOUS
  <2>2. Same(c.st, s)
    BY <1>1, <2>1, BookSame
  <2>3. AddressesAnswered(c, i) = Settle(c, i, "addresses", s)
    BY <1>2, <2>1 DEF AddressesAnswered
  <2> QED BY <1>1, <1>3, <1>7, <2>2, <2>3, SettleAside
<1>8. ASSUME c.flows[i].kind = "orders"
      PROVE  Aside(c, OrdersAnswered(c, i))
  <2>1. PICK s : s = OrdersLoaded(c.st, body)
    OBVIOUS
  <2>2. Same(c.st, s)
    BY <1>1, <2>1, LoadedSame
  <2>3. OrdersAnswered(c, i) = Settle(c, i, "orders", s)
    BY <1>2, <2>1 DEF OrdersAnswered
  <2> QED BY <1>1, <1>3, <1>8, <2>2, <2>3, SettleAside
<1>9. ASSUME c.flows[i].kind = "addressDelete"
      PROVE  Aside(c, AddressDeleteAnswered(c, i))
  <2>1. PICK s : s = AddressDeleted(c.st, body)
    OBVIOUS
  <2>2. Same(c.st, s)
    BY <1>1, <2>1, BookSame
  <2>3. AddressDeleteAnswered(c, i) = Settle(c, i, "addressDelete", s)
    BY <1>2, <2>1 DEF AddressDeleteAnswered
  <2> QED BY <1>1, <1>3, <1>9, <2>2, <2>3, SettleAside
<1> QED BY <1>4, <1>5, <1>6, <1>7, <1>8, <1>9

LEMMA CartAnsweredBears ==
  ASSUME NEW c, NEW i, Heard(c, i), c.flows[i].kind = "cart"
  PROVE  Bears(c, CartAnswered(c, i))
<1>1. /\ i \in FlowIds /\ c.flows[i] # None /\ c.flows[i].at = "answered" /\ c.st \in State
      /\ Shape(c) /\ Typed(c)
      /\ c.flows[i].status = "ok" => c.flows[i].body \in BodiesOf(c.flows[i].kind, c.flows[i].arg)
  BY HeardIs DEF Heard
<1>2. PICK body, then : body = c.flows[i].body /\ then = c.flows[i].arg.then
  OBVIOUS
<1>3. Carts(c, i)
  BY <1>1 DEF Carts
<1>4. PICK t : t = CartLoaded(c.st, body)
  OBVIOUS
<1>5. PICK loaded : loaded = IF then = None THEN t ELSE Go(t, then)
  OBVIOUS
<1>6. PICK s : s = IF c.flows[i].status = "ok" THEN loaded ELSE ReqFail(c.st, "cart")
  OBVIOUS
<1>7. PICK e : e = [c EXCEPT !.st = s]
  OBVIOUS
<1>8. PICK d : d = CartAnswered(c, i)
  OBVIOUS
<1>9. d = Finally(e, i, "cart")
  BY <1>2, <1>4, <1>5, <1>6, <1>7, <1>8 DEF CartAnswered, Settle
<1>10. /\ Frames(c, e) /\ e.st = s /\ e.inflight = c.inflight /\ e.stored = c.stored
  BY <1>1, <1>7, StIs
<1>11. Shape(e)
  BY <1>10 DEF Frames
<1>12. /\ Places(e, d, i, None) /\ d.st = e.st /\ d.inflight = e.inflight \ {"cart"}
       /\ d.stored = e.stored
  BY <1>1, <1>9, <1>11, EndIs
<1>13. Places(c, d, i, None)
  BY <1>10, <1>12 DEF Places, Frames
<1>14. CASE c.flows[i].status = "ok"
  <2>1. body \in Lines
    BY <1>1, <1>2, <1>14 DEF BodiesOf
  <2>2. t.cart = body /\ t.buffer = c.st.buffer /\ t \in State
        /\ ("widgetSession" \in t.pending <=> "widgetSession" \in c.st.pending)
    BY <1>1, <1>4, <2>1, CartLoadedIs, LoadedFollows DEF Follows
  <2>3. s.cart = body /\ s.buffer = c.st.buffer
        /\ ("widgetSession" \in s.pending <=> "widgetSession" \in c.st.pending)
    BY <1>5, <1>6, <1>14, <2>2, GoSame DEF Same
  <2>4. Shows(c, body)
    BY <1>1, <1>2, <1>3, <1>14 DEF Shows
  <2> QED BY <1>1, <1>3, <1>8, <1>10, <1>12, <1>13, <2>3, <2>4, CartTurn
<1>15. CASE c.flows[i].status # "ok"
  <2>1. Same(c.st, s)
    BY <1>1, <1>6, <1>15, SettledSame
  <2> QED BY <1>1, <1>3, <1>8, <1>10, <1>12, <1>13, <2>1, CartTurn DEF Same
<1> QED BY <1>14, <1>15

LEMMA RestoreAnsweredBears ==
  ASSUME NEW c, NEW i, Heard(c, i), c.flows[i].kind = "restore", HasRoom(RestoreAnswered(c, i))
  PROVE  Bears(c, RestoreAnswered(c, i))
<1>1. /\ Sound(c) /\ i \in FlowIds /\ c.flows[i] # None /\ c.st \in State
      /\ c.flows[i].status = "ok" => c.flows[i].body \in BodiesOf(c.flows[i].kind, c.flows[i].arg)
      /\ Shape(c) /\ Typed(c)
  BY HeardIs DEF Heard
<1>2. i \in 0..MaxFlows
  BY <1>1, FlowsAssumption DEF FlowIds
<1>3. PICK d : d = RestoreAnswered(c, i)
  OBVIOUS
<1>4. Plain(c.flows[i])
  BY DEF Plain
<1>5. CASE c.flows[i].status = "ok"
  <2>1. PICK s : s = SessionRestored(c.st, c.flows[i].body)
    OBVIOUS
  <2>2. c.flows[i].body \in Shoppers \cup {None}
    BY <1>1, <1>5 DEF BodiesOf
  <2>3. Follows(c.st, s) /\ Same(c.st, s)
    BY <1>1, <2>1, <2>2, UserFollows, UserSame DEF Sets
  <2>4. PICK c1 : c1 = [c EXCEPT !.st = s]
    OBVIOUS
  <2>5. Sound(c1) /\ c1.flows = c.flows /\ Aside(c, c1)
    BY <1>1, <2>3, <2>4, StKeeps, StAside
  <2>6. PICK c2 : c2 = Join(c1, i)
    OBVIOUS
  <2>7. c1.flows[i] # None /\ c1.flows[i].kind \in Joiners \ {"confirm"}
        /\ c1.flows[i].kind # "widgetSession" /\ Plain(c1.flows[i])
    BY <1>1, <1>4, <2>5 DEF Joiners, CallKind
  <2>8. Sound(c2) /\ Aside(c1, c2)
    BY <1>1, <2>5, <2>6, <2>7, JoinKeeps, JoinAside
  <2>9. PICK c3 : c3 = LoadCart(c2, i)
    OBVIOUS
  <2>10. d = LoadAddresses(c3, i)
    BY <1>3, <1>5, <2>1, <2>4, <2>6, <2>9 DEF RestoreAnswered
  <2>11. Asks(c2, c3) /\ Shape(c2) /\ Typed(c2)
    BY <1>2, <2>8, <2>9, LoadsAsk, SoundTyped
  <2>12. Asks(c3, d)
    BY <1>2, <2>10, <2>11, LoadsAsk DEF Asks
  <2>13. HasRoom(d) /\ HasRoom(c3)
    BY <1>3, <2>12 DEF Asks
  <2>14. Bears(c2, c3)
    BY <1>2, <2>9, <2>11, <2>13, LoadCartBears
  <2>15. Aside(c3, d)
    BY <1>2, <2>10, <2>11, <2>13, LoadsAside DEF Asks
  <2>16. Bears(c, c1) /\ Bears(c1, c2) /\ Bears(c3, d)
    BY <2>5, <2>8, <2>15, AsideBears
  <2> QED BY <1>3, <2>14, <2>16, BearsTrans
<1>6. CASE c.flows[i].status # "ok"
  <2>1. PICK e : e = End(c, i)
    OBVIOUS
  <2>2. "restore" \notin {"cart", "widgetSession"}
    OBVIOUS
  <2>3. Aside(c, e)
    BY <1>1, <1>4, <2>1, <2>2, FinallyAside
  <2>4. /\ Places(c, e, i, None) /\ e.st = c.st
    BY <1>1, <2>1, EndIs
  <2>5. Shape(e)
    BY <2>4 DEF Places
  <2>6. CASE c.flows[i].status = "401"
    <3>1. PICK none : none = NoToken
      OBVIOUS
    <3>2. d = [e EXCEPT !.token = none]
      BY <1>3, <1>6, <2>1, <2>6, <3>1 DEF RestoreAnswered
    <3>3. Frames(e, d) /\ d.st = e.st /\ d.inflight = e.inflight /\ d.stored = e.stored
      BY <2>5, <3>2, TokenIs
    <3>4. Same(e.st, d.st)
      BY <3>3 DEF Same
    <3>5. Aside(e, d)
      BY <3>3, <3>4, FrameAside
    <3> QED BY <1>3, <2>3, <3>5, AsideTrans, AsideBears
  <2>7. CASE c.flows[i].status # "401"
    <3>1. PICK s : s = ReqFail(e.st, "session")
      OBVIOUS
    <3>2. Same(e.st, s)
      BY <1>1, <2>4, <3>1, SettledSame
    <3>3. d = [e EXCEPT !.st = s]
      BY <1>3, <1>6, <2>1, <2>7, <3>1 DEF RestoreAnswered
    <3>4. Aside(e, d)
      BY <2>5, <3>2, <3>3, StAside
    <3> QED BY <1>3, <2>3, <3>4, AsideTrans, AsideBears
  <2> QED BY <2>6, <2>7
<1> QED BY <1>5, <1>6

LEMMA AddressSaveAnsweredAside ==
  ASSUME NEW c, NEW i, Heard(c, i), c.flows[i].kind = "addressSave",
         HasRoom(AddressSaveAnswered(c, i))
  PROVE  Aside(c, AddressSaveAnswered(c, i))
<1>1. /\ Sound(c) /\ i \in FlowIds /\ c.flows[i] # None /\ c.st \in State
      /\ c.flows[i].status = "ok" => c.flows[i].body \in BodiesOf(c.flows[i].kind, c.flows[i].arg)
      /\ Shape(c) /\ Typed(c)
  BY HeardIs DEF Heard
<1>2. i \in 0..MaxFlows
  BY <1>1, FlowsAssumption DEF FlowIds
<1>3. PICK d : d = AddressSaveAnswered(c, i)
  OBVIOUS
<1>4. Plain(c.flows[i]) /\ "addressSave" \notin {"cart", "widgetSession"}
  BY DEF Plain
<1>5. CASE c.flows[i].status = "ok"
  <2>1. PICK s : s = AddressSaved(c.st, c.flows[i].body)
    OBVIOUS
  <2>2. c.flows[i].body \in AddressIds
    BY <1>1, <1>5 DEF BodiesOf
  <2>3. Follows(c.st, s) /\ Same(c.st, s)
    BY <1>1, <2>1, <2>2, SavedFollows, BookSame
  <2>4. PICK c1 : c1 = [c EXCEPT !.st = s]
    OBVIOUS
  <2>5. Sound(c1) /\ c1.flows = c.flows /\ Aside(c, c1)
    BY <1>1, <2>3, <2>4, StKeeps, StAside
  <2>6. PICK c2 : c2 = Join(c1, i)
    OBVIOUS
  <2>7. c1.flows[i] # None /\ c1.flows[i].kind \in Joiners \ {"confirm"}
        /\ c1.flows[i].kind # "widgetSession" /\ Plain(c1.flows[i])
    BY <1>1, <1>4, <2>5 DEF Joiners, CallKind
  <2>8. Sound(c2) /\ Aside(c1, c2)
    BY <1>1, <2>5, <2>6, <2>7, JoinKeeps, JoinAside
  <2>9. d = LoadAddresses(c2, i)
    BY <1>3, <1>5, <2>1, <2>4, <2>6 DEF AddressSaveAnswered
  <2>10. Aside(c2, d)
    BY <1>2, <1>3, <2>8, <2>9, LoadsAside, SoundTyped
  <2>11. Aside(c, c2)
    BY <2>5, <2>8, AsideTrans
  <2> QED BY <1>3, <2>10, <2>11, AsideTrans
<1>6. CASE c.flows[i].status = "fields" /\ ~ c.flows[i].arg.dflt
  <2>1. PICK s : s = SetAddrFieldError(c.st)
    OBVIOUS
  <2>2. Follows(c.st, s) /\ Same(c.st, s)
    BY <1>1, <2>1, FormFollows, BookSame DEF Sets
  <2>3. PICK c1 : c1 = [c EXCEPT !.st = s]
    OBVIOUS
  <2>4. Sound(c1) /\ c1.flows = c.flows /\ Aside(c, c1)
    BY <1>1, <2>2, <2>3, StKeeps, StAside
  <2>5. d = Finally(c1, i, "addressSave")
    BY <1>3, <1>6, <2>1, <2>3 DEF AddressSaveAnswered
  <2>6. Shape(c1) /\ Plain(c1.flows[i])
    BY <1>4, <2>4, SoundTyped
  <2>7. Aside(c1, d)
    BY <1>1, <1>4, <2>5, <2>6, FinallyAside
  <2> QED BY <1>3, <2>4, <2>7, AsideTrans
<1>7. CASE c.flows[i].status # "ok" /\ ~ (c.flows[i].status = "fields" /\ ~ c.flows[i].arg.dflt)
  <2>1. PICK s : s = c.st
    OBVIOUS
  <2>2. d = Settle(c, i, "addressSave", s)
    BY <1>3, <1>7, <2>1 DEF AddressSaveAnswered
  <2> QED BY <1>1, <1>3, <1>4, <1>7, <2>2, SettleAside
<1> QED BY <1>5, <1>6, <1>7

LEMMA FinishSignInBears ==
  ASSUME NEW c, Sound(c), NEW i \in FlowIds, SignsIn(c, i), NEW a \in SignIns,
         a.replays = c.flows[i].arg.replays
  PROVE  Bears(c, FinishSignIn(c, i, a))
<1>1. PICK lines : lines = NoLines
  OBVIOUS
<1>2. PICK e : e = IF a.replays THEN SaveBuffer(c, lines) ELSE c
  OBVIOUS
<1>3. PICK told : told = IF a.soldOut THEN ReqFail(e.st, "cart") ELSE e.st
  OBVIOUS
<1>4. PICK s : s = OtpVerified(told, a.user)
  OBVIOUS
<1>5. PICK e1 : e1 = [e EXCEPT !.st = s]
  OBVIOUS
<1>6. PICK d : d = FinishSignIn(c, i, a)
  OBVIOUS
<1>7. d = Finally(e1, i, "widgetSession")
  BY <1>1, <1>2, <1>3, <1>4, <1>5, <1>6 DEF FinishSignIn
<1>8. Shape(c) /\ c.st \in State /\ lines \in Lines
  BY <1>1, SoundTyped, NoLinesIs
<1>9. /\ Frames(c, e) /\ e.st \in State /\ e.inflight = c.inflight
      /\ e.st.cart = c.st.cart
      /\ \/ e.stored = lines /\ e.st.buffer = lines
         \/ ~ a.replays /\ e.stored = c.stored /\ e.st.buffer = c.st.buffer
  <2>1. CASE a.replays
    <3>1. e = SaveBuffer(c, lines)
      BY <1>2, <2>1
    <3>2. /\ Frames(c, e) /\ e.st = SetCartBuffer(c.st, lines) /\ e.inflight = c.inflight
          /\ e.stored = lines
      BY <1>8, <3>1, SaveBufferIs
    <3>3. e.st.cart = c.st.cart /\ e.st.buffer = lines
      BY <1>8, <3>2, SetCartBufferIs
    <3>4. e.st \in State
      BY <1>8, <3>1, SaveBufferKeeps, SoundTyped
    <3> QED BY <3>2, <3>3, <3>4
  <2>2. CASE ~ a.replays
    BY <1>2, <1>8, <2>2 DEF Frames
  <2> QED BY <2>1, <2>2
<1>10. told \in State /\ Same(e.st, told)
  <2>1. CASE a.soldOut
    <3>1. "cart" \in PlainKey
      BY DEF PlainKey, RequestKey
    <3> QED BY <1>3, <1>9, <2>1, <3>1, SettledSame, ReqFailFollows DEF Follows
  <2>2. CASE ~ a.soldOut
    BY <1>3, <1>9, <2>2 DEF Same
  <2> QED BY <2>1, <2>2
<1>11. Same(e.st, s)
  <2>1. Same(told, s)
    BY <1>4, <1>10, UserSame
  <2> QED BY <1>10, <2>1, SameTrans
<1>12. Shape(e)
  BY <1>9 DEF Frames
<1>13. /\ Frames(e, e1) /\ e1.st = s /\ e1.inflight = e.inflight /\ e1.stored = e.stored
  BY <1>5, <1>12, StIs
<1>14. Shape(e1)
  BY <1>13 DEF Frames
<1>15. /\ Places(e1, d, i, None) /\ d.st = e1.st /\ d.inflight = e1.inflight \ {"widgetSession"}
       /\ d.stored = e1.stored
  BY <1>7, <1>14, EndIs
<1>16. Places(c, d, i, None)
  BY <1>9, <1>13, <1>15 DEF Places, Frames
<1>17. d.st.cart \in {None, c.st.cart}
  BY <1>9, <1>11, <1>13, <1>15 DEF Same
<1>18. \/ d.stored = c.stored /\ d.st.buffer = c.st.buffer
       \/ d.stored = NoLines /\ d.st.buffer = NoLines
  BY <1>1, <1>9, <1>11, <1>13, <1>15 DEF Same
<1>19. "cart" \in d.inflight <=> "cart" \in c.inflight
  BY <1>9, <1>13, <1>15
<1>20. c.flows[i].arg.step = "replay" /\ c.flows[i].arg.replays => d.st.buffer = NoLines
  BY <1>1, <1>9, <1>11, <1>13, <1>15 DEF Same
<1>21. PICK f : f = None
  OBVIOUS
<1>22. Places(c, d, i, f)
  BY <1>16, <1>21
<1>23. Bears(c, d)
  BY <1>17, <1>18, <1>19, <1>20, <1>21, <1>22, SignInTurn
<1> QED BY <1>6, <1>23

LEMMA ReplayBears ==
  ASSUME NEW c, Sound(c), NEW i \in FlowIds, SignsIn(c, i), NEW arg \in SignIns,
         arg.step = "replay", arg.left = Left(c.flows[i]),
         arg.replays = c.flows[i].arg.replays,
         IsEmpty(c.flows[i].arg.left) => IsEmpty(arg.left)
  PROVE  Bears(c, Replay(c, i, arg))
<1>1. CASE IsEmpty(arg.left)
  BY <1>1, FinishSignInBears DEF Replay
<1>2. CASE ~ IsEmpty(arg.left)
  <2>1. PICK d : d = AskAgain(c, i, arg)
    OBVIOUS
  <2>2. d = Replay(c, i, arg)
    BY <1>2, <2>1 DEF Replay
  <2>3. Shape(c) /\ c.flows[i] # None /\ c.flows[i].kind = "widgetSession"
    BY SoundTyped DEF SignsIn
  <2>4. PICK f : f = Flow(c, c.flows[i].kind, arg, c.flows[i].of)
    OBVIOUS
  <2>5. /\ Places(c, d, i, f) /\ d.st = c.st /\ d.inflight = c.inflight /\ d.stored = c.stored
    BY <2>1, <2>3, <2>4, AskAgainIs
  <2>6. f.kind = "widgetSession" /\ f.at = "asked" /\ f.arg = arg
    BY <2>3, <2>4 DEF Flow
  <2>7. f # None
    <3>1. MayAsk("widgetSession", arg)
      BY <1>2 DEF MayAsk, ArgsOf, Kind, RequestKey, CallKind
    <3>2. PICK of : of = c.flows[i].of
      OBVIOUS
    <3>3. of \in 0..MaxFlows /\ c.token \in Tokens \cup {NoToken}
      BY <2>3, <3>2, GoodCallIs, SoundTyped DEF Typed
    <3>4. f = Flow(c, "widgetSession", arg, of)
      BY <2>3, <2>4, <3>2
    <3> QED BY <3>1, <3>3, <3>4, GoodFlow
  <2>8. d.st.cart \in {None, c.st.cart}
    BY <2>5
  <2>9. d.stored = c.stored /\ d.st.buffer = c.st.buffer
    BY <2>5
  <2>10. /\ f.kind = "widgetSession" /\ f.at # "answered" /\ f.arg.step = "replay"
         /\ f.arg.left = Left(c.flows[i]) /\ f.arg.replays = c.flows[i].arg.replays
         /\ IsEmpty(c.flows[i].arg.left) => IsEmpty(f.arg.left)
         /\ "widgetSession" \in c.inflight => "widgetSession" \in d.inflight
         /\ "widgetSession" \in c.st.pending => "widgetSession" \in d.st.pending
    BY <2>5, <2>6
  <2>11. "cart" \in d.inflight <=> "cart" \in c.inflight
    BY <2>5
  <2>12. Bears(c, d)
    BY <2>5, <2>7, <2>8, <2>9, <2>10, <2>11, SignInTurn
  <2> QED BY <2>2, <2>12
<1> QED BY <1>1, <1>2

LEMMA ReplayAnsweredBears ==
  ASSUME NEW c, NEW i, Heard(c, i), c.flows[i].kind = "widgetSession",
         c.flows[i].arg.step = "replay"
  PROVE  Bears(c, ReplayAnswered(c, i))
<1>1. /\ Sound(c) /\ i \in FlowIds /\ c.flows[i] # None /\ c.st \in State
      /\ c.flows[i].at = "answered" /\ Shape(c)
      /\ c.flows[i].status = "ok" => c.flows[i].body \in BodiesOf(c.flows[i].kind, c.flows[i].arg)
      /\ c.flows[i].arg \in ArgsOf(c.flows[i].kind) /\ ~ IsEmpty(c.flows[i].arg.left)
  BY HeardIs DEF Heard
<1>2. PICK f : f = c.flows[i]
  OBVIOUS
<1>3. f.arg \in SignIns /\ f.arg.step = "replay"
  BY <1>1, <1>2 DEF ArgsOf
<1>4. PICK p : p = NextItem(f.arg.left)
  OBVIOUS
<1>5. PICK left : left = [f.arg.left EXCEPT ![p] = 0]
  OBVIOUS
<1>6. left \in Lines
  <2>1. PICK l : l = f.arg.left
    OBVIOUS
  <2>2. l \in Lines
    BY <1>3, <2>1 DEF SignIns
  <2>3. left = [l EXCEPT ![p] = 0]
    BY <1>5, <2>1
  <2>4. 0 \in 0..MaxQty
    BY ShopAssumption
  <2> QED BY <2>2, <2>3, <2>4 DEF Lines
<1>7. PICK out \in BOOLEAN : out = (f.arg.soldOut \/ f.status = "409")
  OBVIOUS
<1>8. PICK a1 : a1 = [f.arg EXCEPT !.left = left]
  OBVIOUS
<1>9. /\ a1 \in SignIns /\ a1.step = "replay" /\ a1.soldOut = f.arg.soldOut /\ a1.left = left
      /\ a1.replays = f.arg.replays
  BY <1>3, <1>6, <1>8 DEF SignIns
<1>10. PICK arg : arg = [a1 EXCEPT !.soldOut = out]
  OBVIOUS
<1>11. /\ arg \in SignIns /\ arg.step = "replay" /\ arg.left = left
       /\ arg.replays = f.arg.replays
  BY <1>9, <1>10 DEF SignIns
<1>12. arg = [f.arg EXCEPT !.left[NextItem(f.arg.left)] = 0, !.soldOut = @ \/ f.status = "409"]
  BY <1>3, <1>4, <1>5, <1>7, <1>8, <1>9, <1>10
<1>13. left = Left(f)
  BY <1>1, <1>2, <1>3, <1>4, <1>5 DEF Left
<1>14. SignsIn(c, i)
  BY <1>1 DEF SignsIn
<1>15. PICK s : s = CartLoaded(c.st, f.body)
  OBVIOUS
<1>16. PICK heard : heard = IF f.status = "ok" THEN [c EXCEPT !.st = s] ELSE c
  OBVIOUS
<1>17. ReplayAnswered(c, i) = Replay(heard, i, arg)
  BY <1>2, <1>12, <1>15, <1>16 DEF ReplayAnswered
<1>18. Sound(heard) /\ heard.flows = c.flows /\ Bears(c, heard)
  <2>1. CASE f.status = "ok"
    <3>1. f.body \in Lines
      BY <1>1, <1>2, <1>3, <2>1 DEF BodiesOf
    <3>2. Follows(c.st, s)
      BY <1>1, <1>15, <3>1, LoadedFollows
    <3>3. s.cart = f.body /\ s.buffer = c.st.buffer
          /\ ("widgetSession" \in s.pending <=> "widgetSession" \in c.st.pending)
      BY <1>1, <1>15, CartLoadedIs
    <3>4. heard = [c EXCEPT !.st = s]
      BY <1>16, <2>1
    <3>5. /\ Sound(heard) /\ heard.flows = c.flows /\ heard.st = s
          /\ heard.inflight = c.inflight /\ heard.stored = c.stored /\ heard.shown = c.shown
          /\ heard.widget = c.widget
      BY <1>1, <3>2, <3>4, StKeeps
    <3>6. Shows(c, f.body)
      BY <1>1, <1>2, <1>3, <1>14, <2>1 DEF Shows
    <3>7. \A j \in FlowIds :
            (Carts(heard, j) <=> Carts(c, j)) /\ (SignsIn(heard, j) <=> SignsIn(c, j))
      BY <3>5 DEF Carts, SignsIn
    <3>8. \A t : Selects(heard, t) => Selects(c, t)
      BY <3>3, <3>5, <3>7 DEF Selects, Replays
    <3>9. \A x : Shows(heard, x) => Shows(c, x)
      <4>1. ASSUME NEW x, Shows(heard, x)
            PROVE  Shows(c, x)
        <5>1. CASE x = f.body
          BY <3>6, <5>1
        <5>2. CASE x # f.body
          BY <3>3, <3>5, <3>7, <4>1, <5>2 DEF Shows
        <5> QED BY <5>1, <5>2
      <4> QED BY <4>1
    <3>10. \A a : Sends(heard, a) => Sends(c, a)
      BY <3>5, <3>7 DEF Sends
    <3>11. Fine(c) => Fine(heard)
      BY <3>3, <3>5, <3>7 DEF Fine, Once, Awaits
    <3> QED BY <3>5, <3>8, <3>9, <3>10, <3>11 DEF Bears, Less
  <2>2. CASE f.status # "ok"
    BY <1>1, <1>16, <2>2, AsideSame
  <2> QED BY <2>1, <2>2
<1>19. SignsIn(heard, i) /\ heard.flows[i] = f
  BY <1>2, <1>14, <1>18 DEF SignsIn
<1>20. ~ IsEmpty(heard.flows[i].arg.left)
  BY <1>1, <1>2, <1>19
<1>21. arg.left = Left(heard.flows[i]) /\ arg.replays = heard.flows[i].arg.replays
  BY <1>11, <1>13, <1>19
<1>22. PICK d : d = Replay(heard, i, arg)
  OBVIOUS
<1>23. Bears(heard, d)
  BY <1>1, <1>11, <1>18, <1>19, <1>20, <1>21, <1>22, ReplayBears
<1> QED BY <1>17, <1>18, <1>22, <1>23, BearsTrans

LEMMA ExchangeAnsweredBears ==
  ASSUME NEW c, NEW i, Heard(c, i), c.flows[i].kind = "widgetSession",
         c.flows[i].arg.step = "exchange", HasRoom(ExchangeAnswered(c, i))
  PROVE  Bears(c, ExchangeAnswered(c, i))
<1>1. /\ Sound(c) /\ i \in FlowIds /\ c.flows[i] # None /\ c.st \in State
      /\ c.flows[i].status = "ok" => c.flows[i].body \in BodiesOf(c.flows[i].kind, c.flows[i].arg)
      /\ Shape(c) /\ Typed(c) /\ GoodCall(c.flows[i])
  BY HeardIs DEF Heard
<1>2. i \in 0..MaxFlows /\ SignsIn(c, i)
  BY <1>1, FlowsAssumption DEF FlowIds, SignsIn
<1>3. PICK d : d = ExchangeAnswered(c, i)
  OBVIOUS
<1>4. PICK f : f = c.flows[i]
  OBVIOUS
<1>5. CASE f.status # "ok"
  <2>1. PICK s : s = ReqFail(c.st, "widgetSession")
    OBVIOUS
  <2>2. PICK e : e = [c EXCEPT !.st = s]
    OBVIOUS
  <2>3. d = Finally(e, i, "widgetSession")
    BY <1>3, <1>4, <1>5, <2>1, <2>2 DEF ExchangeAnswered, Settle
  <2>4. s.cart = c.st.cart /\ s.buffer = c.st.buffer
    BY <1>1, <2>1, SignInFlag
  <2>5. /\ Frames(c, e) /\ e.st = s /\ e.inflight = c.inflight /\ e.stored = c.stored
    BY <1>1, <2>2, StIs
  <2>6. Shape(e)
    BY <2>5 DEF Frames
  <2>7. /\ Places(e, d, i, None) /\ d.st = e.st /\ d.inflight = e.inflight \ {"widgetSession"}
        /\ d.stored = e.stored
    BY <1>1, <2>3, <2>6, EndIs
  <2>8. PICK g : g = None
    OBVIOUS
  <2>9. Places(c, d, i, g)
    BY <2>5, <2>7, <2>8 DEF Places, Frames
  <2>10. d.st.cart \in {None, c.st.cart}
    BY <2>4, <2>5, <2>7
  <2>11. d.stored = c.stored /\ d.st.buffer = c.st.buffer
    BY <2>4, <2>5, <2>7
  <2>12. "cart" \in d.inflight <=> "cart" \in c.inflight
    BY <2>5, <2>7
  <2>13. c.flows[i].arg.step # "replay"
    OBVIOUS
  <2>14. Bears(c, d)
    BY <1>1, <1>2, <2>8, <2>9, <2>10, <2>11, <2>12, <2>13, SignInTurn
  <2> QED BY <1>3, <2>14
<1>6. CASE f.status = "ok"
  <2>1. PICK tok, user : tok = f.body.token /\ user = f.body.user
    OBVIOUS
  <2>2. tok \in Tokens \cup {NoToken} /\ user \in Shoppers \cup {None}
    BY <1>1, <1>4, <1>6, <2>1 DEF BodiesOf, Sessions
  <2>3. PICK arg1 : arg1 = [f.arg EXCEPT !.step = "replay"]
    OBVIOUS
  <2>4. PICK arg2 : arg2 = [arg1 EXCEPT !.user = user]
    OBVIOUS
  <2>5. f.arg \in SignIns
    BY <1>1, <1>4, HeardIs DEF ArgsOf
  <2>6. /\ arg2 \in SignIns /\ arg2.step = "replay" /\ arg2.left = f.arg.left
        /\ arg2.replays = f.arg.replays
    BY <2>2, <2>3, <2>4, <2>5 DEF SignIns
  <2>7. f = [kind |-> f.kind, at |-> f.at, tok |-> f.tok, arg |-> f.arg, of |-> f.of,
             status |-> f.status, body |-> f.body]
        /\ f \in CallsOf(f.kind, f.arg, f.body)
    BY <1>1, <1>4, GoodCallIs DEF GoodCall, CallKind
  <2>8. PICK f1 : f1 = [f EXCEPT !.arg = arg1]
    OBVIOUS
  <2>9. PICK f2 : f2 = [f1 EXCEPT !.arg = arg2]
    OBVIOUS
  <2>10. /\ f2 = [kind |-> f2.kind, at |-> f2.at, tok |-> f2.tok, arg |-> f2.arg, of |-> f2.of,
                  status |-> f2.status, body |-> f2.body]
         /\ f2.kind = f.kind /\ f2.arg = arg2 /\ f2.at = f.at /\ f2.tok = f.tok /\ f2.of = f.of
         /\ f2.status = f.status /\ f2.body = f.body /\ f1.arg = arg1
    BY <2>7, <2>8, <2>9
  <2>11. f2 \in CallsOf(f2.kind, f2.arg, f2.body)
    BY <2>7, <2>10 DEF CallsOf
  <2>12. PICK c1 : c1 = [c EXCEPT !.token = tok]
    OBVIOUS
  <2>13. /\ Frames(c, c1) /\ c1.st = c.st /\ c1.inflight = c.inflight /\ c1.token = tok
         /\ c1.stored = c.stored
    BY <1>1, <2>12, TokenIs
  <2>14. Shape(c1) /\ c1.flows[i] = f
    BY <1>4, <2>13 DEF Frames
  <2>15. PICK c2 : c2 = [c1 EXCEPT !.flows[i] = f1]
    OBVIOUS
  <2>16. /\ Places(c1, c2, i, f1) /\ c2.st = c1.st /\ c2.inflight = c1.inflight
         /\ c2.token = c1.token /\ c2.stored = c1.stored
    BY <2>14, <2>15, SlotIs
  <2>17. Shape(c2) /\ c2.flows[i] = f1
    BY <1>1, <2>16 DEF Places
  <2>18. PICK c3 : c3 = [c2 EXCEPT !.flows[i] = f2]
    OBVIOUS
  <2>19. /\ Places(c2, c3, i, f2) /\ c3.st = c2.st /\ c3.inflight = c2.inflight
         /\ c3.token = c2.token /\ c3.stored = c2.stored
    BY <2>17, <2>18, SlotIs
  <2>20. Shape(c3) /\ c3.flows[i] = f2
    BY <1>1, <2>19 DEF Places
  <2>21. c2 = [c1 EXCEPT !.flows[i].arg.step = "replay"]
    BY <2>3, <2>8, <2>14, <2>15
  <2>22. c3 = [c2 EXCEPT !.flows[i].arg.user = user]
    BY <2>4, <2>9, <2>10, <2>17, <2>18
  <2>23. c3 = [c EXCEPT !.token = f.body.token,
                        !.flows[i].arg.step = "replay", !.flows[i].arg.user = f.body.user]
    BY <2>1, <2>12, <2>21, <2>22
  <2>24. PICK c4 : c4 = Join(c3, i)
    OBVIOUS
  <2>25. PICK g : g = Joining(f2)
    OBVIOUS
  <2>26. /\ Places(c3, c4, i, g) /\ c4.st = c3.st /\ c4.inflight = c3.inflight
         /\ c4.token = c3.token /\ c4.stored = c3.stored
    BY <1>1, <2>10, <2>20, <2>24, <2>25, JoinIs
  <2>27. Places(c, c4, i, g)
    BY <2>13, <2>16, <2>19, <2>26 DEF Places, Frames
  <2>28. f2.kind \in Joiners /\ f2.arg \in ArgsOf(f2.kind) /\ f2.kind = "widgetSession"
         /\ (f2.kind = "widgetSession" => f2.arg.step = "replay")
    BY <1>4, <2>6, <2>10 DEF Joiners, ArgsOf, CallKind
  <2>29. GoodCall(g) /\ g # None /\ g.kind = "widgetSession" /\ g.at = "joining" /\ g.arg = arg2
    BY <2>10, <2>11, <2>25, <2>28, GoodJoining
  <2>30. Typed(c4) /\ Shape(c4)
    BY <1>1, <2>2, <2>13, <2>16, <2>19, <2>26 DEF Typed, Places
  <2>31. c4.st = c.st /\ c4.inflight = c.inflight /\ c4.stored = c.stored
    BY <2>13, <2>16, <2>19, <2>26
  <2>32. f.arg.left = Left(f)
    BY <1>4 DEF Left
  <2>33. /\ g.kind = "widgetSession" /\ g.at # "answered" /\ g.arg.step = "replay"
         /\ g.arg.left = Left(c.flows[i]) /\ g.arg.replays = c.flows[i].arg.replays
         /\ IsEmpty(c.flows[i].arg.left) => IsEmpty(g.arg.left)
         /\ "widgetSession" \in c.inflight => "widgetSession" \in c4.inflight
         /\ "widgetSession" \in c.st.pending => "widgetSession" \in c4.st.pending
    BY <1>4, <2>6, <2>29, <2>31, <2>32
  <2>34. c4.st.cart \in {None, c.st.cart}
    BY <2>31
  <2>35. c4.stored = c.stored /\ c4.st.buffer = c.st.buffer
    BY <2>31
  <2>36. "cart" \in c4.inflight <=> "cart" \in c.inflight
    BY <2>31
  <2>37. Bears(c, c4)
    BY <1>1, <1>2, <2>27, <2>29, <2>33, <2>34, <2>35, <2>36, SignInTurn
  <2>38. PICK c5 : c5 = LoadCart(c4, i)
    OBVIOUS
  <2>39. d = LoadAddresses(c5, i)
    BY <1>3, <1>4, <1>6, <2>23, <2>24, <2>38 DEF ExchangeAnswered
  <2>40. Asks(c4, c5)
    BY <1>2, <2>30, <2>38, LoadsAsk
  <2>41. Asks(c5, d)
    BY <1>2, <2>39, <2>40, LoadsAsk DEF Asks
  <2>42. HasRoom(d) /\ HasRoom(c5)
    BY <1>3, <2>41 DEF Asks
  <2>43. Bears(c4, c5)
    BY <1>2, <2>30, <2>38, <2>42, LoadCartBears
  <2>44. Aside(c5, d)
    BY <1>2, <2>39, <2>40, <2>42, LoadsAside DEF Asks
  <2>45. Bears(c5, d)
    BY <2>44, AsideBears
  <2> QED BY <1>3, <2>37, <2>43, <2>45, BearsTrans
<1> QED BY <1>5, <1>6

\* The answers of a checkout and of a payment.
LEMMA CheckoutRefusedAside ==
  ASSUME NEW c, NEW i, Heard(c, i), c.flows[i].kind = "checkout", c.flows[i].status # "ok",
         HasRoom(CheckoutRefused(c, i))
  PROVE  Aside(c, CheckoutRefused(c, i))
<1>1. /\ Sound(c) /\ i \in FlowIds /\ c.flows[i] # None /\ c.st \in State
      /\ Shape(c) /\ Typed(c)
  BY HeardIs DEF Heard
<1>2. i \in 0..MaxFlows
  BY <1>1, FlowsAssumption DEF FlowIds
<1>3. PICK d : d = CheckoutRefused(c, i)
  OBVIOUS
<1>4. PICK s : s = c.st
  OBVIOUS
<1>5. ASSUME NEW screen \in Screen, NEW e, e = [c EXCEPT !.st = Go(@, screen)]
      PROVE  Sound(e) /\ Aside(c, e) /\ e.flows = c.flows
  <2>1. PICK t : t = Go(c.st, screen)
    OBVIOUS
  <2>2. Follows(c.st, t) /\ Same(c.st, t)
    BY <1>1, <2>1, GoFollows, GoSame
  <2>3. e = [c EXCEPT !.st = t]
    BY <1>5, <2>1
  <2> QED BY <1>1, <2>2, <2>3, StKeeps, StAside
<1>6. "shop" \in Screen /\ "cart" \in Screen
  BY DEF Screen
<1>7. PICK e : e = [c EXCEPT !.st = Go(@, "shop")]
  OBVIOUS
<1>8. PICK e2 : e2 = [c EXCEPT !.st = Go(@, "cart")]
  OBVIOUS
<1>9. /\ Sound(e) /\ Aside(c, e) /\ e.flows = c.flows
      /\ Sound(e2) /\ Aside(c, e2) /\ e2.flows = c.flows
  BY <1>5, <1>6, <1>7, <1>8
<1>10. Plain(c.flows[i]) /\ Plain(e.flows[i]) /\ Plain(e2.flows[i])
  BY <1>9 DEF Plain
<1>11. /\ Shape(e) /\ Typed(e) /\ Shape(e2) /\ Typed(e2) /\ "checkout" \notin {"cart", "widgetSession"}
  BY <1>9, SoundTyped
<1>12. PICK status : status = c.flows[i].status
  OBVIOUS
<1>13. CASE status = "empty"
  <2>1. d = Settle(e, i, "checkout", s)
    BY <1>3, <1>4, <1>7, <1>12, <1>13 DEF CheckoutRefused
  <2>2. e.flows[i].status # "ok"
    BY <1>9
  <2>3. Aside(e, d)
    BY <1>1, <1>10, <1>11, <2>1, <2>2, SettleAside
  <2> QED BY <1>3, <1>9, <2>3, AsideTrans
<1>14. CASE status = "fields"
  <2>1. d = Settle(e2, i, "checkout", s)
    BY <1>3, <1>4, <1>8, <1>12, <1>14 DEF CheckoutRefused
  <2>2. e2.flows[i].status # "ok"
    BY <1>9
  <2>3. Aside(e2, d)
    BY <1>1, <1>10, <1>11, <2>1, <2>2, SettleAside
  <2> QED BY <1>3, <1>9, <2>3, AsideTrans
<1>15. CASE status = "404"
  <2>1. PICK e3 : e3 = Join(e2, i)
    OBVIOUS
  <2>2. d = LoadAddresses(e3, i)
    BY <1>3, <1>8, <1>12, <1>15, <2>1 DEF CheckoutRefused
  <2>3. e2.flows[i] # None /\ e2.flows[i].kind \in Joiners \ {"confirm"}
        /\ e2.flows[i].kind # "widgetSession"
    BY <1>1, <1>9 DEF Joiners, CallKind
  <2>4. Sound(e3) /\ Aside(e2, e3)
    BY <1>1, <1>9, <1>10, <2>1, <2>3, JoinKeeps, JoinAside
  <2>5. Aside(e3, d)
    BY <1>2, <1>3, <2>2, <2>4, LoadsAside, SoundTyped
  <2> QED BY <1>3, <1>9, <2>4, <2>5, AsideTrans
<1>16. CASE status \notin {"empty", "fields", "404"}
  <2>1. d = Settle(c, i, "checkout", s)
    BY <1>3, <1>4, <1>12, <1>16 DEF CheckoutRefused
  <2>2. Aside(c, d)
    BY <1>1, <1>10, <1>11, <2>1, SettleAside
  <2> QED BY <1>3, <2>2
<1> QED BY <1>13, <1>14, <1>15, <1>16

LEMMA OpenSheetAside ==
  ASSUME NEW c, NEW i, Heard(c, i), c.flows[i].kind = "checkout"
  PROVE  Aside(c, OpenSheet(c, i)) /\ Aside(c, SheetBlocked(c, i))
<1>1. i \in FlowIds /\ c.st \in State /\ Shape(c) /\ Typed(c)
  BY HeardIs DEF Heard
<1>2. PICK o : o = c.flows[i].body
  OBVIOUS
<1>3. Plain(c.flows[i]) /\ "checkout" \notin {"cart", "widgetSession"}
  BY DEF Plain
<1>4. PICK t : t = CheckoutOpened(c.st, o)
  OBVIOUS
<1>5. Same(c.st, t)
  BY <1>1, <1>4, LoadedSame
<1>6. Aside(c, SheetBlocked(c, i))
  <2>1. PICK s : s = ReqFail(t, "checkout")
    OBVIOUS
  <2>2. Same(c.st, s)
    BY <1>1, <1>4, <2>1 DEF Same, State, CheckoutOpened, ReqFail, Settled
  <2>3. PICK e : e = [c EXCEPT !.st = s]
    OBVIOUS
  <2>4. Frames(c, e)
    BY <1>1, <2>3, StIs
  <2>5. Aside(c, e) /\ Shape(e) /\ Plain(e.flows[i])
    BY <1>1, <1>3, <2>2, <2>3, <2>4, StAside DEF Frames
  <2>6. PICK d : d = SheetBlocked(c, i)
    OBVIOUS
  <2>7. d = Finally(e, i, "checkout")
    BY <1>2, <1>4, <2>1, <2>3, <2>6 DEF SheetBlocked
  <2>8. Aside(e, d)
    BY <1>1, <1>3, <2>5, <2>7, FinallyAside
  <2> QED BY <2>5, <2>6, <2>8, AsideTrans
<1>7. Aside(c, OpenSheet(c, i))
  <2>1. PICK s, keys : s = ReqStart(t, "payment") /\ keys = c.inflight \cup {"payment"}
    OBVIOUS
  <2>2. Same(c.st, s)
    BY <1>1, <1>4, <2>1 DEF Same, State, CheckoutOpened, ReqStart, Settled
  <2>3. PICK no \in BOOLEAN : no = FALSE
    OBVIOUS
  <2>4. PICK sheet : sheet = [order |-> o, settled |-> no]
    OBVIOUS
  <2>5. PICK e : e = [c EXCEPT !.st = s, !.inflight = keys, !.sheet = sheet]
    OBVIOUS
  <2>6. e = [st |-> s, shown |-> c.shown, inflight |-> keys, token |-> c.token,
             stored |-> c.stored, flows |-> c.flows, widget |-> c.widget, sheet |-> sheet]
    BY <1>1, <2>5 DEF Shape
  <2>7. Shape(e)
    BY <1>1, <2>6 DEF Shape
  <2>8. \A key \in {"cart", "widgetSession"} : key \in e.inflight <=> key \in c.inflight
    BY <2>1, <2>6
  <2>9. Aside(c, e) /\ Plain(e.flows[i])
    BY <1>3, <2>2, <2>6, <2>8 DEF Aside
  <2>10. PICK d : d = OpenSheet(c, i)
    OBVIOUS
  <2>11. d = Finally(e, i, "checkout")
    BY <1>2, <1>4, <2>1, <2>3, <2>4, <2>5, <2>10 DEF OpenSheet
  <2>12. Aside(e, d)
    BY <1>1, <1>3, <2>7, <2>9, <2>11, FinallyAside
  <2> QED BY <2>9, <2>10, <2>12, AsideTrans
<1> QED BY <1>6, <1>7

LEMMA ConfirmedBears ==
  ASSUME NEW c, NEW i, Heard(c, i), c.flows[i].kind = "confirm", NEW order \in Order,
         HasRoom(Confirmed(c, i, order))
  PROVE  Bears(c, Confirmed(c, i, order))
<1>1. /\ i \in FlowIds /\ c.flows[i] # None /\ c.st \in State
      /\ Shape(c) /\ Typed(c) /\ GoodCall(c.flows[i])
  BY HeardIs DEF Heard
<1>2. i \in 0..MaxFlows
  BY <1>1, FlowsAssumption DEF FlowIds
<1>3. PICK d : d = Confirmed(c, i, order)
  OBVIOUS
<1>4. PICK s, keys : s = PaymentConfirmed(c.st, order) /\ keys = c.inflight \ {"payment"}
  OBVIOUS
<1>5. s \in State /\ Same(c.st, s)
  BY <1>1, <1>4, PaymentConfirmedIs, LoadedSame
<1>6. PICK e : e = [c EXCEPT !.st = s, !.inflight = keys]
  OBVIOUS
<1>7. e = [st |-> s, shown |-> c.shown, inflight |-> keys, token |-> c.token,
           stored |-> c.stored, flows |-> c.flows, widget |-> c.widget, sheet |-> c.sheet]
  BY <1>1, <1>6 DEF Shape
<1>8. Shape(e)
  BY <1>1, <1>7 DEF Shape
<1>9. PICK f : f = c.flows[i]
  OBVIOUS
<1>10. /\ f = [kind |-> f.kind, at |-> f.at, tok |-> f.tok, arg |-> f.arg, of |-> f.of,
               status |-> f.status, body |-> f.body]
       /\ f = e.flows[i]
  BY <1>1, <1>7, <1>9, GoodCallIs
<1>11. PICK g : g = Joining(f)
  OBVIOUS
<1>12. PICK e1 : e1 = Join(e, i)
  OBVIOUS
<1>13. /\ Places(e, e1, i, g) /\ e1.st = e.st /\ e1.inflight = e.inflight
       /\ e1.token = e.token /\ e1.stored = e.stored
  BY <1>1, <1>8, <1>10, <1>11, <1>12, JoinIs
<1>14. Places(c, e1, i, g)
  BY <1>7, <1>13 DEF Places
<1>15. /\ e1.st = s /\ e1.inflight = keys /\ e1.token = c.token /\ e1.stored = c.stored
       /\ Shape(e1)
  BY <1>7, <1>13 DEF Places
<1>16. g.kind = "confirm"
  BY <1>9, <1>11 DEF Joining
<1>17. Plain(c.flows[i]) /\ Plain(g)
  BY <1>16 DEF Plain
<1>18. \A key \in {"cart", "widgetSession"} : key \in e1.inflight <=> key \in c.inflight
  BY <1>4, <1>15
<1>19. Aside(c, e1)
  BY <1>1, <1>5, <1>14, <1>15, <1>17, <1>18, PlaceAside
<1>20. Typed(e1)
  BY <1>1, <1>4, <1>5, <1>15 DEF Typed
<1>21. d = LoadCart(e1, i)
  BY <1>3, <1>4, <1>6, <1>12 DEF Confirmed
<1>22. Bears(e1, d)
  BY <1>2, <1>3, <1>15, <1>20, <1>21, LoadCartBears
<1> QED BY <1>3, <1>19, <1>22, AsideBears, BearsTrans

LEMMA ConfirmAnsweredBears ==
  ASSUME NEW c, NEW i, Heard(c, i), c.flows[i].kind = "confirm", HasRoom(ConfirmAnswered(c, i))
  PROVE  Bears(c, ConfirmAnswered(c, i))
<1>1. /\ i \in FlowIds /\ Shape(c) /\ c.flows[i].arg \in ArgsOf(c.flows[i].kind)
      /\ c.flows[i].status = "ok" => c.flows[i].body \in BodiesOf(c.flows[i].kind, c.flows[i].arg)
  BY HeardIs DEF Heard
<1>2. PICK d : d = ConfirmAnswered(c, i)
  OBVIOUS
<1>3. PICK f : f = c.flows[i]
  OBVIOUS
<1>4. f.arg \in Tries
  BY <1>1, <1>3 DEF ArgsOf
<1>5. PICK try : try = f.arg.try
  OBVIOUS
<1>6. try \in 1..5 /\ f.arg.order \in OrderIds
  BY <1>4, <1>5 DEF Tries
<1>7. CASE f.status = "ok" /\ (try <= 2 \/ f.body.status = "placed")
  <2>1. PICK order : order = f.body
    OBVIOUS
  <2>2. order \in Order
    BY <1>1, <1>3, <1>7, <2>1 DEF BodiesOf
  <2>3. d = Confirmed(c, i, order)
    BY <1>2, <1>3, <1>5, <1>7, <2>1 DEF ConfirmAnswered
  <2> QED BY <1>2, <2>2, <2>3, ConfirmedBears
<1>8. CASE ~ (f.status = "ok" /\ (try <= 2 \/ f.body.status = "placed")) /\ ~ (try < 5)
  <2>1. PICK order : order = [id |-> f.arg.order, status |-> "pending"]
    OBVIOUS
  <2>2. order \in Order
    BY <1>6, <2>1 DEF Order, OrderStatus
  <2>3. d = Confirmed(c, i, order)
    BY <1>2, <1>3, <1>5, <1>8, <2>1 DEF ConfirmAnswered
  <2> QED BY <1>2, <2>2, <2>3, ConfirmedBears
<1>9. CASE ~ (f.status = "ok" /\ (try <= 2 \/ f.body.status = "placed")) /\ try < 5
  <2>1. PICK arg : arg = [f.arg EXCEPT !.try = try + 1]
    OBVIOUS
  <2>2. PICK g : g = [Flow(c, "confirm", arg, 0) EXCEPT !.at = "resting"]
    OBVIOUS
  <2>3. g.kind = "confirm"
    BY <2>2 DEF Flow
  <2>4. d = [c EXCEPT !.flows[i] = g]
    BY <1>2, <1>3, <1>5, <1>9, <2>1, <2>2 DEF ConfirmAnswered
  <2>5. Places(c, d, i, g) /\ d.st = c.st /\ d.inflight = c.inflight /\ d.stored = c.stored
    BY <1>1, <2>4, SlotIs
  <2>6. Plain(c.flows[i]) /\ Plain(g) /\ Same(c.st, d.st)
    BY <2>3, <2>5 DEF Plain, Same
  <2>7. Aside(c, d)
    BY <1>1, <2>5, <2>6, PlaceAside
  <2> QED BY <1>2, <2>7, AsideBears
<1> QED BY <1>7, <1>8, <1>9

LEMMA AnsweredBears ==
  ASSUME NEW d, NEW i, Heard(d, i), NEW e \in Answered(d, i), HasRoom(e)
  PROVE  Bears(d, e)
<1>1. PICK c : c = Unauthorized(d, i)
  OBVIOUS
<1>2. Sound(d)
  BY DEF Heard
<1>3. Heard(c, i) /\ Bears(d, c)
  BY <1>1, <1>2, UnauthorizedKeeps, UnauthorizedBears
<1>4. PICK kind : kind = c.flows[i].kind
  OBVIOUS
<1>5. kind \in CallKind \ {"boot"}
  BY <1>3, <1>4, HeardIs
<1>6. SUFFICES Bears(c, e)
  BY <1>3, BearsTrans
<1>7. CASE kind = "trust"
  <2>1. e = TrustAnswered(c, i)
    BY <1>1, <1>4, <1>7 DEF Answered
  <2> QED BY <1>3, <1>4, <1>7, <2>1, LoadsAnsweredAside, AsideBears
<1>8. CASE kind = "products"
  <2>1. e = ProductsAnswered(c, i)
    BY <1>1, <1>4, <1>8 DEF Answered
  <2> QED BY <1>3, <1>4, <1>8, <2>1, LoadsAnsweredAside, AsideBears
<1>9. CASE kind = "product"
  <2>1. e = ProductAnswered(c, i)
    BY <1>1, <1>4, <1>9 DEF Answered
  <2> QED BY <1>3, <1>4, <1>9, <2>1, LoadsAnsweredAside, AsideBears
<1>10. CASE kind = "restore"
  <2>1. e = RestoreAnswered(c, i)
    BY <1>1, <1>4, <1>10 DEF Answered
  <2> QED BY <1>3, <1>4, <1>10, <2>1, RestoreAnsweredBears
<1>11. CASE kind = "cart"
  <2>1. e = CartAnswered(c, i)
    BY <1>1, <1>4, <1>11 DEF Answered
  <2> QED BY <1>3, <1>4, <1>11, <2>1, CartAnsweredBears
<1>12. CASE kind = "addresses"
  <2>1. e = AddressesAnswered(c, i)
    BY <1>1, <1>4, <1>12 DEF Answered
  <2> QED BY <1>3, <1>4, <1>12, <2>1, LoadsAnsweredAside, AsideBears
<1>13. CASE kind = "orders"
  <2>1. e = OrdersAnswered(c, i)
    BY <1>1, <1>4, <1>13 DEF Answered
  <2> QED BY <1>3, <1>4, <1>13, <2>1, LoadsAnsweredAside, AsideBears
<1>14. CASE kind = "widgetSession"
  <2>1. c.flows[i].arg \in SignIns
    BY <1>3, <1>4, <1>14, HeardIs DEF ArgsOf
  <2>2. e = IF c.flows[i].arg.step = "exchange" THEN ExchangeAnswered(c, i)
            ELSE ReplayAnswered(c, i)
    BY <1>1, <1>4, <1>14 DEF Answered
  <2>3. CASE c.flows[i].arg.step = "exchange"
    <3>1. e = ExchangeAnswered(c, i)
      BY <2>2, <2>3
    <3> QED BY <1>3, <1>4, <1>14, <2>3, <3>1, ExchangeAnsweredBears
  <2>4. CASE c.flows[i].arg.step # "exchange"
    <3>1. e = ReplayAnswered(c, i) /\ c.flows[i].arg.step = "replay"
      BY <2>1, <2>2, <2>4 DEF SignIns
    <3> QED BY <1>3, <1>4, <1>14, <3>1, ReplayAnsweredBears
  <2> QED BY <2>3, <2>4
<1>15. CASE kind = "addressSave"
  <2>1. e = AddressSaveAnswered(c, i)
    BY <1>1, <1>4, <1>15 DEF Answered
  <2> QED BY <1>3, <1>4, <1>15, <2>1, AddressSaveAnsweredAside, AsideBears
<1>16. CASE kind = "addressDelete"
  <2>1. e = AddressDeleteAnswered(c, i)
    BY <1>1, <1>4, <1>16 DEF Answered
  <2> QED BY <1>3, <1>4, <1>16, <2>1, LoadsAnsweredAside, AsideBears
<1>17. CASE kind = "checkout"
  <2>1. e \in CheckoutAnswered(c, i)
    BY <1>1, <1>4, <1>17 DEF Answered
  <2>2. CASE c.flows[i].status = "ok"
    <3>1. e = OpenSheet(c, i) \/ e = SheetBlocked(c, i)
      BY <2>1, <2>2 DEF CheckoutAnswered
    <3> QED BY <1>3, <1>4, <1>17, <3>1, OpenSheetAside, AsideBears
  <2>3. CASE c.flows[i].status # "ok"
    <3>1. e = CheckoutRefused(c, i)
      BY <2>1, <2>3 DEF CheckoutAnswered
    <3> QED BY <1>3, <1>4, <1>17, <2>3, <3>1, CheckoutRefusedAside, AsideBears
  <2> QED BY <2>2, <2>3
<1>18. CASE kind = "confirm"
  <2>1. e = ConfirmAnswered(c, i)
    BY <1>1, <1>4, <1>18 DEF Answered
  <2> QED BY <1>3, <1>4, <1>18, <2>1, ConfirmAnsweredBears
<1> QED BY <1>5, <1>7, <1>8, <1>9, <1>10, <1>11, <1>12, <1>13, <1>14, <1>15, <1>16, <1>17, <1>18
        DEF CallKind, Kind, RequestKey

LEMMA AfterJoinBears ==
  ASSUME NEW c, Sound(c), NEW i \in FlowIds, Joined(c, i)
  PROVE  Bears(c, AfterJoin(c, i))
<1>1. PICK d : d = AfterJoin(c, i)
  OBVIOUS
<1>2. PICK f : f = c.flows[i]
  OBVIOUS
<1>3. f # None /\ f.at = "joining" /\ GoodCall(f) /\ Shape(c) /\ Typed(c) /\ c.st \in State
  BY <1>2, SoundTyped DEF Joined
<1>4. f.kind \in Joiners /\ f.status = None /\ f.arg \in ArgsOf(f.kind)
      /\ (f.kind = "widgetSession" => f.arg.step = "replay")
  BY <1>3 DEF GoodCall
<1>5. PICK e : e = End(c, i)
  OBVIOUS
<1>6. Places(c, e, i, None) /\ e.st = c.st
  BY <1>3, <1>5, EndIs
<1>7. Shape(e)
  BY <1>6 DEF Places
<1>8. ASSUME f.kind # "widgetSession"
      PROVE  Plain(c.flows[i]) /\ Aside(c, e)
  <2>1. Plain(c.flows[i])
    BY <1>2, <1>4, <1>8 DEF Plain, Joiners
  <2>2. "checkout" \notin {"cart", "widgetSession"}
    OBVIOUS
  <2> QED BY <1>3, <1>5, <2>1, <2>2, FinallyAside
<1>9. CASE f.kind = "boot"
  <2>1. PICK s : s = BootDone(e.st)
    OBVIOUS
  <2>2. Same(e.st, s)
    BY <1>3, <1>6, <2>1, UserSame
  <2>3. d = [e EXCEPT !.st = s]
    BY <1>1, <1>2, <1>5, <1>9, <2>1 DEF AfterJoin
  <2>4. Aside(e, d)
    BY <1>7, <2>2, <2>3, StAside
  <2> QED BY <1>1, <1>8, <1>9, <2>4, AsideTrans, AsideBears
<1>10. CASE f.kind \in {"restore", "confirm"}
  <2>1. d = e
    BY <1>1, <1>2, <1>5, <1>10 DEF AfterJoin
  <2> QED BY <1>1, <1>8, <1>10, <2>1, AsideBears
<1>11. CASE f.kind = "widgetSession"
  <2>1. f.arg \in SignIns /\ f.arg.step = "replay"
    BY <1>4, <1>11 DEF ArgsOf
  <2>2. d = Replay(c, i, f.arg)
    BY <1>1, <1>2, <1>11 DEF AfterJoin
  <2>3. f.arg.left = Left(c.flows[i]) /\ SignsIn(c, i)
    BY <1>2, <1>3, <1>11 DEF Left, SignsIn
  <2>4. PICK arg : arg = f.arg
    OBVIOUS
  <2>5. /\ arg \in SignIns /\ arg.step = "replay" /\ arg.left = Left(c.flows[i])
        /\ arg.replays = c.flows[i].arg.replays
        /\ IsEmpty(c.flows[i].arg.left) => IsEmpty(arg.left)
    BY <1>2, <2>1, <2>3, <2>4
  <2>6. Bears(c, Replay(c, i, arg))
    BY <2>3, <2>5, ReplayBears
  <2> QED BY <1>1, <2>2, <2>4, <2>6
<1>12. CASE f.kind = "addressSave"
  <2>1. d = Finally(c, i, "addressSave") /\ "addressSave" \notin {"cart", "widgetSession"}
    BY <1>1, <1>2, <1>12 DEF AfterJoin
  <2> QED BY <1>1, <1>3, <1>8, <1>12, <2>1, FinallyAside, AsideBears
<1>13. CASE f.kind = "checkout"
  <2>1. PICK s : s = c.st
    OBVIOUS
  <2>2. d = Settle(c, i, "checkout", s)
    BY <1>1, <1>2, <1>13, <2>1 DEF AfterJoin
  <2>3. c.flows[i].status # "ok" /\ "checkout" \notin {"cart", "widgetSession"}
    BY <1>2, <1>4, NoneIsNothing
  <2>4. Aside(c, d)
    BY <1>3, <1>8, <1>13, <2>2, <2>3, SettleAside
  <2> QED BY <1>1, <2>4, AsideBears
<1> QED BY <1>1, <1>4, <1>9, <1>10, <1>11, <1>12, <1>13 DEF Joiners

\* The payment sheet's callbacks.
LEMMA HandlerAside ==
  ASSUME NEW c, Sound(c), c.sheet # None
  PROVE  HasRoom(Handler(c)) => Aside(c, Handler(c))
<1>1. Shape(c) /\ Typed(c) /\ c.sheet \in Sheets
  BY SoundTyped
<1>2. PICK yes \in BOOLEAN : yes = TRUE
  OBVIOUS
<1>3. PICK sheet : sheet = [c.sheet EXCEPT !.settled = yes]
  OBVIOUS
<1>4. PICK e : e = [c EXCEPT !.sheet = sheet]
  OBVIOUS
<1>5. e = [st |-> c.st, shown |-> c.shown, inflight |-> c.inflight, token |-> c.token,
           stored |-> c.stored, flows |-> c.flows, widget |-> c.widget, sheet |-> sheet]
  BY <1>1, <1>4 DEF Shape
<1>6. Shape(e) /\ Typed(e)
  BY <1>1, <1>5 DEF Shape, Typed
<1>7. Aside(c, e)
  BY <1>5 DEF Aside, Same
<1>8. PICK arg : arg = [order |-> c.sheet.order, try |-> 1]
  OBVIOUS
<1>9. arg \in Tries
  BY <1>1, <1>8 DEF Sheets, Tries
<1>10. "confirm" \in Kind \ {"cart", "widgetSession"} /\ arg \in ArgsOf("confirm")
       /\ 0 \in 0..MaxFlows
  BY <1>9, FlowsAssumption DEF Kind, RequestKey, ArgsOf
<1>11. Handler(c) = Ask(e, "confirm", arg, 0)
  BY <1>2, <1>3, <1>4, <1>8 DEF Handler
<1>12. HasRoom(Ask(e, "confirm", arg, 0)) => Aside(e, Ask(e, "confirm", arg, 0))
  BY <1>6, <1>10, AskAside
<1> QED BY <1>7, <1>11, <1>12, AsideTrans

LEMMA OnDismissAside ==
  ASSUME NEW c, Sound(c), c.sheet # None
  PROVE  Aside(c, OnDismiss(c))
<1>1. Shape(c) /\ Typed(c) /\ c.st \in State
  BY SoundTyped
<1>2. PICK d : d = OnDismiss(c)
  OBVIOUS
<1>3. CASE c.sheet.settled
  <2>1. d = [c EXCEPT !.sheet = None]
    BY <1>2, <1>3 DEF OnDismiss
  <2>2. d = [st |-> c.st, shown |-> c.shown, inflight |-> c.inflight, token |-> c.token,
             stored |-> c.stored, flows |-> c.flows, widget |-> c.widget, sheet |-> None]
    BY <1>1, <2>1 DEF Shape
  <2> QED BY <1>2, <2>2 DEF Aside, Same
<1>4. CASE ~ c.sheet.settled
  <2>1. PICK s, keys : s = PaymentCancelled(c.st) /\ keys = c.inflight \ {"payment"}
    OBVIOUS
  <2>2. d = [c EXCEPT !.sheet = None, !.inflight = keys, !.st = s]
    BY <1>2, <1>4, <2>1 DEF OnDismiss
  <2>3. d = [st |-> s, shown |-> c.shown, inflight |-> keys, token |-> c.token,
             stored |-> c.stored, flows |-> c.flows, widget |-> c.widget, sheet |-> None]
    BY <1>1, <2>2 DEF Shape
  <2>4. Same(c.st, s)
    BY <1>1, <2>1, LoadedSame
  <2>5. \A key \in {"cart", "widgetSession"} : key \in d.inflight <=> key \in c.inflight
    BY <2>1, <2>3
  <2> QED BY <1>2, <2>3, <2>4, <2>5 DEF Aside
<1> QED BY <1>3, <1>4

-----------------------------------------------------------------------------
(* The offline selection: what a call makes of the carts.                  *)

\* No cart is fuller.
NoMore(s, t) ==
  \A v \in Shoppers, p \in Products : t.carts[v][p] <= s.carts[v][p]

\* A cart is no fuller, or as full as the call makes it.
Makes(s, t, call) ==
  \A v \in Shoppers, p \in Products :
    \/ t.carts[v][p] <= s.carts[v][p]
    \/ /\ call.product = p
       /\ \/ call.op = "add" /\ t.carts[v][p] <= s.carts[v][p] + call.qty
          \/ call.op = "set" /\ t.carts[v][p] <= call.qty

LEMMA SameCarts ==
  ASSUME NEW s \in Server, NEW t, t.carts = s.carts
  PROVE  NoMore(s, t) /\ \A call : Makes(s, t, call)
<1>1. \A v \in Shoppers, p \in Products : s.carts[v][p] \in 0..MaxQty
  BY ServerIs DEF Lines
<1>2. \A n \in 0..MaxQty : n <= n
  BY ShopAssumption
<1>3. \A v \in Shoppers, p \in Products : t.carts[v][p] <= s.carts[v][p]
  BY <1>1, <1>2
<1> QED BY <1>3 DEF NoMore, Makes

LEMMA OutcomeIs ==
  ASSUME NEW s, NEW status, NEW body
  PROVE  /\ \A o \in Error(s, status) : o.srv = s /\ o.status = status /\ o.body = None
         /\ \A o \in Ok(s, body) : o.srv = s /\ o.status = "ok" /\ o.body = body
BY DEF Error, Ok, Outcome

LEMMA SaveCartMakes ==
  ASSUME NEW s \in Server, NEW u \in Shoppers, NEW lines \in Lines, NEW o \in SaveCart(s, u, lines)
  PROVE  /\ o.status = "ok" /\ o.body = o.srv.carts[u] /\ o.body = lines
         /\ \A v \in Shoppers : o.srv.carts[v] = IF v = u THEN lines ELSE s.carts[v]
<1>1. PICK carts : carts = [s.carts EXCEPT ![u] = lines]
  OBVIOUS
<1>2. PICK t : t = [s EXCEPT !.carts = carts]
  OBVIOUS
<1>3. t.carts = carts
  BY <1>2 DEF Server
<1>4. o \in Ok(t, lines)
  BY <1>1, <1>2 DEF SaveCart
<1>5. o.srv = t /\ o.status = "ok" /\ o.body = lines
  BY <1>4 DEF Ok, Outcome
<1>6. \A v \in Shoppers : carts[v] = IF v = u THEN lines ELSE s.carts[v]
  BY <1>1, ServerIs
<1> QED BY <1>3, <1>5, <1>6

LEMMA CartCallMakes ==
  ASSUME NEW s \in Server, NEW u \in Shoppers, NEW call \in CartCalls,
         call.op = "get" \/ call.product \in Products, NEW o \in CartCall(s, u, call)
  PROVE  Makes(s, o.srv, call) /\ (o.status = "ok" => o.body = o.srv.carts[u])
<1>1. PICK lines, held : lines = s.carts[u] /\ held = lines[call.product]
  OBVIOUS
<1>2. lines \in Lines
  BY <1>1, ServerIs
<1>3. call.op \in {"get", "add", "set", "remove"} /\ call.qty \in 0..MaxQty
  BY DEF CartCalls
<1>4. CASE call.op = "get"
  <2>1. CartCall(s, u, call) = Ok(s, lines)
    BY <1>1, <1>4 DEF CartCall
  <2>2. o.srv = s /\ o.body = lines
    BY <2>1, OutcomeIs
  <2> QED BY <1>1, <2>2, SameCarts
<1>5. ASSUME NEW next \in Lines, o \in SaveCart(s, u, next), NEW n \in 0..MaxQty,
             call.product \in Products, next = [lines EXCEPT ![call.product] = n],
             \/ n <= held
             \/ call.op = "add" /\ n <= held + call.qty
             \/ call.op = "set" /\ n <= call.qty
      PROVE  Makes(s, o.srv, call) /\ (o.status = "ok" => o.body = o.srv.carts[u])
  <2>1. /\ o.body = o.srv.carts[u]
        /\ \A v \in Shoppers : o.srv.carts[v] = IF v = u THEN next ELSE s.carts[v]
    BY <1>5, SaveCartMakes
  <2>2. \A v \in Shoppers, p \in Products : s.carts[v][p] \in 0..MaxQty
    BY ServerIs DEF Lines
  <2>3. \A m \in 0..MaxQty : m <= m
    BY ShopAssumption
  <2>4. \A p \in Products : next[p] = IF p = call.product THEN n ELSE lines[p]
    BY <1>2, <1>5 DEF Lines
  <2>5. ASSUME NEW v \in Shoppers, NEW p \in Products
        PROVE  \/ o.srv.carts[v][p] <= s.carts[v][p]
               \/ /\ call.product = p
                  /\ \/ call.op = "add" /\ o.srv.carts[v][p] <= s.carts[v][p] + call.qty
                     \/ call.op = "set" /\ o.srv.carts[v][p] <= call.qty
    <3>1. CASE v = u /\ p = call.product
      <4>1. o.srv.carts[v][p] = n /\ s.carts[v][p] = held
        BY <1>1, <2>1, <2>4, <3>1
      <4> QED BY <1>5, <3>1, <4>1
    <3>2. CASE ~ (v = u /\ p = call.product)
      <4>1. o.srv.carts[v][p] = s.carts[v][p]
        BY <1>1, <2>1, <2>4, <3>2
      <4> QED BY <2>2, <2>3, <4>1
    <3> QED BY <3>1, <3>2
  <2> QED BY <2>1, <2>5 DEF Makes
<1>6. CASE call.op = "add"
  <2>1. PICK n : n = Capped(held + call.qty)
    OBVIOUS
  <2>2. held \in 0..MaxQty
    BY <1>1, <1>2, <1>6 DEF Lines
  <2>3. held + call.qty \in Nat
    BY <1>3, <2>2, ShopAssumption
  <2>4. n \in 0..MaxQty /\ n <= held + call.qty
    BY <1>3, <2>1, <2>2, <2>3, ShopAssumption, CappedIs DEF Capped
  <2>5. PICK next : next = [lines EXCEPT ![call.product] = n]
    OBVIOUS
  <2>6. next \in Lines
    BY <1>2, <2>4, <2>5 DEF Lines
  <2>7. CartCall(s, u, call) = SaveCart(s, u, next)
    BY <1>1, <1>6, <2>1, <2>5 DEF CartCall
  <2> QED BY <1>5, <1>6, <2>4, <2>5, <2>6, <2>7
<1>7. CASE call.op \in {"set", "remove"}
  <2>1. PICK n : n = IF call.op = "set" THEN call.qty ELSE 0
    OBVIOUS
  <2>2. n \in 0..MaxQty
    BY <1>3, <2>1, ShopAssumption
  <2>3. PICK next : next = [lines EXCEPT ![call.product] = n]
    OBVIOUS
  <2>4. next \in Lines
    BY <1>2, <2>2, <2>3 DEF Lines
  <2>5. CartCall(s, u, call) = IF held = 0 THEN Error(s, "404") ELSE SaveCart(s, u, next)
    BY <1>1, <1>7, <2>1, <2>3 DEF CartCall
  <2>6. CASE held = 0
    <3>1. o.srv = s /\ o.status = "404"
      BY <2>5, <2>6, OutcomeIs
    <3> QED BY <3>1, SameCarts
  <2>7. CASE held # 0
    <3>1. (call.op = "set" /\ n <= call.qty) \/ n <= held
      <4>1. held \in 0..MaxQty
        BY <1>1, <1>2, <1>7 DEF Lines
      <4> QED BY <1>3, <1>7, <2>1, <4>1, ShopAssumption
    <3>2. o \in SaveCart(s, u, next) /\ call.product \in Products
      BY <1>7, <2>5, <2>7
    <3> QED BY <1>5, <2>2, <2>3, <2>4, <3>1, <3>2
  <2> QED BY <2>6, <2>7
<1> QED BY <1>3, <1>4, <1>6, <1>7

LEMMA PlaceMakes ==
  ASSUME NEW s \in Server, NEW o \in OrderIds
  PROVE  NoMore(s, Place(s, o))
<1>1. CASE s.orders[o].status # "pending"
  BY <1>1, SameCarts DEF Place
<1>2. CASE s.orders[o].status = "pending"
  <2>1. PICK t : t = [s EXCEPT !.orders[o].status = "placed"]
    OBVIOUS
  <2>2. PICK u : u = s.orders[o].owner
    OBVIOUS
  <2>3. PICK carts : carts = [s.carts EXCEPT ![u] = NoLines]
    OBVIOUS
  <2>4. Place(s, o).carts = carts
    <3>1. Place(s, o) = [t EXCEPT !.carts[u] = NoLines]
      BY <1>2, <2>1, <2>2 DEF Place
    <3>2. t.carts = s.carts /\ t = [sessions |-> t.sessions, lapsed |-> t.lapsed,
                                    carts |-> t.carts, books |-> t.books, orders |-> t.orders]
      BY <2>1 DEF Server
    <3> QED BY <2>3, <3>1, <3>2
  <2>5. \A v \in Shoppers : carts[v] = IF v = u THEN NoLines ELSE s.carts[v]
    BY <2>3, ServerIs
  <2>6. ASSUME NEW v \in Shoppers, NEW p \in Products
        PROVE  carts[v][p] <= s.carts[v][p]
    <3>1. s.carts[v][p] \in 0..MaxQty
      BY ServerIs DEF Lines
    <3>2. carts[v][p] \in {0, s.carts[v][p]}
      BY <2>5 DEF NoLines
    <3> QED BY <3>1, <3>2, ShopAssumption
  <2> QED BY <2>4, <2>6 DEF NoMore
<1> QED BY <1>1, <1>2

LEMMA BookCallsMake ==
  ASSUME NEW s \in Server, NEW u \in Shoppers, NEW a, NEW dflt,
         NEW o \in AddAddress(s, u) \cup UpdateAddress(s, u, a, dflt) \cup DeleteAddress(s, u, a)
  PROVE  o.srv.carts = s.carts
<1>1. \A book, body : \A x \in SaveBook(s, u, book, body) : x.srv.carts = s.carts
  BY DEF SaveBook, Ok, Outcome, Server
<1>2. \A status : \A x \in Error(s, status) : x.srv.carts = s.carts
  BY DEF Error, Outcome
<1>3. CASE o \in AddAddress(s, u)
  BY <1>1, <1>3 DEF AddAddress
<1>4. CASE o \in UpdateAddress(s, u, a, dflt)
  BY <1>1, <1>2, <1>4 DEF UpdateAddress
<1>5. CASE o \in DeleteAddress(s, u, a)
  <2>1. CASE a \notin s.books[u].ids
    BY <1>2, <1>5, <2>1 DEF DeleteAddress
  <2>2. CASE a \in s.books[u].ids
    <3>1. \E book : o \in SaveBook(s, u, book, book)
      BY <1>5, <2>2 DEF DeleteAddress
    <3> QED BY <1>1, <3>1
  <2> QED BY <2>1, <2>2
<1> QED BY <1>3, <1>4, <1>5

LEMMA OpenOrderMakes ==
  ASSUME NEW s \in Server, NEW u \in Shoppers, NEW a, NEW o \in OpenOrder(s, u, a)
  PROVE  NoMore(s, o.srv)
<1>1. \A status : \A y \in Error(s, status) : y.srv = s
  BY DEF Error, Outcome
<1>2. \A orders, b : \A y \in Ok([s EXCEPT !.orders = orders], b) : y.srv.carts = s.carts
  BY DEF Ok, Outcome, Server
<1>3. o.srv.carts = s.carts
  BY <1>1, <1>2 DEF OpenOrder
<1> QED BY <1>3, SameCarts

LEMMA ConfirmMakes ==
  ASSUME NEW s \in Server, NEW u \in Shoppers, NEW x \in OrderIds,
         NEW o \in ConfirmOrder(s, u, x) \cup GetOrder(s, u, x)
  PROVE  NoMore(s, o.srv)
<1>1. \A status : \A y \in Error(s, status) : y.srv = s
  BY DEF Error, Outcome
<1>3. CASE o \in ConfirmOrder(s, u, x)
  <2>1. PICK t : t = Place(s, x)
    OBVIOUS
  <2>2. o.srv = s \/ o.srv = t
    BY <1>1, <1>3, <2>1 DEF ConfirmOrder, Ok, Outcome
  <2> QED BY <2>1, <2>2, PlaceMakes, SameCarts
<1>4. CASE o \in GetOrder(s, u, x)
  <2>1. o.srv = s
    BY <1>1, <1>4 DEF GetOrder, Ok, Outcome
  <2> QED BY <2>1, SameCarts
<1> QED BY <1>3, <1>4

\* The calls that add to a cart or set a line of it, and what they ask.
Writes(f) == f.kind = "cart" \/ (f.kind = "widgetSession" /\ f.arg.step = "replay")
Write(f) == IF f.kind = "cart" THEN f.arg ELSE ReplayCall(f.arg.left)

\* What the server makes of a call.
Made(s, f, o) ==
  IF Writes(f)
    THEN /\ Makes(s, o.srv, Write(f))
         /\ o.status = "ok" => \E v \in Shoppers : o.body = o.srv.carts[v]
    ELSE NoMore(s, o.srv)

LEMMA Unmade ==
  ASSUME NEW s \in Server, NEW f, NEW o, o.srv = s, o.status # "ok" \/ ~ Writes(f)
  PROVE  Made(s, f, o)
BY SameCarts DEF Made

LEMMA ReplyToMakes ==
  ASSUME TypeInv, NEW f, GoodCall(f), f.at = "asked", NEW u \in Shoppers,
         f.kind \notin {"trust", "products", "product"},
         ~ (f.kind = "widgetSession" /\ f.arg.step = "exchange"), NEW o \in ReplyTo(f, u)
  PROVE  Made(srv, f, o)
<1> PICK s : s = srv
  OBVIOUS
<1>1. s \in Server /\ f.arg \in ArgsOf(f.kind) /\ f.kind \in CallKind /\ f.kind # "boot"
  BY DEF TypeInv, GoodCall
<1>2. CASE f.kind = "cart"
  <2>1. PICK call : call = f.arg
    OBVIOUS
  <2>2. call \in CartCalls /\ (call.op = "get" \/ call.product \in Products)
    BY <1>1, <1>2, <2>1 DEF ArgsOf, GoodCall
  <2>3. o \in CartCall(s, u, call)
    BY <1>2, <2>1 DEF ReplyTo
  <2>4. Makes(s, o.srv, call) /\ (o.status = "ok" => o.body = o.srv.carts[u])
    BY <1>1, <2>2, <2>3, CartCallMakes
  <2> QED BY <1>2, <2>1, <2>4 DEF Made, Writes, Write
<1>3. CASE f.kind = "widgetSession"
  <2>1. PICK left : left = f.arg.left
    OBVIOUS
  <2>2. f.arg \in SignIns
    BY <1>1, <1>3 DEF ArgsOf
  <2>3. left \in Lines /\ f.arg.step = "replay" /\ f.at # "joining"
    BY <1>3, <2>1, <2>2 DEF SignIns
  <2>4. ~ IsEmpty(left)
    BY <1>3, <2>1, <2>3 DEF GoodCall
  <2>5. PICK call : call = ReplayCall(left)
    OBVIOUS
  <2>6. call \in CartCalls /\ call.product \in Products
    BY <2>3, <2>4, <2>5, ReplayCallIs
  <2>7. o \in CartCall(s, u, call)
    BY <1>3, <2>1, <2>5 DEF ReplyTo
  <2>8. Makes(s, o.srv, call) /\ (o.status = "ok" => o.body = o.srv.carts[u])
    BY <1>1, <2>6, <2>7, CartCallMakes
  <2> QED BY <1>3, <2>1, <2>3, <2>5, <2>8 DEF Made, Writes, Write
<1>4. CASE f.kind \in {"restore", "addresses", "orders"}
  <2>1. \A b : \A y \in Ok(s, b) : y.srv = s
    BY DEF Ok, Outcome
  <2>2. o.srv = s
    BY <1>4, <2>1 DEF ReplyTo, ListOrders
  <2> QED BY <1>1, <1>4, <2>2, Unmade DEF Writes
<1>5. CASE f.kind \in {"addressSave", "addressDelete"}
  <2>1. PICK id, arg, dflt : id = f.arg.id /\ arg = f.arg /\ dflt = f.arg.dflt
    OBVIOUS
  <2>2. o \in AddAddress(s, u) \cup UpdateAddress(s, u, id, dflt) \cup DeleteAddress(s, u, arg)
    BY <1>5, <2>1 DEF ReplyTo
  <2>3. o.srv.carts = s.carts
    BY <1>1, <2>2, BookCallsMake
  <2> QED BY <1>1, <1>5, <2>3, SameCarts DEF Made, Writes
<1>6. CASE f.kind = "checkout"
  <2>1. PICK a : a = f.arg
    OBVIOUS
  <2>2. o \in OpenOrder(s, u, a)
    BY <1>6, <2>1 DEF ReplyTo
  <2>3. NoMore(s, o.srv)
    BY <1>1, <2>2, OpenOrderMakes
  <2> QED BY <1>6, <2>3 DEF Made, Writes
<1>7. CASE f.kind = "confirm"
  <2>1. f.arg \in Tries
    BY <1>1, <1>7 DEF ArgsOf
  <2>2. PICK x : x = f.arg.order
    OBVIOUS
  <2>3. x \in OrderIds
    BY <2>1, <2>2 DEF Tries
  <2>4. o \in ConfirmOrder(s, u, x) \cup GetOrder(s, u, x)
    BY <1>7, <2>2 DEF ReplyTo
  <2>5. NoMore(s, o.srv)
    BY <1>1, <2>3, <2>4, ConfirmMakes
  <2> QED BY <1>7, <2>5 DEF Made, Writes
<1> QED
  <2>1. f.kind \in {"restore", "cart", "widgetSession", "addresses", "orders", "addressSave",
                    "addressDelete", "checkout", "confirm"}
    BY <1>1 DEF CallKind, Kind, RequestKey
  <2> QED BY <2>1, <1>2, <1>3, <1>4, <1>5, <1>6, <1>7

LEMMA ReplyMakes ==
  ASSUME TypeInv, NEW f, GoodCall(f), f.at = "asked", NEW o \in Reply(f)
  PROVE  Made(srv, f, o)
<1> PICK s : s = srv
  OBVIOUS
<1>1. s \in Server
  BY DEF TypeInv
<1>2. CASE f.kind \in {"trust", "products", "product"}
  <2>1. \A b : \A y \in Ok(s, b) : y.srv = s
    BY DEF Ok, Outcome
  <2>2. o.srv = s
    BY <1>2, <2>1 DEF Reply
  <2> QED BY <1>1, <1>2, <2>2, Unmade DEF Writes
<1>3. CASE f.kind = "widgetSession" /\ f.arg.step = "exchange"
  <2>1. PICK v \in Shoppers : o \in ExchangeSession(s, v)
    BY <1>3 DEF Reply
  <2>2. o.srv.carts = s.carts
    BY <1>1, <2>1 DEF ExchangeSession, Outcome, Server
  <2> QED BY <1>1, <1>3, <2>2, SameCarts DEF Made, Writes
<1>4. CASE /\ f.kind \notin {"trust", "products", "product"}
           /\ ~ (f.kind = "widgetSession" /\ f.arg.step = "exchange")
  <2>1. PICK u : u = SessionOf(s, f.tok)
    OBVIOUS
  <2>2. u \in Shoppers \cup {None}
    BY <1>1, <2>1, SessionOfIs, GoodCallIs
  <2>3. o \in (IF u = None THEN Error(s, "401") ELSE ReplyTo(f, u))
    BY <1>4, <2>1 DEF Reply
  <2>4. CASE u = None
    <3>1. o.srv = s /\ o.status = "401"
      BY <2>3, <2>4 DEF Error, Outcome
    <3> QED BY <1>1, <3>1, Unmade
  <2>5. CASE u # None
    BY <1>4, <2>2, <2>3, <2>5, ReplyToMakes
  <2> QED BY <2>4, <2>5
<1> QED BY <1>2, <1>3, <1>4

LEMMA SurpriseMakes ==
  ASSUME TypeInv, NEW f, GoodCall(f), f.at = "asked", NEW o \in Surprise(f)
  PROVE  Made(srv, f, o)
<1> PICK s : s = srv
  OBVIOUS
<1>1. s \in Server
  BY DEF TypeInv
<1>2. PICK declined :
        declined = CASE f.kind = "cart" -> {"409"}
                    [] f.kind = "widgetSession" ->
                         IF f.arg.step = "exchange" THEN {"401"} ELSE {"409"}
                    [] f.kind = "addressSave" -> {"fields"}
                    [] f.kind = "checkout" -> {"404", "fields"}
                    [] OTHER -> {}
  OBVIOUS
<1>3. declined \subseteq {"409", "401", "fields", "404"}
  BY <1>2
<1>4. \/ \E status \in declined \cup {"net"} : o \in Error(s, status)
      \/ \E r \in Reply(f) : o = [r EXCEPT !.status = "net", !.body = None]
  BY <1>2 DEF Surprise
<1>5. CASE \E status \in declined \cup {"net"} : o \in Error(s, status)
  <2>1. PICK status \in declined \cup {"net"} : o \in Error(s, status)
    BY <1>5
  <2>2. o.srv = s /\ o.status = status /\ status # "ok"
    BY <1>3, <2>1 DEF Error, Outcome
  <2> QED BY <1>1, <2>2, Unmade
<1>6. CASE \E r \in Reply(f) : o = [r EXCEPT !.status = "net", !.body = None]
  <2>1. PICK r \in Reply(f) : o = [r EXCEPT !.status = "net", !.body = None]
    BY <1>6
  <2>2. r = Outcome(r.srv, r.status, r.body)
    BY ReplyAnswers DEF Answers
  <2>3. PICK t : t = r.srv
    OBVIOUS
  <2>4. o = [srv |-> t, status |-> "net", body |-> None]
    BY <2>1, <2>2, <2>3 DEF Outcome
  <2>5. Made(s, f, r)
    BY ReplyMakes
  <2> QED BY <2>3, <2>4, <2>5 DEF Made
<1> QED BY <1>4, <1>5, <1>6

-----------------------------------------------------------------------------
(* The offline selection: what was asked for affords what is added.        *)

LEMMA FitsLess ==
  ASSUME NEW want \in Lines, NEW p \in Products, NEW m \in Nat, NEW n \in Nat, m <= n,
         Fits(want, p, n)
  PROVE  Fits(want, p, m)
<1>1. want[p] \in 0..MaxQty
  BY DEF Lines
<1> QED BY <1>1, ShopAssumption DEF Fits, Capped

LEMMA FitsMore ==
  ASSUME NEW want \in Lines, NEW more, NEW p \in Products, NEW m \in Nat, NEW n \in Nat,
         more[p] = Capped(want[p] + n), Fits(want, p, m)
  PROVE  Fits(more, p, m) /\ Fits(more, p, m + n)
<1>1. want[p] \in 0..MaxQty
  BY DEF Lines
<1> QED BY <1>1, ShopAssumption DEF Fits, Capped

LEMMA LinesAre ==
  ASSUME NEW s \in Lines, NEW p \in Products
  PROVE  s[p] \in Nat /\ s[p] \in 0..MaxQty
BY ShopAssumption DEF Lines

LEMMA LessAffords ==
  ASSUME NEW c, NEW d, NEW carts, NEW want, Less(c, d), Affords(c, carts, want)
  PROVE  Affords(d, carts, want)
<1> SUFFICES ASSUME NEW s \in Lines, NEW p \in Products, Selects(d, s)
    PROVE  /\ \A u \in Shoppers : Fits(want, p, carts[u][p] + s[p])
           /\ \A x \in Lines : Shows(d, x) => Fits(want, p, x[p] + s[p])
           /\ \A a \in CartCalls : Sends(d, a) /\ a.product = p =>
                /\ a.op = "add" => \A u \in Shoppers : Fits(want, p, carts[u][p] + a.qty + s[p])
                /\ a.op = "set" => Fits(want, p, a.qty + s[p])
  BY DEF Affords
<1>1. Selects(c, s)
  BY DEF Less
<1>2. \A a : Sends(d, a) /\ a.op \in {"add", "set"} => Sends(c, a)
  BY DEF Less
<1>3. \A x : Shows(d, x) => Shows(c, x)
  BY DEF Less
<1> QED BY <1>1, <1>2, <1>3 DEF Affords

LEMMA GivesAffords ==
  ASSUME NEW c, NEW d, NEW want \in Lines, NEW carts \in [Shoppers -> Lines],
         NEW next \in [Shoppers -> Lines], Affords(c, carts, want),
         \A s \in Lines : Selects(d, s) =>
           \E t \in Lines : /\ Selects(c, t)
                            /\ \A p \in Products :
                                 /\ s[p] <= t[p]
                                 /\ \A u \in Shoppers : next[u][p] + s[p] <= carts[u][p] + t[p],
         \A x : Shows(d, x) => Shows(c, x) \/ \E v \in Shoppers : x = next[v],
         \A a : Sends(d, a) => Sends(c, a)
  PROVE  Affords(d, next, want)
<1> SUFFICES ASSUME NEW s \in Lines, NEW p \in Products, Selects(d, s)
    PROVE  /\ \A u \in Shoppers : Fits(want, p, next[u][p] + s[p])
           /\ \A x \in Lines : Shows(d, x) => Fits(want, p, x[p] + s[p])
           /\ \A a \in CartCalls : Sends(d, a) /\ a.product = p =>
                /\ a.op = "add" => \A u \in Shoppers : Fits(want, p, next[u][p] + a.qty + s[p])
                /\ a.op = "set" => Fits(want, p, a.qty + s[p])
  BY DEF Affords
<1>1. PICK t \in Lines : /\ Selects(c, t) /\ s[p] <= t[p]
                         /\ \A u \in Shoppers : next[u][p] + s[p] <= carts[u][p] + t[p]
  OBVIOUS
<1>2. s[p] \in Nat /\ t[p] \in Nat
  BY LinesAre
<1>3. \A u \in Shoppers : next[u][p] \in Nat /\ carts[u][p] \in Nat
  BY LinesAre
<1>4. ASSUME NEW u \in Shoppers
      PROVE  Fits(want, p, next[u][p] + s[p])
  <2>1. Fits(want, p, carts[u][p] + t[p])
    BY <1>1 DEF Affords
  <2>2. next[u][p] + s[p] \in Nat /\ carts[u][p] + t[p] \in Nat
    BY <1>2, <1>3
  <2> QED BY <1>1, <2>1, <2>2, FitsLess
<1>5. ASSUME NEW x \in Lines, Shows(d, x)
      PROVE  Fits(want, p, x[p] + s[p])
  <2>1. CASE \E v \in Shoppers : x = next[v]
    BY <1>4, <2>1
  <2>2. CASE Shows(c, x)
    <3>1. Fits(want, p, x[p] + t[p])
      BY <1>1, <2>2 DEF Affords
    <3>2. x[p] + s[p] \in Nat /\ x[p] + t[p] \in Nat /\ x[p] + s[p] <= x[p] + t[p]
      BY <1>1, <1>2, LinesAre
    <3> QED BY <3>1, <3>2, FitsLess
  <2> QED BY <1>5, <2>1, <2>2
<1>6. ASSUME NEW a \in CartCalls, Sends(d, a), a.product = p, a.op = "add", NEW u \in Shoppers
      PROVE  Fits(want, p, next[u][p] + a.qty + s[p])
  <2>1. Fits(want, p, carts[u][p] + a.qty + t[p])
    BY <1>1, <1>6 DEF Affords
  <2>2. a.qty \in Nat
    BY ShopAssumption DEF CartCalls
  <2>3. next[u][p] + s[p] <= carts[u][p] + t[p]
    BY <1>1
  <2>4. /\ next[u][p] + a.qty + s[p] \in Nat /\ carts[u][p] + a.qty + t[p] \in Nat
        /\ next[u][p] + a.qty + s[p] <= carts[u][p] + a.qty + t[p]
    BY <1>2, <1>3, <2>2, <2>3
  <2> QED BY <2>1, <2>4, FitsLess
<1>7. ASSUME NEW a \in CartCalls, Sends(d, a), a.product = p, a.op = "set"
      PROVE  Fits(want, p, a.qty + s[p])
  <2>1. Fits(want, p, a.qty + t[p])
    BY <1>1, <1>7 DEF Affords
  <2>2. a.qty \in Nat
    BY ShopAssumption DEF CartCalls
  <2>3. a.qty + s[p] \in Nat /\ a.qty + t[p] \in Nat /\ a.qty + s[p] <= a.qty + t[p]
    BY <1>1, <1>2, <2>2
  <2> QED BY <2>1, <2>3, FitsLess
<1> QED BY <1>4, <1>5, <1>6, <1>7

LEMMA CartGivesAffords ==
  ASSUME NEW c, NEW d, NEW want \in Lines, NEW carts \in [Shoppers -> Lines],
         NEW next \in [Shoppers -> Lines], Affords(c, carts, want),
         NEW a \in CartCalls, Sends(c, a),
         \A v \in Shoppers, p \in Products :
           \/ next[v][p] <= carts[v][p]
           \/ /\ a.product = p
              /\ \/ a.op = "add" /\ next[v][p] <= carts[v][p] + a.qty
                 \/ a.op = "set" /\ next[v][p] <= a.qty,
         \A s : Selects(d, s) => Selects(c, s),
         \A x : Shows(d, x) => Shows(c, x) \/ \E v \in Shoppers : x = next[v],
         \A b : ~ Sends(d, b)
  PROVE  Affords(d, next, want)
<1> SUFFICES ASSUME NEW s \in Lines, NEW p \in Products, Selects(d, s)
    PROVE  /\ \A u \in Shoppers : Fits(want, p, next[u][p] + s[p])
           /\ \A x \in Lines : Shows(d, x) => Fits(want, p, x[p] + s[p])
  BY DEF Affords
<1>1. Selects(c, s)
  OBVIOUS
<1>2. ASSUME NEW u \in Shoppers
      PROVE  Fits(want, p, next[u][p] + s[p])
  <2>1. s[p] \in Nat /\ next[u][p] \in Nat /\ carts[u][p] \in Nat /\ a.qty \in Nat
    BY LinesAre, ShopAssumption DEF CartCalls
  <2>2. CASE next[u][p] <= carts[u][p]
    <3>1. Fits(want, p, carts[u][p] + s[p])
      BY <1>1 DEF Affords
    <3>2. /\ next[u][p] + s[p] \in Nat /\ carts[u][p] + s[p] \in Nat
          /\ next[u][p] + s[p] <= carts[u][p] + s[p]
      BY <2>1, <2>2
    <3> QED BY <3>1, <3>2, FitsLess
  <2>3. CASE a.product = p /\ a.op = "add" /\ next[u][p] <= carts[u][p] + a.qty
    <3>1. Fits(want, p, carts[u][p] + a.qty + s[p])
      BY <1>1, <2>3 DEF Affords
    <3>2. /\ next[u][p] + s[p] \in Nat /\ carts[u][p] + a.qty + s[p] \in Nat
          /\ next[u][p] + s[p] <= carts[u][p] + a.qty + s[p]
      BY <2>1, <2>3
    <3> QED BY <3>1, <3>2, FitsLess
  <2>4. CASE a.product = p /\ a.op = "set" /\ next[u][p] <= a.qty
    <3>1. Fits(want, p, a.qty + s[p])
      BY <1>1, <2>4 DEF Affords
    <3>2. /\ next[u][p] + s[p] \in Nat /\ a.qty + s[p] \in Nat
          /\ next[u][p] + s[p] <= a.qty + s[p]
      BY <2>1, <2>4
    <3> QED BY <3>1, <3>2, FitsLess
  <2> QED BY <2>2, <2>3, <2>4
<1>3. ASSUME NEW x \in Lines, Shows(d, x)
      PROVE  Fits(want, p, x[p] + s[p])
  BY <1>1, <1>2, <1>3 DEF Affords
<1> QED BY <1>2, <1>3

-----------------------------------------------------------------------------
(* The offline selection: the steps that add nothing to it.                *)

\* No page was torn from its replay and no selection written back.
Clean(marks) == marks \cap {"torn", "stale"} = {}

LEMMA AskedIs ==
  AskedInv <=> Fine(tab) /\ (Clean(seen) => Affords(tab, srv.carts, asked))
BY DEF AskedInv, Fine, Clean

LEMMA AskedTurns ==
  ASSUME NEW d, tab' = d, Fine(d), Clean(seen') => Affords(d, srv'.carts, asked')
  PROVE  AskedInv'
BY DEF AskedInv, Fine, Clean

LEMMA BearsStep ==
  ASSUME AskedInv, NEW d, tab' = d, Bears(tab, d), srv'.carts = srv.carts, asked' = asked,
         seen \subseteq seen'
  PROVE  AskedInv'
<1>1. Fine(tab) /\ (Clean(seen') => Affords(tab, srv.carts, asked))
  BY AskedIs DEF Clean
<1>2. Fine(d) /\ Less(tab, d)
  BY <1>1 DEF Bears
<1>3. PICK carts, want : carts = srv.carts /\ want = asked
  OBVIOUS
<1>4. Clean(seen') => Affords(d, carts, want)
  BY <1>1, <1>2, <1>3, LessAffords
<1> QED BY <1>2, <1>3, <1>4, AskedTurns

LEMMA ResumeAsked ==
  ASSUME TypeInv, TabInv, AskedInv, NEW i \in FlowIds, Resume(i)
  PROVE  AskedInv'
<1>1. PICK d : d = tab
  OBVIOUS
<1>2. PICK e \in Answered(d, i) : Turns(e)
  BY <1>1 DEF Resume
<1>3. Heard(d, i) /\ HasRoom(e) /\ tab' = e
  BY <1>1, <1>2 DEF Resume, Heard, TabInv, Turns
<1>4. Bears(d, e)
  BY <1>2, <1>3, AnsweredBears
<1>5. srv' = srv /\ asked' = asked /\ seen \subseteq seen'
  BY DEF Resume
<1> QED BY <1>1, <1>3, <1>4, <1>5, BearsStep

LEMMA OwnStepAsked ==
  ASSUME AskedInv, NEW d, Page(d), Bears(tab, d)
  PROVE  AskedInv'
<1>1. tab' = d /\ srv' = srv /\ asked' = asked /\ seen' = seen
  BY DEF Page, Turns
<1> QED BY <1>1, BearsStep

LEMMA FinishJoinAsked ==
  ASSUME TypeInv, TabInv, AskedInv, NEW i \in FlowIds, FinishJoin(i)
  PROVE  AskedInv'
<1>1. PICK c, d : c = tab /\ d = AfterJoin(c, i)
  OBVIOUS
<1>2. Sound(c) /\ Joined(c, i) /\ Page(d)
  BY <1>1 DEF FinishJoin, TabInv
<1>3. Bears(c, d)
  BY <1>1, <1>2, AfterJoinBears
<1> QED BY <1>1, <1>2, <1>3, OwnStepAsked

LEMMA WakeAsked ==
  ASSUME TypeInv, TabInv, AskedInv, NEW i \in FlowIds, Wake(i)
  PROVE  AskedInv'
<1>1. PICK c, arg : c = tab /\ arg = c.flows[i].arg
  OBVIOUS
<1>2. PICK d : d = AskAgain(c, i, arg)
  OBVIOUS
<1>3. Sound(c) /\ c.flows[i] # None /\ c.flows[i].at = "resting" /\ Page(d)
  BY <1>1, <1>2 DEF Wake, TabInv
<1>4. Shape(c) /\ GoodCall(c.flows[i])
  BY <1>3, SoundTyped
<1>5. Plain(c.flows[i])
  BY <1>3, <1>4 DEF GoodCall, Plain
<1>6. Bears(c, d)
  BY <1>2, <1>3, <1>4, <1>5, AskAgainAside, AsideBears
<1> QED BY <1>1, <1>3, <1>6, OwnStepAsked

LEMMA HandlerAsked ==
  ASSUME TypeInv, TabInv, AskedInv, HandlerFires
  PROVE  AskedInv'
<1>1. PICK c, d : c = tab /\ d = Handler(c)
  OBVIOUS
<1>2. Sound(c) /\ c.sheet # None /\ Page(d)
  BY <1>1 DEF HandlerFires, TabInv
<1>3. HasRoom(Handler(c))
  BY <1>1, <1>2 DEF Page, Turns
<1>4. Bears(c, d)
  BY <1>1, <1>2, <1>3, HandlerAside, AsideBears
<1> QED BY <1>1, <1>2, <1>4, OwnStepAsked

LEMMA CloseSheetAsked ==
  ASSUME TypeInv, TabInv, AskedInv, CloseSheet
  PROVE  AskedInv'
<1>1. PICK c, d : c = tab /\ d = OnDismiss(c)
  OBVIOUS
<1>2. Sound(c) /\ c.sheet # None /\ Page(d)
  BY <1>1 DEF CloseSheet, TabInv
<1>3. Bears(c, d)
  BY <1>1, <1>2, OnDismissAside, AsideBears
<1> QED BY <1>1, <1>2, <1>3, OwnStepAsked

\* A step that ends with a render: what is rendered has room.
LEMMA RenderedSound ==
  ASSUME TabInv, NEW c, HasRoom(Render(c)), Keeps(tab, c) \/ Sound(c)
  PROVE  Sound(c) /\ (Keeps(tab, c) => HasRoom(c))
<1>1. ASSUME Keeps(tab, c)
      PROVE  Sound(c) /\ HasRoom(c)
  <2>1. Shape(c) /\ Typed(c) /\ c.shown = tab.shown /\ c.st.pdp = tab.st.pdp
    BY <1>1 DEF Keeps, Asks
  <2>2. c.st.pdp = c.shown.pdp
    BY <2>1 DEF TabInv, Rested
  <2>3. HasRoom(c)
    BY <2>1, <2>2, RenderRoom
  <2> QED BY <1>1, <2>3 DEF Keeps
<1> QED BY <1>1

LEMMA RendersAsked ==
  ASSUME NEW c, Sound(c), Once(c), Turns(Render(c)),
         Clean(seen') => Affords(c, srv'.carts, asked')
  PROVE  AskedInv'
<1>1. PICK d : d = Render(c)
  OBVIOUS
<1>2. tab' = d /\ HasRoom(Render(c))
  BY <1>1 DEF Turns
<1>3. Fine(d) /\ Less(c, d)
  BY <1>1, <1>2, RenderBears
<1>4. PICK carts, want : carts = srv'.carts /\ want = asked'
  OBVIOUS
<1>5. Clean(seen') => Affords(d, carts, want)
  BY <1>3, <1>4, LessAffords
<1> QED BY <1>2, <1>3, <1>4, <1>5, AskedTurns

LEMMA CommitAsked ==
  ASSUME TypeInv, TabInv, AskedInv, Commit
  PROVE  AskedInv'
<1>1. PICK c : c = tab
  OBVIOUS
<1>2. /\ Sound(c) /\ Turns(Render(c)) /\ srv'.carts = srv.carts /\ asked' = asked
      /\ seen' = seen
  BY <1>1 DEF Commit, TabInv, Page
<1>3. Once(c) /\ (Clean(seen) => Affords(c, srv.carts, asked))
  BY <1>1, AskedIs DEF Fine
<1> QED BY <1>2, <1>3, RendersAsked

LEMMA ClickAsked ==
  ASSUME TabInv, AskedInv, NEW c, Click(c), Keeps(tab, c) \/ Sound(c), Bears(tab, c)
  PROVE  AskedInv'
<1>1. Turns(Render(c)) /\ srv' = srv /\ asked' = asked /\ seen' = seen
  BY DEF Click
<1>2. HasRoom(Render(c))
  BY <1>1 DEF Turns
<1>3. Sound(c)
  BY <1>2, RenderedSound
<1>4. Fine(tab) /\ (Clean(seen) => Affords(tab, srv.carts, asked))
  BY AskedIs
<1>5. Once(c) /\ Less(tab, c)
  BY <1>4 DEF Bears, Fine
<1>6. PICK t, carts, want : t = tab /\ carts = srv.carts /\ want = asked
  OBVIOUS
<1>7. Clean(seen) => Affords(c, carts, want)
  BY <1>4, <1>5, <1>6, LessAffords
<1> QED BY <1>1, <1>3, <1>5, <1>6, <1>7, RendersAsked

\* A click that only dispatches.
LEMMA DispatchAsked ==
  ASSUME TypeInv, TabInv, AskedInv, NEW s, Follows(tab.st, s), Same(tab.st, s),
         Click([tab EXCEPT !.st = s])
  PROVE  AskedInv'
<1>1. PICK t, c : t = tab /\ c = [t EXCEPT !.st = s]
  OBVIOUS
<1>2. Sound(t) /\ Follows(t.st, s) /\ Same(t.st, s) /\ Click(c) /\ Shape(t)
  BY <1>1, SoundTyped DEF TabInv
<1>3. Keeps(t, c)
  BY <1>1, <1>2, StMeets
<1>4. Bears(t, c)
  BY <1>1, <1>2, StAside, AsideBears
<1> QED BY <1>1, <1>2, <1>3, <1>4, ClickAsked

LEMMA ClickPdpAsked ==
  ASSUME TypeInv, TabInv, AskedInv, NEW p \in Products, ClickPdp(p)
  PROVE  AskedInv'
<1>1. PICK t, s : t = tab /\ s = OpenPdp(t.st, p)
  OBVIOUS
<1>2. PICK c : c = [t EXCEPT !.st = s]
  OBVIOUS
<1>3. Sound(t) /\ Click(c) /\ Shape(t) /\ t.st \in State
  BY <1>1, <1>2, SoundTyped DEF TabInv, ClickPdp
<1>4. Sound(c)
  BY <1>1, <1>2, <1>3, OpenPdpKeeps
<1>5. Same(t.st, s)
  BY <1>1, <1>3, GoSame
<1>6. Bears(t, c)
  BY <1>2, <1>3, <1>5, StAside, AsideBears
<1> QED BY <1>1, <1>3, <1>4, <1>6, ClickAsked

LEMMA ProceedAsked ==
  ASSUME TypeInv, TabInv, AskedInv, Proceed
  PROVE  AskedInv'
<1>1. PICK s, u : s = tab.st /\ u = GoCheckout(s)
  OBVIOUS
<1>2. s \in State
  BY <1>1, ShownTyped
<1>3. Follows(tab.st, u) /\ Same(tab.st, u)
  BY <1>1, <1>2, GoCheckoutFollows, GoSame
<1>4. Click([tab EXCEPT !.st = u])
  BY <1>1 DEF Proceed
<1> QED BY <1>3, <1>4, DispatchAsked

LEMMA LinksAsked ==
  ASSUME TypeInv, TabInv, AskedInv, ClickBack \/ ClickCart \/ ClickAccount
  PROVE  AskedInv'
<1>1. PICK s : s = tab.st
  OBVIOUS
<1>2. s \in State
  BY <1>1, ShownTyped
<1>3. ASSUME NEW screen \in Screen, Click(Leave(tab, screen))
      PROVE  AskedInv'
  <2>1. PICK u : u = Go(s, screen)
    OBVIOUS
  <2>2. Follows(tab.st, u) /\ Same(tab.st, u)
    BY <1>1, <1>2, <2>1, GoFollows, GoSame
  <2>3. Click([tab EXCEPT !.st = u])
    BY <1>1, <1>3, <2>1 DEF Leave
  <2> QED BY <2>2, <2>3, DispatchAsked
<1>4. CASE ClickBack \/ ClickAccount
  <2>1. {"shop", "cart", "orders", "addresses"} \subseteq Screen
    BY DEF Screen
  <2> QED BY <1>3, <1>4, <2>1 DEF ClickBack, ClickAccount
<1>5. CASE ClickCart
  <2>1. PICK u : u = RequireAuth(s, "cart")
    OBVIOUS
  <2>2. Follows(tab.st, u) /\ Same(tab.st, u)
    BY <1>1, <1>2, <2>1, RequireAuthFollows, GoSame
  <2>3. Click([tab EXCEPT !.st = u])
    BY <1>1, <1>5, <2>1 DEF ClickCart
  <2> QED BY <2>2, <2>3, DispatchAsked
<1> QED BY <1>4, <1>5

LEMMA FormAsked ==
  ASSUME TypeInv, TabInv, AskedInv, NEW a,
         \/ Click([tab EXCEPT !.st = SelectAddress(@, a)]) /\ a \in AddressIds
         \/ Click([tab EXCEPT !.st = ShowAddressForm(@, a)]) /\ a \in AddressIds \cup {"new"}
         \/ Click([tab EXCEPT !.st = SetAddr(@)])
         \/ Click([tab EXCEPT !.st = SetAddrFieldError(@)])
         \/ Click([tab EXCEPT !.st = HideAddressForm(@)])
  PROVE  AskedInv'
<1>1. PICK s : s = tab.st
  OBVIOUS
<1>2. s \in State
  BY <1>1, ShownTyped
<1>3. PICK u :
        /\ Click([tab EXCEPT !.st = u])
        /\ \/ u = SelectAddress(s, a) /\ a \in AddressIds
           \/ u = ShowAddressForm(s, a) /\ a \in AddressIds \cup {"new"}
           \/ u = SetAddr(s) \/ u = SetAddrFieldError(s) \/ u = HideAddressForm(s)
  BY <1>1
<1>4. Follows(tab.st, u)
  BY <1>1, <1>2, <1>3, FormFollows, SetsFollows
<1>5. Same(tab.st, u)
  BY <1>1, <1>2, <1>3, BookSame
<1> QED BY <1>3, <1>4, <1>5, DispatchAsked

LEMMA ClickRoom ==
  ASSUME TabInv, NEW c, Turns(Render(c)), Keeps(tab, c)
  PROVE  Sound(c) /\ HasRoom(c)
<1>1. HasRoom(Render(c))
  BY DEF Turns
<1> QED BY <1>1, RenderedSound

LEMMA EditAside ==
  ASSUME NEW c, Sound(c)
  PROVE  /\ HasRoom(SaveAddress(c)) => Aside(c, SaveAddress(c))
         /\ \A a \in AddressIds :
              /\ HasRoom(SetDefaultAddress(c, a)) => Aside(c, SetDefaultAddress(c, a))
              /\ HasRoom(RemoveAddress(c, a)) => Aside(c, RemoveAddress(c, a))
<1>1. /\ "addressSave" \in RequestKey \ {"cart", "widgetSession"}
      /\ "addressDelete" \in RequestKey \ {"cart", "widgetSession"}
      /\ 0 \in 0..MaxFlows
  BY FlowsAssumption DEF RequestKey
<1>2. Shape(c) /\ Typed(c)
  BY SoundTyped
<1>3. PICK no \in BOOLEAN : no = FALSE
  OBVIOUS
<1>4. PICK yes \in BOOLEAN : yes = TRUE
  OBVIOUS
<1>5. PICK id : id = IF c.shown.form = None THEN "new" ELSE c.shown.form
  OBVIOUS
<1>6. id \in AddressIds \cup {"new"}
  BY <1>5, SoundTyped DEF State
<1>7. ASSUME NEW x \in AddressIds \cup {"new"}, NEW dflt \in BOOLEAN
      PROVE  MayAsk("addressSave", [id |-> x, dflt |-> dflt])
  BY <1>7 DEF MayAsk, ArgsOf, Kind, RequestKey, CallKind, Edits
<1>8. HasRoom(SaveAddress(c)) => Aside(c, SaveAddress(c))
  <2>1. PICK arg : arg = [id |-> id, dflt |-> no]
    OBVIOUS
  <2>2. MayAsk("addressSave", arg)
    BY <1>6, <1>7, <2>1
  <2>3. SaveAddress(c) = Guarded(c, "addressSave", arg, 0)
    BY <1>3, <1>5, <2>1 DEF SaveAddress
  <2> QED BY <1>1, <1>2, <2>2, <2>3, GuardedAside
<1>9. ASSUME NEW a \in AddressIds
      PROVE  HasRoom(SetDefaultAddress(c, a)) => Aside(c, SetDefaultAddress(c, a))
  <2>1. PICK arg : arg = [id |-> a, dflt |-> yes]
    OBVIOUS
  <2>2. MayAsk("addressSave", arg)
    BY <1>7, <2>1
  <2>3. SetDefaultAddress(c, a) \in {c, Guarded(c, "addressSave", arg, 0)}
    BY <1>4, <2>1 DEF SetDefaultAddress
  <2> QED BY <1>1, <1>2, <2>2, <2>3, GuardedAside, AsideSame
<1>10. ASSUME NEW a \in AddressIds
       PROVE  HasRoom(RemoveAddress(c, a)) => Aside(c, RemoveAddress(c, a))
  <2>1. MayAsk("addressDelete", a)
    BY DEF MayAsk, ArgsOf, Kind, RequestKey, CallKind
  <2> QED BY <1>1, <1>2, <2>1, GuardedAside DEF RemoveAddress
<1> QED BY <1>8, <1>9, <1>10

LEMMA ClickAsideAsked ==
  ASSUME TabInv, AskedInv, NEW c, Click(c), Keeps(tab, c), HasRoom(c) => Aside(tab, c)
  PROVE  AskedInv'
<1>1. Turns(Render(c))
  BY DEF Click
<1>2. HasRoom(c)
  BY <1>1, ClickRoom
<1>3. Bears(tab, c)
  BY <1>2, AsideBears
<1> QED BY <1>3, ClickAsked

LEMMA ClickAddressAsked ==
  ASSUME TypeInv, TabInv, AskedInv, NEW a \in AddressIds, ClickAddress(a)
  PROVE  AskedInv'
<1>1. PICK t : t = tab
  OBVIOUS
<1>2. Sound(t)
  BY <1>1 DEF TabInv
<1>3. CASE Click([tab EXCEPT !.st = SelectAddress(@, a)])
           \/ Click([tab EXCEPT !.st = ShowAddressForm(@, a)])
  BY <1>3, FormAsked
<1>4. CASE Click(SetDefaultAddress(tab, a))
  <2>1. PICK c : c = SetDefaultAddress(t, a)
    OBVIOUS
  <2>2. Keeps(t, c) /\ (HasRoom(c) => Aside(t, c))
    BY <1>2, <2>1, EditKeeps, EditAside
  <2> QED BY <1>1, <1>4, <2>1, <2>2, ClickAsideAsked
<1>5. CASE Click(RemoveAddress(tab, a))
  <2>1. PICK c : c = RemoveAddress(t, a)
    OBVIOUS
  <2>2. Keeps(t, c) /\ (HasRoom(c) => Aside(t, c))
    BY <1>2, <2>1, EditKeeps, EditAside
  <2> QED BY <1>1, <1>5, <2>1, <2>2, ClickAsideAsked
<1> QED BY <1>3, <1>4, <1>5 DEF ClickAddress

LEMMA ClickFormAsked ==
  ASSUME TypeInv, TabInv, AskedInv, ClickForm
  PROVE  AskedInv'
<1>1. PICK t : t = tab
  OBVIOUS
<1>2. Sound(t)
  BY <1>1 DEF TabInv
<1>3. CASE Click(SaveAddress(tab))
  <2>1. PICK c : c = SaveAddress(t)
    OBVIOUS
  <2>2. Keeps(t, c) /\ (HasRoom(c) => Aside(t, c))
    BY <1>2, <2>1, EditKeeps, EditAside
  <2> QED BY <1>1, <1>3, <2>1, <2>2, ClickAsideAsked
<1> QED BY <1>3, FormAsked DEF ClickForm

LEMMA ClickPayAsked ==
  ASSUME TypeInv, TabInv, AskedInv, ClickPay
  PROVE  AskedInv'
<1>1. PICK t, c : t = tab /\ c = OpenCheckout(t)
  OBVIOUS
<1>2. Sound(t) /\ Rested(t) /\ t.shown \in State /\ Click(c) /\ Shape(t) /\ Typed(t)
  BY <1>1, ShownTyped, SoundTyped DEF TabInv, ClickPay
<1>3. "checkout" \notin t.shown.pending /\ "payment" \notin t.shown.pending
  BY <1>1 DEF ClickPay, Idle, shown
<1>4. ~ Paying(t)
  BY <1>2, <1>3 DEF Rested
<1>5. PICK a : a = t.shown.selected
  OBVIOUS
<1>6. a \in AddressIds
  <2>1. a \in t.shown.addresses.ids
    BY <1>1, <1>5 DEF ClickPay, shown
  <2>2. t.shown.addresses \in Book
    BY <1>2 DEF State
  <2> QED BY <2>1, <2>2 DEF Book
<1>7. Keeps(t, c)
  BY <1>1, <1>2, <1>4, <1>5, <1>6, OpenCheckoutKeeps
<1>8. /\ MayAsk("checkout", a) /\ "checkout" \in RequestKey \ {"cart", "widgetSession"}
      /\ 0 \in 0..MaxFlows
  BY <1>6, FlowsAssumption DEF MayAsk, ArgsOf, Kind, RequestKey, CallKind
<1>9. c = Guarded(t, "checkout", a, 0)
  BY <1>1, <1>5 DEF OpenCheckout
<1>10. HasRoom(c) => Aside(t, c)
  BY <1>2, <1>8, <1>9, GuardedAside
<1> QED BY <1>1, <1>2, <1>7, <1>10, ClickAsideAsked

LEMMA ClickBannerAsked ==
  ASSUME TypeInv, TabInv, AskedInv, ClickBanner
  PROVE  AskedInv'
<1>1. PICK t, s : t = tab /\ s = t.st
  OBVIOUS
<1>2. Sound(t) /\ HasRoom(t) /\ s \in State
  BY <1>1, ShownTyped DEF TabInv
<1>3. CASE Click([tab EXCEPT !.st = ClearBanner(@)])
  <2>1. PICK u : u = ClearBanner(s)
    OBVIOUS
  <2>2. Follows(tab.st, u) /\ Same(tab.st, u)
    BY <1>1, <1>2, <2>1, BootFollows, SetsFollows, UserSame
  <2>3. Click([tab EXCEPT !.st = u])
    BY <1>1, <1>3, <2>1
  <2> QED BY <2>2, <2>3, DispatchAsked
<1>4. CASE Click(RunBoot(tab))
  <2>1. PICK c : c = RunBoot(t)
    OBVIOUS
  <2>2. Keeps(t, c) /\ (HasRoom(c) => Aside(t, c))
    BY <1>2, <2>1, RunBootKeeps, RunBootAside
  <2> QED BY <1>1, <1>4, <2>1, <2>2, ClickAsideAsked
<1> QED BY <1>3, <1>4 DEF ClickBanner

LEMMA ClickSignOutAsked ==
  ASSUME TypeInv, TabInv, AskedInv, ClickSignOut
  PROVE  AskedInv'
<1>1. PICK t, c : t = tab /\ c = PerformSignOut(t)
  OBVIOUS
<1>2. Sound(t) /\ Click(c)
  BY <1>1 DEF TabInv, ClickSignOut
<1>3. Keeps(t, c) /\ Bears(t, c)
  BY <1>1, <1>2, PerformSignOutIs, SignOutBears
<1> QED BY <1>1, <1>2, <1>3, ClickAsked

-----------------------------------------------------------------------------
(* The offline selection: the widget takes it, and hands it to a sign-in.  *)

LEMMA WidgetFrame ==
  ASSUME NEW c, Shape(c), NEW w
  PROVE  LET d == [c EXCEPT !.widget = w]
         IN /\ Shape(d) /\ d.st = c.st /\ d.shown = c.shown /\ d.inflight = c.inflight
            /\ d.stored = c.stored /\ d.flows = c.flows /\ d.widget = w
<1>1. PICK d : d = [c EXCEPT !.widget = w]
  OBVIOUS
<1>2. d = [st |-> c.st, shown |-> c.shown, inflight |-> c.inflight, token |-> c.token,
           stored |-> c.stored, flows |-> c.flows, widget |-> w, sheet |-> c.sheet]
  BY <1>1 DEF Shape
<1>3. Shape(d)
  BY <1>2 DEF Shape
<1> QED BY <1>1, <1>2, <1>3

\* Nobody signs in while the widget is offered or open.
LEMMA NobodySignsIn ==
  ASSUME NEW c, Fine(c), c.widget # None \/ "widgetSession" \notin c.shown.pending
  PROVE  \A i \in FlowIds : ~ SignsIn(c, i)
BY DEF Fine, Once, Awaits

LEMMA LaunchAsked ==
  ASSUME TypeInv, TabInv, AskedInv, LaunchWidget
  PROVE  AskedInv'
<1>1. PICK t, lines : t = tab /\ lines = t.shown.buffer
  OBVIOUS
<1>2. Sound(t) /\ Shape(t) /\ t.shown \in State /\ "widgetSession" \notin t.shown.pending
  BY <1>1, ShownTyped, SoundTyped DEF TabInv, LaunchWidget, SignInOffered, Idle, shown
<1>3. PICK w : w = [selection |-> lines]
  OBVIOUS
<1>4. w \in Widgets \cup {None} /\ w.selection = lines
  BY <1>1, <1>2, <1>3 DEF Widgets, State
<1>5. PICK c : c = [t EXCEPT !.widget = w]
  OBVIOUS
<1>6. Keeps(t, c)
  BY <1>2, <1>4, <1>5, WidgetIs
<1>7. Click(c)
  BY <1>1, <1>3, <1>5 DEF LaunchWidget, shown
<1>8. /\ c.st = t.st /\ c.shown = t.shown /\ c.inflight = t.inflight
      /\ c.stored = t.stored /\ c.flows = t.flows /\ c.widget = w
  BY <1>2, <1>5, WidgetFrame
<1>9. ASSUME Fine(t)
      PROVE  Fine(c) /\ Less(t, c)
  <2>1. \A i \in FlowIds : ~ SignsIn(t, i) /\ ~ SignsIn(c, i) /\ (Carts(c, i) <=> Carts(t, i))
    BY <1>2, <1>8, <1>9, NobodySignsIn DEF SignsIn, Carts
  <2>2. Once(c) /\ Awaits(c)
    BY <1>8, <1>9, <2>1 DEF Fine, Once, Awaits
  <2>3. ~ Replays(t) /\ ~ Replays(c)
    BY <2>1 DEF Replays
  <2>4. \A s : Selects(c, s) => Selects(t, s)
    BY <1>1, <1>2, <1>4, <1>8, <2>1, <2>3 DEF Selects
  <2>5. \A x : Shows(c, x) => Shows(t, x)
    BY <1>8, <2>1 DEF Shows
  <2>6. \A a : Sends(c, a) => Sends(t, a)
    BY <1>8, <2>1 DEF Sends
  <2> QED BY <2>2, <2>4, <2>5, <2>6 DEF Fine, Less
<1> QED BY <1>1, <1>6, <1>7, <1>9, ClickAsked DEF Bears

LEMMA WidgetFailsAsked ==
  ASSUME TypeInv, TabInv, AskedInv, WidgetFails
  PROVE  AskedInv'
<1>1. PICK t, s : t = tab /\ s = ReqFail(t.st, "widgetSession")
  OBVIOUS
<1>2. /\ Shape(t) /\ t.st \in State
      /\ t.widget # None \/ "widgetSession" \notin t.shown.pending
  BY <1>1, SoundTyped DEF TabInv, WidgetFails, SignInOffered, Idle, shown
<1>3. PICK d : d = [t EXCEPT !.widget = None, !.st = s]
  OBVIOUS
<1>4. d = [st |-> s, shown |-> t.shown, inflight |-> t.inflight, token |-> t.token,
           stored |-> t.stored, flows |-> t.flows, widget |-> None, sheet |-> t.sheet]
  BY <1>2, <1>3 DEF Shape
<1>5. s.cart = t.st.cart /\ s.buffer = t.st.buffer
  BY <1>1, <1>2, SignInFlag
<1>6. ASSUME Fine(t)
      PROVE  Fine(d) /\ Less(t, d)
  <2>1. \A i \in FlowIds : ~ SignsIn(t, i) /\ ~ SignsIn(d, i) /\ (Carts(d, i) <=> Carts(t, i))
    BY <1>2, <1>4, <1>6, NobodySignsIn DEF SignsIn, Carts
  <2>2. Once(d) /\ Awaits(d)
    BY <1>4, <1>5, <1>6, <2>1 DEF Fine, Once, Awaits
  <2>3. ~ Replays(t) /\ ~ Replays(d)
    BY <2>1 DEF Replays
  <2>4. \A x : Selects(d, x) => Selects(t, x)
    BY <1>4, <1>5, <2>1, <2>3 DEF Selects
  <2>5. \A x : Shows(d, x) => Shows(t, x)
    BY <1>4, <1>5, <2>1 DEF Shows
  <2>6. \A a : Sends(d, a) => Sends(t, a)
    BY <1>4, <2>1 DEF Sends
  <2> QED BY <2>2, <2>4, <2>5, <2>6 DEF Fine, Less
<1>7. tab' = d /\ srv' = srv /\ asked' = asked /\ seen' = seen
  BY <1>1, <1>3 DEF WidgetFails
<1> QED BY <1>1, <1>6, <1>7, BearsStep DEF Bears

\* The sign-in takes what the widget had.
LEMMA SignInTakes ==
  ASSUME NEW t, Sound(t), Fine(t), t.widget # None, NEW selection \in Lines,
         selection = t.widget.selection,
         HasRoom(SignInWithWidget([t EXCEPT !.widget = None], selection))
  PROVE  LET d == SignInWithWidget([t EXCEPT !.widget = None], selection)
         IN Once(d) /\ Less(t, d)
<1>1. PICK c : c = [t EXCEPT !.widget = None]
  OBVIOUS
<1>2. Shape(t) /\ Typed(t)
  BY SoundTyped
<1>3. /\ Shape(c) /\ c.st = t.st /\ c.shown = t.shown /\ c.inflight = t.inflight
      /\ c.stored = t.stored /\ c.flows = t.flows /\ c.widget = None
  BY <1>1, <1>2, WidgetFrame
<1>4. None \in Widgets \cup {None}
  OBVIOUS
<1>5. Sound(c)
  BY <1>1, <1>4, WidgetIs
<1>6. Typed(c) /\ c.st \in State
  BY <1>5, SoundTyped
<1>7. PICK no, some \in BOOLEAN : no = FALSE /\ some = ~ IsEmpty(selection)
  OBVIOUS
<1>8. PICK arg : arg = [step |-> "exchange", left |-> selection, user |-> None,
                        replays |-> some, soldOut |-> no]
  OBVIOUS
<1>9. arg \in SignIns /\ arg.step = "exchange" /\ arg.left = selection /\ arg.replays = some
  BY <1>7, <1>8 DEF SignIns
<1>10. MayAsk("widgetSession", arg) /\ "widgetSession" \in RequestKey /\ 0 \in 0..MaxFlows
  BY <1>9, FlowsAssumption DEF MayAsk, ArgsOf, Kind, RequestKey, CallKind
<1>11. PICK d : d = SignInWithWidget(c, selection)
  OBVIOUS
<1>12. d = Guarded(c, "widgetSession", arg, 0)
  BY <1>7, <1>8, <1>11 DEF SignInWithWidget
<1>13. HasRoom(Guarded(c, "widgetSession", arg, 0))
  BY <1>1, <1>11, <1>12
<1>14. \A i \in FlowIds : ~ SignsIn(t, i) /\ ~ SignsIn(c, i) /\ (Carts(c, i) <=> Carts(t, i))
  BY <1>3, NobodySignsIn DEF SignsIn, Carts
<1>15. Once(c) /\ ~ Replays(t) /\ ~ Replays(c)
  BY <1>3, <1>14 DEF Fine, Once, Replays
<1>16. Less(t, c)
  <2>1. \A s : Selects(c, s) => Selects(t, s)
    BY <1>3, <1>14, <1>15 DEF Selects
  <2>2. \A x : Shows(c, x) => Shows(t, x)
    BY <1>3, <1>14 DEF Shows
  <2>3. \A a : Sends(c, a) => Sends(t, a)
    BY <1>3, <1>14 DEF Sends
  <2> QED BY <2>1, <2>2, <2>3 DEF Less
<1>17. ASSUME "widgetSession" \in c.inflight
       PROVE  Once(d) /\ Less(t, d)
  BY <1>12, <1>15, <1>16, <1>17 DEF Guarded
<1>18. ASSUME "widgetSession" \notin c.inflight
       PROVE  Once(d) /\ Less(t, d)
  <2>1. PICK i, f :
          /\ i \in FlowIds /\ c.flows[i] = None /\ Places(c, d, i, f) /\ f # None /\ GoodCall(f)
          /\ f.kind = "widgetSession" /\ f.at = "asked" /\ f.arg = arg
          /\ Typed(d) /\ d.st = ReqStart(c.st, "widgetSession")
          /\ d.inflight = c.inflight \cup {"widgetSession"} /\ d.stored = c.stored
    BY <1>3, <1>6, <1>10, <1>12, <1>18, <1>13, GuardedIs
  <2>2. /\ \A j \in FlowIds : j # i => d.flows[j] = c.flows[j]
        /\ d.flows[i] = f /\ d.shown = c.shown /\ d.widget = None
    BY <1>3, <2>1 DEF Places
  <2>3. /\ d.st.cart = c.st.cart /\ d.st.buffer = c.st.buffer
        /\ "widgetSession" \in d.st.pending
    BY <1>6, <2>1, SignInFlag
  <2>4. \A j \in FlowIds : SignsIn(d, j) <=> j = i
    BY <1>14, <2>1, <2>2 DEF SignsIn
  <2>5. \A j \in FlowIds : (Carts(d, j) <=> Carts(c, j)) /\ (Carts(c, j) => j # i)
    BY <2>1, <2>2 DEF Carts
  <2>6. ~ IsEmpty(f.arg.left) => f.arg.replays
    BY <1>7, <1>9, <2>1
  <2>7. Once(d)
    BY <1>15, <2>1, <2>2, <2>3, <2>4, <2>5, <2>6 DEF Once
  <2>8. Left(f) = selection
    BY <1>9, <2>1 DEF Left
  <2>9. \A s : Selects(d, s) => Selects(t, s)
    BY <1>3, <1>15, <2>2, <2>3, <2>4, <2>8 DEF Selects
  <2>10. \A x : Shows(d, x) => Shows(t, x)
    BY <1>3, <1>9, <1>14, <2>1, <2>2, <2>3, <2>4, <2>5 DEF Shows
  <2>11. \A a : Sends(d, a) => Sends(t, a)
    BY <1>3, <1>14, <2>2, <2>5 DEF Sends
  <2> QED BY <2>7, <2>9, <2>10, <2>11 DEF Less
<1> QED BY <1>1, <1>11, <1>17, <1>18

LEMMA WidgetSucceedsAsked ==
  ASSUME TypeInv, TabInv, AskedInv, WidgetSucceeds
  PROVE  AskedInv'
<1>1. PICK t : t = tab
  OBVIOUS
<1>2. Sound(t) /\ t.widget # None
  BY <1>1 DEF TabInv, WidgetSucceeds
<1>3. t.widget \in Widgets
  BY <1>2, SoundTyped
<1>4. PICK selection : selection = t.widget.selection
  OBVIOUS
<1>5. selection \in Lines
  BY <1>3, <1>4 DEF Widgets
<1>6. PICK c : c = [t EXCEPT !.widget = None]
  OBVIOUS
<1>7. None \in Widgets \cup {None}
  OBVIOUS
<1>8. Sound(c) /\ Keeps(t, c)
  BY <1>2, <1>6, <1>7, WidgetIs
<1>9. PICK d : d = SignInWithWidget(c, selection)
  OBVIOUS
<1>10. Keeps(t, d)
  BY <1>5, <1>8, <1>9, SignInKeeps, KeepsTrans
<1>11. Page(Render(d))
  BY <1>1, <1>4, <1>6, <1>9 DEF WidgetSucceeds
<1>12. Turns(Render(d)) /\ srv' = srv /\ asked' = asked /\ seen' = seen
  BY <1>11 DEF Page
<1>13. Sound(d) /\ HasRoom(d)
  BY <1>1, <1>10, <1>12, ClickRoom
<1>14. Fine(t) /\ (Clean(seen) => Affords(t, srv.carts, asked))
  BY <1>1, AskedIs
<1>15. Once(d) /\ Less(t, d)
  BY <1>2, <1>4, <1>5, <1>6, <1>9, <1>13, <1>14, SignInTakes
<1>16. PICK carts, want : carts = srv.carts /\ want = asked
  OBVIOUS
<1>17. Clean(seen) => Affords(d, carts, want)
  BY <1>14, <1>15, <1>16, LessAffords
<1> QED BY <1>12, <1>13, <1>15, <1>16, <1>17, RendersAsked

-----------------------------------------------------------------------------
(* The offline selection: what a click asks for.                           *)

\* n more units of the product p were asked for.
Wants(want, more, p, n) ==
  /\ more[p] = Capped(want[p] + n)
  /\ \A q \in Products : q # p => more[q] = want[q]

LEMMA WantsFit ==
  ASSUME NEW want \in Lines, NEW more, NEW p \in Products, NEW n \in Nat,
         Wants(want, more, p, n), NEW q \in Products, NEW m \in Nat, Fits(want, q, m)
  PROVE  Fits(more, q, m) /\ (q = p => Fits(more, q, m + n))
<1>1. CASE q = p
  BY <1>1, FitsMore DEF Wants
<1>2. CASE q # p
  BY <1>2 DEF Wants, Fits
<1> QED BY <1>1, <1>2

\* The call of a cart click asks for no more than the click, on top of what
\* the page shows if it sets a line.
LEMMA CallAffords ==
  ASSUME NEW c, NEW d, NEW call \in CartCalls, CartAsked(c, d, call),
         NEW carts \in [Shoppers -> Lines], NEW want \in Lines, NEW more,
         NEW p \in Products, NEW n \in Nat, Wants(want, more, p, n), Affords(c, carts, want),
         call.op \in {"add", "set"} => call.product = p,
         call.op = "add" => call.qty <= n,
         call.op = "set" => \E x \in Lines : Shows(c, x) /\ call.qty <= x[p] + n
  PROVE  Affords(d, carts, more)
<1> SUFFICES ASSUME NEW s \in Lines, NEW q \in Products, Selects(d, s)
    PROVE  /\ \A u \in Shoppers : Fits(more, q, carts[u][q] + s[q])
           /\ \A x \in Lines : Shows(d, x) => Fits(more, q, x[q] + s[q])
           /\ \A a \in CartCalls : Sends(d, a) /\ a.product = q =>
                /\ a.op = "add" => \A u \in Shoppers : Fits(more, q, carts[u][q] + a.qty + s[q])
                /\ a.op = "set" => Fits(more, q, a.qty + s[q])
  BY DEF Affords
<1>1. Selects(c, s)
  BY DEF CartAsked
<1>2. s[q] \in Nat /\ \A u \in Shoppers : carts[u][q] \in Nat
  BY LinesAre
<1>3. \A a \in CartCalls : a.qty \in Nat
  BY ShopAssumption DEF CartCalls
<1>4. more[q] \in 0..MaxQty
  <2>1. want[q] \in Nat /\ want[q] \in 0..MaxQty
    BY LinesAre
  <2>2. Capped(want[q] + n) \in 0..MaxQty
    BY <2>1, CappedIs
  <2> QED BY <2>1, <2>2 DEF Wants
<1>5. ASSUME NEW m \in Nat, NEW k \in Nat, m <= k, Fits(more, q, k)
      PROVE  Fits(more, q, m)
  BY <1>4, <1>5, ShopAssumption DEF Fits, Capped
<1>6. ASSUME NEW u \in Shoppers
      PROVE  Fits(more, q, carts[u][q] + s[q])
  <2>1. Fits(want, q, carts[u][q] + s[q])
    BY <1>1 DEF Affords
  <2>2. carts[u][q] + s[q] \in Nat
    BY <1>2
  <2> QED BY <2>1, <2>2, WantsFit
<1>7. ASSUME NEW x \in Lines, Shows(d, x)
      PROVE  Fits(more, q, x[q] + s[q])
  <2>1. Fits(want, q, x[q] + s[q])
    BY <1>1, <1>7 DEF Affords, CartAsked
  <2>2. x[q] + s[q] \in Nat
    BY <1>2, LinesAre
  <2> QED BY <2>1, <2>2, WantsFit
<1>8. ASSUME NEW a \in CartCalls, Sends(d, a), a.product = q, a.op = "add", NEW u \in Shoppers
      PROVE  Fits(more, q, carts[u][q] + a.qty + s[q])
  <2>1. PICK m, k : m = carts[u][q] + a.qty + s[q] /\ k = carts[u][q] + s[q]
    OBVIOUS
  <2>2. m \in Nat /\ k \in Nat
    BY <1>2, <1>3, <2>1
  <2>3. CASE Sends(c, a)
    <3>1. Fits(want, q, m)
      BY <1>1, <1>8, <2>1, <2>3 DEF Affords
    <3> QED BY <2>1, <2>2, <3>1, WantsFit
  <2>4. CASE a = call
    <3>1. q = p /\ a.qty <= n
      BY <1>8, <2>4
    <3>2. Fits(want, q, k)
      BY <1>1, <2>1 DEF Affords
    <3>3. Fits(more, q, k + n)
      BY <2>2, <3>1, <3>2, WantsFit
    <3>4. m <= k + n /\ k + n \in Nat
      BY <1>2, <1>3, <2>1, <2>2, <3>1
    <3> QED BY <1>5, <2>1, <2>2, <3>3, <3>4
  <2> QED BY <1>8, <2>3, <2>4 DEF CartAsked
<1>9. ASSUME NEW a \in CartCalls, Sends(d, a), a.product = q, a.op = "set"
      PROVE  Fits(more, q, a.qty + s[q])
  <2>1. PICK m : m = a.qty + s[q]
    OBVIOUS
  <2>2. m \in Nat
    BY <1>2, <1>3, <2>1
  <2>3. CASE Sends(c, a)
    <3>1. Fits(want, q, m)
      BY <1>1, <1>9, <2>1, <2>3 DEF Affords
    <3> QED BY <2>1, <2>2, <3>1, WantsFit
  <2>4. CASE a = call
    <3>1. q = p
      BY <1>9, <2>4
    <3>2. PICK x \in Lines : Shows(c, x) /\ a.qty <= x[q] + n
      BY <1>9, <2>4, <3>1
    <3>3. PICK k : k = x[q] + s[q]
      OBVIOUS
    <3>4. Fits(want, q, k)
      BY <1>1, <3>2, <3>3 DEF Affords
    <3>5. x[q] \in Nat
      BY LinesAre
    <3>6. k \in Nat
      BY <1>2, <3>3, <3>5
    <3>7. Fits(more, q, k + n)
      BY <3>1, <3>4, <3>6, WantsFit
    <3>8. m <= k + n /\ k + n \in Nat
      BY <1>2, <1>3, <2>1, <3>2, <3>3, <3>5
    <3> QED BY <1>5, <2>1, <2>2, <3>7, <3>8
  <2> QED BY <1>9, <2>3, <2>4 DEF CartAsked
<1> QED BY <1>6, <1>7, <1>8, <1>9

\* A new selection is as the one it came of, with n more units.
LEMMA BufferAffords ==
  ASSUME NEW c, NEW d, NEW carts \in [Shoppers -> Lines], NEW want \in Lines, NEW more,
         NEW p \in Products, NEW n \in Nat, Wants(want, more, p, n), Affords(c, carts, want),
         \A s \in Lines : Selects(d, s) =>
           \E t \in Lines : /\ Selects(c, t)
                            /\ \A q \in Products :
                                 s[q] <= t[q] \/ (q = p /\ s[q] <= t[q] + n),
         \A x : Shows(d, x) => Shows(c, x),
         \A a : Sends(d, a) => Sends(c, a)
  PROVE  Affords(d, carts, more)
<1> SUFFICES ASSUME NEW s \in Lines, NEW q \in Products, Selects(d, s)
    PROVE  /\ \A u \in Shoppers : Fits(more, q, carts[u][q] + s[q])
           /\ \A x \in Lines : Shows(d, x) => Fits(more, q, x[q] + s[q])
           /\ \A a \in CartCalls : Sends(d, a) /\ a.product = q =>
                /\ a.op = "add" => \A u \in Shoppers : Fits(more, q, carts[u][q] + a.qty + s[q])
                /\ a.op = "set" => Fits(more, q, a.qty + s[q])
  BY DEF Affords
<1>1. PICK t \in Lines : Selects(c, t) /\ (s[q] <= t[q] \/ (q = p /\ s[q] <= t[q] + n))
  OBVIOUS
<1>2. s[q] \in Nat /\ t[q] \in Nat /\ \A u \in Shoppers : carts[u][q] \in Nat
  BY LinesAre
<1>3. \A a \in CartCalls : a.qty \in Nat
  BY ShopAssumption DEF CartCalls
<1>4. more[q] \in 0..MaxQty
  <2>1. want[q] \in Nat /\ want[q] \in 0..MaxQty
    BY LinesAre
  <2>2. Capped(want[q] + n) \in 0..MaxQty
    BY <2>1, CappedIs
  <2> QED BY <2>1, <2>2 DEF Wants
<1>5. ASSUME NEW m \in Nat, NEW k \in Nat, m <= k, Fits(more, q, k)
      PROVE  Fits(more, q, m)
  BY <1>4, <1>5, ShopAssumption DEF Fits, Capped
<1>6. ASSUME NEW k \in Nat, Fits(want, q, k + t[q])
      PROVE  Fits(more, q, k + s[q])
  <2>1. k + t[q] \in Nat /\ k + s[q] \in Nat /\ k + t[q] + n \in Nat
    BY <1>2
  <2>2. Fits(more, q, k + t[q]) /\ (q = p => Fits(more, q, k + t[q] + n))
    BY <1>6, <2>1, WantsFit
  <2>3. k + s[q] <= k + t[q] \/ (q = p /\ k + s[q] <= k + t[q] + n)
    BY <1>1, <1>2
  <2> QED BY <1>5, <2>1, <2>2, <2>3
<1>7. ASSUME NEW u \in Shoppers
      PROVE  Fits(more, q, carts[u][q] + s[q])
  BY <1>1, <1>2, <1>6 DEF Affords
<1>8. ASSUME NEW x \in Lines, Shows(d, x)
      PROVE  Fits(more, q, x[q] + s[q])
  <2>1. Fits(want, q, x[q] + t[q])
    BY <1>1, <1>8 DEF Affords
  <2> QED BY <1>6, <2>1, LinesAre
<1>9. ASSUME NEW a \in CartCalls, Sends(d, a), a.product = q, a.op = "add", NEW u \in Shoppers
      PROVE  Fits(more, q, carts[u][q] + a.qty + s[q])
  <2>1. Fits(want, q, carts[u][q] + a.qty + t[q])
    BY <1>1, <1>9 DEF Affords
  <2>2. carts[u][q] + a.qty \in Nat
    BY <1>2, <1>3
  <2> QED BY <1>6, <2>1, <2>2
<1>10. ASSUME NEW a \in CartCalls, Sends(d, a), a.product = q, a.op = "set"
       PROVE  Fits(more, q, a.qty + s[q])
  <2>1. Fits(want, q, a.qty + t[q])
    BY <1>1, <1>10 DEF Affords
  <2> QED BY <1>3, <1>6, <2>1
<1> QED BY <1>7, <1>8, <1>9, <1>10

LEMMA WantsIs ==
  ASSUME TypeInv, NEW p \in Products, NEW n \in Nat,
         asked' = [asked EXCEPT ![p] = Capped(@ + n)] \/ (asked' = asked /\ n = 0)
  PROVE  Wants(asked, asked', p, n)
<1>1. PICK a, b : a = asked /\ b = asked'
  OBVIOUS
<1>2. a \in Lines
  BY <1>1 DEF TypeInv
<1>3. a[p] \in Nat /\ a[p] \in 0..MaxQty
  BY <1>2, LinesAre
<1>4. PICK m : m = Capped(a[p] + n)
  OBVIOUS
<1>5. CASE asked' = asked /\ n = 0
  <2>1. m = a[p]
    BY <1>3, <1>4, <1>5, ShopAssumption DEF Capped
  <2> QED BY <1>1, <1>4, <1>5, <2>1 DEF Wants
<1>6. CASE asked' = [asked EXCEPT ![p] = Capped(@ + n)]
  <2>1. b = [a EXCEPT ![p] = m]
    BY <1>1, <1>4, <1>6
  <2>2. b[p] = m /\ \A q \in Products : q # p => b[q] = a[q]
    BY <1>2, <2>1 DEF Lines
  <2> QED BY <1>1, <1>4, <2>2 DEF Wants
<1> QED BY <1>5, <1>6

\* A click that calls the cart.
LEMMA CallAsked ==
  ASSUME TypeInv, TabInv, AskedInv, NEW call, MayAsk("cart", call), NEW c,
         c = CartMutation(tab, call, 0), Keeps(tab, c), Turns(Render(c)),
         srv' = srv, seen \subseteq seen',
         NEW p \in Products, NEW n \in Nat, Wants(asked, asked', p, n),
         call.op \in {"add", "set"} => call.product = p,
         call.op = "add" => call.qty <= n,
         call.op = "set" => \E x \in Lines : Shows(tab, x) /\ call.qty <= x[p] + n
  PROVE  AskedInv'
<1>1. PICK t, carts, want, more : t = tab /\ carts = srv.carts /\ want = asked /\ more = asked'
  OBVIOUS
<1>2. Shape(t) /\ Typed(t) /\ carts \in [Shoppers -> Lines] /\ want \in Lines
  BY <1>1, SoundTyped DEF TabInv, TypeInv, Server
<1>3. call \in CartCalls
  BY DEF MayAsk, ArgsOf
<1>4. Sound(c) /\ HasRoom(c)
  BY ClickRoom
<1>5. 0 \in 0..MaxFlows
  BY FlowsAssumption
<1>6. HasRoom(CartMutation(t, call, 0)) /\ c = CartMutation(t, call, 0)
  BY <1>1, <1>4
<1>7. CartAsked(t, c, call)
  BY <1>2, <1>5, <1>6, CartAsks
<1>8. Fine(t) /\ (Clean(seen) => Affords(t, carts, want))
  BY <1>1, AskedIs
<1>9. Fine(c)
  BY <1>7, <1>8 DEF CartAsked
<1>10. Wants(want, more, p, n)
  BY <1>1
<1>11. call.op = "set" => \E x \in Lines : Shows(t, x) /\ call.qty <= x[p] + n
  BY <1>1
<1>12. Affords(t, carts, want) => Affords(c, carts, more)
  BY <1>2, <1>3, <1>7, <1>10, <1>11, CallAffords
<1>13. Clean(seen') => Clean(seen)
  BY DEF Clean
<1>14. Clean(seen') => Affords(c, srv'.carts, asked')
  BY <1>1, <1>8, <1>12, <1>13
<1>15. Once(c)
  BY <1>9 DEF Fine
<1> QED BY <1>4, <1>14, <1>15, RendersAsked

\* A click that writes the selection it was rendered with.
LEMMA SelectAsked ==
  ASSUME TypeInv, TabInv, AskedInv, NEW lines \in Lines, NEW p \in Products, NEW n \in Nat,
         ClickFor(p, n, SaveBuffer(tab, lines)), ~ SignedIn,
         \A q \in Products : \/ lines[q] <= tab.shown.buffer[q]
                             \/ q = p /\ lines[q] <= tab.shown.buffer[q] + n
  PROVE  AskedInv'
<1>1. PICK t, carts, want, more, old :
        /\ t = tab /\ carts = srv.carts /\ want = asked /\ more = asked'
        /\ old = tab.shown.buffer
  OBVIOUS
<1>2. PICK d : d = SaveBuffer(t, lines)
  OBVIOUS
<1>3. Sound(t) /\ Shape(t) /\ t.st \in State /\ t.shown \in State
  BY <1>1, ShownTyped, SoundTyped DEF TabInv
<1>4. carts \in [Shoppers -> Lines] /\ want \in Lines /\ old \in Lines
  BY <1>1, <1>3 DEF TypeInv, Server, State
<1>5. /\ Turns(Render(d)) /\ srv' = srv /\ asked' = [asked EXCEPT ![p] = Capped(@ + n)]
      /\ seen' = seen \cup (IF t.shown.buffer # t.st.buffer THEN {"stale"} ELSE {})
  BY <1>1, <1>2 DEF ClickFor, SignedIn, shown
<1>6. Sound(d)
  BY <1>2, <1>3, SaveBufferKeeps
<1>7. Frames(t, d) /\ d.st = SetCartBuffer(t.st, lines) /\ d.inflight = t.inflight /\ d.stored = lines
  BY <1>2, <1>3, SaveBufferIs
<1>8. d.flows = t.flows /\ d.shown = t.shown /\ d.widget = t.widget
  BY <1>7 DEF Frames
<1>9. d.st.cart = t.st.cart /\ d.st.buffer = lines /\ d.st.pending = t.st.pending
  BY <1>3, <1>7, SetCartBufferIs
<1>10. /\ \A i \in FlowIds : (Carts(d, i) <=> Carts(t, i)) /\ (SignsIn(d, i) <=> SignsIn(t, i))
       /\ Replays(d) <=> Replays(t)
  BY <1>8 DEF Carts, SignsIn, Replays
<1>11. Fine(t) /\ (Clean(seen) => Affords(t, carts, want))
  BY <1>1, AskedIs
<1>12. Once(d)
  BY <1>7, <1>8, <1>9, <1>10, <1>11 DEF Fine, Once
<1>13. ASSUME Clean(seen')
       PROVE  Affords(d, carts, more)
  <2>1. Clean(seen) /\ old = t.st.buffer
    BY <1>1, <1>5, <1>13 DEF Clean
  <2>2. Wants(want, more, p, n)
    BY <1>1, <1>5, WantsIs
  <2>3. ASSUME NEW s \in Lines, Selects(d, s)
        PROVE  \E x \in Lines : /\ Selects(t, x)
                                /\ \A q \in Products :
                                     s[q] <= x[q] \/ (q = p /\ s[q] <= x[q] + n)
    <3>1. CASE Selects(t, s)
      BY <2>3, <3>1, LinesAre
    <3>2. CASE s = lines /\ ~ Replays(d)
      <4>1. Selects(t, old)
        BY <1>10, <2>1, <3>2 DEF Selects
      <4> QED BY <1>1, <1>4, <3>2, <4>1
    <3> QED BY <1>8, <1>9, <1>10, <2>3, <3>1, <3>2 DEF Selects
  <2>4. \A x : Shows(d, x) => Shows(t, x)
    BY <1>8, <1>9, <1>10 DEF Shows
  <2>5. \A a : Sends(d, a) => Sends(t, a)
    BY <1>8, <1>10 DEF Sends
  <2>6. Affords(t, carts, want)
    BY <1>11, <2>1
  <2> QED BY <1>4, <2>2, <2>3, <2>4, <2>5, <2>6, BufferAffords
<1>14. Clean(seen') => Affords(d, srv'.carts, asked')
  BY <1>1, <1>5, <1>13
<1> QED BY <1>5, <1>6, <1>12, <1>14, RendersAsked

\* A line that is set is one the page shows.
LEMMA SetAsked ==
  ASSUME TypeInv, TabInv, AskedInv, NEW p \in Products, InCart(p) > 0,
         NEW k \in 0..MaxQty, NEW n \in Nat, k <= InCart(p) + n,
         NEW c, c = SetQty(tab, p, k), Turns(Render(c)), srv' = srv, seen \subseteq seen',
         Wants(asked, asked', p, n)
  PROVE  AskedInv'
<1>1. PICK op \in {"add", "set", "remove"} : op = IF k = 0 THEN "remove" ELSE "set"
  OBVIOUS
<1>2. PICK call : call = Call(op, p, k, None)
  OBVIOUS
<1>3. MayAsk("cart", call)
  BY <1>2, MayCall
<1>4. call.op = op /\ call.product = p /\ call.qty = k /\ op # "add"
  BY <1>1, <1>2 DEF Call
<1>5. c = CartMutation(tab, call, 0)
  BY <1>1, <1>2 DEF SetQty
<1>6. Keeps(tab, c)
  BY SetQtyKeeps DEF TabInv
<1>7. PICK x : x = tab.shown.cart
  OBVIOUS
<1>8. x \in Lines /\ x # None /\ InCart(p) = x[p]
  <2>1. tab.shown \in State
    BY ShownTyped
  <2>2. x \in Lines \cup {None}
    BY <1>7, <2>1 DEF State
  <2>3. x # None /\ InCart(p) = x[p]
    BY <1>7 DEF InCart, shown
  <2> QED BY <2>2, <2>3
<1>9. Shows(tab, x)
  BY <1>7, <1>8 DEF Shows
<1>10. call.op = "set" => \E y \in Lines : Shows(tab, y) /\ call.qty <= y[p] + n
  BY <1>4, <1>8, <1>9
<1> QED BY <1>3, <1>4, <1>5, <1>6, <1>10, CallAsked

LEMMA RemoveAsked ==
  ASSUME TypeInv, TabInv, AskedInv, NEW p \in Products, Click(RemoveItem(tab, p))
  PROVE  AskedInv'
<1>1. PICK no, op : no = 0 /\ op = "remove" /\ op \in {"add", "set", "remove"}
  OBVIOUS
<1>2. PICK call : call = Call(op, p, no, None)
  OBVIOUS
<1>3. no \in 0..MaxQty /\ no \in Nat
  BY <1>1, ShopAssumption
<1>4. MayAsk("cart", call)
  BY <1>1, <1>2, <1>3, MayCall
<1>5. call.op \notin {"add", "set"}
  BY <1>1, <1>2 DEF Call
<1>6. PICK c : c = RemoveItem(tab, p)
  OBVIOUS
<1>7. c = CartMutation(tab, call, 0)
  BY <1>1, <1>2, <1>6 DEF RemoveItem
<1>8. Keeps(tab, c)
  BY <1>3, <1>6, SetQtyKeeps DEF TabInv
<1>9. Turns(Render(c)) /\ srv' = srv /\ asked' = asked /\ seen' = seen
  BY <1>6 DEF Click
<1>10. Wants(asked, asked', p, no)
  BY <1>1, <1>3, <1>9, WantsIs
<1> QED BY <1>3, <1>4, <1>5, <1>7, <1>8, <1>9, <1>10, CallAsked

\* A visitor's add goes to the selection, a shopper's to the cart.
LEMMA BuyAsked ==
  ASSUME TypeInv, TabInv, AskedInv, NEW p \in Products, NEW n \in 0..MaxQty,
         NEW then \in Screen \cup {None}, NEW c, ClickFor(p, n, c), Keeps(tab, c),
         \/ c = tab
         \/ SignedIn /\ c = CartMutation(tab, Call("add", p, n, then), 0)
         \/ ~ SignedIn /\ c = SaveBuffer(tab, BufferAdd(tab.shown.buffer, p, n))
  PROVE  AskedInv'
<1>1. n \in Nat
  BY ShopAssumption
<1>2. /\ Turns(Render(c)) /\ srv' = srv /\ asked' = [asked EXCEPT ![p] = Capped(@ + n)]
      /\ seen \subseteq seen'
  BY DEF ClickFor
<1>3. Wants(asked, asked', p, n)
  BY <1>1, <1>2, WantsIs
<1>4. CASE c = tab
  <2>1. PICK t, carts, want, more :
          t = tab /\ carts = srv.carts /\ want = asked /\ more = asked'
    OBVIOUS
  <2>2. Sound(t) /\ carts \in [Shoppers -> Lines] /\ want \in Lines
    BY <2>1 DEF TabInv, TypeInv, Server
  <2>3. Fine(t) /\ (Clean(seen) => Affords(t, carts, want))
    BY <2>1, AskedIs
  <2>4. \A s \in Lines : Selects(t, s) =>
           \E x \in Lines : /\ Selects(t, x)
                            /\ \A q \in Products : s[q] <= x[q] \/ (q = p /\ s[q] <= x[q] + n)
    BY LinesAre
  <2>5. Wants(want, more, p, n)
    BY <1>3, <2>1
  <2>6. Affords(t, carts, want) => Affords(t, carts, more)
    BY <1>1, <2>2, <2>4, <2>5, BufferAffords
  <2>7. Clean(seen') => Clean(seen)
    BY <1>2 DEF Clean
  <2>8. Clean(seen') => Affords(t, srv'.carts, asked')
    BY <1>2, <2>1, <2>3, <2>6, <2>7
  <2> QED BY <1>2, <1>4, <2>1, <2>2, <2>3, <2>8, RendersAsked DEF Fine
<1>5. CASE c = CartMutation(tab, Call("add", p, n, then), 0)
  <2>1. PICK op \in {"add", "set", "remove"} : op = "add"
    OBVIOUS
  <2>2. PICK call : call = Call(op, p, n, then)
    OBVIOUS
  <2>3. MayAsk("cart", call)
    BY <2>2, MayCall
  <2>4. call.op = "add" /\ call.product = p /\ call.qty <= n
    BY <1>1, <2>1, <2>2 DEF Call
  <2>5. c = CartMutation(tab, call, 0)
    BY <1>5, <2>1, <2>2
  <2> QED BY <1>1, <1>2, <1>3, <2>3, <2>4, <2>5, CallAsked
<1>6. CASE ~ SignedIn /\ c = SaveBuffer(tab, BufferAdd(tab.shown.buffer, p, n))
  <2>1. PICK old, lines : old = tab.shown.buffer /\ lines = BufferAdd(old, p, n)
    OBVIOUS
  <2>2. old \in Lines
    BY <2>1, ShownTyped DEF State
  <2>3. lines \in Lines
    BY <1>1, <2>1, <2>2, BufferIs
  <2>4. ASSUME NEW q \in Products
        PROVE  lines[q] <= old[q] \/ (q = p /\ lines[q] <= old[q] + n)
    <3>1. PICK v : v = Capped(old[p] + n)
      OBVIOUS
    <3>2. lines = [old EXCEPT ![p] = v]
      BY <2>1, <2>2, <3>1 DEF BufferAdd
    <3>3. lines[q] = IF q = p THEN v ELSE old[q]
      BY <2>2, <3>2 DEF Lines
    <3>4. old[q] \in Nat /\ old[p] \in Nat
      BY <2>2, LinesAre
    <3>5. v <= old[p] + n
      BY <1>1, <3>1, <3>4, ShopAssumption DEF Capped
    <3> QED BY <3>3, <3>4, <3>5
  <2>5. ClickFor(p, n, SaveBuffer(tab, lines))
    BY <1>6, <2>1
  <2> QED BY <1>1, <1>6, <2>1, <2>3, <2>4, <2>5, SelectAsked
<1> QED BY <1>4, <1>5, <1>6

\* The quantity of a selected product.
LEMMA SetBufferAsked ==
  ASSUME TypeInv, TabInv, AskedInv, NEW p \in Products, NEW k \in 0..MaxQty, NEW n \in Nat,
         ~ SignedIn, k <= tab.shown.buffer[p] + n, ClickFor(p, n, SetBufferQty(tab, p, k))
  PROVE  AskedInv'
<1>1. PICK old : old = tab.shown.buffer
  OBVIOUS
<1>2. old \in Lines /\ k \in Nat
  BY <1>1, ShownTyped, ShopAssumption DEF State
<1>3. PICK lines : lines = [old EXCEPT ![p] = IF @ = 0 THEN 0 ELSE Capped(k)]
  OBVIOUS
<1>4. lines \in Lines
  BY <1>2, <1>3, BufferIs
<1>5. ASSUME NEW q \in Products
      PROVE  lines[q] <= old[q] \/ (q = p /\ lines[q] <= old[q] + n)
  <2>1. PICK v : v = IF old[p] = 0 THEN 0 ELSE Capped(k)
    OBVIOUS
  <2>2. lines = [old EXCEPT ![p] = v]
    BY <1>2, <1>3, <2>1 DEF Lines
  <2>3. lines[q] = IF q = p THEN v ELSE old[q]
    BY <1>2, <2>2 DEF Lines
  <2>4. old[q] \in Nat /\ old[p] \in Nat
    BY <1>2, LinesAre
  <2>5. v <= old[p] + n
    BY <1>1, <1>2, <2>1, <2>4, ShopAssumption DEF Capped
  <2> QED BY <2>3, <2>4, <2>5
<1>6. ClickFor(p, n, SaveBuffer(tab, lines))
  BY <1>1, <1>3 DEF SetBufferQty
<1> QED BY <1>1, <1>4, <1>5, <1>6, SelectAsked

LEMMA ClickCardAsked ==
  ASSUME TypeInv, TabInv, AskedInv, NEW p \in Products, ClickCard(p)
  PROVE  AskedInv'
<1>1. PICK t, m, k : t = tab /\ m = InCart(p) /\ k = Selected(p)
  OBVIOUS
<1>2. Sound(t) /\ m \in 0..MaxQty /\ k \in 0..MaxQty /\ MaxQty \in Nat /\ MaxQty > 0
  BY <1>1, ShownTyped, ShopAssumption DEF TabInv
<1>3. k > 0 => ~ SignedIn /\ k = tab.shown.buffer[p]
  BY <1>1 DEF Selected, shown
<1>4. CASE m > 0 /\ Click(SetQty(tab, p, m - 1))
  <2>1. PICK n, zero : n = m - 1 /\ zero = 0
    OBVIOUS
  <2>2. n \in 0..MaxQty /\ zero \in Nat /\ n <= m + zero
    BY <1>2, <1>4, <2>1
  <2>3. PICK c : c = SetQty(tab, p, n)
    OBVIOUS
  <2>4. Turns(Render(c)) /\ srv' = srv /\ asked' = asked /\ seen' = seen
    BY <1>4, <2>1, <2>3 DEF Click
  <2>5. Wants(asked, asked', p, zero)
    BY <2>1, <2>2, <2>4, WantsIs
  <2> QED BY <1>1, <1>4, <2>2, <2>3, <2>4, <2>5, SetAsked
<1>5. CASE m \in 1..(MaxQty - 1) /\ ClickFor(p, 1, SetQty(tab, p, m + 1))
  <2>1. PICK n, one : n = m + 1 /\ one = 1
    OBVIOUS
  <2>2. n \in 0..MaxQty /\ one \in Nat /\ n <= m + one /\ m > 0
    BY <1>2, <1>5, <2>1
  <2>3. PICK c : c = SetQty(tab, p, n)
    OBVIOUS
  <2>4. ClickFor(p, one, c)
    BY <1>5, <2>1, <2>3
  <2>5. Turns(Render(c)) /\ srv' = srv /\ asked' = [asked EXCEPT ![p] = Capped(@ + one)]
        /\ seen \subseteq seen'
    BY <2>4 DEF ClickFor
  <2>6. Wants(asked, asked', p, one)
    BY <2>2, <2>5, WantsIs
  <2> QED BY <1>1, <2>2, <2>3, <2>5, <2>6, SetAsked
<1>6. CASE k > 0 /\ ClickFor(p, 0, SetBufferQty(tab, p, k - 1))
  <2>1. PICK n, zero : n = k - 1 /\ zero = 0
    OBVIOUS
  <2>2. n \in 0..MaxQty /\ zero \in Nat /\ n <= tab.shown.buffer[p] + zero
    BY <1>2, <1>3, <1>6, <2>1
  <2>3. ClickFor(p, zero, SetBufferQty(tab, p, n))
    BY <1>6, <2>1
  <2> QED BY <1>3, <1>6, <2>2, <2>3, SetBufferAsked
<1>7. CASE k \in 1..(MaxQty - 1) /\ ClickFor(p, 1, SetBufferQty(tab, p, k + 1))
  <2>1. PICK n, one : n = k + 1 /\ one = 1
    OBVIOUS
  <2>2. n \in 0..MaxQty /\ one \in Nat /\ n <= tab.shown.buffer[p] + one /\ k > 0
    BY <1>2, <1>3, <1>7, <2>1
  <2>3. ClickFor(p, one, SetBufferQty(tab, p, n))
    BY <1>7, <2>1
  <2> QED BY <1>3, <2>2, <2>3, SetBufferAsked
<1>8. CASE ClickFor(p, 1, AddItem(tab, p, 1))
  <2>1. PICK one, then, c : one = 1 /\ then = None /\ c = AddItem(tab, p, one)
    OBVIOUS
  <2>2. one \in 0..MaxQty /\ then \in Screen \cup {None}
    BY <1>2, <2>1
  <2>3. ClickFor(p, one, c)
    BY <1>8, <2>1
  <2>4. Keeps(tab, c)
    BY <2>1, <2>2, SelectKeeps DEF TabInv
  <2>5. \/ c = tab
        \/ SignedIn /\ c = CartMutation(tab, Call("add", p, one, then), 0)
        \/ ~ SignedIn /\ c = SaveBuffer(tab, BufferAdd(tab.shown.buffer, p, one))
    BY <2>1 DEF AddItem, SignedIn, shown
  <2> QED BY <2>2, <2>3, <2>4, <2>5, BuyAsked
<1> QED BY <1>1, <1>4, <1>5, <1>6, <1>7, <1>8 DEF ClickCard

LEMMA BuyFromPdpAsked ==
  ASSUME TypeInv, TabInv, AskedInv, BuyFromPdp
  PROVE  AskedInv'
<1>1. PICK t : t = tab
  OBVIOUS
<1>2. Sound(t) /\ t.st \in State /\ t.shown \in State /\ t.shown.pdp \in t.shown.products
  BY <1>1, ShownTyped DEF TabInv, BuyFromPdp, shown
<1>3. ASSUME NEW up \in BOOLEAN, Click([tab EXCEPT !.st = BumpQty(@, up)])
      PROVE  AskedInv'
  <2>1. PICK s : s = BumpQty(t.st, up)
    OBVIOUS
  <2>2. Follows(tab.st, s)
    BY <1>1, <1>2, <2>1, BumpQtyFollows
  <2>3. Same(tab.st, s)
    BY <1>1, <1>2, <2>1, GoSame
  <2>4. Click([tab EXCEPT !.st = s])
    BY <1>1, <1>3, <2>1
  <2> QED BY <2>2, <2>3, <2>4, DispatchAsked
<1>4. CASE ClickFor(shown.pdp, shown.qty, AddFromPdp(tab))
  <2>1. PICK p, n, c, then :
          p = t.shown.pdp /\ n = t.shown.qty /\ c = AddFromPdp(t) /\ then = "cart"
    OBVIOUS
  <2>2. p \in Products /\ n \in 0..MaxQty
    BY <1>2, <2>1, ShopAssumption DEF State
  <2>3. then \in Screen \cup {None}
    BY <2>1 DEF Screen
  <2>4. Keeps(tab, c)
    BY <1>1, <1>2, <2>1, AddFromPdpKeeps
  <2>5. ClickFor(p, n, c)
    BY <1>1, <1>4, <2>1 DEF shown
  <2>6. \/ c = tab
        \/ SignedIn /\ c = CartMutation(tab, Call("add", p, n, then), 0)
        \/ ~ SignedIn /\ c = SaveBuffer(tab, BufferAdd(tab.shown.buffer, p, n))
    BY <1>1, <2>1 DEF AddFromPdp, SignedIn, shown
  <2> QED BY <2>2, <2>3, <2>4, <2>5, <2>6, BuyAsked
<1> QED BY <1>3, <1>4 DEF BuyFromPdp

LEMMA ClickLineAsked ==
  ASSUME TypeInv, TabInv, AskedInv, NEW p \in Products, ClickLine(p)
  PROVE  AskedInv'
<1>1. PICK m : m = InCart(p)
  OBVIOUS
<1>2. m \in 0..MaxQty /\ m > 0 /\ MaxQty \in Nat /\ MaxQty > 0
  BY <1>1, ShownTyped, ShopAssumption DEF ClickLine
<1>3. CASE Click(SetQty(tab, p, m - 1))
  <2>1. PICK n, zero : n = m - 1 /\ zero = 0
    OBVIOUS
  <2>2. n \in 0..MaxQty /\ zero \in Nat /\ n <= m + zero
    BY <1>2, <2>1
  <2>3. PICK c : c = SetQty(tab, p, n)
    OBVIOUS
  <2>4. Turns(Render(c)) /\ srv' = srv /\ asked' = asked /\ seen' = seen
    BY <1>3, <2>1, <2>3 DEF Click
  <2>5. Wants(asked, asked', p, zero)
    BY <2>1, <2>2, <2>4, WantsIs
  <2> QED BY <1>1, <1>2, <2>2, <2>3, <2>4, <2>5, SetAsked
<1>4. CASE m < MaxQty /\ ClickFor(p, 1, SetQty(tab, p, m + 1))
  <2>1. PICK n, one : n = m + 1 /\ one = 1
    OBVIOUS
  <2>2. n \in 0..MaxQty /\ one \in Nat /\ n <= m + one
    BY <1>2, <1>4, <2>1
  <2>3. PICK c : c = SetQty(tab, p, n)
    OBVIOUS
  <2>4. ClickFor(p, one, c)
    BY <1>4, <2>1, <2>3
  <2>5. Turns(Render(c)) /\ srv' = srv /\ asked' = [asked EXCEPT ![p] = Capped(@ + one)]
        /\ seen \subseteq seen'
    BY <2>4 DEF ClickFor
  <2>6. Wants(asked, asked', p, one)
    BY <2>2, <2>5, WantsIs
  <2> QED BY <1>1, <1>2, <2>2, <2>3, <2>5, <2>6, SetAsked
<1>5. CASE Click(RemoveItem(tab, p))
  BY <1>5, RemoveAsked
<1> QED BY <1>1, <1>3, <1>4, <1>5 DEF ClickLine

-----------------------------------------------------------------------------
(* The offline selection: what the server answers.                         *)

\* The call of i has been answered, and d is otherwise as c.
Hears(c, d, i, status, body) ==
  /\ d.st = c.st /\ d.shown = c.shown /\ d.inflight = c.inflight
  /\ d.widget = c.widget /\ d.stored = c.stored
  /\ \A j \in FlowIds : j # i => d.flows[j] = c.flows[j]
  /\ d.flows[i] # None /\ d.flows[i].kind = c.flows[i].kind /\ d.flows[i].arg = c.flows[i].arg
  /\ d.flows[i].at = "answered" /\ d.flows[i].status = status /\ d.flows[i].body = body

LEMMA DeliveredHears ==
  ASSUME NEW c, Sound(c), NEW i \in FlowIds, c.flows[i] # None, c.flows[i].at = "asked",
         NEW status \in Statuses, NEW body \in BodiesOf(c.flows[i].kind, c.flows[i].arg) \cup {None},
         status = "ok" => body \in BodiesOf(c.flows[i].kind, c.flows[i].arg)
  PROVE  Hears(c, Delivered(c, i, status, body), i, status, body)
<1>1. PICK f, g, d : /\ f = c.flows[i] /\ g = AnsweredCall(f, status, body)
                     /\ d = Delivered(c, i, status, body)
  OBVIOUS
<1>2. Shape(c) /\ GoodCall(f)
  BY <1>1, SoundTyped
<1>3. f = [kind |-> f.kind, at |-> f.at, tok |-> f.tok, arg |-> f.arg, of |-> f.of,
           status |-> f.status, body |-> f.body]
  BY <1>2, GoodCallIs
<1>4. g # None
  BY <1>1, <1>2, GoodAnswered
<1>5. /\ Places(c, d, i, g) /\ d.st = c.st /\ d.inflight = c.inflight /\ d.stored = c.stored
  BY <1>1, <1>2, <1>3, AnswerIs
<1>6. g.kind = f.kind /\ g.arg = f.arg /\ g.at = "answered" /\ g.status = status /\ g.body = body
  BY <1>1 DEF AnsweredCall
<1> QED BY <1>1, <1>4, <1>5, <1>6 DEF Hears, Places

LEMMA HearsFine ==
  ASSUME NEW c, NEW d, NEW i \in FlowIds, c.flows[i] # None, c.flows[i].at = "asked",
         NEW status, NEW body, Hears(c, d, i, status, body)
  PROVE  /\ Fine(c) => Fine(d)
         /\ \A j \in FlowIds : (Carts(d, j) <=> Carts(c, j)) /\ (SignsIn(d, j) <=> SignsIn(c, j))
         /\ \A j \in FlowIds : SignsIn(c, j) => d.flows[j].arg = c.flows[j].arg
         /\ Replays(d) <=> Replays(c)
         /\ \A a : Sends(d, a) => Sends(c, a)
         /\ \A s : Selects(d, s) =>
              Selects(c, s) \/ (SignsIn(c, i) /\ s = Left(d.flows[i]))
         /\ \A x : Shows(d, x) =>
              \/ Shows(c, x)
              \/ Writes(c.flows[i]) /\ status = "ok" /\ x = body
<1>1. \A j \in FlowIds : (Carts(d, j) <=> Carts(c, j)) /\ (SignsIn(d, j) <=> SignsIn(c, j))
  BY DEF Carts, SignsIn, Hears
<1>2. \A j \in FlowIds : SignsIn(c, j) => d.flows[j].arg = c.flows[j].arg
  BY DEF Hears
<1>3. Replays(d) <=> Replays(c)
  BY <1>1, <1>2 DEF Replays
<1>4. ASSUME Fine(c)
      PROVE  Fine(d)
  <2>1. Once(d)
    BY <1>1, <1>2, <1>4 DEF Fine, Once, Hears
  <2>2. Awaits(d)
    BY <1>1, <1>4 DEF Fine, Awaits, Hears
  <2> QED BY <2>1, <2>2 DEF Fine
<1>5. \A a : Sends(d, a) => Sends(c, a)
  BY <1>1 DEF Sends, Hears
<1>6. ASSUME NEW s, Selects(d, s)
      PROVE  Selects(c, s) \/ (SignsIn(c, i) /\ s = Left(d.flows[i]))
  <2>1. CASE \E j \in FlowIds : SignsIn(d, j) /\ s = Left(d.flows[j])
    <3>1. PICK j \in FlowIds : SignsIn(d, j) /\ s = Left(d.flows[j])
      BY <2>1
    <3>2. CASE j = i
      BY <1>1, <3>1, <3>2
    <3>3. CASE j # i
      BY <1>1, <3>1, <3>3 DEF Selects, Hears
    <3> QED BY <3>2, <3>3
  <2>2. CASE s = NoLines
    BY <2>2 DEF Selects
  <2>3. CASE s = d.st.buffer /\ ~ Replays(d)
    BY <1>3, <2>3 DEF Selects, Hears
  <2>4. CASE s = d.shown.buffer /\ "widgetSession" \notin d.shown.pending
    BY <2>4 DEF Selects, Hears
  <2>5. CASE d.widget # None /\ s = d.widget.selection
    BY <2>5 DEF Selects, Hears
  <2> QED BY <1>6, <2>1, <2>2, <2>3, <2>4, <2>5 DEF Selects
<1>7. ASSUME NEW x, Shows(d, x)
      PROVE  Shows(c, x) \/ (Writes(c.flows[i]) /\ status = "ok" /\ x = body)
  <2>1. CASE x # None /\ x \in {d.st.cart, d.shown.cart}
    BY <2>1 DEF Shows, Hears
  <2>2. CASE \E j \in FlowIds :
               /\ Carts(d, j) \/ (SignsIn(d, j) /\ d.flows[j].arg.step = "replay")
               /\ d.flows[j].at = "answered" /\ d.flows[j].status = "ok" /\ x = d.flows[j].body
    <3>1. PICK j \in FlowIds :
            /\ Carts(d, j) \/ (SignsIn(d, j) /\ d.flows[j].arg.step = "replay")
            /\ d.flows[j].at = "answered" /\ d.flows[j].status = "ok" /\ x = d.flows[j].body
      BY <2>2
    <3>2. CASE j = i
      BY <3>1, <3>2 DEF Hears, Carts, SignsIn, Writes
    <3>3. CASE j # i
      BY <1>1, <3>1, <3>3 DEF Shows, Hears
    <3> QED BY <3>2, <3>3
  <2> QED BY <1>7, <2>1, <2>2 DEF Shows
<1> QED BY <1>1, <1>2, <1>3, <1>4, <1>5, <1>6, <1>7

LEMMA HearsAffords ==
  ASSUME NEW c, NEW d, NEW i \in FlowIds, c.flows[i] # None, c.flows[i].at = "asked",
         GoodCall(c.flows[i]), Fine(c), NEW status, NEW body, Hears(c, d, i, status, body),
         NEW s \in Server, NEW want \in Lines, Affords(c, s.carts, want),
         NEW o, o.srv \in Server, o.status = status, o.body = body, Made(s, c.flows[i], o)
  PROVE  Affords(d, o.srv.carts, want)
<1>1. PICK f, carts, next : f = c.flows[i] /\ carts = s.carts /\ next = o.srv.carts
  OBVIOUS
<1>2. carts \in [Shoppers -> Lines] /\ next \in [Shoppers -> Lines] /\ Affords(c, carts, want)
  BY <1>1, ServerIs
<1>3. /\ \A a : Sends(d, a) => Sends(c, a)
      /\ \A x : Selects(d, x) => Selects(c, x) \/ (SignsIn(c, i) /\ x = Left(d.flows[i]))
      /\ \A x : Shows(d, x) => Shows(c, x) \/ (Writes(f) /\ status = "ok" /\ x = body)
  BY <1>1, HearsFine
<1>4. GoodCall(f) /\ f.arg \in ArgsOf(f.kind) /\ f.at = "asked"
  BY <1>1 DEF GoodCall
<1>5. \A x : Shows(d, x) => Shows(c, x) \/ \E v \in Shoppers : x = next[v]
  BY <1>1, <1>3 DEF Made
<1>6. d.flows[i].kind = f.kind /\ d.flows[i].arg = f.arg /\ d.flows[i].at = "answered"
  BY <1>1 DEF Hears
<1>7. CASE ~ Writes(f)
  <2>1. \A v \in Shoppers, p \in Products : next[v][p] <= carts[v][p]
    BY <1>1, <1>7 DEF Made, NoMore
  <2>2. ASSUME NEW x \in Lines, Selects(d, x)
        PROVE  \E t \in Lines : /\ Selects(c, t)
                                /\ \A p \in Products :
                                     /\ x[p] <= t[p]
                                     /\ \A u \in Shoppers :
                                          next[u][p] + x[p] <= carts[u][p] + t[p]
    <3>1. Selects(c, x)
      <4>1. CASE SignsIn(c, i) /\ x = Left(d.flows[i])
        <5>1. x = f.arg.left /\ x = Left(f)
          BY <1>1, <1>4, <1>6, <1>7, <4>1 DEF Left, Writes, SignsIn
        <5> QED BY <1>1, <4>1, <5>1 DEF Selects
      <4> QED BY <1>3, <2>2, <4>1
    <3>2. ASSUME NEW p \in Products
          PROVE  /\ x[p] <= x[p]
                 /\ \A u \in Shoppers : next[u][p] + x[p] <= carts[u][p] + x[p]
      <4>1. x[p] \in Nat
        BY LinesAre
      <4>2. \A u \in Shoppers : next[u][p] \in Nat /\ carts[u][p] \in Nat
        BY <1>2, LinesAre
      <4> QED BY <2>1, <4>1, <4>2
    <3> QED BY <3>1, <3>2
  <2> QED BY <1>1, <1>2, <1>3, <1>5, <2>2, GivesAffords
<1>8. CASE f.kind = "cart"
  <2>1. f.arg \in CartCalls /\ Writes(f) /\ Write(f) = f.arg
    BY <1>4, <1>8 DEF ArgsOf, Writes, Write
  <2>2. PICK a : a = f.arg
    OBVIOUS
  <2>3. a \in CartCalls /\ Sends(c, a)
    BY <1>1, <1>4, <1>8, <2>1, <2>2 DEF Sends, Carts
  <2>4. Makes(s, o.srv, a)
    BY <1>1, <2>1, <2>2 DEF Made
  <2>5. \A v \in Shoppers, p \in Products :
          \/ next[v][p] <= carts[v][p]
          \/ /\ a.product = p
             /\ \/ a.op = "add" /\ next[v][p] <= carts[v][p] + a.qty
                \/ a.op = "set" /\ next[v][p] <= a.qty
    BY <1>1, <2>4 DEF Makes
  <2>6. Carts(c, i) /\ ~ SignsIn(c, i)
    BY <1>1, <1>8 DEF Carts, SignsIn
  <2>7. \A x : Selects(d, x) => Selects(c, x)
    BY <1>3, <2>6
  <2>8. \A b : ~ Sends(d, b)
    <3>1. \A j \in FlowIds : Carts(d, j) => j = i
      <4>1. \A j \in FlowIds : Carts(d, j) => Carts(c, j)
        BY HearsFine
      <4> QED BY <2>6, <4>1 DEF Fine, Once
    <3> QED BY <1>6, <3>1 DEF Sends
  <2> QED BY <1>1, <1>2, <1>5, <2>3, <2>5, <2>7, <2>8, CartGivesAffords
<1>9. CASE f.kind = "widgetSession" /\ f.arg.step = "replay"
  <2>1. PICK left : left = f.arg.left
    OBVIOUS
  <2>2. left \in Lines /\ ~ IsEmpty(left)
    BY <1>4, <1>9, <2>1 DEF ArgsOf, SignIns, GoodCall
  <2>3. PICK n : n = NextItem(left)
    OBVIOUS
  <2>4. n \in Products
    BY <2>2, <2>3, ReplayCallIs
  <2>5. PICK a : a = ReplayCall(left)
    OBVIOUS
  <2>6. a.op = "add" /\ a.product = n /\ a.qty = left[n]
    BY <2>3, <2>5 DEF ReplayCall, Call
  <2>7. Makes(s, o.srv, a)
    BY <1>1, <1>9, <2>1, <2>5 DEF Made, Writes, Write
  <2>8. \A v \in Shoppers, p \in Products :
          next[v][p] <= carts[v][p] \/ (p = n /\ next[v][p] <= carts[v][p] + left[p])
    BY <1>1, <2>6, <2>7 DEF Makes
  <2>9. SignsIn(c, i) /\ f.arg.replays
    <3>1. SignsIn(c, i)
      BY <1>1, <1>9 DEF SignsIn
    <3> QED BY <1>1, <2>1, <2>2, <3>1 DEF Fine, Once
  <2>10. Selects(c, left)
    BY <1>1, <1>4, <2>1, <2>9 DEF Selects, Left
  <2>11. Left(d.flows[i]) = [left EXCEPT ![n] = 0]
    BY <1>6, <1>9, <2>1, <2>3 DEF Left
  <2>12. ASSUME NEW x, Selects(d, x)
         PROVE  x = NoLines \/ x = [left EXCEPT ![n] = 0]
    <3>1. /\ \A j \in FlowIds : SignsIn(d, j) => j = i
          /\ Replays(d) /\ d.widget = None /\ "widgetSession" \in d.shown.pending
      <4>1. Fine(d) /\ SignsIn(d, i) /\ d.flows[i].arg.step = "replay" /\ d.flows[i].arg.replays
        BY <1>1, <1>6, <1>9, <2>9, HearsFine
      <4> QED BY <4>1 DEF Fine, Once, Awaits, Replays
    <3> QED BY <2>11, <2>12, <3>1 DEF Selects
  <2>13. ASSUME NEW x \in Lines, Selects(d, x)
         PROVE  \E t \in Lines : /\ Selects(c, t)
                                 /\ \A p \in Products :
                                      /\ x[p] <= t[p]
                                      /\ \A u \in Shoppers :
                                           next[u][p] + x[p] <= carts[u][p] + t[p]
    <3>1. ASSUME NEW p \in Products
          PROVE  /\ x[p] <= left[p]
                 /\ \A u \in Shoppers : next[u][p] + x[p] <= carts[u][p] + left[p]
      <4>1. x[p] = 0 \/ (p # n /\ x[p] = left[p])
        <5>1. CASE x = NoLines
          BY <5>1 DEF NoLines
        <5>2. CASE x = [left EXCEPT ![n] = 0]
          BY <2>2, <2>4, <5>2 DEF Lines
        <5> QED BY <2>12, <2>13, <5>1, <5>2
      <4>2. left[p] \in Nat /\ \A u \in Shoppers : next[u][p] \in Nat /\ carts[u][p] \in Nat
        BY <1>2, <2>2, LinesAre
      <4> QED BY <2>8, <4>1, <4>2
    <3> QED BY <2>2, <2>10, <3>1
  <2> QED BY <1>1, <1>2, <1>3, <1>5, <2>13, GivesAffords
<1> QED BY <1>7, <1>8, <1>9 DEF Writes

\* An answer that reaches the page.
LEMMA DeliverAsked ==
  ASSUME TypeInv, TabInv, AskedInv, NEW i \in FlowIds, tab.flows[i] # None,
         tab.flows[i].at = "asked", NEW o, Made(srv, tab.flows[i], o), o.srv \in Server,
         o.status \in Statuses, o.body \in BodiesOf(tab.flows[i].kind, tab.flows[i].arg) \cup {None},
         o.status = "ok" => o.body \in BodiesOf(tab.flows[i].kind, tab.flows[i].arg),
         Deliver(i, o), asked' = asked, seen \subseteq seen'
  PROVE  AskedInv'
<1>1. PICK c, d, s, want : c = tab /\ d = tab' /\ s = srv /\ want = asked
  OBVIOUS
<1>2. PICK status, body : status = o.status /\ body = o.body
  OBVIOUS
<1>3. Sound(c) /\ GoodCall(c.flows[i]) /\ s \in Server /\ want \in Lines
  BY <1>1, SoundTyped DEF TabInv, TypeInv
<1>4. d = Delivered(c, i, status, body) /\ srv' = o.srv
  BY <1>1, <1>2 DEF Deliver, Delivered
<1>5. Hears(c, d, i, status, body)
  <2>1. /\ status \in Statuses /\ body \in BodiesOf(c.flows[i].kind, c.flows[i].arg) \cup {None}
        /\ status = "ok" => body \in BodiesOf(c.flows[i].kind, c.flows[i].arg)
        /\ c.flows[i] # None /\ c.flows[i].at = "asked"
    BY <1>1, <1>2
  <2> QED BY <1>3, <1>4, <2>1, DeliveredHears
<1>6. c.flows[i] # None /\ c.flows[i].at = "asked" /\ Made(s, c.flows[i], o)
  BY <1>1
<1>7. Fine(c) /\ (Clean(seen) => Affords(c, s.carts, want))
  BY <1>1, AskedIs
<1>8. Fine(d)
  BY <1>5, <1>6, <1>7, HearsFine
<1>9. Clean(seen') => Clean(seen)
  BY DEF Clean
<1>10. Clean(seen') => Affords(d, o.srv.carts, want)
  BY <1>2, <1>3, <1>5, <1>6, <1>7, <1>9, HearsAffords
<1> QED BY <1>1, <1>4, <1>8, <1>10, AskedTurns

LEMMA ServeAsked ==
  ASSUME TypeInv, TabInv, AskedInv, NEW i \in FlowIds, Serve(i)
  PROVE  AskedInv'
<1>1. tab.flows[i] # None /\ tab.flows[i].at = "asked" /\ asked' = asked /\ seen \subseteq seen'
  BY DEF Serve
<1>2. PICK f : f = tab.flows[i]
  OBVIOUS
<1>3. GoodCall(f) /\ f.at = "asked"
  BY <1>1, <1>2, SoundTyped DEF TabInv
<1>4. PICK B : B = BodiesOf(f.kind, f.arg)
  OBVIOUS
<1>5. Answers(Reply(f), B) /\ Answers(Surprise(f), B)
  BY <1>3, <1>4, ReplyAnswers, SurpriseAnswers
<1>6. PICK o \in Reply(f) \cup Surprise(f) : Deliver(i, o)
  BY <1>2 DEF Serve
<1>7. Made(srv, f, o)
  BY <1>3, ReplyMakes, SurpriseMakes
<1>8. /\ o.srv \in Server /\ o.status \in Statuses /\ o.body \in B \cup {None}
      /\ o.status = "ok" => o.body \in B
  BY <1>5 DEF Answers
<1> QED BY <1>1, <1>2, <1>4, <1>6, <1>7, <1>8, DeliverAsked

-----------------------------------------------------------------------------
(* The offline selection: what happens meanwhile, and where it starts.     *)

LEMMA ServerStepsAsked ==
  ASSUME TypeInv, TabInv, AskedInv,
         Capture \/ (\E o \in OrderIds : Webhook(o) \/ OrderEnds(o)) \/ (\E t \in Tokens : Expire(t))
  PROVE  AskedInv'
<1>1. PICK c, s, t, want : c = tab /\ s = srv /\ t = srv' /\ want = asked
  OBVIOUS
<1>2. /\ s \in Server /\ want \in Lines /\ tab' = c /\ asked' = want /\ seen \subseteq seen'
      /\ t \in Server
  <2>1. TypeInv'
    BY ServerStepsKeep DEF Goes
  <2> QED BY <1>1, <2>1 DEF TypeInv, Capture, Webhook, OrderEnds, Expire
<1>3. NoMore(s, t)
  <2>1. ASSUME t.carts = s.carts
        PROVE  NoMore(s, t)
    BY <1>2, <2>1, SameCarts
  <2>2. CASE Capture
    <3>1. t = [s EXCEPT !.orders[c.sheet.order].paid = TRUE]
      BY <1>1, <2>2 DEF Capture
    <3>2. t.carts = s.carts
      BY <1>2, <3>1 DEF Server
    <3> QED BY <2>1, <3>2
  <2>3. ASSUME NEW o \in OrderIds, Webhook(o)
        PROVE  NoMore(s, t)
    BY <1>1, <1>2, <2>3, PlaceMakes DEF Webhook
  <2>4. ASSUME NEW o \in OrderIds, OrderEnds(o)
        PROVE  NoMore(s, t)
    <3>1. t = [s EXCEPT !.orders[o].status = "ended"]
      BY <1>1, <2>4 DEF OrderEnds
    <3>2. t.carts = s.carts
      BY <1>2, <3>1 DEF Server
    <3> QED BY <2>1, <3>2
  <2>5. ASSUME NEW x \in Tokens, Expire(x)
        PROVE  NoMore(s, t)
    <3>1. t = [s EXCEPT !.lapsed = @ \cup {x}]
      BY <1>1, <2>5 DEF Expire
    <3>2. t.carts = s.carts
      BY <1>2, <3>1 DEF Server
    <3> QED BY <2>1, <3>2
  <2> QED BY <2>2, <2>3, <2>4, <2>5
<1>4. PICK carts, next : carts = s.carts /\ next = t.carts
  OBVIOUS
<1>5. carts \in [Shoppers -> Lines] /\ next \in [Shoppers -> Lines]
  BY <1>2, <1>3, <1>4, ServerIs
<1>6. \A x \in Lines : Selects(c, x) =>
         \E y \in Lines : /\ Selects(c, y)
                          /\ \A p \in Products :
                               /\ x[p] <= y[p]
                               /\ \A u \in Shoppers : next[u][p] + x[p] <= carts[u][p] + y[p]
  <2> SUFFICES ASSUME NEW x \in Lines, Selects(c, x), NEW p \in Products
      PROVE  x[p] <= x[p] /\ \A u \in Shoppers : next[u][p] + x[p] <= carts[u][p] + x[p]
    OBVIOUS
  <2>1. \A u \in Shoppers : next[u][p] <= carts[u][p]
    BY <1>3, <1>4 DEF NoMore
  <2>2. x[p] \in Nat /\ \A u \in Shoppers : next[u][p] \in Nat /\ carts[u][p] \in Nat
    BY <1>5, LinesAre
  <2> QED BY <2>1, <2>2
<1>7. Affords(c, carts, want) => Affords(c, next, want)
  BY <1>2, <1>5, <1>6, GivesAffords
<1>8. Fine(c) /\ (Clean(seen) => Affords(c, carts, want))
  BY <1>1, <1>4, AskedIs
<1>9. Clean(seen') => Clean(seen)
  BY <1>2 DEF Clean
<1>10. Clean(seen') => Affords(c, srv'.carts, asked')
  BY <1>1, <1>2, <1>4, <1>7, <1>8, <1>9
<1> QED BY <1>2, <1>8, <1>10, AskedTurns

\* A page loaded in the middle of a replay is marked.
LEMMA ReloadAsked ==
  ASSUME TypeInv, TabInv, AskedInv, Reload
  PROVE  AskedInv'
<1>1. PICK c, token, stored, carts, want :
        /\ c = tab /\ token = tab.token /\ stored = tab.stored
        /\ carts = srv.carts /\ want = asked
  OBVIOUS
<1>2. token \in Tokens \cup {NoToken} /\ stored \in Lines
  BY <1>1, SoundTyped DEF TabInv, Typed
<1>3. PICK d : d = OpenPage(token, stored)
  OBVIOUS
<1>4. tab' = d /\ HasRoom(d) /\ srv' = srv /\ asked' = asked
  BY <1>1, <1>3 DEF Reload, Turns
<1>5. /\ Fine(d)
      /\ \A s : Selects(d, s) => s \in {NoLines, stored}
      /\ \A x : ~ Shows(d, x)
      /\ \A a : Sends(d, a) => a.op \in {"get", "remove"}
  BY <1>2, <1>3, <1>4, OpenPageBears
<1>6. Fine(c) /\ (Clean(seen) => Affords(c, carts, want))
  BY <1>1, AskedIs
<1>7. ASSUME Clean(seen')
      PROVE  Affords(d, carts, want)
  <2>1. Clean(seen) /\ ~ Replaying
    BY <1>7 DEF Reload, Clean
  <2>2. ~ Replays(c)
    BY <1>1, <2>1 DEF Replaying, Replays, Waiting, SignsIn
  <2>3. stored = c.st.buffer
    BY <1>1, <1>6 DEF Fine, Once
  <2>4. Less(c, d)
    BY <1>5, <2>2, <2>3 DEF Less, Selects
  <2> QED BY <1>6, <2>1, <2>4, LessAffords
<1> QED BY <1>1, <1>4, <1>5, <1>7, AskedTurns

\* What was asked for at first is the cart with the selection.
LEMMA StartAffords ==
  ASSUME NEW c, NEW cart \in Lines, NEW stored \in Lines, NEW carts \in [Shoppers -> Lines],
         NEW want, \A p \in Products : want[p] = Capped(cart[p] + stored[p]),
         \A u \in Shoppers, p \in Products : carts[u][p] <= cart[p],
         \A s : Selects(c, s) => s \in {NoLines, stored},
         \A x : Shows(c, x) => x = cart,
         \A a : Sends(c, a) => a.op \in {"get", "remove"}
  PROVE  Affords(c, carts, want)
<1> SUFFICES ASSUME NEW s \in Lines, NEW p \in Products, Selects(c, s)
    PROVE  /\ \A u \in Shoppers : Fits(want, p, carts[u][p] + s[p])
           /\ \A x \in Lines : Shows(c, x) => Fits(want, p, x[p] + s[p])
  BY DEF Affords
<1>1. s[p] \in Nat /\ cart[p] \in Nat /\ stored[p] \in Nat /\ \A u \in Shoppers : carts[u][p] \in Nat
  BY LinesAre
<1>2. s[p] <= stored[p]
  BY <1>1 DEF NoLines
<1>3. ASSUME NEW n \in Nat, n <= cart[p]
      PROVE  Fits(want, p, n + s[p])
  BY <1>1, <1>2, <1>3, ShopAssumption DEF Fits, Capped
<1> QED BY <1>1, <1>3

LEMMA AtRestShows ==
  ASSUME habit.stored \in Lines, NEW token \in Tokens \cup {NoToken},
         NEW user \in Shoppers \cup {None}, NEW cart \in Lines \cup {None}, NEW book \in Book
  PROVE  LET c == AtRest(token, user, cart, book)
         IN /\ Fine(c)
            /\ \A s : Selects(c, s) => s \in {NoLines, habit.stored}
            /\ \A x : Shows(c, x) => x # None /\ x = cart
            /\ \A a : ~ Sends(c, a)
<1>1. PICK c : c = AtRest(token, user, cart, book)
  OBVIOUS
<1>2. Resting(c)
  BY <1>1, AtRestIs
<1>3. /\ c.stored = habit.stored /\ c.shown = c.st
      /\ c.st.buffer = habit.stored /\ c.st.cart = cart
  BY <1>1 DEF AtRest, InitialState
<1>4. /\ Fine(c)
      /\ \A s : Selects(c, s) => s \in {NoLines, c.st.buffer, c.shown.buffer}
      /\ \A x : Shows(c, x) => x # None /\ x \in {c.st.cart, c.shown.cart}
      /\ \A a : ~ Sends(c, a)
  BY <1>2, <1>3, RestingFine
<1> QED BY <1>1, <1>3, <1>4

LEMMA RestoringShows ==
  ASSUME habit.stored \in Lines, HasRoom(Restoring)
  PROVE  /\ Fine(Restoring)
         /\ \A s : Selects(Restoring, s) => s \in {NoLines, habit.stored}
         /\ \A x : ~ Shows(Restoring, x)
         /\ \A a : Sends(Restoring, a) => a.op \in {"get", "remove"}
<1>1. 1 \in Tokens \cup {NoToken} /\ None \in Shoppers \cup {None} /\ None \in Lines \cup {None}
  BY SessionsAssumption DEF Tokens
<1>2. PICK page : page = AtRest(1, None, None, NoBook)
  OBVIOUS
<1>3. Resting(page)
  BY <1>1, <1>2, AtRestIs, NoLinesIs
<1>4. Sound(page) /\ Rested(page) /\ HasRoom(page)
  BY <1>3, RestingSound, RestingRoom
<1>5. PICK i : i = FreeSlot(page)
  OBVIOUS
<1>6. PICK d : d = Join(Ask([page EXCEPT !.st = BootStart(@)], "boot", None, 0), i)
  OBVIOUS
<1>7. i \in FlowIds /\ Sound(d) /\ Calm(page, d) /\ Asks(page, d) /\ Aside(page, d)
  BY <1>4, <1>5, <1>6, StartedKeeps, StartedAside
<1>8. i \in 0..MaxFlows
  BY <1>7, FlowsAssumption DEF FlowIds
<1>9. PICK e : e = RestoreSession(d, i)
  OBVIOUS
<1>10. Asks(d, e)
  BY <1>7, <1>8, <1>9, RestoreSessionAsks DEF Asks
<1>11. Restoring = Render(e)
  BY <1>2, <1>5, <1>6, <1>9 DEF Restoring
<1>12. Shape(e) /\ Typed(e) /\ e.st.pdp = e.shown.pdp
  BY <1>4, <1>7, <1>10 DEF Asks, Rested
<1>13. HasRoom(Render(e))
  BY <1>11
<1>14. HasRoom(e)
  BY <1>12, <1>13, RenderRoom
<1>15. Sound(e)
  BY <1>7, <1>8, <1>9, <1>14, RestoreSessionKeeps
<1>16. Aside(page, e)
  <2>1. Aside(d, e)
    BY <1>7, <1>8, <1>9, <1>14, RestoreSessionAside DEF Asks
  <2> QED BY <1>7, <2>1, AsideTrans
<1>17. /\ Fine(page)
       /\ \A s : Selects(page, s) => s \in {NoLines, habit.stored}
       /\ \A x : ~ Shows(page, x)
       /\ \A a : ~ Sends(page, a)
  BY <1>1, <1>2, AtRestShows, NoLinesIs
<1>18. Fine(e) /\ Less(page, e)
  BY <1>16, <1>17, AsideBears DEF Bears
<1>19. Fine(Render(e)) /\ Less(e, Render(e))
  BY <1>13, <1>15, <1>18, RenderBears DEF Fine
<1>20. Less(page, Render(e))
  BY <1>18, <1>19, LessTrans
<1> QED BY <1>11, <1>17, <1>19, <1>20 DEF Less

LEMMA InitAsked ==
  ASSUME Init
  PROVE  AskedInv
<1>1. PICK user \in Shoppers :
        /\ srv.carts = [u \in Shoppers |-> IF u = user THEN habit.cart ELSE NoLines]
        /\ tab \in InitTab(user) /\ HasRoom(tab)
  BY DEF Init
<1>2. /\ habit.start \in {"opening", "restoring", "out", "in"}
      /\ habit.cart \in Lines /\ habit.stored \in Lines /\ habit.book \in Book
      /\ asked = [p \in Products |-> Capped(habit.cart[p] + habit.stored[p])]
  BY HabitsAssumption DEF Init
<1>3. PICK c, cart, stored, carts, want :
        c = tab /\ cart = habit.cart /\ stored = habit.stored /\ carts = srv.carts /\ want = asked
  OBVIOUS
<1>4. carts \in [Shoppers -> Lines] /\ cart \in Lines /\ stored \in Lines
  BY <1>1, <1>2, <1>3, NoLinesIs
<1>5. \A p \in Products : want[p] = Capped(cart[p] + stored[p])
  BY <1>2, <1>3
<1>6. \A u \in Shoppers, p \in Products : carts[u][p] <= cart[p]
  <2> SUFFICES ASSUME NEW u \in Shoppers, NEW p \in Products
      PROVE  carts[u][p] <= cart[p]
    OBVIOUS
  <2>1. carts[u] = IF u = user THEN cart ELSE NoLines
    BY <1>1, <1>3
  <2>2. NoLines[p] = 0 /\ cart[p] \in Nat
    BY <1>4, LinesAre DEF NoLines
  <2> QED BY <2>1, <2>2
<1>7. 1 \in Tokens \cup {NoToken} /\ NoToken \in Tokens \cup {NoToken}
      /\ None \in Shoppers \cup {None} /\ None \in Lines \cup {None}
  BY SessionsAssumption DEF Tokens
<1>8. /\ Fine(c)
      /\ \A s : Selects(c, s) => s \in {NoLines, stored}
      /\ \A x : Shows(c, x) => x = cart
      /\ \A a : Sends(c, a) => a.op \in {"get", "remove"}
  <2>1. CASE habit.start = "opening"
    <3>1. PICK t \in {NoToken, 1} : c = OpenPage(t, stored)
      BY <1>1, <1>3, <2>1 DEF InitTab
    <3> QED BY <1>1, <1>3, <1>4, <1>7, <3>1, OpenPageBears
  <2>2. CASE habit.start = "restoring"
    <3>1. c = Restoring
      BY <1>1, <1>3, <2>2 DEF InitTab
    <3> QED BY <1>1, <1>2, <1>3, <3>1, RestoringShows
  <2>3. CASE habit.start = "out"
    <3>1. PICK token, none, book : token = NoToken /\ none = None /\ book = NoBook
      OBVIOUS
    <3>2. c = AtRest(token, none, none, book)
      BY <1>1, <1>3, <2>3, <3>1 DEF InitTab
    <3>3. /\ token \in Tokens \cup {NoToken} /\ none \in Shoppers \cup {None}
          /\ none \in Lines \cup {None} /\ book \in Book
      BY <1>7, <3>1, NoLinesIs
    <3>4. /\ Fine(c)
          /\ \A s : Selects(c, s) => s \in {NoLines, habit.stored}
          /\ \A x : Shows(c, x) => x # None /\ x = none
          /\ \A a : ~ Sends(c, a)
      BY <1>2, <3>2, <3>3, AtRestShows
    <3> QED BY <1>3, <3>1, <3>4
  <2>4. CASE habit.start = "in"
    <3>1. PICK token, book : token = 1 /\ book = habit.book
      OBVIOUS
    <3>2. c = AtRest(token, user, cart, book)
      BY <1>1, <1>3, <2>4, <3>1 DEF InitTab
    <3>3. /\ token \in Tokens \cup {NoToken} /\ user \in Shoppers \cup {None}
          /\ cart \in Lines \cup {None} /\ book \in Book
      BY <1>2, <1>4, <1>7, <3>1
    <3>4. /\ Fine(c)
          /\ \A s : Selects(c, s) => s \in {NoLines, habit.stored}
          /\ \A x : Shows(c, x) => x # None /\ x = cart
          /\ \A a : ~ Sends(c, a)
      BY <1>2, <3>2, <3>3, AtRestShows
    <3> QED BY <1>3, <3>4
  <2> QED BY <1>2, <2>1, <2>2, <2>3, <2>4
<1>9. Affords(c, carts, want)
  BY <1>4, <1>5, <1>6, <1>8, StartAffords
<1> QED BY <1>3, <1>8, <1>9, AskedIs

LEMMA StepAsked ==
  ASSUME TypeInv, TabInv, AskedInv, [Next]_vars
  PROVE  AskedInv'
<1>1. CASE Clicks
  BY <1>1, ClickCardAsked, ClickPdpAsked, ClickLineAsked, ClickAddressAsked, BuyFromPdpAsked,
     ProceedAsked, ClickFormAsked, ClickPayAsked, LinksAsked, ClickBannerAsked, ClickSignOutAsked,
     LaunchAsked DEF Clicks
<1>2. CASE World
  BY <1>2, WidgetSucceedsAsked, WidgetFailsAsked, HandlerAsked, CloseSheetAsked, ReloadAsked,
     ServerStepsAsked DEF World
<1>3. CASE Runtime
  BY <1>3, CommitAsked, ServeAsked, ResumeAsked, FinishJoinAsked, WakeAsked DEF Runtime, Progress
<1>4. CASE UNCHANGED vars
  <2>1. tab' = tab /\ srv' = srv /\ asked' = asked /\ seen' = seen
    BY <1>4 DEF vars
  <2> QED BY <2>1 DEF AskedInv
<1> QED BY <1>1, <1>2, <1>3, <1>4 DEF Next

\* With nothing more to add, no cart is fuller than what was asked for.
LEMMA AskedFollows == TypeInv /\ AskedInv => AskedOnce
<1> SUFFICES ASSUME TypeInv, AskedInv, seen \cap {"torn", "stale"} = {},
                    NEW u \in Shoppers, NEW p \in Products
    PROVE  srv.carts[u][p] <= asked[p]
  BY DEF AskedOnce
<1>1. PICK c, carts, want, none : c = tab /\ carts = srv.carts /\ want = asked /\ none = NoLines
  OBVIOUS
<1>2. carts \in [Shoppers -> Lines] /\ none \in Lines /\ none[p] = 0
  BY <1>1, NoLinesIs DEF TypeInv, Server, NoLines
<1>3. Affords(c, carts, want) /\ Selects(c, none)
  BY <1>1 DEF AskedInv, Selects
<1>4. PICK m : m = carts[u][p] + none[p]
  OBVIOUS
<1>5. Fits(want, p, m)
  BY <1>2, <1>3, <1>4 DEF Affords
<1>6. carts[u][p] \in 0..MaxQty
  BY <1>2, LinesAre
<1>7. m = carts[u][p]
  BY <1>2, <1>4, <1>6
<1>8. Capped(m) = m
  BY <1>6, <1>7, ShopAssumption DEF Capped
<1> QED BY <1>1, <1>5, <1>7, <1>8 DEF Fits

(* What was selected offline is added to the account's cart once: over any  *)
(* number of sign-ins, retries, lost answers and reloads the server never   *)
(* holds more of a product than the shopper asked for (useShop.ts, the      *)
(* replay of the buffer), but after a reload in the middle of a replay or a *)
(* click on a selection that is no longer the one shown.                    *)
THEOREM SelectionIsAskedOnce == Spec => []AskedOnce
<1>1. Init => AskedInv
  BY InitAsked
<1>2. (TypeInv /\ TabInv) /\ AskedInv /\ [Next]_vars => AskedInv'
  BY StepAsked
<1> QED BY <1>1, <1>2, Invariance, AskedFollows, PTL DEF Spec

=============================================================================
