----------------------- MODULE StorefrontSettleProofs -----------------------
(***************************************************************************)
(* What the storefront shows at last is what the server has: the cart and  *)
(* the address book, for any number of calls under way and any habit.      *)
(*                                                                         *)
(* The argument.  SettleInv follows every answer on its way: one that      *)
(* brings a cart or a book was asked in this session and tells the         *)
(* server's state of now (Honest), and while the page does not show that   *)
(* state something under way will (RenewsCart, RenewsBook).  A step of the *)
(* tab that loses neither carries it over (Carries); the turn of an answer *)
(* shows what it brings, or asks anew (Settles); a page that opens or      *)
(* signs in owes nothing to what was before (Fresh, SignedInAs); and the   *)
(* server changes a cart or a book only under a call that will tell of it, *)
(* or the step is marked (Serves).                                         *)
(***************************************************************************)
EXTENDS StorefrontSelectionProofs

-----------------------------------------------------------------------------
(* What the page shows at last: steps that lose nothing of it.             *)

\* The cart and the book that are shown.
Untouched(s, t) == t.cart = s.cart /\ t.addresses = s.addresses

\* A call that has just been asked, or that waits for others or a timer.
Begins(f, tok) ==
  \/ f.at = "asked" /\ f.tok = tok /\ (f.kind = "restore" => tok # NoToken)
  \/ f.at = "joining"
  \/ f.at = "resting" /\ f.kind = "confirm"

\* The call f becomes g: what f would yet show, g would.
Passes(f, g, tok) ==
  /\ g = f \/ g = None \/ Begins(g, tok)
  /\ RenewsCart(f) => RenewsCart(g)
  /\ RenewsBook(f) => RenewsBook(g)
  /\ f # None /\ f.kind \in {"cart", "addresses"} => g # None /\ g.kind = f.kind

Carries(c, d) ==
  /\ d.token = c.token /\ Untouched(c.st, d.st)
  /\ \A key \in {"cart", "addresses"} : key \in d.inflight => key \in c.inflight \/ Has(d, key)
  /\ \A i \in FlowIds : Passes(c.flows[i], d.flows[i], c.token)

HonestCart(c, cart) == \A i \in FlowIds : BringsCart(c.flows[i]) => Honest(c.flows[i], c.token, cart)
HonestBook(c, book) == \A i \in FlowIds : BringsBook(c.flows[i]) => Honest(c.flows[i], c.token, book)

\* The session, if it goes on, shows what it would have shown; of the cart and
\* the book those that what names.
Settles(c, d, what) ==
  /\ Loads(c) => Loads(d)
  /\ \A sessions : Known(c, sessions) => Known(d, sessions)
  /\ Restores(c) => Restores(d)
  /\ d.token # NoToken =>
       /\ d.token = c.token
       /\ \A cart : HonestCart(c, cart) => HonestCart(d, cart)
       /\ \A book : HonestBook(c, book) => HonestBook(d, book)
       /\ "cart" \in what => \A cart : Restores(c) /\ CartInv(c, cart) => CartInv(d, cart)
       /\ "book" \in what => \A book : Restores(c) /\ BookInv(c, book) => BookInv(d, book)

Both == {"cart", "book"}

LEMMA PassesSame ==
  ASSUME NEW f, NEW tok
  PROVE  Passes(f, f, tok)
BY DEF Passes

LEMMA PassesTrans ==
  ASSUME NEW f, NEW g, NEW h, NEW tok, Passes(f, g, tok), Passes(g, h, tok)
  PROVE  Passes(f, h, tok)
BY DEF Passes

LEMMA CarriesSame ==
  ASSUME NEW c
  PROVE  Carries(c, c)
BY PassesSame DEF Carries, Untouched

LEMMA CarriesTrans ==
  ASSUME NEW c, NEW d, NEW e, Carries(c, d), Carries(d, e)
  PROVE  Carries(c, e)
<1>1. e.token = c.token /\ Untouched(c.st, e.st)
  BY DEF Carries, Untouched
<1>2. \A i \in FlowIds : Passes(c.flows[i], e.flows[i], c.token)
  BY PassesTrans DEF Carries
<1>3. \A key \in {"cart", "addresses"} : Has(d, key) => Has(e, key)
  BY DEF Carries, Passes, Has
<1>4. \A key \in {"cart", "addresses"} : key \in e.inflight => key \in c.inflight \/ Has(e, key)
  BY <1>3 DEF Carries
<1> QED BY <1>1, <1>2, <1>4 DEF Carries

LEMMA SettlesTrans ==
  ASSUME NEW c, NEW d, NEW e, NEW what, Settles(c, d, what), Settles(d, e, what)
  PROVE  Settles(c, e, what)
BY DEF Settles

LEMMA CarriesSettles ==
  ASSUME NEW c, NEW d, Carries(c, d)
  PROVE  Settles(c, d, Both)
<1>1. ASSUME Loads(c)
      PROVE  Loads(d)
  BY <1>1 DEF Carries, Passes, Has, Loads
<1>2. \A i \in FlowIds : d.flows[i] = c.flows[i] \/ d.flows[i] = None \/ Begins(d.flows[i], c.token)
  BY DEF Carries, Passes
<1>3. ASSUME NEW sessions, Known(c, sessions)
      PROVE  Known(d, sessions)
  BY <1>2, <1>3 DEF Carries, Known, SignsIn, Fulfilled, Begins
<1>4. ASSUME Restores(c)
      PROVE  Restores(d)
  BY <1>2, <1>4 DEF Restores, Begins
<1>5. d.token = c.token
  BY DEF Carries
<1>6. ASSUME NEW cart, HonestCart(c, cart)
      PROVE  HonestCart(d, cart)
  BY <1>2, <1>5, <1>6 DEF HonestCart, Honest, Begins, BringsCart
<1>7. ASSUME NEW book, HonestBook(c, book)
      PROVE  HonestBook(d, book)
  BY <1>2, <1>5, <1>7 DEF HonestBook, Honest, Begins, BringsBook
<1>8. ASSUME NEW cart, CartInv(c, cart)
      PROVE  CartInv(d, cart)
  <2>1. HonestCart(d, cart)
    BY <1>6, <1>8 DEF CartInv, HonestCart
  <2>2. d.st.cart = cart \/ \E i \in FlowIds : RenewsCart(d.flows[i])
    BY <1>8 DEF CartInv, Carries, Passes, Untouched
  <2> QED BY <2>1, <2>2 DEF CartInv, HonestCart
<1>9. ASSUME NEW book, BookInv(c, book)
      PROVE  BookInv(d, book)
  <2>1. HonestBook(d, book)
    BY <1>7, <1>9 DEF BookInv, HonestBook
  <2>2. d.st.addresses = book \/ \E i \in FlowIds : RenewsBook(d.flows[i])
    BY <1>9 DEF BookInv, Carries, Passes, Untouched
  <2> QED BY <2>1, <2>2 DEF BookInv, HonestBook
<1> QED BY <1>1, <1>3, <1>4, <1>5, <1>6, <1>7, <1>8, <1>9 DEF Settles

\* What is shown anew, or will be, need not be carried.
LEMMA SettlesMore ==
  ASSUME NEW c, NEW d, NEW what, Settles(c, d, what), NEW more, more \subseteq Both,
         "cart" \in more \ what => \E i \in FlowIds : RenewsCart(d.flows[i]),
         "book" \in more \ what => \E i \in FlowIds : RenewsBook(d.flows[i])
  PROVE  Settles(c, d, more)
<1>1. ASSUME "cart" \in more, d.token # NoToken, NEW cart, Restores(c), CartInv(c, cart)
      PROVE  CartInv(d, cart)
  <2>1. HonestCart(c, cart)
    BY <1>1 DEF CartInv, HonestCart
  <2>2. HonestCart(d, cart)
    BY <1>1, <2>1 DEF Settles
  <2>3. CASE "cart" \in what
    BY <1>1, <2>3 DEF Settles
  <2>4. CASE "cart" \notin what
    BY <1>1, <2>2, <2>4 DEF CartInv, HonestCart
  <2> QED BY <2>3, <2>4
<1>2. ASSUME "book" \in more, d.token # NoToken, NEW book, Restores(c), BookInv(c, book)
      PROVE  BookInv(d, book)
  <2>1. HonestBook(c, book)
    BY <1>2 DEF BookInv, HonestBook
  <2>2. HonestBook(d, book)
    BY <1>2, <2>1 DEF Settles
  <2>3. CASE "book" \in what
    BY <1>2, <2>3 DEF Settles
  <2>4. CASE "book" \notin what
    BY <1>2, <2>2, <2>4 DEF BookInv, HonestBook
  <2> QED BY <2>3, <2>4
<1> QED BY <1>1, <1>2 DEF Settles

LEMMA FrameCarries ==
  ASSUME NEW c, NEW d, Frames(c, d), d.token = c.token, Untouched(c.st, d.st),
         \A key \in {"cart", "addresses"} : key \in d.inflight => key \in c.inflight
  PROVE  Carries(c, d)
<1>1. \A i \in FlowIds : Passes(c.flows[i], d.flows[i], c.token)
  BY PassesSame DEF Frames
<1> QED BY <1>1 DEF Carries

LEMMA PlaceCarries ==
  ASSUME NEW c, NEW d, NEW i \in FlowIds, NEW f, Places(c, d, i, f), d.token = c.token,
         Untouched(c.st, d.st), Passes(c.flows[i], f, c.token),
         \A key \in {"cart", "addresses"} :
           key \in d.inflight => key \in c.inflight \/ (f # None /\ f.kind = key)
  PROVE  Carries(c, d)
<1>1. \A j \in FlowIds : Passes(c.flows[j], d.flows[j], c.token)
  BY PassesSame DEF Places
<1>2. d.flows[i] = f
  BY DEF Places
<1>3. \A key \in {"cart", "addresses"} : key \in d.inflight => key \in c.inflight \/ Has(d, key)
  BY <1>2 DEF Has
<1> QED BY <1>1, <1>3 DEF Carries

LEMMA StCarries ==
  ASSUME NEW c, Shape(c), NEW s, Untouched(c.st, s)
  PROVE  Carries(c, [c EXCEPT !.st = s])
<1>1. PICK d : d = [c EXCEPT !.st = s]
  OBVIOUS
<1>2. Frames(c, d) /\ d.st = s /\ d.inflight = c.inflight /\ d.token = c.token
  BY <1>1, StIs
<1> QED BY <1>1, <1>2, FrameCarries

\* What is asked takes a free place.
LEMMA NonePasses ==
  ASSUME NEW g, NEW tok, g = None \/ Begins(g, tok)
  PROVE  Passes(None, g, tok)
BY DEF Passes, RenewsCart, RenewsBook

\* What the reducer leaves of the cart and the book.
LEMMA GoUntouched ==
  ASSUME NEW s \in State
  PROVE  /\ \A screen : Untouched(s, Go(s, screen))
         /\ Untouched(s, RequireAuth(s, "cart")) /\ Untouched(s, GoCheckout(s))
         /\ \A p : Untouched(s, OpenPdp(s, p))
         /\ \A up : Untouched(s, BumpQty(s, up))
BY DEF Untouched, State, Go, RequireAuth, GoCheckout, OpenPdp, BumpQty

LEMMA SettledUntouched ==
  ASSUME NEW s \in State, NEW key
  PROVE  /\ Untouched(s, ReqStart(s, key)) /\ Untouched(s, Settled(s, key))
         /\ Untouched(s, ReqFail(s, key))
BY DEF Untouched, State, ReqStart, Settled, ReqFail

LEMMA LoadedUntouched ==
  ASSUME NEW s \in State
  PROVE  /\ Untouched(s, TrustLoaded(s))
         /\ \A ps : Untouched(s, ProductsLoaded(s, ps))
         /\ \A p : Untouched(s, ProductLoaded(s, p))
         /\ \A ids : Untouched(s, OrdersLoaded(s, ids))
         /\ \A o : Untouched(s, CheckoutOpened(s, o))
         /\ \A order : Untouched(s, PaymentConfirmed(s, order))
         /\ Untouched(s, PaymentCancelled(s))
BY DEF Untouched, State, TrustLoaded, ProductsLoaded, ProductLoaded, OrdersLoaded, CheckoutOpened,
       PaymentConfirmed, PaymentCancelled, Settled

LEMMA UserUntouched ==
  ASSUME NEW s \in State
  PROVE  /\ Untouched(s, BootStart(s)) /\ Untouched(s, BootDone(s)) /\ Untouched(s, ClearBanner(s))
         /\ \A user : Untouched(s, OtpVerified(s, user)) /\ Untouched(s, SessionRestored(s, user))
         /\ \A lines : Untouched(s, SetCartBuffer(s, lines))
BY DEF Untouched, State, BootStart, BootDone, ClearBanner, OtpVerified, SessionRestored, SetCartBuffer

LEMMA FormUntouched ==
  ASSUME NEW s \in State
  PROVE  /\ \A a : /\ Untouched(s, AddressSaved(s, a)) /\ Untouched(s, SelectAddress(s, a))
                   /\ Untouched(s, ShowAddressForm(s, a))
         /\ Untouched(s, HideAddressForm(s)) /\ Untouched(s, SetAddr(s))
         /\ Untouched(s, SetAddrFieldError(s))
BY DEF Untouched, State, AddressSaved, SelectAddress, ShowAddressForm, HideAddressForm, SetAddr,
       SetAddrFieldError, Settled

LEMMA ShowsAnew ==
  ASSUME NEW s \in State
  PROVE  /\ \A lines : /\ CartLoaded(s, lines).cart = lines
                       /\ CartLoaded(s, lines).addresses = s.addresses
         /\ \A book : /\ AddressesLoaded(s, book).addresses = book
                      /\ AddressesLoaded(s, book).cart = s.cart
                      /\ AddressDeleted(s, book).addresses = book
                      /\ AddressDeleted(s, book).cart = s.cart
BY DEF State, CartLoaded, AddressesLoaded, AddressDeleted, WithBook, Settled

-----------------------------------------------------------------------------
(* What the page shows at last: the commands that ask.                     *)

LEMMA AskCarries ==
  ASSUME NEW c, Shape(c), Typed(c), NEW kind \in Kind, NEW arg \in ArgsOf(kind),
         NEW of \in 0..MaxFlows, HasRoom(Ask(c, kind, arg, of)),
         kind = "restore" => c.token # NoToken
  PROVE  LET d == Ask(c, kind, arg, of)
         IN Carries(c, d) /\ \E i \in FlowIds : /\ d.flows[i] # None /\ d.flows[i].kind = kind
                                               /\ d.flows[i].at = "asked"
<1>1. PICK d : d = Ask(c, kind, arg, of)
  OBVIOUS
<1>2. PICK i, f : i = FreeSlot(c) /\ f = Flow(c, kind, arg, of)
  OBVIOUS
<1>3. /\ i \in FlowIds /\ c.flows[i] = None /\ Places(c, d, i, f)
      /\ d.st = c.st /\ d.inflight = c.inflight /\ d.token = c.token
  BY <1>1, <1>2, AskIs DEF Typed
<1>4. f # None /\ f.kind = kind /\ f.at = "asked" /\ f.tok = c.token
  BY <1>2, FlowIs DEF Typed
<1>5. Passes(c.flows[i], f, c.token)
  BY <1>3, <1>4, NonePasses DEF Begins
<1>6. Carries(c, d)
  BY <1>3, <1>5, PlaceCarries DEF Untouched
<1>7. d.flows[i] = f
  BY <1>3 DEF Places
<1> QED BY <1>1, <1>3, <1>4, <1>6, <1>7

LEMMA GuardedCarries ==
  ASSUME NEW c, Shape(c), Typed(c), NEW key \in RequestKey, NEW arg, MayAsk(key, arg),
         NEW of \in 0..MaxFlows, HasRoom(Guarded(c, key, arg, of))
  PROVE  LET d == Guarded(c, key, arg, of)
         IN /\ Carries(c, d)
            /\ key \notin c.inflight =>
                 \E i \in FlowIds : d.flows[i] # None /\ d.flows[i].kind = key /\ d.flows[i].arg = arg
<1>1. CASE key \in c.inflight
  BY <1>1, CarriesSame DEF Guarded
<1>2. CASE key \notin c.inflight
  <2>1. PICK d : d = Guarded(c, key, arg, of)
    OBVIOUS
  <2>2. PICK i, f :
          /\ i \in FlowIds /\ c.flows[i] = None /\ Places(c, d, i, f) /\ f # None /\ GoodCall(f)
          /\ f.kind = key /\ f.at = "asked" /\ f.arg = arg /\ f.tok = c.token
          /\ Typed(d) /\ d.st = ReqStart(c.st, key) /\ d.token = c.token
          /\ d.inflight = c.inflight \cup {key} /\ d.stored = c.stored
    BY <1>2, <2>1, GuardedIs
  <2>3. Untouched(c.st, d.st)
    BY <2>2, SettledUntouched DEF Typed
  <2>4. Passes(c.flows[i], f, c.token)
    <3>1. f.kind # "restore"
      BY <2>2 DEF RequestKey
    <3> QED BY <2>2, <3>1, NonePasses DEF Begins
  <2>5. Carries(c, d)
    BY <2>2, <2>3, <2>4, PlaceCarries
  <2>6. d.flows[i] = f
    BY <2>2 DEF Places
  <2> QED BY <2>1, <2>2, <2>5, <2>6
<1> QED BY <1>1, <1>2

LEMMA LoadsCarry ==
  ASSUME NEW c, Shape(c), Typed(c), NEW of \in 0..MaxFlows
  PROVE  /\ HasRoom(LoadTrust(c, of)) => Carries(c, LoadTrust(c, of))
         /\ HasRoom(LoadProducts(c, of)) => Carries(c, LoadProducts(c, of))
         /\ HasRoom(LoadAddresses(c, of)) => Carries(c, LoadAddresses(c, of))
         /\ HasRoom(LoadOrders(c)) => Carries(c, LoadOrders(c))
         /\ HasRoom(LoadCart(c, of)) => Carries(c, LoadCart(c, of))
<1>1. /\ MayAsk("trust", None) /\ MayAsk("products", None) /\ MayAsk("addresses", None)
      /\ MayAsk("orders", None)
  BY DEF MayAsk, ArgsOf, Kind, RequestKey, CallKind
<1>2. {"trust", "products", "addresses", "orders", "cart"} \subseteq RequestKey
  BY DEF RequestKey
<1>3. 0 \in 0..MaxFlows
  BY FlowsAssumption
<1>4. HasRoom(LoadTrust(c, of)) => Carries(c, LoadTrust(c, of))
  BY <1>1, <1>2, GuardedCarries DEF LoadTrust
<1>5. HasRoom(LoadProducts(c, of)) => Carries(c, LoadProducts(c, of))
  BY <1>1, <1>2, GuardedCarries DEF LoadProducts
<1>6. HasRoom(LoadAddresses(c, of)) => Carries(c, LoadAddresses(c, of))
  BY <1>1, <1>2, GuardedCarries DEF LoadAddresses
<1>7. HasRoom(LoadOrders(c)) => Carries(c, LoadOrders(c))
  BY <1>1, <1>2, <1>3, GuardedCarries DEF LoadOrders
<1>8. PICK call : call = Call("get", None, 0, None)
  OBVIOUS
<1>9. MayAsk("cart", call)
  <2>1. call \in CartCalls /\ call.op = "get"
    BY <1>8, ShopAssumption DEF Call, CartCalls
  <2> QED BY <2>1 DEF MayAsk, ArgsOf, Kind, RequestKey, CallKind
<1>10. LoadCart(c, of) = Guarded(c, "cart", call, of)
  BY <1>8 DEF LoadCart, CartMutation
<1>11. HasRoom(LoadCart(c, of)) => Carries(c, LoadCart(c, of))
  BY <1>2, <1>9, <1>10, GuardedCarries
<1> QED BY <1>4, <1>5, <1>6, <1>7, <1>11

\* A load that is not skipped shows anew.
LEMMA LoadCartRenews ==
  ASSUME NEW c, Shape(c), Typed(c), NEW of \in 0..MaxFlows, HasRoom(LoadCart(c, of)),
         "cart" \notin c.inflight
  PROVE  \E i \in FlowIds : RenewsCart(LoadCart(c, of).flows[i])
<1>1. PICK call : call = Call("get", None, 0, None)
  OBVIOUS
<1>2. MayAsk("cart", call) /\ call.op = "get"
  <2>1. call \in CartCalls /\ call.op = "get"
    BY <1>1, ShopAssumption DEF Call, CartCalls
  <2> QED BY <2>1 DEF MayAsk, ArgsOf, Kind, RequestKey, CallKind
<1>3. LoadCart(c, of) = Guarded(c, "cart", call, of) /\ "cart" \in RequestKey
  BY <1>1 DEF LoadCart, CartMutation, RequestKey
<1>4. PICK i \in FlowIds : LET f == LoadCart(c, of).flows[i]
                           IN f # None /\ f.kind = "cart" /\ f.arg = call
  BY <1>2, <1>3, GuardedCarries
<1> QED BY <1>2, <1>4 DEF RenewsCart

LEMMA LoadBookRenews ==
  ASSUME NEW c, Shape(c), Typed(c), NEW of \in 0..MaxFlows, HasRoom(LoadAddresses(c, of)),
         "addresses" \notin c.inflight
  PROVE  \E i \in FlowIds : RenewsBook(LoadAddresses(c, of).flows[i])
<1>1. MayAsk("addresses", None) /\ "addresses" \in RequestKey
  BY DEF MayAsk, ArgsOf, Kind, RequestKey, CallKind
<1>2. PICK i \in FlowIds : LET f == LoadAddresses(c, of).flows[i]
                           IN f # None /\ f.kind = "addresses"
  BY <1>1, GuardedCarries DEF LoadAddresses
<1> QED BY <1>2 DEF RenewsBook

LEMMA RenewsCarried ==
  ASSUME NEW c, NEW d, Carries(c, d)
  PROVE  /\ (\E i \in FlowIds : RenewsCart(c.flows[i])) => \E i \in FlowIds : RenewsCart(d.flows[i])
         /\ (\E i \in FlowIds : RenewsBook(c.flows[i])) => \E i \in FlowIds : RenewsBook(d.flows[i])
BY DEF Carries, Passes

LEMMA LoadProductCarries ==
  ASSUME NEW c, Shape(c), Typed(c), NEW p \in Products, HasRoom(LoadProduct(c, p))
  PROVE  Carries(c, LoadProduct(c, p))
<1>1. PICK flows : flows = [i \in FlowIds |->
                              IF c.flows[i] # None /\ c.flows[i].kind = "product" THEN None
                              ELSE c.flows[i]]
  OBVIOUS
<1>2. PICK keys, s : keys = c.inflight \cup {"product"} /\ s = ReqStart(c.st, "product")
  OBVIOUS
<1>3. PICK e : e = [c EXCEPT !.flows = flows, !.inflight = keys, !.st = s]
  OBVIOUS
<1>4. LoadProduct(c, p) = Ask(e, "product", p, 0)
  BY <1>1, <1>2, <1>3 DEF LoadProduct
<1>5. e = [st |-> s, shown |-> c.shown, inflight |-> keys, token |-> c.token,
           stored |-> c.stored, flows |-> flows, widget |-> c.widget, sheet |-> c.sheet]
  BY <1>3 DEF Shape
<1>6. flows = [j \in FlowIds |-> flows[j]]
  BY <1>1
<1>7. Shape(e)
  BY <1>5, <1>6 DEF Shape
<1>8. "product" \in RequestKey /\ 0 \in 0..MaxFlows /\ "product" \in Kind
      /\ p \in ArgsOf("product")
  BY FlowsAssumption DEF ArgsOf, Kind, RequestKey
<1>9. s \in State /\ Untouched(c.st, s)
  BY <1>2, <1>8, ReqStartIs, SettledUntouched DEF Typed
<1>10. Typed(e)
  BY <1>2, <1>5, <1>8, <1>9 DEF Typed
<1>11. HasRoom(Ask(e, "product", p, 0))
  BY <1>4
<1>12. Carries(e, Ask(e, "product", p, 0))
  BY <1>7, <1>8, <1>10, <1>11, AskCarries
<1>13. e.flows = flows /\ e.st = s /\ e.inflight = keys /\ e.token = c.token
  BY <1>5
<1>14. \A j \in FlowIds : Passes(c.flows[j], e.flows[j], c.token)
  <2>1. ASSUME NEW f, f # None, f.kind = "product"
        PROVE  Passes(f, None, c.token)
    BY <2>1 DEF Passes, RenewsCart, RenewsBook, BringsCart
  <2> QED BY <1>1, <1>13, <2>1, PassesSame
<1>15. Carries(c, e)
  BY <1>2, <1>9, <1>13, <1>14 DEF Carries
<1> QED BY <1>4, <1>12, <1>15, CarriesTrans

LEMMA RestoreSessionCarries ==
  ASSUME NEW c, Shape(c), Typed(c), NEW of \in 0..MaxFlows, HasRoom(RestoreSession(c, of))
  PROVE  LET d == RestoreSession(c, of)
         IN /\ Carries(c, d)
            /\ c.token # NoToken =>
                 /\ \E i \in FlowIds : RenewsCart(d.flows[i])
                 /\ \E i \in FlowIds : RenewsBook(d.flows[i])
<1>1. "restore" \in Kind /\ None \in ArgsOf("restore")
  BY DEF Kind, RequestKey, ArgsOf
<1>2. CASE c.token = NoToken
  BY <1>2, CarriesSame DEF RestoreSession
<1>3. CASE c.token # NoToken
  <2>1. PICK d : d = RestoreSession(c, of)
    OBVIOUS
  <2>2. d = Ask(c, "restore", None, of)
    BY <1>3, <2>1 DEF RestoreSession
  <2>3. HasRoom(Ask(c, "restore", None, of))
    BY <2>1, <2>2
  <2>4. Carries(c, d) /\ \E i \in FlowIds : /\ d.flows[i] # None /\ d.flows[i].kind = "restore"
                                            /\ d.flows[i].at = "asked"
    BY <1>1, <1>3, <2>2, <2>3, AskCarries
  <2>5. PICK i \in FlowIds : d.flows[i] # None /\ d.flows[i].kind = "restore"
                             /\ d.flows[i].at = "asked"
    BY <2>4
  <2>6. RenewsCart(d.flows[i]) /\ RenewsBook(d.flows[i])
    BY <2>5 DEF RenewsCart, RenewsBook
  <2> QED BY <2>1, <2>4, <2>6
<1> QED BY <1>2, <1>3

LEMMA StartedCarries ==
  ASSUME NEW c, Sound(c), HasRoom(c), NEW i, i = FreeSlot(c)
  PROVE  Carries(c, Join(Ask([c EXCEPT !.st = BootStart(@)], "boot", None, 0), i))
<1>1. PICK s : s = BootStart(c.st)
  OBVIOUS
<1>2. PICK c1 : c1 = [c EXCEPT !.st = s]
  OBVIOUS
<1>3. Shape(c) /\ Typed(c) /\ c.st \in State
  BY SoundTyped
<1>4. /\ Frames(c, c1) /\ c1.st = s /\ c1.inflight = c.inflight /\ c1.token = c.token
      /\ c1.stored = c.stored
  BY <1>2, <1>3, StIs
<1>5. Untouched(c.st, s)
  BY <1>1, <1>3, UserUntouched
<1>6. i \in FlowIds /\ c.flows[i] = None
  BY DEF FreeSlot, HasRoom
<1>7. i = FreeSlot(c1)
  BY <1>4 DEF FreeSlot, Frames
<1>8. PICK f : f = Flow(c1, "boot", None, 0)
  OBVIOUS
<1>9. f.kind = "boot" /\ f = [kind |-> f.kind, at |-> f.at, tok |-> f.tok, arg |-> f.arg,
                              of |-> f.of, status |-> f.status, body |-> f.body]
  BY <1>8 DEF Flow
<1>10. PICK e : e = Ask(c1, "boot", None, 0)
  OBVIOUS
<1>11. e = [c1 EXCEPT !.flows[i] = f]
  BY <1>7, <1>8, <1>10 DEF Ask
<1>12. Shape(c1)
  BY <1>4 DEF Frames
<1>13. Places(c1, e, i, f) /\ e.st = c1.st /\ e.inflight = c1.inflight /\ e.token = c1.token
  BY <1>11, <1>12, SlotIs
<1>14. Shape(e) /\ e.flows[i] = f
  BY <1>6, <1>13 DEF Places
<1>15. PICK g : g = Joining(f)
  OBVIOUS
<1>16. PICK d : d = Join(e, i)
  OBVIOUS
<1>17. Places(e, d, i, g) /\ d.st = e.st /\ d.inflight = e.inflight /\ d.token = e.token
  BY <1>6, <1>9, <1>14, <1>15, <1>16, JoinIs
<1>18. g.at = "joining"
  BY <1>15 DEF Joining
<1>19. Places(c, d, i, g)
  BY <1>4, <1>13, <1>17 DEF Places, Frames
<1>20. Passes(c.flows[i], g, c.token)
  BY <1>6, <1>18, NonePasses DEF Begins
<1>21. Carries(c, d)
  BY <1>4, <1>5, <1>6, <1>13, <1>17, <1>19, <1>20, PlaceCarries
<1> QED BY <1>1, <1>2, <1>10, <1>16, <1>21

LEMMA RunBootCarries ==
  ASSUME NEW c, Sound(c), HasRoom(c), HasRoom(RunBoot(c))
  PROVE  /\ Carries(c, RunBoot(c))
         /\ c.token # NoToken =>
              /\ \E j \in FlowIds : RenewsCart(RunBoot(c).flows[j])
              /\ \E j \in FlowIds : RenewsBook(RunBoot(c).flows[j])
<1>1. PICK i : i = FreeSlot(c)
  OBVIOUS
<1>2. PICK d1 : d1 = Join(Ask([c EXCEPT !.st = BootStart(@)], "boot", None, 0), i)
  OBVIOUS
<1>3. i \in FlowIds /\ Sound(d1) /\ Asks(c, d1) /\ Carries(c, d1)
  BY <1>1, <1>2, StartedKeeps, StartedCarries
<1>4. i \in 0..MaxFlows
  BY <1>3, FlowsAssumption DEF FlowIds
<1>5. PICK d2 : d2 = LoadTrust(d1, i)
  OBVIOUS
<1>6. PICK d3 : d3 = LoadProducts(d2, i)
  OBVIOUS
<1>7. PICK d4 : d4 = RestoreSession(d3, i)
  OBVIOUS
<1>8. d4 = RunBoot(c)
  BY <1>1, <1>2, <1>5, <1>6, <1>7 DEF RunBoot
<1>9. Asks(d1, d2)
  BY <1>3, <1>4, <1>5, LoadsAsk DEF Asks
<1>10. Asks(d2, d3)
  BY <1>4, <1>6, <1>9, LoadsAsk DEF Asks
<1>11. Asks(d3, d4)
  BY <1>4, <1>7, <1>10, RestoreSessionAsks DEF Asks
<1>12. HasRoom(d4) /\ HasRoom(d3) /\ HasRoom(d2)
  BY <1>8, <1>10, <1>11 DEF Asks
<1>13. Carries(d1, d2)
  BY <1>3, <1>4, <1>5, <1>12, LoadsCarry DEF Asks
<1>14. Carries(d2, d3)
  BY <1>4, <1>6, <1>9, <1>12, LoadsCarry DEF Asks
<1>15. /\ Carries(d3, d4)
       /\ d3.token # NoToken =>
            /\ \E j \in FlowIds : RenewsCart(d4.flows[j])
            /\ \E j \in FlowIds : RenewsBook(d4.flows[j])
  BY <1>4, <1>7, <1>10, <1>12, RestoreSessionCarries DEF Asks
<1>16. Carries(c, d3)
  BY <1>3, <1>13, <1>14, CarriesTrans
<1>17. Carries(c, d4) /\ d3.token = c.token
  BY <1>15, <1>16, CarriesTrans DEF Carries
<1> QED BY <1>8, <1>15, <1>17

\* A render asks for what the screen is to show.
LEMMA RenderCarries ==
  ASSUME NEW c, Shape(c), Typed(c), HasRoom(Render(c))
  PROVE  Carries(c, Render(c))
<1>1. PICK on : on = [c EXCEPT !.shown = c.st]
  OBVIOUS
<1>2. PICK page : page = IF c.st.pdp \notin {None, c.shown.pdp} THEN LoadProduct(on, c.st.pdp) ELSE on
  OBVIOUS
<1>3. PICK last : last = IF c.st.screen = "orders" /\ c.shown.screen # "orders" THEN LoadOrders(page)
                         ELSE IF c.st.screen = "addresses" /\ c.shown.screen # "addresses"
                           THEN LoadAddresses(page, 0)
                         ELSE page
  OBVIOUS
<1>4. PICK d : d = Render(c)
  OBVIOUS
<1>5. d = [last EXCEPT !.shown = last.st]
  BY <1>1, <1>2, <1>3, <1>4 DEF Render
<1>6. c.st \in State
  BY DEF Typed
<1>7. /\ Shape(on) /\ on.shown = c.st /\ on.st = c.st /\ on.inflight = c.inflight
      /\ on.token = c.token /\ on.stored = c.stored /\ on.flows = c.flows
  BY <1>1, ShownIs
<1>8. Typed(on) /\ 0 \in 0..MaxFlows
  BY <1>7, FlowsAssumption DEF Typed
<1>9. last \in {page, LoadOrders(page), LoadAddresses(page, 0)}
  BY <1>3
<1>10. c.st.pdp \notin {None, c.shown.pdp} => c.st.pdp \in Products
  BY <1>6 DEF State
<1>11. Shape(page) /\ Typed(page)
  BY <1>2, <1>7, <1>8, <1>10, LoadProductIs
<1>12. Asks(page, last)
  BY <1>9, <1>11, ArrivalAsks
<1>13. Shape(last)
  BY <1>12 DEF Asks
<1>14. /\ d.st = last.st /\ d.inflight = last.inflight /\ d.token = last.token
       /\ d.flows = last.flows
  BY <1>5, <1>13, ShownIs
<1>15. HasRoom(last) /\ HasRoom(page)
  BY <1>4, <1>12, <1>14 DEF HasRoom, Asks
<1>16. Carries(on, page)
  BY <1>2, <1>7, <1>8, <1>10, <1>15, LoadProductCarries, CarriesSame
<1>17. Carries(page, last)
  <2>1. CASE last = page
    BY <2>1, CarriesSame
  <2>2. CASE last = LoadOrders(page)
    BY <1>8, <1>11, <1>15, <2>2, LoadsCarry
  <2>3. CASE last = LoadAddresses(page, 0)
    BY <1>8, <1>11, <1>15, <2>3, LoadsCarry
  <2> QED BY <1>9, <2>1, <2>2, <2>3
<1>18. Carries(on, last)
  BY <1>16, <1>17, CarriesTrans
<1> QED BY <1>4, <1>7, <1>14, <1>18 DEF Carries, Has

-----------------------------------------------------------------------------
(* What the page shows at last: the answers.                               *)

\* The turn of the call i: what it was to show is shown, or will be.
LEMMA PlaceSettles ==
  ASSUME NEW c, NEW d, NEW i \in FlowIds, NEW f, Places(c, d, i, f), d.token = c.token,
         NEW what, f = None \/ Begins(f, c.token),
         \A key \in {"cart", "addresses"} : key \in d.inflight =>
           key \in c.inflight /\ (c.flows[i] # None => c.flows[i].kind # key),
         "cart" \in what => \A cart :
           Restores(c) /\ HonestCart(c, cart) /\ (c.st.cart = cart \/ RenewsCart(c.flows[i]))
             => d.st.cart = cart \/ RenewsCart(f),
         "book" \in what => \A book :
           Restores(c) /\ HonestBook(c, book) /\ (c.st.addresses = book \/ RenewsBook(c.flows[i]))
             => d.st.addresses = book \/ RenewsBook(f)
  PROVE  Settles(c, d, what)
<1>1. /\ d.flows[i] = f
      /\ \A j \in FlowIds : j # i => d.flows[j] = c.flows[j]
  BY DEF Places
<1>2. ASSUME Loads(c)
      PROVE  Loads(d)
  <2>1. ASSUME NEW key \in {"cart", "addresses"}, key \in d.inflight
        PROVE  Has(d, key)
    <3>1. PICK j \in FlowIds : c.flows[j] # None /\ c.flows[j].kind = key
      BY <1>2, <2>1 DEF Loads, Has
    <3>2. j # i
      BY <2>1, <3>1
    <3> QED BY <1>1, <3>1, <3>2 DEF Has
  <2> QED BY <2>1 DEF Loads
<1>3. ASSUME NEW sessions, Known(c, sessions)
      PROVE  Known(d, sessions)
  BY <1>1, <1>3 DEF Known, SignsIn, Fulfilled, Begins
<1>4. ASSUME Restores(c)
      PROVE  Restores(d)
  BY <1>1, <1>4 DEF Restores, Begins
<1>5. ASSUME NEW cart, HonestCart(c, cart)
      PROVE  HonestCart(d, cart)
  BY <1>1, <1>5 DEF HonestCart, Honest, Begins, BringsCart
<1>6. ASSUME NEW book, HonestBook(c, book)
      PROVE  HonestBook(d, book)
  BY <1>1, <1>6 DEF HonestBook, Honest, Begins, BringsBook
<1>7. ASSUME "cart" \in what, NEW cart, Restores(c), CartInv(c, cart)
      PROVE  CartInv(d, cart)
  <2>1. HonestCart(c, cart) /\ (c.st.cart = cart \/ \E j \in FlowIds : RenewsCart(c.flows[j]))
    BY <1>7 DEF CartInv, HonestCart
  <2>2. HonestCart(d, cart)
    BY <1>5, <2>1
  <2>3. d.st.cart = cart \/ \E j \in FlowIds : RenewsCart(d.flows[j])
    <3>1. CASE c.st.cart = cart \/ RenewsCart(c.flows[i])
      <4>1. d.st.cart = cart \/ RenewsCart(f)
        BY <1>7, <2>1, <3>1
      <4> QED BY <1>1, <4>1
    <3>2. CASE ~ (c.st.cart = cart \/ RenewsCart(c.flows[i]))
      BY <1>1, <2>1, <3>2
    <3> QED BY <3>1, <3>2
  <2> QED BY <2>2, <2>3 DEF CartInv, HonestCart
<1>8. ASSUME "book" \in what, NEW book, Restores(c), BookInv(c, book)
      PROVE  BookInv(d, book)
  <2>1. HonestBook(c, book)
        /\ (c.st.addresses = book \/ \E j \in FlowIds : RenewsBook(c.flows[j]))
    BY <1>8 DEF BookInv, HonestBook
  <2>2. HonestBook(d, book)
    BY <1>6, <2>1
  <2>3. d.st.addresses = book \/ \E j \in FlowIds : RenewsBook(d.flows[j])
    <3>1. CASE c.st.addresses = book \/ RenewsBook(c.flows[i])
      <4>1. d.st.addresses = book \/ RenewsBook(f)
        BY <1>8, <2>1, <3>1
      <4> QED BY <1>1, <4>1
    <3>2. CASE ~ (c.st.addresses = book \/ RenewsBook(c.flows[i]))
      BY <1>1, <2>1, <3>2
    <3> QED BY <3>1, <3>2
  <2> QED BY <2>2, <2>3 DEF BookInv, HonestBook
<1> QED BY <1>2, <1>3, <1>4, <1>5, <1>6, <1>7, <1>8 DEF Settles

\* The session ends: nothing of it need be shown.
LEMMA GoneSettles ==
  ASSUME NEW c, NEW d, Frames(c, d), d.inflight = c.inflight, d.token = NoToken, NEW what
  PROVE  Settles(c, d, what)
BY DEF Frames, Settles, Loads, Has, Known, SignsIn, Restores

LEMMA SignOutSettles ==
  ASSUME NEW c, Shape(c), NEW what
  PROVE  LET d == PerformSignOut(c)
         IN Settles(c, d, what) /\ d.inflight = c.inflight /\ d.flows = c.flows
<1>1. PICK no, lines, s : no = NoToken /\ lines = NoLines /\ s = SignOut(c.st)
  OBVIOUS
<1>2. PICK d : d = [c EXCEPT !.token = no, !.stored = lines, !.st = s]
  OBVIOUS
<1>3. d = PerformSignOut(c)
  BY <1>1, <1>2 DEF PerformSignOut
<1>4. /\ Shape(d) /\ d.flows = c.flows /\ d.shown = c.shown /\ d.widget = c.widget
      /\ d.sheet = c.sheet /\ d.inflight = c.inflight /\ d.token = no
  BY <1>2 DEF Shape
<1>5. Frames(c, d)
  BY <1>4 DEF Frames
<1>6. Settles(c, d, what)
  BY <1>1, <1>4, <1>5, GoneSettles
<1> QED BY <1>3, <1>4, <1>6

\* A call ends: with the state s, and its key no longer in flight.
LEMMA FinallyTurns ==
  ASSUME NEW c, NEW i \in FlowIds, NEW key, NEW e, Frames(c, e), e.inflight = c.inflight,
         e.token = c.token, NEW d, d = Finally(e, i, key)
  PROVE  /\ Places(c, d, i, None) /\ d.st = e.st /\ d.inflight = c.inflight \ {key}
         /\ d.token = c.token /\ Shape(d)
<1>1. Shape(e)
  BY DEF Frames
<1>2. Places(e, d, i, None) /\ d.st = e.st /\ d.inflight = e.inflight \ {key} /\ d.token = e.token
  BY <1>1, EndIs
<1>3. Places(c, d, i, None) /\ Shape(d)
  BY <1>2 DEF Frames, Places
<1> QED BY <1>2, <1>3

\* The calls that show neither a cart nor a book.
LEMMA OtherPasses ==
  ASSUME NEW f, NEW tok,
         \/ f.kind \in {"trust", "products", "product", "orders", "checkout", "boot"}
         \/ f.kind = "addressSave" /\ f.status # "ok"
         \/ f.at = "joining" /\ f.kind \notin {"cart", "addresses"}
         \/ f.kind = "widgetSession" /\ f.arg.step # "replay"
  PROVE  Passes(f, None, tok)
BY DEF Passes, RenewsCart, RenewsBook, BringsCart, Fulfilled

LEMMA FinallyCarries ==
  ASSUME NEW c, Shape(c), NEW i \in FlowIds, NEW key, NEW s, Untouched(c.st, s),
         Passes(c.flows[i], None, c.token)
  PROVE  Carries(c, Finally([c EXCEPT !.st = s], i, key))
<1>1. PICK e : e = [c EXCEPT !.st = s]
  OBVIOUS
<1>2. PICK d : d = Finally(e, i, key)
  OBVIOUS
<1>3. /\ Frames(c, e) /\ e.st = s /\ e.inflight = c.inflight /\ e.token = c.token
  BY <1>1, StIs
<1>4. /\ Places(c, d, i, None) /\ d.st = s /\ d.inflight = c.inflight \ {key} /\ d.token = c.token
  BY <1>2, <1>3, FinallyTurns
<1>5. Carries(c, d)
  BY <1>4, PlaceCarries
<1> QED BY <1>1, <1>2, <1>5

LEMMA EndCarries ==
  ASSUME NEW c, Shape(c), NEW i \in FlowIds, NEW key, Passes(c.flows[i], None, c.token)
  PROVE  Carries(c, End(c, i)) /\ Carries(c, Finally(c, i, key))
<1>1. PICK e, d : e = End(c, i) /\ d = Finally(c, i, key)
  OBVIOUS
<1>2. /\ Places(c, e, i, None) /\ e.st = c.st /\ e.inflight = c.inflight /\ e.token = c.token
      /\ Places(c, d, i, None) /\ d.st = c.st /\ d.inflight = c.inflight \ {key}
      /\ d.token = c.token
  BY <1>1, EndIs
<1>3. Carries(c, e)
  BY <1>2, PlaceCarries DEF Untouched
<1>4. Carries(c, d)
  BY <1>2, PlaceCarries DEF Untouched
<1> QED BY <1>1, <1>3, <1>4

LEMMA SettleCarries ==
  ASSUME NEW c, Shape(c), Typed(c), NEW i \in FlowIds, NEW key, NEW loaded,
         c.flows[i].status = "ok" => Untouched(c.st, loaded), Passes(c.flows[i], None, c.token)
  PROVE  Carries(c, Settle(c, i, key, loaded))
<1>1. PICK s : s = IF c.flows[i].status = "ok" THEN loaded ELSE ReqFail(c.st, key)
  OBVIOUS
<1>2. Untouched(c.st, s)
  BY <1>1, SettledUntouched DEF Typed
<1>3. Settle(c, i, key, loaded) = Finally([c EXCEPT !.st = s], i, key)
  BY <1>1 DEF Settle
<1> QED BY <1>2, <1>3, FinallyCarries

LEMMA LoadsAnsweredCarry ==
  ASSUME NEW c, NEW i, Heard(c, i)
  PROVE  /\ c.flows[i].kind = "trust" => Carries(c, TrustAnswered(c, i))
         /\ c.flows[i].kind = "products" => Carries(c, ProductsAnswered(c, i))
         /\ c.flows[i].kind = "product" => Carries(c, ProductAnswered(c, i))
         /\ c.flows[i].kind = "orders" => Carries(c, OrdersAnswered(c, i))
<1>1. i \in FlowIds /\ c.st \in State /\ Shape(c) /\ Typed(c)
  BY HeardIs DEF Heard
<1>2. PICK body : body = c.flows[i].body
  OBVIOUS
<1>3. ASSUME c.flows[i].kind = "trust"
      PROVE  Carries(c, TrustAnswered(c, i))
  <2>1. PICK s : s = TrustLoaded(c.st)
    OBVIOUS
  <2>2. Untouched(c.st, s)
    BY <1>1, <2>1, LoadedUntouched
  <2>3. TrustAnswered(c, i) = Settle(c, i, "trust", s)
    BY <2>1 DEF TrustAnswered
  <2> QED BY <1>1, <1>3, <2>2, <2>3, SettleCarries, OtherPasses
<1>4. ASSUME c.flows[i].kind = "products"
      PROVE  Carries(c, ProductsAnswered(c, i))
  <2>1. PICK s : s = ProductsLoaded(c.st, body)
    OBVIOUS
  <2>2. Untouched(c.st, s)
    BY <1>1, <2>1, LoadedUntouched
  <2>3. ProductsAnswered(c, i) = Settle(c, i, "products", s)
    BY <1>2, <2>1 DEF ProductsAnswered
  <2> QED BY <1>1, <1>4, <2>2, <2>3, SettleCarries, OtherPasses
<1>5. ASSUME c.flows[i].kind = "product"
      PROVE  Carries(c, ProductAnswered(c, i))
  <2>1. PICK s : s = ProductLoaded(c.st, body)
    OBVIOUS
  <2>2. Untouched(c.st, s)
    BY <1>1, <2>1, LoadedUntouched
  <2>3. ProductAnswered(c, i) = Settle(c, i, "product", s)
    BY <1>2, <2>1 DEF ProductAnswered
  <2> QED BY <1>1, <1>5, <2>2, <2>3, SettleCarries, OtherPasses
<1>6. ASSUME c.flows[i].kind = "orders"
      PROVE  Carries(c, OrdersAnswered(c, i))
  <2>1. PICK s : s = OrdersLoaded(c.st, body)
    OBVIOUS
  <2>2. Untouched(c.st, s)
    BY <1>1, <2>1, LoadedUntouched
  <2>3. OrdersAnswered(c, i) = Settle(c, i, "orders", s)
    BY <1>2, <2>1 DEF OrdersAnswered
  <2> QED BY <1>1, <1>6, <2>2, <2>3, SettleCarries, OtherPasses
<1> QED BY <1>3, <1>4, <1>5, <1>6

LEMMA BookAnsweredSettles ==
  ASSUME NEW c, NEW i, Heard(c, i), NEW key \in {"addresses", "addressDelete"},
         c.flows[i].kind = key, NEW loaded,
         loaded = IF key = "addresses" THEN AddressesLoaded(c.st, c.flows[i].body)
                  ELSE AddressDeleted(c.st, c.flows[i].body)
  PROVE  Settles(c, Settle(c, i, key, loaded), Both)
<1>1. /\ i \in FlowIds /\ c.flows[i] # None /\ c.flows[i].at = "answered" /\ c.st \in State
      /\ Shape(c)
  BY HeardIs DEF Heard
<1>2. PICK s : s = IF c.flows[i].status = "ok" THEN loaded ELSE ReqFail(c.st, key)
  OBVIOUS
<1>3. PICK e : e = [c EXCEPT !.st = s]
  OBVIOUS
<1>4. PICK d : d = Settle(c, i, key, loaded)
  OBVIOUS
<1>5. d = Finally(e, i, key)
  BY <1>2, <1>3, <1>4 DEF Settle
<1>6. /\ Frames(c, e) /\ e.st = s /\ e.inflight = c.inflight /\ e.token = c.token
  BY <1>1, <1>3, StIs
<1>7. /\ Places(c, d, i, None) /\ d.st = s /\ d.inflight = c.inflight \ {key} /\ d.token = c.token
  BY <1>1, <1>5, <1>6, FinallyTurns
<1>8. s.cart = c.st.cart
  BY <1>1, <1>2, ShowsAnew, SettledUntouched DEF Untouched
<1>9. ~ RenewsCart(c.flows[i])
  BY DEF RenewsCart, BringsCart
<1>10. ASSUME NEW book, HonestBook(c, book),
              c.st.addresses = book \/ RenewsBook(c.flows[i])
       PROVE  s.addresses = book
  <2>1. /\ c.flows[i].status = "ok" => c.flows[i].body = book
        /\ c.flows[i].status # "ok" => key = "addressDelete"
    BY <1>1, <1>10 DEF HonestBook, Honest, BringsBook, MayMiss
  <2>2. CASE c.flows[i].status = "ok"
    BY <1>1, <1>2, <2>1, <2>2, ShowsAnew
  <2>3. CASE c.flows[i].status # "ok"
    <3>1. c.st.addresses = book
      BY <1>10, <2>1, <2>3 DEF RenewsBook, Fulfilled
    <3> QED BY <1>1, <1>2, <2>3, <3>1, SettledUntouched DEF Untouched
  <2> QED BY <2>2, <2>3
<1>11. \A k \in {"cart", "addresses"} : k \in d.inflight =>
         k \in c.inflight /\ (c.flows[i] # None => c.flows[i].kind # k)
  BY <1>7
<1>12. Settles(c, d, Both)
  BY <1>1, <1>7, <1>8, <1>9, <1>10, <1>11, PlaceSettles
<1> QED BY <1>4, <1>12

LEMMA CartAnsweredSettles ==
  ASSUME NEW c, NEW i, Heard(c, i), c.flows[i].kind = "cart"
  PROVE  Settles(c, CartAnswered(c, i), Both)
<1>1. /\ i \in FlowIds /\ c.flows[i] # None /\ c.flows[i].at = "answered" /\ c.st \in State
      /\ Shape(c)
      /\ c.flows[i].status = "ok" => c.flows[i].body \in BodiesOf(c.flows[i].kind, c.flows[i].arg)
  BY HeardIs DEF Heard
<1>2. PICK body, then : body = c.flows[i].body /\ then = c.flows[i].arg.then
  OBVIOUS
<1>3. PICK t : t = CartLoaded(c.st, body)
  OBVIOUS
<1>4. PICK loaded : loaded = IF then = None THEN t ELSE Go(t, then)
  OBVIOUS
<1>5. PICK s : s = IF c.flows[i].status = "ok" THEN loaded ELSE ReqFail(c.st, "cart")
  OBVIOUS
<1>6. PICK e : e = [c EXCEPT !.st = s]
  OBVIOUS
<1>7. PICK d : d = CartAnswered(c, i)
  OBVIOUS
<1>8. d = Finally(e, i, "cart")
  BY <1>2, <1>3, <1>4, <1>5, <1>6, <1>7 DEF CartAnswered, Settle
<1>9. /\ Frames(c, e) /\ e.st = s /\ e.inflight = c.inflight /\ e.token = c.token
  BY <1>1, <1>6, StIs
<1>10. /\ Places(c, d, i, None) /\ d.st = s /\ d.inflight = c.inflight \ {"cart"}
       /\ d.token = c.token
  BY <1>1, <1>8, <1>9, FinallyTurns
<1>11. CASE c.flows[i].status = "ok"
  <2>1. body \in Lines
    BY <1>1, <1>2, <1>11 DEF BodiesOf
  <2>2. t \in State /\ t.cart = body /\ t.addresses = c.st.addresses
    BY <1>1, <1>3, <2>1, ShowsAnew, LoadedFollows DEF Follows
  <2>3. s.cart = body /\ s.addresses = c.st.addresses
    BY <1>4, <1>5, <1>11, <2>2, GoUntouched DEF Untouched
  <2>4. ASSUME NEW cart, HonestCart(c, cart)
        PROVE  s.cart = cart
    BY <1>1, <1>2, <1>11, <2>3, <2>4 DEF HonestCart, Honest, BringsCart
  <2>5. ~ RenewsBook(c.flows[i])
    BY DEF RenewsBook
  <2>6. Settles(c, d, Both)
    BY <1>1, <1>10, <2>3, <2>4, <2>5, PlaceSettles
  <2> QED BY <1>7, <2>6
<1>12. CASE c.flows[i].status # "ok"
  <2>1. Untouched(c.st, s)
    BY <1>1, <1>5, <1>12, SettledUntouched
  <2>2. ASSUME NEW cart, HonestCart(c, cart)
        PROVE  ~ RenewsCart(c.flows[i])
    BY <1>1, <1>12, <2>2 DEF HonestCart, Honest, BringsCart, MayMiss, RenewsCart, Fulfilled
  <2>3. ~ RenewsBook(c.flows[i])
    BY DEF RenewsBook
  <2>4. Settles(c, d, Both)
    BY <1>1, <1>10, <2>1, <2>2, <2>3, PlaceSettles DEF Untouched
  <2> QED BY <1>7, <2>4
<1> QED BY <1>11, <1>12

\* A call that waits for the loads it starts: these show what it was to show.
LEMMA JoinSettles ==
  ASSUME NEW c, Shape(c), NEW i \in FlowIds, c.flows[i] # None, GoodCall(c.flows[i]),
         c.flows[i].kind \notin {"cart", "addresses"}, NEW what \in SUBSET Both,
         "cart" \in what => c.flows[i].kind = "addressSave",
         "book" \in what => c.flows[i].kind = "confirm"
  PROVE  /\ Settles(c, Join(c, i), what) /\ Shape(Join(c, i))
         /\ Join(c, i).inflight = c.inflight /\ Join(c, i).st = c.st
         /\ Join(c, i).token = c.token
<1>1. PICK f : f = c.flows[i]
  OBVIOUS
<1>2. f = [kind |-> f.kind, at |-> f.at, tok |-> f.tok, arg |-> f.arg, of |-> f.of,
           status |-> f.status, body |-> f.body]
  BY <1>1, GoodCallIs
<1>3. PICK g : g = Joining(f)
  OBVIOUS
<1>4. PICK d : d = Join(c, i)
  OBVIOUS
<1>5. Places(c, d, i, g) /\ d.st = c.st /\ d.inflight = c.inflight /\ d.token = c.token
  BY <1>1, <1>2, <1>3, <1>4, JoinIs
<1>6. g.at = "joining"
  BY <1>3 DEF Joining
<1>7. /\ "cart" \in what => ~ RenewsCart(c.flows[i])
      /\ "book" \in what => ~ RenewsBook(c.flows[i])
  BY DEF RenewsCart, RenewsBook, BringsCart
<1>8. Begins(g, c.token)
  BY <1>6 DEF Begins
<1>9. \A k \in {"cart", "addresses"} : k \in d.inflight =>
        k \in c.inflight /\ (c.flows[i] # None => c.flows[i].kind # k)
  BY <1>5
<1>10. Settles(c, d, what)
  BY <1>5, <1>7, <1>8, <1>9, PlaceSettles
<1> QED BY <1>4, <1>5, <1>10 DEF Places

\* A sign-in and a restored session load the cart and the book.
LEMMA LoadBothCarry ==
  ASSUME NEW c, Shape(c), Typed(c), NEW of \in 0..MaxFlows, NEW d,
         d = LoadAddresses(LoadCart(c, of), of), HasRoom(d)
  PROVE  /\ Carries(c, d)
         /\ "cart" \notin c.inflight => \E i \in FlowIds : RenewsCart(d.flows[i])
         /\ "addresses" \notin c.inflight => \E i \in FlowIds : RenewsBook(d.flows[i])
<1>1. PICK e : e = LoadCart(c, of)
  OBVIOUS
<1>2. Asks(c, e)
  BY <1>1, LoadsAsk
<1>3. d = LoadAddresses(e, of) /\ Shape(e) /\ Typed(e)
  BY <1>1, <1>2 DEF Asks
<1>4. Asks(e, d)
  BY <1>3, LoadsAsk
<1>5. HasRoom(e)
  BY <1>4 DEF Asks
<1>6. Carries(c, e)
  BY <1>1, <1>5, LoadsCarry
<1>7. Carries(e, d)
  BY <1>3, LoadsCarry
<1>8. "addresses" \notin c.inflight => "addresses" \notin e.inflight
  <2>1. PICK call : call = Call("get", None, 0, None)
    OBVIOUS
  <2>2. MayAsk("cart", call)
    <3>1. call \in CartCalls /\ call.op = "get"
      BY <2>1, ShopAssumption DEF Call, CartCalls
    <3> QED BY <3>1 DEF MayAsk, ArgsOf, Kind, RequestKey, CallKind
  <2>3. e = Guarded(c, "cart", call, of) /\ "cart" \in RequestKey
    BY <1>1, <2>1 DEF LoadCart, CartMutation, RequestKey
  <2>4. CASE "cart" \in c.inflight
    BY <2>3, <2>4 DEF Guarded
  <2>5. CASE "cart" \notin c.inflight
    <3>1. e.inflight = c.inflight \cup {"cart"}
      BY <1>5, <2>2, <2>3, <2>5, GuardedIs
    <3> QED BY <3>1
  <2> QED BY <2>4, <2>5
<1>9. ASSUME "cart" \notin c.inflight
      PROVE  \E i \in FlowIds : RenewsCart(d.flows[i])
  <2>1. \E i \in FlowIds : RenewsCart(e.flows[i])
    BY <1>1, <1>5, <1>9, LoadCartRenews
  <2> QED BY <1>7, <2>1, RenewsCarried
<1>10. ASSUME "addresses" \notin c.inflight
       PROVE  \E i \in FlowIds : RenewsBook(d.flows[i])
  BY <1>3, <1>8, <1>10, LoadBookRenews
<1> QED BY <1>6, <1>7, <1>9, <1>10, CarriesTrans

\* What of the cart and the book a load will show, for it is not skipped.
Free(c) ==
  {what \in Both : /\ what = "cart" => "cart" \notin c.inflight
                   /\ what = "book" => "addresses" \notin c.inflight}

LEMMA SettlesLess ==
  ASSUME NEW c, NEW d, NEW what, Settles(c, d, what), NEW less, less \subseteq what
  PROVE  Settles(c, d, less)
BY DEF Settles

\* What is told of the answer of i.
Told(c, i) ==
  {what \in Both :
     /\ what = "cart" /\ c.flows[i].kind \in {"confirm", "widgetSession", "restore"}
          => "cart" \notin c.inflight
     /\ what = "book" /\ c.flows[i].kind \in {"addressSave", "widgetSession", "restore"}
          => "addresses" \notin c.inflight}

LEMMA RestoreAnsweredSettles ==
  ASSUME NEW c, NEW i, Heard(c, i), c.flows[i].kind = "restore", HasRoom(RestoreAnswered(c, i))
  PROVE  Settles(c, RestoreAnswered(c, i), Free(c))
<1>1. /\ Sound(c) /\ i \in FlowIds /\ c.flows[i] # None /\ c.st \in State
      /\ c.flows[i].at = "answered" /\ GoodCall(c.flows[i])
      /\ c.flows[i].status = "ok" => c.flows[i].body \in BodiesOf(c.flows[i].kind, c.flows[i].arg)
      /\ Shape(c) /\ Typed(c)
  BY HeardIs DEF Heard
<1>2. i \in 0..MaxFlows
  BY <1>1, FlowsAssumption DEF FlowIds
<1>3. PICK d : d = RestoreAnswered(c, i)
  OBVIOUS
<1>4. CASE c.flows[i].status = "ok"
  <2>1. PICK s : s = SessionRestored(c.st, c.flows[i].body)
    OBVIOUS
  <2>2. c.flows[i].body \in Shoppers \cup {None}
    BY <1>1, <1>4 DEF BodiesOf
  <2>3. Follows(c.st, s) /\ Untouched(c.st, s)
    BY <1>1, <2>1, <2>2, UserFollows, UserUntouched DEF Sets
  <2>4. PICK c1 : c1 = [c EXCEPT !.st = s]
    OBVIOUS
  <2>5. Sound(c1) /\ c1.flows = c.flows /\ c1.inflight = c.inflight /\ Carries(c, c1)
    BY <1>1, <2>3, <2>4, StKeeps, StCarries
  <2>6. PICK c2 : c2 = Join(c1, i)
    OBVIOUS
  <2>7. c1.flows[i] # None /\ c1.flows[i].kind \in Joiners \ {"confirm"}
        /\ c1.flows[i].kind # "widgetSession" /\ GoodCall(c1.flows[i])
        /\ c1.flows[i].kind \notin {"cart", "addresses"}
    BY <1>1, <2>5 DEF Joiners, CallKind
  <2>8. Sound(c2)
    BY <1>1, <2>5, <2>6, <2>7, JoinKeeps
  <2>9. Settles(c1, c2, {}) /\ Shape(c2) /\ c2.inflight = c1.inflight
    <3>1. Shape(c1) /\ {} \in SUBSET Both
      BY <2>5, SoundTyped
    <3> QED BY <1>1, <2>6, <2>7, <3>1, JoinSettles
  <2>10. d = LoadAddresses(LoadCart(c2, i), i)
    BY <1>3, <1>4, <2>1, <2>4, <2>6 DEF RestoreAnswered
  <2>11. Typed(c2)
    BY <2>8, SoundTyped
  <2>12. /\ Carries(c2, d)
         /\ "cart" \notin c2.inflight => \E j \in FlowIds : RenewsCart(d.flows[j])
         /\ "addresses" \notin c2.inflight => \E j \in FlowIds : RenewsBook(d.flows[j])
    BY <1>2, <1>3, <2>9, <2>10, <2>11, LoadBothCarry
  <2>13. Settles(c, c1, {}) /\ Settles(c2, d, {})
    BY <2>5, <2>12, CarriesSettles, SettlesLess DEF Both
  <2>14. Settles(c, d, {})
    BY <2>9, <2>13, SettlesTrans
  <2>15. Free(c) \subseteq Both
         /\ ("cart" \in Free(c) => "cart" \notin c2.inflight)
         /\ ("book" \in Free(c) => "addresses" \notin c2.inflight)
    BY <2>5, <2>9 DEF Free
  <2>16. Settles(c, d, Free(c))
    BY <2>12, <2>14, <2>15, SettlesMore
  <2> QED BY <1>3, <2>16
<1>5. CASE c.flows[i].status # "ok"
  <2>1. PICK e : e = End(c, i)
    OBVIOUS
  <2>2. /\ Places(c, e, i, None) /\ e.st = c.st /\ e.inflight = c.inflight /\ e.token = c.token
    BY <1>1, <2>1, EndIs
  <2>3. Shape(e) /\ e.st \in State
    BY <1>1, <2>2 DEF Places
  <2>4. CASE c.flows[i].status = "401"
    <3>1. PICK none : none = NoToken
      OBVIOUS
    <3>2. d = [e EXCEPT !.token = none]
      BY <1>3, <1>5, <2>1, <2>4, <3>1 DEF RestoreAnswered
    <3>3. Frames(e, d) /\ d.st = e.st /\ d.inflight = e.inflight /\ d.token = none
      BY <2>3, <3>2, TokenIs
    <3>4. Settles(e, d, {})
      BY <3>1, <3>3, GoneSettles
    <3>5. Settles(c, e, {})
      BY <1>1, <2>2, PlaceSettles
    <3>6. Settles(c, d, {})
      BY <3>4, <3>5, SettlesTrans
    <3>7. Settles(c, d, Free(c))
      BY <3>1, <3>3, <3>6 DEF Settles
    <3> QED BY <1>3, <3>7
  <2>5. CASE c.flows[i].status # "401"
    <3>1. PICK s : s = ReqFail(e.st, "session")
      OBVIOUS
    <3>2. d = [e EXCEPT !.st = s]
      BY <1>3, <1>5, <2>1, <2>5, <3>1 DEF RestoreAnswered
    <3>3. Frames(e, d) /\ d.st = s /\ d.inflight = e.inflight /\ d.token = e.token
      BY <2>3, <3>2, StIs
    <3>4. Places(c, d, i, None) /\ d.inflight = c.inflight /\ d.token = c.token
      BY <2>2, <3>3 DEF Frames, Places
    <3>5. ~ Restores(c)
      BY <1>1, <1>5, <2>5 DEF Restores
    <3>6. Settles(c, d, Free(c))
      BY <1>1, <3>4, <3>5, PlaceSettles
    <3> QED BY <1>3, <3>6
  <2> QED BY <2>4, <2>5
<1> QED BY <1>4, <1>5

LEMMA AddressSaveAnsweredSettles ==
  ASSUME NEW c, NEW i, Heard(c, i), c.flows[i].kind = "addressSave",
         HasRoom(AddressSaveAnswered(c, i))
  PROVE  Settles(c, AddressSaveAnswered(c, i), Told(c, i))
<1>1. /\ Sound(c) /\ i \in FlowIds /\ c.flows[i] # None /\ c.st \in State
      /\ c.flows[i].at = "answered" /\ GoodCall(c.flows[i])
      /\ c.flows[i].status = "ok" => c.flows[i].body \in BodiesOf(c.flows[i].kind, c.flows[i].arg)
      /\ Shape(c) /\ Typed(c)
  BY HeardIs DEF Heard
<1>2. i \in 0..MaxFlows
  BY <1>1, FlowsAssumption DEF FlowIds
<1>3. PICK d : d = AddressSaveAnswered(c, i)
  OBVIOUS
<1>4. Told(c, i) \subseteq Both
  BY DEF Told
<1>5. CASE c.flows[i].status = "ok"
  <2>1. PICK s : s = AddressSaved(c.st, c.flows[i].body)
    OBVIOUS
  <2>2. c.flows[i].body \in AddressIds
    BY <1>1, <1>5 DEF BodiesOf
  <2>3. Follows(c.st, s) /\ Untouched(c.st, s)
    BY <1>1, <2>1, <2>2, SavedFollows, FormUntouched
  <2>4. PICK c1 : c1 = [c EXCEPT !.st = s]
    OBVIOUS
  <2>5. Sound(c1) /\ c1.flows = c.flows /\ c1.inflight = c.inflight /\ Carries(c, c1)
    BY <1>1, <2>3, <2>4, StKeeps, StCarries
  <2>6. PICK c2 : c2 = Join(c1, i)
    OBVIOUS
  <2>7. c1.flows[i] # None /\ c1.flows[i].kind \in Joiners \ {"confirm"}
        /\ c1.flows[i].kind # "widgetSession" /\ GoodCall(c1.flows[i])
        /\ c1.flows[i].kind \notin {"cart", "addresses"} /\ c1.flows[i].kind = "addressSave"
    BY <1>1, <2>5 DEF Joiners, CallKind
  <2>8. Sound(c2)
    BY <1>1, <2>5, <2>6, <2>7, JoinKeeps
  <2>9. Settles(c1, c2, {"cart"}) /\ Shape(c2) /\ c2.inflight = c1.inflight
    <3>1. Shape(c1) /\ {"cart"} \in SUBSET Both
      BY <2>5, SoundTyped DEF Both
    <3> QED BY <1>1, <2>6, <2>7, <3>1, JoinSettles
  <2>10. d = LoadAddresses(c2, i)
    BY <1>3, <1>5, <2>1, <2>4, <2>6 DEF AddressSaveAnswered
  <2>11. Typed(c2)
    BY <2>8, SoundTyped
  <2>12. /\ Carries(c2, d)
         /\ "addresses" \notin c2.inflight => \E j \in FlowIds : RenewsBook(d.flows[j])
    BY <1>2, <1>3, <2>9, <2>10, <2>11, LoadsCarry, LoadBookRenews
  <2>13. Settles(c, c1, {"cart"}) /\ Settles(c2, d, {"cart"})
    BY <2>5, <2>12, CarriesSettles, SettlesLess DEF Both
  <2>14. Settles(c, d, {"cart"})
    BY <2>9, <2>13, SettlesTrans
  <2>15. "book" \in Told(c, i) => "addresses" \notin c2.inflight
    BY <2>5, <2>9 DEF Told
  <2>16. Settles(c, d, Told(c, i))
    BY <1>4, <2>12, <2>14, <2>15, SettlesMore
  <2> QED BY <1>3, <2>16
<1>6. CASE c.flows[i].status = "fields" /\ ~ c.flows[i].arg.dflt
  <2>1. PICK s : s = SetAddrFieldError(c.st)
    OBVIOUS
  <2>2. Untouched(c.st, s)
    BY <1>1, <2>1, FormUntouched
  <2>3. d = Finally([c EXCEPT !.st = s], i, "addressSave")
    BY <1>3, <1>6, <2>1 DEF AddressSaveAnswered
  <2>4. Carries(c, d)
    BY <1>1, <1>6, <2>2, <2>3, FinallyCarries, OtherPasses
  <2> QED BY <1>3, <1>4, <2>4, CarriesSettles, SettlesLess
<1>7. CASE c.flows[i].status # "ok" /\ ~ (c.flows[i].status = "fields" /\ ~ c.flows[i].arg.dflt)
  <2>1. PICK s : s = c.st
    OBVIOUS
  <2>2. d = Settle(c, i, "addressSave", s)
    BY <1>3, <1>7, <2>1 DEF AddressSaveAnswered
  <2>3. Carries(c, d)
    BY <1>1, <1>7, <2>2, SettleCarries, OtherPasses
  <2> QED BY <1>3, <1>4, <2>3, CarriesSettles, SettlesLess
<1> QED BY <1>5, <1>6, <1>7

LEMMA JoinCarries ==
  ASSUME NEW c, Shape(c), NEW i \in FlowIds, c.flows[i] # None, GoodCall(c.flows[i]),
         c.flows[i].kind = "checkout"
  PROVE  Carries(c, Join(c, i))
<1>1. PICK f : f = c.flows[i]
  OBVIOUS
<1>2. f = [kind |-> f.kind, at |-> f.at, tok |-> f.tok, arg |-> f.arg, of |-> f.of,
           status |-> f.status, body |-> f.body]
  BY <1>1, GoodCallIs
<1>3. PICK g : g = Joining(f)
  OBVIOUS
<1>4. PICK d : d = Join(c, i)
  OBVIOUS
<1>5. Places(c, d, i, g) /\ d.st = c.st /\ d.inflight = c.inflight /\ d.token = c.token
  BY <1>1, <1>2, <1>3, <1>4, JoinIs
<1>6. g.at = "joining"
  BY <1>3 DEF Joining
<1>7. Passes(c.flows[i], g, c.token)
  BY <1>6 DEF Passes, Begins, RenewsCart, RenewsBook, BringsCart
<1>8. Carries(c, d)
  BY <1>5, <1>7, PlaceCarries DEF Untouched
<1> QED BY <1>4, <1>8

LEMMA CheckoutRefusedCarries ==
  ASSUME NEW c, NEW i, Heard(c, i), c.flows[i].kind = "checkout", c.flows[i].status # "ok",
         HasRoom(CheckoutRefused(c, i))
  PROVE  Carries(c, CheckoutRefused(c, i))
<1>1. /\ Sound(c) /\ i \in FlowIds /\ c.flows[i] # None /\ c.st \in State
      /\ Shape(c) /\ Typed(c) /\ GoodCall(c.flows[i])
  BY HeardIs DEF Heard
<1>2. i \in 0..MaxFlows
  BY <1>1, FlowsAssumption DEF FlowIds
<1>3. PICK d : d = CheckoutRefused(c, i)
  OBVIOUS
<1>4. PICK s : s = c.st
  OBVIOUS
<1>5. ASSUME NEW screen \in Screen, NEW e, e = [c EXCEPT !.st = Go(@, screen)]
      PROVE  Sound(e) /\ Carries(c, e) /\ e.flows = c.flows /\ e.st \in State /\ e.st.cart = s.cart
             /\ e.st.addresses = s.addresses
  <2>1. PICK t : t = Go(c.st, screen)
    OBVIOUS
  <2>2. Follows(c.st, t) /\ Untouched(c.st, t)
    BY <1>1, <2>1, GoFollows, GoUntouched
  <2>3. e = [c EXCEPT !.st = t]
    BY <1>5, <2>1
  <2>4. Sound(e) /\ Carries(c, e) /\ e.flows = c.flows /\ e.st = t
    BY <1>1, <2>2, <2>3, StKeeps, StCarries
  <2> QED BY <1>4, <2>2, <2>4, SoundTyped DEF Untouched
<1>6. "shop" \in Screen /\ "cart" \in Screen
  BY DEF Screen
<1>7. PICK e : e = [c EXCEPT !.st = Go(@, "shop")]
  OBVIOUS
<1>8. PICK e2 : e2 = [c EXCEPT !.st = Go(@, "cart")]
  OBVIOUS
<1>9. /\ Sound(e) /\ Carries(c, e) /\ e.flows = c.flows /\ Untouched(e.st, s)
      /\ Sound(e2) /\ Carries(c, e2) /\ e2.flows = c.flows /\ Untouched(e2.st, s)
  BY <1>5, <1>6, <1>7, <1>8 DEF Untouched
<1>10. /\ Passes(c.flows[i], None, c.token) /\ Passes(e.flows[i], None, e.token)
       /\ Passes(e2.flows[i], None, e2.token)
  BY <1>9, OtherPasses
<1>11. /\ Shape(e) /\ Typed(e) /\ Shape(e2) /\ Typed(e2)
  BY <1>9, SoundTyped
<1>12. PICK status : status = c.flows[i].status
  OBVIOUS
<1>13. CASE status = "empty"
  <2>1. d = Settle(e, i, "checkout", s)
    BY <1>3, <1>4, <1>7, <1>12, <1>13 DEF CheckoutRefused
  <2>2. Carries(e, d)
    BY <1>1, <1>9, <1>10, <1>11, <2>1, SettleCarries
  <2> QED BY <1>3, <1>9, <2>2, CarriesTrans
<1>14. CASE status = "fields"
  <2>1. d = Settle(e2, i, "checkout", s)
    BY <1>3, <1>4, <1>8, <1>12, <1>14 DEF CheckoutRefused
  <2>2. Carries(e2, d)
    BY <1>1, <1>9, <1>10, <1>11, <2>1, SettleCarries
  <2> QED BY <1>3, <1>9, <2>2, CarriesTrans
<1>15. CASE status = "404"
  <2>1. PICK e3 : e3 = Join(e2, i)
    OBVIOUS
  <2>2. d = LoadAddresses(e3, i)
    BY <1>3, <1>8, <1>12, <1>15, <2>1 DEF CheckoutRefused
  <2>3. e2.flows[i] # None /\ e2.flows[i].kind \in Joiners \ {"confirm"}
        /\ e2.flows[i].kind = "checkout" /\ e2.flows[i].kind # "widgetSession"
        /\ GoodCall(e2.flows[i])
    BY <1>1, <1>9 DEF Joiners, CallKind
  <2>4. Sound(e3) /\ Carries(e2, e3)
    BY <1>1, <1>9, <1>11, <2>1, <2>3, JoinKeeps, JoinCarries
  <2>5. Carries(e3, d)
    BY <1>2, <1>3, <2>2, <2>4, LoadsCarry, SoundTyped
  <2> QED BY <1>3, <1>9, <2>4, <2>5, CarriesTrans
<1>16. CASE status \notin {"empty", "fields", "404"}
  <2>1. d = Settle(c, i, "checkout", s)
    BY <1>3, <1>4, <1>12, <1>16 DEF CheckoutRefused
  <2>2. Carries(c, d)
    BY <1>1, <1>10, <2>1, SettleCarries
  <2> QED BY <1>3, <2>2
<1> QED BY <1>13, <1>14, <1>15, <1>16

LEMMA OpenSheetCarries ==
  ASSUME NEW c, NEW i, Heard(c, i), c.flows[i].kind = "checkout"
  PROVE  Carries(c, OpenSheet(c, i)) /\ Carries(c, SheetBlocked(c, i))
<1>1. i \in FlowIds /\ c.st \in State /\ Shape(c) /\ Typed(c)
  BY HeardIs DEF Heard
<1>2. PICK o : o = c.flows[i].body
  OBVIOUS
<1>3. PICK t : t = CheckoutOpened(c.st, o)
  OBVIOUS
<1>4. Passes(c.flows[i], None, c.token)
  BY OtherPasses
<1>5. Carries(c, SheetBlocked(c, i))
  <2>1. PICK s : s = ReqFail(t, "checkout")
    OBVIOUS
  <2>2. Untouched(c.st, s)
    BY <1>1, <1>3, <2>1 DEF Untouched, State, CheckoutOpened, ReqFail, Settled
  <2>3. SheetBlocked(c, i) = Finally([c EXCEPT !.st = s], i, "checkout")
    BY <1>2, <1>3, <2>1 DEF SheetBlocked
  <2> QED BY <1>1, <1>4, <2>2, <2>3, FinallyCarries
<1>6. Carries(c, OpenSheet(c, i))
  <2>1. PICK s, keys : s = ReqStart(t, "payment") /\ keys = c.inflight \cup {"payment"}
    OBVIOUS
  <2>2. Untouched(c.st, s)
    BY <1>1, <1>3, <2>1 DEF Untouched, State, CheckoutOpened, ReqStart, Settled
  <2>3. PICK no \in BOOLEAN : no = FALSE
    OBVIOUS
  <2>4. PICK sheet : sheet = [order |-> o, settled |-> no]
    OBVIOUS
  <2>5. PICK e : e = [c EXCEPT !.st = s, !.inflight = keys, !.sheet = sheet]
    OBVIOUS
  <2>6. e = [st |-> s, shown |-> c.shown, inflight |-> keys, token |-> c.token,
             stored |-> c.stored, flows |-> c.flows, widget |-> c.widget, sheet |-> sheet]
    BY <1>1, <2>5 DEF Shape
  <2>7. Shape(e)
    BY <1>1, <2>6 DEF Shape
  <2>8. e.st = s /\ e.inflight = keys /\ e.token = c.token /\ e.flows = c.flows
    BY <2>6
  <2>9. Carries(c, e)
    BY <2>1, <2>2, <2>8, PassesSame DEF Carries
  <2>10. PICK d : d = OpenSheet(c, i)
    OBVIOUS
  <2>11. d = Finally(e, i, "checkout")
    BY <1>2, <1>3, <2>1, <2>3, <2>4, <2>5, <2>10 DEF OpenSheet
  <2>12. Carries(e, d)
    BY <1>1, <1>4, <2>7, <2>8, <2>11, EndCarries
  <2> QED BY <2>9, <2>10, <2>12, CarriesTrans
<1> QED BY <1>5, <1>6

LEMMA ConfirmedSettles ==
  ASSUME NEW c, NEW i, Heard(c, i), c.flows[i].kind = "confirm", NEW order \in Order,
         HasRoom(Confirmed(c, i, order))
  PROVE  Settles(c, Confirmed(c, i, order), Told(c, i))
<1>1. /\ i \in FlowIds /\ c.flows[i] # None /\ c.st \in State
      /\ Shape(c) /\ Typed(c) /\ GoodCall(c.flows[i])
  BY HeardIs DEF Heard
<1>2. i \in 0..MaxFlows
  BY <1>1, FlowsAssumption DEF FlowIds
<1>3. PICK d : d = Confirmed(c, i, order)
  OBVIOUS
<1>4. PICK s, keys : s = PaymentConfirmed(c.st, order) /\ keys = c.inflight \ {"payment"}
  OBVIOUS
<1>5. s \in State /\ Untouched(c.st, s)
  BY <1>1, <1>4, PaymentConfirmedIs, LoadedUntouched
<1>6. PICK e : e = [c EXCEPT !.st = s, !.inflight = keys]
  OBVIOUS
<1>7. e = [st |-> s, shown |-> c.shown, inflight |-> keys, token |-> c.token,
           stored |-> c.stored, flows |-> c.flows, widget |-> c.widget, sheet |-> c.sheet]
  BY <1>1, <1>6 DEF Shape
<1>8. Shape(e)
  BY <1>1, <1>7 DEF Shape
<1>9. e.st = s /\ e.inflight = keys /\ e.token = c.token /\ e.flows = c.flows
      /\ e.stored = c.stored
  BY <1>7
<1>10. Carries(c, e)
  BY <1>4, <1>5, <1>9, PassesSame DEF Carries
<1>11. PICK e1 : e1 = Join(e, i)
  OBVIOUS
<1>12. /\ Settles(e, e1, {"book"}) /\ Shape(e1) /\ e1.inflight = keys /\ e1.st = s
       /\ e1.token = c.token
  <2>1. /\ e.flows[i] # None /\ GoodCall(e.flows[i]) /\ e.flows[i].kind = "confirm"
        /\ e.flows[i].kind \notin {"cart", "addresses"} /\ {"book"} \in SUBSET Both
        /\ "cart" \notin {"book"}
    BY <1>1, <1>9 DEF Both
  <2> QED BY <1>1, <1>8, <1>9, <1>11, <2>1, JoinSettles
<1>13. d = LoadCart(e1, i)
  BY <1>3, <1>4, <1>6, <1>11 DEF Confirmed
<1>14. Typed(e1)
  <2>1. e1.stored = e.stored
    <3>1. PICK f : f = e.flows[i]
      OBVIOUS
    <3>2. f = [kind |-> f.kind, at |-> f.at, tok |-> f.tok, arg |-> f.arg, of |-> f.of,
               status |-> f.status, body |-> f.body]
      BY <1>1, <1>9, <3>1, GoodCallIs
    <3> QED BY <1>1, <1>8, <1>11, <3>1, <3>2, JoinIs
  <2> QED BY <1>1, <1>4, <1>5, <1>9, <1>12, <2>1 DEF Typed
<1>15. /\ Carries(e1, d)
       /\ "cart" \notin e1.inflight => \E j \in FlowIds : RenewsCart(d.flows[j])
  BY <1>2, <1>3, <1>12, <1>13, <1>14, LoadsCarry, LoadCartRenews
<1>16. Settles(c, e, {"book"}) /\ Settles(e1, d, {"book"})
  BY <1>10, <1>15, CarriesSettles, SettlesLess DEF Both
<1>17. Settles(c, d, {"book"})
  BY <1>12, <1>16, SettlesTrans
<1>18. Told(c, i) \subseteq Both /\ ("cart" \in Told(c, i) => "cart" \notin e1.inflight)
  BY <1>4, <1>12 DEF Told
<1>19. Settles(c, d, Told(c, i))
  BY <1>15, <1>17, <1>18, SettlesMore
<1> QED BY <1>3, <1>19

LEMMA ConfirmAnsweredSettles ==
  ASSUME NEW c, NEW i, Heard(c, i), c.flows[i].kind = "confirm", HasRoom(ConfirmAnswered(c, i))
  PROVE  Settles(c, ConfirmAnswered(c, i), Told(c, i))
<1>1. /\ i \in FlowIds /\ Shape(c) /\ c.flows[i].arg \in ArgsOf(c.flows[i].kind)
      /\ c.flows[i].status = "ok" => c.flows[i].body \in BodiesOf(c.flows[i].kind, c.flows[i].arg)
      /\ c.flows[i] # None /\ c.flows[i].at = "answered" /\ Typed(c)
  BY HeardIs DEF Heard
<1>2. PICK d : d = ConfirmAnswered(c, i)
  OBVIOUS
<1>3. PICK f : f = c.flows[i]
  OBVIOUS
<1>4. f.arg \in Tries
  BY <1>1, <1>3 DEF ArgsOf
<1>5. PICK try : try = f.arg.try
  OBVIOUS
<1>6. try \in 1..5 /\ f.arg.order \in OrderIds
  BY <1>4, <1>5 DEF Tries
<1>7. CASE f.status = "ok" /\ (try <= 2 \/ f.body.status = "placed")
  <2>1. PICK order : order = f.body
    OBVIOUS
  <2>2. order \in Order
    BY <1>1, <1>3, <1>7, <2>1 DEF BodiesOf
  <2>3. d = Confirmed(c, i, order)
    BY <1>2, <1>3, <1>5, <1>7, <2>1 DEF ConfirmAnswered
  <2> QED BY <1>2, <2>2, <2>3, ConfirmedSettles
<1>8. CASE ~ (f.status = "ok" /\ (try <= 2 \/ f.body.status = "placed")) /\ ~ (try < 5)
  <2>1. PICK order : order = [id |-> f.arg.order, status |-> "pending"]
    OBVIOUS
  <2>2. order \in Order
    BY <1>6, <2>1 DEF Order, OrderStatus
  <2>3. d = Confirmed(c, i, order)
    BY <1>2, <1>3, <1>5, <1>8, <2>1 DEF ConfirmAnswered
  <2> QED BY <1>2, <2>2, <2>3, ConfirmedSettles
<1>9. CASE ~ (f.status = "ok" /\ (try <= 2 \/ f.body.status = "placed")) /\ try < 5
  <2>1. PICK n : n = try + 1
    OBVIOUS
  <2>2. n \in 1..5
    BY <1>6, <1>9, <2>1
  <2>3. PICK arg : arg = [f.arg EXCEPT !.try = n]
    OBVIOUS
  <2>4. arg \in Tries
    BY <1>4, <2>2, <2>3 DEF Tries
  <2>5. PICK h : h = Flow(c, "confirm", arg, 0)
    OBVIOUS
  <2>6. PICK g : g = [h EXCEPT !.at = "resting"]
    OBVIOUS
  <2>7. /\ "confirm" \in Kind /\ arg \in ArgsOf("confirm") /\ 0 \in 0..MaxFlows
        /\ c.token \in Tokens \cup {NoToken}
    BY <1>1, <2>4, FlowsAssumption DEF Kind, RequestKey, ArgsOf, Typed
  <2>8. g.kind = "confirm" /\ g.at = "resting"
        /\ g = [kind |-> "confirm", at |-> "resting", tok |-> c.token, arg |-> arg, of |-> 0,
                status |-> None, body |-> None]
    BY <2>5, <2>6 DEF Flow
  <2>9. g # None
    <3>1. g \in CallsOf("confirm", arg, None)
      BY <2>7, <2>8 DEF CallsOf, FlowStep
    <3> QED BY <2>7, <3>1, CallIs
  <2>10. d = [c EXCEPT !.flows[i] = g]
    BY <1>2, <1>3, <1>5, <1>9, <2>1, <2>3, <2>5, <2>6 DEF ConfirmAnswered
  <2>11. Places(c, d, i, g) /\ d.st = c.st /\ d.inflight = c.inflight /\ d.token = c.token
    BY <1>1, <2>10, SlotIs
  <2>12. Passes(c.flows[i], g, c.token)
    BY <2>8, <2>9 DEF Passes, Begins, RenewsCart, RenewsBook, BringsCart
  <2>13. Carries(c, d)
    BY <1>1, <2>11, <2>12, PlaceCarries DEF Untouched
  <2>14. Told(c, i) \subseteq Both
    BY DEF Told
  <2> QED BY <1>2, <2>13, <2>14, CarriesSettles, SettlesLess
<1> QED BY <1>7, <1>8, <1>9

\* The replay asks for its next item, or ends.
LEMMA ReplayTurns ==
  ASSUME NEW c, Sound(c), NEW i \in FlowIds, SignsIn(c, i), NEW arg \in SignIns,
         arg.step = "replay"
  PROVE  LET d == Replay(c, i, arg)
         IN /\ d.token = c.token /\ Untouched(c.st, d.st)
            /\ \A key \in {"cart", "addresses"} : key \in d.inflight <=> key \in c.inflight
            /\ \E f : /\ Places(c, d, i, f)
                      /\ \/ f = None
                         \/ f # None /\ f.kind = "widgetSession" /\ f.at = "asked" /\ f.tok = c.token
<1>1. Shape(c) /\ c.st \in State
  BY SoundTyped
<1>2. CASE IsEmpty(arg.left)
  <2>1. PICK lines : lines = NoLines
    OBVIOUS
  <2>2. PICK e : e = IF arg.replays THEN SaveBuffer(c, lines) ELSE c
    OBVIOUS
  <2>3. PICK told : told = IF arg.soldOut THEN ReqFail(e.st, "cart") ELSE e.st
    OBVIOUS
  <2>4. PICK s : s = OtpVerified(told, arg.user)
    OBVIOUS
  <2>5. PICK e1 : e1 = [e EXCEPT !.st = s]
    OBVIOUS
  <2>6. PICK d : d = Replay(c, i, arg)
    OBVIOUS
  <2>7. d = Finally(e1, i, "widgetSession")
    BY <1>2, <2>1, <2>2, <2>3, <2>4, <2>5, <2>6 DEF FinishSignIn, Replay
  <2>8. lines \in Lines
    BY <2>1, NoLinesIs
  <2>9. /\ Frames(c, e) /\ e.st \in State /\ e.inflight = c.inflight /\ e.token = c.token
        /\ Untouched(c.st, e.st)
    <3>1. CASE arg.replays
      <4>1. e = SaveBuffer(c, lines)
        BY <2>2, <3>1
      <4>2. /\ Frames(c, e) /\ e.st = SetCartBuffer(c.st, lines) /\ e.inflight = c.inflight
            /\ e.token = c.token
        BY <1>1, <4>1, SaveBufferIs
      <4>3. Untouched(c.st, e.st)
        BY <1>1, <4>2, UserUntouched
      <4>4. e.st \in State
        BY <2>8, <4>1, SaveBufferKeeps, SoundTyped
      <4> QED BY <4>2, <4>3, <4>4
    <3>2. CASE ~ arg.replays
      BY <1>1, <2>2, <3>2 DEF Frames, Untouched
    <3> QED BY <3>1, <3>2
  <2>10. told \in State /\ Untouched(e.st, told)
    <3>1. CASE arg.soldOut
      <4>1. "cart" \in PlainKey
        BY DEF PlainKey, RequestKey
      <4> QED BY <2>3, <2>9, <3>1, <4>1, SettledUntouched, ReqFailFollows DEF Follows
    <3>2. CASE ~ arg.soldOut
      BY <2>3, <2>9, <3>2 DEF Untouched
    <3> QED BY <3>1, <3>2
  <2>11. Untouched(c.st, s)
    BY <2>4, <2>9, <2>10, UserUntouched DEF Untouched
  <2>12. Shape(e)
    BY <2>9 DEF Frames
  <2>13. /\ Frames(e, e1) /\ e1.st = s /\ e1.inflight = e.inflight /\ e1.token = e.token
    BY <2>5, <2>12, StIs
  <2>14. Frames(c, e1)
    BY <2>9, <2>13 DEF Frames
  <2>15. /\ Places(c, d, i, None) /\ d.st = s /\ d.inflight = c.inflight \ {"widgetSession"}
         /\ d.token = c.token
    BY <2>7, <2>9, <2>13, <2>14, FinallyTurns
  <2> QED BY <2>6, <2>11, <2>15
<1>3. CASE ~ IsEmpty(arg.left)
  <2>1. PICK d : d = AskAgain(c, i, arg)
    OBVIOUS
  <2>2. d = Replay(c, i, arg)
    BY <1>3, <2>1 DEF Replay
  <2>3. c.flows[i] # None /\ c.flows[i].kind = "widgetSession"
    BY DEF SignsIn
  <2>4. PICK of : of = c.flows[i].of
    OBVIOUS
  <2>5. of \in 0..MaxFlows /\ c.token \in Tokens \cup {NoToken}
    BY <2>3, <2>4, GoodCallIs, SoundTyped DEF Typed
  <2>6. MayAsk("widgetSession", arg)
    BY <1>3 DEF MayAsk, ArgsOf, Kind, RequestKey, CallKind
  <2>7. PICK f : f = Flow(c, "widgetSession", arg, of)
    OBVIOUS
  <2>8. /\ Places(c, d, i, f) /\ d.st = c.st /\ d.inflight = c.inflight /\ d.token = c.token
    BY <1>1, <2>1, <2>3, <2>4, <2>7, AskAgainIs
  <2>9. f # None /\ f.kind = "widgetSession" /\ f.at = "asked" /\ f.tok = c.token
    BY <2>5, <2>6, <2>7, GoodFlow DEF Flow
  <2> QED BY <2>2, <2>8, <2>9 DEF Untouched
<1> QED BY <1>2, <1>3

LEMMA ReplayAnsweredSettles ==
  ASSUME NEW c, NEW i, Heard(c, i), c.flows[i].kind = "widgetSession",
         c.flows[i].arg.step = "replay"
  PROVE  Settles(c, ReplayAnswered(c, i), Both)
<1>1. /\ Sound(c) /\ i \in FlowIds /\ c.flows[i] # None /\ c.st \in State
      /\ c.flows[i].at = "answered" /\ Shape(c)
      /\ c.flows[i].status = "ok" => c.flows[i].body \in BodiesOf(c.flows[i].kind, c.flows[i].arg)
      /\ c.flows[i].arg \in ArgsOf(c.flows[i].kind) /\ ~ IsEmpty(c.flows[i].arg.left)
  BY HeardIs DEF Heard
<1>2. PICK f : f = c.flows[i]
  OBVIOUS
<1>3. f.arg \in SignIns /\ f.arg.step = "replay"
  BY <1>1, <1>2 DEF ArgsOf
<1>4. PICK p : p = NextItem(f.arg.left)
  OBVIOUS
<1>5. PICK left : left = [f.arg.left EXCEPT ![p] = 0]
  OBVIOUS
<1>6. left \in Lines
  <2>1. PICK l : l = f.arg.left
    OBVIOUS
  <2>2. l \in Lines
    BY <1>3, <2>1 DEF SignIns
  <2>3. left = [l EXCEPT ![p] = 0]
    BY <1>5, <2>1
  <2>4. 0 \in 0..MaxQty
    BY ShopAssumption
  <2> QED BY <2>2, <2>3, <2>4 DEF Lines
<1>7. PICK out \in BOOLEAN : out = (f.arg.soldOut \/ f.status = "409")
  OBVIOUS
<1>8. PICK a1 : a1 = [f.arg EXCEPT !.left = left]
  OBVIOUS
<1>9. a1 \in SignIns /\ a1.step = "replay" /\ a1.soldOut = f.arg.soldOut /\ a1.left = left
  BY <1>3, <1>6, <1>8 DEF SignIns
<1>10. PICK arg : arg = [a1 EXCEPT !.soldOut = out]
  OBVIOUS
<1>11. arg \in SignIns /\ arg.step = "replay"
  BY <1>9, <1>10 DEF SignIns
<1>12. arg = [f.arg EXCEPT !.left[NextItem(f.arg.left)] = 0, !.soldOut = @ \/ f.status = "409"]
  BY <1>3, <1>4, <1>5, <1>7, <1>8, <1>9, <1>10
<1>13. PICK s : s = CartLoaded(c.st, f.body)
  OBVIOUS
<1>14. PICK heard : heard = IF f.status = "ok" THEN [c EXCEPT !.st = s] ELSE c
  OBVIOUS
<1>15. PICK d : d = Replay(heard, i, arg)
  OBVIOUS
<1>16. d = ReplayAnswered(c, i)
  BY <1>2, <1>12, <1>13, <1>14, <1>15 DEF ReplayAnswered
<1>17. /\ Sound(heard) /\ Frames(c, heard) /\ heard.inflight = c.inflight
       /\ heard.token = c.token /\ heard.st.addresses = c.st.addresses
       /\ f.status = "ok" => heard.st.cart = f.body
  <2>1. CASE f.status = "ok"
    <3>1. f.body \in Lines
      BY <1>1, <1>2, <1>3, <2>1 DEF BodiesOf
    <3>2. Follows(c.st, s)
      BY <1>1, <1>13, <3>1, LoadedFollows
    <3>3. s.cart = f.body /\ s.addresses = c.st.addresses
      BY <1>1, <1>13, ShowsAnew
    <3>4. heard = [c EXCEPT !.st = s]
      BY <1>14, <2>1
    <3>5. Sound(heard)
      BY <1>1, <3>2, <3>4, StKeeps
    <3>6. Frames(c, heard) /\ heard.st = s /\ heard.inflight = c.inflight /\ heard.token = c.token
      BY <1>1, <3>4, StIs
    <3> QED BY <3>3, <3>5, <3>6
  <2>2. CASE f.status # "ok"
    BY <1>1, <1>14, <2>2 DEF Frames
  <2> QED BY <2>1, <2>2
<1>18. SignsIn(heard, i)
  BY <1>1, <1>17 DEF SignsIn, Frames
<1>19. PICK g :
         /\ d.token = heard.token /\ Untouched(heard.st, d.st)
         /\ \A key \in {"cart", "addresses"} : key \in d.inflight <=> key \in heard.inflight
         /\ Places(heard, d, i, g)
         /\ \/ g = None
            \/ g # None /\ g.kind = "widgetSession" /\ g.at = "asked" /\ g.tok = heard.token
  BY <1>1, <1>11, <1>15, <1>17, <1>18, ReplayTurns
<1>20. Places(c, d, i, g)
  BY <1>17, <1>19 DEF Places, Frames
<1>21. g = None \/ Begins(g, c.token)
  BY <1>17, <1>19 DEF Begins
<1>22. \A key \in {"cart", "addresses"} : key \in d.inflight =>
         key \in c.inflight /\ (c.flows[i] # None => c.flows[i].kind # key)
  BY <1>17, <1>19
<1>23. ASSUME NEW cart, HonestCart(c, cart)
       PROVE  d.st.cart = cart
  <2>1. f.status = "ok" /\ f.body = cart
    BY <1>1, <1>2, <1>23 DEF HonestCart, Honest, BringsCart, MayMiss
  <2> QED BY <1>17, <1>19, <2>1 DEF Untouched
<1>24. d.st.addresses = c.st.addresses /\ ~ RenewsBook(c.flows[i])
  BY <1>17, <1>19 DEF Untouched, RenewsBook
<1>25. d.token = c.token
  BY <1>17, <1>19
<1>26. Settles(c, d, Both)
  BY <1>1, <1>20, <1>21, <1>22, <1>23, <1>24, <1>25, PlaceSettles
<1> QED BY <1>16, <1>26

LEMMA UnauthorizedSettles ==
  ASSUME NEW c, Shape(c), NEW i, NEW what, what \subseteq Both
  PROVE  LET d == Unauthorized(c, i)
         IN Settles(c, d, what) /\ d.inflight = c.inflight /\ d.flows = c.flows
<1>1. CASE c.flows[i].status = "401" /\ c.flows[i].tok # NoToken
  <2>1. Unauthorized(c, i) = PerformSignOut(c)
    BY <1>1 DEF Unauthorized
  <2> QED BY <2>1, SignOutSettles
<1>2. CASE ~ (c.flows[i].status = "401" /\ c.flows[i].tok # NoToken)
  <2>1. Unauthorized(c, i) = c
    BY <1>2 DEF Unauthorized
  <2> QED BY <2>1, CarriesSame, CarriesSettles, SettlesLess
<1> QED BY <1>1, <1>2

\* A sign-in that succeeds begins another session.
SignedInBy(f) == f.kind = "widgetSession" /\ f.arg.step = "exchange" /\ f.status = "ok"

LEMMA AnsweredSettles ==
  ASSUME NEW d, NEW i, Heard(d, i), NEW e \in Answered(d, i), HasRoom(e),
         ~ SignedInBy(d.flows[i])
  PROVE  Settles(d, e, Told(d, i))
<1>1. PICK c : c = Unauthorized(d, i)
  OBVIOUS
<1>2. Sound(d) /\ Shape(d) /\ i \in FlowIds /\ Told(d, i) \subseteq Both
  BY HeardIs DEF Heard, Told
<1>3. Heard(c, i) /\ Settles(d, c, Told(d, i)) /\ c.inflight = d.inflight /\ c.flows = d.flows
  BY <1>1, <1>2, UnauthorizedKeeps, UnauthorizedSettles
<1>4. PICK kind : kind = c.flows[i].kind
  OBVIOUS
<1>5. kind \in CallKind \ {"boot"} /\ Shape(c) /\ Typed(c)
  BY <1>3, <1>4, HeardIs
<1>6. Told(c, i) = Told(d, i) /\ Free(c) \subseteq Both
  BY <1>3 DEF Told, Free
<1>7. SUFFICES Settles(c, e, Told(d, i))
  BY <1>3, SettlesTrans
<1>8. Carries(c, e) => Settles(c, e, Told(d, i))
  BY <1>2, CarriesSettles, SettlesLess
<1>9. Settles(c, e, Both) => Settles(c, e, Told(d, i))
  BY <1>2, SettlesLess
<1>10. CASE kind = "trust"
  <2>1. e = TrustAnswered(c, i)
    BY <1>1, <1>4, <1>10 DEF Answered
  <2> QED BY <1>3, <1>4, <1>8, <1>10, <2>1, LoadsAnsweredCarry
<1>11. CASE kind = "products"
  <2>1. e = ProductsAnswered(c, i)
    BY <1>1, <1>4, <1>11 DEF Answered
  <2> QED BY <1>3, <1>4, <1>8, <1>11, <2>1, LoadsAnsweredCarry
<1>12. CASE kind = "product"
  <2>1. e = ProductAnswered(c, i)
    BY <1>1, <1>4, <1>12 DEF Answered
  <2> QED BY <1>3, <1>4, <1>8, <1>12, <2>1, LoadsAnsweredCarry
<1>13. CASE kind = "restore"
  <2>1. e = RestoreAnswered(c, i)
    BY <1>1, <1>4, <1>13 DEF Answered
  <2>2. Settles(c, e, Free(c))
    BY <1>3, <1>4, <1>13, <2>1, RestoreAnsweredSettles
  <2>3. Told(d, i) \subseteq Free(c)
    BY <1>4, <1>6, <1>13 DEF Told, Free
  <2> QED BY <2>2, <2>3, SettlesLess
<1>14. CASE kind = "cart"
  <2>1. e = CartAnswered(c, i)
    BY <1>1, <1>4, <1>14 DEF Answered
  <2> QED BY <1>3, <1>4, <1>9, <1>14, <2>1, CartAnsweredSettles
<1>15. CASE kind = "addresses"
  <2>1. PICK loaded : loaded = AddressesLoaded(c.st, c.flows[i].body)
    OBVIOUS
  <2>2. e = Settle(c, i, "addresses", loaded)
    BY <1>1, <1>4, <1>15, <2>1 DEF Answered, AddressesAnswered
  <2> QED BY <1>3, <1>4, <1>9, <1>15, <2>1, <2>2, BookAnsweredSettles
<1>16. CASE kind = "orders"
  <2>1. e = OrdersAnswered(c, i)
    BY <1>1, <1>4, <1>16 DEF Answered
  <2> QED BY <1>3, <1>4, <1>8, <1>16, <2>1, LoadsAnsweredCarry
<1>17. CASE kind = "widgetSession"
  <2>1. c.flows[i].arg \in SignIns
    BY <1>3, <1>4, <1>17, HeardIs DEF ArgsOf
  <2>2. e = IF c.flows[i].arg.step = "exchange" THEN ExchangeAnswered(c, i)
            ELSE ReplayAnswered(c, i)
    BY <1>1, <1>4, <1>17 DEF Answered
  <2>3. CASE c.flows[i].arg.step = "exchange"
    <3>1. c.flows[i].status # "ok"
      BY <1>3, <1>4, <1>17, <2>3 DEF SignedInBy
    <3>2. PICK s : s = c.st
      OBVIOUS
    <3>3. e = Settle(c, i, "widgetSession", s)
      BY <2>2, <2>3, <3>1, <3>2 DEF ExchangeAnswered
    <3>4. Passes(c.flows[i], None, c.token)
      BY <1>4, <1>17, <2>3, OtherPasses
    <3>5. Carries(c, e)
      BY <1>2, <1>5, <3>1, <3>3, <3>4, SettleCarries
    <3> QED BY <1>8, <3>5
  <2>4. CASE c.flows[i].arg.step # "exchange"
    <3>1. e = ReplayAnswered(c, i) /\ c.flows[i].arg.step = "replay"
      BY <2>1, <2>2, <2>4 DEF SignIns
    <3> QED BY <1>3, <1>4, <1>9, <1>17, <3>1, ReplayAnsweredSettles
  <2> QED BY <2>3, <2>4
<1>18. CASE kind = "addressSave"
  <2>1. e = AddressSaveAnswered(c, i)
    BY <1>1, <1>4, <1>18 DEF Answered
  <2> QED BY <1>3, <1>4, <1>6, <1>18, <2>1, AddressSaveAnsweredSettles
<1>19. CASE kind = "addressDelete"
  <2>1. PICK loaded : loaded = AddressDeleted(c.st, c.flows[i].body)
    OBVIOUS
  <2>2. e = Settle(c, i, "addressDelete", loaded)
    BY <1>1, <1>4, <1>19, <2>1 DEF Answered, AddressDeleteAnswered
  <2> QED BY <1>3, <1>4, <1>9, <1>19, <2>1, <2>2, BookAnsweredSettles
<1>20. CASE kind = "checkout"
  <2>1. e \in CheckoutAnswered(c, i)
    BY <1>1, <1>4, <1>20 DEF Answered
  <2>2. CASE c.flows[i].status = "ok"
    <3>1. e = OpenSheet(c, i) \/ e = SheetBlocked(c, i)
      BY <2>1, <2>2 DEF CheckoutAnswered
    <3> QED BY <1>3, <1>4, <1>8, <1>20, <3>1, OpenSheetCarries
  <2>3. CASE c.flows[i].status # "ok"
    <3>1. e = CheckoutRefused(c, i)
      BY <2>1, <2>3 DEF CheckoutAnswered
    <3> QED BY <1>3, <1>4, <1>8, <1>20, <2>3, <3>1, CheckoutRefusedCarries
  <2> QED BY <2>2, <2>3
<1>21. CASE kind = "confirm"
  <2>1. e = ConfirmAnswered(c, i)
    BY <1>1, <1>4, <1>21 DEF Answered
  <2> QED BY <1>3, <1>4, <1>6, <1>21, <2>1, ConfirmAnsweredSettles
<1> QED BY <1>5, <1>10, <1>11, <1>12, <1>13, <1>14, <1>15, <1>16, <1>17, <1>18, <1>19, <1>20, <1>21
        DEF CallKind, Kind, RequestKey

LEMMA AfterJoinCarries ==
  ASSUME NEW c, Sound(c), NEW i \in FlowIds, Joined(c, i)
  PROVE  Carries(c, AfterJoin(c, i))
<1>1. PICK d : d = AfterJoin(c, i)
  OBVIOUS
<1>2. PICK f : f = c.flows[i]
  OBVIOUS
<1>3. f # None /\ f.at = "joining" /\ GoodCall(f) /\ Shape(c) /\ Typed(c) /\ c.st \in State
  BY <1>2, SoundTyped DEF Joined
<1>4. f.kind \in Joiners /\ f.status = None /\ f.arg \in ArgsOf(f.kind)
      /\ (f.kind = "widgetSession" => f.arg.step = "replay")
  BY <1>3 DEF GoodCall
<1>5. Passes(c.flows[i], None, c.token)
  <2>1. f.kind \notin {"cart", "addresses"}
    BY <1>4 DEF Joiners
  <2>2. f.kind = "widgetSession" => ~ RenewsCart(f)
    BY <1>3 DEF RenewsCart, BringsCart, Fulfilled
  <2> QED BY <1>2, <1>3, <2>1, OtherPasses
<1>6. PICK e : e = End(c, i)
  OBVIOUS
<1>7. Places(c, e, i, None) /\ e.st = c.st
  BY <1>3, <1>6, EndIs
<1>8. Shape(e) /\ Carries(c, e)
  BY <1>3, <1>5, <1>6, <1>7, EndCarries DEF Places
<1>9. CASE f.kind = "boot"
  <2>1. PICK s : s = BootDone(e.st)
    OBVIOUS
  <2>2. Untouched(e.st, s)
    BY <1>3, <1>7, <2>1, UserUntouched
  <2>3. d = [e EXCEPT !.st = s]
    BY <1>1, <1>2, <1>6, <1>9, <2>1 DEF AfterJoin
  <2>4. Carries(e, d)
    BY <1>8, <2>2, <2>3, StCarries
  <2> QED BY <1>1, <1>8, <2>4, CarriesTrans
<1>10. CASE f.kind \in {"restore", "confirm"}
  <2>1. d = e
    BY <1>1, <1>2, <1>6, <1>10 DEF AfterJoin
  <2> QED BY <1>1, <1>8, <2>1
<1>11. CASE f.kind = "widgetSession"
  <2>1. PICK arg : arg = f.arg
    OBVIOUS
  <2>2. arg \in SignIns /\ arg.step = "replay" /\ SignsIn(c, i)
    BY <1>2, <1>3, <1>4, <1>11, <2>1 DEF ArgsOf, SignsIn
  <2>3. d = Replay(c, i, arg)
    BY <1>1, <1>2, <1>11, <2>1 DEF AfterJoin
  <2>4. PICK g :
          /\ d.token = c.token /\ Untouched(c.st, d.st)
          /\ \A key \in {"cart", "addresses"} : key \in d.inflight <=> key \in c.inflight
          /\ Places(c, d, i, g)
          /\ \/ g = None
             \/ g # None /\ g.kind = "widgetSession" /\ g.at = "asked" /\ g.tok = c.token
    BY <2>2, <2>3, ReplayTurns
  <2>5. Passes(c.flows[i], g, c.token)
    BY <1>2, <1>3, <1>11, <2>4 DEF Passes, Begins, RenewsCart, RenewsBook, BringsCart, Fulfilled
  <2>6. Carries(c, d)
    BY <2>4, <2>5, PlaceCarries
  <2> QED BY <1>1, <2>6
<1>12. CASE f.kind = "addressSave"
  <2>1. d = Finally(c, i, "addressSave")
    BY <1>1, <1>2, <1>12 DEF AfterJoin
  <2> QED BY <1>1, <1>3, <1>5, <2>1, EndCarries
<1>13. CASE f.kind = "checkout"
  <2>1. PICK s : s = c.st
    OBVIOUS
  <2>2. d = Settle(c, i, "checkout", s)
    BY <1>1, <1>2, <1>13, <2>1 DEF AfterJoin
  <2>3. c.flows[i].status # "ok"
    BY <1>2, <1>4, NoneIsNothing
  <2>4. Carries(c, d)
    BY <1>3, <1>5, <2>2, <2>3, SettleCarries
  <2> QED BY <1>1, <2>4
<1> QED BY <1>1, <1>4, <1>9, <1>10, <1>11, <1>12, <1>13 DEF Joiners

LEMMA WakeCarries ==
  ASSUME NEW c, Sound(c), NEW i \in FlowIds, c.flows[i] # None, c.flows[i].at = "resting"
  PROVE  Carries(c, AskAgain(c, i, c.flows[i].arg))
<1>1. Shape(c) /\ Typed(c) /\ GoodCall(c.flows[i]) /\ c.flows[i].kind = "confirm"
  BY SoundTyped DEF GoodCall
<1>2. PICK arg, of : arg = c.flows[i].arg /\ of = c.flows[i].of
  OBVIOUS
<1>3. arg \in Tries /\ of \in 0..MaxFlows
  BY <1>1, <1>2, GoodCallIs DEF ArgsOf
<1>4. PICK d : d = AskAgain(c, i, arg)
  OBVIOUS
<1>5. PICK f : f = Flow(c, "confirm", arg, of)
  OBVIOUS
<1>6. /\ "confirm" \in Kind /\ arg \in ArgsOf("confirm") /\ c.token \in Tokens \cup {NoToken}
  BY <1>1, <1>3 DEF Kind, RequestKey, ArgsOf, Typed
<1>7. f # None /\ f.kind = "confirm" /\ f.at = "asked" /\ f.tok = c.token
  BY <1>3, <1>5, <1>6, FlowIs
<1>8. /\ Places(c, d, i, f) /\ d.st = c.st /\ d.inflight = c.inflight /\ d.token = c.token
  BY <1>1, <1>2, <1>4, <1>5, AskAgainIs
<1>9. Passes(c.flows[i], f, c.token)
  BY <1>1, <1>7 DEF Passes, Begins, RenewsCart, RenewsBook, BringsCart
<1>10. Carries(c, d)
  BY <1>8, <1>9, PlaceCarries DEF Untouched
<1> QED BY <1>2, <1>4, <1>10

LEMMA HandlerCarries ==
  ASSUME NEW c, Sound(c), c.sheet # None
  PROVE  HasRoom(Handler(c)) => Carries(c, Handler(c))
<1>1. Shape(c) /\ Typed(c) /\ c.sheet \in Sheets
  BY SoundTyped
<1>2. PICK yes \in BOOLEAN : yes = TRUE
  OBVIOUS
<1>3. PICK sheet : sheet = [c.sheet EXCEPT !.settled = yes]
  OBVIOUS
<1>4. PICK e : e = [c EXCEPT !.sheet = sheet]
  OBVIOUS
<1>5. e = [st |-> c.st, shown |-> c.shown, inflight |-> c.inflight, token |-> c.token,
           stored |-> c.stored, flows |-> c.flows, widget |-> c.widget, sheet |-> sheet]
  BY <1>1, <1>4 DEF Shape
<1>6. Shape(e) /\ Typed(e)
  BY <1>1, <1>5 DEF Shape, Typed
<1>7. Carries(c, e)
  BY <1>5, PassesSame DEF Carries, Untouched
<1>8. PICK arg : arg = [order |-> c.sheet.order, try |-> 1]
  OBVIOUS
<1>9. arg \in Tries
  BY <1>1, <1>8 DEF Sheets, Tries
<1>10. "confirm" \in Kind /\ "confirm" # "restore" /\ arg \in ArgsOf("confirm")
       /\ 0 \in 0..MaxFlows
  BY <1>9, FlowsAssumption DEF Kind, RequestKey, ArgsOf
<1>11. Handler(c) = Ask(e, "confirm", arg, 0)
  BY <1>2, <1>3, <1>4, <1>8 DEF Handler
<1>12. HasRoom(Ask(e, "confirm", arg, 0)) => Carries(e, Ask(e, "confirm", arg, 0))
  BY <1>6, <1>10, AskCarries
<1> QED BY <1>7, <1>11, <1>12, CarriesTrans

LEMMA OnDismissCarries ==
  ASSUME NEW c, Sound(c), c.sheet # None
  PROVE  Carries(c, OnDismiss(c))
<1>1. Shape(c) /\ Typed(c) /\ c.st \in State
  BY SoundTyped
<1>2. PICK d : d = OnDismiss(c)
  OBVIOUS
<1>3. CASE c.sheet.settled
  <2>1. d = [c EXCEPT !.sheet = None]
    BY <1>2, <1>3 DEF OnDismiss
  <2>2. d = [st |-> c.st, shown |-> c.shown, inflight |-> c.inflight, token |-> c.token,
             stored |-> c.stored, flows |-> c.flows, widget |-> c.widget, sheet |-> None]
    BY <1>1, <2>1 DEF Shape
  <2> QED BY <1>2, <2>2, PassesSame DEF Carries, Untouched
<1>4. CASE ~ c.sheet.settled
  <2>1. PICK s, keys : s = PaymentCancelled(c.st) /\ keys = c.inflight \ {"payment"}
    OBVIOUS
  <2>2. d = [c EXCEPT !.sheet = None, !.inflight = keys, !.st = s]
    BY <1>2, <1>4, <2>1 DEF OnDismiss
  <2>3. d = [st |-> s, shown |-> c.shown, inflight |-> keys, token |-> c.token,
             stored |-> c.stored, flows |-> c.flows, widget |-> c.widget, sheet |-> None]
    BY <1>1, <2>2 DEF Shape
  <2>4. Untouched(c.st, s)
    BY <1>1, <2>1, LoadedUntouched
  <2>5. \A key \in {"cart", "addresses"} : key \in d.inflight => key \in c.inflight
    BY <2>1, <2>3
  <2> QED BY <1>2, <2>3, <2>4, <2>5, PassesSame DEF Carries
<1> QED BY <1>3, <1>4

\* A page that owes nothing to an earlier call, and will show all anew.
Fresh(d) ==
  /\ Loads(d) /\ Restores(d)
  /\ \A sessions : (d.token # NoToken => sessions[d.token] # None) => Known(d, sessions)
  /\ d.token # NoToken => (\A cart : CartInv(d, cart)) /\ (\A book : BookInv(d, book))

LEMMA BlankFresh ==
  ASSUME NEW b, \A i \in FlowIds : b.flows[i] = None, b.inflight = {},
         NEW d, Carries(b, d),
         d.token # NoToken => /\ \E i \in FlowIds : RenewsCart(d.flows[i])
                              /\ \E i \in FlowIds : RenewsBook(d.flows[i])
  PROVE  Fresh(d)
<1>1. Settles(b, d, Both) /\ d.token = b.token
  BY CarriesSettles DEF Carries
<1>2. Loads(b) /\ Restores(b)
  BY DEF Loads, Restores
<1>3. \A sessions : (b.token # NoToken => sessions[b.token] # None) => Known(b, sessions)
  BY DEF Known, SignsIn
<1>4. \A cart : HonestCart(b, cart)
  BY DEF HonestCart, BringsCart
<1>5. \A book : HonestBook(b, book)
  BY DEF HonestBook, BringsBook
<1>6. ASSUME d.token # NoToken, NEW cart
      PROVE  CartInv(d, cart)
  BY <1>1, <1>4, <1>6 DEF Settles, CartInv, HonestCart
<1>7. ASSUME d.token # NoToken, NEW book
      PROVE  BookInv(d, book)
  BY <1>1, <1>5, <1>7 DEF Settles, BookInv, HonestBook
<1> QED BY <1>1, <1>2, <1>3, <1>6, <1>7 DEF Settles, Fresh

LEMMA OpenPageFresh ==
  ASSUME NEW token \in Tokens \cup {NoToken}, NEW stored \in Lines,
         HasRoom(OpenPage(token, stored))
  PROVE  Fresh(OpenPage(token, stored)) /\ OpenPage(token, stored).token = token
<1>1. PICK s0 : s0 = SetCartBuffer(InitialState, stored)
  OBVIOUS
<1>2. PICK none : none = {}
  OBVIOUS
<1>3. PICK flows : flows = [i \in FlowIds |-> None]
  OBVIOUS
<1>4. PICK blank : blank = [st |-> s0, shown |-> InitialState,
                inflight |-> none, token |-> token, stored |-> stored,
                flows |-> flows, widget |-> None, sheet |-> None]
  OBVIOUS
<1>5. PICK d : d = OpenPage(token, stored)
  OBVIOUS
<1>6. d = RunBoot(blank)
  BY <1>1, <1>2, <1>3, <1>4, <1>5 DEF OpenPage
<1>7. Sets(InitialState, s0)
  BY <1>1, InitialStateIs, BufferFollows
<1>8. s0 \in State /\ s0.pending = {} /\ s0.pdp = None /\ s0.detail = None /\ s0.cancelled = FALSE
  <2>1. s0 \in State /\ s0.pending = {} /\ s0.pdp = None /\ s0.detail = None
    BY <1>7, InitialStateIs DEF Sets, Follows
  <2>2. s0.cancelled \in BOOLEAN
    BY <2>1 DEF State
  <2>3. ~ s0.cancelled
    BY <1>7, InitialStateIs DEF Sets, Follows
  <2> QED BY <2>1, <2>2, <2>3
<1>9. flows = [i \in FlowIds |-> flows[i]] /\ \A i \in FlowIds : flows[i] = None
  BY <1>3
<1>10. Shape(blank)
  BY <1>4, <1>9 DEF Shape
<1>11. Typed(blank)
  BY <1>2, <1>4, <1>8 DEF Typed
<1>12. Resting(blank)
  BY <1>4, <1>8, <1>9, <1>10, <1>11, InitialStateIs DEF Resting
<1>13. Sound(blank)
  BY <1>12, RestingSound
<1>14. HasRoom(blank)
  BY <1>5, <1>9, <1>4 DEF HasRoom
<1>15. /\ Carries(blank, d)
       /\ blank.token # NoToken =>
            /\ \E j \in FlowIds : RenewsCart(d.flows[j])
            /\ \E j \in FlowIds : RenewsBook(d.flows[j])
  BY <1>5, <1>6, <1>13, <1>14, RunBootCarries
<1>16. blank.token = token /\ blank.inflight = {} /\ \A i \in FlowIds : blank.flows[i] = None
  BY <1>2, <1>4, <1>9
<1>17. d.token = token
  BY <1>15, <1>16 DEF Carries
<1>18. Fresh(d)
  BY <1>15, <1>16, <1>17, BlankFresh
<1> QED BY <1>5, <1>17, <1>18

\* The page a sign-in leaves with the token it brings, before the loads.
SignedInAs(c, d, i, e, g) ==
  /\ Places(c, e, i, g) /\ g.at = "joining" /\ g.kind = "widgetSession"
  /\ e.token = c.flows[i].body.token /\ e.inflight = c.inflight
  /\ Carries(e, d)
  /\ "cart" \notin c.inflight => \E j \in FlowIds : RenewsCart(d.flows[j])
  /\ "addresses" \notin c.inflight => \E j \in FlowIds : RenewsBook(d.flows[j])

\* A sign-in that succeeds: the loads it starts show all of the new session.
LEMMA SignedInAnew ==
  ASSUME NEW c, NEW i, Heard(c, i), SignedInBy(c.flows[i]), NEW d \in Answered(c, i), HasRoom(d)
  PROVE  \E e, g : SignedInAs(c, d, i, e, g)
<1>1. /\ Sound(c) /\ i \in FlowIds /\ c.flows[i] # None /\ c.st \in State
      /\ c.flows[i].status = "ok" => c.flows[i].body \in BodiesOf(c.flows[i].kind, c.flows[i].arg)
      /\ Shape(c) /\ Typed(c) /\ GoodCall(c.flows[i])
  BY HeardIs DEF Heard
<1>2. i \in 0..MaxFlows
  BY <1>1, FlowsAssumption DEF FlowIds
<1>3. PICK f : f = c.flows[i]
  OBVIOUS
<1>4. f.kind = "widgetSession" /\ f.arg.step = "exchange" /\ f.status = "ok"
  BY <1>3 DEF SignedInBy
<1>5. d = ExchangeAnswered(c, i)
  <2>1. Unauthorized(c, i) = c
    BY <1>3, <1>4 DEF Unauthorized
  <2> QED BY <1>3, <1>4, <2>1 DEF Answered
<1>6. PICK tok, user : tok = f.body.token /\ user = f.body.user
  OBVIOUS
<1>7. tok \in Tokens \cup {NoToken} /\ user \in Shoppers \cup {None}
  BY <1>1, <1>3, <1>4, <1>6 DEF BodiesOf, Sessions
<1>8. PICK arg1 : arg1 = [f.arg EXCEPT !.step = "replay"]
  OBVIOUS
<1>9. PICK arg2 : arg2 = [arg1 EXCEPT !.user = user]
  OBVIOUS
<1>10. f.arg \in SignIns
  BY <1>1, <1>3, <1>4, HeardIs DEF ArgsOf
<1>11. arg2 \in SignIns /\ arg2.step = "replay"
  BY <1>7, <1>8, <1>9, <1>10 DEF SignIns
<1>12. f = [kind |-> f.kind, at |-> f.at, tok |-> f.tok, arg |-> f.arg, of |-> f.of,
            status |-> f.status, body |-> f.body]
       /\ f \in CallsOf(f.kind, f.arg, f.body)
  BY <1>1, <1>3, GoodCallIs DEF GoodCall, CallKind
<1>13. PICK f1 : f1 = [f EXCEPT !.arg = arg1]
  OBVIOUS
<1>14. PICK f2 : f2 = [f1 EXCEPT !.arg = arg2]
  OBVIOUS
<1>15. /\ f2 = [kind |-> f2.kind, at |-> f2.at, tok |-> f2.tok, arg |-> f2.arg, of |-> f2.of,
                status |-> f2.status, body |-> f2.body]
       /\ f2.kind = f.kind /\ f2.arg = arg2 /\ f1.arg = arg1
       /\ f2.at = f.at /\ f2.tok = f.tok /\ f2.of = f.of
       /\ f2.status = f.status /\ f2.body = f.body
  BY <1>12, <1>13, <1>14
<1>16. PICK c1 : c1 = [c EXCEPT !.token = tok]
  OBVIOUS
<1>17. /\ Frames(c, c1) /\ c1.st = c.st /\ c1.inflight = c.inflight /\ c1.token = tok
       /\ c1.stored = c.stored
  BY <1>1, <1>16, TokenIs
<1>18. Shape(c1) /\ c1.flows[i] = f
  BY <1>3, <1>17 DEF Frames
<1>19. PICK c2 : c2 = [c1 EXCEPT !.flows[i] = f1]
  OBVIOUS
<1>20. /\ Places(c1, c2, i, f1) /\ c2.st = c1.st /\ c2.inflight = c1.inflight
       /\ c2.token = c1.token /\ c2.stored = c1.stored
  BY <1>18, <1>19, SlotIs
<1>21. Shape(c2) /\ c2.flows[i] = f1
  BY <1>1, <1>20 DEF Places
<1>22. PICK c3 : c3 = [c2 EXCEPT !.flows[i] = f2]
  OBVIOUS
<1>23. /\ Places(c2, c3, i, f2) /\ c3.st = c2.st /\ c3.inflight = c2.inflight
       /\ c3.token = c2.token /\ c3.stored = c2.stored
  BY <1>21, <1>22, SlotIs
<1>24. Shape(c3) /\ c3.flows[i] = f2
  BY <1>1, <1>23 DEF Places
<1>25. c2 = [c1 EXCEPT !.flows[i].arg.step = "replay"]
  BY <1>8, <1>13, <1>18, <1>19
<1>26. c3 = [c2 EXCEPT !.flows[i].arg.user = user]
  BY <1>9, <1>14, <1>15, <1>21, <1>22
<1>27. c3 = [c EXCEPT !.token = f.body.token,
                      !.flows[i].arg.step = "replay", !.flows[i].arg.user = f.body.user]
  BY <1>6, <1>16, <1>25, <1>26
<1>28. PICK e : e = Join(c3, i)
  OBVIOUS
<1>29. PICK g : g = Joining(f2)
  OBVIOUS
<1>30. /\ Places(c3, e, i, g) /\ e.st = c3.st /\ e.inflight = c3.inflight
       /\ e.token = c3.token /\ e.stored = c3.stored
  BY <1>1, <1>15, <1>24, <1>28, <1>29, JoinIs
<1>31. Places(c, e, i, g)
  BY <1>17, <1>20, <1>23, <1>30 DEF Places, Frames
<1>32. g.at = "joining" /\ g.kind = "widgetSession"
  BY <1>4, <1>15, <1>29 DEF Joining
<1>33. Typed(e) /\ Shape(e)
  BY <1>1, <1>7, <1>17, <1>20, <1>23, <1>30 DEF Typed, Places
<1>34. e.inflight = c.inflight /\ e.token = c.flows[i].body.token
  BY <1>3, <1>6, <1>17, <1>20, <1>23, <1>30
<1>35. d = LoadAddresses(LoadCart(e, i), i)
  BY <1>3, <1>4, <1>5, <1>27, <1>28 DEF ExchangeAnswered
<1>36. /\ Carries(e, d)
       /\ "cart" \notin e.inflight => \E j \in FlowIds : RenewsCart(d.flows[j])
       /\ "addresses" \notin e.inflight => \E j \in FlowIds : RenewsBook(d.flows[j])
  BY <1>2, <1>33, <1>35, LoadBothCarry
<1>37. SignedInAs(c, d, i, e, g)
  BY <1>31, <1>32, <1>34, <1>36 DEF SignedInAs
<1> QED BY <1>37

-----------------------------------------------------------------------------
(* What the page shows at last: the steps.                                 *)

LEMMA PageSettles ==
  ASSUME SettleInv, NEW d, NEW what, Settles(tab, d, what), tab' = d, srv' = srv,
         seen \subseteq seen',
         "cart" \notin what => "cartRace" \in seen', "book" \notin what => "bookRace" \in seen'
  PROVE  SettleInv'
<1>1. Loads(tab') /\ Known(tab', srv'.sessions)
  BY DEF SettleInv, Settles
<1>2. "fault" \notin seen' => Restores(tab) /\ Restores(tab')
  BY DEF SettleInv, Settles
<1>3. ASSUME tab'.token # NoToken, tab'.token \notin srv'.lapsed
      PROVE  /\ seen' \cap {"fault", "cartRace", "placed"} = {}
                  => CartInv(tab', srv'.carts[srv'.sessions[tab'.token]])
             /\ seen' \cap {"fault", "bookRace"} = {}
                  => BookInv(tab', srv'.books[srv'.sessions[tab'.token]])
  <2>1. tab'.token = tab.token
    BY <1>3 DEF Settles
  <2>2. PICK cart, book : /\ cart = srv.carts[srv.sessions[tab.token]]
                          /\ book = srv.books[srv.sessions[tab.token]]
    OBVIOUS
  <2>3. ASSUME seen' \cap {"fault", "cartRace", "placed"} = {}
        PROVE  CartInv(tab', cart)
    <3>1. CartInv(tab, cart) /\ Restores(tab) /\ "cart" \in what
      BY <1>2, <1>3, <2>1, <2>2, <2>3 DEF SettleInv
    <3> QED BY <1>3, <3>1 DEF Settles
  <2>4. ASSUME seen' \cap {"fault", "bookRace"} = {}
        PROVE  BookInv(tab', book)
    <3>1. BookInv(tab, book) /\ Restores(tab) /\ "book" \in what
      BY <1>2, <1>3, <2>1, <2>2, <2>4 DEF SettleInv
    <3> QED BY <1>3, <3>1 DEF Settles
  <2> QED BY <2>1, <2>2, <2>3, <2>4
<1> QED BY <1>1, <1>2, <1>3 DEF SettleInv

LEMMA CarrySettles ==
  ASSUME SettleInv, NEW d, Carries(tab, d), tab' = d, srv' = srv, seen \subseteq seen'
  PROVE  SettleInv'
<1>1. PICK what : what = Both
  OBVIOUS
<1>2. "cart" \in what /\ "book" \in what /\ Settles(tab, d, what)
  BY <1>1, CarriesSettles DEF Both
<1> QED BY <1>2, PageSettles

\* The answer of i is heard while no load of its kind is under way.
LEMMA ResumeSettles ==
  ASSUME TypeInv, TabInv, AskedInv, SettleInv, NEW i \in FlowIds, Resume(i),
         ~ SignedInBy(tab.flows[i])
  PROVE  SettleInv'
<1>1. PICK c, what : c = tab /\ what = Told(c, i)
  OBVIOUS
<1>2. PICK d \in Answered(c, i) : Turns(d)
  BY <1>1 DEF Resume
<1>3. Heard(c, i) /\ tab' = d /\ HasRoom(d) /\ srv' = srv
  BY <1>1, <1>2 DEF Resume, Heard, TabInv, Turns
<1>4. Settles(c, d, what)
  BY <1>1, <1>2, <1>3, AnsweredSettles
<1>5. PICK kind : kind = c.flows[i].kind
  OBVIOUS
<1>6. seen' = seen \cup Skips(kind)
  BY <1>1, <1>5 DEF Resume
<1>7. Loads(c)
  BY <1>1 DEF SettleInv
<1>8. "cart" \notin what => "cartRace" \in Skips(kind)
  BY <1>1, <1>5, <1>7 DEF Told, Both, Loads, Has, Skips, Waiting
<1>9. "book" \notin what => "bookRace" \in Skips(kind)
  BY <1>1, <1>5, <1>7 DEF Told, Both, Loads, Has, Skips, Waiting
<1>10. seen \subseteq seen' /\ ("cart" \notin what => "cartRace" \in seen')
       /\ ("book" \notin what => "bookRace" \in seen')
  BY <1>6, <1>8, <1>9
<1>11. Settles(tab, d, what) /\ tab' = d /\ srv' = srv
  BY <1>1, <1>3, <1>4
<1> QED BY <1>10, <1>11, PageSettles

\* A new session: nothing that was asked in another one is still to be told.
LEMMA SignInSettles ==
  ASSUME TypeInv, TabInv, AskedInv, SettleInv, NEW i \in FlowIds, Resume(i),
         SignedInBy(tab.flows[i])
  PROVE  SettleInv'
<1>1. PICK c, token : c = tab /\ token = c.flows[i].body.token
  OBVIOUS
<1>2. PICK d \in Answered(c, i) : Turns(d)
  BY <1>1 DEF Resume
<1>3. Heard(c, i) /\ tab' = d /\ HasRoom(d) /\ srv' = srv /\ SignedInBy(c.flows[i])
  BY <1>1, <1>2 DEF Resume, Heard, TabInv, Turns
<1>4. PICK e, g : SignedInAs(c, d, i, e, g)
  BY <1>2, <1>3, SignedInAnew
<1>5. /\ Places(c, e, i, g) /\ g.at = "joining" /\ g.kind = "widgetSession"
      /\ e.token = token /\ e.inflight = c.inflight /\ Carries(e, d)
  BY <1>1, <1>4 DEF SignedInAs
<1>6. Settles(e, d, Both) /\ d.token = token
  BY <1>5, CarriesSettles DEF Carries
<1>7. c.flows[i] # None /\ c.flows[i].kind = "widgetSession" /\ c.flows[i].arg.step = "exchange"
      /\ c.flows[i].at = "answered" /\ c.flows[i].status = "ok"
  BY <1>3 DEF SignedInBy, Heard
<1>8. Loads(c) /\ Known(c, srv.sessions) /\ ("fault" \notin seen => Restores(c))
  BY <1>1 DEF SettleInv
<1>9. /\ e.flows[i] = g
      /\ \A j \in FlowIds : j # i => e.flows[j] = c.flows[j]
  BY <1>5 DEF Places
<1>10. Loads(e)
  BY <1>5, <1>7, <1>8, <1>9 DEF Loads, Has
<1>11. Known(e, srv.sessions)
  <2>1. srv.sessions[token] # None
    BY <1>1, <1>7, <1>8 DEF Known, SignsIn, Fulfilled
  <2>2. ~ Fulfilled(g)
    BY <1>5 DEF Fulfilled
  <2> QED BY <1>5, <1>8, <1>9, <2>1, <2>2 DEF Known, SignsIn
<1>12. Restores(c) => Restores(e)
  BY <1>5, <1>9 DEF Restores
<1>13. Loads(d) /\ Known(d, srv.sessions) /\ ("fault" \notin seen => Restores(d))
  BY <1>6, <1>8, <1>10, <1>11, <1>12 DEF Settles
<1>14. seen' = seen \cup Skips("widgetSession")
  BY <1>1, <1>7 DEF Resume
<1>15. \A j \in FlowIds : j # i => ~ SignsIn(c, j)
  BY <1>1, <1>7 DEF AskedInv, Once, SignsIn
<1>16. ASSUME "cartRace" \notin seen', d.token # NoToken, NEW cart
       PROVE  CartInv(d, cart)
  <2>1. \A j \in FlowIds : ~ (c.flows[j] # None /\ c.flows[j].kind = "cart")
    BY <1>1, <1>14, <1>16 DEF Skips, Waiting
  <2>2. "cart" \notin c.inflight
    BY <1>8, <2>1 DEF Loads, Has
  <2>3. HonestCart(e, cart)
    BY <1>5, <1>9, <1>15, <2>1 DEF HonestCart, BringsCart, Honest, SignsIn
  <2>4. HonestCart(d, cart) /\ \E j \in FlowIds : RenewsCart(d.flows[j])
    BY <1>4, <1>6, <1>16, <2>2, <2>3 DEF Settles, SignedInAs
  <2> QED BY <2>4 DEF CartInv, HonestCart
<1>17. ASSUME "bookRace" \notin seen', d.token # NoToken, NEW book
       PROVE  BookInv(d, book)
  <2>1. \A j \in FlowIds : ~ (c.flows[j] # None /\ c.flows[j].kind \in {"addresses", "addressDelete"})
    BY <1>1, <1>14, <1>17 DEF Skips, Waiting
  <2>2. "addresses" \notin c.inflight
    BY <1>8, <2>1 DEF Loads, Has
  <2>3. HonestBook(e, book)
    BY <1>5, <1>9, <2>1 DEF HonestBook, BringsBook, Honest
  <2>4. HonestBook(d, book) /\ \E j \in FlowIds : RenewsBook(d.flows[j])
    BY <1>4, <1>6, <1>17, <2>2, <2>3 DEF Settles, SignedInAs
  <2> QED BY <2>4 DEF BookInv, HonestBook
<1>18. "fault" \notin seen' => "fault" \notin seen
  BY <1>14
<1> QED BY <1>3, <1>13, <1>16, <1>17, <1>18 DEF SettleInv

\* What goes on in the page when calls end and when timers do, and what the
\* payment sheet reports.
LEMMA OwnStepsSettle ==
  ASSUME TypeInv, TabInv, SettleInv,
         HandlerFires \/ CloseSheet \/ \E i \in FlowIds : FinishJoin(i) \/ Wake(i)
  PROVE  SettleInv'
<1>1. PICK c : c = tab
  OBVIOUS
<1>2. Sound(c)
  BY <1>1 DEF TabInv
<1>3. ASSUME NEW d, Carries(c, d), Page(d)
      PROVE  SettleInv'
  <2>1. tab' = d /\ srv' = srv /\ seen \subseteq seen' /\ Carries(tab, d)
    BY <1>1, <1>3 DEF Page, Turns
  <2> QED BY <2>1, CarrySettles
<1>4. ASSUME NEW i \in FlowIds, FinishJoin(i)
      PROVE  SettleInv'
  <2>1. PICK d : d = AfterJoin(c, i)
    OBVIOUS
  <2>2. Joined(c, i) /\ Page(d)
    BY <1>1, <1>4, <2>1 DEF FinishJoin
  <2>3. Carries(c, d)
    BY <1>2, <2>1, <2>2, AfterJoinCarries
  <2> QED BY <1>3, <2>2, <2>3
<1>5. ASSUME NEW i \in FlowIds, Wake(i)
      PROVE  SettleInv'
  <2>1. PICK d : d = AskAgain(c, i, c.flows[i].arg)
    OBVIOUS
  <2>2. c.flows[i] # None /\ c.flows[i].at = "resting" /\ Page(d)
    BY <1>1, <1>5, <2>1 DEF Wake
  <2>3. Carries(c, d)
    BY <1>2, <2>1, <2>2, WakeCarries
  <2> QED BY <1>3, <2>2, <2>3
<1>6. CASE HandlerFires
  <2>1. PICK d : d = Handler(c)
    OBVIOUS
  <2>2. c.sheet # None /\ Page(d)
    BY <1>1, <1>6, <2>1 DEF HandlerFires
  <2>3. HasRoom(Handler(c))
    BY <2>1, <2>2 DEF Page, Turns
  <2>4. Carries(c, d)
    BY <1>2, <2>1, <2>2, <2>3, HandlerCarries
  <2> QED BY <1>3, <2>2, <2>4
<1>7. CASE CloseSheet
  <2>1. PICK d : d = OnDismiss(c)
    OBVIOUS
  <2>2. c.sheet # None /\ Page(d)
    BY <1>1, <1>7, <2>1 DEF CloseSheet
  <2>3. Carries(c, d)
    BY <1>2, <2>1, <2>2, OnDismissCarries
  <2> QED BY <1>3, <2>2, <2>3
<1> QED BY <1>4, <1>5, <1>6, <1>7

\* A step that ends with a render.
LEMMA RenderedSettles ==
  ASSUME TabInv, SettleInv, NEW c, Turns(Render(c)), Keeps(tab, c), Carries(tab, c),
         srv' = srv, seen \subseteq seen'
  PROVE  SettleInv'
<1>1. Shape(c) /\ Typed(c) /\ tab' = Render(c) /\ HasRoom(Render(c))
  BY DEF Keeps, Asks, Turns
<1>2. PICK d : d = Render(c)
  OBVIOUS
<1>3. Carries(tab, d)
  BY <1>1, <1>2, RenderCarries, CarriesTrans
<1> QED BY <1>1, <1>2, <1>3, CarrySettles

LEMMA CommitSettles ==
  ASSUME TabInv, SettleInv, Commit
  PROVE  SettleInv'
<1>1. PICK c, d : c = tab /\ d = Render(c)
  OBVIOUS
<1>2. Shape(c) /\ Typed(c)
  BY <1>1, SoundTyped DEF TabInv
<1>3. tab' = d /\ HasRoom(Render(c)) /\ srv' = srv /\ seen \subseteq seen'
  BY <1>1 DEF Commit, Page, Turns
<1>4. Carries(tab, d)
  BY <1>1, <1>2, <1>3, RenderCarries
<1> QED BY <1>3, <1>4, CarrySettles

LEMMA ReloadSettles ==
  ASSUME TabInv, SettleInv, Reload
  PROVE  SettleInv'
<1>1. PICK token, stored : token = tab.token /\ stored = tab.stored
  OBVIOUS
<1>2. token \in Tokens \cup {NoToken} /\ stored \in Lines
  BY <1>1, SoundTyped DEF TabInv, Typed
<1>3. PICK d : d = OpenPage(token, stored)
  OBVIOUS
<1>4. tab' = d /\ HasRoom(d) /\ srv' = srv
  BY <1>1, <1>3 DEF Reload, Turns
<1>5. Fresh(d) /\ d.token = token
  BY <1>2, <1>3, <1>4, OpenPageFresh
<1>6. token # NoToken => srv.sessions[token] # None
  BY <1>1 DEF SettleInv, Known
<1> QED BY <1>4, <1>5, <1>6 DEF Fresh, SettleInv

\* A command that may be clicked: it asks for what there is room for, and
\* loses nothing of what is or will be shown.
Offers(c, d) == Keeps(c, d) /\ (HasRoom(d) => Carries(c, d))

LEMMA OffersSame ==
  ASSUME NEW c, Sound(c)
  PROVE  Offers(c, c)
BY SoundTyped, CarriesSame DEF Offers, Keeps, Asks

LEMMA GuardedOffers ==
  ASSUME NEW c, Sound(c), NEW key \in PlainKey, key # "product", NEW arg, MayAsk(key, arg)
  PROVE  Offers(c, Guarded(c, key, arg, 0))
<1>1. key \in RequestKey /\ 0 \in 0..MaxFlows /\ Shape(c) /\ Typed(c)
  BY FlowsAssumption, SoundTyped DEF PlainKey
<1>2. PICK d : d = Guarded(c, key, arg, 0)
  OBVIOUS
<1>3. Keeps(c, d)
  BY <1>2, GuardedMeets
<1>4. HasRoom(d) => Carries(c, d)
  BY <1>1, <1>2, GuardedCarries
<1> QED BY <1>2, <1>3, <1>4 DEF Offers

LEMMA StOffers ==
  ASSUME NEW c, Sound(c), NEW s, Follows(c.st, s), Untouched(c.st, s)
  PROVE  Offers(c, [c EXCEPT !.st = s])
<1>1. Shape(c)
  BY SoundTyped
<1>2. PICK d : d = [c EXCEPT !.st = s]
  OBVIOUS
<1>3. Keeps(c, d) /\ Carries(c, d)
  BY <1>1, <1>2, StMeets, StCarries
<1> QED BY <1>2, <1>3 DEF Offers

LEMMA BufferOffers ==
  ASSUME NEW c, Sound(c), NEW lines \in Lines
  PROVE  Offers(c, SaveBuffer(c, lines))
<1>1. Shape(c) /\ c.st \in State
  BY SoundTyped
<1>2. PICK d : d = SaveBuffer(c, lines)
  OBVIOUS
<1>3. /\ Frames(c, d) /\ d.st = SetCartBuffer(c.st, lines) /\ d.inflight = c.inflight
      /\ d.token = c.token
  BY <1>1, <1>2, SaveBufferIs
<1>4. Carries(c, d)
  BY <1>1, <1>3, UserUntouched, FrameCarries
<1>5. Keeps(c, d)
  BY <1>2, SaveBufferKeeps
<1> QED BY <1>2, <1>4, <1>5 DEF Offers

LEMMA SetQtyOffers ==
  ASSUME NEW c, Sound(c), NEW p \in Products, NEW n \in 0..MaxQty
  PROVE  Offers(c, SetQty(c, p, n)) /\ Offers(c, RemoveItem(c, p))
<1>1. PICK op \in {"add", "set", "remove"} : op = IF n = 0 THEN "remove" ELSE "set"
  OBVIOUS
<1>2. PICK call : call = Call(op, p, n, None)
  OBVIOUS
<1>3. PICK call0 : call0 = Call("remove", p, 0, None)
  OBVIOUS
<1>4. 0 \in 0..MaxQty
  BY ShopAssumption
<1>5. MayAsk("cart", call) /\ MayAsk("cart", call0)
  BY <1>2, <1>3, <1>4, MayCall
<1>6. "cart" \in PlainKey
  BY DEF PlainKey, RequestKey
<1>7. SetQty(c, p, n) = Guarded(c, "cart", call, 0) /\ RemoveItem(c, p) = Guarded(c, "cart", call0, 0)
  BY <1>1, <1>2, <1>3 DEF SetQty, RemoveItem, CartMutation
<1> QED BY <1>5, <1>6, <1>7, GuardedOffers

LEMMA SelectOffers ==
  ASSUME NEW c, Sound(c), NEW p \in Products, NEW n \in 0..MaxQty
  PROVE  Offers(c, SetBufferQty(c, p, n)) /\ Offers(c, AddItem(c, p, n))
<1>1. PICK lines : lines = c.shown.buffer
  OBVIOUS
<1>2. lines \in Lines /\ n \in Nat
  BY <1>1, SoundTyped, ShopAssumption DEF State
<1>3. PICK less, more : /\ less = [lines EXCEPT ![p] = IF @ = 0 THEN 0 ELSE Capped(n)]
                        /\ more = BufferAdd(lines, p, n)
  OBVIOUS
<1>4. less \in Lines /\ more \in Lines
  BY <1>2, <1>3, BufferIs
<1>5. Offers(c, SaveBuffer(c, less)) /\ Offers(c, SaveBuffer(c, more))
  BY <1>4, BufferOffers
<1>6. Offers(c, SetBufferQty(c, p, n))
  BY <1>1, <1>3, <1>5 DEF SetBufferQty
<1>7. PICK call : call = Call("add", p, n, None)
  OBVIOUS
<1>8. MayAsk("cart", call)
  BY <1>7, MayCall
<1>9. "cart" \in PlainKey
  BY DEF PlainKey, RequestKey
<1>10. Offers(c, CartMutation(c, call, 0))
  BY <1>8, <1>9, GuardedOffers DEF CartMutation
<1>11. Offers(c, c)
  BY OffersSame
<1>12. Offers(c, AddItem(c, p, n))
  BY <1>1, <1>3, <1>5, <1>7, <1>10, <1>11 DEF AddItem
<1> QED BY <1>6, <1>12

LEMMA AddFromPdpOffers ==
  ASSUME NEW c, Sound(c), c.shown.pdp \in c.shown.products
  PROVE  Offers(c, AddFromPdp(c))
<1>1. PICK p, n : p = c.shown.pdp /\ n = c.shown.qty
  OBVIOUS
<1>2. c.shown \in State
  BY SoundTyped
<1>3. p \in Products /\ n \in 1..MaxQty /\ c.shown.buffer \in Lines
  BY <1>1, <1>2 DEF State
<1>4. n \in 0..MaxQty /\ n \in Nat
  BY <1>3, ShopAssumption
<1>5. PICK more : more = BufferAdd(c.shown.buffer, p, n)
  OBVIOUS
<1>6. Offers(c, SaveBuffer(c, more))
  BY <1>3, <1>4, <1>5, BufferIs, BufferOffers
<1>7. PICK call : call = Call("add", p, n, "cart")
  OBVIOUS
<1>8. "cart" \in Screen \cup {None}
  BY DEF Screen
<1>9. MayAsk("cart", call)
  BY <1>3, <1>4, <1>7, <1>8, MayCall
<1>10. "cart" \in PlainKey
  BY DEF PlainKey, RequestKey
<1>11. Offers(c, CartMutation(c, call, 0))
  BY <1>9, <1>10, GuardedOffers DEF CartMutation
<1> QED BY <1>1, <1>5, <1>6, <1>7, <1>11 DEF AddFromPdp

LEMMA EditOffers ==
  ASSUME NEW c, Sound(c)
  PROVE  /\ Offers(c, SaveAddress(c))
         /\ \A a \in AddressIds : Offers(c, SetDefaultAddress(c, a)) /\ Offers(c, RemoveAddress(c, a))
<1>1. "addressSave" \in PlainKey /\ "addressDelete" \in PlainKey
  BY DEF PlainKey, RequestKey
<1>2. PICK no \in BOOLEAN : no = FALSE
  OBVIOUS
<1>3. PICK yes \in BOOLEAN : yes = TRUE
  OBVIOUS
<1>4. PICK id : id = IF c.shown.form = None THEN "new" ELSE c.shown.form
  OBVIOUS
<1>5. id \in AddressIds \cup {"new"}
  BY <1>4, SoundTyped DEF State
<1>6. PICK edit : edit = [id |-> id, dflt |-> no]
  OBVIOUS
<1>7. MayAsk("addressSave", edit)
  BY <1>5, <1>6 DEF MayAsk, ArgsOf, Kind, RequestKey, Edits, CallKind
<1>8. Offers(c, SaveAddress(c))
  BY <1>1, <1>2, <1>4, <1>6, <1>7, GuardedOffers DEF SaveAddress
<1>9. ASSUME NEW a \in AddressIds
      PROVE  Offers(c, SetDefaultAddress(c, a)) /\ Offers(c, RemoveAddress(c, a))
  <2>1. PICK move : move = [id |-> a, dflt |-> yes]
    OBVIOUS
  <2>2. MayAsk("addressSave", move) /\ MayAsk("addressDelete", a)
    BY <2>1 DEF MayAsk, ArgsOf, Kind, RequestKey, Edits, CallKind
  <2>3. Offers(c, Guarded(c, "addressSave", move, 0)) /\ Offers(c, Guarded(c, "addressDelete", a, 0))
    BY <1>1, <2>2, GuardedOffers
  <2>4. Offers(c, c)
    BY OffersSame
  <2> QED BY <1>3, <2>1, <2>3, <2>4 DEF SetDefaultAddress, RemoveAddress
<1> QED BY <1>8, <1>9

LEMMA SignInOffers ==
  ASSUME NEW c, Sound(c), NEW selection \in Lines
  PROVE  Offers(c, SignInWithWidget(c, selection))
<1>1. PICK no \in BOOLEAN : no = FALSE
  OBVIOUS
<1>2. PICK some \in BOOLEAN : some = ~ IsEmpty(selection)
  OBVIOUS
<1>3. PICK arg : arg = [step |-> "exchange", left |-> selection, user |-> None,
                        replays |-> some, soldOut |-> no]
  OBVIOUS
<1>4. arg \in SignIns /\ arg.step # "replay"
  BY <1>3 DEF SignIns
<1>5. MayAsk("widgetSession", arg)
  BY <1>4 DEF MayAsk, ArgsOf, Kind, RequestKey, CallKind
<1>6. "widgetSession" \in PlainKey
  BY DEF PlainKey, RequestKey
<1>7. SignInWithWidget(c, selection) = Guarded(c, "widgetSession", arg, 0)
  BY <1>1, <1>2, <1>3 DEF SignInWithWidget
<1> QED BY <1>5, <1>6, <1>7, GuardedOffers

LEMMA OpenCheckoutOffers ==
  ASSUME NEW c, Sound(c), ~ Paying(c), c.shown.selected \in AddressIds
  PROVE  Offers(c, OpenCheckout(c))
<1>1. PICK a, d : a = c.shown.selected /\ d = OpenCheckout(c)
  OBVIOUS
<1>2. MayAsk("checkout", a) /\ "checkout" \in RequestKey /\ 0 \in 0..MaxFlows
  BY <1>1, FlowsAssumption DEF MayAsk, ArgsOf, Kind, RequestKey, CallKind
<1>3. Shape(c) /\ Typed(c)
  BY SoundTyped
<1>4. d = Guarded(c, "checkout", a, 0)
  BY <1>1 DEF OpenCheckout
<1>5. HasRoom(d) => Carries(c, d)
  BY <1>2, <1>3, <1>4, GuardedCarries
<1> QED BY <1>1, <1>5, OpenCheckoutKeeps DEF Offers

LEMMA RunBootOffers ==
  ASSUME NEW c, Sound(c), HasRoom(c)
  PROVE  Offers(c, RunBoot(c))
BY RunBootKeeps, RunBootCarries DEF Offers

LEMMA ClickSettles ==
  ASSUME TabInv, SettleInv, NEW c, Click(c) \/ \E p, n : ClickFor(p, n, c), Offers(tab, c)
  PROVE  SettleInv'
<1>1. Turns(Render(c)) /\ srv' = srv /\ seen \subseteq seen'
  BY DEF Click, ClickFor
<1>2. PICK d : d = Render(c)
  OBVIOUS
<1>3. Shape(c) /\ Typed(c) /\ c.shown = tab.shown /\ c.st.pdp = tab.st.pdp
  BY DEF Offers, Keeps, Asks
<1>4. c.st.pdp = c.shown.pdp
  BY <1>3 DEF TabInv, Rested
<1>5. HasRoom(c)
  BY <1>1, <1>3, <1>4, RenderRoom DEF Turns
<1> QED BY <1>1, <1>5, RenderedSettles DEF Offers

\* A click that only dispatches.
LEMMA DispatchSettles ==
  ASSUME TypeInv, TabInv, SettleInv, NEW s, Follows(tab.st, s), Untouched(tab.st, s),
         Click([tab EXCEPT !.st = s])
  PROVE  SettleInv'
<1>1. PICK t, c : t = tab /\ c = [t EXCEPT !.st = s]
  OBVIOUS
<1>2. Sound(t) /\ Follows(t.st, s) /\ Untouched(t.st, s) /\ Click(c)
  BY <1>1 DEF TabInv
<1>3. Offers(t, c)
  BY <1>1, <1>2, StOffers
<1> QED BY <1>1, <1>2, <1>3, ClickSettles

LEMMA ClickCardSettles ==
  ASSUME TypeInv, TabInv, SettleInv, NEW p \in Products, ClickCard(p)
  PROVE  SettleInv'
<1>1. PICK t, m, k : t = tab /\ m = InCart(p) /\ k = Selected(p)
  OBVIOUS
<1>2. Sound(t) /\ m \in 0..MaxQty /\ k \in 0..MaxQty /\ MaxQty \in Nat /\ MaxQty > 0
  BY <1>1, ShownTyped, ShopAssumption DEF TabInv
<1>3. CASE m > 0 /\ Click(SetQty(tab, p, m - 1))
  <2>1. PICK n : n = m - 1
    OBVIOUS
  <2>2. n \in 0..MaxQty
    BY <1>2, <1>3, <2>1
  <2>3. PICK c : c = SetQty(t, p, n)
    OBVIOUS
  <2>4. Offers(t, c)
    BY <1>2, <2>2, <2>3, SetQtyOffers
  <2> QED BY <1>1, <1>3, <2>1, <2>3, <2>4, ClickSettles
<1>4. CASE m \in 1..(MaxQty - 1) /\ ClickFor(p, 1, SetQty(tab, p, m + 1))
  <2>1. PICK n : n = m + 1
    OBVIOUS
  <2>2. n \in 0..MaxQty
    BY <1>2, <1>4, <2>1
  <2>3. PICK c : c = SetQty(t, p, n)
    OBVIOUS
  <2>4. Offers(t, c)
    BY <1>2, <2>2, <2>3, SetQtyOffers
  <2>5. ClickFor(p, 1, c) /\ Offers(tab, c)
    BY <1>1, <1>4, <2>1, <2>3, <2>4
  <2> QED BY <2>5, ClickSettles
<1>5. CASE k > 0 /\ ClickFor(p, 0, SetBufferQty(tab, p, k - 1))
  <2>1. PICK n : n = k - 1
    OBVIOUS
  <2>2. n \in 0..MaxQty
    BY <1>2, <1>5, <2>1
  <2>3. PICK c : c = SetBufferQty(t, p, n)
    OBVIOUS
  <2>4. Offers(t, c)
    BY <1>2, <2>2, <2>3, SelectOffers
  <2>5. ClickFor(p, 0, c) /\ Offers(tab, c)
    BY <1>1, <1>5, <2>1, <2>3, <2>4
  <2> QED BY <2>5, ClickSettles
<1>6. CASE k \in 1..(MaxQty - 1) /\ ClickFor(p, 1, SetBufferQty(tab, p, k + 1))
  <2>1. PICK n : n = k + 1
    OBVIOUS
  <2>2. n \in 0..MaxQty
    BY <1>2, <1>6, <2>1
  <2>3. PICK c : c = SetBufferQty(t, p, n)
    OBVIOUS
  <2>4. Offers(t, c)
    BY <1>2, <2>2, <2>3, SelectOffers
  <2>5. ClickFor(p, 1, c) /\ Offers(tab, c)
    BY <1>1, <1>6, <2>1, <2>3, <2>4
  <2> QED BY <2>5, ClickSettles
<1>7. CASE ClickFor(p, 1, AddItem(tab, p, 1))
  <2>1. PICK c : c = AddItem(t, p, 1)
    OBVIOUS
  <2>2. 1 \in 0..MaxQty
    BY <1>2
  <2>3. Offers(t, c)
    BY <1>2, <2>1, <2>2, SelectOffers
  <2>4. ClickFor(p, 1, c) /\ Offers(tab, c)
    BY <1>1, <1>7, <2>1, <2>3
  <2> QED BY <2>4, ClickSettles
<1> QED BY <1>1, <1>3, <1>4, <1>5, <1>6, <1>7 DEF ClickCard

LEMMA BuyFromPdpSettles ==
  ASSUME TypeInv, TabInv, SettleInv, BuyFromPdp
  PROVE  SettleInv'
<1>1. PICK t : t = tab
  OBVIOUS
<1>2. Sound(t) /\ t.st \in State /\ t.shown \in State /\ t.shown.pdp \in t.shown.products
  BY <1>1, ShownTyped DEF TabInv, BuyFromPdp, shown
<1>3. ASSUME NEW up \in BOOLEAN, Click([tab EXCEPT !.st = BumpQty(@, up)])
      PROVE  SettleInv'
  <2>1. PICK s : s = BumpQty(t.st, up)
    OBVIOUS
  <2>2. Follows(tab.st, s) /\ Untouched(tab.st, s)
    BY <1>1, <1>2, <2>1, BumpQtyFollows, GoUntouched
  <2>3. Click([tab EXCEPT !.st = s])
    BY <1>1, <1>3, <2>1
  <2> QED BY <2>2, <2>3, DispatchSettles
<1>4. CASE ClickFor(shown.pdp, shown.qty, AddFromPdp(tab))
  <2>1. PICK p, n, c : p = t.shown.pdp /\ n = t.shown.qty /\ c = AddFromPdp(t)
    OBVIOUS
  <2>2. p \in Products /\ n \in Nat
    BY <1>2, <2>1, ShopAssumption DEF State
  <2>3. Offers(tab, c)
    BY <1>1, <1>2, <2>1, AddFromPdpOffers
  <2>4. ClickFor(p, n, c)
    BY <1>1, <1>4, <2>1 DEF shown
  <2> QED BY <2>2, <2>3, <2>4, ClickSettles
<1> QED BY <1>3, <1>4 DEF BuyFromPdp

LEMMA ClickLineSettles ==
  ASSUME TypeInv, TabInv, SettleInv, NEW p \in Products, ClickLine(p)
  PROVE  SettleInv'
<1>1. PICK t, m : t = tab /\ m = InCart(p)
  OBVIOUS
<1>2. Sound(t) /\ m \in 0..MaxQty /\ m > 0 /\ MaxQty \in Nat /\ MaxQty > 0
  BY <1>1, ShownTyped, ShopAssumption DEF TabInv, ClickLine
<1>3. CASE Click(SetQty(tab, p, m - 1))
  <2>1. PICK n : n = m - 1
    OBVIOUS
  <2>2. n \in 0..MaxQty
    BY <1>2, <2>1
  <2>3. PICK c : c = SetQty(t, p, n)
    OBVIOUS
  <2>4. Offers(t, c)
    BY <1>2, <2>2, <2>3, SetQtyOffers
  <2> QED BY <1>1, <1>3, <2>1, <2>3, <2>4, ClickSettles
<1>4. CASE m < MaxQty /\ ClickFor(p, 1, SetQty(tab, p, m + 1))
  <2>1. PICK n : n = m + 1
    OBVIOUS
  <2>2. n \in 0..MaxQty
    BY <1>2, <1>4, <2>1
  <2>3. PICK c : c = SetQty(t, p, n)
    OBVIOUS
  <2>4. Offers(t, c)
    BY <1>2, <2>2, <2>3, SetQtyOffers
  <2>5. ClickFor(p, 1, c) /\ Offers(tab, c)
    BY <1>1, <1>4, <2>1, <2>3, <2>4
  <2> QED BY <2>5, ClickSettles
<1>5. CASE Click(RemoveItem(tab, p))
  <2>1. PICK c : c = RemoveItem(t, p)
    OBVIOUS
  <2>2. 1 \in 0..MaxQty
    BY <1>2
  <2>3. Offers(t, c)
    BY <1>2, <2>1, <2>2, SetQtyOffers
  <2> QED BY <1>1, <1>5, <2>1, <2>3, ClickSettles
<1> QED BY <1>1, <1>3, <1>4, <1>5 DEF ClickLine

LEMMA ProceedSettles ==
  ASSUME TypeInv, TabInv, SettleInv, Proceed
  PROVE  SettleInv'
<1>1. PICK s : s = GoCheckout(tab.st)
  OBVIOUS
<1>2. Follows(tab.st, s) /\ Untouched(tab.st, s)
  BY <1>1, ShownTyped, GoCheckoutFollows, GoUntouched
<1>3. Click([tab EXCEPT !.st = s])
  BY <1>1 DEF Proceed
<1> QED BY <1>2, <1>3, DispatchSettles

LEMMA ClickAddressSettles ==
  ASSUME TypeInv, TabInv, SettleInv, NEW a \in AddressIds, ClickAddress(a)
  PROVE  SettleInv'
<1>1. PICK t, s : t = tab /\ s = t.st
  OBVIOUS
<1>2. Sound(t) /\ s \in State
  BY <1>1, ShownTyped DEF TabInv
<1>3. CASE Click([tab EXCEPT !.st = SelectAddress(@, a)])
  <2>1. PICK u : u = SelectAddress(s, a)
    OBVIOUS
  <2>2. Follows(tab.st, u) /\ Untouched(tab.st, u)
    BY <1>1, <1>2, <2>1, FormFollows, SetsFollows, FormUntouched
  <2>3. Click([tab EXCEPT !.st = u])
    BY <1>1, <1>3, <2>1
  <2> QED BY <2>2, <2>3, DispatchSettles
<1>4. CASE Click(SetDefaultAddress(tab, a))
  <2>1. PICK c : c = SetDefaultAddress(t, a)
    OBVIOUS
  <2>2. Offers(t, c)
    BY <1>2, <2>1, EditOffers
  <2> QED BY <1>1, <1>4, <2>1, <2>2, ClickSettles
<1>5. CASE Click([tab EXCEPT !.st = ShowAddressForm(@, a)])
  <2>1. PICK u : u = ShowAddressForm(s, a)
    OBVIOUS
  <2>2. Follows(tab.st, u) /\ Untouched(tab.st, u)
    BY <1>1, <1>2, <2>1, FormFollows, SetsFollows, FormUntouched
  <2>3. Click([tab EXCEPT !.st = u])
    BY <1>1, <1>5, <2>1
  <2> QED BY <2>2, <2>3, DispatchSettles
<1>6. CASE Click(RemoveAddress(tab, a))
  <2>1. PICK c : c = RemoveAddress(t, a)
    OBVIOUS
  <2>2. Offers(t, c)
    BY <1>2, <2>1, EditOffers
  <2> QED BY <1>1, <1>6, <2>1, <2>2, ClickSettles
<1> QED BY <1>3, <1>4, <1>5, <1>6 DEF ClickAddress

LEMMA ClickFormSettles ==
  ASSUME TypeInv, TabInv, SettleInv, ClickForm
  PROVE  SettleInv'
<1>1. PICK t, s : t = tab /\ s = t.st
  OBVIOUS
<1>2. Sound(t) /\ s \in State
  BY <1>1, ShownTyped DEF TabInv
<1>3. CASE Click([tab EXCEPT !.st = ShowAddressForm(@, "new")])
  <2>1. PICK u : u = ShowAddressForm(s, "new")
    OBVIOUS
  <2>2. Follows(tab.st, u) /\ Untouched(tab.st, u)
    BY <1>1, <1>2, <2>1, FormFollows, SetsFollows, FormUntouched
  <2>3. Click([tab EXCEPT !.st = u])
    BY <1>1, <1>3, <2>1
  <2> QED BY <2>2, <2>3, DispatchSettles
<1>4. CASE Click([tab EXCEPT !.st = SetAddr(@)])
  <2>1. PICK u : u = SetAddr(s)
    OBVIOUS
  <2>2. Follows(tab.st, u) /\ Untouched(tab.st, u)
    BY <1>1, <1>2, <2>1, FormFollows, SetsFollows, FormUntouched
  <2>3. Click([tab EXCEPT !.st = u])
    BY <1>1, <1>4, <2>1
  <2> QED BY <2>2, <2>3, DispatchSettles
<1>5. CASE Click([tab EXCEPT !.st = SetAddrFieldError(@)])
  <2>1. PICK u : u = SetAddrFieldError(s)
    OBVIOUS
  <2>2. Follows(tab.st, u) /\ Untouched(tab.st, u)
    BY <1>1, <1>2, <2>1, FormFollows, SetsFollows, FormUntouched
  <2>3. Click([tab EXCEPT !.st = u])
    BY <1>1, <1>5, <2>1
  <2> QED BY <2>2, <2>3, DispatchSettles
<1>6. CASE Click(SaveAddress(tab))
  <2>1. PICK c : c = SaveAddress(t)
    OBVIOUS
  <2>2. Offers(t, c)
    BY <1>2, <2>1, EditOffers
  <2> QED BY <1>1, <1>6, <2>1, <2>2, ClickSettles
<1>7. CASE Click([tab EXCEPT !.st = HideAddressForm(@)])
  <2>1. PICK u : u = HideAddressForm(s)
    OBVIOUS
  <2>2. Follows(tab.st, u) /\ Untouched(tab.st, u)
    BY <1>1, <1>2, <2>1, FormFollows, SetsFollows, FormUntouched
  <2>3. Click([tab EXCEPT !.st = u])
    BY <1>1, <1>7, <2>1
  <2> QED BY <2>2, <2>3, DispatchSettles
<1> QED BY <1>3, <1>4, <1>5, <1>6, <1>7 DEF ClickForm

\* The pay button rests while something is paid for.
LEMMA ClickPaySettles ==
  ASSUME TypeInv, TabInv, SettleInv, ClickPay
  PROVE  SettleInv'
<1>1. PICK t, c : t = tab /\ c = OpenCheckout(t)
  OBVIOUS
<1>2. Sound(t) /\ Rested(t) /\ t.shown \in State /\ Click(c)
  BY <1>1, ShownTyped DEF TabInv, ClickPay
<1>3. "checkout" \notin t.shown.pending /\ "payment" \notin t.shown.pending
  BY <1>1 DEF ClickPay, Idle, shown
<1>4. ~ Paying(t)
  BY <1>2, <1>3 DEF Rested
<1>5. t.shown.selected \in AddressIds
  <2>1. t.shown.selected \in t.shown.addresses.ids
    BY <1>1 DEF ClickPay, shown
  <2>2. t.shown.addresses \in Book
    BY <1>2 DEF State
  <2> QED BY <2>1, <2>2 DEF Book
<1>6. Offers(t, c)
  BY <1>1, <1>2, <1>4, <1>5, OpenCheckoutOffers
<1> QED BY <1>1, <1>2, <1>6, ClickSettles

\* Links, gates and the menu of the account.
LEMMA LinksSettle ==
  ASSUME TypeInv, TabInv, SettleInv, ClickBack \/ ClickCart \/ ClickAccount
  PROVE  SettleInv'
<1>1. PICK s : s = tab.st
  OBVIOUS
<1>2. s \in State
  BY <1>1, ShownTyped
<1>3. ASSUME NEW screen \in Screen, Click(Leave(tab, screen))
      PROVE  SettleInv'
  <2>1. PICK u : u = Go(s, screen)
    OBVIOUS
  <2>2. Follows(tab.st, u) /\ Untouched(tab.st, u)
    BY <1>1, <1>2, <2>1, GoFollows, GoUntouched
  <2>3. Click([tab EXCEPT !.st = u])
    BY <1>1, <1>3, <2>1 DEF Leave
  <2> QED BY <2>2, <2>3, DispatchSettles
<1>4. CASE ClickBack \/ ClickAccount
  <2>1. {"shop", "cart", "orders", "addresses"} \subseteq Screen
    BY DEF Screen
  <2> QED BY <1>3, <1>4, <2>1 DEF ClickBack, ClickAccount
<1>5. CASE ClickCart
  <2>1. PICK u : u = RequireAuth(s, "cart")
    OBVIOUS
  <2>2. Follows(tab.st, u) /\ Untouched(tab.st, u)
    BY <1>1, <1>2, <2>1, RequireAuthFollows, GoUntouched
  <2>3. Click([tab EXCEPT !.st = u])
    BY <1>1, <1>5, <2>1 DEF ClickCart
  <2> QED BY <2>2, <2>3, DispatchSettles
<1> QED BY <1>4, <1>5

LEMMA ClickBannerSettles ==
  ASSUME TypeInv, TabInv, SettleInv, ClickBanner
  PROVE  SettleInv'
<1>1. PICK t, s : t = tab /\ s = t.st
  OBVIOUS
<1>2. Sound(t) /\ HasRoom(t) /\ s \in State
  BY <1>1, ShownTyped DEF TabInv
<1>3. CASE Click([tab EXCEPT !.st = ClearBanner(@)])
  <2>1. PICK u : u = ClearBanner(s)
    OBVIOUS
  <2>2. Follows(tab.st, u) /\ Untouched(tab.st, u)
    BY <1>1, <1>2, <2>1, BootFollows, SetsFollows, UserUntouched
  <2>3. Click([tab EXCEPT !.st = u])
    BY <1>1, <1>3, <2>1
  <2> QED BY <2>2, <2>3, DispatchSettles
<1>4. CASE Click(RunBoot(tab))
  <2>1. PICK c : c = RunBoot(t)
    OBVIOUS
  <2>2. Offers(t, c)
    BY <1>2, <2>1, RunBootOffers
  <2> QED BY <1>1, <1>4, <2>1, <2>2, ClickSettles
<1> QED BY <1>3, <1>4 DEF ClickBanner

LEMMA OffersTrans ==
  ASSUME NEW c, NEW d, NEW e, Offers(c, d), Offers(d, e)
  PROVE  Offers(c, e)
<1>1. Keeps(c, e)
  BY KeepsTrans DEF Offers
<1>2. HasRoom(e) => HasRoom(d)
  BY DEF Offers, Keeps, Asks
<1> QED BY <1>1, <1>2, CarriesTrans DEF Offers

LEMMA ClickPdpSettles ==
  ASSUME TypeInv, TabInv, SettleInv, NEW p \in Products, ClickPdp(p)
  PROVE  SettleInv'
<1>1. PICK t, s : t = tab /\ s = OpenPdp(t.st, p)
  OBVIOUS
<1>2. PICK c : c = [t EXCEPT !.st = s]
  OBVIOUS
<1>3. Sound(t) /\ Shape(t) /\ t.st \in State
  BY <1>1, SoundTyped DEF TabInv
<1>4. c = [t EXCEPT !.st = OpenPdp(@, p)]
  BY <1>1, <1>2
<1>5. Sound(c) /\ Shape(c) /\ Typed(c)
  BY <1>3, <1>4, OpenPdpKeeps, SoundTyped
<1>6. Turns(Render(c)) /\ srv' = srv /\ seen \subseteq seen'
  BY <1>1, <1>4 DEF ClickPdp, Click
<1>7. Carries(t, c)
  BY <1>1, <1>2, <1>3, GoUntouched, StCarries
<1>8. PICK d : d = Render(c)
  OBVIOUS
<1>9. Carries(c, d)
  BY <1>5, <1>6, <1>8, RenderCarries DEF Turns
<1>10. Carries(tab, d) /\ tab' = d
  BY <1>1, <1>6, <1>7, <1>8, <1>9, CarriesTrans DEF Turns
<1> QED BY <1>6, <1>10, CarrySettles

\* Signed out, nothing of an account is shown.
LEMMA ClickSignOutSettles ==
  ASSUME TypeInv, TabInv, SettleInv, ClickSignOut
  PROVE  SettleInv'
<1>1. PICK t, c, what : t = tab /\ c = PerformSignOut(t) /\ what = Both
  OBVIOUS
<1>2. Sound(t) /\ Shape(t) /\ Click(c)
  BY <1>1, SoundTyped DEF TabInv, ClickSignOut
<1>3. Settles(t, c, what) /\ Sound(c)
  BY <1>1, <1>2, SignOutSettles, PerformSignOutIs
<1>4. Turns(Render(c)) /\ srv' = srv /\ seen \subseteq seen'
  BY <1>2 DEF Click
<1>5. PICK d : d = Render(c)
  OBVIOUS
<1>6. Carries(c, d) /\ tab' = d
  BY <1>3, <1>4, <1>5, RenderCarries, SoundTyped DEF Turns
<1>7. Settles(c, d, what)
  BY <1>1, <1>6, CarriesSettles
<1>8. Settles(tab, d, what)
  BY <1>1, <1>3, <1>7, SettlesTrans
<1>9. "cart" \in what /\ "book" \in what
  BY <1>1 DEF Both
<1> QED BY <1>4, <1>6, <1>8, <1>9, PageSettles

LEMMA WidgetOffers ==
  ASSUME NEW c, Sound(c), NEW w \in Widgets \cup {None}
  PROVE  Offers(c, [c EXCEPT !.widget = w])
<1>1. PICK d : d = [c EXCEPT !.widget = w]
  OBVIOUS
<1>2. Shape(c)
  BY SoundTyped
<1>3. Keeps(c, d) /\ d.st = c.st /\ d.flows = c.flows
  BY <1>1, WidgetIs
<1>4. d.token = c.token /\ d.inflight = c.inflight
  BY <1>1, <1>2 DEF Shape
<1>5. Carries(c, d)
  BY <1>3, <1>4, PassesSame DEF Carries, Untouched
<1> QED BY <1>1, <1>3, <1>5 DEF Offers

LEMMA LaunchWidgetSettles ==
  ASSUME TypeInv, TabInv, SettleInv, LaunchWidget
  PROVE  SettleInv'
<1>1. PICK t : t = tab
  OBVIOUS
<1>2. Sound(t) /\ t.shown \in State
  BY <1>1, ShownTyped DEF TabInv
<1>3. PICK lines : lines = t.shown.buffer
  OBVIOUS
<1>4. PICK w : w = [selection |-> lines]
  OBVIOUS
<1>5. w \in Widgets \cup {None}
  BY <1>2, <1>3, <1>4 DEF Widgets, State
<1>6. PICK c : c = [t EXCEPT !.widget = w]
  OBVIOUS
<1>7. Offers(t, c)
  BY <1>2, <1>5, <1>6, WidgetOffers
<1>8. Click(c)
  BY <1>1, <1>3, <1>4, <1>6 DEF LaunchWidget, shown
<1> QED BY <1>1, <1>7, <1>8, ClickSettles

LEMMA WidgetEndsSettles ==
  ASSUME TypeInv, TabInv, SettleInv, WidgetSucceeds \/ WidgetFails
  PROVE  SettleInv'
<1>1. PICK t : t = tab
  OBVIOUS
<1>2. Sound(t) /\ t.st \in State
  BY <1>1, ShownTyped DEF TabInv
<1>3. PICK c : c = [t EXCEPT !.widget = None]
  OBVIOUS
<1>4. None \in Widgets \cup {None}
  OBVIOUS
<1>5. Offers(t, c) /\ Sound(c) /\ c.st = t.st /\ c.flows = t.flows
  BY <1>2, <1>3, <1>4, WidgetOffers, WidgetIs
<1>6. CASE WidgetSucceeds
  <2>1. t.widget \in Widgets
    BY <1>1, <1>2, <1>6, SoundTyped DEF WidgetSucceeds
  <2>2. PICK selection : selection = t.widget.selection
    OBVIOUS
  <2>3. selection \in Lines
    BY <2>1, <2>2 DEF Widgets
  <2>4. PICK d : d = SignInWithWidget(c, selection)
    OBVIOUS
  <2>5. Offers(t, d)
    BY <1>5, <2>3, <2>4, SignInOffers, OffersTrans
  <2>6. Turns(Render(d)) /\ srv' = srv /\ seen \subseteq seen'
    BY <1>1, <1>3, <1>6, <2>2, <2>4 DEF WidgetSucceeds, Page
  <2>7. Shape(d) /\ Typed(d) /\ d.shown = t.shown /\ d.st.pdp = t.st.pdp
    BY <2>5 DEF Offers, Keeps, Asks
  <2>8. d.st.pdp = d.shown.pdp
    BY <1>1, <2>7 DEF TabInv, Rested
  <2>9. HasRoom(d)
    BY <2>6, <2>7, <2>8, RenderRoom DEF Turns
  <2> QED BY <1>1, <2>5, <2>6, <2>9, RenderedSettles DEF Offers
<1>7. CASE WidgetFails
  <2>1. PICK s : s = ReqFail(t.st, "widgetSession")
    OBVIOUS
  <2>2. PICK d : d = [c EXCEPT !.st = s]
    OBVIOUS
  <2>3. tab' = [t EXCEPT !.widget = None, !.st = s]
    BY <1>1, <1>7, <2>1 DEF WidgetFails
  <2>4. tab' = d
    BY <1>3, <2>2, <2>3
  <2>5. HasRoom(t) => HasRoom(c)
    BY <1>5 DEF HasRoom
  <2>6. Carries(t, c)
    BY <1>1, <1>5, <2>5 DEF Offers, TabInv
  <2>7. Untouched(c.st, s) /\ Shape(c)
    BY <1>2, <1>5, <2>1, SettledUntouched, SoundTyped
  <2>8. Carries(c, d)
    BY <2>2, <2>7, StCarries
  <2>9. Carries(tab, d)
    BY <1>1, <2>6, <2>8, CarriesTrans
  <2>10. srv' = srv /\ seen \subseteq seen'
    BY <1>7 DEF WidgetFails
  <2> QED BY <2>4, <2>9, <2>10, CarrySettles
<1> QED BY <1>6, <1>7

-----------------------------------------------------------------------------
(* What the page shows at last: what the server makes of the calls.        *)

\* Sessions go on, and an exchange that succeeds begins one.
Abides(s, t) ==
  t.lapsed = s.lapsed /\ \A k \in Tokens : s.sessions[k] # None => t.sessions[k] = s.sessions[k]
Begun(f, o) ==
  f.kind = "widgetSession" /\ f.arg.step = "exchange" /\ o.status = "ok"
    => o.srv.sessions[o.body.token] # None

\* The answer to a call that brings a cart, or a book, is the one there is then.
TellsAs(f, o, news) ==
  IF o.status = "ok" THEN o.body = news ELSE o.status = "404" /\ MayMiss(f)

Serves(s, f, o) ==
  /\ Abides(s, o.srv) /\ Begun(f, o)
  /\ o.srv.carts # s.carts => f.kind = "confirm" \/ (BringsCart(f) /\ o.status = "ok")
  /\ o.srv.books # s.books => f.kind \in {"addressSave", "addressDelete"} /\ o.status = "ok"
  /\ f.kind = "restore" => o.status \in {"ok", "401"}
  /\ \A u : u = SessionOf(s, f.tok) /\ u # None =>
       /\ BringsCart(f) => TellsAs(f, o, o.srv.carts[u])
       /\ BringsBook(f) => TellsAs(f, o, o.srv.books[u])

LEMMA RecordIs ==
  ASSUME NEW s \in Server, NEW x
  PROVE  /\ \A t : t = [s EXCEPT !.carts = x] =>
              /\ t.carts = x /\ t.books = s.books /\ t.sessions = s.sessions
              /\ t.lapsed = s.lapsed
         /\ \A t : t = [s EXCEPT !.books = x] =>
              /\ t.books = x /\ t.carts = s.carts /\ t.sessions = s.sessions
              /\ t.lapsed = s.lapsed
         /\ \A t : t = [s EXCEPT !.orders = x] =>
              /\ t.books = s.books /\ t.carts = s.carts /\ t.sessions = s.sessions
              /\ t.lapsed = s.lapsed
         /\ \A t : t = [s EXCEPT !.sessions = x] =>
              /\ t.books = s.books /\ t.carts = s.carts /\ t.sessions = x
              /\ t.lapsed = s.lapsed
BY DEF Server

LEMMA OkIs ==
  ASSUME NEW s, NEW body, NEW o, o \in Ok(s, body)
  PROVE  o.srv = s /\ o.status = "ok" /\ o.body = body
BY DEF Ok, Outcome

LEMMA ErrorIs ==
  ASSUME NEW s, NEW status, NEW o, o \in Error(s, status)
  PROVE  o.srv = s /\ o.status = status /\ o.body = None
BY DEF Error, Outcome

LEMMA SaveCartServes ==
  ASSUME NEW s \in Server, NEW u \in Shoppers, NEW lines, NEW o \in SaveCart(s, u, lines)
  PROVE  /\ Abides(s, o.srv) /\ o.srv.books = s.books
         /\ o.status = "ok" /\ o.body = o.srv.carts[u]
<1>1. PICK carts : carts = [s.carts EXCEPT ![u] = lines]
  OBVIOUS
<1>2. PICK t : t = [s EXCEPT !.carts = carts]
  OBVIOUS
<1>3. SaveCart(s, u, lines) = Ok(t, lines)
  BY <1>1, <1>2 DEF SaveCart
<1>4. /\ t.carts = carts /\ t.books = s.books /\ t.sessions = s.sessions /\ t.lapsed = s.lapsed
  BY <1>2, RecordIs
<1>5. carts[u] = lines
  BY <1>1, ServerIs
<1> QED BY <1>3, <1>4, <1>5, OkIs DEF Abides

LEMMA CartCallServes ==
  ASSUME NEW s \in Server, NEW u \in Shoppers, NEW call \in CartCalls, NEW o \in CartCall(s, u, call)
  PROVE  /\ Abides(s, o.srv) /\ o.srv.books = s.books
         /\ IF o.status = "ok" THEN o.body = o.srv.carts[u]
            ELSE o.status = "404" /\ call.op \in {"set", "remove"} /\ o.srv.carts = s.carts
<1>1. PICK lines, held : lines = s.carts[u] /\ held = lines[call.product]
  OBVIOUS
<1>2. call.op \in {"get", "add", "set", "remove"}
  BY DEF CartCalls
<1>3. \/ o \in Ok(s, lines)
      \/ \E next : o \in SaveCart(s, u, next)
      \/ call.op \in {"set", "remove"} /\ o \in Error(s, "404")
  BY <1>1, <1>2 DEF CartCall
<1>4. CASE o \in Ok(s, lines)
  BY <1>1, <1>4, OkIs DEF Abides
<1>5. ASSUME NEW next, o \in SaveCart(s, u, next)
      PROVE  /\ Abides(s, o.srv) /\ o.srv.books = s.books
             /\ o.status = "ok" /\ o.body = o.srv.carts[u]
  BY <1>5, SaveCartServes
<1>6. CASE call.op \in {"set", "remove"} /\ o \in Error(s, "404")
  BY <1>6, ErrorIs DEF Abides
<1> QED BY <1>3, <1>4, <1>5, <1>6

LEMMA SaveBookServes ==
  ASSUME NEW s \in Server, NEW u \in Shoppers, NEW book, NEW b, NEW o \in SaveBook(s, u, book, b)
  PROVE  /\ Abides(s, o.srv) /\ o.srv.carts = s.carts /\ o.status = "ok" /\ o.body = b
         /\ o.srv.books[u] = book
<1>1. PICK books : books = [s.books EXCEPT ![u] = book]
  OBVIOUS
<1>2. PICK t : t = [s EXCEPT !.books = books]
  OBVIOUS
<1>3. SaveBook(s, u, book, b) = Ok(t, b)
  BY <1>1, <1>2 DEF SaveBook
<1>4. /\ t.books = books /\ t.carts = s.carts /\ t.sessions = s.sessions /\ t.lapsed = s.lapsed
  BY <1>2, RecordIs
<1>5. books[u] = book
  BY <1>1, ServerIs
<1> QED BY <1>3, <1>4, <1>5, OkIs DEF Abides

LEMMA AddressServes ==
  ASSUME NEW s \in Server, NEW u \in Shoppers, NEW a, NEW dflt,
         NEW o, o \in AddAddress(s, u) \cup UpdateAddress(s, u, a, dflt) \cup DeleteAddress(s, u, a)
  PROVE  /\ Abides(s, o.srv) /\ o.srv.carts = s.carts
         /\ o.status # "ok" => o.srv.books = s.books
         /\ o \in DeleteAddress(s, u, a) => IF o.status = "ok" THEN o.body = o.srv.books[u]
                                            ELSE o.status = "404"
<1>1. CASE o \in Error(s, "404")
  BY <1>1, ErrorIs DEF Abides
<1>2. ASSUME NEW book, NEW b, o \in SaveBook(s, u, book, b)
      PROVE  /\ Abides(s, o.srv) /\ o.srv.carts = s.carts /\ o.status = "ok" /\ o.body = b
             /\ o.srv.books[u] = book
  BY <1>2, SaveBookServes
<1>3. o \in DeleteAddress(s, u, a) =>
        o \in Error(s, "404") \/ \E next : o \in SaveBook(s, u, next, next)
  BY DEF DeleteAddress
<1>4. o \in AddAddress(s, u) => \E book, b : o \in SaveBook(s, u, book, b)
  BY DEF AddAddress
<1>5. o \in UpdateAddress(s, u, a, dflt) =>
        o \in Error(s, "404") \/ \E book, b : o \in SaveBook(s, u, book, b)
  BY DEF UpdateAddress
<1>6. CASE \E next : o \in SaveBook(s, u, next, next)
  BY <1>2, <1>6
<1>7. CASE \E book, b : o \in SaveBook(s, u, book, b)
  <2>1. /\ Abides(s, o.srv) /\ o.srv.carts = s.carts /\ o.status = "ok"
    BY <1>2, <1>7
  <2>2. o \in DeleteAddress(s, u, a) => \E next : o \in SaveBook(s, u, next, next)
    <3>1. ~ (o \in Error(s, "404"))
      BY <2>1, ErrorIs
    <3> QED BY <1>3, <3>1
  <2> QED BY <1>6, <2>1, <2>2
<1> QED BY <1>1, <1>3, <1>4, <1>5, <1>6, <1>7

LEMMA PlaceServes ==
  ASSUME NEW s \in Server, NEW o \in OrderIds
  PROVE  Abides(s, Place(s, o)) /\ Place(s, o).books = s.books
         /\ Place(s, o).sessions = s.sessions
<1>1. CASE s.orders[o].status # "pending"
  BY <1>1 DEF Place, Abides
<1>2. CASE s.orders[o].status = "pending"
  <2>1. PICK t, u : /\ t = [s EXCEPT !.orders[o].status = "placed"]
                    /\ u = s.orders[o].owner
    OBVIOUS
  <2>2. "placed" \in OrderStatus /\ TRUE \in BOOLEAN
    BY DEF OrderStatus
  <2>3. t \in Server
    BY <2>1, <2>2, EntryKeeps
  <2>4. t.carts = s.carts /\ t.books = s.books /\ t.sessions = s.sessions /\ t.lapsed = s.lapsed
    BY <2>1 DEF Server
  <2>5. PICK carts : carts = [s.carts EXCEPT ![u] = NoLines]
    OBVIOUS
  <2>6. PICK p : p = [t EXCEPT !.carts = carts]
    OBVIOUS
  <2>7. p.books = t.books /\ p.sessions = t.sessions /\ p.lapsed = t.lapsed
    BY <2>3, <2>6, RecordIs
  <2>8. Place(s, o) = [s EXCEPT !.orders[o].status = "placed", !.carts[u] = NoLines]
    BY <1>2, <2>1 DEF Place
  <2>9. Place(s, o) = p
    BY <2>1, <2>4, <2>5, <2>6, <2>8
  <2> QED BY <2>4, <2>7, <2>9 DEF Abides
<1> QED BY <1>1, <1>2

LEMMA OpenServes ==
  ASSUME NEW s \in Server, NEW u, NEW a, NEW o, o \in OpenOrder(s, u, a) \/ o \in ListOrders(s, u)
  PROVE  Abides(s, o.srv) /\ o.srv.books = s.books /\ o.srv.carts = s.carts
<1>1. ASSUME NEW status, o \in Error(s, status)
      PROVE  Abides(s, o.srv) /\ o.srv.books = s.books /\ o.srv.carts = s.carts
  BY <1>1, ErrorIs DEF Abides
<1>2. ASSUME NEW b, o \in Ok(s, b)
      PROVE  Abides(s, o.srv) /\ o.srv.books = s.books /\ o.srv.carts = s.carts
  BY <1>2, OkIs DEF Abides
<1>3. ASSUME NEW orders, NEW b, o \in Ok([s EXCEPT !.orders = orders], b)
      PROVE  Abides(s, o.srv) /\ o.srv.books = s.books /\ o.srv.carts = s.carts
  <2>1. PICK t : t = [s EXCEPT !.orders = orders]
    OBVIOUS
  <2>2. o.srv = t
    BY <1>3, <2>1, OkIs
  <2>3. t.carts = s.carts /\ t.books = s.books /\ t.sessions = s.sessions /\ t.lapsed = s.lapsed
    BY <2>1, RecordIs
  <2> QED BY <2>2, <2>3 DEF Abides
<1>4. CASE o \in OpenOrder(s, u, a)
  <2>1. \/ \E status : o \in Error(s, status)
        \/ \E orders, b : o \in Ok([s EXCEPT !.orders = orders], b)
    BY <1>4 DEF OpenOrder
  <2> QED BY <1>1, <1>3, <2>1
<1>5. CASE o \in ListOrders(s, u)
  BY <1>2, <1>5 DEF ListOrders
<1> QED BY <1>4, <1>5

LEMMA GetServes ==
  ASSUME NEW s \in Server, NEW u, NEW x, NEW o \in GetOrder(s, u, x)
  PROVE  Abides(s, o.srv) /\ o.srv.books = s.books
<1>1. o \in Error(s, "404") \/ \E b : o \in Ok(s, b)
  BY DEF GetOrder
<1>2. o.srv = s
  BY <1>1, OkIs, ErrorIs
<1> QED BY <1>2 DEF Abides

LEMMA ConfirmServes ==
  ASSUME NEW s \in Server, NEW u, NEW x \in OrderIds, NEW o \in ConfirmOrder(s, u, x)
  PROVE  Abides(s, o.srv) /\ o.srv.books = s.books
<1>1. o \in Error(s, "404") \/ \E b : o \in Ok(Place(s, x), b)
  BY DEF ConfirmOrder
<1>2. o.srv \in {s, Place(s, x)}
  BY <1>1, OkIs, ErrorIs
<1> QED BY <1>2, PlaceServes DEF Abides

LEMMA ExchangeServes ==
  ASSUME NEW s \in Server, NEW u \in Shoppers, NEW o \in ExchangeSession(s, u)
  PROVE  /\ Abides(s, o.srv) /\ o.srv.books = s.books /\ o.srv.carts = s.carts
         /\ o.srv.sessions[o.body.token] # None
<1>1. PICK k \in UnusedToken(s) :
        o = Outcome([s EXCEPT !.sessions[k] = u], "ok", [token |-> k, user |-> u])
  BY DEF ExchangeSession
<1>2. PICK sessions : sessions = [s.sessions EXCEPT ![k] = u]
  OBVIOUS
<1>3. PICK t : t = [s EXCEPT !.sessions = sessions]
  OBVIOUS
<1>4. o.srv = t /\ o.body.token = k
  BY <1>1, <1>2, <1>3 DEF Outcome
<1>5. t.carts = s.carts /\ t.books = s.books /\ t.sessions = sessions /\ t.lapsed = s.lapsed
  BY <1>3, RecordIs
<1>6. k \in Tokens /\ s.sessions[k] = None
  BY DEF UnusedToken
<1>7. sessions[k] # None /\ \A x \in Tokens : s.sessions[x] # None => sessions[x] = s.sessions[x]
  BY <1>2, <1>6, ServerIs, ShopAssumption
<1> QED BY <1>4, <1>5, <1>7 DEF Abides

LEMMA ReplyToServes ==
  ASSUME TypeInv, NEW f, GoodCall(f), f.at = "asked", NEW u \in Shoppers,
         u = SessionOf(srv, f.tok), NEW o \in ReplyTo(f, u),
         f.kind \notin {"trust", "products", "product"},
         ~ (f.kind = "widgetSession" /\ f.arg.step = "exchange")
  PROVE  Serves(srv, f, o)
<1> PICK s : s = srv
  OBVIOUS
<1>1. s \in Server /\ f.arg \in ArgsOf(f.kind) /\ f.kind \in CallKind /\ f.kind # "boot"
  BY DEF TypeInv, GoodCall
<1>2. Begun(f, o)
  BY DEF Begun
<1>3. SUFFICES Serves(s, f, o)
  OBVIOUS
<1>4. u = SessionOf(s, f.tok)
  OBVIOUS
<1>5. CASE f.kind = "restore"
  <2>1. o \in Ok(s, u)
    BY <1>5 DEF ReplyTo
  <2>2. o.srv = s /\ o.status = "ok"
    BY <2>1, OkIs
  <2> QED BY <1>2, <1>5, <2>2 DEF Serves, Abides, BringsCart, BringsBook
<1>6. CASE f.kind = "cart" \/ f.kind = "widgetSession"
  <2>1. PICK call : call = IF f.kind = "cart" THEN f.arg ELSE ReplayCall(f.arg.left)
    OBVIOUS
  <2>2. o \in CartCall(s, u, call)
    BY <1>6, <2>1 DEF ReplyTo
  <2>3. call \in CartCalls /\ (f.kind = "cart" \/ call.op = "add")
        /\ (f.kind = "widgetSession" => f.arg.step = "replay")
    <3>1. CASE f.kind = "cart"
      BY <1>1, <2>1, <3>1 DEF ArgsOf
    <3>2. CASE f.kind = "widgetSession"
      <4>1. PICK left : left = f.arg.left
        OBVIOUS
      <4>2. f.arg \in SignIns
        BY <1>1, <3>2 DEF ArgsOf
      <4>3. left \in Lines /\ f.arg.step = "replay"
        BY <3>2, <4>1, <4>2 DEF SignIns
      <4>4. ~ IsEmpty(left)
        BY <3>2, <4>1, <4>3 DEF GoodCall
      <4> QED BY <2>1, <3>2, <4>1, <4>3, <4>4, ReplayCallIs
    <3> QED BY <1>6, <3>1, <3>2
  <2>4. /\ Abides(s, o.srv) /\ o.srv.books = s.books
        /\ IF o.status = "ok" THEN o.body = o.srv.carts[u]
           ELSE o.status = "404" /\ call.op \in {"set", "remove"} /\ o.srv.carts = s.carts
    BY <1>1, <2>2, <2>3, CartCallServes
  <2>5. TellsAs(f, o, o.srv.carts[u])
    BY <1>6, <2>1, <2>3, <2>4 DEF TellsAs, MayMiss
  <2>6. o.srv.carts # s.carts => BringsCart(f) /\ o.status = "ok"
    BY <1>6, <2>3, <2>4, GoodCallIs DEF BringsCart
  <2>7. ~ BringsBook(f) /\ f.kind # "restore"
    BY <1>6 DEF BringsBook
  <2> QED BY <1>2, <1>4, <2>4, <2>5, <2>6, <2>7 DEF Serves
<1>7. CASE f.kind = "addresses"
  <2>1. o \in Ok(s, s.books[u])
    BY <1>7 DEF ReplyTo
  <2>2. o.srv = s /\ o.status = "ok" /\ o.body = s.books[u]
    BY <2>1, OkIs
  <2> QED BY <1>2, <1>4, <1>7, <2>2 DEF Serves, Abides, BringsCart, TellsAs
<1>8. CASE f.kind \in {"addressSave", "addressDelete"}
  <2>1. PICK a, dflt : /\ a = IF f.kind = "addressSave" THEN f.arg.id ELSE f.arg
                       /\ dflt = f.arg.dflt
    OBVIOUS
  <2>2. o \in AddAddress(s, u) \cup UpdateAddress(s, u, a, dflt) \cup DeleteAddress(s, u, a)
        /\ (f.kind = "addressDelete" => o \in DeleteAddress(s, u, a))
    BY <1>8, <2>1 DEF ReplyTo
  <2>3. /\ Abides(s, o.srv) /\ o.srv.carts = s.carts
        /\ o.status # "ok" => o.srv.books = s.books
        /\ o \in DeleteAddress(s, u, a) => IF o.status = "ok" THEN o.body = o.srv.books[u]
                                           ELSE o.status = "404"
    BY <1>1, <2>2, AddressServes
  <2>4. ~ BringsCart(f) /\ f.kind # "restore"
    BY <1>8 DEF BringsCart
  <2>5. BringsBook(f) => TellsAs(f, o, o.srv.books[u])
    BY <1>8, <2>2, <2>3 DEF BringsBook, TellsAs, MayMiss
  <2> QED BY <1>2, <1>4, <1>8, <2>3, <2>4, <2>5 DEF Serves
<1>9. CASE f.kind \in {"orders", "checkout", "confirm"}
  <2>1. ~ BringsCart(f) /\ ~ BringsBook(f) /\ f.kind # "restore"
    BY <1>9 DEF BringsCart, BringsBook
  <2>2. CASE f.kind \in {"orders", "checkout"}
    <3>1. PICK x : x = f.arg
      OBVIOUS
    <3>2. o \in OpenOrder(s, u, x) \cup ListOrders(s, u)
      BY <2>2, <3>1 DEF ReplyTo
    <3>3. /\ \A z \in OpenOrder(s, u, x) : z.srv.books = s.books /\ z.srv.carts = s.carts
                                          /\ Abides(s, z.srv)
          /\ \A z \in ListOrders(s, u) : z.srv.books = s.books /\ z.srv.carts = s.carts
                                         /\ Abides(s, z.srv)
      BY <1>1, OpenServes
    <3> QED BY <1>2, <2>1, <3>2, <3>3 DEF Serves
  <2>3. CASE f.kind = "confirm"
    <3>1. PICK x : x = f.arg.order
      OBVIOUS
    <3>2. x \in OrderIds
      BY <1>1, <2>3, <3>1 DEF ArgsOf, Tries
    <3>3. o \in ConfirmOrder(s, u, x) \/ o \in GetOrder(s, u, x)
      BY <2>3, <3>1 DEF ReplyTo
    <3>4. Abides(s, o.srv) /\ o.srv.books = s.books
      BY <1>1, <3>2, <3>3, ConfirmServes, GetServes
    <3> QED BY <1>2, <2>1, <2>3, <3>4 DEF Serves
  <2> QED BY <1>9, <2>2, <2>3
<1> QED BY <1>1, <1>5, <1>6, <1>7, <1>8, <1>9 DEF CallKind, Kind, RequestKey

LEMMA ReplyServes ==
  ASSUME TypeInv, NEW f, GoodCall(f), f.at = "asked", NEW o \in Reply(f)
  PROVE  Serves(srv, f, o)
<1> PICK s : s = srv
  OBVIOUS
<1>1. s \in Server /\ f.tok \in Tokens \cup {NoToken}
  BY GoodCallIs DEF TypeInv
<1>2. CASE f.kind \in {"trust", "products", "product"}
  <2>1. \E b : o \in Ok(s, b)
    BY <1>2 DEF Reply
  <2>2. o.srv = s
    BY <2>1, OkIs
  <2> QED BY <1>2, <2>2 DEF Serves, Abides, Begun, BringsCart, BringsBook
<1>3. CASE f.kind = "widgetSession" /\ f.arg.step = "exchange"
  <2>1. PICK v \in Shoppers : o \in ExchangeSession(s, v)
    BY <1>3 DEF Reply
  <2>2. /\ Abides(s, o.srv) /\ o.srv.books = s.books /\ o.srv.carts = s.carts
        /\ o.srv.sessions[o.body.token] # None
    BY <1>1, <2>1, ExchangeServes
  <2> QED BY <1>3, <2>2 DEF Serves, Begun, BringsCart, BringsBook
<1>4. CASE /\ f.kind \notin {"trust", "products", "product"}
           /\ ~ (f.kind = "widgetSession" /\ f.arg.step = "exchange")
  <2>1. PICK u : u = SessionOf(s, f.tok)
    OBVIOUS
  <2>2. u \in Shoppers \cup {None}
    BY <1>1, <2>1, SessionOfIs
  <2>3. Reply(f) = IF u = None THEN Error(s, "401") ELSE ReplyTo(f, u)
    BY <1>4, <2>1 DEF Reply
  <2>4. CASE u = None
    <3>1. o.srv = s /\ o.status = "401"
      BY <2>3, <2>4, ErrorIs
    <3> QED BY <1>4, <2>1, <2>4, <3>1 DEF Serves, Abides, Begun
  <2>5. CASE u # None
    BY <1>4, <2>1, <2>2, <2>3, <2>5, ReplyToServes
  <2> QED BY <2>4, <2>5
<1> QED BY <1>2, <1>3, <1>4

\* What goes wrong is never told as done.
LEMMA SurpriseAbides ==
  ASSUME TypeInv, NEW f, GoodCall(f), f.at = "asked", NEW o \in Surprise(f)
  PROVE  Abides(srv, o.srv) /\ Begun(f, o)
<1> PICK s : s = srv
  OBVIOUS
<1>1. PICK declined :
        declined = CASE f.kind = "cart" -> {"409"}
                    [] f.kind = "widgetSession" ->
                         IF f.arg.step = "exchange" THEN {"401"} ELSE {"409"}
                    [] f.kind = "addressSave" -> {"fields"}
                    [] f.kind = "checkout" -> {"404", "fields"}
                    [] OTHER -> {}
  OBVIOUS
<1>2. "ok" \notin declined \cup {"net"}
  BY <1>1
<1>3. \/ \E status \in declined \cup {"net"} : o \in Error(s, status)
      \/ \E r \in Reply(f) : o = [r EXCEPT !.status = "net", !.body = None]
  BY <1>1 DEF Surprise
<1>4. CASE \E status \in declined \cup {"net"} : o \in Error(s, status)
  <2>1. PICK status \in declined \cup {"net"} : o \in Error(s, status)
    BY <1>4
  <2>2. o.srv = s /\ o.status # "ok"
    BY <1>2, <2>1, ErrorIs
  <2> QED BY <2>2 DEF Abides, Begun
<1>5. CASE \E r \in Reply(f) : o = [r EXCEPT !.status = "net", !.body = None]
  <2>1. PICK r \in Reply(f) : o = [r EXCEPT !.status = "net", !.body = None]
    BY <1>5
  <2>2. PICK B : B = BodiesOf(f.kind, f.arg)
    OBVIOUS
  <2>3. r = Outcome(r.srv, r.status, r.body)
    BY <2>2, ReplyAnswers DEF Answers
  <2>4. o = [srv |-> r.srv, status |-> "net", body |-> None]
    BY <2>1, <2>3 DEF Outcome
  <2>5. Abides(s, r.srv)
    BY <2>1, ReplyServes DEF Serves
  <2> QED BY <2>4, <2>5 DEF Begun
<1> QED BY <1>3, <1>4, <1>5

\* The call f has been answered: what the page shows at last is what the
\* server has now.
LEMMA AnswerSettles ==
  ASSUME NEW c, NEW d, NEW i \in FlowIds, NEW f, f = c.flows[i], f # None, f.at = "asked",
         NEW s, NEW o, NEW g, g = AnsweredCall(f, o.status, o.body), g # None,
         Places(c, d, i, g), d.st = c.st, d.inflight = c.inflight, d.token = c.token,
         Abides(s, o.srv), Begun(f, o), Loads(c), Known(c, s.sessions),
         c.token \in Tokens \cup {NoToken}, \A j \in FlowIds : c.flows[j] # None => GoodCall(c.flows[j])
  PROVE  Loads(d) /\ Known(d, o.srv.sessions)
<1>1. /\ d.flows[i] = g
      /\ \A j \in FlowIds : j # i => d.flows[j] = c.flows[j]
  BY DEF Places
<1>2. g.kind = f.kind /\ g.arg = f.arg /\ g.status = o.status /\ g.body = o.body
  BY DEF AnsweredCall
<1>3. Loads(d)
  BY <1>1, <1>2 DEF Loads, Has
<1>4. d.token # NoToken => o.srv.sessions[d.token] # None
  BY DEF Known, Abides
<1>5. ASSUME NEW j \in FlowIds, SignsIn(d, j), d.flows[j].arg.step = "exchange",
             Fulfilled(d.flows[j])
      PROVE  o.srv.sessions[d.flows[j].body.token] # None
  <2>1. CASE j = i
    BY <1>1, <1>2, <1>5, <2>1 DEF Begun, SignsIn, Fulfilled
  <2>2. CASE j # i
    <3>1. d.flows[j] = c.flows[j] /\ c.flows[j] # None /\ c.flows[j].kind = "widgetSession"
          /\ c.flows[j].arg.step = "exchange" /\ Fulfilled(c.flows[j])
      BY <1>1, <1>5, <2>2 DEF SignsIn
    <3>2. s.sessions[c.flows[j].body.token] # None
      BY <3>1 DEF Known, SignsIn
    <3>3. c.flows[j].body \in Sessions
      BY <3>1 DEF GoodCall, Fulfilled, BodiesOf
    <3>4. c.flows[j].body.token \in Tokens
      BY <3>3 DEF Sessions
    <3> QED BY <3>1, <3>2, <3>4 DEF Abides
  <2> QED BY <2>1, <2>2
<1> QED BY <1>3, <1>4, <1>5 DEF Known

LEMMA CartServed ==
  ASSUME NEW c, NEW d, NEW i \in FlowIds, NEW f, f = c.flows[i], f # None, f.at = "asked",
         GoodCall(f), NEW s, NEW o, NEW g, g = AnsweredCall(f, o.status, o.body), g # None,
         Places(c, d, i, g), d.st = c.st, d.token = c.token,
         Serves(s, f, o), c.token # NoToken, c.token \notin s.lapsed,
         NEW u, u = s.sessions[c.token], u # None, CartInv(c, s.carts[u]),
         o.srv.carts # s.carts =>
           \A j \in FlowIds \ {i} : BringsCart(c.flows[j]) => c.flows[j].at # "answered"
  PROVE  CartInv(d, o.srv.carts[u])
<1>1. /\ d.flows[i] = g
      /\ \A j \in FlowIds : j # i => d.flows[j] = c.flows[j]
  BY DEF Places
<1>2. /\ g.kind = f.kind /\ g.arg = f.arg /\ g.tok = f.tok /\ g.status = o.status
      /\ g.body = o.body /\ g.at = "answered"
  BY DEF AnsweredCall
<1>3. PICK cart, news : cart = s.carts[u] /\ news = o.srv.carts[u]
  OBVIOUS
<1>4. BringsCart(f) => f.tok = c.token
  BY DEF CartInv, Honest
<1>5. BringsCart(f) => TellsAs(f, o, news)
  BY <1>3, <1>4 DEF Serves, SessionOf
<1>6. ASSUME NEW j \in FlowIds, BringsCart(d.flows[j])
      PROVE  Honest(d.flows[j], d.token, news)
  <2>1. CASE j = i
    <3>1. BringsCart(f)
      BY <1>1, <1>2, <1>6, <2>1 DEF BringsCart
    <3>2. TellsAs(f, o, news) /\ f.tok = c.token
      BY <1>4, <1>5, <3>1
    <3>3. MayMiss(g) <=> MayMiss(f)
      BY <1>2 DEF MayMiss
    <3> QED BY <1>1, <1>2, <2>1, <3>2, <3>3 DEF Honest, TellsAs
  <2>2. CASE j # i
    <3>1. d.flows[j] = c.flows[j] /\ Honest(c.flows[j], c.token, cart)
      BY <1>1, <1>3, <1>6, <2>2 DEF CartInv
    <3>2. o.srv.carts # s.carts => c.flows[j].at # "answered"
      BY <1>6, <2>2, <3>1
    <3>3. o.srv.carts = s.carts => news = cart
      BY <1>3
    <3> QED BY <3>1, <3>2, <3>3 DEF Honest
  <2> QED BY <2>1, <2>2
<1>7. RenewsCart(f) => RenewsCart(g)
  <2>1. ASSUME f.kind = "cart", f.arg.op = "get"
        PROVE  RenewsCart(g)
    BY <1>2, <2>1 DEF RenewsCart
  <2>2. ~ Fulfilled(f)
    BY DEF Fulfilled
  <2>3. ASSUME f.kind \in {"restore", "confirm"}
        PROVE  RenewsCart(g)
    BY <1>2, <2>3 DEF RenewsCart
  <2> QED BY <2>1, <2>2, <2>3 DEF RenewsCart
<1>8. o.srv.carts # s.carts => RenewsCart(g)
  <2>1. f.kind = "confirm" => RenewsCart(g)
    BY <1>2 DEF RenewsCart
  <2>2. BringsCart(f) /\ o.status = "ok" => RenewsCart(g)
    BY <1>2 DEF RenewsCart, BringsCart, Fulfilled
  <2> QED BY <2>1, <2>2 DEF Serves
<1>9. d.st.cart = news \/ \E j \in FlowIds : RenewsCart(d.flows[j])
  <2>1. CASE o.srv.carts # s.carts
    BY <1>1, <1>8, <2>1
  <2>2. CASE o.srv.carts = s.carts
    <3>1. c.st.cart = news \/ \E j \in FlowIds : RenewsCart(c.flows[j])
      BY <1>3, <2>2 DEF CartInv
    <3>2. \A j \in FlowIds : RenewsCart(c.flows[j]) => RenewsCart(d.flows[j])
      BY <1>1, <1>7
    <3> QED BY <3>1, <3>2
  <2> QED BY <2>1, <2>2
<1> QED BY <1>3, <1>6, <1>9 DEF CartInv

LEMMA BookServed ==
  ASSUME NEW c, NEW d, NEW i \in FlowIds, NEW f, f = c.flows[i], f # None, f.at = "asked",
         GoodCall(f), NEW s, NEW o, NEW g, g = AnsweredCall(f, o.status, o.body), g # None,
         Places(c, d, i, g), d.st = c.st, d.token = c.token,
         Serves(s, f, o), c.token # NoToken, c.token \notin s.lapsed,
         NEW u, u = s.sessions[c.token], u # None, BookInv(c, s.books[u]),
         o.srv.books # s.books =>
           \A j \in FlowIds \ {i} : BringsBook(c.flows[j]) => c.flows[j].at # "answered"
  PROVE  BookInv(d, o.srv.books[u])
<1>1. /\ d.flows[i] = g
      /\ \A j \in FlowIds : j # i => d.flows[j] = c.flows[j]
  BY DEF Places
<1>2. /\ g.kind = f.kind /\ g.arg = f.arg /\ g.tok = f.tok /\ g.status = o.status
      /\ g.body = o.body /\ g.at = "answered"
  BY DEF AnsweredCall
<1>3. PICK book, news : book = s.books[u] /\ news = o.srv.books[u]
  OBVIOUS
<1>4. BringsBook(f) => f.tok = c.token
  BY DEF BookInv, Honest
<1>5. BringsBook(f) => TellsAs(f, o, news)
  BY <1>3, <1>4 DEF Serves, SessionOf
<1>6. ASSUME NEW j \in FlowIds, BringsBook(d.flows[j])
      PROVE  Honest(d.flows[j], d.token, news)
  <2>1. CASE j = i
    <3>1. BringsBook(f)
      BY <1>1, <1>2, <1>6, <2>1 DEF BringsBook
    <3>2. TellsAs(f, o, news) /\ f.tok = c.token
      BY <1>4, <1>5, <3>1
    <3>3. MayMiss(g) <=> MayMiss(f)
      BY <1>2 DEF MayMiss
    <3> QED BY <1>1, <1>2, <2>1, <3>2, <3>3 DEF Honest, TellsAs
  <2>2. CASE j # i
    <3>1. d.flows[j] = c.flows[j] /\ Honest(c.flows[j], c.token, book)
      BY <1>1, <1>3, <1>6, <2>2 DEF BookInv
    <3>2. o.srv.books # s.books => c.flows[j].at # "answered"
      BY <1>6, <2>2, <3>1
    <3>3. o.srv.books = s.books => news = book
      BY <1>3
    <3> QED BY <3>1, <3>2, <3>3 DEF Honest
  <2> QED BY <2>1, <2>2
<1>7. RenewsBook(f) => RenewsBook(g)
  <2>1. ~ Fulfilled(f)
    BY DEF Fulfilled
  <2>2. ASSUME f.kind \in {"restore", "addresses"}
        PROVE  RenewsBook(g)
    BY <1>2, <2>2 DEF RenewsBook
  <2> QED BY <2>1, <2>2 DEF RenewsBook
<1>8. o.srv.books # s.books => RenewsBook(g)
  BY <1>2 DEF Serves, RenewsBook, Fulfilled
<1>9. d.st.addresses = news \/ \E j \in FlowIds : RenewsBook(d.flows[j])
  <2>1. CASE o.srv.books # s.books
    BY <1>1, <1>8, <2>1
  <2>2. CASE o.srv.books = s.books
    <3>1. c.st.addresses = news \/ \E j \in FlowIds : RenewsBook(c.flows[j])
      BY <1>3, <2>2 DEF BookInv
    <3>2. \A j \in FlowIds : RenewsBook(c.flows[j]) => RenewsBook(d.flows[j])
      BY <1>1, <1>7
    <3> QED BY <3>1, <3>2
  <2> QED BY <2>1, <2>2
<1> QED BY <1>3, <1>6, <1>9 DEF BookInv

LEMMA ServeSettles ==
  ASSUME TypeInv, TabInv, SettleInv, NEW i \in FlowIds, Serve(i)
  PROVE  SettleInv'
<1>1. PICK c, d, s, f : c = tab /\ d = tab' /\ s = srv /\ f = tab.flows[i]
  OBVIOUS
<1>2. Sound(c) /\ Shape(c) /\ Typed(c) /\ GoodCall(f) /\ f # None /\ f.at = "asked" /\ s \in Server
      /\ f = c.flows[i] /\ \A j \in FlowIds : c.flows[j] # None => GoodCall(c.flows[j])
  BY <1>1, SoundTyped DEF TabInv, TypeInv, Serve
<1>3. PICK o : /\ Deliver(i, o)
               /\ \/ o \in Reply(f) /\ seen' = seen \cup Races(i, srv')
                  \/ o \in Surprise(f) /\ "fault" \in seen'
  BY <1>1 DEF Serve
<1>4. PICK status, body, B : status = o.status /\ body = o.body /\ B = BodiesOf(f.kind, f.arg)
  OBVIOUS
<1>5. Answers(Reply(f), B) /\ Answers(Surprise(f), B)
  BY <1>2, <1>4, ReplyAnswers, SurpriseAnswers
<1>6. /\ status \in Statuses /\ body \in B \cup {None} /\ (status = "ok" => body \in B)
  BY <1>3, <1>4, <1>5 DEF Answers
<1>7. PICK g : g = AnsweredCall(f, status, body)
  OBVIOUS
<1>8. GoodCall(g) /\ g # None
  BY <1>2, <1>4, <1>6, <1>7, GoodAnswered
<1>9. d = Delivered(c, i, status, body) /\ srv' = o.srv
  BY <1>1, <1>3, <1>4 DEF Deliver, Delivered
<1>10. f = [kind |-> f.kind, at |-> f.at, tok |-> f.tok, arg |-> f.arg, of |-> f.of,
            status |-> f.status, body |-> f.body]
  BY <1>2, GoodCallIs
<1>11. Places(c, d, i, g) /\ d.st = c.st /\ d.inflight = c.inflight /\ d.token = c.token
  BY <1>2, <1>7, <1>9, <1>10, AnswerIs
<1>12. Abides(s, o.srv) /\ Begun(f, o) /\ (o \in Reply(f) => Serves(s, f, o))
  BY <1>1, <1>2, <1>3, ReplyServes, SurpriseAbides DEF Serves
<1>13. Loads(c) /\ Known(c, s.sessions) /\ c.token \in Tokens \cup {NoToken}
  BY <1>1, <1>2 DEF SettleInv, Typed
<1>14. Loads(d) /\ Known(d, o.srv.sessions)
  BY <1>2, <1>4, <1>7, <1>8, <1>11, <1>12, <1>13, AnswerSettles
<1>15. CASE "fault" \in seen'
  BY <1>1, <1>9, <1>14, <1>15 DEF SettleInv
<1>16. CASE "fault" \notin seen'
  <2>1. o \in Reply(f) /\ seen' = seen \cup Races(i, o.srv) /\ Serves(s, f, o)
        /\ "fault" \notin seen
    BY <1>3, <1>9, <1>12, <1>16
  <2>2. Restores(d)
    <3>1. Restores(c)
      BY <1>1, <2>1 DEF SettleInv
    <3>2. /\ d.flows[i] = g
          /\ \A j \in FlowIds : j # i => d.flows[j] = c.flows[j]
      BY <1>11 DEF Places
    <3>3. g.kind = f.kind /\ g.tok = f.tok /\ g.status = o.status
      BY <1>4, <1>7 DEF AnsweredCall
    <3>4. g.kind = "restore" => g.tok # NoToken /\ g.status \in {"ok", "401"}
      <4>1. f.kind = "restore" => f.tok # NoToken
        BY <1>2, <3>1 DEF Restores
      <4> QED BY <2>1, <3>3, <4>1 DEF Serves
    <3> QED BY <3>1, <3>2, <3>4 DEF Restores
  <2>3. ASSUME d.token # NoToken, d.token \notin o.srv.lapsed
        PROVE  /\ seen' \cap {"fault", "cartRace", "placed"} = {}
                    => CartInv(d, o.srv.carts[o.srv.sessions[d.token]])
               /\ seen' \cap {"fault", "bookRace"} = {}
                    => BookInv(d, o.srv.books[o.srv.sessions[d.token]])
    <3>1. PICK u : u = s.sessions[c.token]
      OBVIOUS
    <3>2. u # None /\ c.token # NoToken /\ c.token \notin s.lapsed /\ c.token \in Tokens
      BY <1>11, <1>12, <1>13, <2>3, <3>1 DEF Known, Abides
    <3>3. o.srv.sessions[d.token] = u
      BY <1>11, <1>12, <3>1, <3>2 DEF Abides
    <3>4. ASSUME seen' \cap {"fault", "cartRace", "placed"} = {}
          PROVE  CartInv(d, o.srv.carts[u])
      <4>1. CartInv(c, s.carts[u])
        BY <1>1, <2>1, <3>1, <3>2, <3>4 DEF SettleInv
      <4>2. o.srv.carts # s.carts =>
              \A j \in FlowIds \ {i} : BringsCart(c.flows[j]) => c.flows[j].at # "answered"
        <5>1. o.srv.carts # s.carts => ~ Late(i, "cart") /\ ~ Late(i, "widgetSession")
          BY <1>1, <2>1, <3>4 DEF Races
        <5> QED BY <1>1, <5>1 DEF Late, Waiting, BringsCart
      <4> QED BY <1>2, <1>4, <1>7, <1>8, <1>11, <2>1, <3>1, <3>2, <4>1, <4>2, CartServed
    <3>5. ASSUME seen' \cap {"fault", "bookRace"} = {}
          PROVE  BookInv(d, o.srv.books[u])
      <4>1. BookInv(c, s.books[u])
        BY <1>1, <2>1, <3>1, <3>2, <3>5 DEF SettleInv
      <4>2. o.srv.books # s.books =>
              \A j \in FlowIds \ {i} : BringsBook(c.flows[j]) => c.flows[j].at # "answered"
        <5>1. o.srv.books # s.books => ~ Late(i, "addresses") /\ ~ Late(i, "addressDelete")
          BY <1>1, <2>1, <3>5 DEF Races
        <5> QED BY <1>1, <5>1 DEF Late, Waiting, BringsBook
      <4> QED BY <1>2, <1>4, <1>7, <1>8, <1>11, <2>1, <3>1, <3>2, <4>1, <4>2, BookServed
    <3> QED BY <3>3, <3>4, <3>5
  <2> QED BY <1>1, <1>9, <1>14, <2>2, <2>3 DEF SettleInv
<1> QED BY <1>15, <1>16

\* What happens to the server's record meanwhile: a placed order, whose cart
\* is emptied, is marked.
LEMMA ServerStepsSettle ==
  ASSUME TypeInv, TabInv, SettleInv,
         Capture \/ (\E o \in OrderIds : Webhook(o) \/ OrderEnds(o)) \/ (\E t \in Tokens : Expire(t))
  PROVE  SettleInv'
<1>1. PICK s : s = srv
  OBVIOUS
<1>2. s \in Server /\ tab' = tab
  BY <1>1 DEF TypeInv, Capture, Webhook, OrderEnds, Expire
<1>3. ASSUME srv'.sessions = s.sessions, srv'.carts = s.carts, srv'.books = s.books,
             s.lapsed \subseteq srv'.lapsed, seen' = seen
      PROVE  SettleInv'
  BY <1>1, <1>2, <1>3 DEF SettleInv
<1>4. CASE Capture
  <2>1. srv' = [s EXCEPT !.orders[tab.sheet.order].paid = TRUE] /\ seen' = seen
    BY <1>1, <1>4 DEF Capture
  <2>2. srv'.sessions = s.sessions /\ srv'.carts = s.carts /\ srv'.books = s.books
        /\ srv'.lapsed = s.lapsed
    BY <1>2, <2>1 DEF Server
  <2> QED BY <1>3, <2>1, <2>2
<1>5. ASSUME NEW o \in OrderIds, Webhook(o)
      PROVE  SettleInv'
  <2>1. srv' = Place(s, o) /\ "placed" \in seen' /\ seen \subseteq seen'
        /\ ("bookRace" \in seen' => "bookRace" \in seen) /\ ("fault" \in seen' => "fault" \in seen)
    BY <1>1, <1>5 DEF Webhook
  <2>2. srv'.sessions = s.sessions /\ srv'.books = s.books /\ srv'.lapsed = s.lapsed
    BY <1>2, <2>1, PlaceServes DEF Abides
  <2>3. Loads(tab) /\ Known(tab, srv'.sessions) /\ ("fault" \notin seen' => Restores(tab))
    BY <1>1, <2>1, <2>2 DEF SettleInv
  <2>4. ASSUME tab.token # NoToken, tab.token \notin srv'.lapsed,
               seen' \cap {"fault", "bookRace"} = {}
        PROVE  BookInv(tab, srv'.books[srv'.sessions[tab.token]])
    BY <1>1, <2>1, <2>2, <2>4 DEF SettleInv
  <2> QED BY <1>2, <2>1, <2>3, <2>4 DEF SettleInv
<1>6. ASSUME NEW o \in OrderIds, OrderEnds(o)
      PROVE  SettleInv'
  <2>1. srv' = [s EXCEPT !.orders[o].status = "ended"] /\ seen' = seen
    BY <1>1, <1>6 DEF OrderEnds
  <2>2. srv'.sessions = s.sessions /\ srv'.carts = s.carts /\ srv'.books = s.books
        /\ srv'.lapsed = s.lapsed
    BY <1>2, <2>1 DEF Server
  <2> QED BY <1>3, <2>1, <2>2
<1>7. ASSUME NEW t \in Tokens, Expire(t)
      PROVE  SettleInv'
  <2>1. srv' = [s EXCEPT !.lapsed = @ \cup {t}] /\ seen' = seen
    BY <1>1, <1>7 DEF Expire
  <2>2. srv'.sessions = s.sessions /\ srv'.carts = s.carts /\ srv'.books = s.books
        /\ s.lapsed \subseteq srv'.lapsed
    BY <1>2, <2>1 DEF Server
  <2> QED BY <1>3, <2>1, <2>2
<1> QED BY <1>4, <1>5, <1>6, <1>7

-----------------------------------------------------------------------------
(* What the page shows at last: where a behaviour starts.                  *)

LEMMA RestoringFresh ==
  ASSUME habit.stored \in Lines, HasRoom(Restoring)
  PROVE  Fresh(Restoring) /\ Restoring.token = 1
<1>1. 1 \in Tokens \cup {NoToken} /\ None \in Shoppers \cup {None} /\ None \in Lines \cup {None}
  BY SessionsAssumption DEF Tokens
<1>2. PICK page : page = AtRest(1, None, None, NoBook)
  OBVIOUS
<1>3. Resting(page)
  BY <1>1, <1>2, AtRestIs, NoLinesIs
<1>4. Sound(page) /\ Rested(page) /\ HasRoom(page)
  BY <1>3, RestingSound, RestingRoom
<1>5. page.token = 1 /\ page.inflight = {} /\ \A j \in FlowIds : page.flows[j] = None
  BY <1>2 DEF AtRest
<1>6. PICK i : i = FreeSlot(page)
  OBVIOUS
<1>7. PICK d : d = Join(Ask([page EXCEPT !.st = BootStart(@)], "boot", None, 0), i)
  OBVIOUS
<1>8. i \in FlowIds /\ Sound(d) /\ Calm(page, d) /\ Asks(page, d) /\ Carries(page, d)
  BY <1>4, <1>6, <1>7, StartedKeeps, StartedCarries
<1>9. i \in 0..MaxFlows
  BY <1>8, FlowsAssumption DEF FlowIds
<1>10. PICK e : e = RestoreSession(d, i)
  OBVIOUS
<1>11. Asks(d, e)
  BY <1>8, <1>9, <1>10, RestoreSessionAsks DEF Asks
<1>12. PICK r : r = Render(e)
  OBVIOUS
<1>13. Restoring = r
  BY <1>2, <1>6, <1>7, <1>10, <1>12 DEF Restoring
<1>14. Shape(e) /\ Typed(e) /\ e.st.pdp = e.shown.pdp
  BY <1>4, <1>8, <1>11 DEF Asks, Rested
<1>15. HasRoom(Render(e)) /\ HasRoom(e)
  BY <1>12, <1>13, <1>14, RenderRoom
<1>16. d.token = page.token
  BY <1>8 DEF Carries
<1>17. NoToken # 1
  BY DEF NoToken
<1>18. /\ Carries(d, e)
       /\ \E j \in FlowIds : RenewsCart(e.flows[j])
       /\ \E j \in FlowIds : RenewsBook(e.flows[j])
  BY <1>5, <1>8, <1>9, <1>10, <1>15, <1>16, <1>17, RestoreSessionCarries DEF Asks
<1>19. Carries(e, r)
  BY <1>12, <1>14, <1>15, RenderCarries
<1>20. /\ \E j \in FlowIds : RenewsCart(r.flows[j])
       /\ \E j \in FlowIds : RenewsBook(r.flows[j])
  BY <1>18, <1>19, RenewsCarried
<1>21. Carries(page, r)
  BY <1>8, <1>18, <1>19, CarriesTrans
<1>22. Fresh(r)
  BY <1>5, <1>20, <1>21, BlankFresh
<1> QED BY <1>5, <1>13, <1>21, <1>22 DEF Carries

\* A page at rest shows what it was given, and nothing is under way.
LEMMA AtRestSettled ==
  ASSUME NEW token, NEW user, NEW cart, NEW book, NEW c, c = AtRest(token, user, cart, book)
  PROVE  /\ Loads(c) /\ Restores(c) /\ c.token = token
         /\ \A sessions : (token # NoToken => sessions[token] # None) => Known(c, sessions)
         /\ CartInv(c, cart) /\ BookInv(c, book)
<1>1. c.token = token /\ c.inflight = {} /\ \A j \in FlowIds : c.flows[j] = None
  BY DEF AtRest
<1>2. c.st.cart = cart /\ c.st.addresses = book
  BY DEF AtRest, InitialState
<1> QED BY <1>1, <1>2 DEF Loads, Restores, Known, SignsIn, CartInv, BookInv, BringsCart, BringsBook

LEMMA InitSettles ==
  ASSUME Init
  PROVE  SettleInv
<1>1. PICK user \in Shoppers, lapsed \in SUBSET {1} :
        /\ srv = [sessions |-> [t \in Tokens |->
                            IF t = 1 /\ habit.start # "out" THEN user ELSE None],
                  lapsed |-> lapsed,
                  carts |-> [u \in Shoppers |-> IF u = user THEN habit.cart ELSE NoLines],
                  books |-> [u \in Shoppers |-> IF u = user THEN habit.book ELSE NoBook],
                  orders |-> [o \in OrderIds |->
                               [owner |-> None, status |-> "pending", paid |-> FALSE]]]
        /\ tab \in InitTab(user) /\ HasRoom(tab)
  BY DEF Init
<1>2. /\ habit.start \in {"opening", "restoring", "out", "in"}
      /\ habit.cart \in Lines /\ habit.stored \in Lines /\ habit.book \in Book
  BY HabitsAssumption DEF Init
<1>3. PICK c, cart, book, sessions :
        /\ c = tab /\ cart = srv.carts[user] /\ book = srv.books[user]
        /\ sessions = srv.sessions
  OBVIOUS
<1>4. cart = habit.cart /\ book = habit.book
  BY <1>1, <1>3
<1>5. 1 \in Tokens /\ 1 # NoToken /\ user # None /\ None \notin Shoppers
  BY <1>1, SessionsAssumption, ShopAssumption DEF Tokens, NoToken
<1>6. habit.start # "out" => sessions[1] = user
  BY <1>1, <1>3, <1>5
<1>7. 1 \in Tokens \cup {NoToken} /\ NoToken \in Tokens \cup {NoToken}
  BY <1>5
<1>8. /\ Loads(c) /\ Restores(c) /\ Known(c, sessions)
      /\ c.token # NoToken => c.token = 1 /\ habit.start # "out" /\ CartInv(c, cart) /\ BookInv(c, book)
  <2>1. CASE habit.start = "opening"
    <3>1. PICK t \in {NoToken, 1} : c = OpenPage(t, habit.stored)
      BY <1>1, <1>3, <2>1 DEF InitTab
    <3>2. Fresh(c) /\ c.token = t
      BY <1>1, <1>2, <1>3, <1>7, <3>1, OpenPageFresh
    <3> QED BY <1>5, <1>6, <2>1, <3>1, <3>2 DEF Fresh
  <2>2. CASE habit.start = "restoring"
    <3>1. c = Restoring
      BY <1>1, <1>3, <2>2 DEF InitTab
    <3>2. Fresh(c) /\ c.token = 1
      BY <1>1, <1>2, <1>3, <3>1, RestoringFresh
    <3> QED BY <1>5, <1>6, <2>2, <3>2 DEF Fresh
  <2>3. CASE habit.start = "out"
    <3>1. c = AtRest(NoToken, None, None, NoBook)
      BY <1>1, <1>3, <2>3 DEF InitTab
    <3> QED BY <3>1, AtRestSettled
  <2>4. CASE habit.start = "in"
    <3>1. c = AtRest(1, user, cart, book)
      BY <1>1, <1>3, <1>4, <2>4 DEF InitTab
    <3> QED BY <1>5, <1>6, <2>4, <3>1, AtRestSettled
  <2> QED BY <1>2, <2>1, <2>2, <2>3, <2>4
<1>9. c.token # NoToken => srv.carts[srv.sessions[tab.token]] = cart
                           /\ srv.books[srv.sessions[tab.token]] = book
  BY <1>3, <1>6, <1>8
<1> QED BY <1>3, <1>8, <1>9 DEF SettleInv

LEMMA StepSettles ==
  ASSUME TypeInv, TabInv, AskedInv, SettleInv, [Next]_vars
  PROVE  SettleInv'
<1>1. CASE Clicks
  BY <1>1, ClickCardSettles, ClickPdpSettles, ClickLineSettles, ClickAddressSettles,
     BuyFromPdpSettles, ProceedSettles, ClickFormSettles, ClickPaySettles, LinksSettle,
     ClickBannerSettles, ClickSignOutSettles, LaunchWidgetSettles DEF Clicks
<1>2. CASE World
  BY <1>2, WidgetEndsSettles, OwnStepsSettle, ReloadSettles, ServerStepsSettle DEF World
<1>3. CASE Runtime
  <2>1. CASE Commit
    BY <2>1, CommitSettles
  <2>2. ASSUME NEW i \in FlowIds, Progress(i)
        PROVE  SettleInv'
    <3>1. CASE Resume(i)
      BY <2>2, <3>1, ResumeSettles, SignInSettles
    <3> QED BY <2>2, <3>1, ServeSettles, OwnStepsSettle DEF Progress
  <2> QED BY <1>3, <2>1, <2>2 DEF Runtime
<1>4. CASE UNCHANGED vars
  <2>1. tab' = tab /\ srv' = srv /\ seen' = seen
    BY <1>4 DEF vars
  <2> QED BY <2>1 DEF SettleInv
<1> QED BY <1>1, <1>2, <1>3, <1>4 DEF Next

\* With nothing under way, nothing else is to be shown.
LEMMA SettlesCart == SettleInv => CartSettles
BY DEF SettleInv, CartSettles, Quiet, CartInv, RenewsCart

LEMMA SettlesBook == SettleInv => BookSettles
BY DEF SettleInv, BookSettles, Quiet, BookInv, RenewsBook

(* When nothing is under way, a signed-in shopper sees the server's cart,   *)
(* whatever was clicked, reloaded, signed out of and answered before        *)
(* (useShop.ts, guarded and the loads a sign-in starts), but for the        *)
(* exceptions CartSettles names.                                            *)
THEOREM CartIsShownAtLast == Spec => []CartSettles
<1>1. Init => SettleInv
  BY InitSettles
<1>2. (TypeInv /\ TabInv) /\ AskedInv /\ SettleInv /\ [Next]_vars => SettleInv'
  BY StepSettles
<1>3. Init => AskedInv
  BY InitAsked
<1>4. (TypeInv /\ TabInv) /\ AskedInv /\ [Next]_vars => AskedInv'
  BY StepAsked
<1> QED BY <1>1, <1>2, <1>3, <1>4, Invariance, SettlesCart, PTL DEF Spec

(* When nothing is under way, a signed-in shopper sees the server's address *)
(* book and its default (useShop.ts, guarded and addressSaved), but for the *)
(* exceptions BookSettles names.                                            *)
THEOREM BookIsShownAtLast == Spec => []BookSettles
<1>1. Init => SettleInv
  BY InitSettles
<1>2. (TypeInv /\ TabInv) /\ AskedInv /\ SettleInv /\ [Next]_vars => SettleInv'
  BY StepSettles
<1>3. Init => AskedInv
  BY InitAsked
<1>4. (TypeInv /\ TabInv) /\ AskedInv /\ [Next]_vars => AskedInv'
  BY StepAsked
<1> QED BY <1>1, <1>2, <1>3, <1>4, Invariance, SettlesBook, PTL DEF Spec

=============================================================================
