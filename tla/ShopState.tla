----------------------------- MODULE ShopState -----------------------------
(***************************************************************************)
(* The storefront's state and the reducer over it (lib/shop/reducer.ts):   *)
(* one operator per action of shopReducer, from a state to the next.       *)
(*                                                                         *)
(* Texts, prices and pictures are left out; a banner, an address form      *)
(* error or a cancellation message is only shown or not shown.  A cart or  *)
(* an offline buffer is the quantity of each product.  An address book is  *)
(* its ids and the id of the default.  The dormant one-time-code screens   *)
(* (otp..., editPhone, setPhone) are left out: no screen dispatches them.  *)
(***************************************************************************)
EXTENDS Naturals, FiniteSets

CONSTANTS
  Products,     \* products of the catalogue
  Shoppers,     \* accounts
  AddressIds,   \* ids the server gives to saved addresses
  OrderIds,     \* ids the server gives to orders
  MaxQty,       \* cap on the quantity of a line (99 in the code)
  None          \* null

ASSUME ShopAssumption ==
  /\ MaxQty \in Nat \ {0}
  /\ None \notin Products \cup Shoppers \cup AddressIds \cup OrderIds

Screen == {"shop", "pdp", "login", "cart", "review", "done", "orders", "addresses"}
GatedScreen == {"cart", "review"}

RequestKey ==
  {"products", "product", "trust", "session", "cart", "addresses", "addressSave",
   "addressDelete", "checkout", "payment", "widgetSession", "orders"}

Lines == [Products -> 0..MaxQty]
NoLines == [p \in Products |-> 0]
IsEmpty(lines) == \A p \in Products : lines[p] = 0

Book == [ids : SUBSET AddressIds, dflt : AddressIds \cup {None}]
NoBook == [ids |-> {}, dflt |-> None]

OrderStatus == {"pending", "placed", "ended"}
Order == [id : OrderIds, status : OrderStatus]

State ==
  [screen : Screen, next : GatedScreen, user : Shoppers \cup {None},
   products : SUBSET Products, pdp : Products \cup {None},
   detail : Products \cup {None}, qty : 1..MaxQty,
   cart : Lines \cup {None}, buffer : Lines,
   addresses : Book, selected : AddressIds \cup {None},
   form : AddressIds \cup {"new", None}, formError : BOOLEAN,
   checkout : OrderIds \cup {None}, placed : Order \cup {None},
   cancelled : BOOLEAN, orders : SUBSET OrderIds,
   booting : BOOLEAN, banner : BOOLEAN, pending : SUBSET RequestKey]

InitialState ==
  [screen |-> "shop", next |-> "cart", user |-> None, products |-> {},
   pdp |-> None, detail |-> None, qty |-> 1, cart |-> None, buffer |-> NoLines,
   addresses |-> NoBook, selected |-> None, form |-> None, formError |-> FALSE,
   checkout |-> None, placed |-> None, cancelled |-> FALSE, orders |-> {},
   booting |-> TRUE, banner |-> FALSE, pending |-> {}]

Capped(n) == IF n > MaxQty THEN MaxQty ELSE n

-----------------------------------------------------------------------------
(* Navigation and the controls of the product page.                        *)

Go(s, screen) == [s EXCEPT !.screen = screen]

RequireAuth(s, dest) ==
  IF s.user # None THEN Go(s, dest) ELSE [Go(s, "login") EXCEPT !.next = dest]

OpenPdp(s, p) ==
  [s EXCEPT !.screen = "pdp", !.pdp = p, !.qty = 1, !.detail = None]

\* The code caps the quantity when it is added; here the bound is MaxQty.
BumpQty(s, up) ==
  [s EXCEPT !.qty = IF up THEN Capped(@ + 1) ELSE IF @ = 1 THEN 1 ELSE @ - 1]

GoCheckout(s) == IF s.selected = None THEN s ELSE Go(s, "review")

-----------------------------------------------------------------------------
(* The async seam: what starts, fails and arrives.                         *)

ReqStart(s, key) == [s EXCEPT !.pending = @ \cup {key}]
Settled(s, key) == [s EXCEPT !.pending = @ \ {key}]
ReqFail(s, key) == [Settled(s, key) EXCEPT !.banner = TRUE]

TrustLoaded(s) == Settled(s, "trust")
ProductsLoaded(s, ps) == [Settled(s, "products") EXCEPT !.products = ps]
ProductLoaded(s, p) == [Settled(s, "product") EXCEPT !.detail = p]
CartLoaded(s, cart) == [Settled(s, "cart") EXCEPT !.cart = cart]
OrdersLoaded(s, ids) == [Settled(s, "orders") EXCEPT !.orders = ids]

CheckoutOpened(s, o) ==
  [Settled(s, "checkout") EXCEPT !.checkout = o, !.cancelled = FALSE]

PaymentConfirmed(s, order) ==
  [Settled(s, "payment") EXCEPT !.placed = order, !.checkout = None,
                                !.cancelled = FALSE, !.screen = "done"]

\* Discards the checkout, so that the next Pay opens a fresh order.
PaymentCancelled(s) ==
  [Settled(s, "payment") EXCEPT !.checkout = None, !.cancelled = TRUE]

BootStart(s) == [s EXCEPT !.booting = TRUE, !.banner = FALSE]
BootDone(s) == [s EXCEPT !.booting = FALSE]

\* Sign-out forgets what belongs to the shopper; not the pending flags, not
\* the address form.
SignOut(s) ==
  [s EXCEPT !.user = None, !.screen = "shop", !.cart = None, !.buffer = NoLines,
            !.addresses = NoBook, !.orders = {}, !.selected = None,
            !.checkout = None, !.placed = None, !.cancelled = FALSE]

ClearBanner(s) == [s EXCEPT !.banner = FALSE]

\* otpVerified settles the dormant key otpVerify, not widgetSession.
OtpVerified(s, user) == [s EXCEPT !.user = user, !.screen = s.next]
SessionRestored(s, user) == [s EXCEPT !.user = user]
SetCartBuffer(s, lines) == [s EXCEPT !.buffer = lines]

-----------------------------------------------------------------------------
(* Addresses.                                                              *)

\* A selection that is still on the list is kept; else the default is taken.
\* A book of the server is empty or has a default, which it lists first.
ResolveSelection(book, current) ==
  IF current \in book.ids THEN current ELSE book.dflt

WithBook(s, book) ==
  [s EXCEPT !.addresses = book, !.selected = ResolveSelection(book, @)]

AddressesLoaded(s, book) == WithBook(Settled(s, "addresses"), book)
AddressDeleted(s, book) == WithBook(Settled(s, "addressDelete"), book)

HideAddressForm(s) == [s EXCEPT !.form = None, !.formError = FALSE]

AddressSaved(s, id) ==
  [HideAddressForm(Settled(s, "addressSave")) EXCEPT !.selected = id]

SelectAddress(s, id) == [s EXCEPT !.selected = id]

ShowAddressForm(s, editing) ==
  IF editing = "new" \/ editing \in s.addresses.ids
    THEN [s EXCEPT !.form = editing, !.formError = FALSE]
    ELSE s

SetAddr(s) == [s EXCEPT !.formError = FALSE]
SetAddrFieldError(s) == [s EXCEPT !.formError = TRUE]

=============================================================================
