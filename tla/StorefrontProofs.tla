-------------------------- MODULE StorefrontProofs --------------------------
(***************************************************************************)
(* The storefront's promises as theorems.  The invariant is TypeInv /\     *)
(* TabInv of StorefrontInvariants.  It is followed through a step in four  *)
(* stages: the reducer (what an action of it leaves of flags and page),    *)
(* the calls (asking, ending, joining), the commands built from both, and  *)
(* the actions of Storefront.  Follows, Calm and Goes name what a stage    *)
(* hands to the next.                                                      *)
(***************************************************************************)
EXTENDS StorefrontInvariants, FiniteSetTheorems, TLAPS

-----------------------------------------------------------------------------
(* The reducer.                                                            *)

\* A change of the state that no page, flag of a payment or message of a
\* cancelled payment comes of.
Follows(s, t) ==
  /\ t \in State /\ t.pdp = s.pdp /\ t.detail = s.detail
  /\ t.cancelled => s.cancelled
  /\ t.pending \subseteq s.pending
  /\ \A key \in {"checkout", "payment"} : key \in s.pending => key \in t.pending

PlainKey == RequestKey \ {"checkout", "payment"}

LEMMA CappedIs ==
  ASSUME NEW n \in Nat
  PROVE  Capped(n) \in 0..MaxQty /\ (n >= 1 => Capped(n) \in 1..MaxQty)
BY ShopAssumption DEF Capped

LEMMA NoLinesIs == NoLines \in Lines /\ NoBook \in Book
BY ShopAssumption DEF NoLines, Lines, NoBook, Book

LEMMA FollowsTrans ==
  ASSUME NEW s, NEW t, NEW u, Follows(s, t), Follows(t, u)
  PROVE  Follows(s, u)
BY DEF Follows

LEMMA FollowsSame ==
  ASSUME NEW s \in State
  PROVE  Follows(s, s)
BY DEF Follows

\* Setting any other field.
Sets(s, t) == Follows(s, t) /\ t.pending = s.pending

LEMMA SetsTrans ==
  ASSUME NEW s, NEW t, NEW u, Sets(s, t), Sets(t, u)
  PROVE  Sets(s, u)
BY FollowsTrans DEF Sets

LEMMA FieldSets ==
  ASSUME NEW s \in State
  PROVE  /\ \A v \in Screen : Sets(s, [s EXCEPT !.screen = v])
         /\ \A v \in GatedScreen : Sets(s, [s EXCEPT !.next = v])
         /\ \A v \in Shoppers \cup {None} : Sets(s, [s EXCEPT !.user = v])
         /\ \A v \in SUBSET Products : Sets(s, [s EXCEPT !.products = v])
         /\ \A v \in 1..MaxQty : Sets(s, [s EXCEPT !.qty = v])
         /\ \A v \in Lines \cup {None} : Sets(s, [s EXCEPT !.cart = v])
         /\ \A v \in Lines : Sets(s, [s EXCEPT !.buffer = v])
         /\ \A v \in Book : Sets(s, [s EXCEPT !.addresses = v])
         /\ \A v \in AddressIds \cup {None} : Sets(s, [s EXCEPT !.selected = v])
         /\ \A v \in AddressIds \cup {"new", None} : Sets(s, [s EXCEPT !.form = v])
         /\ \A v \in BOOLEAN : Sets(s, [s EXCEPT !.formError = v])
         /\ \A v \in OrderIds \cup {None} : Sets(s, [s EXCEPT !.checkout = v])
         /\ \A v \in Order \cup {None} : Sets(s, [s EXCEPT !.placed = v])
         /\ \A v \in SUBSET OrderIds : Sets(s, [s EXCEPT !.orders = v])
         /\ \A v \in BOOLEAN : Sets(s, [s EXCEPT !.booting = v])
         /\ \A v \in BOOLEAN : Sets(s, [s EXCEPT !.banner = v])
<1>1. \A v \in Screen : Sets(s, [s EXCEPT !.screen = v])
  BY DEF Sets, Follows, State
<1>2. \A v \in GatedScreen : Sets(s, [s EXCEPT !.next = v])
  BY DEF Sets, Follows, State
<1>3. \A v \in Shoppers \cup {None} : Sets(s, [s EXCEPT !.user = v])
  BY DEF Sets, Follows, State
<1>4. \A v \in SUBSET Products : Sets(s, [s EXCEPT !.products = v])
  BY DEF Sets, Follows, State
<1>5. \A v \in 1..MaxQty : Sets(s, [s EXCEPT !.qty = v])
  BY DEF Sets, Follows, State
<1>6. \A v \in Lines \cup {None} : Sets(s, [s EXCEPT !.cart = v])
  BY DEF Sets, Follows, State
<1>7. \A v \in Lines : Sets(s, [s EXCEPT !.buffer = v])
  BY DEF Sets, Follows, State
<1>8. \A v \in Book : Sets(s, [s EXCEPT !.addresses = v])
  BY DEF Sets, Follows, State
<1>9. \A v \in AddressIds \cup {None} : Sets(s, [s EXCEPT !.selected = v])
  BY DEF Sets, Follows, State
<1>10. \A v \in AddressIds \cup {"new", None} : Sets(s, [s EXCEPT !.form = v])
  BY DEF Sets, Follows, State
<1>11. \A v \in BOOLEAN : Sets(s, [s EXCEPT !.formError = v])
  BY DEF Sets, Follows, State
<1>12. \A v \in OrderIds \cup {None} : Sets(s, [s EXCEPT !.checkout = v])
  BY DEF Sets, Follows, State
<1>13. \A v \in Order \cup {None} : Sets(s, [s EXCEPT !.placed = v])
  BY DEF Sets, Follows, State
<1>14. \A v \in SUBSET OrderIds : Sets(s, [s EXCEPT !.orders = v])
  BY DEF Sets, Follows, State
<1>15. \A v \in BOOLEAN : Sets(s, [s EXCEPT !.booting = v])
  BY DEF Sets, Follows, State
<1>16. \A v \in BOOLEAN : Sets(s, [s EXCEPT !.banner = v])
  BY DEF Sets, Follows, State
<1> QED BY <1>1, <1>2, <1>3, <1>4, <1>5, <1>6, <1>7, <1>8, <1>9, <1>10, <1>11, <1>12, <1>13, <1>14, <1>15, <1>16

LEMMA GoFollows ==
  ASSUME NEW s \in State, NEW screen \in Screen
  PROVE  Follows(s, Go(s, screen))
BY FieldSets DEF Go, Sets

LEMMA RequireAuthFollows ==
  ASSUME NEW s \in State
  PROVE  Follows(s, RequireAuth(s, "cart"))
<1>1. "cart" \in Screen /\ "login" \in Screen /\ "cart" \in GatedScreen
  BY DEF Screen, GatedScreen
<1>2. Go(s, "cart") \in State /\ Follows(s, Go(s, "cart")) /\ Follows(s, Go(s, "login"))
  BY <1>1, GoFollows DEF Follows
<1>3. PICK t \in State : t = Go(s, "login")
  BY <1>2 DEF Follows
<1>4. Follows(t, [t EXCEPT !.next = "cart"])
  BY <1>1 DEF Follows, State
<1> QED BY <1>2, <1>3, <1>4, FollowsTrans DEF RequireAuth

LEMMA BumpQtyFollows ==
  ASSUME NEW s \in State, NEW up \in BOOLEAN
  PROVE  Follows(s, BumpQty(s, up))
<1>1. PICK n : n = IF up THEN Capped(s.qty + 1) ELSE IF s.qty = 1 THEN 1 ELSE s.qty - 1
  OBVIOUS
<1>2. s.qty \in 1..MaxQty
  BY DEF State
<1>3. n \in 1..MaxQty
  BY <1>1, <1>2, CappedIs, ShopAssumption
<1>4. BumpQty(s, up) = [s EXCEPT !.qty = n]
  BY <1>1 DEF BumpQty
<1> QED BY <1>3, <1>4 DEF Follows, State

LEMMA GoCheckoutFollows ==
  ASSUME NEW s \in State
  PROVE  Follows(s, GoCheckout(s))
BY GoFollows, FollowsSame DEF GoCheckout, Screen

LEMMA SettledFollows ==
  ASSUME NEW s \in State, NEW key \in PlainKey
  PROVE  Follows(s, Settled(s, key)) /\ Settled(s, key).pending = s.pending \ {key}
BY DEF Follows, State, Settled, PlainKey

LEMMA ReqFailFollows ==
  ASSUME NEW s \in State, NEW key \in PlainKey
  PROVE  Follows(s, ReqFail(s, key)) /\ ReqFail(s, key).pending = s.pending \ {key}
<1>1. PICK t : t = Settled(s, key)
  OBVIOUS
<1>2. Follows(s, t) /\ t.pending = s.pending \ {key}
  BY <1>1, SettledFollows
<1>3. PICK yes \in BOOLEAN : yes = TRUE
  OBVIOUS
<1>4. ReqFail(s, key) = [t EXCEPT !.banner = yes]
  BY <1>1, <1>3 DEF ReqFail
<1> QED BY <1>2, <1>4 DEF Follows, State

LEMMA LoadedFollows ==
  ASSUME NEW s \in State
  PROVE  /\ Follows(s, TrustLoaded(s)) /\ TrustLoaded(s).pending = s.pending \ {"trust"}
         /\ \A ps \in SUBSET Products :
              Follows(s, ProductsLoaded(s, ps)) /\ ProductsLoaded(s, ps).pending = s.pending \ {"products"}
         /\ \A lines \in Lines :
              Follows(s, CartLoaded(s, lines)) /\ CartLoaded(s, lines).pending = s.pending \ {"cart"}
         /\ \A ids \in SUBSET OrderIds :
              Follows(s, OrdersLoaded(s, ids)) /\ OrdersLoaded(s, ids).pending = s.pending \ {"orders"}
<1>1. "trust" \in PlainKey /\ "products" \in PlainKey /\ "cart" \in PlainKey /\ "orders" \in PlainKey
  BY DEF PlainKey, RequestKey
<1>2. Follows(s, TrustLoaded(s)) /\ TrustLoaded(s).pending = s.pending \ {"trust"}
  BY <1>1, SettledFollows DEF TrustLoaded
<1>3. ASSUME NEW ps \in SUBSET Products
      PROVE  Follows(s, ProductsLoaded(s, ps)) /\ ProductsLoaded(s, ps).pending = s.pending \ {"products"}
  <2>1. PICK t : t = Settled(s, "products")
    OBVIOUS
  <2>2. Follows(s, t) /\ t.pending = s.pending \ {"products"}
    BY <1>1, <2>1, SettledFollows
  <2>3. ProductsLoaded(s, ps) = [t EXCEPT !.products = ps]
    BY <2>1 DEF ProductsLoaded
  <2> QED BY <2>2, <2>3 DEF Follows, State
<1>4. ASSUME NEW lines \in Lines
      PROVE  Follows(s, CartLoaded(s, lines)) /\ CartLoaded(s, lines).pending = s.pending \ {"cart"}
  <2>1. PICK t : t = Settled(s, "cart")
    OBVIOUS
  <2>2. Follows(s, t) /\ t.pending = s.pending \ {"cart"}
    BY <1>1, <2>1, SettledFollows
  <2>3. CartLoaded(s, lines) = [t EXCEPT !.cart = lines]
    BY <2>1 DEF CartLoaded
  <2> QED BY <2>2, <2>3 DEF Follows, State
<1>5. ASSUME NEW ids \in SUBSET OrderIds
      PROVE  Follows(s, OrdersLoaded(s, ids)) /\ OrdersLoaded(s, ids).pending = s.pending \ {"orders"}
  <2>1. PICK t : t = Settled(s, "orders")
    OBVIOUS
  <2>2. Follows(s, t) /\ t.pending = s.pending \ {"orders"}
    BY <1>1, <2>1, SettledFollows
  <2>3. OrdersLoaded(s, ids) = [t EXCEPT !.orders = ids]
    BY <2>1 DEF OrdersLoaded
  <2> QED BY <2>2, <2>3 DEF Follows, State
<1> QED BY <1>2, <1>3, <1>4, <1>5

LEMMA BootFollows ==
  ASSUME NEW s \in State
  PROVE  Sets(s, BootStart(s)) /\ Sets(s, BootDone(s)) /\ Sets(s, ClearBanner(s))
<1>1. PICK no \in BOOLEAN : no = FALSE
  OBVIOUS
<1>2. PICK yes \in BOOLEAN : yes = TRUE
  OBVIOUS
<1>3. PICK t : t = [s EXCEPT !.booting = yes]
  OBVIOUS
<1>4. Sets(s, t) /\ t \in State
  BY <1>3, FieldSets DEF Sets, Follows
<1>5. BootStart(s) = [t EXCEPT !.banner = no]
  BY <1>1, <1>2, <1>3 DEF BootStart
<1>6. Sets(s, BootStart(s))
  BY <1>4, <1>5, FieldSets, SetsTrans
<1>7. BootDone(s) = [s EXCEPT !.booting = no] /\ ClearBanner(s) = [s EXCEPT !.banner = no]
  BY <1>1 DEF BootDone, ClearBanner
<1> QED BY <1>6, <1>7, FieldSets

LEMMA UncancelSets ==
  ASSUME NEW s \in State, NEW no, no = FALSE
  PROVE  Sets(s, [s EXCEPT !.cancelled = no]) /\ [s EXCEPT !.cancelled = no].cancelled = FALSE
<1>1. no \in BOOLEAN
  OBVIOUS
<1> QED BY <1>1 DEF Sets, Follows, State

LEMMA SignOutFollows ==
  ASSUME NEW s \in State
  PROVE  Sets(s, SignOut(s))
<1>1. PICK no : no = FALSE
  OBVIOUS
<1>2. PICK orders : orders = {}
  OBVIOUS
<1>3. PICK t1 : t1 = [s EXCEPT !.user = None]
  OBVIOUS
<1>4. Sets(s, t1) /\ t1 \in State
  BY <1>3, <1>2, FieldSets, NoLinesIs DEF Sets, Follows
<1>5. PICK t2 : t2 = [t1 EXCEPT !.screen = "shop"]
  OBVIOUS
<1>6. Sets(t1, t2) /\ t2 \in State
  BY <1>5, <1>2, <1>4, FieldSets, NoLinesIs DEF Sets, Follows, Screen
<1>7. PICK t3 : t3 = [t2 EXCEPT !.cart = None]
  OBVIOUS
<1>8. Sets(t2, t3) /\ t3 \in State
  BY <1>7, <1>2, <1>6, FieldSets, NoLinesIs DEF Sets, Follows
<1>9. PICK t4 : t4 = [t3 EXCEPT !.buffer = NoLines]
  OBVIOUS
<1>10. Sets(t3, t4) /\ t4 \in State
  BY <1>9, <1>2, <1>8, FieldSets, NoLinesIs DEF Sets, Follows
<1>11. PICK t5 : t5 = [t4 EXCEPT !.addresses = NoBook]
  OBVIOUS
<1>12. Sets(t4, t5) /\ t5 \in State
  BY <1>11, <1>2, <1>10, FieldSets, NoLinesIs DEF Sets, Follows
<1>13. PICK t6 : t6 = [t5 EXCEPT !.orders = orders]
  OBVIOUS
<1>14. Sets(t5, t6) /\ t6 \in State
  BY <1>13, <1>2, <1>12, FieldSets, NoLinesIs DEF Sets, Follows
<1>15. PICK t7 : t7 = [t6 EXCEPT !.selected = None]
  OBVIOUS
<1>16. Sets(t6, t7) /\ t7 \in State
  BY <1>15, <1>2, <1>14, FieldSets, NoLinesIs DEF Sets, Follows
<1>17. PICK t8 : t8 = [t7 EXCEPT !.checkout = None]
  OBVIOUS
<1>18. Sets(t7, t8) /\ t8 \in State
  BY <1>17, <1>2, <1>16, FieldSets, NoLinesIs DEF Sets, Follows
<1>19. PICK t9 : t9 = [t8 EXCEPT !.placed = None]
  OBVIOUS
<1>20. Sets(t8, t9) /\ t9 \in State
  BY <1>19, <1>2, <1>18, FieldSets, NoLinesIs DEF Sets, Follows
<1>21. SignOut(s) = [t9 EXCEPT !.cancelled = no]
  BY <1>1, <1>2, <1>3, <1>5, <1>7, <1>9, <1>11, <1>13, <1>15, <1>17, <1>19 DEF SignOut
<1> QED BY <1>1, <1>21, <1>4, <1>6, <1>8, <1>10, <1>12, <1>14, <1>16, <1>18, <1>20, UncancelSets, SetsTrans

LEMMA UserFollows ==
  ASSUME NEW s \in State, NEW user \in Shoppers \cup {None}
  PROVE  Sets(s, OtpVerified(s, user)) /\ Sets(s, SessionRestored(s, user))
<1>1. PICK t : t = [s EXCEPT !.user = user]
  OBVIOUS
<1>2. Sets(s, t) /\ t \in State
  BY <1>1, FieldSets DEF Sets, Follows
<1>3. s.next \in Screen
  BY DEF State, GatedScreen, Screen
<1>4. OtpVerified(s, user) = [t EXCEPT !.screen = s.next] /\ SessionRestored(s, user) = t
  BY <1>1 DEF OtpVerified, SessionRestored
<1> QED BY <1>2, <1>3, <1>4, FieldSets, SetsTrans

LEMMA BufferFollows ==
  ASSUME NEW s \in State, NEW lines \in Lines
  PROVE  Sets(s, SetCartBuffer(s, lines))
BY FieldSets DEF SetCartBuffer

LEMMA WithBookFollows ==
  ASSUME NEW s \in State, NEW book \in Book
  PROVE  Sets(s, WithBook(s, book))
<1>1. PICK a : a = ResolveSelection(book, s.selected)
  OBVIOUS
<1>2. a \in AddressIds \cup {None}
  BY <1>1 DEF ResolveSelection, Book, State
<1>3. PICK t : t = [s EXCEPT !.addresses = book]
  OBVIOUS
<1>4. Sets(s, t) /\ t \in State
  BY <1>3, FieldSets DEF Sets, Follows
<1>5. WithBook(s, book) = [t EXCEPT !.selected = a]
  BY <1>1, <1>3 DEF WithBook
<1> QED BY <1>2, <1>4, <1>5, FieldSets, SetsTrans

LEMMA BookLoadedFollows ==
  ASSUME NEW s \in State, NEW book \in Book
  PROVE  /\ Follows(s, AddressesLoaded(s, book)) /\ Follows(s, AddressDeleted(s, book))
         /\ AddressesLoaded(s, book).pending = s.pending \ {"addresses"}
         /\ AddressDeleted(s, book).pending = s.pending \ {"addressDelete"}
<1>1. "addresses" \in PlainKey /\ "addressDelete" \in PlainKey
  BY DEF PlainKey, RequestKey
<1>2. Follows(s, Settled(s, "addresses")) /\ Settled(s, "addresses") \in State
      /\ Settled(s, "addresses").pending = s.pending \ {"addresses"}
  BY <1>1, SettledFollows DEF Follows
<1>3. Follows(s, Settled(s, "addressDelete")) /\ Settled(s, "addressDelete") \in State
      /\ Settled(s, "addressDelete").pending = s.pending \ {"addressDelete"}
  BY <1>1, SettledFollows DEF Follows
<1> QED BY <1>2, <1>3, WithBookFollows, FollowsTrans DEF AddressesLoaded, AddressDeleted, Sets

LEMMA FormFollows ==
  ASSUME NEW s \in State
  PROVE  /\ Sets(s, HideAddressForm(s)) /\ Sets(s, SetAddr(s)) /\ Sets(s, SetAddrFieldError(s))
         /\ \A a \in AddressIds : Sets(s, SelectAddress(s, a))
         /\ \A a \in AddressIds \cup {"new"} : Sets(s, ShowAddressForm(s, a))
<1>1. PICK no \in BOOLEAN : no = FALSE
  OBVIOUS
<1>2. PICK yes \in BOOLEAN : yes = TRUE
  OBVIOUS
<1>3. ASSUME NEW a \in AddressIds \cup {"new", None}
      PROVE  Sets(s, [s EXCEPT !.form = a, !.formError = no])
  <2>1. PICK t : t = [s EXCEPT !.form = a]
    OBVIOUS
  <2>2. Sets(s, t) /\ t \in State
    BY <2>1, FieldSets DEF Sets, Follows
  <2>3. [s EXCEPT !.form = a, !.formError = no] = [t EXCEPT !.formError = no]
    BY <2>1
  <2> QED BY <2>2, <2>3, FieldSets, SetsTrans
<1>4. HideAddressForm(s) = [s EXCEPT !.form = None, !.formError = no]
      /\ SetAddr(s) = [s EXCEPT !.formError = no]
      /\ SetAddrFieldError(s) = [s EXCEPT !.formError = yes]
  BY <1>1, <1>2 DEF HideAddressForm, SetAddr, SetAddrFieldError
<1>6. Sets(s, s)
  BY FollowsSame DEF Sets
<1>7. \A a \in AddressIds : Sets(s, SelectAddress(s, a))
  BY FieldSets DEF SelectAddress
<1>8. ASSUME NEW a \in AddressIds \cup {"new"}
      PROVE  Sets(s, ShowAddressForm(s, a))
  <2>1. a \in AddressIds \cup {"new", None}
    OBVIOUS
  <2>2. Sets(s, [s EXCEPT !.form = a, !.formError = no])
    BY <1>3, <2>1
  <2>3. CASE a = "new" \/ a \in s.addresses.ids
    BY <1>1, <2>2, <2>3 DEF ShowAddressForm
  <2>4. CASE ~ (a = "new" \/ a \in s.addresses.ids)
    BY <1>6, <2>4 DEF ShowAddressForm
  <2> QED BY <2>3, <2>4
<1>9. Sets(s, HideAddressForm(s))
  BY <1>3, <1>4
<1>10. Sets(s, SetAddr(s)) /\ Sets(s, SetAddrFieldError(s))
  BY <1>4, FieldSets
<1> QED BY <1>7, <1>8, <1>9, <1>10

LEMMA SavedFollows ==
  ASSUME NEW s \in State, NEW a \in AddressIds
  PROVE  Follows(s, AddressSaved(s, a))
<1>1. "addressSave" \in PlainKey
  BY DEF PlainKey, RequestKey
<1>2. Follows(s, Settled(s, "addressSave")) /\ Settled(s, "addressSave") \in State
  BY <1>1, SettledFollows DEF Follows
<1>3. PICK t \in State : t = HideAddressForm(Settled(s, "addressSave"))
  BY <1>2, FormFollows DEF Sets, Follows
<1>4. Follows(s, t)
  BY <1>2, <1>3, FormFollows, FollowsTrans DEF Sets
<1>5. Follows(t, [t EXCEPT !.selected = a])
  BY FieldSets DEF Sets
<1> QED BY <1>3, <1>4, <1>5, FollowsTrans DEF AddressSaved
-----------------------------------------------------------------------------
(* Calls.                                                                  *)

LEMMA CallIs ==
  ASSUME NEW f, NEW kind \in Kind, NEW arg \in ArgsOf(kind), NEW body \in BodiesOf(kind, arg) \cup {None},
         f \in CallsOf(kind, arg, body)
  PROVE  /\ f # None
         /\ f = [kind |-> kind, at |-> f.at, tok |-> f.tok, arg |-> arg, of |-> f.of,
                 status |-> f.status, body |-> body]
         /\ f.at \in FlowStep /\ f.tok \in Tokens \cup {NoToken} /\ f.of \in 0..MaxFlows
         /\ f.status \in Statuses \cup {None}
BY NoneIsNothing DEF CallsOf

LEMMA FlowIs ==
  ASSUME NEW c, c.token \in Tokens \cup {NoToken}, NEW kind \in Kind, NEW arg \in ArgsOf(kind),
         NEW of \in 0..MaxFlows
  PROVE  LET f == Flow(c, kind, arg, of)
         IN /\ f.kind = kind /\ f.at = "asked" /\ f.tok = c.token /\ f.arg = arg /\ f.of = of
            /\ f.status = None /\ f.body = None
            /\ f \in CallsOf(kind, arg, None) /\ f # None
<1>1. PICK f : f = Flow(c, kind, arg, of)
  OBVIOUS
<1>2. f = [kind |-> kind, at |-> "asked", tok |-> c.token, arg |-> arg, of |-> of,
           status |-> None, body |-> None]
  BY <1>1 DEF Flow
<1>3. f \in CallsOf(kind, arg, None)
  BY <1>2 DEF CallsOf, FlowStep
<1>4. f # None
  BY <1>3, NoneIsNothing
<1> QED BY <1>1, <1>2, <1>3, <1>4

\* What may be asked of the server.
MayAsk(kind, arg) ==
  /\ kind \in CallKind \ {"boot"} /\ arg \in ArgsOf(kind)
  /\ kind = "cart" => arg.op = "get" \/ arg.product \in Products
  /\ kind = "widgetSession" => (arg.step = "replay" => ~ IsEmpty(arg.left))

LEMMA GoodFlow ==
  ASSUME NEW c, c.token \in Tokens \cup {NoToken}, NEW kind, NEW arg, MayAsk(kind, arg),
         NEW of \in 0..MaxFlows
  PROVE  GoodCall(Flow(c, kind, arg, of)) /\ Flow(c, kind, arg, of) # None
<1>0. kind \in Kind /\ arg \in ArgsOf(kind)
  BY DEF MayAsk, CallKind
<1>1. PICK f : f = Flow(c, kind, arg, of)
  OBVIOUS
<1>2. /\ f.kind = kind /\ f.at = "asked" /\ f.arg = arg /\ f.status = None /\ f.body = None
      /\ f \in CallsOf(kind, arg, None) /\ f # None
  BY <1>0, <1>1, FlowIs
<1>3. f \in CallsOf(f.kind, f.arg, f.body)
  BY <1>2
<1>4. f.kind # "boot" /\ f.at # "joining" /\ f.at # "resting" /\ f.at # "answered"
  BY <1>2 DEF MayAsk, CallKind
<1>5. f.kind = "cart" => f.arg.op = "get" \/ f.arg.product \in Products
  BY <1>2 DEF MayAsk, CallKind
<1>6. f.kind = "widgetSession" =>
       (f.at # "joining" /\ f.arg.step = "replay" => ~ IsEmpty(f.arg.left))
  BY <1>2 DEF MayAsk, CallKind
<1>7. f.kind \in CallKind /\ f.arg \in ArgsOf(f.kind) /\ f.body \in BodiesOf(f.kind, f.arg) \cup {None}
  BY <1>0, <1>2 DEF MayAsk
<1>8. GoodCall(f)
  BY <1>3, <1>4, <1>5, <1>6, <1>7 DEF GoodCall, CallKind
<1> QED BY <1>1, <1>2, <1>8

\* The fields of a call of a command.
LEMMA GoodCallIs ==
  ASSUME NEW f, GoodCall(f)
  PROVE  /\ f # None
         /\ f = [kind |-> f.kind, at |-> f.at, tok |-> f.tok, arg |-> f.arg, of |-> f.of,
                 status |-> f.status, body |-> f.body]
         /\ f.kind \in Kind /\ f.at \in FlowStep /\ f.tok \in Tokens \cup {NoToken}
         /\ f.arg \in ArgsOf(f.kind) /\ f.of \in 0..MaxFlows
         /\ f.status \in Statuses \cup {None} /\ f.body \in BodiesOf(f.kind, f.arg) \cup {None}
<1>1. f.kind \in Kind /\ f.arg \in ArgsOf(f.kind) /\ f.body \in BodiesOf(f.kind, f.arg) \cup {None}
      /\ f \in CallsOf(f.kind, f.arg, f.body)
  BY DEF GoodCall, CallKind
<1>2. PICK kind, arg, body : kind = f.kind /\ arg = f.arg /\ body = f.body
  OBVIOUS
<1>3. /\ f # None
      /\ f = [kind |-> kind, at |-> f.at, tok |-> f.tok, arg |-> arg, of |-> f.of,
              status |-> f.status, body |-> body]
      /\ f.at \in FlowStep /\ f.tok \in Tokens \cup {NoToken} /\ f.of \in 0..MaxFlows
      /\ f.status \in Statuses \cup {None}
  BY <1>1, <1>2, CallIs
<1> QED BY <1>1, <1>2, <1>3

\* A call that waits for the calls it started.
Joining(f) ==
  [kind |-> f.kind, at |-> "joining", tok |-> f.tok, arg |-> f.arg, of |-> f.of,
   status |-> None, body |-> None]

LEMMA GoodJoining ==
  ASSUME NEW f, f \in CallsOf(f.kind, f.arg, f.body), f.kind \in Joiners, f.arg \in ArgsOf(f.kind),
         f.kind = "widgetSession" => f.arg.step = "replay"
  PROVE  /\ GoodCall(Joining(f)) /\ Joining(f) # None /\ Joining(f).kind = f.kind
         /\ Joining(f).at = "joining" /\ Joining(f).arg = f.arg /\ Joining(f).status = None
<1>1. PICK g : g = Joining(f)
  OBVIOUS
<1>2. /\ g = [kind |-> f.kind, at |-> "joining", tok |-> f.tok, arg |-> f.arg, of |-> f.of,
              status |-> None, body |-> None]
      /\ g.kind = f.kind /\ g.at = "joining" /\ g.arg = f.arg /\ g.status = None /\ g.body = None
  BY <1>1 DEF Joining
<1>3. f.tok \in Tokens \cup {NoToken} /\ f.of \in 0..MaxFlows
  BY DEF CallsOf
<1>4. g \in CallsOf(f.kind, f.arg, None)
  BY <1>2, <1>3 DEF CallsOf, FlowStep
<1>5. f.kind \in Kind /\ f.kind \in CallKind /\ f.kind # "cart"
  BY DEF Joiners, Kind, RequestKey, CallKind
<1>6. g # None
  BY <1>4, <1>5, NoneIsNothing
<1>7. g \in CallsOf(g.kind, g.arg, g.body) /\ g.kind \in Kind /\ g.arg \in ArgsOf(g.kind)
      /\ g.body \in BodiesOf(g.kind, g.arg) \cup {None}
  BY <1>2, <1>4, <1>5
<1>8. g.at # "resting" /\ g.at # "answered"
  BY <1>2
<1>9. GoodCall(g)
  BY <1>2, <1>5, <1>7, <1>8 DEF GoodCall, CallKind
<1> QED BY <1>1, <1>2, <1>6, <1>9

-----------------------------------------------------------------------------
(* What the operators on a tab return.                                     *)

\* d is c with other values of what is not about calls or the sheet.
Frames(c, d) ==
  Shape(d) /\ d.flows = c.flows /\ d.shown = c.shown /\ d.widget = c.widget /\ d.sheet = c.sheet

\* d is c with f in the slot s.
Places(c, d, s, f) ==
  /\ Shape(d) /\ d.shown = c.shown /\ d.widget = c.widget /\ d.sheet = c.sheet
  /\ \A j \in FlowIds : d.flows[j] = IF j = s THEN f ELSE c.flows[j]

LEMMA StIs ==
  ASSUME NEW c, Shape(c), NEW s
  PROVE  LET d == [c EXCEPT !.st = s]
         IN /\ Frames(c, d) /\ d.st = s /\ d.inflight = c.inflight /\ d.token = c.token
            /\ d.stored = c.stored
BY DEF Shape, Frames

LEMMA SlotIs ==
  ASSUME NEW c, Shape(c), NEW s, NEW f
  PROVE  LET d == [c EXCEPT !.flows[s] = f]
         IN /\ Places(c, d, s, f) /\ d.st = c.st /\ d.inflight = c.inflight /\ d.token = c.token
            /\ d.stored = c.stored
<1>1. PICK flows : flows = [c.flows EXCEPT ![s] = f]
  OBVIOUS
<1>2. c.flows = [i \in FlowIds |-> c.flows[i]]
  BY DEF Shape
<1>3. flows = [j \in FlowIds |-> IF j = s THEN f ELSE c.flows[j]]
  BY <1>1, <1>2
<1>4. PICK d : d = [c EXCEPT !.flows[s] = f]
  OBVIOUS
<1>5. d = [st |-> c.st, shown |-> c.shown, inflight |-> c.inflight, token |-> c.token,
           stored |-> c.stored, flows |-> flows, widget |-> c.widget, sheet |-> c.sheet]
  BY <1>1, <1>4 DEF Shape
<1>6. flows = [j \in FlowIds |-> flows[j]] /\ \A j \in FlowIds : flows[j] = IF j = s THEN f ELSE c.flows[j]
  BY <1>3
<1>7. Shape(d) /\ d.flows = flows /\ d.st = c.st /\ d.inflight = c.inflight /\ d.token = c.token
      /\ d.stored = c.stored /\ d.shown = c.shown /\ d.widget = c.widget /\ d.sheet = c.sheet
  BY <1>5, <1>6 DEF Shape
<1> QED BY <1>4, <1>6, <1>7 DEF Places

\* Whoever asks with room left afterwards had room before.
LEMMA AskIs ==
  ASSUME NEW c, Shape(c), c.token \in Tokens \cup {NoToken}, NEW kind \in Kind,
         NEW arg \in ArgsOf(kind), NEW of \in 0..MaxFlows, HasRoom(Ask(c, kind, arg, of))
  PROVE  LET d == Ask(c, kind, arg, of)
         IN /\ HasRoom(c) /\ FreeSlot(c) \in FlowIds /\ c.flows[FreeSlot(c)] = None
            /\ Places(c, d, FreeSlot(c), Flow(c, kind, arg, of))
            /\ d.st = c.st /\ d.inflight = c.inflight /\ d.token = c.token /\ d.stored = c.stored
<1>1. PICK f : f = Flow(c, kind, arg, of)
  OBVIOUS
<1>2. f # None
  BY <1>1, FlowIs
<1>3. PICK s : s = FreeSlot(c)
  OBVIOUS
<1>4. Ask(c, kind, arg, of) = [c EXCEPT !.flows[s] = f]
  BY <1>1, <1>3 DEF Ask
<1>5. PICK d : d = Ask(c, kind, arg, of)
  OBVIOUS
<1>6. Places(c, d, s, f) /\ d.st = c.st /\ d.inflight = c.inflight /\ d.token = c.token
      /\ d.stored = c.stored
  BY <1>4, <1>5, SlotIs
<1>7. PICK i \in FlowIds : d.flows[i] = None
  BY <1>5 DEF HasRoom
<1>8. c.flows[i] = None
  BY <1>2, <1>6, <1>7 DEF Places
<1>9. s \in FlowIds /\ c.flows[s] = None
  BY <1>3, <1>8 DEF FreeSlot
<1> QED BY <1>1, <1>3, <1>5, <1>6, <1>8, <1>9 DEF HasRoom

LEMMA EndIs ==
  ASSUME NEW c, Shape(c), NEW i \in FlowIds, NEW key
  PROVE  LET d == Finally(c, i, key)
         IN /\ Places(c, End(c, i), i, None) /\ End(c, i).st = c.st /\ End(c, i).inflight = c.inflight
            /\ End(c, i).token = c.token /\ End(c, i).stored = c.stored
            /\ Places(c, d, i, None) /\ d.st = c.st /\ d.inflight = c.inflight \ {key}
            /\ d.token = c.token /\ d.stored = c.stored
<1>1. PICK e : e = End(c, i)
  OBVIOUS
<1>2. /\ Places(c, e, i, None) /\ e.st = c.st /\ e.inflight = c.inflight /\ e.token = c.token
      /\ e.stored = c.stored
  BY <1>1, SlotIs DEF End
<1>3. PICK d : d = Finally(c, i, key)
  OBVIOUS
<1>4. d = [e EXCEPT !.inflight = e.inflight \ {key}]
  BY <1>1, <1>3 DEF Finally
<1>5. Shape(e)
  BY <1>2 DEF Places
<1>6. Shape(d) /\ d.flows = e.flows /\ d.st = e.st /\ d.inflight = e.inflight \ {key}
      /\ d.token = e.token /\ d.stored = e.stored /\ d.shown = e.shown /\ d.widget = e.widget
      /\ d.sheet = e.sheet
  BY <1>4, <1>5 DEF Shape
<1>7. Places(c, d, i, None)
  BY <1>2, <1>6 DEF Places
<1> QED BY <1>1, <1>2, <1>3, <1>6, <1>7

LEMMA JoinIs ==
  ASSUME NEW c, Shape(c), NEW i \in FlowIds, NEW f, f = c.flows[i],
         f = [kind |-> f.kind, at |-> f.at, tok |-> f.tok, arg |-> f.arg, of |-> f.of,
              status |-> f.status, body |-> f.body]
  PROVE  LET d == Join(c, i)
         IN /\ Places(c, d, i, Joining(f)) /\ d.st = c.st /\ d.inflight = c.inflight
            /\ d.token = c.token /\ d.stored = c.stored
<1>1. PICK d : d = Join(c, i)
  OBVIOUS
<1>2. PICK g1 : g1 = [f EXCEPT !.at = "joining"]
  OBVIOUS
<1>3. PICK g2 : g2 = [g1 EXCEPT !.status = None]
  OBVIOUS
<1>4. PICK g3 : g3 = [g2 EXCEPT !.body = None]
  OBVIOUS
<1>5. g3 = Joining(f)
  BY <1>2, <1>3, <1>4 DEF Joining
<1>6. PICK d1 : d1 = [c EXCEPT !.flows[i] = g1]
  OBVIOUS
<1>7. /\ Places(c, d1, i, g1) /\ d1.st = c.st /\ d1.inflight = c.inflight
      /\ d1.token = c.token /\ d1.stored = c.stored
  BY <1>6, SlotIs
<1>8. Shape(d1) /\ d1.flows[i] = g1
  BY <1>7 DEF Places
<1>9. PICK d2 : d2 = [d1 EXCEPT !.flows[i] = g2]
  OBVIOUS
<1>10. /\ Places(d1, d2, i, g2) /\ d2.st = d1.st /\ d2.inflight = d1.inflight
       /\ d2.token = d1.token /\ d2.stored = d1.stored
  BY <1>8, <1>9, SlotIs
<1>11. Shape(d2) /\ d2.flows[i] = g2
  BY <1>10 DEF Places
<1>12. PICK d3 : d3 = [d2 EXCEPT !.flows[i] = g3]
  OBVIOUS
<1>13. /\ Places(d2, d3, i, g3) /\ d3.st = d2.st /\ d3.inflight = d2.inflight
       /\ d3.token = d2.token /\ d3.stored = d2.stored
  BY <1>11, <1>12, SlotIs
<1>14. Places(c, d3, i, g3)
  BY <1>7, <1>10, <1>13 DEF Places
<1>15. d1 = [c EXCEPT !.flows[i].at = "joining"]
  BY <1>2, <1>6
<1>16. d2 = [d1 EXCEPT !.flows[i].status = None]
  BY <1>3, <1>8, <1>9
<1>17. d3 = [d2 EXCEPT !.flows[i].body = None]
  BY <1>4, <1>11, <1>12
<1>18. d = d3
  BY <1>1, <1>15, <1>16, <1>17 DEF Join
<1> QED BY <1>1, <1>5, <1>7, <1>10, <1>13, <1>14, <1>18

LEMMA AskAgainIs ==
  ASSUME NEW c, Shape(c), NEW i \in FlowIds, NEW arg
  PROVE  LET d == AskAgain(c, i, arg)
         IN /\ Places(c, d, i, Flow(c, c.flows[i].kind, arg, c.flows[i].of)) /\ d.st = c.st
            /\ d.inflight = c.inflight /\ d.token = c.token /\ d.stored = c.stored
<1>1. PICK f : f = Flow(c, c.flows[i].kind, arg, c.flows[i].of)
  OBVIOUS
<1>2. AskAgain(c, i, arg) = [c EXCEPT !.flows[i] = f]
  BY <1>1 DEF AskAgain, Shape
<1> QED BY <1>1, <1>2, SlotIs

-----------------------------------------------------------------------------
(* What keeps a tab sound.                                                 *)

Typed(d) ==
  /\ d.st \in State /\ d.inflight \in SUBSET RequestKey /\ d.token \in Tokens \cup {NoToken}
  /\ d.stored \in Lines

\* A step of the tab that no new payment, page or cancellation comes of.
Calm(c, d) ==
  /\ d.shown = c.shown /\ d.st.pdp = c.st.pdp
  /\ Paying(d) => Paying(c)
  /\ d.st.cancelled => c.st.cancelled

LEMMA CalmTrans ==
  ASSUME NEW c, NEW d, NEW e, Calm(c, d), Calm(d, e)
  PROVE  Calm(c, e)
BY DEF Calm

LEMMA CalmRests ==
  ASSUME NEW c, NEW d, Calm(c, d), Rested(c)
  PROVE  Rested(d)
BY DEF Calm, Rested

LEMMA SoundTyped ==
  ASSUME NEW c, Sound(c)
  PROVE  /\ Shape(c) /\ Typed(c) /\ c.st \in State /\ c.shown \in State /\ GoodTab(c)
         /\ c.widget \in Widgets \cup {None} /\ c.sheet \in Sheets \cup {None}
         /\ \A i \in FlowIds : c.flows[i] # None => GoodCall(c.flows[i])
BY DEF Sound, GoodTab, Typed

LEMMA SoundFrame ==
  ASSUME NEW c, Sound(c), NEW d, Frames(c, d), Typed(d), Follows(c.st, d.st)
  PROVE  Sound(d) /\ Calm(c, d)
<1>1. GoodTab(d)
  BY DEF Sound, GoodTab, Frames, Typed
<1>2. /\ \A i \in FlowIds : Opens(d, i) <=> Opens(c, i)
      /\ \A i \in FlowIds : Tells(d, i) <=> Tells(c, i)
      /\ SheetWaits(d) <=> SheetWaits(c)
      /\ \A key : Has(d, key) <=> Has(c, key)
  BY DEF Frames, Opens, Tells, SheetWaits, Has
<1>3. FlagsInv(d)
  BY <1>2 DEF Sound, FlagsInv, Follows
<1>4. PayInv(d)
  BY <1>2 DEF Sound, PayInv, Follows
<1>5. PageInv(d)
  BY DEF Sound, PageInv, Follows, Frames
<1>6. Calm(c, d)
  BY <1>2 DEF Calm, Frames, Follows, Paying
<1> QED BY <1>1, <1>3, <1>4, <1>5, <1>6 DEF Sound

LEMMA GoodPlaces ==
  ASSUME NEW c, GoodTab(c), NEW d, NEW s \in FlowIds, NEW f, Places(c, d, s, f), Typed(d),
         f # None => GoodCall(f)
  PROVE  GoodTab(d)
BY DEF GoodTab, Places, Typed

\* A call that ends, with its flag down.
LEMMA SoundEnd ==
  ASSUME NEW c, Sound(c), NEW d, NEW i \in FlowIds, Places(c, d, i, None), Typed(d),
         Follows(c.st, d.st), ~ Opens(c, i), ~ Tells(c, i),
         c.flows[i] # None =>
           c.flows[i].kind \notin d.st.pending \/ c.flows[i].kind \in {"widgetSession", "addressSave"}
  PROVE  Sound(d) /\ Calm(c, d)
<1>1. GoodTab(d)
  <2>1. GoodTab(c)
    BY DEF Sound
  <2> QED BY <2>1, GoodPlaces
<1>2. d.flows[i] = None /\ \A j \in FlowIds : j # i => d.flows[j] = c.flows[j]
  BY DEF Places
<1>3. /\ \A j \in FlowIds : Opens(d, j) <=> Opens(c, j)
      /\ \A j \in FlowIds : Tells(d, j) <=> Tells(c, j)
      /\ SheetWaits(d) <=> SheetWaits(c)
  BY <1>2 DEF Places, Opens, Tells, SheetWaits
<1>4. FlagsInv(d)
  <2>1. SUFFICES ASSUME NEW key \in d.st.pending \ {"widgetSession", "addressSave"}
                 PROVE  IF key = "payment" THEN SheetWaits(d) \/ \E j \in FlowIds : Tells(d, j)
                        ELSE Has(d, key)
    BY DEF FlagsInv
  <2>2. key \in c.st.pending \ {"widgetSession", "addressSave"}
    BY DEF Follows
  <2>3. IF key = "payment" THEN SheetWaits(c) \/ \E j \in FlowIds : Tells(c, j)
        ELSE Has(c, key)
    BY <2>2 DEF Sound, FlagsInv
  <2>4. CASE key = "payment"
    BY <1>3, <2>3, <2>4
  <2>5. CASE key # "payment"
    <3>1. PICK j \in FlowIds : c.flows[j] # None /\ c.flows[j].kind = key
      BY <2>3, <2>5 DEF Has
    <3>2. j # i
      BY <2>1, <3>1
    <3> QED BY <1>2, <2>5, <3>1, <3>2 DEF Has
  <2> QED BY <2>4, <2>5
<1>5. PayInv(d)
  BY <1>3 DEF Sound, PayInv, Follows
<1>6. PageInv(d)
  BY <1>2 DEF Sound, PageInv, Follows, Places
<1>7. Calm(c, d)
  BY <1>3 DEF Calm, Places, Follows, Paying
<1> QED BY <1>1, <1>4, <1>5, <1>6, <1>7 DEF Sound

\* A call that goes on: of the same kind, and telling as before.
LEMMA SoundTurn ==
  ASSUME NEW c, Sound(c), NEW d, NEW i \in FlowIds, NEW f, Places(c, d, i, f), Typed(d),
         Follows(c.st, d.st), c.flows[i] # None, f # None, GoodCall(f), f.kind = c.flows[i].kind,
         f.kind = "product" => f.arg = c.flows[i].arg,
         f.kind = "confirm" => (f.at = "joining" <=> c.flows[i].at = "joining")
  PROVE  Sound(d) /\ Calm(c, d)
<1>1. GoodTab(d)
  <2>1. GoodTab(c)
    BY DEF Sound
  <2> QED BY <2>1, GoodPlaces
<1>2. d.flows[i] = f /\ \A j \in FlowIds : j # i => d.flows[j] = c.flows[j]
  BY DEF Places
<1>3. /\ \A j \in FlowIds : Opens(d, j) <=> Opens(c, j)
      /\ \A j \in FlowIds : Tells(d, j) <=> Tells(c, j)
      /\ SheetWaits(d) <=> SheetWaits(c)
      /\ \A key : Has(d, key) <=> Has(c, key)
  <2>1. \A j \in FlowIds : (d.flows[j] # None <=> c.flows[j] # None)
                           /\ (c.flows[j] # None => d.flows[j].kind = c.flows[j].kind)
    BY <1>2
  <2>2. \A j \in FlowIds : Opens(d, j) <=> Opens(c, j)
    BY <2>1 DEF Opens
  <2>3. \A j \in FlowIds : Tells(d, j) <=> Tells(c, j)
    BY <1>2 DEF Tells
  <2>4. \A key : Has(d, key) <=> Has(c, key)
    BY <2>1 DEF Has
  <2>5. SheetWaits(d) <=> SheetWaits(c)
    BY DEF Places, SheetWaits
  <2> QED BY <2>2, <2>3, <2>4, <2>5
<1>4. FlagsInv(d)
  BY <1>3 DEF Sound, FlagsInv, Follows
<1>5. PayInv(d)
  BY <1>3 DEF Sound, PayInv, Follows
<1>6. PageInv(d)
  <2>1. d.st.detail \in {None, d.st.pdp} /\ (d.st.pdp = None => d.shown.pdp = None)
    BY DEF Sound, PageInv, Follows, Places
  <2>2. \A j \in FlowIds : d.flows[j] # None /\ d.flows[j].kind = "product" => d.flows[j].arg = c.shown.pdp
    BY <1>2 DEF Sound, PageInv
  <2> QED BY <2>1, <2>2 DEF PageInv, Places
<1>7. Calm(c, d)
  BY <1>3 DEF Calm, Places, Follows, Paying
<1> QED BY <1>1, <1>4, <1>5, <1>6, <1>7 DEF Sound

\* A call that starts in a free slot, with or without its flag.
LEMMA SoundStart ==
  ASSUME NEW c, Sound(c), NEW d, NEW i \in FlowIds, NEW f, Places(c, d, i, f), Typed(d),
         c.flows[i] = None, f # None, GoodCall(f), f.kind \notin {"checkout", "confirm"},
         f.kind = "product" => f.arg = c.shown.pdp,
         d.st.pdp = c.st.pdp, d.st.detail = c.st.detail, d.st.cancelled => c.st.cancelled,
         d.st.pending \subseteq c.st.pending \cup {f.kind}, c.st.pending \subseteq d.st.pending,
         f.kind # "payment"
  PROVE  Sound(d) /\ Calm(c, d)
<1>1. GoodTab(d)
  <2>1. GoodTab(c)
    BY DEF Sound
  <2> QED BY <2>1, GoodPlaces
<1>2. d.flows[i] = f /\ \A j \in FlowIds : j # i => d.flows[j] = c.flows[j]
  BY DEF Places
<1>3. /\ \A j \in FlowIds : Opens(d, j) <=> Opens(c, j)
      /\ \A j \in FlowIds : Tells(d, j) <=> Tells(c, j)
      /\ SheetWaits(d) <=> SheetWaits(c)
      /\ \A key : Has(c, key) => Has(d, key)
  <2>1. \A j \in FlowIds : Opens(d, j) <=> Opens(c, j)
    BY <1>2 DEF Opens
  <2>2. \A j \in FlowIds : Tells(d, j) <=> Tells(c, j)
    BY <1>2 DEF Tells
  <2>3. \A key : Has(c, key) => Has(d, key)
    BY <1>2 DEF Has
  <2>4. SheetWaits(d) <=> SheetWaits(c)
    BY DEF Places, SheetWaits
  <2> QED BY <2>1, <2>2, <2>3, <2>4
<1>4. Has(d, f.kind)
  BY <1>2 DEF Has
<1>5. FlagsInv(d)
  <2>1. SUFFICES ASSUME NEW key \in d.st.pending \ {"widgetSession", "addressSave"}
                 PROVE  IF key = "payment" THEN SheetWaits(d) \/ \E j \in FlowIds : Tells(d, j)
                        ELSE Has(d, key)
    BY DEF FlagsInv
  <2>2. CASE key = f.kind
    BY <1>4, <2>2
  <2>3. CASE key # f.kind
    <3>1. key \in c.st.pending \ {"widgetSession", "addressSave"}
      BY <2>1, <2>3
    <3>2. IF key = "payment" THEN SheetWaits(c) \/ \E j \in FlowIds : Tells(c, j)
          ELSE Has(c, key)
      BY <3>1 DEF Sound, FlagsInv
    <3> QED BY <1>3, <3>2
  <2> QED BY <2>2, <2>3
<1>6. PayInv(d)
  BY <1>3 DEF Sound, PayInv
<1>7. PageInv(d)
  <2>1. d.st.detail \in {None, d.st.pdp} /\ (d.st.pdp = None => d.shown.pdp = None)
    BY DEF Sound, PageInv, Places
  <2>2. \A j \in FlowIds : d.flows[j] # None /\ d.flows[j].kind = "product" => d.flows[j].arg = c.shown.pdp
    BY <1>2 DEF Sound, PageInv
  <2> QED BY <2>1, <2>2 DEF PageInv, Places
<1>8. Calm(c, d)
  BY <1>3 DEF Calm, Places, Paying
<1> QED BY <1>1, <1>5, <1>6, <1>7, <1>8 DEF Sound

-----------------------------------------------------------------------------
(* The guard, and what leaves it.                                          *)

LEMMA ReqStartIs ==
  ASSUME NEW s \in State, NEW key \in RequestKey
  PROVE  /\ ReqStart(s, key) \in State /\ ReqStart(s, key).pending = s.pending \cup {key}
         /\ ReqStart(s, key).pdp = s.pdp /\ ReqStart(s, key).detail = s.detail
         /\ ReqStart(s, key).cancelled = s.cancelled
<1>1. PICK keys \in SUBSET RequestKey : keys = s.pending \cup {key}
  BY DEF State
<1>2. ReqStart(s, key) = [s EXCEPT !.pending = keys]
  BY <1>1 DEF ReqStart
<1> QED BY <1>1, <1>2 DEF State

\* A tab whose call is about to be asked.
LEMMA EnterIs ==
  ASSUME NEW c, Shape(c), NEW key
  PROVE  LET d == [c EXCEPT !.inflight = @ \cup {key}, !.st = ReqStart(@, key)]
         IN /\ Frames(c, d) /\ d.st = ReqStart(c.st, key) /\ d.inflight = c.inflight \cup {key}
            /\ d.token = c.token /\ d.stored = c.stored
<1>1. PICK keys, s : keys = c.inflight \cup {key} /\ s = ReqStart(c.st, key)
  OBVIOUS
<1>2. PICK d : d = [c EXCEPT !.inflight = keys, !.st = s]
  OBVIOUS
<1>3. d = [st |-> s, shown |-> c.shown, inflight |-> keys, token |-> c.token,
           stored |-> c.stored, flows |-> c.flows, widget |-> c.widget, sheet |-> c.sheet]
  BY <1>2 DEF Shape
<1>4. /\ Frames(c, d) /\ d.st = s /\ d.inflight = keys
      /\ d.token = c.token /\ d.stored = c.stored
  BY <1>3 DEF Shape, Frames
<1> QED BY <1>1, <1>2, <1>4

LEMMA GuardedIs ==
  ASSUME NEW c, Shape(c), Typed(c), NEW key \in RequestKey, NEW arg, MayAsk(key, arg),
         NEW of \in 0..MaxFlows, HasRoom(Guarded(c, key, arg, of)), key \notin c.inflight
  PROVE  LET d == Guarded(c, key, arg, of)
         IN \E i, f :
              /\ i \in FlowIds /\ c.flows[i] = None /\ Places(c, d, i, f) /\ f # None /\ GoodCall(f)
              /\ f.kind = key /\ f.at = "asked" /\ f.arg = arg /\ f.tok = c.token
              /\ Typed(d) /\ d.st = ReqStart(c.st, key) /\ d.token = c.token
              /\ d.inflight = c.inflight \cup {key} /\ d.stored = c.stored
<1>1. PICK e : e = [c EXCEPT !.inflight = @ \cup {key}, !.st = ReqStart(@, key)]
  OBVIOUS
<1>2. /\ Frames(c, e) /\ e.st = ReqStart(c.st, key) /\ e.inflight = c.inflight \cup {key}
      /\ e.token = c.token /\ e.stored = c.stored
  BY <1>1, EnterIs
<1>3. PICK d : d = Guarded(c, key, arg, of)
  OBVIOUS
<1>4. d = Ask(e, key, arg, of)
  BY <1>1, <1>3 DEF Guarded
<1>5. Shape(e) /\ e.token \in Tokens \cup {NoToken}
  BY <1>2 DEF Frames, Typed
<1>6. key \in Kind /\ arg \in ArgsOf(key)
  BY DEF MayAsk, CallKind
<1>7. HasRoom(Ask(e, key, arg, of))
  BY <1>3, <1>4
<1>8. PICK i, f : i = FreeSlot(e) /\ f = Flow(e, key, arg, of)
  OBVIOUS
<1>9. /\ i \in FlowIds /\ e.flows[i] = None /\ Places(e, d, i, f)
      /\ d.st = e.st /\ d.inflight = e.inflight /\ d.token = e.token /\ d.stored = e.stored
  BY <1>4, <1>5, <1>6, <1>7, <1>8, AskIs
<1>10. GoodCall(f) /\ f # None
  BY <1>5, <1>8, GoodFlow
<1>11. f.kind = key /\ f.at = "asked" /\ f.arg = arg /\ f.tok = c.token
  BY <1>2, <1>5, <1>6, <1>8, FlowIs
<1>12. Places(c, d, i, f) /\ c.flows[i] = None
  BY <1>2, <1>9 DEF Places, Frames
<1>13. ReqStart(c.st, key) \in State
  BY ReqStartIs DEF Typed
<1>14. Typed(d) /\ d.st = ReqStart(c.st, key)
  BY <1>2, <1>9, <1>13 DEF Typed
<1> QED BY <1>2, <1>3, <1>9, <1>10, <1>11, <1>12, <1>14

LEMMA GuardedKeeps ==
  ASSUME NEW c, Sound(c), NEW key \in PlainKey, key # "product", NEW arg, MayAsk(key, arg),
         NEW of \in 0..MaxFlows, HasRoom(Guarded(c, key, arg, of))
  PROVE  LET d == Guarded(c, key, arg, of)
         IN HasRoom(c) /\ Sound(d) /\ Calm(c, d)
<1>1. PICK d : d = Guarded(c, key, arg, of)
  OBVIOUS
<1>2. CASE key \in c.inflight
  <2>1. d = c
    BY <1>1, <1>2 DEF Guarded
  <2> QED BY <1>1, <2>1 DEF Calm
<1>3. CASE key \notin c.inflight
  <2>1. Shape(c) /\ Typed(c) /\ c.st \in State
    BY SoundTyped
  <2>2. key \in RequestKey
    BY DEF PlainKey
  <2>3. PICK i, f :
          /\ i \in FlowIds /\ c.flows[i] = None /\ Places(c, d, i, f) /\ f # None /\ GoodCall(f)
          /\ f.kind = key /\ f.at = "asked" /\ f.arg = arg
          /\ Typed(d) /\ d.st = ReqStart(c.st, key)
    BY <1>1, <1>3, <2>1, <2>2, GuardedIs
  <2>4. /\ d.st.pdp = c.st.pdp /\ d.st.detail = c.st.detail
        /\ d.st.cancelled = c.st.cancelled /\ d.st.pending = c.st.pending \cup {key}
    BY <2>1, <2>2, <2>3, ReqStartIs
  <2>5. f.kind \notin {"checkout", "confirm"} /\ f.kind # "payment" /\ f.kind # "product"
    BY <2>3 DEF PlainKey, RequestKey
  <2>6. d.st.pending \subseteq c.st.pending \cup {f.kind} /\ c.st.pending \subseteq d.st.pending
    BY <2>3, <2>4
  <2>7. f.kind = "product" => f.arg = c.shown.pdp
    BY <2>5
  <2>8. d.st.cancelled => c.st.cancelled
    BY <2>4
  <2>9. Sound(d) /\ Calm(c, d)
    BY <2>3, <2>4, <2>5, <2>6, <2>7, <2>8, SoundStart
  <2> QED BY <1>1, <2>3, <2>9 DEF HasRoom
<1> QED BY <1>2, <1>3

LEMMA LoadsKeep ==
  ASSUME NEW c, Sound(c), NEW of \in 0..MaxFlows
  PROVE  /\ HasRoom(LoadTrust(c, of)) =>
              HasRoom(c) /\ Sound(LoadTrust(c, of)) /\ Calm(c, LoadTrust(c, of))
         /\ HasRoom(LoadProducts(c, of)) =>
              HasRoom(c) /\ Sound(LoadProducts(c, of)) /\ Calm(c, LoadProducts(c, of))
         /\ HasRoom(LoadAddresses(c, of)) =>
              HasRoom(c) /\ Sound(LoadAddresses(c, of)) /\ Calm(c, LoadAddresses(c, of))
         /\ HasRoom(LoadOrders(c)) => HasRoom(c) /\ Sound(LoadOrders(c)) /\ Calm(c, LoadOrders(c))
         /\ HasRoom(LoadCart(c, of)) =>
              HasRoom(c) /\ Sound(LoadCart(c, of)) /\ Calm(c, LoadCart(c, of))
<1>1. /\ "trust" \in PlainKey /\ "products" \in PlainKey /\ "addresses" \in PlainKey
      /\ "orders" \in PlainKey /\ "cart" \in PlainKey
  BY DEF PlainKey, RequestKey
<1>2. /\ MayAsk("trust", None) /\ MayAsk("products", None) /\ MayAsk("addresses", None)
      /\ MayAsk("orders", None)
  BY DEF MayAsk, ArgsOf, Kind, RequestKey, CallKind
<1>3. PICK call : call = Call("get", None, 0, None)
  OBVIOUS
<1>4. MayAsk("cart", call)
  <2>1. call \in CartCalls /\ call.op = "get"
    BY <1>3, ShopAssumption DEF Call, CartCalls
  <2> QED BY <2>1 DEF MayAsk, ArgsOf, Kind, RequestKey, CallKind
<1>5. 0 \in 0..MaxFlows
  BY FlowsAssumption
<1>6. LoadCart(c, of) = Guarded(c, "cart", call, of)
  BY <1>3 DEF LoadCart, CartMutation
<1>7. HasRoom(LoadCart(c, of)) =>
        HasRoom(c) /\ Sound(LoadCart(c, of)) /\ Calm(c, LoadCart(c, of))
  BY <1>1, <1>4, <1>6, GuardedKeeps
<1>8. HasRoom(LoadTrust(c, of)) =>
        HasRoom(c) /\ Sound(LoadTrust(c, of)) /\ Calm(c, LoadTrust(c, of))
  BY <1>1, <1>2, GuardedKeeps DEF LoadTrust
<1>9. HasRoom(LoadProducts(c, of)) =>
        HasRoom(c) /\ Sound(LoadProducts(c, of)) /\ Calm(c, LoadProducts(c, of))
  BY <1>1, <1>2, GuardedKeeps DEF LoadProducts
<1>10. HasRoom(LoadAddresses(c, of)) =>
        HasRoom(c) /\ Sound(LoadAddresses(c, of)) /\ Calm(c, LoadAddresses(c, of))
  BY <1>1, <1>2, GuardedKeeps DEF LoadAddresses
<1>11. HasRoom(LoadOrders(c)) => HasRoom(c) /\ Sound(LoadOrders(c)) /\ Calm(c, LoadOrders(c))
  BY <1>1, <1>2, <1>5, GuardedKeeps DEF LoadOrders
<1> QED BY <1>7, <1>8, <1>9, <1>10, <1>11

LEMMA SettleKeeps ==
  ASSUME NEW c, Sound(c), NEW i \in FlowIds, NEW key \in PlainKey, NEW loaded,
         c.flows[i] # None, c.flows[i].kind = key,
         c.flows[i].status = "ok" =>
           Follows(c.st, loaded)
             /\ (key \notin loaded.pending \/ key \in {"widgetSession", "addressSave"})
  PROVE  Sound(Settle(c, i, key, loaded)) /\ Calm(c, Settle(c, i, key, loaded))
<1>1. PICK s : s = IF c.flows[i].status = "ok" THEN loaded ELSE ReqFail(c.st, key)
  OBVIOUS
<1>2. Shape(c) /\ Typed(c) /\ c.st \in State
  BY SoundTyped
<1>3. Follows(c.st, s) /\ (key \notin s.pending \/ key \in {"widgetSession", "addressSave"})
  BY <1>1, <1>2, ReqFailFollows
<1>4. PICK e : e = [c EXCEPT !.st = s]
  OBVIOUS
<1>5. /\ Frames(c, e) /\ e.st = s /\ e.inflight = c.inflight /\ e.token = c.token
      /\ e.stored = c.stored
  BY <1>2, <1>4, StIs
<1>6. PICK d : d = Settle(c, i, key, loaded)
  OBVIOUS
<1>7. d = Finally(e, i, key)
  BY <1>1, <1>4, <1>6 DEF Settle
<1>8. Shape(e)
  BY <1>5 DEF Frames
<1>9. /\ Places(e, d, i, None) /\ d.st = e.st /\ d.inflight = e.inflight \ {key}
      /\ d.token = e.token /\ d.stored = e.stored
  BY <1>7, <1>8, EndIs
<1>10. Places(c, d, i, None)
  BY <1>5, <1>9 DEF Places, Frames
<1>11. Typed(d)
  BY <1>2, <1>3, <1>5, <1>9 DEF Typed, Follows
<1>12. Follows(c.st, d.st)
  BY <1>3, <1>5, <1>9
<1>13. ~ Opens(c, i) /\ ~ Tells(c, i)
  BY DEF Opens, Tells, PlainKey, RequestKey
<1>14. c.flows[i] # None =>
         c.flows[i].kind \notin d.st.pending \/ c.flows[i].kind \in {"widgetSession", "addressSave"}
  BY <1>3, <1>5, <1>9
<1> QED BY <1>6, <1>10, <1>11, <1>12, <1>13, <1>14, SoundEnd

\* The call of i ends and leaves its flag as it is.
LEMMA FinallyKeeps ==
  ASSUME NEW c, Sound(c), NEW i \in FlowIds, NEW key \in {"widgetSession", "addressSave"},
         c.flows[i] # None, c.flows[i].kind = key
  PROVE  Sound(Finally(c, i, key)) /\ Calm(c, Finally(c, i, key))
<1>1. PICK d : d = Finally(c, i, key)
  OBVIOUS
<1>2. Shape(c) /\ Typed(c) /\ c.st \in State
  BY SoundTyped
<1>3. /\ Places(c, d, i, None) /\ d.st = c.st /\ d.inflight = c.inflight \ {key}
      /\ d.token = c.token /\ d.stored = c.stored
  BY <1>1, <1>2, EndIs
<1>4. Typed(d) /\ Follows(c.st, d.st)
  BY <1>2, <1>3, FollowsSame DEF Typed
<1>5. ~ Opens(c, i) /\ ~ Tells(c, i)
  BY DEF Opens, Tells
<1> QED BY <1>1, <1>3, <1>4, <1>5, SoundEnd

LEMMA StKeeps ==
  ASSUME NEW c, Sound(c), NEW s, Follows(c.st, s)
  PROVE  LET d == [c EXCEPT !.st = s]
         IN /\ Sound(d) /\ Calm(c, d) /\ d.flows = c.flows /\ d.st = s /\ d.inflight = c.inflight
            /\ d.token = c.token /\ d.stored = c.stored /\ d.shown = c.shown /\ d.widget = c.widget
            /\ d.sheet = c.sheet
<1>1. PICK d : d = [c EXCEPT !.st = s]
  OBVIOUS
<1>2. Shape(c) /\ Typed(c) /\ c.st \in State
  BY SoundTyped
<1>3. /\ Frames(c, d) /\ d.st = s /\ d.inflight = c.inflight /\ d.token = c.token
      /\ d.stored = c.stored
  BY <1>1, <1>2, StIs
<1>4. Typed(d) /\ Follows(c.st, d.st)
  BY <1>2, <1>3 DEF Typed, Follows
<1>5. Sound(d) /\ Calm(c, d)
  BY <1>3, <1>4, SoundFrame
<1> QED BY <1>1, <1>3, <1>5 DEF Frames

LEMMA JoinKeeps ==
  ASSUME NEW c, Sound(c), NEW i \in FlowIds, c.flows[i] # None,
         c.flows[i].kind \in Joiners \ {"confirm"},
         c.flows[i].kind = "widgetSession" => c.flows[i].arg.step = "replay"
  PROVE  Sound(Join(c, i)) /\ Calm(c, Join(c, i))
<1>1. PICK f : f = c.flows[i]
  OBVIOUS
<1>2. Shape(c) /\ Typed(c) /\ c.st \in State /\ GoodCall(f)
  BY <1>1, SoundTyped
<1>3. /\ f = [kind |-> f.kind, at |-> f.at, tok |-> f.tok, arg |-> f.arg, of |-> f.of,
              status |-> f.status, body |-> f.body]
      /\ f.arg \in ArgsOf(f.kind)
  BY <1>2, GoodCallIs
<1>4. PICK g : g = Joining(f)
  OBVIOUS
<1>5. f \in CallsOf(f.kind, f.arg, f.body) /\ f.kind \in Joiners
      /\ (f.kind = "widgetSession" => f.arg.step = "replay")
  BY <1>1, <1>2 DEF GoodCall, CallKind
<1>6. GoodCall(g) /\ g # None /\ g.kind = f.kind
  BY <1>3, <1>4, <1>5, GoodJoining
<1>7. PICK d : d = Join(c, i)
  OBVIOUS
<1>8. /\ Places(c, d, i, g) /\ d.st = c.st /\ d.inflight = c.inflight
      /\ d.token = c.token /\ d.stored = c.stored
  BY <1>1, <1>2, <1>3, <1>4, <1>7, JoinIs
<1>9. Typed(d) /\ Follows(c.st, d.st)
  BY <1>2, <1>8, FollowsSame DEF Typed
<1>10. g.kind = c.flows[i].kind /\ g.kind # "product" /\ g.kind # "confirm"
  BY <1>1, <1>6 DEF Joiners, CallKind
<1> QED BY <1>6, <1>7, <1>8, <1>9, <1>10, SoundTurn

\* The load of a new product page, which drops the load of the old one.
LEMMA LoadProductKeeps ==
  ASSUME NEW c, GoodTab(c), FlagsInv(c), PayInv(c), c.st.detail \in {None, c.st.pdp},
         c.st.pdp = c.shown.pdp, NEW p \in Products, p = c.shown.pdp,
         HasRoom(LoadProduct(c, p))
  PROVE  Sound(LoadProduct(c, p)) /\ Calm(c, LoadProduct(c, p))
<1>1. PICK flows : flows = [i \in FlowIds |->
                              IF c.flows[i] # None /\ c.flows[i].kind = "product" THEN None
                              ELSE c.flows[i]]
  OBVIOUS
<1>2. PICK keys, s : keys = c.inflight \cup {"product"} /\ s = ReqStart(c.st, "product")
  OBVIOUS
<1>3. PICK e : e = [c EXCEPT !.flows = flows, !.inflight = keys, !.st = s]
  OBVIOUS
<1>4. PICK d : d = LoadProduct(c, p)
  OBVIOUS
<1>5. d = Ask(e, "product", p, 0)
  BY <1>1, <1>2, <1>3, <1>4 DEF LoadProduct
<1>6. Shape(c) /\ c.st \in State /\ c.token \in Tokens \cup {NoToken}
  BY DEF GoodTab
<1>7. e = [st |-> s, shown |-> c.shown, inflight |-> keys, token |-> c.token,
           stored |-> c.stored, flows |-> flows, widget |-> c.widget, sheet |-> c.sheet]
  BY <1>3, <1>6 DEF Shape
<1>8. flows = [j \in FlowIds |-> flows[j]]
  BY <1>1
<1>9. Shape(e)
  BY <1>7, <1>8 DEF Shape
<1>10. MayAsk("product", p) /\ "product" \in Kind /\ p \in ArgsOf("product")
       /\ "product" \in RequestKey
  BY DEF MayAsk, ArgsOf, Kind, RequestKey, CallKind
<1>11. 0 \in 0..MaxFlows
  BY FlowsAssumption
<1>12. PICK i, f : i = FreeSlot(e) /\ f = Flow(e, "product", p, 0)
  OBVIOUS
<1>13. e.token \in Tokens \cup {NoToken} /\ HasRoom(Ask(e, "product", p, 0))
  BY <1>4, <1>5, <1>6, <1>7
<1>14. /\ i \in FlowIds /\ e.flows[i] = None /\ Places(e, d, i, f)
       /\ d.st = e.st /\ d.inflight = e.inflight /\ d.token = e.token /\ d.stored = e.stored
  BY <1>5, <1>9, <1>10, <1>11, <1>12, <1>13, AskIs
<1>15. GoodCall(f) /\ f # None
  BY <1>10, <1>11, <1>12, <1>13, GoodFlow
<1>16. f.kind = "product" /\ f.arg = p
  BY <1>10, <1>11, <1>12, <1>13, FlowIs
<1>17. /\ s \in State /\ s.pending = c.st.pending \cup {"product"} /\ s.pdp = c.st.pdp
       /\ s.detail = c.st.detail /\ s.cancelled = c.st.cancelled
  BY <1>2, <1>6, <1>10, ReqStartIs
<1>18. /\ Shape(d) /\ d.st = s /\ d.inflight = keys /\ d.token = c.token /\ d.stored = c.stored
       /\ d.shown = c.shown /\ d.widget = c.widget /\ d.sheet = c.sheet
       /\ d.flows[i] = f
       /\ \A j \in FlowIds : j # i => d.flows[j] = flows[j]
  BY <1>7, <1>14 DEF Places
<1>19. flows[i] = None
  BY <1>7, <1>14
<1>20. \A j \in FlowIds : flows[j] = IF c.flows[j] # None /\ c.flows[j].kind = "product"
                                       THEN None ELSE c.flows[j]
  BY <1>1
<1>21. GoodTab(d)
  <2>1. \A j \in FlowIds : d.flows[j] # None => GoodCall(d.flows[j])
    BY <1>15, <1>18, <1>20 DEF GoodTab
  <2>2. keys \in SUBSET RequestKey
    BY <1>2, <1>10 DEF GoodTab
  <2> QED BY <1>17, <1>18, <2>1, <2>2 DEF GoodTab
<1>22. /\ \A j \in FlowIds : Opens(d, j) <=> Opens(c, j)
       /\ \A j \in FlowIds : Tells(d, j) <=> Tells(c, j)
       /\ SheetWaits(d) <=> SheetWaits(c)
       /\ \A key : key # "product" => (Has(c, key) => Has(d, key))
       /\ Has(d, "product")
  <2>1. ASSUME NEW j \in FlowIds, c.flows[j] # None, c.flows[j].kind # "product"
        PROVE  d.flows[j] = c.flows[j]
    BY <1>18, <1>19, <1>20, <2>1
  <2>2. ASSUME NEW j \in FlowIds, d.flows[j] # None, d.flows[j].kind # "product"
        PROVE  d.flows[j] = c.flows[j]
    BY <1>16, <1>18, <1>20, <2>2
  <2>3. \A j \in FlowIds : Opens(d, j) <=> Opens(c, j)
    BY <2>1, <2>2 DEF Opens
  <2>4. \A j \in FlowIds : Tells(d, j) <=> Tells(c, j)
    BY <2>1, <2>2 DEF Tells
  <2>5. \A key : key # "product" => (Has(c, key) => Has(d, key))
    BY <2>1 DEF Has
  <2>6. Has(d, "product")
    BY <1>14, <1>15, <1>16, <1>18 DEF Has
  <2> QED BY <1>18, <2>3, <2>4, <2>5, <2>6 DEF SheetWaits
<1>23. FlagsInv(d)
  BY <1>17, <1>18, <1>22 DEF FlagsInv
<1>24. PayInv(d)
  BY <1>17, <1>18, <1>22 DEF PayInv
<1>25. PageInv(d)
  BY <1>16, <1>17, <1>18, <1>20 DEF PageInv
<1>26. Calm(c, d)
  BY <1>17, <1>18, <1>22 DEF Calm, Paying
<1> QED BY <1>4, <1>21, <1>23, <1>24, <1>25, <1>26 DEF Sound

-----------------------------------------------------------------------------
(* Whoever has room after asking had room before; what is asked without    *)
(* room is a step that is not taken.                                       *)

Asks(c, d) ==
  /\ Shape(d) /\ Typed(d) /\ d.shown = c.shown /\ d.st.pdp = c.st.pdp
  /\ HasRoom(d) => HasRoom(c)

LEMMA AsksTrans ==
  ASSUME NEW c, NEW d, NEW e, Asks(c, d), Asks(d, e)
  PROVE  Asks(c, e)
BY DEF Asks

LEMMA AskAsks ==
  ASSUME NEW c, Shape(c), Typed(c), NEW kind, NEW arg, MayAsk(kind, arg), NEW of \in 0..MaxFlows
  PROVE  Asks(c, Ask(c, kind, arg, of))
<1>1. PICK f, s : f = Flow(c, kind, arg, of) /\ s = FreeSlot(c)
  OBVIOUS
<1>2. c.token \in Tokens \cup {NoToken}
  BY DEF Typed
<1>3. f # None
  BY <1>1, <1>2, GoodFlow
<1>4. PICK d : d = Ask(c, kind, arg, of)
  OBVIOUS
<1>5. d = [c EXCEPT !.flows[s] = f]
  BY <1>1, <1>4 DEF Ask
<1>6. Places(c, d, s, f) /\ d.st = c.st /\ d.inflight = c.inflight /\ d.token = c.token
      /\ d.stored = c.stored
  BY <1>5, SlotIs
<1>7. HasRoom(d) => HasRoom(c)
  BY <1>3, <1>6 DEF Places, HasRoom
<1> QED BY <1>4, <1>6, <1>7 DEF Places, Typed, Asks

LEMMA GuardedAsks ==
  ASSUME NEW c, Shape(c), Typed(c), NEW key \in RequestKey, NEW arg, MayAsk(key, arg),
         NEW of \in 0..MaxFlows
  PROVE  Asks(c, Guarded(c, key, arg, of))
<1>1. CASE key \in c.inflight
  BY <1>1 DEF Guarded, Asks
<1>2. CASE key \notin c.inflight
  <2>1. PICK e : e = [c EXCEPT !.inflight = @ \cup {key}, !.st = ReqStart(@, key)]
    OBVIOUS
  <2>2. /\ Frames(c, e) /\ e.st = ReqStart(c.st, key) /\ e.inflight = c.inflight \cup {key}
        /\ e.token = c.token /\ e.stored = c.stored
    BY <2>1, EnterIs
  <2>3. Guarded(c, key, arg, of) = Ask(e, key, arg, of)
    BY <1>2, <2>1 DEF Guarded
  <2>4. Shape(e) /\ Typed(e) /\ e.st.pdp = c.st.pdp
    BY <2>2, ReqStartIs DEF Frames, Typed
  <2>5. Asks(e, Ask(e, key, arg, of))
    BY <2>4, AskAsks
  <2>6. Asks(c, e)
    BY <2>2, <2>4 DEF Asks, Frames, HasRoom
  <2> QED BY <2>3, <2>5, <2>6, AsksTrans
<1> QED BY <1>1, <1>2

LEMMA LoadsAsk ==
  ASSUME NEW c, Shape(c), Typed(c), NEW of \in 0..MaxFlows
  PROVE  /\ Asks(c, LoadTrust(c, of)) /\ Asks(c, LoadProducts(c, of))
         /\ Asks(c, LoadAddresses(c, of)) /\ Asks(c, LoadOrders(c)) /\ Asks(c, LoadCart(c, of))
<1>1. /\ "trust" \in RequestKey /\ "products" \in RequestKey /\ "addresses" \in RequestKey
      /\ "orders" \in RequestKey /\ "cart" \in RequestKey
  BY DEF RequestKey
<1>2. /\ MayAsk("trust", None) /\ MayAsk("products", None) /\ MayAsk("addresses", None)
      /\ MayAsk("orders", None)
  BY DEF MayAsk, ArgsOf, Kind, RequestKey, CallKind
<1>3. PICK call : call = Call("get", None, 0, None)
  OBVIOUS
<1>4. MayAsk("cart", call)
  <2>1. call \in CartCalls /\ call.op = "get"
    BY <1>3, ShopAssumption DEF Call, CartCalls
  <2> QED BY <2>1 DEF MayAsk, ArgsOf, Kind, RequestKey, CallKind
<1>5. 0 \in 0..MaxFlows
  BY FlowsAssumption
<1>6. LoadCart(c, of) = Guarded(c, "cart", call, of)
  BY <1>3 DEF LoadCart, CartMutation
<1>7. Asks(c, LoadCart(c, of))
  BY <1>1, <1>4, <1>6, GuardedAsks
<1>8. Asks(c, LoadTrust(c, of))
  BY <1>1, <1>2, GuardedAsks DEF LoadTrust
<1>9. Asks(c, LoadProducts(c, of))
  BY <1>1, <1>2, GuardedAsks DEF LoadProducts
<1>10. Asks(c, LoadAddresses(c, of))
  BY <1>1, <1>2, GuardedAsks DEF LoadAddresses
<1>11. Asks(c, LoadOrders(c))
  BY <1>1, <1>2, <1>5, GuardedAsks DEF LoadOrders
<1> QED BY <1>7, <1>8, <1>9, <1>10, <1>11

-----------------------------------------------------------------------------
(* Rendering.                                                              *)

\* The tab with another rendered state.
LEMMA ShownIs ==
  ASSUME NEW c, Shape(c), NEW s
  PROVE  LET d == [c EXCEPT !.shown = s]
         IN /\ Shape(d) /\ d.shown = s /\ d.st = c.st /\ d.inflight = c.inflight /\ d.token = c.token
            /\ d.stored = c.stored /\ d.flows = c.flows /\ d.widget = c.widget /\ d.sheet = c.sheet
BY DEF Shape

\* A tab that renders a state of the same product page.
LEMMA ShownKeeps ==
  ASSUME NEW c, Sound(c), NEW s \in State, s.pdp = c.shown.pdp
  PROVE  LET d == [c EXCEPT !.shown = s]
         IN Sound(d) /\ d.shown = s /\ d.st = c.st /\ d.flows = c.flows
<1>1. PICK d : d = [c EXCEPT !.shown = s]
  OBVIOUS
<1>2. Shape(c)
  BY SoundTyped
<1>3. /\ Shape(d) /\ d.shown = s /\ d.st = c.st /\ d.inflight = c.inflight /\ d.token = c.token
      /\ d.stored = c.stored /\ d.flows = c.flows /\ d.widget = c.widget /\ d.sheet = c.sheet
  BY <1>1, <1>2, ShownIs
<1>4. GoodTab(d)
  BY <1>3 DEF Sound, GoodTab
<1>5. /\ \A i \in FlowIds : Opens(d, i) <=> Opens(c, i)
      /\ \A i \in FlowIds : Tells(d, i) <=> Tells(c, i)
      /\ SheetWaits(d) <=> SheetWaits(c)
      /\ \A key : Has(d, key) <=> Has(c, key)
  BY <1>3 DEF Opens, Tells, SheetWaits, Has
<1>6. FlagsInv(d)
  BY <1>3, <1>5 DEF Sound, FlagsInv
<1>7. PayInv(d)
  BY <1>3, <1>5 DEF Sound, PayInv
<1>8. PageInv(d)
  BY <1>3 DEF Sound, PageInv
<1> QED BY <1>1, <1>3, <1>4, <1>6, <1>7, <1>8 DEF Sound

\* After a load of the orders or the addresses, or none.
LEMMA ArrivalKeeps ==
  ASSUME NEW c, Sound(c), NEW d,
         d \in {c, LoadOrders(c), LoadAddresses(c, 0)}, HasRoom(d)
  PROVE  Sound(d) /\ Calm(c, d)
<1>1. 0 \in 0..MaxFlows
  BY FlowsAssumption
<1>2. CASE d = c
  BY <1>2 DEF Calm
<1>3. CASE d = LoadOrders(c)
  BY <1>1, <1>3, LoadsKeep
<1>4. CASE d = LoadAddresses(c, 0)
  BY <1>1, <1>4, LoadsKeep
<1> QED BY <1>2, <1>3, <1>4

LEMMA ArrivalAsks ==
  ASSUME NEW c, Shape(c), Typed(c), NEW d, d \in {c, LoadOrders(c), LoadAddresses(c, 0)}
  PROVE  Asks(c, d)
<1>1. 0 \in 0..MaxFlows
  BY FlowsAssumption
<1>2. CASE d = c
  BY <1>2 DEF Asks
<1>3. CASE d = LoadOrders(c)
  BY <1>1, <1>3, LoadsAsk
<1>4. CASE d = LoadAddresses(c, 0)
  BY <1>1, <1>4, LoadsAsk
<1> QED BY <1>2, <1>3, <1>4

LEMMA LoadProductIs ==
  ASSUME NEW c, Shape(c), Typed(c), NEW p \in Products
  PROVE  Shape(LoadProduct(c, p)) /\ Typed(LoadProduct(c, p))
<1>1. PICK flows : flows = [i \in FlowIds |->
                              IF c.flows[i] # None /\ c.flows[i].kind = "product" THEN None
                              ELSE c.flows[i]]
  OBVIOUS
<1>2. PICK keys, s : keys = c.inflight \cup {"product"} /\ s = ReqStart(c.st, "product")
  OBVIOUS
<1>3. PICK e : e = [c EXCEPT !.flows = flows, !.inflight = keys, !.st = s]
  OBVIOUS
<1>4. LoadProduct(c, p) = Ask(e, "product", p, 0)
  BY <1>1, <1>2, <1>3 DEF LoadProduct
<1>5. e = [st |-> s, shown |-> c.shown, inflight |-> keys, token |-> c.token,
           stored |-> c.stored, flows |-> flows, widget |-> c.widget, sheet |-> c.sheet]
  BY <1>3 DEF Shape
<1>6. flows = [j \in FlowIds |-> flows[j]]
  BY <1>1
<1>7. Shape(e)
  BY <1>5, <1>6 DEF Shape
<1>8. MayAsk("product", p) /\ "product" \in RequestKey /\ 0 \in 0..MaxFlows
  BY FlowsAssumption DEF MayAsk, ArgsOf, Kind, RequestKey, CallKind
<1>9. s \in State
  BY <1>2, <1>8, ReqStartIs DEF Typed
<1>10. Typed(e)
  BY <1>2, <1>5, <1>8, <1>9 DEF Typed
<1> QED BY <1>4, <1>7, <1>8, <1>10, AskAsks DEF Asks

\* A render of the same product page asks like the loads it starts.
LEMMA RenderRoom ==
  ASSUME NEW c, Shape(c), Typed(c), c.st.pdp = c.shown.pdp, HasRoom(Render(c))
  PROVE  HasRoom(c)
<1>1. PICK on : on = [c EXCEPT !.shown = c.st]
  OBVIOUS
<1>2. PICK last : last = IF c.st.screen = "orders" /\ c.shown.screen # "orders" THEN LoadOrders(on)
                         ELSE IF c.st.screen = "addresses" /\ c.shown.screen # "addresses"
                           THEN LoadAddresses(on, 0)
                         ELSE on
  OBVIOUS
<1>3. PICK d : d = Render(c)
  OBVIOUS
<1>4. d = [last EXCEPT !.shown = last.st]
  BY <1>1, <1>2, <1>3 DEF Render
<1>5. /\ Shape(on) /\ on.st = c.st /\ on.inflight = c.inflight
      /\ on.token = c.token /\ on.stored = c.stored /\ on.flows = c.flows
  BY <1>1, ShownIs
<1>6. Typed(on)
  BY <1>5 DEF Typed
<1>7. last \in {on, LoadOrders(on), LoadAddresses(on, 0)}
  BY <1>2
<1>8. Asks(on, last)
  BY <1>5, <1>6, <1>7, ArrivalAsks
<1>9. d.flows = last.flows
  BY <1>4, <1>8, ShownIs DEF Asks
<1> QED BY <1>3, <1>5, <1>8, <1>9 DEF Asks, HasRoom

LEMMA RenderKeeps ==
  ASSUME NEW c, Sound(c), HasRoom(Render(c))
  PROVE  /\ Sound(Render(c)) /\ Rested(Render(c))
         /\ Render(c).st.cancelled => c.st.cancelled
         /\ Render(c).st.pdp = c.st.pdp
<1>1. PICK on : on = [c EXCEPT !.shown = c.st]
  OBVIOUS
<1>2. PICK page : page = IF c.st.pdp \notin {None, c.shown.pdp} THEN LoadProduct(on, c.st.pdp) ELSE on
  OBVIOUS
<1>3. PICK last : last = IF c.st.screen = "orders" /\ c.shown.screen # "orders" THEN LoadOrders(page)
                         ELSE IF c.st.screen = "addresses" /\ c.shown.screen # "addresses"
                           THEN LoadAddresses(page, 0)
                         ELSE page
  OBVIOUS
<1>4. PICK d : d = Render(c)
  OBVIOUS
<1>5. d = [last EXCEPT !.shown = last.st]
  BY <1>1, <1>2, <1>3, <1>4 DEF Render
<1>6. Shape(c) /\ Typed(c) /\ c.st \in State /\ c.shown \in State
  BY SoundTyped
<1>7. /\ Shape(on) /\ on.shown = c.st /\ on.st = c.st /\ on.inflight = c.inflight
      /\ on.token = c.token /\ on.stored = c.stored /\ on.flows = c.flows /\ on.widget = c.widget
      /\ on.sheet = c.sheet
  BY <1>1, <1>6, ShownIs
<1>8. Typed(on)
  BY <1>6, <1>7 DEF Typed
<1>9. last \in {page, LoadOrders(page), LoadAddresses(page, 0)}
  BY <1>3
<1>10. CASE c.st.pdp \in {None, c.shown.pdp}
  <2>1. page = on
    BY <1>2, <1>10
  <2>2. c.st.pdp = c.shown.pdp
    BY <1>10 DEF Sound, PageInv
  <2>3. Sound(on)
    BY <1>1, <1>6, <2>2, ShownKeeps
  <2>4. Shape(page) /\ Typed(page)
    BY <1>7, <1>8, <2>1
  <2>5. Asks(page, last)
    BY <1>9, <2>4, ArrivalAsks
  <2>6. Shape(last)
    BY <2>5 DEF Asks
  <2>7. d.flows = last.flows
    BY <1>5, <2>6, ShownIs
  <2>8. HasRoom(last)
    BY <1>4, <2>7 DEF HasRoom
  <2>9. Sound(last) /\ Calm(on, last)
    BY <1>9, <2>1, <2>3, <2>8, ArrivalKeeps
  <2>10. last.st \in State /\ last.st.pdp = last.shown.pdp
    BY <1>7, <2>9, SoundTyped DEF Calm
  <2>11. Sound(d) /\ d.shown = last.st /\ d.st = last.st
    BY <1>5, <2>9, <2>10, ShownKeeps
  <2>12. Rested(d)
    BY <2>11 DEF Rested, Paying, Sound, PayInv
  <2> QED BY <1>4, <1>7, <2>9, <2>11, <2>12 DEF Calm
<1>11. CASE c.st.pdp \notin {None, c.shown.pdp}
  <2>1. page = LoadProduct(on, c.st.pdp)
    BY <1>2, <1>11
  <2>2. c.st.pdp \in Products
    BY <1>6, <1>11 DEF State
  <2>3. GoodTab(on)
    BY <1>6, <1>7 DEF Sound, GoodTab
  <2>4. /\ \A i \in FlowIds : Opens(on, i) <=> Opens(c, i)
        /\ \A i \in FlowIds : Tells(on, i) <=> Tells(c, i)
        /\ SheetWaits(on) <=> SheetWaits(c)
        /\ \A key : Has(on, key) <=> Has(c, key)
    BY <1>7 DEF Opens, Tells, SheetWaits, Has
  <2>5. FlagsInv(on) /\ PayInv(on)
    BY <1>7, <2>4 DEF Sound, FlagsInv, PayInv
  <2>6. on.st.detail \in {None, on.st.pdp} /\ on.st.pdp = on.shown.pdp /\ c.st.pdp = on.shown.pdp
    BY <1>7 DEF Sound, PageInv
  <2>7. Shape(page) /\ Typed(page)
    BY <1>7, <1>8, <2>1, <2>2, LoadProductIs
  <2>8. Asks(page, last)
    BY <1>9, <2>7, ArrivalAsks
  <2>9. Shape(last)
    BY <2>8 DEF Asks
  <2>10. d.flows = last.flows
    BY <1>5, <2>9, ShownIs
  <2>11. HasRoom(last)
    BY <1>4, <2>10 DEF HasRoom
  <2>12. HasRoom(page)
    BY <2>8, <2>11 DEF Asks
  <2>13. Sound(page) /\ Calm(on, page)
    BY <2>1, <2>2, <2>3, <2>5, <2>6, <2>12, LoadProductKeeps
  <2>14. Sound(last) /\ Calm(page, last)
    BY <1>9, <2>11, <2>13, ArrivalKeeps
  <2>15. last.st \in State /\ last.st.pdp = last.shown.pdp
    BY <1>7, <2>13, <2>14, SoundTyped DEF Calm
  <2>16. Sound(d) /\ d.shown = last.st /\ d.st = last.st
    BY <1>5, <2>14, <2>15, ShownKeeps
  <2>17. Rested(d)
    BY <2>16 DEF Rested, Paying, Sound, PayInv
  <2> QED BY <1>4, <1>7, <2>13, <2>14, <2>16, <2>17 DEF Calm
<1> QED BY <1>10, <1>11

-----------------------------------------------------------------------------
(* Commands of a click.                                                    *)

\* What a command makes of a sound tab, if there is room for it.
Keeps(c, d) == Asks(c, d) /\ (HasRoom(d) => Sound(d) /\ (d.st.cancelled => c.st.cancelled))

LEMMA GuardedMeets ==
  ASSUME NEW c, Sound(c), NEW key \in PlainKey, key # "product", NEW arg, MayAsk(key, arg)
  PROVE  Keeps(c, Guarded(c, key, arg, 0))
<1>1. 0 \in 0..MaxFlows /\ key \in RequestKey
  BY FlowsAssumption DEF PlainKey
<1>2. Shape(c) /\ Typed(c)
  BY SoundTyped
<1>3. Asks(c, Guarded(c, key, arg, 0))
  BY <1>1, <1>2, GuardedAsks
<1>4. HasRoom(Guarded(c, key, arg, 0)) =>
        Sound(Guarded(c, key, arg, 0)) /\ Calm(c, Guarded(c, key, arg, 0))
  BY <1>1, GuardedKeeps
<1> QED BY <1>3, <1>4 DEF Keeps, Calm

LEMMA StMeets ==
  ASSUME NEW c, Sound(c), NEW s, Follows(c.st, s)
  PROVE  Keeps(c, [c EXCEPT !.st = s])
<1>1. PICK d : d = [c EXCEPT !.st = s]
  OBVIOUS
<1>2. /\ Sound(d) /\ Calm(c, d) /\ d.flows = c.flows /\ d.st = s /\ d.shown = c.shown
  BY <1>1, StKeeps
<1>3. Shape(d) /\ Typed(d)
  BY <1>2, SoundTyped
<1> QED BY <1>1, <1>2, <1>3 DEF Keeps, Asks, HasRoom, Calm

LEMMA SaveBufferIs ==
  ASSUME NEW c, Shape(c), NEW lines
  PROVE  LET d == SaveBuffer(c, lines)
         IN /\ Frames(c, d) /\ d.st = SetCartBuffer(c.st, lines) /\ d.inflight = c.inflight
            /\ d.token = c.token /\ d.stored = lines
<1>1. PICK s : s = SetCartBuffer(c.st, lines)
  OBVIOUS
<1>2. PICK d : d = [c EXCEPT !.stored = lines, !.st = s]
  OBVIOUS
<1>3. d = SaveBuffer(c, lines)
  BY <1>1, <1>2 DEF SaveBuffer
<1>4. d = [st |-> s, shown |-> c.shown, inflight |-> c.inflight, token |-> c.token,
           stored |-> lines, flows |-> c.flows, widget |-> c.widget, sheet |-> c.sheet]
  BY <1>2 DEF Shape
<1>5. /\ Frames(c, d) /\ d.st = s /\ d.inflight = c.inflight /\ d.token = c.token
      /\ d.stored = lines
  BY <1>4 DEF Shape, Frames
<1> QED BY <1>1, <1>3, <1>5

LEMMA SaveBufferKeeps ==
  ASSUME NEW c, Sound(c), NEW lines \in Lines
  PROVE  /\ Sound(SaveBuffer(c, lines)) /\ Calm(c, SaveBuffer(c, lines))
         /\ Keeps(c, SaveBuffer(c, lines))
<1>1. PICK d : d = SaveBuffer(c, lines)
  OBVIOUS
<1>2. Shape(c) /\ Typed(c) /\ c.st \in State
  BY SoundTyped
<1>3. /\ Frames(c, d) /\ d.st = SetCartBuffer(c.st, lines) /\ d.inflight = c.inflight
      /\ d.token = c.token /\ d.stored = lines
  BY <1>1, <1>2, SaveBufferIs
<1>4. Follows(c.st, d.st)
  BY <1>2, <1>3, BufferFollows DEF Sets
<1>5. Typed(d)
  BY <1>2, <1>3, <1>4 DEF Typed, Follows
<1>6. Sound(d) /\ Calm(c, d)
  BY <1>3, <1>4, <1>5, SoundFrame
<1> QED BY <1>1, <1>3, <1>5, <1>6 DEF Keeps, Asks, Frames, HasRoom, Calm

LEMMA PerformSignOutIs ==
  ASSUME NEW c, Sound(c)
  PROVE  LET d == PerformSignOut(c)
         IN Sound(d) /\ Calm(c, d) /\ Frames(c, d) /\ d.st = SignOut(c.st) /\ Keeps(c, d)
<1>1. PICK s, none : s = SignOut(c.st) /\ none = NoToken
  OBVIOUS
<1>2. PICK d : d = [c EXCEPT !.token = none, !.stored = NoLines, !.st = s]
  OBVIOUS
<1>3. d = PerformSignOut(c)
  BY <1>1, <1>2 DEF PerformSignOut
<1>4. Shape(c) /\ Typed(c) /\ c.st \in State
  BY SoundTyped
<1>5. d = [st |-> s, shown |-> c.shown, inflight |-> c.inflight, token |-> none,
           stored |-> NoLines, flows |-> c.flows, widget |-> c.widget, sheet |-> c.sheet]
  BY <1>2, <1>4 DEF Shape
<1>6. /\ Frames(c, d) /\ d.st = s /\ d.inflight = c.inflight /\ d.token = none
      /\ d.stored = NoLines
  BY <1>4, <1>5 DEF Shape, Frames
<1>7. Follows(c.st, d.st)
  BY <1>1, <1>4, <1>6, SignOutFollows DEF Sets
<1>8. Typed(d)
  BY <1>1, <1>4, <1>6, <1>7, NoLinesIs DEF Typed, Follows
<1>9. Sound(d) /\ Calm(c, d)
  BY <1>6, <1>7, <1>8, SoundFrame
<1> QED BY <1>1, <1>3, <1>6, <1>8, <1>9 DEF Keeps, Asks, Frames, HasRoom, Calm

LEMMA MayCall ==
  ASSUME NEW op \in {"add", "set", "remove"}, NEW p \in Products, NEW n \in 0..MaxQty,
         NEW then \in Screen \cup {None}
  PROVE  MayAsk("cart", Call(op, p, n, then))
<1>1. PICK call : call = Call(op, p, n, then)
  OBVIOUS
<1>2. call \in CartCalls /\ call.product \in Products
  BY <1>1 DEF Call, CartCalls
<1> QED BY <1>1, <1>2 DEF MayAsk, ArgsOf, Kind, RequestKey, CallKind

LEMMA SetQtyKeeps ==
  ASSUME NEW c, Sound(c), NEW p \in Products, NEW n \in 0..MaxQty
  PROVE  Keeps(c, SetQty(c, p, n)) /\ Keeps(c, RemoveItem(c, p))
<1>1. PICK op \in {"add", "set", "remove"} : op = IF n = 0 THEN "remove" ELSE "set"
  OBVIOUS
<1>2. PICK call : call = Call(op, p, n, None)
  OBVIOUS
<1>3. PICK call0 : call0 = Call("remove", p, 0, None)
  OBVIOUS
<1>4. 0 \in 0..MaxQty
  BY ShopAssumption
<1>5. MayAsk("cart", call) /\ MayAsk("cart", call0)
  BY <1>2, <1>3, <1>4, MayCall
<1>6. "cart" \in PlainKey
  BY DEF PlainKey, RequestKey
<1>7. SetQty(c, p, n) = Guarded(c, "cart", call, 0) /\ RemoveItem(c, p) = Guarded(c, "cart", call0, 0)
  BY <1>1, <1>2, <1>3 DEF SetQty, RemoveItem, CartMutation
<1> QED BY <1>5, <1>6, <1>7, GuardedMeets

LEMMA BufferIs ==
  ASSUME NEW lines \in Lines, NEW p \in Products, NEW n \in Nat
  PROVE  /\ BufferAdd(lines, p, n) \in Lines
         /\ [lines EXCEPT ![p] = IF @ = 0 THEN 0 ELSE Capped(n)] \in Lines
<1>1. lines[p] \in 0..MaxQty
  BY DEF Lines
<1>2. PICK m : m = Capped(lines[p] + n)
  OBVIOUS
<1>3. m \in 0..MaxQty
  BY <1>1, <1>2, CappedIs, ShopAssumption
<1>4. PICK k : k = IF lines[p] = 0 THEN 0 ELSE Capped(n)
  OBVIOUS
<1>5. k \in 0..MaxQty
  BY <1>4, CappedIs, ShopAssumption
<1>6. BufferAdd(lines, p, n) = [lines EXCEPT ![p] = m]
      /\ [lines EXCEPT ![p] = IF @ = 0 THEN 0 ELSE Capped(n)] = [lines EXCEPT ![p] = k]
  BY <1>2, <1>4 DEF BufferAdd, Lines
<1> QED BY <1>3, <1>5, <1>6 DEF Lines

LEMMA SelectKeeps ==
  ASSUME NEW c, Sound(c), NEW p \in Products, NEW n \in 0..MaxQty
  PROVE  Keeps(c, SetBufferQty(c, p, n)) /\ Keeps(c, AddItem(c, p, n))
<1>1. PICK lines : lines = c.shown.buffer
  OBVIOUS
<1>2. lines \in Lines /\ n \in Nat
  BY <1>1, SoundTyped, ShopAssumption DEF State
<1>3. PICK less, more : /\ less = [lines EXCEPT ![p] = IF @ = 0 THEN 0 ELSE Capped(n)]
                        /\ more = BufferAdd(lines, p, n)
  OBVIOUS
<1>4. less \in Lines /\ more \in Lines
  BY <1>2, <1>3, BufferIs
<1>5. Keeps(c, SaveBuffer(c, less)) /\ Keeps(c, SaveBuffer(c, more))
  BY <1>4, SaveBufferKeeps
<1>6. Keeps(c, SetBufferQty(c, p, n))
  BY <1>1, <1>3, <1>5 DEF SetBufferQty
<1>7. PICK call : call = Call("add", p, n, None)
  OBVIOUS
<1>8. MayAsk("cart", call)
  BY <1>7, MayCall
<1>9. "cart" \in PlainKey
  BY DEF PlainKey, RequestKey
<1>10. Keeps(c, CartMutation(c, call, 0))
  BY <1>8, <1>9, GuardedMeets DEF CartMutation
<1>11. Keeps(c, c)
  BY SoundTyped DEF Keeps, Asks
<1>12. Keeps(c, AddItem(c, p, n))
  BY <1>1, <1>3, <1>5, <1>7, <1>10, <1>11 DEF AddItem
<1> QED BY <1>6, <1>12

LEMMA AddFromPdpKeeps ==
  ASSUME NEW c, Sound(c), c.shown.pdp \in c.shown.products
  PROVE  Keeps(c, AddFromPdp(c))
<1>1. PICK p, n : p = c.shown.pdp /\ n = c.shown.qty
  OBVIOUS
<1>2. c.shown \in State
  BY SoundTyped
<1>3. p \in Products /\ n \in 1..MaxQty /\ c.shown.buffer \in Lines
  BY <1>1, <1>2 DEF State
<1>4. n \in 0..MaxQty /\ n \in Nat
  BY <1>3, ShopAssumption
<1>5. PICK more : more = BufferAdd(c.shown.buffer, p, n)
  OBVIOUS
<1>6. Keeps(c, SaveBuffer(c, more))
  BY <1>3, <1>4, <1>5, BufferIs, SaveBufferKeeps
<1>7. PICK call : call = Call("add", p, n, "cart")
  OBVIOUS
<1>8. "cart" \in Screen \cup {None}
  BY DEF Screen
<1>9. MayAsk("cart", call)
  BY <1>3, <1>4, <1>7, <1>8, MayCall
<1>10. "cart" \in PlainKey
  BY DEF PlainKey, RequestKey
<1>11. Keeps(c, CartMutation(c, call, 0))
  BY <1>9, <1>10, GuardedMeets DEF CartMutation
<1> QED BY <1>1, <1>5, <1>6, <1>7, <1>11 DEF AddFromPdp

LEMMA EditKeeps ==
  ASSUME NEW c, Sound(c)
  PROVE  /\ Keeps(c, SaveAddress(c))
         /\ \A a \in AddressIds : Keeps(c, SetDefaultAddress(c, a)) /\ Keeps(c, RemoveAddress(c, a))
<1>1. "addressSave" \in PlainKey /\ "addressDelete" \in PlainKey
  BY DEF PlainKey, RequestKey
<1>2. PICK no \in BOOLEAN : no = FALSE
  OBVIOUS
<1>3. PICK yes \in BOOLEAN : yes = TRUE
  OBVIOUS
<1>4. PICK id : id = IF c.shown.form = None THEN "new" ELSE c.shown.form
  OBVIOUS
<1>5. id \in AddressIds \cup {"new"}
  BY <1>4, SoundTyped DEF State
<1>6. PICK edit : edit = [id |-> id, dflt |-> no]
  OBVIOUS
<1>7. MayAsk("addressSave", edit)
  BY <1>5, <1>6 DEF MayAsk, ArgsOf, Kind, RequestKey, Edits, CallKind
<1>8. Keeps(c, SaveAddress(c))
  BY <1>1, <1>2, <1>4, <1>6, <1>7, GuardedMeets DEF SaveAddress
<1>9. ASSUME NEW a \in AddressIds
      PROVE  Keeps(c, SetDefaultAddress(c, a)) /\ Keeps(c, RemoveAddress(c, a))
  <2>1. PICK move : move = [id |-> a, dflt |-> yes]
    OBVIOUS
  <2>2. MayAsk("addressSave", move) /\ MayAsk("addressDelete", a)
    BY <2>1 DEF MayAsk, ArgsOf, Kind, RequestKey, Edits, CallKind
  <2>3. Keeps(c, Guarded(c, "addressSave", move, 0)) /\ Keeps(c, Guarded(c, "addressDelete", a, 0))
    BY <1>1, <2>2, GuardedMeets
  <2>4. Keeps(c, c)
    BY SoundTyped DEF Keeps, Asks
  <2> QED BY <1>3, <2>1, <2>3, <2>4 DEF SetDefaultAddress, RemoveAddress
<1> QED BY <1>8, <1>9

LEMMA SignInKeeps ==
  ASSUME NEW c, Sound(c), NEW selection \in Lines
  PROVE  Keeps(c, SignInWithWidget(c, selection))
<1>1. PICK no \in BOOLEAN : no = FALSE
  OBVIOUS
<1>2. PICK some \in BOOLEAN : some = ~ IsEmpty(selection)
  OBVIOUS
<1>3. PICK arg : arg = [step |-> "exchange", left |-> selection, user |-> None,
                        replays |-> some, soldOut |-> no]
  OBVIOUS
<1>4. arg \in SignIns /\ arg.step # "replay"
  BY <1>3 DEF SignIns
<1>5. MayAsk("widgetSession", arg)
  BY <1>4 DEF MayAsk, ArgsOf, Kind, RequestKey, CallKind
<1>6. "widgetSession" \in PlainKey
  BY DEF PlainKey, RequestKey
<1>7. SignInWithWidget(c, selection) = Guarded(c, "widgetSession", arg, 0)
  BY <1>1, <1>2, <1>3 DEF SignInWithWidget
<1> QED BY <1>5, <1>6, <1>7, GuardedMeets

LEMMA OpenPdpKeeps ==
  ASSUME NEW c, Sound(c), NEW p \in Products
  PROVE  LET d == [c EXCEPT !.st = OpenPdp(@, p)]
         IN Sound(d) /\ (d.st.cancelled => c.st.cancelled)
<1>1. Shape(c) /\ Typed(c) /\ c.st \in State
  BY SoundTyped
<1>2. PICK t1 : t1 = [c.st EXCEPT !.screen = "pdp"]
  OBVIOUS
<1>3. t1 \in State /\ t1.pending = c.st.pending /\ t1.cancelled = c.st.cancelled
  BY <1>1, <1>2 DEF State, Screen
<1>4. PICK t2 : t2 = [t1 EXCEPT !.pdp = p]
  OBVIOUS
<1>5. t2 \in State /\ t2.pending = c.st.pending /\ t2.cancelled = c.st.cancelled /\ t2.pdp = p
  BY <1>3, <1>4 DEF State
<1>6. PICK t3 : t3 = [t2 EXCEPT !.qty = 1]
  OBVIOUS
<1>7. t3 \in State /\ t3.pending = c.st.pending /\ t3.cancelled = c.st.cancelled /\ t3.pdp = p
  BY <1>5, <1>6, ShopAssumption DEF State
<1>8. PICK s : s = [t3 EXCEPT !.detail = None]
  OBVIOUS
<1>9. s \in State /\ s.pending = c.st.pending /\ s.cancelled = c.st.cancelled /\ s.pdp = p
      /\ s.detail = None
  BY <1>7, <1>8 DEF State
<1>10. s = OpenPdp(c.st, p)
  BY <1>2, <1>4, <1>6, <1>8 DEF OpenPdp
<1>11. PICK d : d = [c EXCEPT !.st = s]
  OBVIOUS
<1>12. /\ Frames(c, d) /\ d.st = s /\ d.inflight = c.inflight /\ d.token = c.token
       /\ d.stored = c.stored
  BY <1>1, <1>11, StIs
<1>13. GoodTab(d)
  BY <1>9, <1>12 DEF Sound, GoodTab, Frames
<1>14. /\ \A i \in FlowIds : Opens(d, i) <=> Opens(c, i)
       /\ \A i \in FlowIds : Tells(d, i) <=> Tells(c, i)
       /\ SheetWaits(d) <=> SheetWaits(c)
       /\ \A key : Has(d, key) <=> Has(c, key)
  BY <1>12 DEF Frames, Opens, Tells, SheetWaits, Has
<1>15. FlagsInv(d) /\ PayInv(d)
  BY <1>9, <1>12, <1>14 DEF Sound, FlagsInv, PayInv
<1>16. PageInv(d)
  BY <1>9, <1>12, ShopAssumption DEF Sound, PageInv, Frames
<1>17. d = [c EXCEPT !.st = OpenPdp(@, p)]
  BY <1>10, <1>11
<1> QED BY <1>9, <1>12, <1>13, <1>15, <1>16, <1>17 DEF Sound

LEMMA OpenCheckoutKeeps ==
  ASSUME NEW c, Sound(c), ~ Paying(c), c.shown.selected \in AddressIds
  PROVE  Keeps(c, OpenCheckout(c))
<1>1. PICK d : d = OpenCheckout(c)
  OBVIOUS
<1>2. PICK a : a = c.shown.selected
  OBVIOUS
<1>3. MayAsk("checkout", a) /\ "checkout" \in RequestKey /\ 0 \in 0..MaxFlows
  BY <1>2, FlowsAssumption DEF MayAsk, ArgsOf, Kind, RequestKey, CallKind
<1>4. Shape(c) /\ Typed(c) /\ c.st \in State
  BY SoundTyped
<1>5. d = Guarded(c, "checkout", a, 0)
  BY <1>1, <1>2 DEF OpenCheckout
<1>6. Asks(c, d)
  BY <1>3, <1>4, <1>5, GuardedAsks
<1>7. ASSUME HasRoom(d), "checkout" \notin c.inflight
      PROVE  Sound(d) /\ d.st.cancelled = c.st.cancelled
  <2>1. PICK i, f :
          /\ i \in FlowIds /\ c.flows[i] = None /\ Places(c, d, i, f) /\ f # None /\ GoodCall(f)
          /\ f.kind = "checkout" /\ f.at = "asked" /\ f.arg = a
          /\ Typed(d) /\ d.st = ReqStart(c.st, "checkout")
    BY <1>3, <1>4, <1>5, <1>7, GuardedIs
  <2>2. /\ d.st.pdp = c.st.pdp /\ d.st.detail = c.st.detail
        /\ d.st.cancelled = c.st.cancelled /\ d.st.pending = c.st.pending \cup {"checkout"}
    BY <1>3, <1>4, <2>1, ReqStartIs
  <2>3. d.flows[i] = f /\ \A j \in FlowIds : j # i => d.flows[j] = c.flows[j]
    BY <2>1 DEF Places
  <2>4. GoodTab(c)
    BY DEF Sound
  <2>5. f # None => GoodCall(f)
    BY <2>1
  <2>6. GoodTab(d)
    BY <2>1, <2>4, <2>5, GoodPlaces
  <2>7. ~ SheetWaits(d) /\ ~ SheetWaits(c) /\ \A j \in FlowIds : ~ Opens(c, j) /\ ~ Tells(c, j)
    BY <2>1 DEF Paying, SheetWaits, Places
  <2>8. Opens(d, i) /\ \A j \in FlowIds : ~ Tells(d, j) /\ (Opens(d, j) => j = i)
    BY <2>1, <2>3, <2>7 DEF Opens, Tells
  <2>9. Has(d, "checkout") /\ \A key : Has(c, key) => Has(d, key)
    BY <2>1, <2>3 DEF Has
  <2>10. FlagsInv(d)
    <3>1. SUFFICES ASSUME NEW key \in d.st.pending \ {"widgetSession", "addressSave"}
                   PROVE  IF key = "payment" THEN SheetWaits(d) \/ \E j \in FlowIds : Tells(d, j)
                          ELSE Has(d, key)
      BY DEF FlagsInv
    <3>2. CASE key = "checkout"
      BY <2>9, <3>2
    <3>3. CASE key # "checkout"
      <4>1. key \in c.st.pending \ {"widgetSession", "addressSave"}
        BY <2>2, <3>1, <3>3
      <4>2. key # "payment" /\ Has(c, key)
        BY <2>7, <4>1 DEF Sound, FlagsInv
      <4> QED BY <2>9, <4>2
    <3> QED BY <3>2, <3>3
  <2>11. PayInv(d)
    BY <2>2, <2>7, <2>8 DEF PayInv
  <2>12. PageInv(d)
    <3>1. d.st.detail \in {None, d.st.pdp} /\ (d.st.pdp = None => d.shown.pdp = None)
      BY <2>1, <2>2 DEF Sound, PageInv, Places
    <3>2. \A j \in FlowIds : d.flows[j] # None /\ d.flows[j].kind = "product" => d.flows[j].arg = c.shown.pdp
      BY <2>1, <2>3 DEF Sound, PageInv
    <3> QED BY <2>1, <3>1, <3>2 DEF PageInv, Places
  <2> QED BY <2>2, <2>6, <2>10, <2>11, <2>12 DEF Sound
<1>8. ASSUME "checkout" \in c.inflight
      PROVE  d = c
  BY <1>5, <1>8 DEF Guarded
<1> QED BY <1>1, <1>6, <1>7, <1>8 DEF Keeps

-----------------------------------------------------------------------------
(* The boot and a page load.                                               *)

LEMMA StartedKeeps ==
  ASSUME NEW c, Sound(c), HasRoom(c), NEW i, i = FreeSlot(c)
  PROVE  LET d == Join(Ask([c EXCEPT !.st = BootStart(@)], "boot", None, 0), i)
         IN i \in FlowIds /\ Sound(d) /\ Calm(c, d) /\ Asks(c, d)
<1>1. PICK s : s = BootStart(c.st)
  OBVIOUS
<1>2. PICK c1 : c1 = [c EXCEPT !.st = s]
  OBVIOUS
<1>3. Shape(c) /\ Typed(c) /\ c.st \in State
  BY SoundTyped
<1>4. /\ Frames(c, c1) /\ c1.st = s /\ c1.inflight = c.inflight /\ c1.token = c.token
      /\ c1.stored = c.stored
  BY <1>2, <1>3, StIs
<1>5. Sets(c.st, s)
  BY <1>1, <1>3, BootFollows
<1>6. i \in FlowIds /\ c.flows[i] = None
  BY DEF FreeSlot, HasRoom
<1>7. i = FreeSlot(c1)
  BY <1>4 DEF FreeSlot, Frames
<1>8. PICK f : f = Flow(c1, "boot", None, 0)
  OBVIOUS
<1>9. "boot" \in Kind /\ None \in ArgsOf("boot") /\ 0 \in 0..MaxFlows
      /\ c1.token \in Tokens \cup {NoToken}
  BY <1>3, <1>4, FlowsAssumption DEF Kind, RequestKey, ArgsOf, Typed
<1>10. /\ f.kind = "boot" /\ f.arg = None /\ f.body = None /\ f \in CallsOf("boot", None, None)
  BY <1>8, <1>9, FlowIs
<1>11. f = [kind |-> f.kind, at |-> f.at, tok |-> f.tok, arg |-> f.arg, of |-> f.of,
            status |-> f.status, body |-> f.body]
  BY <1>10 DEF CallsOf
<1>12. PICK e : e = Ask(c1, "boot", None, 0)
  OBVIOUS
<1>13. e = [c1 EXCEPT !.flows[i] = f]
  BY <1>7, <1>8, <1>12 DEF Ask
<1>14. Shape(c1)
  BY <1>4 DEF Frames
<1>15. Places(c1, e, i, f) /\ e.st = c1.st /\ e.inflight = c1.inflight /\ e.token = c1.token
       /\ e.stored = c1.stored
  BY <1>13, <1>14, SlotIs
<1>16. Shape(e) /\ e.flows[i] = f
  BY <1>6, <1>15 DEF Places
<1>17. PICK g : g = Joining(f)
  OBVIOUS
<1>18. PICK d : d = Join(e, i)
  OBVIOUS
<1>19. /\ Places(e, d, i, g) /\ d.st = e.st /\ d.inflight = e.inflight
       /\ d.token = e.token /\ d.stored = e.stored
  BY <1>6, <1>11, <1>16, <1>17, <1>18, JoinIs
<1>20. f \in CallsOf(f.kind, f.arg, f.body) /\ f.kind \in Joiners /\ f.arg \in ArgsOf(f.kind)
       /\ f.kind # "widgetSession"
  BY <1>9, <1>10 DEF Joiners, CallKind
<1>21. GoodCall(g) /\ g # None /\ g.kind = "boot"
  BY <1>10, <1>17, <1>20, GoodJoining
<1>22. Places(c, d, i, g)
  BY <1>4, <1>15, <1>19 DEF Places, Frames
<1>23. /\ d.st = s /\ Typed(d)
  BY <1>3, <1>4, <1>5, <1>15, <1>19 DEF Typed, Sets, Follows
<1>24. /\ d.st.pdp = c.st.pdp /\ d.st.detail = c.st.detail /\ (d.st.cancelled => c.st.cancelled)
       /\ d.st.pending = c.st.pending
  BY <1>5, <1>23 DEF Sets, Follows
<1>25. g.kind \notin {"checkout", "confirm"} /\ g.kind # "payment" /\ g.kind # "product"
  BY <1>21
<1>26. d.st.pending \subseteq c.st.pending \cup {g.kind} /\ c.st.pending \subseteq d.st.pending
  BY <1>24
<1>27. g.kind = "product" => g.arg = c.shown.pdp
  BY <1>25
<1>28. Sound(d) /\ Calm(c, d)
  BY <1>6, <1>21, <1>22, <1>23, <1>24, <1>25, <1>26, <1>27, SoundStart
<1>29. Asks(c, d)
  BY <1>22, <1>23, <1>24 DEF Asks, Places
<1> QED BY <1>2, <1>1, <1>6, <1>12, <1>18, <1>28, <1>29

LEMMA RestoreSessionKeeps ==
  ASSUME NEW c, Sound(c), NEW of \in 0..MaxFlows, HasRoom(RestoreSession(c, of))
  PROVE  HasRoom(c) /\ Sound(RestoreSession(c, of)) /\ Calm(c, RestoreSession(c, of))
<1>1. CASE c.token = NoToken
  BY <1>1 DEF RestoreSession, Calm
<1>2. CASE c.token # NoToken
  <2>1. PICK d : d = RestoreSession(c, of)
    OBVIOUS
  <2>2. d = Ask(c, "restore", None, of)
    BY <1>2, <2>1 DEF RestoreSession
  <2>3. Shape(c) /\ Typed(c) /\ c.st \in State /\ c.token \in Tokens \cup {NoToken}
    BY SoundTyped DEF Typed
  <2>4. "restore" \in Kind /\ None \in ArgsOf("restore") /\ MayAsk("restore", None)
    BY DEF Kind, RequestKey, ArgsOf, MayAsk, CallKind
  <2>5. PICK i, f : i = FreeSlot(c) /\ f = Flow(c, "restore", None, of)
    OBVIOUS
  <2>6. HasRoom(Ask(c, "restore", None, of))
    BY <2>1, <2>2
  <2>7. /\ HasRoom(c) /\ i \in FlowIds /\ c.flows[i] = None /\ Places(c, d, i, f)
        /\ d.st = c.st /\ d.inflight = c.inflight /\ d.token = c.token /\ d.stored = c.stored
    BY <2>2, <2>3, <2>4, <2>5, <2>6, AskIs
  <2>8. GoodCall(f) /\ f # None /\ f.kind = "restore"
    BY <2>3, <2>4, <2>5, GoodFlow, FlowIs
  <2>9. f.kind \notin {"checkout", "confirm"} /\ f.kind # "payment" /\ f.kind # "product"
    BY <2>8
  <2>10. f.kind = "product" => f.arg = c.shown.pdp
    BY <2>9
  <2>11. Typed(d)
    BY <2>3, <2>7 DEF Typed
  <2>12. d.st.pdp = c.st.pdp /\ d.st.detail = c.st.detail /\ (d.st.cancelled => c.st.cancelled)
         /\ d.st.pending \subseteq c.st.pending \cup {f.kind} /\ c.st.pending \subseteq d.st.pending
    BY <2>7
  <2>13. Sound(d) /\ Calm(c, d)
    BY <2>7, <2>8, <2>9, <2>10, <2>11, <2>12, SoundStart
  <2> QED BY <2>1, <2>7, <2>13
<1> QED BY <1>1, <1>2

LEMMA RestoreSessionAsks ==
  ASSUME NEW c, Shape(c), Typed(c), NEW of \in 0..MaxFlows
  PROVE  Asks(c, RestoreSession(c, of))
<1>1. MayAsk("restore", None)
  BY DEF Kind, RequestKey, ArgsOf, MayAsk, CallKind
<1>2. Asks(c, Ask(c, "restore", None, of))
  BY <1>1, AskAsks
<1> QED BY <1>2 DEF RestoreSession, Asks

LEMMA RunBootKeeps ==
  ASSUME NEW c, Sound(c), HasRoom(c)
  PROVE  /\ Keeps(c, RunBoot(c))
         /\ HasRoom(RunBoot(c)) => Calm(c, RunBoot(c))
<1>1. PICK i : i = FreeSlot(c)
  OBVIOUS
<1>2. PICK d1 : d1 = Join(Ask([c EXCEPT !.st = BootStart(@)], "boot", None, 0), i)
  OBVIOUS
<1>3. i \in FlowIds /\ Sound(d1) /\ Calm(c, d1) /\ Asks(c, d1)
  BY <1>1, <1>2, StartedKeeps
<1>4. i \in 0..MaxFlows
  BY <1>3, FlowsAssumption DEF FlowIds
<1>5. PICK d2 : d2 = LoadTrust(d1, i)
  OBVIOUS
<1>6. PICK d3 : d3 = LoadProducts(d2, i)
  OBVIOUS
<1>7. PICK d4 : d4 = RestoreSession(d3, i)
  OBVIOUS
<1>8. d4 = RunBoot(c)
  BY <1>1, <1>2, <1>5, <1>6, <1>7 DEF RunBoot
<1>9. Asks(d1, d2)
  BY <1>3, <1>4, <1>5, LoadsAsk DEF Asks
<1>10. Asks(d2, d3)
  BY <1>4, <1>6, <1>9, LoadsAsk DEF Asks
<1>11. Asks(d3, d4)
  BY <1>4, <1>7, <1>10, RestoreSessionAsks DEF Asks
<1>12. Asks(c, d4)
  BY <1>3, <1>9, <1>10, <1>11, AsksTrans
<1>13. ASSUME HasRoom(d4)
       PROVE  Sound(d4) /\ Calm(c, d4)
  <2>1. HasRoom(d3) /\ HasRoom(d2)
    BY <1>10, <1>11, <1>13 DEF Asks
  <2>2. Sound(d2) /\ Calm(d1, d2)
    BY <1>3, <1>4, <1>5, <2>1, LoadsKeep
  <2>3. Sound(d3) /\ Calm(d2, d3)
    BY <1>4, <1>6, <2>1, <2>2, LoadsKeep
  <2>4. Sound(d4) /\ Calm(d3, d4)
    BY <1>4, <1>7, <1>13, <2>3, RestoreSessionKeeps
  <2> QED BY <1>3, <2>2, <2>3, <2>4, CalmTrans
<1> QED BY <1>8, <1>12, <1>13 DEF Keeps, Calm

LEMMA InitialStateIs ==
  /\ InitialState \in State /\ InitialState.pending = {} /\ InitialState.pdp = None
  /\ InitialState.detail = None /\ InitialState.cancelled = FALSE
BY NoLinesIs, ShopAssumption DEF InitialState, State, Screen, GatedScreen

\* A page on which nothing is under way.
Resting(c) ==
  /\ Shape(c) /\ Typed(c) /\ c.shown \in State /\ c.widget = None /\ c.sheet = None
  /\ \A i \in FlowIds : c.flows[i] = None
  /\ c.st.pending = {} /\ c.st.pdp = None /\ c.st.detail = None /\ c.shown.pdp = None
  /\ c.st.cancelled = FALSE

LEMMA RestingSound ==
  ASSUME NEW c, Resting(c)
  PROVE  Sound(c) /\ Rested(c)
<1>1. GoodTab(c)
  BY DEF Resting, GoodTab, Typed
<1>2. \A i \in FlowIds : ~ Opens(c, i) /\ ~ Tells(c, i)
  BY DEF Resting, Opens, Tells
<1>3. ~ SheetWaits(c)
  BY DEF Resting, SheetWaits
<1>4. FlagsInv(c) /\ PayInv(c)
  BY <1>2, <1>3 DEF Resting, FlagsInv, PayInv
<1>5. PageInv(c)
  BY DEF Resting, PageInv
<1>6. Rested(c)
  BY <1>2, <1>3 DEF Resting, Rested, Paying
<1> QED BY <1>1, <1>4, <1>5, <1>6 DEF Sound

LEMMA OpenPageKeeps ==
  ASSUME NEW token \in Tokens \cup {NoToken}, NEW stored \in Lines,
         HasRoom(OpenPage(token, stored))
  PROVE  /\ Sound(OpenPage(token, stored)) /\ Rested(OpenPage(token, stored))
         /\ OpenPage(token, stored).st.cancelled = FALSE
<1>1. PICK s : s = SetCartBuffer(InitialState, stored)
  OBVIOUS
<1>2. PICK none : none = {}
  OBVIOUS
<1>3. PICK flows : flows = [i \in FlowIds |-> None]
  OBVIOUS
<1>4. PICK blank : blank = [st |-> s, shown |-> InitialState,
                inflight |-> none, token |-> token, stored |-> stored,
                flows |-> flows, widget |-> None, sheet |-> None]
  OBVIOUS
<1>5. PICK d : d = OpenPage(token, stored)
  OBVIOUS
<1>6. d = RunBoot(blank)
  BY <1>1, <1>2, <1>3, <1>4, <1>5 DEF OpenPage
<1>7. Sets(InitialState, s)
  BY <1>1, InitialStateIs, BufferFollows
<1>8. s \in State /\ s.pending = {} /\ s.pdp = None /\ s.detail = None /\ s.cancelled = FALSE
  <2>1. s \in State /\ s.pending = {} /\ s.pdp = None /\ s.detail = None
    BY <1>7, InitialStateIs DEF Sets, Follows
  <2>2. s.cancelled \in BOOLEAN
    BY <2>1 DEF State
  <2>3. ~ s.cancelled
    BY <1>7, InitialStateIs DEF Sets, Follows
  <2> QED BY <2>1, <2>2, <2>3
<1>9. flows = [i \in FlowIds |-> flows[i]] /\ \A i \in FlowIds : flows[i] = None
  BY <1>3
<1>10. Shape(blank)
  BY <1>4, <1>9 DEF Shape
<1>11. Typed(blank)
  BY <1>2, <1>4, <1>8 DEF Typed
<1>12. Resting(blank)
  BY <1>4, <1>8, <1>9, <1>10, <1>11, InitialStateIs DEF Resting
<1>13. Sound(blank) /\ Rested(blank)
  BY <1>12, RestingSound
<1>14. CASE HasRoom(blank)
  <2>1. Sound(d) /\ Calm(blank, d)
    BY <1>5, <1>6, <1>13, <1>14, RunBootKeeps DEF Keeps
  <2>2. Rested(d)
    BY <1>13, <2>1, CalmRests
  <2>3. d.st.cancelled \in BOOLEAN /\ ~ d.st.cancelled
    BY <1>4, <1>8, <2>1, SoundTyped DEF Calm, State
  <2> QED BY <1>5, <2>1, <2>2, <2>3
<1>15. CASE ~ HasRoom(blank)
  <2>1. FlowIds = {}
    BY <1>4, <1>9, <1>15 DEF HasRoom
  <2> QED BY <2>1 DEF HasRoom
<1> QED BY <1>14, <1>15

-----------------------------------------------------------------------------
(* Going on with an answer.                                                *)

\* A call of a sound tab that has been answered.
Heard(c, i) ==
  /\ Sound(c) /\ i \in FlowIds /\ c.flows[i] # None /\ c.flows[i].at = "answered"

LEMMA HeardIs ==
  ASSUME NEW c, NEW i, Heard(c, i)
  PROVE  /\ GoodCall(c.flows[i]) /\ c.flows[i].kind \in CallKind \ {"boot"} /\ c.st \in State
         /\ c.flows[i].arg \in ArgsOf(c.flows[i].kind)
         /\ c.flows[i].status = "ok" => c.flows[i].body \in BodiesOf(c.flows[i].kind, c.flows[i].arg)
         /\ c.flows[i].kind = "widgetSession" =>
              (c.flows[i].arg.step = "replay" => ~ IsEmpty(c.flows[i].arg.left))
         /\ Shape(c) /\ Typed(c)
<1>1. Sound(c) /\ i \in FlowIds /\ c.flows[i] # None /\ c.flows[i].at = "answered"
  BY DEF Heard
<1>2. PICK f : f = c.flows[i]
  OBVIOUS
<1>3. GoodCall(f) /\ Shape(c) /\ Typed(c) /\ c.st \in State
  BY <1>1, <1>2, SoundTyped
<1>4. f.at = "answered"
  BY <1>1, <1>2
<1>5. f.kind \in CallKind \ {"boot"} /\ f.arg \in ArgsOf(f.kind)
  BY <1>3, <1>4 DEF GoodCall, CallKind
<1>6. f.status = "ok" => f.body \in BodiesOf(f.kind, f.arg)
  BY <1>3, <1>4 DEF GoodCall, CallKind
<1>7. f.kind = "widgetSession" => (f.arg.step = "replay" => ~ IsEmpty(f.arg.left))
  BY <1>3, <1>4 DEF GoodCall, CallKind
<1> QED BY <1>2, <1>3, <1>5, <1>6, <1>7

LEMMA LoadsAnswered ==
  ASSUME NEW c, NEW i, Heard(c, i)
  PROVE  /\ c.flows[i].kind = "trust" => Sound(TrustAnswered(c, i)) /\ Calm(c, TrustAnswered(c, i))
         /\ c.flows[i].kind = "products" =>
              Sound(ProductsAnswered(c, i)) /\ Calm(c, ProductsAnswered(c, i))
         /\ c.flows[i].kind = "addresses" =>
              Sound(AddressesAnswered(c, i)) /\ Calm(c, AddressesAnswered(c, i))
         /\ c.flows[i].kind = "orders" =>
              Sound(OrdersAnswered(c, i)) /\ Calm(c, OrdersAnswered(c, i))
         /\ c.flows[i].kind = "addressDelete" =>
              Sound(AddressDeleteAnswered(c, i)) /\ Calm(c, AddressDeleteAnswered(c, i))
<1>1. /\ Sound(c) /\ i \in FlowIds /\ c.flows[i] # None /\ c.st \in State
      /\ c.flows[i].status = "ok" => c.flows[i].body \in BodiesOf(c.flows[i].kind, c.flows[i].arg)
  BY HeardIs DEF Heard
<1>2. PICK body : body = c.flows[i].body
  OBVIOUS
<1>3. /\ "trust" \in PlainKey /\ "products" \in PlainKey /\ "addresses" \in PlainKey
      /\ "orders" \in PlainKey /\ "addressDelete" \in PlainKey
  BY DEF PlainKey, RequestKey
<1>4. ASSUME c.flows[i].kind = "trust"
      PROVE  Sound(TrustAnswered(c, i)) /\ Calm(c, TrustAnswered(c, i))
  <2>1. PICK s : s = TrustLoaded(c.st)
    OBVIOUS
  <2>2. Follows(c.st, s) /\ "trust" \notin s.pending
    BY <1>1, <2>1, LoadedFollows
  <2>3. TrustAnswered(c, i) = Settle(c, i, "trust", s)
    BY <2>1 DEF TrustAnswered
  <2> QED BY <1>1, <1>3, <1>4, <2>2, <2>3, SettleKeeps
<1>5. ASSUME c.flows[i].kind = "products"
      PROVE  Sound(ProductsAnswered(c, i)) /\ Calm(c, ProductsAnswered(c, i))
  <2>1. PICK s : s = ProductsLoaded(c.st, body)
    OBVIOUS
  <2>2. c.flows[i].status = "ok" => body \in SUBSET Products
    BY <1>1, <1>2, <1>5 DEF BodiesOf
  <2>3. c.flows[i].status = "ok" => Follows(c.st, s) /\ "products" \notin s.pending
    BY <1>1, <2>1, <2>2, LoadedFollows
  <2>4. ProductsAnswered(c, i) = Settle(c, i, "products", s)
    BY <1>2, <2>1 DEF ProductsAnswered
  <2> QED BY <1>1, <1>3, <1>5, <2>3, <2>4, SettleKeeps
<1>6. ASSUME c.flows[i].kind = "addresses"
      PROVE  Sound(AddressesAnswered(c, i)) /\ Calm(c, AddressesAnswered(c, i))
  <2>1. PICK s : s = AddressesLoaded(c.st, body)
    OBVIOUS
  <2>2. c.flows[i].status = "ok" => body \in Book
    BY <1>1, <1>2, <1>6 DEF BodiesOf
  <2>3. c.flows[i].status = "ok" => Follows(c.st, s) /\ "addresses" \notin s.pending
    BY <1>1, <2>1, <2>2, BookLoadedFollows
  <2>4. AddressesAnswered(c, i) = Settle(c, i, "addresses", s)
    BY <1>2, <2>1 DEF AddressesAnswered
  <2> QED BY <1>1, <1>3, <1>6, <2>3, <2>4, SettleKeeps
<1>7. ASSUME c.flows[i].kind = "orders"
      PROVE  Sound(OrdersAnswered(c, i)) /\ Calm(c, OrdersAnswered(c, i))
  <2>1. PICK s : s = OrdersLoaded(c.st, body)
    OBVIOUS
  <2>2. c.flows[i].status = "ok" => body \in SUBSET OrderIds
    BY <1>1, <1>2, <1>7 DEF BodiesOf
  <2>3. c.flows[i].status = "ok" => Follows(c.st, s) /\ "orders" \notin s.pending
    BY <1>1, <2>1, <2>2, LoadedFollows
  <2>4. OrdersAnswered(c, i) = Settle(c, i, "orders", s)
    BY <1>2, <2>1 DEF OrdersAnswered
  <2> QED BY <1>1, <1>3, <1>7, <2>3, <2>4, SettleKeeps
<1>8. ASSUME c.flows[i].kind = "addressDelete"
      PROVE  Sound(AddressDeleteAnswered(c, i)) /\ Calm(c, AddressDeleteAnswered(c, i))
  <2>1. PICK s : s = AddressDeleted(c.st, body)
    OBVIOUS
  <2>2. c.flows[i].status = "ok" => body \in Book
    BY <1>1, <1>2, <1>8 DEF BodiesOf
  <2>3. c.flows[i].status = "ok" => Follows(c.st, s) /\ "addressDelete" \notin s.pending
    BY <1>1, <2>1, <2>2, BookLoadedFollows
  <2>4. AddressDeleteAnswered(c, i) = Settle(c, i, "addressDelete", s)
    BY <1>2, <2>1 DEF AddressDeleteAnswered
  <2> QED BY <1>1, <1>3, <1>8, <2>3, <2>4, SettleKeeps
<1> QED BY <1>4, <1>5, <1>6, <1>7, <1>8

LEMMA CartAnsweredKeeps ==
  ASSUME NEW c, NEW i, Heard(c, i), c.flows[i].kind = "cart"
  PROVE  Sound(CartAnswered(c, i)) /\ Calm(c, CartAnswered(c, i))
<1>1. /\ Sound(c) /\ i \in FlowIds /\ c.flows[i] # None /\ c.st \in State
      /\ c.flows[i].status = "ok" => c.flows[i].body \in BodiesOf(c.flows[i].kind, c.flows[i].arg)
      /\ c.flows[i].arg \in ArgsOf(c.flows[i].kind)
  BY HeardIs DEF Heard
<1>2. PICK body, then : body = c.flows[i].body /\ then = c.flows[i].arg.then
  OBVIOUS
<1>3. then \in Screen \cup {None}
  BY <1>1, <1>2 DEF ArgsOf, CartCalls
<1>4. c.flows[i].status = "ok" => body \in Lines
  BY <1>1, <1>2 DEF BodiesOf
<1>5. PICK t : t = CartLoaded(c.st, body)
  OBVIOUS
<1>6. PICK s : s = IF then = None THEN t ELSE Go(t, then)
  OBVIOUS
<1>7. c.flows[i].status = "ok" => Follows(c.st, s) /\ "cart" \notin s.pending
  <2>1. HAVE c.flows[i].status = "ok"
  <2>2. Follows(c.st, t) /\ "cart" \notin t.pending /\ t \in State
    BY <1>1, <1>4, <1>5, <2>1, LoadedFollows DEF Follows
  <2>3. CASE then = None
    BY <1>6, <2>2, <2>3
  <2>4. CASE then # None
    <3>1. Follows(t, Go(t, then))
      BY <1>3, <2>2, <2>4, GoFollows
    <3>2. "cart" \notin Go(t, then).pending
      BY <2>2, <3>1 DEF Follows
    <3> QED BY <1>6, <2>2, <2>4, <3>1, <3>2, FollowsTrans
  <2> QED BY <2>3, <2>4
<1>8. CartAnswered(c, i) = Settle(c, i, "cart", s)
  BY <1>2, <1>5, <1>6 DEF CartAnswered
<1>9. "cart" \in PlainKey
  BY DEF PlainKey, RequestKey
<1> QED BY <1>1, <1>7, <1>8, <1>9, SettleKeeps

\* What the load of the product page brings.
LEMMA ProductAnsweredKeeps ==
  ASSUME NEW c, NEW i, Heard(c, i), Rested(c), c.flows[i].kind = "product"
  PROVE  Sound(ProductAnswered(c, i)) /\ Calm(c, ProductAnswered(c, i))
<1>1. /\ Sound(c) /\ i \in FlowIds /\ c.flows[i] # None /\ c.st \in State
      /\ c.flows[i].status = "ok" => c.flows[i].body \in BodiesOf(c.flows[i].kind, c.flows[i].arg)
      /\ Shape(c) /\ Typed(c)
  BY HeardIs DEF Heard
<1>2. PICK p, s : p = c.flows[i].body /\ s = Settled(c.st, "product")
  OBVIOUS
<1>3. PICK t : t = [s EXCEPT !.detail = p]
  OBVIOUS
<1>4. "product" \in PlainKey
  BY DEF PlainKey, RequestKey
<1>5. ProductAnswered(c, i) = Settle(c, i, "product", t)
  BY <1>2, <1>3 DEF ProductAnswered, ProductLoaded
<1>6. CASE c.flows[i].status # "ok"
  BY <1>1, <1>4, <1>5, <1>6, SettleKeeps
<1>7. CASE c.flows[i].status = "ok"
  <2>1. p = c.st.pdp
    BY <1>1, <1>2, <1>7 DEF BodiesOf, Sound, PageInv, Rested
  <2>2. Follows(c.st, s) /\ "product" \notin s.pending
    BY <1>1, <1>2, <1>4, SettledFollows
  <2>3. PICK c1 : c1 = [c EXCEPT !.st = s]
    OBVIOUS
  <2>4. PICK e : e = [c EXCEPT !.st = t]
    OBVIOUS
  <2>5. /\ Frames(c, c1) /\ c1.st = s /\ c1.inflight = c.inflight /\ c1.token = c.token
        /\ c1.stored = c.stored
        /\ Frames(c, e) /\ e.st = t /\ e.inflight = c.inflight /\ e.token = c.token
        /\ e.stored = c.stored
    BY <1>1, <2>3, <2>4, StIs
  <2>6. PICK d1 : d1 = Finally(c1, i, "product")
    OBVIOUS
  <2>7. PICK d : d = Finally(e, i, "product")
    OBVIOUS
  <2>8. d = ProductAnswered(c, i)
    BY <1>5, <1>7, <2>4, <2>7 DEF Settle
  <2>9. Shape(c1) /\ Shape(e)
    BY <2>5 DEF Frames
  <2>10. /\ Places(c1, d1, i, None) /\ d1.st = s /\ d1.inflight = c.inflight \ {"product"}
         /\ d1.token = c.token /\ d1.stored = c.stored
    BY <1>1, <2>5, <2>6, <2>9, EndIs
  <2>11. /\ Places(e, d, i, None) /\ d.st = t /\ d.inflight = c.inflight \ {"product"}
         /\ d.token = c.token /\ d.stored = c.stored
    BY <1>1, <2>5, <2>7, <2>9, EndIs
  <2>12. d1 = Settle(c, i, "product", s)
    BY <1>7, <2>3, <2>6 DEF Settle
  <2>13. Sound(d1) /\ Calm(c, d1)
    BY <1>1, <1>4, <1>7, <2>2, <2>12, SettleKeeps
  <2>14. d.flows = d1.flows /\ d.shown = d1.shown /\ d.widget = d1.widget /\ d.sheet = d1.sheet
         /\ Shape(d)
    BY <2>5, <2>10, <2>11 DEF Places, Frames, Shape
  <2>15. t \in State /\ t.pending = s.pending /\ t.pdp = s.pdp /\ t.cancelled = s.cancelled
         /\ t.detail = s.pdp
    BY <1>3, <2>1, <2>2 DEF Follows, State
  <2>16. GoodTab(d)
    BY <2>10, <2>11, <2>13, <2>14, <2>15 DEF Sound, GoodTab
  <2>17. /\ \A j \in FlowIds : Opens(d, j) <=> Opens(d1, j)
         /\ \A j \in FlowIds : Tells(d, j) <=> Tells(d1, j)
         /\ SheetWaits(d) <=> SheetWaits(d1)
         /\ \A key : Has(d, key) <=> Has(d1, key)
    BY <2>14 DEF Opens, Tells, SheetWaits, Has
  <2>18. FlagsInv(d) /\ PayInv(d)
    BY <2>10, <2>11, <2>13, <2>15, <2>17 DEF Sound, FlagsInv, PayInv
  <2>19. PageInv(d)
    BY <2>10, <2>11, <2>13, <2>14, <2>15 DEF Sound, PageInv
  <2>20. Calm(c, d)
    BY <2>10, <2>11, <2>13, <2>14, <2>15, <2>17 DEF Calm, Paying
  <2> QED BY <2>8, <2>16, <2>18, <2>19, <2>20 DEF Sound
<1> QED BY <1>6, <1>7

\* The tab with other values of the token.
LEMMA TokenIs ==
  ASSUME NEW c, Shape(c), NEW tok
  PROVE  LET d == [c EXCEPT !.token = tok]
         IN /\ Frames(c, d) /\ d.st = c.st /\ d.inflight = c.inflight /\ d.token = tok
            /\ d.stored = c.stored
BY DEF Shape, Frames

LEMMA RestoreAnsweredKeeps ==
  ASSUME NEW c, NEW i, Heard(c, i), c.flows[i].kind = "restore", HasRoom(RestoreAnswered(c, i))
  PROVE  Sound(RestoreAnswered(c, i)) /\ Calm(c, RestoreAnswered(c, i))
<1>1. /\ Sound(c) /\ i \in FlowIds /\ c.flows[i] # None /\ c.st \in State
      /\ c.flows[i].status = "ok" => c.flows[i].body \in BodiesOf(c.flows[i].kind, c.flows[i].arg)
      /\ Shape(c) /\ Typed(c)
  BY HeardIs DEF Heard
<1>2. i \in 0..MaxFlows
  BY <1>1, FlowsAssumption DEF FlowIds
<1>3. PICK d : d = RestoreAnswered(c, i)
  OBVIOUS
<1>4. ~ Opens(c, i) /\ ~ Tells(c, i)
  BY DEF Opens, Tells
<1>5. c.flows[i].kind \notin RequestKey
  BY DEF RequestKey
<1>6. CASE c.flows[i].status = "ok"
  <2>1. PICK s : s = SessionRestored(c.st, c.flows[i].body)
    OBVIOUS
  <2>2. c.flows[i].body \in Shoppers \cup {None}
    BY <1>1, <1>6 DEF BodiesOf
  <2>3. Follows(c.st, s)
    BY <1>1, <2>1, <2>2, UserFollows DEF Sets
  <2>4. PICK c1 : c1 = [c EXCEPT !.st = s]
    OBVIOUS
  <2>5. Sound(c1) /\ Calm(c, c1) /\ c1.flows = c.flows
    BY <1>1, <2>3, <2>4, StKeeps
  <2>6. PICK c2 : c2 = Join(c1, i)
    OBVIOUS
  <2>7. c1.flows[i] # None /\ c1.flows[i].kind \in Joiners \ {"confirm"}
        /\ c1.flows[i].kind # "widgetSession"
    BY <1>1, <2>5 DEF Joiners, CallKind
  <2>8. Sound(c2) /\ Calm(c1, c2)
    BY <1>1, <2>5, <2>6, <2>7, JoinKeeps
  <2>9. PICK c3 : c3 = LoadCart(c2, i)
    OBVIOUS
  <2>10. d = LoadAddresses(c3, i)
    BY <1>3, <1>6, <2>1, <2>4, <2>6, <2>9 DEF RestoreAnswered
  <2>11. Asks(c2, c3)
    BY <1>2, <2>8, <2>9, LoadsAsk, SoundTyped
  <2>12. Asks(c3, d)
    BY <1>2, <2>10, <2>11, LoadsAsk DEF Asks
  <2>13. HasRoom(d) /\ HasRoom(c3)
    BY <1>3, <2>12 DEF Asks
  <2>14. Sound(c3) /\ Calm(c2, c3)
    BY <1>2, <2>8, <2>9, <2>13, LoadsKeep
  <2>15. Sound(d) /\ Calm(c3, d)
    BY <1>2, <2>10, <2>13, <2>14, LoadsKeep
  <2> QED BY <1>3, <2>5, <2>8, <2>14, <2>15, CalmTrans
<1>7. CASE c.flows[i].status # "ok"
  <2>1. PICK e : e = End(c, i)
    OBVIOUS
  <2>2. /\ Places(c, e, i, None) /\ e.st = c.st /\ e.inflight = c.inflight
        /\ e.token = c.token /\ e.stored = c.stored
    BY <1>1, <2>1, EndIs
  <2>3. Typed(e) /\ Follows(c.st, e.st) /\ Shape(e)
    BY <1>1, <2>2, FollowsSame DEF Typed, Places
  <2>4. c.flows[i].kind \notin e.st.pending
    BY <1>1, <1>5, <2>2 DEF State
  <2>5. Sound(e) /\ Calm(c, e)
    BY <1>1, <1>4, <2>2, <2>3, <2>4, SoundEnd
  <2>6. CASE c.flows[i].status = "401"
    <3>1. PICK none : none = NoToken
      OBVIOUS
    <3>2. d = [e EXCEPT !.token = none]
      BY <1>3, <1>7, <2>1, <2>6, <3>1 DEF RestoreAnswered
    <3>3. /\ Frames(e, d) /\ d.st = e.st /\ d.inflight = e.inflight /\ d.token = none
          /\ d.stored = e.stored
      BY <2>3, <3>2, TokenIs
    <3>4. Typed(d) /\ Follows(e.st, d.st)
      BY <2>3, <3>1, <3>3, FollowsSame DEF Typed
    <3>5. Sound(d) /\ Calm(e, d)
      BY <2>5, <3>3, <3>4, SoundFrame
    <3> QED BY <1>3, <2>5, <3>5, CalmTrans
  <2>7. CASE c.flows[i].status # "401"
    <3>1. PICK s : s = ReqFail(e.st, "session")
      OBVIOUS
    <3>2. "session" \in PlainKey
      BY DEF PlainKey, RequestKey
    <3>3. Follows(e.st, s)
      BY <2>3, <3>1, <3>2, ReqFailFollows DEF Typed
    <3>4. d = [e EXCEPT !.st = s]
      BY <1>3, <1>7, <2>1, <2>7, <3>1 DEF RestoreAnswered
    <3>5. Sound(d) /\ Calm(e, d)
      BY <2>5, <3>3, <3>4, StKeeps
    <3> QED BY <1>3, <2>5, <3>5, CalmTrans
  <2> QED BY <2>6, <2>7
<1> QED BY <1>6, <1>7

LEMMA AddressSaveAnsweredKeeps ==
  ASSUME NEW c, NEW i, Heard(c, i), c.flows[i].kind = "addressSave",
         HasRoom(AddressSaveAnswered(c, i))
  PROVE  Sound(AddressSaveAnswered(c, i)) /\ Calm(c, AddressSaveAnswered(c, i))
<1>1. /\ Sound(c) /\ i \in FlowIds /\ c.flows[i] # None /\ c.st \in State
      /\ c.flows[i].status = "ok" => c.flows[i].body \in BodiesOf(c.flows[i].kind, c.flows[i].arg)
      /\ Shape(c) /\ Typed(c)
  BY HeardIs DEF Heard
<1>2. i \in 0..MaxFlows
  BY <1>1, FlowsAssumption DEF FlowIds
<1>3. PICK d : d = AddressSaveAnswered(c, i)
  OBVIOUS
<1>4. CASE c.flows[i].status = "ok"
  <2>1. PICK s : s = AddressSaved(c.st, c.flows[i].body)
    OBVIOUS
  <2>2. c.flows[i].body \in AddressIds
    BY <1>1, <1>4 DEF BodiesOf
  <2>3. Follows(c.st, s)
    BY <1>1, <2>1, <2>2, SavedFollows
  <2>4. PICK c1 : c1 = [c EXCEPT !.st = s]
    OBVIOUS
  <2>5. Sound(c1) /\ Calm(c, c1) /\ c1.flows = c.flows
    BY <1>1, <2>3, <2>4, StKeeps
  <2>6. PICK c2 : c2 = Join(c1, i)
    OBVIOUS
  <2>7. c1.flows[i] # None /\ c1.flows[i].kind \in Joiners \ {"confirm"}
        /\ c1.flows[i].kind # "widgetSession"
    BY <1>1, <2>5 DEF Joiners, CallKind
  <2>8. Sound(c2) /\ Calm(c1, c2)
    BY <1>1, <2>5, <2>6, <2>7, JoinKeeps
  <2>9. d = LoadAddresses(c2, i)
    BY <1>3, <1>4, <2>1, <2>4, <2>6 DEF AddressSaveAnswered
  <2>10. Sound(d) /\ Calm(c2, d)
    BY <1>2, <1>3, <2>8, <2>9, LoadsKeep
  <2> QED BY <1>3, <2>5, <2>8, <2>10, CalmTrans
<1>5. CASE c.flows[i].status = "fields" /\ ~ c.flows[i].arg.dflt
  <2>1. PICK s : s = SetAddrFieldError(c.st)
    OBVIOUS
  <2>2. Follows(c.st, s)
    BY <1>1, <2>1, FormFollows DEF Sets
  <2>3. PICK c1 : c1 = [c EXCEPT !.st = s]
    OBVIOUS
  <2>4. Sound(c1) /\ Calm(c, c1) /\ c1.flows = c.flows
    BY <1>1, <2>2, <2>3, StKeeps
  <2>5. d = Finally(c1, i, "addressSave")
    BY <1>3, <1>5, <2>1, <2>3 DEF AddressSaveAnswered
  <2>6. Sound(d) /\ Calm(c1, d)
    BY <1>1, <2>4, <2>5, FinallyKeeps
  <2> QED BY <1>3, <2>4, <2>6, CalmTrans
<1>6. CASE c.flows[i].status # "ok" /\ ~ (c.flows[i].status = "fields" /\ ~ c.flows[i].arg.dflt)
  <2>1. PICK s : s = c.st
    OBVIOUS
  <2>2. d = Settle(c, i, "addressSave", s)
    BY <1>3, <1>6, <2>1 DEF AddressSaveAnswered
  <2>3. "addressSave" \in PlainKey
    BY DEF PlainKey, RequestKey
  <2> QED BY <1>1, <1>3, <1>6, <2>2, <2>3, SettleKeeps
<1> QED BY <1>4, <1>5, <1>6

-----------------------------------------------------------------------------
(* Signing in.                                                             *)

LEMMA ExchangeAnsweredKeeps ==
  ASSUME NEW c, NEW i, Heard(c, i), c.flows[i].kind = "widgetSession",
         c.flows[i].arg.step = "exchange", HasRoom(ExchangeAnswered(c, i))
  PROVE  Sound(ExchangeAnswered(c, i)) /\ Calm(c, ExchangeAnswered(c, i))
<1>1. /\ Sound(c) /\ i \in FlowIds /\ c.flows[i] # None /\ c.st \in State
      /\ c.flows[i].status = "ok" => c.flows[i].body \in BodiesOf(c.flows[i].kind, c.flows[i].arg)
      /\ Shape(c) /\ Typed(c) /\ GoodCall(c.flows[i])
  BY HeardIs DEF Heard
<1>2. i \in 0..MaxFlows
  BY <1>1, FlowsAssumption DEF FlowIds
<1>3. PICK d : d = ExchangeAnswered(c, i)
  OBVIOUS
<1>4. PICK f : f = c.flows[i]
  OBVIOUS
<1>5. CASE f.status # "ok"
  <2>1. PICK s : s = c.st
    OBVIOUS
  <2>2. d = Settle(c, i, "widgetSession", s)
    BY <1>3, <1>4, <1>5, <2>1 DEF ExchangeAnswered
  <2>3. "widgetSession" \in PlainKey
    BY DEF PlainKey, RequestKey
  <2> QED BY <1>1, <1>3, <1>4, <1>5, <2>2, <2>3, SettleKeeps
<1>6. CASE f.status = "ok"
  <2>1. PICK tok, user : tok = f.body.token /\ user = f.body.user
    OBVIOUS
  <2>2. tok \in Tokens \cup {NoToken} /\ user \in Shoppers \cup {None}
    BY <1>1, <1>4, <1>6, <2>1 DEF BodiesOf, Sessions
  <2>3. PICK arg1 : arg1 = [f.arg EXCEPT !.step = "replay"]
    OBVIOUS
  <2>4. PICK arg2 : arg2 = [arg1 EXCEPT !.user = user]
    OBVIOUS
  <2>5. f.arg \in SignIns
    BY <1>1, <1>4, HeardIs DEF ArgsOf
  <2>6. arg2 \in SignIns /\ arg2.step = "replay"
    BY <2>2, <2>3, <2>4, <2>5 DEF SignIns
  <2>7. f = [kind |-> f.kind, at |-> f.at, tok |-> f.tok, arg |-> f.arg, of |-> f.of,
             status |-> f.status, body |-> f.body]
        /\ f \in CallsOf(f.kind, f.arg, f.body)
    BY <1>1, <1>4, GoodCallIs DEF GoodCall, CallKind
  <2>8. PICK f1 : f1 = [f EXCEPT !.arg = arg1]
    OBVIOUS
  <2>9. PICK f2 : f2 = [f1 EXCEPT !.arg = arg2]
    OBVIOUS
  <2>10. /\ f2 = [kind |-> f2.kind, at |-> f2.at, tok |-> f2.tok, arg |-> f2.arg, of |-> f2.of,
                  status |-> f2.status, body |-> f2.body]
         /\ f2.kind = f.kind /\ f2.arg = arg2 /\ f2.at = f.at /\ f2.tok = f.tok /\ f2.of = f.of
         /\ f2.status = f.status /\ f2.body = f.body /\ f1.arg = arg1
    BY <2>7, <2>8, <2>9
  <2>11. f2 \in CallsOf(f2.kind, f2.arg, f2.body)
    BY <2>7, <2>10 DEF CallsOf
  <2>12. PICK c1 : c1 = [c EXCEPT !.token = tok]
    OBVIOUS
  <2>13. /\ Frames(c, c1) /\ c1.st = c.st /\ c1.inflight = c.inflight /\ c1.token = tok
         /\ c1.stored = c.stored
    BY <1>1, <2>12, TokenIs
  <2>14. Shape(c1) /\ c1.flows[i] = f
    BY <1>4, <2>13 DEF Frames
  <2>15. PICK c2 : c2 = [c1 EXCEPT !.flows[i] = f1]
    OBVIOUS
  <2>16. /\ Places(c1, c2, i, f1) /\ c2.st = c1.st /\ c2.inflight = c1.inflight
         /\ c2.token = c1.token /\ c2.stored = c1.stored
    BY <2>14, <2>15, SlotIs
  <2>17. Shape(c2) /\ c2.flows[i] = f1
    BY <1>1, <2>16 DEF Places
  <2>18. PICK c3 : c3 = [c2 EXCEPT !.flows[i] = f2]
    OBVIOUS
  <2>19. /\ Places(c2, c3, i, f2) /\ c3.st = c2.st /\ c3.inflight = c2.inflight
         /\ c3.token = c2.token /\ c3.stored = c2.stored
    BY <2>17, <2>18, SlotIs
  <2>20. Shape(c3) /\ c3.flows[i] = f2
    BY <1>1, <2>19 DEF Places
  <2>21. c2 = [c1 EXCEPT !.flows[i].arg.step = "replay"]
    BY <2>3, <2>8, <2>14, <2>15
  <2>22. c3 = [c2 EXCEPT !.flows[i].arg.user = user]
    BY <2>4, <2>9, <2>10, <2>17, <2>18
  <2>23. c3 = [c EXCEPT !.token = f.body.token,
                        !.flows[i].arg.step = "replay", !.flows[i].arg.user = f.body.user]
    BY <2>1, <2>12, <2>21, <2>22
  <2>24. PICK c4 : c4 = Join(c3, i)
    OBVIOUS
  <2>25. PICK g : g = Joining(f2)
    OBVIOUS
  <2>26. /\ Places(c3, c4, i, g) /\ c4.st = c3.st /\ c4.inflight = c3.inflight
         /\ c4.token = c3.token /\ c4.stored = c3.stored
    BY <1>1, <2>10, <2>20, <2>24, <2>25, JoinIs
  <2>27. Places(c, c4, i, g)
    BY <2>13, <2>16, <2>19, <2>26 DEF Places, Frames
  <2>28. f2.kind \in Joiners /\ f2.arg \in ArgsOf(f2.kind) /\ f2.kind = "widgetSession"
         /\ (f2.kind = "widgetSession" => f2.arg.step = "replay")
    BY <1>4, <2>6, <2>10 DEF Joiners, ArgsOf, CallKind
  <2>29. GoodCall(g) /\ g # None /\ g.kind = "widgetSession"
    BY <2>11, <2>25, <2>28, GoodJoining
  <2>30. Typed(c4) /\ Follows(c.st, c4.st)
    BY <1>1, <2>2, <2>13, <2>16, <2>19, <2>26, FollowsSame DEF Typed
  <2>31. g.kind = c.flows[i].kind /\ g.kind # "product" /\ g.kind # "confirm"
    BY <2>29
  <2>32. Sound(c4) /\ Calm(c, c4)
    BY <1>1, <2>27, <2>29, <2>30, <2>31, SoundTurn
  <2>33. PICK c5 : c5 = LoadCart(c4, i)
    OBVIOUS
  <2>34. d = LoadAddresses(c5, i)
    BY <1>3, <1>4, <1>6, <2>23, <2>24, <2>33 DEF ExchangeAnswered
  <2>35. Asks(c4, c5)
    BY <1>2, <2>32, <2>33, LoadsAsk, SoundTyped
  <2>36. Asks(c5, d)
    BY <1>2, <2>34, <2>35, LoadsAsk DEF Asks
  <2>37. HasRoom(d) /\ HasRoom(c5)
    BY <1>3, <2>36 DEF Asks
  <2>38. Sound(c5) /\ Calm(c4, c5)
    BY <1>2, <2>32, <2>33, <2>37, LoadsKeep
  <2>39. Sound(d) /\ Calm(c5, d)
    BY <1>2, <2>34, <2>37, <2>38, LoadsKeep
  <2> QED BY <1>3, <2>32, <2>38, <2>39, CalmTrans
<1> QED BY <1>5, <1>6

LEMMA FinishSignInKeeps ==
  ASSUME NEW c, Sound(c), NEW i \in FlowIds, c.flows[i] # None, c.flows[i].kind = "widgetSession",
         NEW a \in SignIns
  PROVE  Sound(FinishSignIn(c, i, a)) /\ Calm(c, FinishSignIn(c, i, a))
<1>1. PICK e : e = IF a.replays THEN SaveBuffer(c, NoLines) ELSE c
  OBVIOUS
<1>2. PICK told : told = IF a.soldOut THEN ReqFail(e.st, "cart") ELSE e.st
  OBVIOUS
<1>3. PICK s : s = OtpVerified(told, a.user)
  OBVIOUS
<1>4. PICK e1 : e1 = [e EXCEPT !.st = s]
  OBVIOUS
<1>5. PICK d : d = FinishSignIn(c, i, a)
  OBVIOUS
<1>6. d = Finally(e1, i, "widgetSession")
  BY <1>1, <1>2, <1>3, <1>4, <1>5 DEF FinishSignIn
<1>7. Sound(e) /\ Calm(c, e) /\ e.flows = c.flows
  <2>1. CASE a.replays
    <3>1. e = SaveBuffer(c, NoLines)
      BY <1>1, <2>1
    <3> QED BY <3>1, NoLinesIs, SaveBufferKeeps, SaveBufferIs, SoundTyped DEF Frames
  <2>2. CASE ~ a.replays
    BY <1>1, <2>2 DEF Calm
  <2> QED BY <2>1, <2>2
<1>8. e.st \in State /\ "cart" \in PlainKey /\ a.user \in Shoppers \cup {None}
  BY <1>7, SoundTyped DEF PlainKey, RequestKey, SignIns
<1>9. Follows(e.st, told) /\ told \in State
  BY <1>2, <1>8, ReqFailFollows, FollowsSame DEF Follows
<1>10. Follows(e.st, s)
  BY <1>3, <1>8, <1>9, UserFollows, FollowsTrans DEF Sets
<1>11. Sound(e1) /\ Calm(e, e1) /\ e1.flows = e.flows
  BY <1>4, <1>7, <1>10, StKeeps
<1>12. e1.flows[i] # None /\ e1.flows[i].kind = "widgetSession"
  BY <1>7, <1>11
<1>13. Sound(d) /\ Calm(e1, d)
  BY <1>6, <1>11, <1>12, FinallyKeeps
<1> QED BY <1>5, <1>7, <1>11, <1>13, CalmTrans

LEMMA ReplayKeeps ==
  ASSUME NEW c, Sound(c), NEW i \in FlowIds, c.flows[i] # None, c.flows[i].kind = "widgetSession",
         NEW arg \in SignIns, arg.step = "replay"
  PROVE  Sound(Replay(c, i, arg)) /\ Calm(c, Replay(c, i, arg))
<1>1. CASE IsEmpty(arg.left)
  BY <1>1, FinishSignInKeeps DEF Replay
<1>2. CASE ~ IsEmpty(arg.left)
  <2>1. PICK d : d = AskAgain(c, i, arg)
    OBVIOUS
  <2>2. d = Replay(c, i, arg)
    BY <1>2, <2>1 DEF Replay
  <2>3. Shape(c) /\ Typed(c) /\ c.st \in State /\ GoodCall(c.flows[i])
    BY SoundTyped
  <2>4. PICK f : f = Flow(c, c.flows[i].kind, arg, c.flows[i].of)
    OBVIOUS
  <2>5. /\ Places(c, d, i, f) /\ d.st = c.st
        /\ d.inflight = c.inflight /\ d.token = c.token /\ d.stored = c.stored
    BY <2>1, <2>3, <2>4, AskAgainIs
  <2>6. MayAsk("widgetSession", arg) /\ "widgetSession" \in Kind /\ arg \in ArgsOf("widgetSession")
    BY <1>2 DEF MayAsk, ArgsOf, Kind, RequestKey, CallKind
  <2>7. PICK of : of = c.flows[i].of
    OBVIOUS
  <2>8. of \in 0..MaxFlows /\ c.token \in Tokens \cup {NoToken}
    BY <2>3, <2>7, GoodCallIs DEF Typed
  <2>9. f = Flow(c, "widgetSession", arg, of)
    BY <2>4, <2>7
  <2>10. GoodCall(f) /\ f # None /\ f.kind = "widgetSession"
    BY <2>6, <2>8, <2>9, GoodFlow, FlowIs
  <2>11. Typed(d) /\ Follows(c.st, d.st)
    BY <2>3, <2>5, FollowsSame DEF Typed
  <2>12. f.kind = c.flows[i].kind /\ f.kind # "product" /\ f.kind # "confirm"
    BY <2>10
  <2>13. Sound(d) /\ Calm(c, d)
    BY <2>5, <2>10, <2>11, <2>12, SoundTurn
  <2> QED BY <2>2, <2>13
<1> QED BY <1>1, <1>2

LEMMA ReplayAnsweredKeeps ==
  ASSUME NEW c, NEW i, Heard(c, i), c.flows[i].kind = "widgetSession",
         c.flows[i].arg.step = "replay"
  PROVE  Sound(ReplayAnswered(c, i)) /\ Calm(c, ReplayAnswered(c, i))
<1>1. /\ Sound(c) /\ i \in FlowIds /\ c.flows[i] # None /\ c.st \in State
      /\ c.flows[i].status = "ok" => c.flows[i].body \in BodiesOf(c.flows[i].kind, c.flows[i].arg)
      /\ c.flows[i].arg \in ArgsOf(c.flows[i].kind)
  BY HeardIs DEF Heard
<1>2. PICK f : f = c.flows[i]
  OBVIOUS
<1>3. f.arg \in SignIns /\ f.arg.step = "replay"
  BY <1>1, <1>2 DEF ArgsOf
<1>4. PICK p : p = NextItem(f.arg.left)
  OBVIOUS
<1>5. PICK left : left = [f.arg.left EXCEPT ![p] = 0]
  OBVIOUS
<1>6. left \in Lines
  <2>1. PICK l : l = f.arg.left
    OBVIOUS
  <2>2. l \in Lines
    BY <1>3, <2>1 DEF SignIns
  <2>3. left = [l EXCEPT ![p] = 0]
    BY <1>5, <2>1
  <2>4. 0 \in 0..MaxQty
    BY ShopAssumption
  <2> QED BY <2>2, <2>3, <2>4 DEF Lines
<1>7. PICK out \in BOOLEAN : out = (f.arg.soldOut \/ f.status = "409")
  OBVIOUS
<1>8. PICK a1 : a1 = [f.arg EXCEPT !.left = left]
  OBVIOUS
<1>9. a1 \in SignIns /\ a1.step = "replay" /\ a1.soldOut = f.arg.soldOut
  BY <1>3, <1>6, <1>8 DEF SignIns
<1>10. PICK arg : arg = [a1 EXCEPT !.soldOut = out]
  OBVIOUS
<1>11. arg \in SignIns /\ arg.step = "replay"
  BY <1>9, <1>10 DEF SignIns
<1>12. arg = [f.arg EXCEPT !.left[NextItem(f.arg.left)] = 0, !.soldOut = @ \/ f.status = "409"]
  BY <1>3, <1>4, <1>5, <1>7, <1>8, <1>9, <1>10
<1>13. PICK s : s = CartLoaded(c.st, f.body)
  OBVIOUS
<1>14. PICK heard : heard = IF f.status = "ok" THEN [c EXCEPT !.st = s] ELSE c
  OBVIOUS
<1>15. Sound(heard) /\ Calm(c, heard) /\ heard.flows = c.flows
  <2>1. CASE f.status = "ok"
    <3>1. f.body \in Lines
      BY <1>1, <1>2, <1>3, <2>1 DEF BodiesOf
    <3>2. Follows(c.st, s)
      BY <1>1, <1>13, <3>1, LoadedFollows
    <3> QED BY <1>1, <1>14, <2>1, <3>2, StKeeps
  <2>2. CASE f.status # "ok"
    BY <1>1, <1>14, <2>2 DEF Calm
  <2> QED BY <2>1, <2>2
<1>16. ReplayAnswered(c, i) = Replay(heard, i, arg)
  BY <1>2, <1>12, <1>13, <1>14 DEF ReplayAnswered
<1>17. heard.flows[i] # None /\ heard.flows[i].kind = "widgetSession"
  BY <1>1, <1>15
<1>18. PICK d : d = Replay(heard, i, arg)
  OBVIOUS
<1>19. Sound(d) /\ Calm(heard, d)
  BY <1>1, <1>11, <1>15, <1>17, <1>18, ReplayKeeps
<1> QED BY <1>15, <1>16, <1>18, <1>19, CalmTrans

-----------------------------------------------------------------------------
(* Checkout and payment.                                                   *)

LEMMA SettledIs ==
  ASSUME NEW s \in State, NEW key
  PROVE  /\ Settled(s, key) \in State /\ Settled(s, key).pending = s.pending \ {key}
         /\ Settled(s, key).pdp = s.pdp /\ Settled(s, key).detail = s.detail
         /\ Settled(s, key).cancelled = s.cancelled
<1>1. PICK keys \in SUBSET RequestKey : keys = s.pending \ {key}
  BY DEF State
<1>2. Settled(s, key) = [s EXCEPT !.pending = keys]
  BY <1>1 DEF Settled
<1> QED BY <1>1, <1>2 DEF State

LEMMA ReqFailIs ==
  ASSUME NEW s \in State, NEW key
  PROVE  /\ ReqFail(s, key) \in State /\ ReqFail(s, key).pending = s.pending \ {key}
         /\ ReqFail(s, key).pdp = s.pdp /\ ReqFail(s, key).detail = s.detail
         /\ ReqFail(s, key).cancelled = s.cancelled
<1>1. PICK t : t = Settled(s, key)
  OBVIOUS
<1>2. PICK yes \in BOOLEAN : yes = TRUE
  OBVIOUS
<1>3. ReqFail(s, key) = [t EXCEPT !.banner = yes]
  BY <1>1, <1>2 DEF ReqFail
<1>4. t \in State /\ t.pending = s.pending \ {key} /\ t.pdp = s.pdp /\ t.detail = s.detail
      /\ t.cancelled = s.cancelled
  BY <1>1, SettledIs
<1> QED BY <1>3, <1>4 DEF State

LEMMA CheckoutOpenedIs ==
  ASSUME NEW s \in State, NEW o \in OrderIds
  PROVE  LET t == CheckoutOpened(s, o)
         IN /\ t \in State /\ t.pending = s.pending \ {"checkout"} /\ t.pdp = s.pdp
            /\ t.detail = s.detail /\ ~ t.cancelled
<1>1. PICK no : no = FALSE
  OBVIOUS
<1>2. PICK t1 : t1 = Settled(s, "checkout")
  OBVIOUS
<1>3. t1 \in State /\ t1.pending = s.pending \ {"checkout"} /\ t1.pdp = s.pdp /\ t1.detail = s.detail
  BY <1>2, SettledIs
<1>4. PICK t2 : t2 = [t1 EXCEPT !.checkout = o]
  OBVIOUS
<1>5. Sets(t1, t2) /\ t2 \in State
  BY <1>3, <1>4, FieldSets DEF Sets, Follows
<1>6. PICK t : t = [t2 EXCEPT !.cancelled = no]
  OBVIOUS
<1>7. Sets(t2, t) /\ t.cancelled = FALSE
  BY <1>1, <1>5, <1>6, UncancelSets
<1>8. t = CheckoutOpened(s, o)
  BY <1>1, <1>2, <1>4, <1>6 DEF CheckoutOpened
<1> QED BY <1>3, <1>5, <1>7, <1>8 DEF Sets, Follows

LEMMA PaymentConfirmedIs ==
  ASSUME NEW s \in State, NEW order \in Order
  PROVE  LET t == PaymentConfirmed(s, order)
         IN /\ t \in State /\ t.pending = s.pending \ {"payment"} /\ t.pdp = s.pdp
            /\ t.detail = s.detail /\ ~ t.cancelled
<1>1. PICK no : no = FALSE
  OBVIOUS
<1>2. PICK t1 : t1 = Settled(s, "payment")
  OBVIOUS
<1>3. t1 \in State /\ t1.pending = s.pending \ {"payment"} /\ t1.pdp = s.pdp /\ t1.detail = s.detail
  BY <1>2, SettledIs
<1>4. PICK t2 : t2 = [t1 EXCEPT !.placed = order]
  OBVIOUS
<1>5. Sets(t1, t2) /\ t2 \in State
  BY <1>3, <1>4, FieldSets DEF Sets, Follows
<1>6. PICK t3 : t3 = [t2 EXCEPT !.checkout = None]
  OBVIOUS
<1>7. Sets(t2, t3) /\ t3 \in State
  BY <1>5, <1>6, FieldSets DEF Sets, Follows
<1>8. PICK t4 : t4 = [t3 EXCEPT !.cancelled = no]
  OBVIOUS
<1>9. Sets(t3, t4) /\ t4 \in State /\ t4.cancelled = FALSE
  <2>1. Sets(t3, t4) /\ t4.cancelled = FALSE
    BY <1>1, <1>7, <1>8, UncancelSets
  <2> QED BY <2>1 DEF Sets, Follows
<1>10. PICK t : t = [t4 EXCEPT !.screen = "done"]
  OBVIOUS
<1>11. Sets(t4, t)
  BY <1>9, <1>10, FieldSets DEF Screen
<1>12. t = PaymentConfirmed(s, order)
  BY <1>1, <1>2, <1>4, <1>6, <1>8, <1>10 DEF PaymentConfirmed
<1> QED BY <1>3, <1>5, <1>7, <1>9, <1>11, <1>12 DEF Sets, Follows

LEMMA PaymentCancelledIs ==
  ASSUME NEW s \in State
  PROVE  LET t == PaymentCancelled(s)
         IN /\ t \in State /\ t.pending = s.pending \ {"payment"} /\ t.pdp = s.pdp
            /\ t.detail = s.detail
<1>1. PICK yes \in BOOLEAN : yes = TRUE
  OBVIOUS
<1>2. PICK t1 : t1 = Settled(s, "payment")
  OBVIOUS
<1>3. t1 \in State /\ t1.pending = s.pending \ {"payment"} /\ t1.pdp = s.pdp /\ t1.detail = s.detail
  BY <1>2, SettledIs
<1>4. PICK t2 : t2 = [t1 EXCEPT !.checkout = None]
  OBVIOUS
<1>5. Sets(t1, t2) /\ t2 \in State
  BY <1>3, <1>4, FieldSets DEF Sets, Follows
<1>6. PICK t : t = [t2 EXCEPT !.cancelled = yes]
  OBVIOUS
<1>7. t \in State /\ t.pending = t2.pending /\ t.pdp = t2.pdp /\ t.detail = t2.detail
  BY <1>5, <1>6 DEF State
<1>8. t = PaymentCancelled(s)
  BY <1>1, <1>2, <1>4, <1>6 DEF PaymentCancelled
<1> QED BY <1>3, <1>5, <1>7, <1>8 DEF Sets, Follows

\* A checkout that ends without a sheet.
LEMMA CheckoutEnds ==
  ASSUME NEW c, Sound(c), NEW i \in FlowIds, Opens(c, i), NEW d, Places(c, d, i, None), Typed(d),
         d.st.pdp = c.st.pdp, d.st.detail = c.st.detail, d.st.cancelled => c.st.cancelled,
         d.st.pending = c.st.pending \ {"checkout"}
  PROVE  Sound(d) /\ Calm(c, d)
<1>1. GoodTab(d)
  <2>1. GoodTab(c)
    BY DEF Sound
  <2> QED BY <2>1, GoodPlaces
<1>2. d.flows[i] = None /\ \A j \in FlowIds : j # i => d.flows[j] = c.flows[j]
  BY DEF Places
<1>3. ~ SheetWaits(c) /\ \A j \in FlowIds : (Opens(c, j) => j = i) /\ ~ Tells(c, j)
  <2>1. PayInv(c) /\ ~ Tells(c, i)
    BY DEF Sound, Opens, Tells
  <2> QED BY <2>1 DEF PayInv
<1>4. ~ SheetWaits(d) /\ \A j \in FlowIds : ~ Opens(d, j) /\ ~ Tells(d, j)
  BY <1>2, <1>3 DEF Places, SheetWaits, Opens, Tells
<1>5. \A key : key # "checkout" /\ Has(c, key) => Has(d, key)
  BY <1>2 DEF Has, Opens
<1>6. FlagsInv(d)
  <2>1. SUFFICES ASSUME NEW key \in d.st.pending \ {"widgetSession", "addressSave"}
                 PROVE  IF key = "payment" THEN SheetWaits(d) \/ \E j \in FlowIds : Tells(d, j)
                        ELSE Has(d, key)
    BY DEF FlagsInv
  <2>2. key \in c.st.pending \ {"widgetSession", "addressSave"} /\ key # "checkout"
    BY <2>1
  <2>3. key # "payment" /\ Has(c, key)
    BY <1>3, <2>2 DEF Sound, FlagsInv
  <2> QED BY <1>5, <2>2, <2>3
<1>7. PayInv(d)
  BY <1>4 DEF PayInv
<1>8. PageInv(d)
  BY <1>2 DEF Sound, PageInv, Places
<1>9. Calm(c, d)
  BY <1>4 DEF Calm, Places, Paying
<1> QED BY <1>1, <1>6, <1>7, <1>8, <1>9 DEF Sound

LEMMA CheckoutSettles ==
  ASSUME NEW c, Sound(c), NEW i \in FlowIds, Opens(c, i), c.flows[i].status # "ok", NEW loaded
  PROVE  Sound(Settle(c, i, "checkout", loaded)) /\ Calm(c, Settle(c, i, "checkout", loaded))
<1>1. Shape(c) /\ Typed(c) /\ c.st \in State
  BY SoundTyped
<1>2. PICK s : s = ReqFail(c.st, "checkout")
  OBVIOUS
<1>3. /\ s \in State /\ s.pending = c.st.pending \ {"checkout"} /\ s.pdp = c.st.pdp
      /\ s.detail = c.st.detail /\ s.cancelled = c.st.cancelled
  BY <1>1, <1>2, ReqFailIs
<1>4. PICK e : e = [c EXCEPT !.st = s]
  OBVIOUS
<1>5. /\ Frames(c, e) /\ e.st = s /\ e.inflight = c.inflight /\ e.token = c.token
      /\ e.stored = c.stored
  BY <1>1, <1>4, StIs
<1>6. PICK d : d = Settle(c, i, "checkout", loaded)
  OBVIOUS
<1>7. d = Finally(e, i, "checkout")
  BY <1>2, <1>4, <1>6 DEF Settle
<1>8. Shape(e)
  BY <1>5 DEF Frames
<1>9. /\ Places(e, d, i, None) /\ d.st = e.st /\ d.inflight = e.inflight \ {"checkout"}
      /\ d.token = e.token /\ d.stored = e.stored
  BY <1>7, <1>8, EndIs
<1>10. Places(c, d, i, None)
  BY <1>5, <1>9 DEF Places, Frames
<1>11. Typed(d)
  BY <1>1, <1>3, <1>5, <1>9 DEF Typed
<1>12. d.st.pdp = c.st.pdp /\ d.st.detail = c.st.detail /\ (d.st.cancelled => c.st.cancelled)
       /\ d.st.pending = c.st.pending \ {"checkout"}
  BY <1>3, <1>5, <1>9
<1> QED BY <1>6, <1>10, <1>11, <1>12, CheckoutEnds

LEMMA CheckoutRefusedKeeps ==
  ASSUME NEW c, NEW i, Heard(c, i), c.flows[i].kind = "checkout", c.flows[i].status # "ok",
         HasRoom(CheckoutRefused(c, i))
  PROVE  Sound(CheckoutRefused(c, i)) /\ Calm(c, CheckoutRefused(c, i))
<1>1. /\ Sound(c) /\ i \in FlowIds /\ c.flows[i] # None /\ c.st \in State
      /\ Shape(c) /\ Typed(c)
  BY HeardIs DEF Heard
<1>2. i \in 0..MaxFlows
  BY <1>1, FlowsAssumption DEF FlowIds
<1>3. PICK d : d = CheckoutRefused(c, i)
  OBVIOUS
<1>4. PICK s : s = c.st
  OBVIOUS
<1>5. ASSUME NEW screen \in Screen, NEW e, e = [c EXCEPT !.st = Go(@, screen)]
      PROVE  Sound(e) /\ Calm(c, e) /\ e.flows = c.flows /\ Opens(e, i)
  <2>1. PICK t : t = Go(c.st, screen)
    OBVIOUS
  <2>2. Follows(c.st, t)
    BY <1>1, <2>1, GoFollows
  <2>3. e = [c EXCEPT !.st = t]
    BY <1>5, <2>1
  <2>4. Sound(e) /\ Calm(c, e) /\ e.flows = c.flows
    BY <1>1, <2>2, <2>3, StKeeps
  <2> QED BY <1>1, <2>4 DEF Opens
<1>6. "shop" \in Screen /\ "cart" \in Screen
  BY DEF Screen
<1>7. PICK e : e = [c EXCEPT !.st = Go(@, "shop")]
  OBVIOUS
<1>8. PICK e2 : e2 = [c EXCEPT !.st = Go(@, "cart")]
  OBVIOUS
<1>9. /\ Sound(e) /\ Calm(c, e) /\ e.flows = c.flows /\ Opens(e, i)
      /\ Sound(e2) /\ Calm(c, e2) /\ e2.flows = c.flows /\ Opens(e2, i)
  BY <1>5, <1>6, <1>7, <1>8
<1>10. PICK status : status = c.flows[i].status
  OBVIOUS
<1>11. CASE status = "empty"
  <2>1. d = Settle(e, i, "checkout", s)
    BY <1>3, <1>4, <1>7, <1>10, <1>11 DEF CheckoutRefused
  <2>2. Sound(d) /\ Calm(e, d)
    BY <1>1, <1>9, <2>1, CheckoutSettles
  <2> QED BY <1>3, <1>9, <2>2, CalmTrans
<1>12. CASE status = "fields"
  <2>1. d = Settle(e2, i, "checkout", s)
    BY <1>3, <1>4, <1>8, <1>10, <1>12 DEF CheckoutRefused
  <2>2. Sound(d) /\ Calm(e2, d)
    BY <1>1, <1>9, <2>1, CheckoutSettles
  <2> QED BY <1>3, <1>9, <2>2, CalmTrans
<1>13. CASE status = "404"
  <2>1. PICK e3 : e3 = Join(e2, i)
    OBVIOUS
  <2>2. d = LoadAddresses(e3, i)
    BY <1>3, <1>8, <1>10, <1>13, <2>1 DEF CheckoutRefused
  <2>3. e2.flows[i] # None /\ e2.flows[i].kind \in Joiners \ {"confirm"}
        /\ e2.flows[i].kind # "widgetSession"
    BY <1>1, <1>9 DEF Joiners, CallKind
  <2>4. Sound(e3) /\ Calm(e2, e3)
    BY <1>1, <1>9, <2>1, <2>3, JoinKeeps
  <2>5. Sound(d) /\ Calm(e3, d)
    BY <1>2, <1>3, <2>2, <2>4, LoadsKeep
  <2> QED BY <1>3, <1>9, <2>4, <2>5, CalmTrans
<1>14. CASE status \notin {"empty", "fields", "404"}
  <2>1. d = Settle(c, i, "checkout", s)
    BY <1>3, <1>4, <1>10, <1>14 DEF CheckoutRefused
  <2>2. Opens(c, i)
    BY <1>1 DEF Opens
  <2> QED BY <1>1, <1>3, <2>1, <2>2, CheckoutSettles
<1> QED BY <1>11, <1>12, <1>13, <1>14

LEMMA OpenSheetKeeps ==
  ASSUME NEW c, NEW i, Heard(c, i), c.flows[i].kind = "checkout", c.flows[i].status = "ok"
  PROVE  /\ Sound(OpenSheet(c, i)) /\ Calm(c, OpenSheet(c, i))
         /\ Sound(SheetBlocked(c, i)) /\ Calm(c, SheetBlocked(c, i))
<1>1. /\ Sound(c) /\ i \in FlowIds /\ c.flows[i] # None /\ c.st \in State
      /\ Shape(c) /\ Typed(c) /\ c.flows[i].body \in BodiesOf(c.flows[i].kind, c.flows[i].arg)
  BY HeardIs DEF Heard
<1>2. PICK o : o = c.flows[i].body
  OBVIOUS
<1>3. o \in OrderIds
  BY <1>1, <1>2 DEF BodiesOf
<1>4. PICK t : t = CheckoutOpened(c.st, o)
  OBVIOUS
<1>5. /\ t \in State /\ t.pending = c.st.pending \ {"checkout"} /\ t.pdp = c.st.pdp
      /\ t.detail = c.st.detail /\ ~ t.cancelled
  BY <1>1, <1>3, <1>4, CheckoutOpenedIs
<1>6. Opens(c, i)
  BY <1>1 DEF Opens
<1>7. ~ SheetWaits(c) /\ \A j \in FlowIds : (Opens(c, j) => j = i) /\ ~ Tells(c, j)
  <2>1. PayInv(c) /\ ~ Tells(c, i)
    BY <1>1 DEF Sound, Opens, Tells
  <2> QED BY <1>1, <1>6, <2>1 DEF PayInv
<1>8. Sound(SheetBlocked(c, i)) /\ Calm(c, SheetBlocked(c, i))
  <2>1. PICK s : s = ReqFail(t, "checkout")
    OBVIOUS
  <2>2. /\ s \in State /\ s.pending = t.pending \ {"checkout"} /\ s.pdp = t.pdp
        /\ s.detail = t.detail /\ s.cancelled = t.cancelled
    BY <1>5, <2>1, ReqFailIs
  <2>3. PICK e : e = [c EXCEPT !.st = s]
    OBVIOUS
  <2>4. /\ Frames(c, e) /\ e.st = s /\ e.inflight = c.inflight /\ e.token = c.token
        /\ e.stored = c.stored
    BY <1>1, <2>3, StIs
  <2>5. PICK d : d = SheetBlocked(c, i)
    OBVIOUS
  <2>6. d = Finally(e, i, "checkout")
    BY <1>2, <1>4, <2>1, <2>3, <2>5 DEF SheetBlocked
  <2>7. Shape(e)
    BY <2>4 DEF Frames
  <2>8. /\ Places(e, d, i, None) /\ d.st = e.st /\ d.inflight = e.inflight \ {"checkout"}
        /\ d.token = e.token /\ d.stored = e.stored
    BY <1>1, <2>6, <2>7, EndIs
  <2>9. Places(c, d, i, None)
    BY <2>4, <2>8 DEF Places, Frames
  <2>10. Typed(d)
    BY <1>1, <2>2, <2>4, <2>8 DEF Typed
  <2>11. d.st.pdp = c.st.pdp /\ d.st.detail = c.st.detail /\ (d.st.cancelled => c.st.cancelled)
         /\ d.st.pending = c.st.pending \ {"checkout"}
    BY <1>5, <2>2, <2>4, <2>8
  <2> QED BY <1>1, <1>6, <2>5, <2>9, <2>10, <2>11, CheckoutEnds
<1>9. Sound(OpenSheet(c, i)) /\ Calm(c, OpenSheet(c, i))
  <2>1. PICK s, keys : s = ReqStart(t, "payment") /\ keys = c.inflight \cup {"payment"}
    OBVIOUS
  <2>2. "payment" \in RequestKey
    BY DEF RequestKey
  <2>3. /\ s \in State /\ s.pending = t.pending \cup {"payment"} /\ s.pdp = t.pdp
        /\ s.detail = t.detail /\ s.cancelled = t.cancelled
    BY <1>5, <2>1, <2>2, ReqStartIs
  <2>4. PICK no \in BOOLEAN : no = FALSE
    OBVIOUS
  <2>5. PICK sheet : sheet = [order |-> o, settled |-> no]
    OBVIOUS
  <2>6. sheet \in Sheets /\ sheet # None /\ ~ sheet.settled
    BY <1>3, <2>4, <2>5, NoneIsNothing DEF Sheets
  <2>7. PICK e : e = [c EXCEPT !.st = s, !.inflight = keys, !.sheet = sheet]
    OBVIOUS
  <2>8. e = [st |-> s, shown |-> c.shown, inflight |-> keys, token |-> c.token,
             stored |-> c.stored, flows |-> c.flows, widget |-> c.widget, sheet |-> sheet]
    BY <1>1, <2>7 DEF Shape
  <2>9. Shape(e)
    BY <1>1, <2>8 DEF Shape
  <2>10. PICK d : d = OpenSheet(c, i)
    OBVIOUS
  <2>11. d = Finally(e, i, "checkout")
    BY <1>2, <1>4, <2>1, <2>4, <2>5, <2>7, <2>10 DEF OpenSheet
  <2>12. /\ Places(e, d, i, None) /\ d.st = e.st /\ d.inflight = e.inflight \ {"checkout"}
         /\ d.token = e.token /\ d.stored = e.stored
    BY <1>1, <2>9, <2>11, EndIs
  <2>13. /\ Shape(d) /\ d.st = s /\ d.inflight = keys \ {"checkout"} /\ d.token = c.token
         /\ d.stored = c.stored /\ d.shown = c.shown /\ d.widget = c.widget /\ d.sheet = sheet
         /\ d.flows[i] = None /\ \A j \in FlowIds : j # i => d.flows[j] = c.flows[j]
    BY <1>1, <2>8, <2>12 DEF Places
  <2>14. GoodTab(d)
    <3>1. keys \in SUBSET RequestKey
      BY <1>1, <2>1, <2>2 DEF Typed
    <3> QED BY <1>1, <2>3, <2>6, <2>13, <3>1 DEF Sound, GoodTab
  <2>15. SheetWaits(d) /\ \A j \in FlowIds : ~ Opens(d, j) /\ ~ Tells(d, j)
    BY <1>7, <2>6, <2>13 DEF SheetWaits, Opens, Tells
  <2>16. \A key : key # "checkout" /\ Has(c, key) => Has(d, key)
    BY <1>1, <2>13 DEF Has
  <2>17. s.pending = (c.st.pending \ {"checkout"}) \cup {"payment"}
    BY <1>5, <2>3
  <2>18. FlagsInv(d)
    <3>1. SUFFICES ASSUME NEW key \in d.st.pending \ {"widgetSession", "addressSave"}
                   PROVE  IF key = "payment" THEN SheetWaits(d) \/ \E j \in FlowIds : Tells(d, j)
                          ELSE Has(d, key)
      BY DEF FlagsInv
    <3>2. CASE key = "payment"
      BY <2>15, <3>2
    <3>3. CASE key # "payment"
      <4>1. key \in c.st.pending \ {"widgetSession", "addressSave"} /\ key # "checkout"
        BY <2>13, <2>17, <3>1, <3>3
      <4>2. Has(c, key)
        BY <1>1, <3>3, <4>1 DEF Sound, FlagsInv
      <4> QED BY <2>16, <3>3, <4>1, <4>2
    <3> QED BY <3>2, <3>3
  <2>19. PayInv(d)
    BY <2>13, <2>15, <2>17 DEF PayInv
  <2>20. PageInv(d)
    BY <1>1, <1>5, <2>3, <2>13 DEF Sound, PageInv
  <2>21. Calm(c, d)
    BY <1>1, <1>5, <1>6, <2>3, <2>13 DEF Calm, Paying
  <2> QED BY <2>10, <2>14, <2>18, <2>19, <2>20, <2>21 DEF Sound
<1> QED BY <1>8, <1>9

\* The outcome of a payment is told, and the call goes on to load the cart.
LEMMA ConfirmedKeeps ==
  ASSUME NEW c, NEW i, Heard(c, i), c.flows[i].kind = "confirm", NEW order \in Order,
         HasRoom(Confirmed(c, i, order))
  PROVE  Sound(Confirmed(c, i, order)) /\ Calm(c, Confirmed(c, i, order))
<1>1. /\ Sound(c) /\ i \in FlowIds /\ c.flows[i] # None /\ c.st \in State
      /\ Shape(c) /\ Typed(c) /\ c.flows[i].at = "answered" /\ GoodCall(c.flows[i])
  BY HeardIs DEF Heard
<1>2. i \in 0..MaxFlows
  BY <1>1, FlowsAssumption DEF FlowIds
<1>3. PICK d : d = Confirmed(c, i, order)
  OBVIOUS
<1>4. PICK s, keys : s = PaymentConfirmed(c.st, order) /\ keys = c.inflight \ {"payment"}
  OBVIOUS
<1>5. /\ s \in State /\ s.pending = c.st.pending \ {"payment"} /\ s.pdp = c.st.pdp
      /\ s.detail = c.st.detail /\ ~ s.cancelled
  BY <1>1, <1>4, PaymentConfirmedIs
<1>6. PICK e : e = [c EXCEPT !.st = s, !.inflight = keys]
  OBVIOUS
<1>7. e = [st |-> s, shown |-> c.shown, inflight |-> keys, token |-> c.token,
           stored |-> c.stored, flows |-> c.flows, widget |-> c.widget, sheet |-> c.sheet]
  BY <1>1, <1>6 DEF Shape
<1>8. Shape(e)
  BY <1>1, <1>7 DEF Shape
<1>9. PICK f : f = c.flows[i]
  OBVIOUS
<1>10. /\ f = [kind |-> f.kind, at |-> f.at, tok |-> f.tok, arg |-> f.arg, of |-> f.of,
               status |-> f.status, body |-> f.body]
       /\ f \in CallsOf(f.kind, f.arg, f.body) /\ f.arg \in ArgsOf(f.kind) /\ f = e.flows[i]
  BY <1>1, <1>7, <1>9, GoodCallIs DEF GoodCall, CallKind
<1>11. PICK g : g = Joining(f)
  OBVIOUS
<1>12. f.kind \in Joiners /\ f.kind # "widgetSession" /\ f.kind = "confirm"
  BY <1>9 DEF Joiners, CallKind
<1>13. GoodCall(g) /\ g # None /\ g.kind = "confirm" /\ g.at = "joining"
  BY <1>10, <1>11, <1>12, GoodJoining
<1>14. PICK e1 : e1 = Join(e, i)
  OBVIOUS
<1>15. /\ Places(e, e1, i, g) /\ e1.st = e.st /\ e1.inflight = e.inflight
       /\ e1.token = e.token /\ e1.stored = e.stored
  BY <1>1, <1>8, <1>10, <1>11, <1>14, JoinIs
<1>16. /\ Shape(e1) /\ e1.st = s /\ e1.inflight = keys /\ e1.token = c.token
       /\ e1.stored = c.stored /\ e1.shown = c.shown /\ e1.widget = c.widget /\ e1.sheet = c.sheet
       /\ e1.flows[i] = g /\ \A j \in FlowIds : j # i => e1.flows[j] = c.flows[j]
  BY <1>1, <1>7, <1>15 DEF Places
<1>17. GoodTab(e1)
  <2>1. keys \in SUBSET RequestKey
    BY <1>1, <1>4 DEF Typed
  <2> QED BY <1>1, <1>5, <1>13, <1>16, <2>1 DEF Sound, GoodTab
<1>18. Tells(c, i)
  BY <1>1 DEF Tells
<1>19. ~ SheetWaits(c) /\ \A j \in FlowIds : (Tells(c, j) => j = i) /\ ~ Opens(c, j)
  <2>1. PayInv(c) /\ ~ Opens(c, i)
    BY <1>1 DEF Sound, Opens
  <2> QED BY <1>1, <1>18, <2>1 DEF PayInv
<1>20. ~ SheetWaits(e1) /\ \A j \in FlowIds : ~ Opens(e1, j) /\ ~ Tells(e1, j)
  BY <1>13, <1>16, <1>19 DEF SheetWaits, Opens, Tells
<1>21. \A key : Has(c, key) => Has(e1, key)
  BY <1>1, <1>13, <1>16 DEF Has
<1>22. FlagsInv(e1)
  <2>1. SUFFICES ASSUME NEW key \in e1.st.pending \ {"widgetSession", "addressSave"}
                 PROVE  IF key = "payment" THEN SheetWaits(e1) \/ \E j \in FlowIds : Tells(e1, j)
                        ELSE Has(e1, key)
    BY DEF FlagsInv
  <2>2. key \in c.st.pending \ {"widgetSession", "addressSave"} /\ key # "payment"
    BY <1>5, <1>16, <2>1
  <2>3. Has(c, key)
    BY <1>1, <2>2 DEF Sound, FlagsInv
  <2> QED BY <1>21, <2>2, <2>3
<1>23. PayInv(e1)
  BY <1>20 DEF PayInv
<1>24. PageInv(e1)
  BY <1>1, <1>5, <1>13, <1>16 DEF Sound, PageInv
<1>25. Sound(e1) /\ Calm(c, e1)
  BY <1>5, <1>16, <1>17, <1>20, <1>22, <1>23, <1>24 DEF Sound, Calm, Paying
<1>26. d = LoadCart(e1, i)
  BY <1>3, <1>4, <1>6, <1>14 DEF Confirmed
<1>27. Sound(d) /\ Calm(e1, d)
  BY <1>2, <1>3, <1>25, <1>26, LoadsKeep
<1> QED BY <1>3, <1>25, <1>27, CalmTrans

LEMMA ConfirmAnsweredKeeps ==
  ASSUME NEW c, NEW i, Heard(c, i), c.flows[i].kind = "confirm", HasRoom(ConfirmAnswered(c, i))
  PROVE  Sound(ConfirmAnswered(c, i)) /\ Calm(c, ConfirmAnswered(c, i))
<1>1. /\ Sound(c) /\ i \in FlowIds /\ c.flows[i] # None /\ c.st \in State
      /\ Shape(c) /\ Typed(c) /\ c.flows[i].at = "answered" /\ GoodCall(c.flows[i])
      /\ c.flows[i].arg \in ArgsOf(c.flows[i].kind)
      /\ c.flows[i].status = "ok" => c.flows[i].body \in BodiesOf(c.flows[i].kind, c.flows[i].arg)
  BY HeardIs DEF Heard
<1>2. PICK d : d = ConfirmAnswered(c, i)
  OBVIOUS
<1>3. PICK f : f = c.flows[i]
  OBVIOUS
<1>4. f.arg \in Tries
  BY <1>1, <1>3 DEF ArgsOf
<1>5. PICK try : try = f.arg.try
  OBVIOUS
<1>6. try \in 1..5 /\ f.arg.order \in OrderIds
  BY <1>4, <1>5 DEF Tries
<1>7. CASE f.status = "ok" /\ (try <= 2 \/ f.body.status = "placed")
  <2>1. PICK order : order = f.body
    OBVIOUS
  <2>2. order \in Order
    BY <1>1, <1>3, <1>7, <2>1 DEF BodiesOf
  <2>3. d = Confirmed(c, i, order)
    BY <1>2, <1>3, <1>5, <1>7, <2>1 DEF ConfirmAnswered
  <2> QED BY <1>2, <2>2, <2>3, ConfirmedKeeps
<1>8. CASE ~ (f.status = "ok" /\ (try <= 2 \/ f.body.status = "placed")) /\ ~ (try < 5)
  <2>1. PICK order : order = [id |-> f.arg.order, status |-> "pending"]
    OBVIOUS
  <2>2. order \in Order
    BY <1>6, <2>1 DEF Order, OrderStatus
  <2>3. d = Confirmed(c, i, order)
    BY <1>2, <1>3, <1>5, <1>8, <2>1 DEF ConfirmAnswered
  <2> QED BY <1>2, <2>2, <2>3, ConfirmedKeeps
<1>9. CASE ~ (f.status = "ok" /\ (try <= 2 \/ f.body.status = "placed")) /\ try < 5
  <2>1. PICK n : n = try + 1
    OBVIOUS
  <2>2. PICK arg : arg = [f.arg EXCEPT !.try = n]
    OBVIOUS
  <2>3. n \in 1..5
    BY <1>6, <1>9, <2>1
  <2>4. arg \in Tries
    BY <1>4, <2>2, <2>3 DEF Tries
  <2>5. PICK h : h = Flow(c, "confirm", arg, 0)
    OBVIOUS
  <2>6. c.token \in Tokens \cup {NoToken} /\ "confirm" \in Kind /\ arg \in ArgsOf("confirm")
        /\ 0 \in 0..MaxFlows
    BY <1>1, <2>4, FlowsAssumption DEF Typed, Kind, ArgsOf
  <2>7. h \in CallsOf("confirm", arg, None) /\ h.status = None
    BY <2>5, <2>6, FlowIs
  <2>8. PICK g : g = [h EXCEPT !.at = "resting"]
    OBVIOUS
  <2>9. /\ g \in CallsOf("confirm", arg, None) /\ g.kind = "confirm" /\ g.at = "resting"
        /\ g.arg = arg /\ g.body = None
    BY <2>7, <2>8 DEF CallsOf, FlowStep
  <2>10. g # None
    BY <2>6, <2>9, NoneIsNothing
  <2>11. /\ g \in CallsOf(g.kind, g.arg, g.body) /\ g.kind \in Kind /\ g.arg \in ArgsOf(g.kind)
         /\ g.body \in BodiesOf(g.kind, g.arg) \cup {None}
    BY <2>6, <2>9
  <2>12. g.at # "joining" /\ g.at # "answered" /\ g.kind # "cart" /\ g.kind # "boot"
         /\ g.kind # "widgetSession"
    BY <2>9
  <2>13. GoodCall(g)
    BY <2>9, <2>11, <2>12 DEF GoodCall, CallKind
  <2>14. d = [c EXCEPT !.flows[i] = g]
    BY <1>2, <1>3, <1>5, <1>9, <2>1, <2>2, <2>5, <2>8 DEF ConfirmAnswered
  <2>15. Places(c, d, i, g) /\ d.st = c.st /\ d.inflight = c.inflight /\ d.token = c.token
         /\ d.stored = c.stored
    BY <1>1, <2>14, SlotIs
  <2>16. Typed(d) /\ Follows(c.st, d.st)
    BY <1>1, <2>15, FollowsSame DEF Typed
  <2>17. g.kind = c.flows[i].kind /\ g.kind # "product"
         /\ (g.kind = "confirm" => (g.at = "joining" <=> c.flows[i].at = "joining"))
    BY <1>1, <2>9
  <2>18. Sound(d) /\ Calm(c, d)
    BY <1>1, <2>10, <2>13, <2>15, <2>16, <2>17, SoundTurn
  <2> QED BY <1>2, <2>18
<1> QED BY <1>7, <1>8, <1>9

LEMMA UnauthorizedKeeps ==
  ASSUME NEW c, NEW i, Heard(c, i)
  PROVE  LET d == Unauthorized(c, i)
         IN Heard(d, i) /\ Calm(c, d) /\ d.flows = c.flows
<1>1. CASE c.flows[i].status = "401" /\ c.flows[i].tok # NoToken
  <2>1. PICK d : d = PerformSignOut(c)
    OBVIOUS
  <2>2. d = Unauthorized(c, i)
    BY <1>1, <2>1 DEF Unauthorized
  <2>3. Sound(c)
    BY DEF Heard
  <2>4. Sound(d) /\ Calm(c, d) /\ Frames(c, d)
    BY <2>1, <2>3, PerformSignOutIs
  <2> QED BY <2>2, <2>4 DEF Heard, Frames
<1>2. CASE ~ (c.flows[i].status = "401" /\ c.flows[i].tok # NoToken)
  <2>1. Unauthorized(c, i) = c
    BY <1>2 DEF Unauthorized
  <2> QED BY <2>1 DEF Calm
<1> QED BY <1>1, <1>2

LEMMA AnsweredKeeps ==
  ASSUME NEW d, NEW i, Heard(d, i), Rested(d), NEW e \in Answered(d, i), HasRoom(e)
  PROVE  Sound(e) /\ Calm(d, e)
<1>1. PICK c : c = Unauthorized(d, i)
  OBVIOUS
<1>2. Heard(c, i) /\ Calm(d, c)
  BY <1>1, UnauthorizedKeeps
<1>3. Rested(c)
  BY <1>2, CalmRests
<1>4. PICK kind : kind = c.flows[i].kind
  OBVIOUS
<1>5. kind \in CallKind \ {"boot"}
  BY <1>2, <1>4, HeardIs
<1>6. SUFFICES Sound(e) /\ Calm(c, e)
  BY <1>2, CalmTrans
<1>7. CASE kind = "trust"
  <2>1. e = TrustAnswered(c, i)
    BY <1>1, <1>4, <1>7 DEF Answered
  <2> QED BY <1>2, <1>4, <1>7, <2>1, LoadsAnswered
<1>8. CASE kind = "products"
  <2>1. e = ProductsAnswered(c, i)
    BY <1>1, <1>4, <1>8 DEF Answered
  <2> QED BY <1>2, <1>4, <1>8, <2>1, LoadsAnswered
<1>9. CASE kind = "product"
  <2>1. e = ProductAnswered(c, i)
    BY <1>1, <1>4, <1>9 DEF Answered
  <2> QED BY <1>2, <1>3, <1>4, <1>9, <2>1, ProductAnsweredKeeps
<1>10. CASE kind = "restore"
  <2>1. e = RestoreAnswered(c, i)
    BY <1>1, <1>4, <1>10 DEF Answered
  <2> QED BY <1>2, <1>4, <1>10, <2>1, RestoreAnsweredKeeps
<1>11. CASE kind = "cart"
  <2>1. e = CartAnswered(c, i)
    BY <1>1, <1>4, <1>11 DEF Answered
  <2> QED BY <1>2, <1>4, <1>11, <2>1, CartAnsweredKeeps
<1>12. CASE kind = "addresses"
  <2>1. e = AddressesAnswered(c, i)
    BY <1>1, <1>4, <1>12 DEF Answered
  <2> QED BY <1>2, <1>4, <1>12, <2>1, LoadsAnswered
<1>13. CASE kind = "orders"
  <2>1. e = OrdersAnswered(c, i)
    BY <1>1, <1>4, <1>13 DEF Answered
  <2> QED BY <1>2, <1>4, <1>13, <2>1, LoadsAnswered
<1>14. CASE kind = "widgetSession"
  <2>1. c.flows[i].arg \in SignIns
    BY <1>2, <1>4, <1>14, HeardIs DEF ArgsOf
  <2>2. e = IF c.flows[i].arg.step = "exchange" THEN ExchangeAnswered(c, i)
            ELSE ReplayAnswered(c, i)
    BY <1>1, <1>4, <1>14 DEF Answered
  <2>3. CASE c.flows[i].arg.step = "exchange"
    <3>1. e = ExchangeAnswered(c, i)
      BY <2>2, <2>3
    <3> QED BY <1>2, <1>4, <1>14, <2>3, <3>1, ExchangeAnsweredKeeps
  <2>4. CASE c.flows[i].arg.step # "exchange"
    <3>1. e = ReplayAnswered(c, i) /\ c.flows[i].arg.step = "replay"
      BY <2>1, <2>2, <2>4 DEF SignIns
    <3> QED BY <1>2, <1>4, <1>14, <3>1, ReplayAnsweredKeeps
  <2> QED BY <2>3, <2>4
<1>15. CASE kind = "addressSave"
  <2>1. e = AddressSaveAnswered(c, i)
    BY <1>1, <1>4, <1>15 DEF Answered
  <2> QED BY <1>2, <1>4, <1>15, <2>1, AddressSaveAnsweredKeeps
<1>16. CASE kind = "addressDelete"
  <2>1. e = AddressDeleteAnswered(c, i)
    BY <1>1, <1>4, <1>16 DEF Answered
  <2> QED BY <1>2, <1>4, <1>16, <2>1, LoadsAnswered
<1>17. CASE kind = "checkout"
  <2>1. e \in CheckoutAnswered(c, i)
    BY <1>1, <1>4, <1>17 DEF Answered
  <2>2. CASE c.flows[i].status = "ok"
    <3>1. e = OpenSheet(c, i) \/ e = SheetBlocked(c, i)
      BY <2>1, <2>2 DEF CheckoutAnswered
    <3> QED BY <1>2, <1>4, <1>17, <2>2, <3>1, OpenSheetKeeps
  <2>3. CASE c.flows[i].status # "ok"
    <3>1. e = CheckoutRefused(c, i)
      BY <2>1, <2>3 DEF CheckoutAnswered
    <3> QED BY <1>2, <1>4, <1>17, <2>3, <3>1, CheckoutRefusedKeeps
  <2> QED BY <2>2, <2>3
<1>18. CASE kind = "confirm"
  <2>1. e = ConfirmAnswered(c, i)
    BY <1>1, <1>4, <1>18 DEF Answered
  <2> QED BY <1>2, <1>4, <1>18, <2>1, ConfirmAnsweredKeeps
<1> QED BY <1>5, <1>7, <1>8, <1>9, <1>10, <1>11, <1>12, <1>13, <1>14, <1>15, <1>16, <1>17, <1>18
        DEF CallKind, Kind, RequestKey

LEMMA AfterJoinKeeps ==
  ASSUME NEW c, Sound(c), NEW i \in FlowIds, Joined(c, i)
  PROVE  Sound(AfterJoin(c, i)) /\ Calm(c, AfterJoin(c, i))
<1>1. PICK d : d = AfterJoin(c, i)
  OBVIOUS
<1>2. PICK f : f = c.flows[i]
  OBVIOUS
<1>3. f # None /\ f.at = "joining" /\ GoodCall(f) /\ Shape(c) /\ Typed(c) /\ c.st \in State
  BY <1>2, SoundTyped DEF Joined
<1>4. f.kind \in Joiners /\ f.status = None /\ f.arg \in ArgsOf(f.kind)
      /\ (f.kind = "widgetSession" => f.arg.step = "replay")
  BY <1>3 DEF GoodCall
<1>5. PICK e : e = End(c, i)
  OBVIOUS
<1>6. /\ Places(c, e, i, None) /\ e.st = c.st /\ e.inflight = c.inflight
      /\ e.token = c.token /\ e.stored = c.stored
  BY <1>3, <1>5, EndIs
<1>7. Typed(e) /\ Follows(c.st, e.st) /\ Shape(e)
  BY <1>3, <1>6, FollowsSame DEF Typed, Places
<1>8. ASSUME f.kind \in {"boot", "restore", "confirm"}
      PROVE  Sound(e) /\ Calm(c, e)
  <2>1. ~ Opens(c, i) /\ ~ Tells(c, i)
    BY <1>2, <1>3, <1>8 DEF Opens, Tells
  <2>2. c.flows[i].kind \notin e.st.pending
    BY <1>2, <1>3, <1>6, <1>8 DEF State, RequestKey
  <2> QED BY <1>6, <1>7, <2>1, <2>2, SoundEnd
<1>9. CASE f.kind = "boot"
  <2>1. PICK s : s = BootDone(e.st)
    OBVIOUS
  <2>2. Follows(e.st, s)
    BY <1>7, <2>1, BootFollows DEF Typed, Sets
  <2>3. d = [e EXCEPT !.st = s]
    BY <1>1, <1>2, <1>5, <1>9, <2>1 DEF AfterJoin
  <2>4. Sound(e) /\ Calm(c, e)
    BY <1>8, <1>9
  <2>5. Sound(d) /\ Calm(e, d)
    BY <2>2, <2>3, <2>4, StKeeps
  <2> QED BY <1>1, <2>4, <2>5, CalmTrans
<1>10. CASE f.kind \in {"restore", "confirm"}
  <2>1. d = e
    BY <1>1, <1>2, <1>5, <1>10 DEF AfterJoin
  <2> QED BY <1>1, <1>8, <1>10, <2>1
<1>11. CASE f.kind = "widgetSession"
  <2>1. f.arg \in SignIns /\ f.arg.step = "replay"
    BY <1>4, <1>11 DEF ArgsOf
  <2>2. d = Replay(c, i, f.arg)
    BY <1>1, <1>2, <1>11 DEF AfterJoin
  <2> QED BY <1>1, <1>2, <1>3, <1>11, <2>1, <2>2, ReplayKeeps
<1>12. CASE f.kind = "addressSave"
  <2>1. d = Finally(c, i, "addressSave")
    BY <1>1, <1>2, <1>12 DEF AfterJoin
  <2> QED BY <1>1, <1>2, <1>3, <1>12, <2>1, FinallyKeeps
<1>13. CASE f.kind = "checkout"
  <2>1. PICK s : s = c.st
    OBVIOUS
  <2>2. d = Settle(c, i, "checkout", s)
    BY <1>1, <1>2, <1>13, <2>1 DEF AfterJoin
  <2>3. Opens(c, i) /\ c.flows[i].status # "ok"
    BY <1>2, <1>3, <1>4, <1>13, NoneIsNothing DEF Opens
  <2> QED BY <1>1, <2>2, <2>3, CheckoutSettles
<1> QED BY <1>1, <1>4, <1>9, <1>10, <1>11, <1>12, <1>13 DEF Joiners

LEMMA WakeKeeps ==
  ASSUME NEW c, Sound(c), NEW i \in FlowIds, c.flows[i] # None, c.flows[i].at = "resting"
  PROVE  LET d == AskAgain(c, i, c.flows[i].arg)
         IN Sound(d) /\ Calm(c, d)
<1>1. PICK f : f = c.flows[i]
  OBVIOUS
<1>2. GoodCall(f) /\ Shape(c) /\ Typed(c) /\ c.st \in State
  BY <1>1, SoundTyped
<1>3. f.kind = "confirm" /\ f.arg \in ArgsOf("confirm") /\ f.of \in 0..MaxFlows
  BY <1>1, <1>2, GoodCallIs DEF GoodCall
<1>4. PICK arg, of : arg = f.arg /\ of = f.of
  OBVIOUS
<1>5. PICK d : d = AskAgain(c, i, arg)
  OBVIOUS
<1>6. PICK g : g = Flow(c, c.flows[i].kind, arg, c.flows[i].of)
  OBVIOUS
<1>7. g = Flow(c, "confirm", arg, of)
  BY <1>1, <1>3, <1>4, <1>6
<1>8. MayAsk("confirm", arg) /\ "confirm" \in Kind /\ arg \in ArgsOf("confirm")
      /\ of \in 0..MaxFlows /\ c.token \in Tokens \cup {NoToken}
  BY <1>2, <1>3, <1>4 DEF MayAsk, Kind, RequestKey, CallKind, Typed
<1>9. GoodCall(g) /\ g # None
  BY <1>7, <1>8, GoodFlow
<1>10. g.kind = "confirm" /\ g.at = "asked"
  BY <1>7, <1>8, FlowIs
<1>11. /\ Places(c, d, i, g) /\ d.st = c.st
       /\ d.inflight = c.inflight /\ d.token = c.token /\ d.stored = c.stored
  BY <1>2, <1>5, <1>6, AskAgainIs
<1>12. Typed(d) /\ Follows(c.st, d.st)
  BY <1>2, <1>11, FollowsSame DEF Typed
<1>13. /\ g.kind = c.flows[i].kind /\ g.kind # "product"
       /\ g.kind = "confirm" => (g.at = "joining" <=> c.flows[i].at = "joining")
  BY <1>1, <1>3, <1>10
<1>14. Sound(d) /\ Calm(c, d)
  BY <1>9, <1>11, <1>12, <1>13, SoundTurn
<1> QED BY <1>1, <1>4, <1>5, <1>14

LEMMA HandlerKeeps ==
  ASSUME NEW c, Sound(c), SheetWaits(c), HasRoom(Handler(c))
  PROVE  Sound(Handler(c)) /\ Calm(c, Handler(c))
<1>1. Shape(c) /\ Typed(c) /\ c.st \in State /\ c.sheet \in Sheets /\ ~ c.sheet.settled
  BY SoundTyped DEF SheetWaits
<1>2. PICK yes \in BOOLEAN : yes = TRUE
  OBVIOUS
<1>3. PICK sheet : sheet = [c.sheet EXCEPT !.settled = yes]
  OBVIOUS
<1>4. sheet \in Sheets /\ sheet.settled
  BY <1>1, <1>2, <1>3 DEF Sheets
<1>5. PICK e : e = [c EXCEPT !.sheet = sheet]
  OBVIOUS
<1>6. e = [st |-> c.st, shown |-> c.shown, inflight |-> c.inflight, token |-> c.token,
           stored |-> c.stored, flows |-> c.flows, widget |-> c.widget, sheet |-> sheet]
  BY <1>1, <1>5 DEF Shape
<1>7. Shape(e)
  BY <1>1, <1>6 DEF Shape
<1>8. PICK arg : arg = [order |-> c.sheet.order, try |-> 1]
  OBVIOUS
<1>9. arg \in Tries
  BY <1>1, <1>8 DEF Sheets, Tries
<1>10. MayAsk("confirm", arg) /\ "confirm" \in Kind /\ arg \in ArgsOf("confirm")
       /\ 0 \in 0..MaxFlows /\ e.token \in Tokens \cup {NoToken}
  BY <1>1, <1>6, <1>9, FlowsAssumption DEF MayAsk, Kind, RequestKey, CallKind, Typed, ArgsOf
<1>11. PICK d : d = Handler(c)
  OBVIOUS
<1>12. d = Ask(e, "confirm", arg, 0)
  BY <1>2, <1>3, <1>5, <1>8, <1>11 DEF Handler
<1>13. PICK i, f : i = FreeSlot(e) /\ f = Flow(e, "confirm", arg, 0)
  OBVIOUS
<1>14. HasRoom(Ask(e, "confirm", arg, 0))
  BY <1>11, <1>12
<1>15. /\ i \in FlowIds /\ e.flows[i] = None /\ Places(e, d, i, f)
       /\ d.st = e.st /\ d.inflight = e.inflight /\ d.token = e.token /\ d.stored = e.stored
  BY <1>7, <1>10, <1>12, <1>13, <1>14, AskIs
<1>16. GoodCall(f) /\ f # None
  BY <1>10, <1>13, GoodFlow
<1>17. f.kind = "confirm" /\ f.at = "asked"
  BY <1>10, <1>13, FlowIs
<1>18. /\ Shape(d) /\ d.st = c.st /\ d.inflight = c.inflight /\ d.token = c.token
       /\ d.stored = c.stored /\ d.shown = c.shown /\ d.widget = c.widget /\ d.sheet = sheet
       /\ c.flows[i] = None /\ d.flows[i] = f
       /\ \A j \in FlowIds : j # i => d.flows[j] = c.flows[j]
  BY <1>6, <1>15 DEF Places
<1>19. GoodTab(d)
  BY <1>4, <1>16, <1>18 DEF Sound, GoodTab
<1>20. \A j \in FlowIds : ~ Opens(c, j) /\ ~ Tells(c, j)
  BY DEF Sound, PayInv
<1>21. /\ ~ SheetWaits(d) /\ Tells(d, i)
       /\ \A j \in FlowIds : ~ Opens(d, j) /\ (Tells(d, j) => j = i)
  BY <1>4, <1>15, <1>16, <1>17, <1>18, <1>20 DEF SheetWaits, Opens, Tells
<1>22. \A key : Has(c, key) => Has(d, key)
  BY <1>18 DEF Has
<1>23. FlagsInv(d)
  BY <1>15, <1>18, <1>21, <1>22 DEF Sound, FlagsInv
<1>24. PayInv(d)
  BY <1>18, <1>21 DEF Sound, PayInv
<1>25. PageInv(d)
  BY <1>17, <1>18 DEF Sound, PageInv
<1>26. Calm(c, d)
  BY <1>18 DEF Calm, Paying
<1> QED BY <1>11, <1>19, <1>23, <1>24, <1>25, <1>26 DEF Sound

\* Closing the sheet: only one that was not settled tells of a cancellation.
LEMMA OnDismissKeeps ==
  ASSUME NEW c, Sound(c), c.sheet # None
  PROVE  LET d == OnDismiss(c)
         IN /\ Sound(d) /\ d.shown = c.shown /\ d.st.pdp = c.st.pdp /\ d.flows = c.flows
            /\ Paying(d) => Paying(c)
            /\ ~ SheetWaits(c) => d.st = c.st
<1>1. Shape(c) /\ Typed(c) /\ c.st \in State
  BY SoundTyped
<1>2. PICK d : d = OnDismiss(c)
  OBVIOUS
<1>3. CASE c.sheet.settled
  <2>1. d = [c EXCEPT !.sheet = None]
    BY <1>2, <1>3 DEF OnDismiss
  <2>2. d = [st |-> c.st, shown |-> c.shown, inflight |-> c.inflight, token |-> c.token,
             stored |-> c.stored, flows |-> c.flows, widget |-> c.widget, sheet |-> None]
    BY <1>1, <2>1 DEF Shape
  <2>3. Shape(d)
    BY <1>1, <2>2 DEF Shape
  <2>4. GoodTab(d)
    BY <2>2, <2>3 DEF Sound, GoodTab
  <2>5. /\ \A j \in FlowIds : Opens(d, j) <=> Opens(c, j)
        /\ \A j \in FlowIds : Tells(d, j) <=> Tells(c, j)
        /\ \A key : Has(d, key) <=> Has(c, key)
        /\ ~ SheetWaits(c) /\ ~ SheetWaits(d)
    BY <1>3, <2>2 DEF Opens, Tells, Has, SheetWaits
  <2>6. FlagsInv(d) /\ PayInv(d) /\ PageInv(d)
    <3>1. FlagsInv(d)
      BY <2>2, <2>5 DEF Sound, FlagsInv
    <3>2. PayInv(d)
      BY <2>2, <2>5 DEF Sound, PayInv
    <3>3. PageInv(d)
      BY <2>2 DEF Sound, PageInv
    <3> QED BY <3>1, <3>2, <3>3
  <2> QED BY <1>2, <2>2, <2>4, <2>5, <2>6 DEF Sound, Paying
<1>4. CASE ~ c.sheet.settled
  <2>1. PICK s, keys : s = PaymentCancelled(c.st) /\ keys = c.inflight \ {"payment"}
    OBVIOUS
  <2>2. d = [c EXCEPT !.sheet = None, !.inflight = keys, !.st = s]
    BY <1>2, <1>4, <2>1 DEF OnDismiss
  <2>3. d = [st |-> s, shown |-> c.shown, inflight |-> keys, token |-> c.token,
             stored |-> c.stored, flows |-> c.flows, widget |-> c.widget, sheet |-> None]
    BY <1>1, <2>2 DEF Shape
  <2>4. Shape(d)
    BY <1>1, <2>3 DEF Shape
  <2>5. /\ s \in State /\ s.pending = c.st.pending \ {"payment"} /\ s.pdp = c.st.pdp
        /\ s.detail = c.st.detail
    BY <1>1, <2>1, PaymentCancelledIs
  <2>6. keys \in SUBSET RequestKey
    BY <1>1, <2>1 DEF Typed
  <2>7. GoodTab(d)
    BY <2>3, <2>4, <2>5, <2>6 DEF Sound, GoodTab
  <2>8. SheetWaits(c)
    BY <1>4 DEF SheetWaits
  <2>9. \A j \in FlowIds : ~ Opens(c, j) /\ ~ Tells(c, j)
    BY <2>8 DEF Sound, PayInv
  <2>10. /\ \A j \in FlowIds : ~ Opens(d, j) /\ ~ Tells(d, j)
         /\ \A key : Has(d, key) <=> Has(c, key)
         /\ ~ SheetWaits(d)
    BY <2>3, <2>9 DEF Opens, Tells, Has, SheetWaits
  <2>11. FlagsInv(d)
    <3>1. \A key \in d.st.pending : key # "payment" /\ key \in c.st.pending
      BY <2>3, <2>5
    <3> QED BY <2>10, <3>1 DEF Sound, FlagsInv
  <2>12. PayInv(d)
    BY <2>10 DEF PayInv
  <2>13. PageInv(d)
    BY <2>3, <2>5 DEF Sound, PageInv
  <2> QED BY <1>2, <2>3, <2>5, <2>7, <2>8, <2>10, <2>11, <2>12, <2>13 DEF Sound, Paying
<1> QED BY <1>3, <1>4

-----------------------------------------------------------------------------
(* The server's record keeps its type, and what is answered to a call is of *)
(* the kind that the page expects of it.                                    *)

Answers(S, B) ==
  \A o \in S :
    /\ o = Outcome(o.srv, o.status, o.body)
    /\ o.srv \in Server /\ o.status \in Statuses /\ o.body \in B \cup {None}
    /\ o.status = "ok" => o.body \in B

LEMMA OkAnswers ==
  ASSUME NEW s \in Server, NEW B, NEW b \in B
  PROVE  Answers(Ok(s, b), B)
<1>1. SUFFICES ASSUME NEW o, o = Outcome(s, "ok", b)
               PROVE  /\ o = Outcome(o.srv, o.status, o.body)
                      /\ o.srv \in Server /\ o.status \in Statuses /\ o.body \in B \cup {None}
                      /\ o.status = "ok" => o.body \in B
  BY DEF Answers, Ok
<1> QED BY <1>1 DEF Outcome, Statuses

LEMMA ErrorAnswers ==
  ASSUME NEW s \in Server, NEW B, NEW status \in Statuses \ {"ok"}
  PROVE  Answers(Error(s, status), B)
<1>1. SUFFICES ASSUME NEW o, o = Outcome(s, status, None)
               PROVE  /\ o = Outcome(o.srv, o.status, o.body)
                      /\ o.srv \in Server /\ o.status \in Statuses /\ o.body \in B \cup {None}
                      /\ o.status = "ok" => o.body \in B
  BY DEF Answers, Error
<1> QED BY <1>1 DEF Outcome, Statuses

LEMMA ServerIs ==
  ASSUME NEW s \in Server
  PROVE  /\ s.sessions \in [Tokens -> Shoppers \cup {None}] /\ s.lapsed \in SUBSET Tokens
         /\ s.carts \in [Shoppers -> Lines] /\ s.books \in [Shoppers -> Book]
         /\ s.orders \in [OrderIds -> [owner : Shoppers \cup {None}, status : OrderStatus,
                                       paid : BOOLEAN]]
         /\ \A f \in [Tokens -> Shoppers \cup {None}] : [s EXCEPT !.sessions = f] \in Server
         /\ \A f \in SUBSET Tokens : [s EXCEPT !.lapsed = f] \in Server
         /\ \A f \in [Shoppers -> Lines] : [s EXCEPT !.carts = f] \in Server
         /\ \A f \in [Shoppers -> Book] : [s EXCEPT !.books = f] \in Server
         /\ \A f \in [OrderIds -> [owner : Shoppers \cup {None}, status : OrderStatus,
                                   paid : BOOLEAN]] : [s EXCEPT !.orders = f] \in Server
BY DEF Server

LEMMA SessionOfIs ==
  ASSUME NEW s \in Server, NEW tok \in Tokens \cup {NoToken}
  PROVE  SessionOf(s, tok) \in Shoppers \cup {None}
BY ServerIs DEF SessionOf

LEMMA SaveCartAnswers ==
  ASSUME NEW s \in Server, NEW u \in Shoppers, NEW lines \in Lines
  PROVE  Answers(SaveCart(s, u, lines), Lines)
<1>1. PICK carts : carts = [s.carts EXCEPT ![u] = lines]
  OBVIOUS
<1>2. carts \in [Shoppers -> Lines]
  BY <1>1, ServerIs
<1>3. PICK t : t = [s EXCEPT !.carts = carts]
  OBVIOUS
<1>4. t \in Server
  BY <1>2, <1>3, ServerIs
<1>5. SaveCart(s, u, lines) = Ok(t, lines)
  BY <1>1, <1>3 DEF SaveCart
<1> QED BY <1>4, <1>5, OkAnswers

LEMMA CartCallAnswers ==
  ASSUME NEW s \in Server, NEW u \in Shoppers, NEW call \in CartCalls,
         call.op = "get" \/ call.product \in Products
  PROVE  Answers(CartCall(s, u, call), Lines)
<1>1. PICK lines, held : lines = s.carts[u] /\ held = lines[call.product]
  OBVIOUS
<1>2. lines \in Lines
  BY <1>1, ServerIs
<1>3. call.op \in {"get", "add", "set", "remove"} /\ call.qty \in 0..MaxQty
  BY DEF CartCalls
<1>4. CASE call.op = "get"
  <2>1. CartCall(s, u, call) = Ok(s, lines)
    BY <1>1, <1>4 DEF CartCall
  <2> QED BY <1>2, <2>1, OkAnswers
<1>5. CASE call.op = "add"
  <2>1. PICK next : next = [lines EXCEPT ![call.product] = Capped(held + call.qty)]
    OBVIOUS
  <2>2. held \in 0..MaxQty
    BY <1>1, <1>2, <1>5 DEF Lines
  <2>3. Capped(held + call.qty) \in 0..MaxQty
    <3>1. held + call.qty \in Nat
      BY <1>3, <2>2, ShopAssumption
    <3> QED BY <3>1, CappedIs
  <2>4. next \in Lines
    BY <1>2, <2>1, <2>3 DEF Lines
  <2>5. CartCall(s, u, call) = SaveCart(s, u, next)
    BY <1>1, <1>5, <2>1 DEF CartCall
  <2> QED BY <2>4, <2>5, SaveCartAnswers
<1>6. CASE call.op \in {"set", "remove"}
  <2>1. PICK n : n = IF call.op = "set" THEN call.qty ELSE 0
    OBVIOUS
  <2>2. n \in 0..MaxQty
    BY <1>3, <2>1, ShopAssumption
  <2>3. PICK next : next = [lines EXCEPT ![call.product] = n]
    OBVIOUS
  <2>4. next \in Lines
    BY <1>2, <2>2, <2>3 DEF Lines
  <2>5. CartCall(s, u, call) = IF held = 0 THEN Error(s, "404") ELSE SaveCart(s, u, next)
    BY <1>1, <1>6, <2>1, <2>3 DEF CartCall
  <2>6. "404" \in Statuses \ {"ok"}
    BY DEF Statuses
  <2> QED BY <2>4, <2>5, <2>6, SaveCartAnswers, ErrorAnswers
<1> QED BY <1>3, <1>4, <1>5, <1>6

LEMMA ReplayCallIs ==
  ASSUME NEW left \in Lines, ~ IsEmpty(left)
  PROVE  /\ NextItem(left) \in Products /\ left[NextItem(left)] > 0
         /\ ReplayCall(left) \in CartCalls /\ ReplayCall(left).product \in Products
         /\ ReplayCall(left).op = "add"
<1>1. \A p \in Products : left[p] \in 0..MaxQty
  BY DEF Lines
<1>2. \E p \in Products : left[p] > 0
  BY <1>1, ShopAssumption DEF IsEmpty
<1>3. PICK p : p = NextItem(left)
  OBVIOUS
<1>4. p \in Products /\ left[p] > 0
  BY <1>2, <1>3 DEF NextItem
<1>5. PICK call : call = [op |-> "add", product |-> p, qty |-> left[p], then |-> None]
  OBVIOUS
<1>6. ReplayCall(left) = call
  BY <1>3, <1>5 DEF ReplayCall, Call
<1>7. call \in CartCalls /\ call.product = p /\ call.op = "add"
  BY <1>1, <1>4, <1>5 DEF CartCalls
<1> QED BY <1>3, <1>4, <1>6, <1>7

LEMMA SaveBookAnswers ==
  ASSUME NEW s \in Server, NEW u \in Shoppers, NEW book \in Book, NEW B, NEW b \in B
  PROVE  Answers(SaveBook(s, u, book, b), B)
<1>1. PICK books : books = [s.books EXCEPT ![u] = book]
  OBVIOUS
<1>2. books \in [Shoppers -> Book]
  BY <1>1, ServerIs
<1>3. PICK t : t = [s EXCEPT !.books = books]
  OBVIOUS
<1>4. t \in Server
  BY <1>2, <1>3, ServerIs
<1>5. SaveBook(s, u, book, b) = Ok(t, b)
  BY <1>1, <1>3 DEF SaveBook
<1> QED BY <1>4, <1>5, OkAnswers

LEMMA AddAddressAnswers ==
  ASSUME NEW s \in Server, NEW u \in Shoppers
  PROVE  Answers(AddAddress(s, u), AddressIds)
<1>1. PICK book : book = s.books[u]
  OBVIOUS
<1>2. book \in Book
  BY <1>1, ServerIs
<1>3. SUFFICES ASSUME NEW o \in AddAddress(s, u)
               PROVE  /\ o = Outcome(o.srv, o.status, o.body)
                      /\ o.srv \in Server /\ o.status \in Statuses
                      /\ o.body \in AddressIds \cup {None}
                      /\ o.status = "ok" => o.body \in AddressIds
  BY DEF Answers
<1>4. PICK a \in UnusedAddress(s) :
        o \in SaveBook(s, u, [ids |-> book.ids \cup {a},
                              dflt |-> IF book.ids = {} THEN a ELSE book.dflt], a)
  BY <1>1 DEF AddAddress
<1>5. PICK next : next = [ids |-> book.ids \cup {a},
                          dflt |-> IF book.ids = {} THEN a ELSE book.dflt]
  OBVIOUS
<1>6. a \in AddressIds
  BY DEF UnusedAddress
<1>7. next \in Book
  BY <1>2, <1>5, <1>6 DEF Book
<1>8. Answers(SaveBook(s, u, next, a), AddressIds)
  BY <1>6, <1>7, SaveBookAnswers
<1> QED BY <1>4, <1>5, <1>8 DEF Answers

LEMMA UpdateAddressAnswers ==
  ASSUME NEW s \in Server, NEW u \in Shoppers, NEW a \in AddressIds, NEW dflt
  PROVE  Answers(UpdateAddress(s, u, a, dflt), AddressIds)
<1>1. PICK book : book = s.books[u]
  OBVIOUS
<1>2. book \in Book
  BY <1>1, ServerIs
<1>3. PICK d : d = IF dflt THEN a ELSE book.dflt
  OBVIOUS
<1>4. d \in AddressIds \cup {None}
  BY <1>2, <1>3 DEF Book
<1>5. PICK next : next = [book EXCEPT !.dflt = d]
  OBVIOUS
<1>6. next \in Book
  BY <1>2, <1>4, <1>5 DEF Book
<1>7. CASE a \notin book.ids
  <2>1. UpdateAddress(s, u, a, dflt) = Error(s, "404")
    BY <1>1, <1>7 DEF UpdateAddress
  <2>2. "404" \in Statuses \ {"ok"}
    BY DEF Statuses
  <2> QED BY <2>1, <2>2, ErrorAnswers
<1>8. CASE a \in book.ids
  <2>1. UpdateAddress(s, u, a, dflt) = SaveBook(s, u, next, a)
    BY <1>1, <1>3, <1>5, <1>8 DEF UpdateAddress
  <2> QED BY <1>6, <2>1, SaveBookAnswers
<1> QED BY <1>7, <1>8

LEMMA DeleteAddressAnswers ==
  ASSUME NEW s \in Server, NEW u \in Shoppers, NEW a \in AddressIds
  PROVE  Answers(DeleteAddress(s, u, a), Book)
<1>1. PICK book, left : book = s.books[u] /\ left = book.ids \ {a}
  OBVIOUS
<1>2. PICK dflts : dflts = IF book.dflt # a THEN {book.dflt}
                           ELSE IF left = {} THEN {None} ELSE left
  OBVIOUS
<1>3. book \in Book
  BY <1>1, ServerIs
<1>4. CASE a \notin book.ids
  <2>1. DeleteAddress(s, u, a) = Error(s, "404")
    BY <1>1, <1>4 DEF DeleteAddress
  <2>2. "404" \in Statuses \ {"ok"}
    BY DEF Statuses
  <2> QED BY <2>1, <2>2, ErrorAnswers
<1>5. CASE a \in book.ids
  <2>1. SUFFICES ASSUME NEW o \in DeleteAddress(s, u, a)
                 PROVE  /\ o = Outcome(o.srv, o.status, o.body)
                        /\ o.srv \in Server /\ o.status \in Statuses
                        /\ o.body \in Book \cup {None}
                        /\ o.status = "ok" => o.body \in Book
    BY DEF Answers
  <2>2. PICK d \in dflts : o \in SaveBook(s, u, [ids |-> left, dflt |-> d], [ids |-> left, dflt |-> d])
    BY <1>1, <1>2, <1>5 DEF DeleteAddress
  <2>3. PICK next : next = [ids |-> left, dflt |-> d]
    OBVIOUS
  <2>4. left \subseteq AddressIds /\ d \in AddressIds \cup {None}
    BY <1>1, <1>2, <1>3 DEF Book
  <2>5. next \in Book
    BY <2>3, <2>4 DEF Book
  <2>6. Answers(SaveBook(s, u, next, next), Book)
    BY <2>5, SaveBookAnswers
  <2> QED BY <2>2, <2>3, <2>6 DEF Answers
<1> QED BY <1>4, <1>5

LEMMA ExchangeAnswers ==
  ASSUME NEW s \in Server, NEW u \in Shoppers
  PROVE  Answers(ExchangeSession(s, u), Sessions)
<1>1. SUFFICES ASSUME NEW o \in ExchangeSession(s, u)
               PROVE  /\ o = Outcome(o.srv, o.status, o.body)
                      /\ o.srv \in Server /\ o.status \in Statuses
                      /\ o.body \in Sessions \cup {None}
                      /\ o.status = "ok" => o.body \in Sessions
  BY DEF Answers
<1>2. PICK t \in UnusedToken(s) :
        o = Outcome([s EXCEPT !.sessions[t] = u], "ok", [token |-> t, user |-> u])
  BY DEF ExchangeSession
<1>3. t \in Tokens
  BY DEF UnusedToken
<1>4. PICK sessions : sessions = [s.sessions EXCEPT ![t] = u]
  OBVIOUS
<1>5. sessions \in [Tokens -> Shoppers \cup {None}]
  BY <1>3, <1>4, ServerIs
<1>6. PICK next : next = [s EXCEPT !.sessions = sessions]
  OBVIOUS
<1>7. next \in Server
  BY <1>5, <1>6, ServerIs
<1>8. PICK b : b = [token |-> t, user |-> u]
  OBVIOUS
<1>9. b \in Sessions
  BY <1>3, <1>8 DEF Sessions
<1>10. o \in Ok(next, b)
  BY <1>2, <1>4, <1>6, <1>8 DEF Ok
<1> QED BY <1>7, <1>9, <1>10, OkAnswers DEF Answers

Entry == [owner : Shoppers \cup {None}, status : OrderStatus, paid : BOOLEAN]

LEMMA OrdersAre ==
  ASSUME NEW s \in Server, NEW orders \in [OrderIds -> Entry]
  PROVE  [s EXCEPT !.orders = orders] \in Server
BY ServerIs DEF Entry

LEMMA OpenOrderAnswers ==
  ASSUME NEW s \in Server, NEW u \in Shoppers, NEW a
  PROVE  Answers(OpenOrder(s, u, a), OrderIds)
<1>1. "empty" \in Statuses \ {"ok"} /\ "404" \in Statuses \ {"ok"}
  BY DEF Statuses
<1>2. CASE IsEmpty(s.carts[u])
  BY <1>1, <1>2, ErrorAnswers DEF OpenOrder
<1>3. CASE ~ IsEmpty(s.carts[u]) /\ a \notin s.books[u].ids
  BY <1>1, <1>3, ErrorAnswers DEF OpenOrder
<1>4. CASE ~ IsEmpty(s.carts[u]) /\ a \in s.books[u].ids
  <2>1. PICK opened : opened = [owner |-> u, status |-> "pending", paid |-> FALSE]
    OBVIOUS
  <2>2. opened \in Entry
    BY <2>1 DEF Entry, OrderStatus
  <2>3. SUFFICES ASSUME NEW o \in OpenOrder(s, u, a)
                 PROVE  /\ o = Outcome(o.srv, o.status, o.body)
                        /\ o.srv \in Server /\ o.status \in Statuses
                        /\ o.body \in OrderIds \cup {None}
                        /\ o.status = "ok" => o.body \in OrderIds
    BY DEF Answers
  <2>4. PICK x \in UnusedOrder(s) :
          o \in Ok([s EXCEPT !.orders =
                      [y \in OrderIds |->
                         IF y = x THEN opened
                         ELSE IF s.orders[y].owner = u /\ s.orders[y].status = "pending"
                           THEN [s.orders[y] EXCEPT !.status = "ended"]
                         ELSE s.orders[y]]], x)
    BY <1>4, <2>1 DEF OpenOrder
  <2>5. PICK orders : orders = [y \in OrderIds |->
                         IF y = x THEN opened
                         ELSE IF s.orders[y].owner = u /\ s.orders[y].status = "pending"
                           THEN [s.orders[y] EXCEPT !.status = "ended"]
                         ELSE s.orders[y]]
    OBVIOUS
  <2>6. \A y \in OrderIds : s.orders[y] \in Entry
    BY ServerIs DEF Entry
  <2>7. \A e \in Entry : [e EXCEPT !.status = "ended"] \in Entry
    BY DEF Entry, OrderStatus
  <2>8. orders \in [OrderIds -> Entry]
    BY <2>2, <2>5, <2>6, <2>7
  <2>9. PICK next : next = [s EXCEPT !.orders = orders]
    OBVIOUS
  <2>10. next \in Server
    BY <2>8, <2>9, OrdersAre
  <2>11. x \in OrderIds
    BY DEF UnusedOrder
  <2> QED BY <2>4, <2>5, <2>9, <2>10, <2>11, OkAnswers DEF Answers
<1> QED BY <1>2, <1>3, <1>4

\* An order that changes its status, or is paid, is an order.
LEMMA EntryKeeps ==
  ASSUME NEW s \in Server, NEW o \in OrderIds, NEW status \in OrderStatus, NEW yes, yes \in BOOLEAN
  PROVE  /\ [s EXCEPT !.orders[o].status = status] \in Server
         /\ [s EXCEPT !.orders[o].paid = yes] \in Server
         /\ [s EXCEPT !.orders[o].status = status].orders =
              [s.orders EXCEPT ![o].status = status]
<1>1. PICK e : e = s.orders[o]
  OBVIOUS
<1>2. e \in Entry
  BY <1>1, ServerIs DEF Entry
<1>3. PICK e1, e2 : e1 = [e EXCEPT !.status = status] /\ e2 = [e EXCEPT !.paid = yes]
  OBVIOUS
<1>4. e1 \in Entry /\ e2 \in Entry
  BY <1>2, <1>3 DEF Entry
<1>5. PICK f1, f2 : f1 = [s.orders EXCEPT ![o] = e1] /\ f2 = [s.orders EXCEPT ![o] = e2]
  OBVIOUS
<1>6. f1 \in [OrderIds -> Entry] /\ f2 \in [OrderIds -> Entry]
  BY <1>4, <1>5, ServerIs DEF Entry
<1>7. [s EXCEPT !.orders = f1] \in Server /\ [s EXCEPT !.orders = f2] \in Server
  BY <1>6, OrdersAre
<1>8. /\ [s EXCEPT !.orders[o].status = status] = [s EXCEPT !.orders = f1]
      /\ [s EXCEPT !.orders[o].paid = yes] = [s EXCEPT !.orders = f2]
      /\ [s.orders EXCEPT ![o].status = status] = f1
  BY <1>1, <1>3, <1>5
<1>9. [s EXCEPT !.orders = f1].orders = f1
  BY DEF Server
<1> QED BY <1>7, <1>8, <1>9

LEMMA PlaceKeeps ==
  ASSUME NEW s \in Server, NEW o \in OrderIds
  PROVE  Place(s, o) \in Server
<1>1. CASE s.orders[o].status # "pending"
  BY <1>1 DEF Place
<1>2. CASE s.orders[o].status = "pending"
  <2>1. PICK t : t = [s EXCEPT !.orders[o].status = "placed"]
    OBVIOUS
  <2>2. "placed" \in OrderStatus /\ TRUE \in BOOLEAN
    BY DEF OrderStatus
  <2>3. t \in Server
    BY <2>1, <2>2, EntryKeeps
  <2>4. PICK u : u = s.orders[o].owner
    OBVIOUS
  <2>5. PICK carts : carts = [s.carts EXCEPT ![u] = NoLines]
    OBVIOUS
  <2>6. carts \in [Shoppers -> Lines]
    BY <2>5, ServerIs, NoLinesIs
  <2>7. [t EXCEPT !.carts = carts] \in Server
    BY <2>3, <2>6, ServerIs
  <2>8. Place(s, o) = [t EXCEPT !.carts = carts]
    <3>1. Place(s, o) = [s EXCEPT !.orders[o].status = "placed", !.carts[u] = NoLines]
      BY <1>2, <2>4 DEF Place
    <3>2. t.carts = s.carts
      BY <2>1 DEF Server
    <3> QED BY <2>1, <2>5, <3>1, <3>2
  <2> QED BY <2>7, <2>8
<1> QED BY <1>1, <1>2

LEMMA ShownAnswers ==
  ASSUME NEW s \in Server, NEW o \in OrderIds
  PROVE  Shown(s, o) \in Order
<1>1. PICK status : status = s.orders[o].status
  OBVIOUS
<1>2. status \in OrderStatus
  BY <1>1, ServerIs
<1>3. Shown(s, o) = [id |-> o, status |-> status]
  BY <1>1 DEF Shown
<1> QED BY <1>2, <1>3 DEF Order

LEMMA ConfirmAnswers ==
  ASSUME NEW s \in Server, NEW u \in Shoppers, NEW o \in OrderIds
  PROVE  /\ Answers(ConfirmOrder(s, u, o), Order) /\ Answers(GetOrder(s, u, o), Order)
         /\ Answers(ListOrders(s, u), SUBSET OrderIds)
<1>1. "404" \in Statuses \ {"ok"}
  BY DEF Statuses
<1>2. PICK t : t = Place(s, o)
  OBVIOUS
<1>3. t \in Server
  BY <1>2, PlaceKeeps
<1>4. PICK x, y : x = Shown(t, o) /\ y = Shown(s, o)
  OBVIOUS
<1>5. x \in Order /\ y \in Order
  BY <1>3, <1>4, ShownAnswers
<1>6. Answers(Ok(t, x), Order) /\ Answers(Ok(s, y), Order) /\ Answers(Error(s, "404"), Order)
  BY <1>1, <1>3, <1>5, OkAnswers, ErrorAnswers
<1>7. Answers(ConfirmOrder(s, u, o), Order)
  BY <1>2, <1>4, <1>6 DEF ConfirmOrder
<1>8. Answers(GetOrder(s, u, o), Order)
  BY <1>4, <1>6 DEF GetOrder
<1>9. Answers(ListOrders(s, u), SUBSET OrderIds)
  <2>1. PICK ids : ids = {z \in OrderIds : s.orders[z].owner = u}
    OBVIOUS
  <2>2. ids \in SUBSET OrderIds
    BY <2>1
  <2>3. ListOrders(s, u) = Ok(s, ids)
    BY <2>1 DEF ListOrders
  <2> QED BY <2>2, <2>3, OkAnswers
<1> QED BY <1>7, <1>8, <1>9

LEMMA ReplyToAnswers ==
  ASSUME TypeInv, NEW f, GoodCall(f), f.at = "asked", NEW u \in Shoppers,
         f.kind \notin {"trust", "products", "product"},
         ~ (f.kind = "widgetSession" /\ f.arg.step = "exchange")
  PROVE  Answers(ReplyTo(f, u), BodiesOf(f.kind, f.arg))
<1> PICK s : s = srv
  OBVIOUS
<1>1. s \in Server /\ f.arg \in ArgsOf(f.kind) /\ f.kind \in CallKind
  BY DEF TypeInv, GoodCall
<1>2. f.kind # "boot" /\ u # None
  BY ShopAssumption DEF GoodCall
<1>3. CASE f.kind = "restore"
  <2>1. ReplyTo(f, u) = Ok(s, u) /\ BodiesOf(f.kind, f.arg) = Shoppers
    BY <1>3 DEF ReplyTo, BodiesOf
  <2> QED BY <1>1, <2>1, OkAnswers
<1>4. CASE f.kind = "cart"
  <2>1. ReplyTo(f, u) = CartCall(s, u, f.arg) /\ BodiesOf(f.kind, f.arg) = Lines
    BY <1>4 DEF ReplyTo, BodiesOf
  <2>2. PICK call : call = f.arg
    OBVIOUS
  <2>3. call \in CartCalls /\ (call.op = "get" \/ call.product \in Products)
    BY <1>1, <1>4, <2>2 DEF ArgsOf, GoodCall
  <2> QED BY <1>1, <2>1, <2>2, <2>3, CartCallAnswers
<1>5. CASE f.kind = "widgetSession"
  <2>1. PICK left : left = f.arg.left
    OBVIOUS
  <2>2. f.arg \in SignIns
    BY <1>1, <1>5 DEF ArgsOf
  <2>3. left \in Lines /\ f.arg.step = "replay" /\ f.at # "joining"
    BY <1>5, <2>1, <2>2 DEF SignIns
  <2>4. ~ IsEmpty(left)
    BY <1>5, <2>1, <2>3 DEF GoodCall
  <2>5. PICK call : call = ReplayCall(left)
    OBVIOUS
  <2>6. call \in CartCalls /\ call.product \in Products
    BY <2>3, <2>4, <2>5, ReplayCallIs
  <2>7. ReplyTo(f, u) = CartCall(s, u, call)
    BY <1>5, <2>1, <2>5 DEF ReplyTo
  <2>8. BodiesOf(f.kind, f.arg) = Lines
    BY <1>5, <2>3 DEF BodiesOf
  <2> QED BY <1>1, <2>6, <2>7, <2>8, CartCallAnswers
<1>6. CASE f.kind = "addresses"
  <2>1. PICK book : book = s.books[u]
    OBVIOUS
  <2>2. book \in Book
    BY <1>1, <2>1, ServerIs
  <2>3. ReplyTo(f, u) = Ok(s, book) /\ BodiesOf(f.kind, f.arg) = Book
    BY <1>6, <2>1 DEF ReplyTo, BodiesOf
  <2> QED BY <1>1, <2>2, <2>3, OkAnswers
<1>7. CASE f.kind = "orders"
  <2>1. ReplyTo(f, u) = ListOrders(s, u) /\ BodiesOf(f.kind, f.arg) = SUBSET OrderIds
    BY <1>7 DEF ReplyTo, BodiesOf
  <2>2. \A o : Answers(ListOrders(s, u), SUBSET OrderIds)
    <3>1. PICK ids : ids = {z \in OrderIds : s.orders[z].owner = u}
      OBVIOUS
    <3>2. ids \in SUBSET OrderIds
      BY <3>1
    <3>3. ListOrders(s, u) = Ok(s, ids)
      BY <3>1 DEF ListOrders
    <3> QED BY <1>1, <3>2, <3>3, OkAnswers
  <2> QED BY <2>1, <2>2
<1>8. CASE f.kind = "addressSave"
  <2>1. BodiesOf(f.kind, f.arg) = AddressIds /\ f.arg \in Edits
    BY <1>1, <1>8 DEF BodiesOf, ArgsOf
  <2>2. PICK a, dflt : a = f.arg.id /\ dflt = f.arg.dflt
    OBVIOUS
  <2>3. a \in AddressIds \cup {"new"}
    BY <2>1, <2>2 DEF Edits
  <2>4. ReplyTo(f, u) = IF a = "new" THEN AddAddress(s, u) ELSE UpdateAddress(s, u, a, dflt)
    BY <1>8, <2>2 DEF ReplyTo
  <2> QED BY <1>1, <2>1, <2>3, <2>4, AddAddressAnswers, UpdateAddressAnswers
<1>9. CASE f.kind = "addressDelete"
  <2>1. ReplyTo(f, u) = DeleteAddress(s, u, f.arg) /\ BodiesOf(f.kind, f.arg) = Book
    BY <1>9 DEF ReplyTo, BodiesOf
  <2>2. PICK a : a = f.arg
    OBVIOUS
  <2>3. a \in AddressIds
    BY <1>1, <1>9, <2>2 DEF ArgsOf
  <2> QED BY <1>1, <2>1, <2>2, <2>3, DeleteAddressAnswers
<1>10. CASE f.kind = "checkout"
  <2>1. PICK a : a = f.arg
    OBVIOUS
  <2>2. ReplyTo(f, u) = OpenOrder(s, u, a) /\ BodiesOf(f.kind, f.arg) = OrderIds
    BY <1>10, <2>1 DEF ReplyTo, BodiesOf
  <2> QED BY <1>1, <2>2, OpenOrderAnswers
<1>11. CASE f.kind = "confirm"
  <2>1. f.arg \in Tries /\ BodiesOf(f.kind, f.arg) = Order
    BY <1>1, <1>11 DEF BodiesOf, ArgsOf
  <2>2. PICK o : o = f.arg.order
    OBVIOUS
  <2>3. o \in OrderIds
    BY <2>1, <2>2 DEF Tries
  <2>4. ReplyTo(f, u) \in {ConfirmOrder(s, u, o), GetOrder(s, u, o)}
    BY <1>11, <2>2 DEF ReplyTo
  <2>5. Answers(ConfirmOrder(s, u, o), Order) /\ Answers(GetOrder(s, u, o), Order)
    BY <1>1, <2>3, ConfirmAnswers
  <2> QED BY <2>1, <2>4, <2>5
<1> QED
  <2>1. f.kind \in {"restore", "cart", "widgetSession", "addresses", "orders", "addressSave",
                    "addressDelete", "checkout", "confirm"}
    BY <1>1, <1>2 DEF CallKind, Kind, RequestKey
  <2> QED BY <2>1, <1>3, <1>4, <1>5, <1>6, <1>7, <1>8, <1>9, <1>10, <1>11

LEMMA ReplyAnswers ==
  ASSUME TypeInv, NEW f, GoodCall(f), f.at = "asked"
  PROVE  Answers(Reply(f), BodiesOf(f.kind, f.arg))
<1> PICK s : s = srv
  OBVIOUS
<1>1. s \in Server /\ f.arg \in ArgsOf(f.kind) /\ f.kind \in CallKind
  BY DEF TypeInv, GoodCall
<1>2. "401" \in Statuses \ {"ok"}
  BY DEF Statuses
<1>3. CASE f.kind = "trust"
  <2>1. Reply(f) = Ok(s, None) /\ BodiesOf(f.kind, f.arg) = {None}
    BY <1>3 DEF Reply, BodiesOf
  <2>2. None \in {None}
    OBVIOUS
  <2> QED BY <1>1, <2>1, <2>2, OkAnswers
<1>4. CASE f.kind = "products"
  <2>1. Reply(f) = Ok(s, Products) /\ BodiesOf(f.kind, f.arg) = SUBSET Products
    BY <1>4 DEF Reply, BodiesOf
  <2>2. Products \in SUBSET Products
    OBVIOUS
  <2> QED BY <1>1, <2>1, <2>2, OkAnswers
<1>5. CASE f.kind = "product"
  <2>1. PICK p : p = f.arg
    OBVIOUS
  <2>2. Reply(f) = Ok(s, p) /\ BodiesOf(f.kind, f.arg) = {p}
    BY <1>5, <2>1 DEF Reply, BodiesOf
  <2>3. p \in {p}
    OBVIOUS
  <2> QED BY <1>1, <2>2, <2>3, OkAnswers
<1>6. CASE f.kind = "widgetSession" /\ f.arg.step = "exchange"
  <2>1. Reply(f) = UNION {ExchangeSession(s, v) : v \in Shoppers}
    BY <1>6 DEF Reply
  <2>2. BodiesOf(f.kind, f.arg) = Sessions
    BY <1>6 DEF BodiesOf
  <2>3. \A v \in Shoppers : Answers(ExchangeSession(s, v), Sessions)
    BY <1>1, ExchangeAnswers
  <2> QED BY <2>1, <2>2, <2>3 DEF Answers
<1>7. CASE /\ f.kind \notin {"trust", "products", "product"}
           /\ ~ (f.kind = "widgetSession" /\ f.arg.step = "exchange")
  <2>1. PICK u : u = SessionOf(s, f.tok)
    OBVIOUS
  <2>2. u \in Shoppers \cup {None}
    BY <1>1, <2>1, SessionOfIs, GoodCallIs
  <2>3. Reply(f) = IF u = None THEN Error(s, "401") ELSE ReplyTo(f, u)
    BY <1>7, <2>1 DEF Reply
  <2> QED BY <1>1, <1>2, <1>7, <2>2, <2>3, ErrorAnswers, ReplyToAnswers
<1> QED BY <1>3, <1>4, <1>5, <1>6, <1>7

LEMMA SurpriseAnswers ==
  ASSUME TypeInv, NEW f, GoodCall(f), f.at = "asked"
  PROVE  Answers(Surprise(f), BodiesOf(f.kind, f.arg))
<1> PICK s, B : s = srv /\ B = BodiesOf(f.kind, f.arg)
  OBVIOUS
<1>1. s \in Server
  BY DEF TypeInv
<1>2. {"409", "401", "fields", "404", "net"} \subseteq Statuses \ {"ok"}
  BY DEF Statuses
<1>3. Answers(Reply(f), B)
  BY ReplyAnswers
<1>4. SUFFICES ASSUME NEW o \in Surprise(f)
               PROVE  /\ o = Outcome(o.srv, o.status, o.body)
                      /\ o.srv \in Server /\ o.status \in Statuses
                      /\ o.body \in B \cup {None}
                      /\ o.status = "ok" => o.body \in B
  BY DEF Answers
<1>5. PICK declined :
        declined = CASE f.kind = "cart" -> {"409"}
                    [] f.kind = "widgetSession" ->
                         IF f.arg.step = "exchange" THEN {"401"} ELSE {"409"}
                    [] f.kind = "addressSave" -> {"fields"}
                    [] f.kind = "checkout" -> {"404", "fields"}
                    [] OTHER -> {}
  OBVIOUS
<1>6. declined \subseteq {"409", "401", "fields", "404"}
  BY <1>5
<1>7. \/ \E status \in declined \cup {"net"} : o \in Error(s, status)
      \/ \E r \in Reply(f) : o = [r EXCEPT !.status = "net", !.body = None]
  BY <1>5 DEF Surprise
<1>8. CASE \E status \in declined \cup {"net"} : o \in Error(s, status)
  <2>1. PICK status \in declined \cup {"net"} : o \in Error(s, status)
    BY <1>8
  <2>2. status \in Statuses \ {"ok"}
    BY <1>2, <1>6
  <2>3. Answers(Error(s, status), B)
    BY <1>1, <2>2, ErrorAnswers
  <2> QED BY <2>1, <2>3 DEF Answers
<1>9. CASE \E r \in Reply(f) : o = [r EXCEPT !.status = "net", !.body = None]
  <2>1. PICK r \in Reply(f) : o = [r EXCEPT !.status = "net", !.body = None]
    BY <1>9
  <2>2. r = Outcome(r.srv, r.status, r.body) /\ r.srv \in Server
    BY <1>3 DEF Answers
  <2>3. PICK t : t = r.srv
    OBVIOUS
  <2>4. o = [srv |-> t, status |-> "net", body |-> None]
    BY <2>1, <2>2, <2>3 DEF Outcome
  <2> QED BY <1>2, <2>2, <2>3, <2>4 DEF Outcome
<1> QED BY <1>7, <1>8, <1>9

-----------------------------------------------------------------------------
(* The steps of the specification, from here on about the tab itself.       *)

AnsweredCall(f, status, body) ==
  [kind |-> f.kind, at |-> "answered", tok |-> f.tok, arg |-> f.arg, of |-> f.of,
   status |-> status, body |-> body]

LEMMA GoodAnswered ==
  ASSUME NEW f, GoodCall(f), f.at = "asked", NEW status \in Statuses,
         NEW body \in BodiesOf(f.kind, f.arg) \cup {None},
         status = "ok" => body \in BodiesOf(f.kind, f.arg)
  PROVE  /\ GoodCall(AnsweredCall(f, status, body)) /\ AnsweredCall(f, status, body) # None
         /\ AnsweredCall(f, status, body).kind = f.kind
         /\ AnsweredCall(f, status, body).at = "answered"
         /\ AnsweredCall(f, status, body).arg = f.arg
<1>1. PICK g : g = AnsweredCall(f, status, body)
  OBVIOUS
<1>2. /\ g = [kind |-> f.kind, at |-> "answered", tok |-> f.tok, arg |-> f.arg, of |-> f.of,
              status |-> status, body |-> body]
      /\ g.kind = f.kind /\ g.at = "answered" /\ g.arg = f.arg /\ g.status = status
      /\ g.body = body
  BY <1>1 DEF AnsweredCall
<1>3. /\ f.tok \in Tokens \cup {NoToken} /\ f.arg \in ArgsOf(f.kind) /\ f.of \in 0..MaxFlows
      /\ f.kind \in CallKind /\ f.kind # "boot"
  BY GoodCallIs DEF GoodCall
<1>4. "answered" \in FlowStep /\ status \in Statuses \cup {None}
  BY DEF FlowStep
<1>5. g \in CallsOf(g.kind, g.arg, g.body)
  BY <1>2, <1>3, <1>4 DEF CallsOf
<1>6. f.kind = "cart" => f.arg.op = "get" \/ f.arg.product \in Products
  BY DEF GoodCall
<1>7. f.kind = "widgetSession" => (f.arg.step = "replay" => ~ IsEmpty(f.arg.left))
  BY DEF GoodCall
<1>8. GoodCall(g)
  BY <1>2, <1>3, <1>5, <1>6, <1>7 DEF GoodCall
<1> QED BY <1>1, <1>2, <1>8, GoodCallIs

Delivered(c, i, status, body) ==
  [c EXCEPT !.flows[i].at = "answered", !.flows[i].status = status, !.flows[i].body = body]

LEMMA AnswerIs ==
  ASSUME NEW c, Shape(c), NEW i \in FlowIds, NEW f, f = c.flows[i],
         f = [kind |-> f.kind, at |-> f.at, tok |-> f.tok, arg |-> f.arg, of |-> f.of,
              status |-> f.status, body |-> f.body],
         NEW status, NEW body
  PROVE  LET d == Delivered(c, i, status, body)
         IN /\ Places(c, d, i, AnsweredCall(f, status, body)) /\ d.st = c.st
            /\ d.inflight = c.inflight /\ d.token = c.token /\ d.stored = c.stored
<1>1. PICK d : d = Delivered(c, i, status, body)
  OBVIOUS
<1>2. PICK g1 : g1 = [f EXCEPT !.at = "answered"]
  OBVIOUS
<1>3. PICK g2 : g2 = [g1 EXCEPT !.status = status]
  OBVIOUS
<1>4. PICK g3 : g3 = [g2 EXCEPT !.body = body]
  OBVIOUS
<1>5. g3 = AnsweredCall(f, status, body)
  BY <1>2, <1>3, <1>4 DEF AnsweredCall
<1>6. PICK d1 : d1 = [c EXCEPT !.flows[i] = g1]
  OBVIOUS
<1>7. /\ Places(c, d1, i, g1) /\ d1.st = c.st /\ d1.inflight = c.inflight
      /\ d1.token = c.token /\ d1.stored = c.stored
  BY <1>6, SlotIs
<1>8. Shape(d1) /\ d1.flows[i] = g1
  BY <1>7 DEF Places
<1>9. PICK d2 : d2 = [d1 EXCEPT !.flows[i] = g2]
  OBVIOUS
<1>10. /\ Places(d1, d2, i, g2) /\ d2.st = d1.st /\ d2.inflight = d1.inflight
       /\ d2.token = d1.token /\ d2.stored = d1.stored
  BY <1>8, <1>9, SlotIs
<1>11. Shape(d2) /\ d2.flows[i] = g2
  BY <1>10 DEF Places
<1>12. PICK d3 : d3 = [d2 EXCEPT !.flows[i] = g3]
  OBVIOUS
<1>13. /\ Places(d2, d3, i, g3) /\ d3.st = d2.st /\ d3.inflight = d2.inflight
       /\ d3.token = d2.token /\ d3.stored = d2.stored
  BY <1>11, <1>12, SlotIs
<1>14. Places(c, d3, i, g3)
  BY <1>7, <1>10, <1>13 DEF Places
<1>15. d1 = [c EXCEPT !.flows[i].at = "answered"]
  BY <1>2, <1>6
<1>16. d2 = [d1 EXCEPT !.flows[i].status = status]
  BY <1>3, <1>8, <1>9
<1>17. d3 = [d2 EXCEPT !.flows[i].body = body]
  BY <1>4, <1>11, <1>12
<1>18. d = d3
  BY <1>1, <1>15, <1>16, <1>17 DEF Delivered
<1> QED BY <1>1, <1>5, <1>7, <1>10, <1>13, <1>14, <1>18

\* An answer that reaches the page changes nothing but its call.
LEMMA DeliverKeeps ==
  ASSUME Sound(tab), Rested(tab), HasRoom(tab), NEW i \in FlowIds, tab.flows[i] # None,
         tab.flows[i].at = "asked", NEW o,
         o.status \in Statuses, o.body \in BodiesOf(tab.flows[i].kind, tab.flows[i].arg) \cup {None},
         o.status = "ok" => o.body \in BodiesOf(tab.flows[i].kind, tab.flows[i].arg),
         Deliver(i, o)
  PROVE  Sound(tab') /\ Rested(tab') /\ HasRoom(tab') /\ Calm(tab, tab')
<1>1. PICK c, d : c = tab /\ d = tab'
  OBVIOUS
<1>2. PICK f : f = c.flows[i]
  OBVIOUS
<1>3. PICK status, body : status = o.status /\ body = o.body
  OBVIOUS
<1>4. Sound(c) /\ Rested(c) /\ HasRoom(c) /\ Shape(c) /\ Typed(c) /\ GoodCall(f) /\ f.at = "asked"
  BY <1>1, <1>2, SoundTyped
<1>5. f = [kind |-> f.kind, at |-> f.at, tok |-> f.tok, arg |-> f.arg, of |-> f.of,
           status |-> f.status, body |-> f.body]
  BY <1>4, GoodCallIs
<1>6. PICK g : g = AnsweredCall(f, status, body)
  OBVIOUS
<1>7. /\ status \in Statuses /\ body \in BodiesOf(f.kind, f.arg) \cup {None}
      /\ status = "ok" => body \in BodiesOf(f.kind, f.arg)
  BY <1>1, <1>2, <1>3
<1>8. GoodCall(g) /\ g # None /\ g.kind = f.kind /\ g.at = "answered" /\ g.arg = f.arg
  BY <1>4, <1>6, <1>7, GoodAnswered
<1>9. d = Delivered(c, i, status, body)
  BY <1>1, <1>3 DEF Deliver, Delivered
<1>10. /\ Places(c, d, i, g) /\ d.st = c.st
       /\ d.inflight = c.inflight /\ d.token = c.token /\ d.stored = c.stored
  BY <1>2, <1>4, <1>5, <1>6, <1>9, AnswerIs
<1>11. Typed(d) /\ Follows(c.st, d.st)
  BY <1>4, <1>10, FollowsSame DEF Typed
<1>12. Sound(d) /\ Calm(c, d)
  <2>1. c.flows[i] # None /\ g.kind = c.flows[i].kind
    BY <1>1, <1>2, <1>8
  <2>2. g.kind = "product" => g.arg = c.flows[i].arg
    BY <1>2, <1>8
  <2>3. g.kind = "confirm" => (g.at = "joining" <=> c.flows[i].at = "joining")
    BY <1>2, <1>4, <1>8
  <2> QED BY <1>4, <1>8, <1>10, <1>11, <2>1, <2>2, <2>3, SoundTurn
<1>13. HasRoom(d)
  <2>1. PICK j \in FlowIds : c.flows[j] = None
    BY <1>4 DEF HasRoom
  <2>2. j # i
    BY <1>1, <2>1
  <2>3. d.flows[j] = None
    BY <1>10, <2>1, <2>2 DEF Places
  <2> QED BY <2>3 DEF HasRoom
<1>14. Rested(d)
  BY <1>4, <1>12, CalmRests
<1> QED BY <1>1, <1>12, <1>13, <1>14

\* What a step leaves: only closing a waiting sheet may tell of a cancelled payment.
Goes ==
  TypeInv' /\ TabInv' /\ (tab'.st.cancelled /\ ~ tab.st.cancelled => SheetWaits(tab))

LEMMA TypeFrame ==
  ASSUME TypeInv, srv' \in Server, UNCHANGED <<habit, clicks, faults, asked>>,
         seen' \in SUBSET Marks
  PROVE  TypeInv'
BY DEF TypeInv

LEMMA SpendKeeps ==
  ASSUME TypeInv, Spend, UNCHANGED habit
  PROVE  clicks' \in 0..habit'.clicks
<1>1. habit.clicks \in Nat /\ clicks \in 0..habit.clicks
  BY HabitsAssumption DEF TypeInv
<1> QED BY <1>1 DEF Spend

LEMMA RacesAre ==
  ASSUME NEW i, NEW next
  PROVE  Races(i, next) \in SUBSET Marks
BY DEF Races, Marks

LEMMA SkipsAre ==
  ASSUME NEW kind
  PROVE  Skips(kind) \in SUBSET Marks
BY DEF Skips, Marks

LEMMA ServeKeeps ==
  ASSUME TypeInv, TabInv, NEW i \in FlowIds, Serve(i)
  PROVE  Goes
<1>1. Sound(tab) /\ Rested(tab) /\ HasRoom(tab) /\ tab.flows[i] # None /\ tab.flows[i].at = "asked"
  BY DEF TabInv, Serve
<1>2. PICK f : f = tab.flows[i]
  OBVIOUS
<1>3. GoodCall(f) /\ f.at = "asked"
  BY <1>1, <1>2, SoundTyped
<1>4. PICK B : B = BodiesOf(f.kind, f.arg)
  OBVIOUS
<1>5. Answers(Reply(f), B) /\ Answers(Surprise(f), B)
  BY <1>3, <1>4, ReplyAnswers, SurpriseAnswers
<1>6. ASSUME NEW o \in Reply(f) \cup Surprise(f), Deliver(i, o)
      PROVE  srv' \in Server /\ TabInv' /\ (tab'.st.cancelled => tab.st.cancelled)
  <2>1. /\ o.srv \in Server /\ o.status \in Statuses /\ o.body \in B \cup {None}
        /\ o.status = "ok" => o.body \in B
    BY <1>5 DEF Answers
  <2>2. /\ o.status \in Statuses
        /\ o.body \in BodiesOf(tab.flows[i].kind, tab.flows[i].arg) \cup {None}
        /\ o.status = "ok" => o.body \in BodiesOf(tab.flows[i].kind, tab.flows[i].arg)
    BY <1>2, <1>4, <2>1
  <2>3. Sound(tab') /\ Rested(tab') /\ HasRoom(tab') /\ Calm(tab, tab')
    BY <1>1, <1>6, <2>2, DeliverKeeps
  <2>4. srv' = o.srv
    BY <1>6 DEF Deliver
  <2> QED BY <2>1, <2>3, <2>4 DEF TabInv, Calm
<1>7. CASE /\ \E o \in Reply(f) : Deliver(i, o)
           /\ seen' = seen \cup Races(i, srv')
           /\ UNCHANGED <<habit, clicks, asked, faults>>
  <2>1. srv' \in Server /\ TabInv' /\ (tab'.st.cancelled => tab.st.cancelled)
    BY <1>6, <1>7
  <2>2. Races(i, srv') \in SUBSET Marks /\ seen \in SUBSET Marks
    BY RacesAre DEF TypeInv
  <2>3. seen' \in SUBSET Marks
    BY <1>7, <2>2
  <2>4. TypeInv'
    BY <1>7, <2>1, <2>3, TypeFrame
  <2> QED BY <2>1, <2>4 DEF Goes
<1>8. CASE /\ faults > 0 /\ faults' = faults - 1
           /\ \E o \in Surprise(f) : Deliver(i, o)
           /\ seen' = seen \cup {"fault"} \cup Races(i, srv')
           /\ UNCHANGED <<habit, clicks, asked>>
  <2>1. srv' \in Server /\ TabInv' /\ (tab'.st.cancelled => tab.st.cancelled)
    BY <1>6, <1>8
  <2>2. Races(i, srv') \in SUBSET Marks /\ seen \in SUBSET Marks
    BY RacesAre DEF TypeInv
  <2>3. seen' \in SUBSET Marks
    BY <1>8, <2>2 DEF Marks
  <2>4. faults' \in 0..habit'.faults
    <3>1. habit.faults \in Nat /\ faults \in 0..habit.faults
      BY HabitsAssumption DEF TypeInv
    <3> QED BY <1>8, <3>1
  <2>5. TypeInv'
    BY <1>8, <2>1, <2>3, <2>4 DEF TypeInv
  <2> QED BY <2>1, <2>5 DEF Goes
<1> QED
  <2>1. \/ /\ \E o \in Reply(f) : Deliver(i, o)
           /\ seen' = seen \cup Races(i, srv')
           /\ UNCHANGED <<habit, clicks, asked, faults>>
        \/ /\ faults > 0 /\ faults' = faults - 1
           /\ \E o \in Surprise(f) : Deliver(i, o)
           /\ seen' = seen \cup {"fault"} \cup Races(i, srv')
           /\ UNCHANGED <<habit, clicks, asked>>
    BY <1>2 DEF Serve
  <2> QED BY <1>7, <1>8, <2>1

LEMMA PageKeeps ==
  ASSUME TypeInv, TabInv, NEW c, Sound(c), Calm(tab, c), Turns(c), srv' = srv,
         UNCHANGED <<habit, clicks, faults, asked>>, seen' \in SUBSET Marks
  PROVE  Goes
<1>1. tab' = c /\ HasRoom(c)
  BY DEF Turns
<1>2. Rested(c)
  BY CalmRests DEF TabInv
<1>3. TabInv'
  BY <1>1, <1>2 DEF TabInv
<1>4. srv' \in Server
  BY DEF TypeInv
<1>5. TypeInv'
  BY <1>4, TypeFrame
<1> QED BY <1>1, <1>3, <1>5 DEF Goes, Calm

LEMMA ResumeKeeps ==
  ASSUME TypeInv, TabInv, NEW i \in FlowIds, Resume(i)
  PROVE  Goes
<1>1. PICK d : d = tab
  OBVIOUS
<1>2. PICK e \in Answered(d, i) : Turns(e)
  BY <1>1 DEF Resume
<1>3. Heard(d, i) /\ Rested(d) /\ HasRoom(e)
  BY <1>1, <1>2 DEF Resume, Heard, TabInv, Turns
<1>4. Sound(e) /\ Calm(d, e)
  BY <1>2, <1>3, AnsweredKeeps
<1>5. PICK kind : kind = tab.flows[i].kind
  OBVIOUS
<1>6. Skips(kind) \in SUBSET Marks /\ seen \in SUBSET Marks
  BY SkipsAre DEF TypeInv
<1>7. seen' \in SUBSET Marks
  BY <1>5, <1>6 DEF Resume
<1>8. srv' = srv /\ UNCHANGED <<habit, clicks, faults, asked>>
  BY DEF Resume
<1> QED BY <1>1, <1>2, <1>4, <1>7, <1>8, PageKeeps

LEMMA OwnStepKeeps ==
  ASSUME TypeInv, TabInv, NEW c, Sound(c), Calm(tab, c), Page(c)
  PROVE  Goes
<1>1. Turns(c) /\ srv' = srv /\ UNCHANGED <<habit, clicks, faults, asked>> /\ seen' \in SUBSET Marks
  BY DEF Page, TypeInv
<1> QED BY <1>1, PageKeeps

LEMMA FinishJoinKeeps ==
  ASSUME TypeInv, TabInv, NEW i \in FlowIds, FinishJoin(i)
  PROVE  Goes
<1>1. PICK c, d : c = tab /\ d = AfterJoin(c, i)
  OBVIOUS
<1>2. Sound(c) /\ Joined(c, i) /\ Page(d)
  BY <1>1 DEF FinishJoin, TabInv
<1>3. Sound(d) /\ Calm(c, d)
  BY <1>1, <1>2, AfterJoinKeeps
<1> QED BY <1>1, <1>2, <1>3, OwnStepKeeps

LEMMA WakesKeeps ==
  ASSUME TypeInv, TabInv, NEW i \in FlowIds, Wake(i)
  PROVE  Goes
<1>1. PICK c, arg : c = tab /\ arg = c.flows[i].arg
  OBVIOUS
<1>2. PICK d : d = AskAgain(c, i, arg)
  OBVIOUS
<1>3. Sound(c) /\ c.flows[i] # None /\ c.flows[i].at = "resting" /\ Page(d)
  BY <1>1, <1>2 DEF Wake, TabInv
<1>4. Sound(d) /\ Calm(c, d)
  BY <1>1, <1>2, <1>3, WakeKeeps
<1> QED BY <1>1, <1>3, <1>4, OwnStepKeeps

\* A step that ends with a render.
LEMMA RendersKeep ==
  ASSUME TabInv, NEW c, Turns(Render(c)),
         Keeps(tab, c) \/ (Sound(c) /\ (c.st.cancelled => tab.st.cancelled))
  PROVE  TabInv' /\ (tab'.st.cancelled => tab.st.cancelled)
<1>1. PICK d : d = Render(c)
  OBVIOUS
<1>2. tab' = d /\ HasRoom(Render(c))
  BY <1>1 DEF Turns
<1>3. Sound(c) /\ (c.st.cancelled => tab.st.cancelled)
  <2>1. CASE Keeps(tab, c)
    <3>1. Shape(c) /\ Typed(c) /\ c.shown = tab.shown /\ c.st.pdp = tab.st.pdp
      BY <2>1 DEF Keeps, Asks
    <3>2. c.st.pdp = c.shown.pdp
      BY <3>1 DEF TabInv, Rested
    <3>3. HasRoom(c)
      BY <1>2, <3>1, <3>2, RenderRoom
    <3> QED BY <2>1, <3>3 DEF Keeps
  <2> QED BY <2>1
<1>4. /\ Sound(Render(c)) /\ Rested(Render(c))
      /\ Render(c).st.cancelled => c.st.cancelled
  BY <1>2, <1>3, RenderKeeps
<1> QED BY <1>1, <1>2, <1>3, <1>4 DEF TabInv

LEMMA CommitKeeps ==
  ASSUME TypeInv, TabInv, Commit
  PROVE  Goes
<1>1. PICK c : c = tab
  OBVIOUS
<1>2. Sound(c) /\ Turns(Render(c)) /\ (c.st.cancelled => tab.st.cancelled)
  BY <1>1 DEF Commit, TabInv, Page
<1>3. TabInv' /\ (tab'.st.cancelled => tab.st.cancelled)
  BY <1>2, RendersKeep
<1>4. TypeInv'
  BY DEF Commit, Page, TypeInv
<1> QED BY <1>3, <1>4 DEF Goes

\* A click: the command may ask for nothing, or for what there is room for.
LEMMA ClickKeeps ==
  ASSUME TypeInv, TabInv, NEW c, Click(c),
         Keeps(tab, c) \/ (Sound(c) /\ (c.st.cancelled => tab.st.cancelled))
  PROVE  Goes
<1>1. TabInv' /\ (tab'.st.cancelled => tab.st.cancelled)
  BY RendersKeep DEF Click
<1>2. clicks' \in 0..habit'.clicks
  BY SpendKeeps DEF Click
<1>3. TypeInv'
  BY <1>2 DEF Click, TypeInv
<1> QED BY <1>1, <1>3 DEF Goes

LEMMA ClickForKeeps ==
  ASSUME TypeInv, TabInv, NEW c, NEW p \in Products, NEW n \in Nat, ClickFor(p, n, c),
         Keeps(tab, c)
  PROVE  Goes
<1>1. TabInv' /\ (tab'.st.cancelled => tab.st.cancelled)
  BY RendersKeep DEF ClickFor
<1>2. clicks' \in 0..habit'.clicks
  BY SpendKeeps DEF ClickFor
<1>3. asked' \in Lines
  <2>1. PICK a, b : a = asked /\ b = asked'
    OBVIOUS
  <2>2. a \in Lines /\ b = [a EXCEPT ![p] = Capped(@ + n)]
    BY <2>1 DEF TypeInv, ClickFor
  <2>3. PICK m : m = a[p] + n
    OBVIOUS
  <2>4. m \in Nat
    BY <2>2, <2>3, ShopAssumption DEF Lines
  <2>5. Capped(m) \in 0..MaxQty
    BY <2>4, CappedIs
  <2>6. b = [a EXCEPT ![p] = Capped(m)]
    BY <2>2, <2>3
  <2> QED BY <2>1, <2>2, <2>5, <2>6 DEF Lines
<1>4. seen' \in SUBSET Marks
  BY DEF ClickFor, TypeInv, Marks
<1>5. srv' \in Server /\ habit' \in Habits /\ faults' \in 0..habit'.faults
  BY DEF ClickFor, TypeInv
<1>6. TypeInv'
  BY <1>2, <1>3, <1>4, <1>5 DEF TypeInv
<1> QED BY <1>1, <1>6 DEF Goes

LEMMA KeepsTrans ==
  ASSUME NEW c, NEW d, NEW e, Keeps(c, d), Keeps(d, e)
  PROVE  Keeps(c, e)
<1>1. Asks(c, e)
  BY AsksTrans DEF Keeps
<1>2. HasRoom(e) => HasRoom(d)
  BY DEF Keeps, Asks
<1> QED BY <1>1, <1>2 DEF Keeps

\* A click that only dispatches.
LEMMA DispatchKeeps ==
  ASSUME TypeInv, TabInv, NEW s, Follows(tab.st, s), Click([tab EXCEPT !.st = s])
  PROVE  Goes
<1>1. PICK t, c : t = tab /\ c = [t EXCEPT !.st = s]
  OBVIOUS
<1>2. Sound(t) /\ Follows(t.st, s) /\ Click(c)
  BY <1>1 DEF TabInv
<1>3. Keeps(t, c)
  BY <1>1, <1>2, StMeets
<1> QED BY <1>1, <1>2, <1>3, ClickKeeps

LEMMA ShownTyped ==
  ASSUME TabInv
  PROVE  /\ tab.st \in State /\ tab.shown \in State
         /\ \A p \in Products : InCart(p) \in 0..MaxQty /\ Selected(p) \in 0..MaxQty
<1>1. PICK s : s = tab.shown
  OBVIOUS
<1>2. s \in State /\ tab.st \in State
  BY <1>1, SoundTyped DEF TabInv
<1>3. s.cart \in Lines \cup {None} /\ s.buffer \in Lines
  BY <1>2 DEF State
<1>4. 0 \in 0..MaxQty
  BY ShopAssumption
<1>5. ASSUME NEW p \in Products
      PROVE  InCart(p) \in 0..MaxQty /\ Selected(p) \in 0..MaxQty
  <2>1. InCart(p) \in {0} \cup {s.cart[p] : x \in {s.cart} \ {None}}
    BY <1>1 DEF InCart, shown
  <2>2. Selected(p) \in {0, s.buffer[p]}
    BY <1>1 DEF Selected, shown
  <2> QED BY <1>3, <1>4, <2>1, <2>2 DEF Lines
<1> QED BY <1>1, <1>2, <1>5

LEMMA ClickCardKeeps ==
  ASSUME TypeInv, TabInv, NEW p \in Products, ClickCard(p)
  PROVE  Goes
<1>1. PICK t, m, k : t = tab /\ m = InCart(p) /\ k = Selected(p)
  OBVIOUS
<1>2. Sound(t) /\ m \in 0..MaxQty /\ k \in 0..MaxQty /\ MaxQty \in Nat /\ MaxQty > 0
  BY <1>1, ShownTyped, ShopAssumption DEF TabInv
<1>3. CASE m > 0 /\ Click(SetQty(tab, p, m - 1))
  <2>1. PICK n : n = m - 1
    OBVIOUS
  <2>2. n \in 0..MaxQty
    BY <1>2, <1>3, <2>1
  <2>3. PICK c : c = SetQty(t, p, n)
    OBVIOUS
  <2>4. Keeps(t, c)
    BY <1>2, <2>2, <2>3, SetQtyKeeps
  <2> QED BY <1>1, <1>3, <2>1, <2>3, <2>4, ClickKeeps
<1>4. CASE m \in 1..(MaxQty - 1) /\ ClickFor(p, 1, SetQty(tab, p, m + 1))
  <2>1. PICK n : n = m + 1
    OBVIOUS
  <2>2. n \in 0..MaxQty
    BY <1>2, <1>4, <2>1
  <2>3. PICK c : c = SetQty(t, p, n)
    OBVIOUS
  <2>4. Keeps(t, c)
    BY <1>2, <2>2, <2>3, SetQtyKeeps
  <2>5. ClickFor(p, 1, c) /\ Keeps(tab, c)
    BY <1>1, <1>4, <2>1, <2>3, <2>4
  <2> QED BY <2>5, ClickForKeeps
<1>5. CASE k > 0 /\ ClickFor(p, 0, SetBufferQty(tab, p, k - 1))
  <2>1. PICK n : n = k - 1
    OBVIOUS
  <2>2. n \in 0..MaxQty
    BY <1>2, <1>5, <2>1
  <2>3. PICK c : c = SetBufferQty(t, p, n)
    OBVIOUS
  <2>4. Keeps(t, c)
    BY <1>2, <2>2, <2>3, SelectKeeps
  <2>5. ClickFor(p, 0, c) /\ Keeps(tab, c)
    BY <1>1, <1>5, <2>1, <2>3, <2>4
  <2> QED BY <2>5, ClickForKeeps
<1>6. CASE k \in 1..(MaxQty - 1) /\ ClickFor(p, 1, SetBufferQty(tab, p, k + 1))
  <2>1. PICK n : n = k + 1
    OBVIOUS
  <2>2. n \in 0..MaxQty
    BY <1>2, <1>6, <2>1
  <2>3. PICK c : c = SetBufferQty(t, p, n)
    OBVIOUS
  <2>4. Keeps(t, c)
    BY <1>2, <2>2, <2>3, SelectKeeps
  <2>5. ClickFor(p, 1, c) /\ Keeps(tab, c)
    BY <1>1, <1>6, <2>1, <2>3, <2>4
  <2> QED BY <2>5, ClickForKeeps
<1>7. CASE ClickFor(p, 1, AddItem(tab, p, 1))
  <2>1. PICK c : c = AddItem(t, p, 1)
    OBVIOUS
  <2>2. 1 \in 0..MaxQty
    BY <1>2
  <2>3. Keeps(t, c)
    BY <1>2, <2>1, <2>2, SelectKeeps
  <2>4. ClickFor(p, 1, c) /\ Keeps(tab, c)
    BY <1>1, <1>7, <2>1, <2>3
  <2> QED BY <2>4, ClickForKeeps
<1> QED BY <1>1, <1>3, <1>4, <1>5, <1>6, <1>7 DEF ClickCard

LEMMA ClickPdpKeeps ==
  ASSUME TypeInv, TabInv, NEW p \in Products, ClickPdp(p)
  PROVE  Goes
<1>1. PICK t : t = tab
  OBVIOUS
<1>2. PICK c : c = [t EXCEPT !.st = OpenPdp(@, p)]
  OBVIOUS
<1>3. Sound(t) /\ Click(c)
  BY <1>1, <1>2 DEF TabInv, ClickPdp
<1>4. Sound(c) /\ (c.st.cancelled => t.st.cancelled)
  BY <1>2, <1>3, OpenPdpKeeps
<1> QED BY <1>1, <1>3, <1>4, ClickKeeps

LEMMA BuyFromPdpKeeps ==
  ASSUME TypeInv, TabInv, BuyFromPdp
  PROVE  Goes
<1>1. PICK t : t = tab
  OBVIOUS
<1>2. Sound(t) /\ t.st \in State /\ t.shown \in State /\ t.shown.pdp \in t.shown.products
  BY <1>1, ShownTyped DEF TabInv, BuyFromPdp, shown
<1>3. ASSUME NEW up \in BOOLEAN, Click([tab EXCEPT !.st = BumpQty(@, up)])
      PROVE  Goes
  <2>1. PICK s : s = BumpQty(t.st, up)
    OBVIOUS
  <2>2. Follows(tab.st, s)
    BY <1>1, <1>2, <2>1, BumpQtyFollows
  <2>3. Click([tab EXCEPT !.st = s])
    BY <1>1, <1>3, <2>1
  <2> QED BY <2>2, <2>3, DispatchKeeps
<1>4. CASE ClickFor(shown.pdp, shown.qty, AddFromPdp(tab))
  <2>1. PICK p, n, c : p = t.shown.pdp /\ n = t.shown.qty /\ c = AddFromPdp(t)
    OBVIOUS
  <2>2. p \in Products /\ n \in Nat
    BY <1>2, <2>1, ShopAssumption DEF State
  <2>3. Keeps(tab, c)
    BY <1>1, <1>2, <2>1, AddFromPdpKeeps
  <2>4. ClickFor(p, n, c)
    BY <1>1, <1>4, <2>1 DEF shown
  <2> QED BY <2>2, <2>3, <2>4, ClickForKeeps
<1> QED BY <1>3, <1>4 DEF BuyFromPdp

LEMMA ClickLineKeeps ==
  ASSUME TypeInv, TabInv, NEW p \in Products, ClickLine(p)
  PROVE  Goes
<1>1. PICK t, m : t = tab /\ m = InCart(p)
  OBVIOUS
<1>2. Sound(t) /\ m \in 0..MaxQty /\ m > 0 /\ MaxQty \in Nat /\ MaxQty > 0
  BY <1>1, ShownTyped, ShopAssumption DEF TabInv, ClickLine
<1>3. CASE Click(SetQty(tab, p, m - 1))
  <2>1. PICK n : n = m - 1
    OBVIOUS
  <2>2. n \in 0..MaxQty
    BY <1>2, <2>1
  <2>3. PICK c : c = SetQty(t, p, n)
    OBVIOUS
  <2>4. Keeps(t, c)
    BY <1>2, <2>2, <2>3, SetQtyKeeps
  <2> QED BY <1>1, <1>3, <2>1, <2>3, <2>4, ClickKeeps
<1>4. CASE m < MaxQty /\ ClickFor(p, 1, SetQty(tab, p, m + 1))
  <2>1. PICK n : n = m + 1
    OBVIOUS
  <2>2. n \in 0..MaxQty
    BY <1>2, <1>4, <2>1
  <2>3. PICK c : c = SetQty(t, p, n)
    OBVIOUS
  <2>4. Keeps(t, c)
    BY <1>2, <2>2, <2>3, SetQtyKeeps
  <2>5. ClickFor(p, 1, c) /\ Keeps(tab, c)
    BY <1>1, <1>4, <2>1, <2>3, <2>4
  <2> QED BY <2>5, ClickForKeeps
<1>5. CASE Click(RemoveItem(tab, p))
  <2>1. PICK c : c = RemoveItem(t, p)
    OBVIOUS
  <2>2. 1 \in 0..MaxQty
    BY <1>2
  <2>3. Keeps(t, c)
    BY <1>2, <2>1, <2>2, SetQtyKeeps
  <2> QED BY <1>1, <1>5, <2>1, <2>3, ClickKeeps
<1> QED BY <1>1, <1>3, <1>4, <1>5 DEF ClickLine

LEMMA ProceedKeeps ==
  ASSUME TypeInv, TabInv, Proceed
  PROVE  Goes
<1>1. PICK s : s = GoCheckout(tab.st)
  OBVIOUS
<1>2. Follows(tab.st, s)
  BY <1>1, ShownTyped, GoCheckoutFollows
<1>3. Click([tab EXCEPT !.st = s])
  BY <1>1 DEF Proceed
<1> QED BY <1>2, <1>3, DispatchKeeps

LEMMA SetsFollows ==
  ASSUME NEW s, NEW t, Sets(s, t)
  PROVE  Follows(s, t)
BY DEF Sets

LEMMA ClickAddressKeeps ==
  ASSUME TypeInv, TabInv, NEW a \in AddressIds, ClickAddress(a)
  PROVE  Goes
<1>1. PICK t, s : t = tab /\ s = t.st
  OBVIOUS
<1>2. Sound(t) /\ s \in State
  BY <1>1, ShownTyped DEF TabInv
<1>3. CASE Click([tab EXCEPT !.st = SelectAddress(@, a)])
  <2>1. PICK u : u = SelectAddress(s, a)
    OBVIOUS
  <2>2. Follows(tab.st, u)
    BY <1>1, <1>2, <2>1, FormFollows, SetsFollows
  <2>3. Click([tab EXCEPT !.st = u])
    BY <1>1, <1>3, <2>1
  <2> QED BY <2>2, <2>3, DispatchKeeps
<1>4. CASE Click(SetDefaultAddress(tab, a))
  <2>1. PICK c : c = SetDefaultAddress(t, a)
    OBVIOUS
  <2>2. Keeps(t, c)
    BY <1>2, <2>1, EditKeeps
  <2> QED BY <1>1, <1>4, <2>1, <2>2, ClickKeeps
<1>5. CASE Click([tab EXCEPT !.st = ShowAddressForm(@, a)])
  <2>1. PICK u : u = ShowAddressForm(s, a)
    OBVIOUS
  <2>2. Follows(tab.st, u)
    BY <1>1, <1>2, <2>1, FormFollows, SetsFollows
  <2>3. Click([tab EXCEPT !.st = u])
    BY <1>1, <1>5, <2>1
  <2> QED BY <2>2, <2>3, DispatchKeeps
<1>6. CASE Click(RemoveAddress(tab, a))
  <2>1. PICK c : c = RemoveAddress(t, a)
    OBVIOUS
  <2>2. Keeps(t, c)
    BY <1>2, <2>1, EditKeeps
  <2> QED BY <1>1, <1>6, <2>1, <2>2, ClickKeeps
<1> QED BY <1>3, <1>4, <1>5, <1>6 DEF ClickAddress

LEMMA ClickFormKeeps ==
  ASSUME TypeInv, TabInv, ClickForm
  PROVE  Goes
<1>1. PICK t, s : t = tab /\ s = t.st
  OBVIOUS
<1>2. Sound(t) /\ s \in State
  BY <1>1, ShownTyped DEF TabInv
<1>3. CASE Click([tab EXCEPT !.st = ShowAddressForm(@, "new")])
  <2>1. PICK u : u = ShowAddressForm(s, "new")
    OBVIOUS
  <2>2. Follows(tab.st, u)
    BY <1>1, <1>2, <2>1, FormFollows, SetsFollows
  <2>3. Click([tab EXCEPT !.st = u])
    BY <1>1, <1>3, <2>1
  <2> QED BY <2>2, <2>3, DispatchKeeps
<1>4. CASE Click([tab EXCEPT !.st = SetAddr(@)])
  <2>1. PICK u : u = SetAddr(s)
    OBVIOUS
  <2>2. Follows(tab.st, u)
    BY <1>1, <1>2, <2>1, FormFollows, SetsFollows
  <2>3. Click([tab EXCEPT !.st = u])
    BY <1>1, <1>4, <2>1
  <2> QED BY <2>2, <2>3, DispatchKeeps
<1>5. CASE Click([tab EXCEPT !.st = SetAddrFieldError(@)])
  <2>1. PICK u : u = SetAddrFieldError(s)
    OBVIOUS
  <2>2. Follows(tab.st, u)
    BY <1>1, <1>2, <2>1, FormFollows, SetsFollows
  <2>3. Click([tab EXCEPT !.st = u])
    BY <1>1, <1>5, <2>1
  <2> QED BY <2>2, <2>3, DispatchKeeps
<1>6. CASE Click(SaveAddress(tab))
  <2>1. PICK c : c = SaveAddress(t)
    OBVIOUS
  <2>2. Keeps(t, c)
    BY <1>2, <2>1, EditKeeps
  <2> QED BY <1>1, <1>6, <2>1, <2>2, ClickKeeps
<1>7. CASE Click([tab EXCEPT !.st = HideAddressForm(@)])
  <2>1. PICK u : u = HideAddressForm(s)
    OBVIOUS
  <2>2. Follows(tab.st, u)
    BY <1>1, <1>2, <2>1, FormFollows, SetsFollows
  <2>3. Click([tab EXCEPT !.st = u])
    BY <1>1, <1>7, <2>1
  <2> QED BY <2>2, <2>3, DispatchKeeps
<1> QED BY <1>3, <1>4, <1>5, <1>6, <1>7 DEF ClickForm

\* The pay button rests while something is paid for.
LEMMA ClickPayKeeps ==
  ASSUME TypeInv, TabInv, ClickPay
  PROVE  Goes
<1>1. PICK t, c : t = tab /\ c = OpenCheckout(t)
  OBVIOUS
<1>2. Sound(t) /\ Rested(t) /\ t.shown \in State /\ Click(c)
  BY <1>1, ShownTyped DEF TabInv, ClickPay
<1>3. "checkout" \notin t.shown.pending /\ "payment" \notin t.shown.pending
  BY <1>1 DEF ClickPay, Idle, shown
<1>4. ~ Paying(t)
  BY <1>2, <1>3 DEF Rested
<1>5. t.shown.selected \in AddressIds
  <2>1. t.shown.selected \in t.shown.addresses.ids
    BY <1>1 DEF ClickPay, shown
  <2>2. t.shown.addresses \in Book
    BY <1>2 DEF State
  <2> QED BY <2>1, <2>2 DEF Book
<1>6. Keeps(t, c)
  BY <1>1, <1>2, <1>4, <1>5, OpenCheckoutKeeps
<1> QED BY <1>1, <1>2, <1>6, ClickKeeps

\* Links, gates and the menu of the account.
LEMMA LinksKeep ==
  ASSUME TypeInv, TabInv, ClickBack \/ ClickCart \/ ClickAccount
  PROVE  Goes
<1>1. PICK s : s = tab.st
  OBVIOUS
<1>2. s \in State
  BY <1>1, ShownTyped
<1>3. ASSUME NEW screen \in Screen, Click(Leave(tab, screen))
      PROVE  Goes
  <2>1. PICK u : u = Go(s, screen)
    OBVIOUS
  <2>2. Follows(tab.st, u)
    BY <1>1, <1>2, <2>1, GoFollows
  <2>3. Click([tab EXCEPT !.st = u])
    BY <1>1, <1>3, <2>1 DEF Leave
  <2> QED BY <2>2, <2>3, DispatchKeeps
<1>4. CASE ClickBack \/ ClickAccount
  <2>1. {"shop", "cart", "orders", "addresses"} \subseteq Screen
    BY DEF Screen
  <2> QED BY <1>3, <1>4, <2>1 DEF ClickBack, ClickAccount
<1>5. CASE ClickCart
  <2>1. PICK u : u = RequireAuth(s, "cart")
    OBVIOUS
  <2>2. Follows(tab.st, u)
    BY <1>1, <1>2, <2>1, RequireAuthFollows
  <2>3. Click([tab EXCEPT !.st = u])
    BY <1>1, <1>5, <2>1 DEF ClickCart
  <2> QED BY <2>2, <2>3, DispatchKeeps
<1> QED BY <1>4, <1>5

LEMMA ClickBannerKeeps ==
  ASSUME TypeInv, TabInv, ClickBanner
  PROVE  Goes
<1>1. PICK t, s : t = tab /\ s = t.st
  OBVIOUS
<1>2. Sound(t) /\ HasRoom(t) /\ s \in State
  BY <1>1, ShownTyped DEF TabInv
<1>3. CASE Click([tab EXCEPT !.st = ClearBanner(@)])
  <2>1. PICK u : u = ClearBanner(s)
    OBVIOUS
  <2>2. Follows(tab.st, u)
    BY <1>1, <1>2, <2>1, BootFollows, SetsFollows
  <2>3. Click([tab EXCEPT !.st = u])
    BY <1>1, <1>3, <2>1
  <2> QED BY <2>2, <2>3, DispatchKeeps
<1>4. CASE Click(RunBoot(tab))
  <2>1. PICK c : c = RunBoot(t)
    OBVIOUS
  <2>2. Keeps(t, c)
    BY <1>2, <2>1, RunBootKeeps
  <2> QED BY <1>1, <1>4, <2>1, <2>2, ClickKeeps
<1> QED BY <1>3, <1>4 DEF ClickBanner

LEMMA ClickSignOutKeeps ==
  ASSUME TypeInv, TabInv, ClickSignOut
  PROVE  Goes
<1>1. PICK t, c : t = tab /\ c = PerformSignOut(t)
  OBVIOUS
<1>2. Sound(t) /\ Click(c)
  BY <1>1 DEF TabInv, ClickSignOut
<1>3. Keeps(t, c)
  BY <1>1, <1>2, PerformSignOutIs
<1> QED BY <1>1, <1>2, <1>3, ClickKeeps

LEMMA WidgetIs ==
  ASSUME NEW c, Sound(c), NEW w \in Widgets \cup {None}
  PROVE  LET d == [c EXCEPT !.widget = w]
         IN /\ Sound(d) /\ Keeps(c, d) /\ d.st = c.st /\ d.shown = c.shown /\ d.flows = c.flows
            /\ d.sheet = c.sheet /\ Calm(c, d)
<1>1. Shape(c) /\ Typed(c)
  BY SoundTyped
<1>2. PICK d : d = [c EXCEPT !.widget = w]
  OBVIOUS
<1>3. d = [st |-> c.st, shown |-> c.shown, inflight |-> c.inflight, token |-> c.token,
           stored |-> c.stored, flows |-> c.flows, widget |-> w, sheet |-> c.sheet]
  BY <1>1, <1>2 DEF Shape
<1>4. Shape(d) /\ Typed(d)
  BY <1>1, <1>3 DEF Shape, Typed
<1>5. GoodTab(d)
  BY <1>3, <1>4 DEF Sound, GoodTab
<1>6. /\ \A j \in FlowIds : Opens(d, j) <=> Opens(c, j)
      /\ \A j \in FlowIds : Tells(d, j) <=> Tells(c, j)
      /\ \A key : Has(d, key) <=> Has(c, key)
      /\ SheetWaits(d) <=> SheetWaits(c)
      /\ HasRoom(d) <=> HasRoom(c)
  BY <1>3 DEF Opens, Tells, Has, SheetWaits, HasRoom
<1>7. FlagsInv(d)
  BY <1>3, <1>6 DEF Sound, FlagsInv
<1>8. PayInv(d)
  BY <1>3, <1>6 DEF Sound, PayInv
<1>9. PageInv(d)
  BY <1>3 DEF Sound, PageInv
<1>10. Sound(d)
  BY <1>5, <1>7, <1>8, <1>9 DEF Sound
<1>11. Asks(c, d)
  BY <1>3, <1>4, <1>6 DEF Asks
<1>12. Calm(c, d)
  BY <1>3, <1>6 DEF Calm, Paying
<1>13. d.st = c.st /\ d.shown = c.shown /\ d.flows = c.flows /\ d.sheet = c.sheet
  BY <1>3
<1> QED BY <1>2, <1>10, <1>11, <1>12, <1>13 DEF Keeps

LEMMA LaunchWidgetKeeps ==
  ASSUME TypeInv, TabInv, LaunchWidget
  PROVE  Goes
<1>1. PICK t : t = tab
  OBVIOUS
<1>2. Sound(t) /\ t.shown \in State
  BY <1>1, ShownTyped DEF TabInv
<1>3. PICK lines : lines = t.shown.buffer
  OBVIOUS
<1>4. PICK w : w = [selection |-> lines]
  OBVIOUS
<1>5. w \in Widgets \cup {None}
  BY <1>2, <1>3, <1>4 DEF Widgets, State
<1>6. PICK c : c = [t EXCEPT !.widget = w]
  OBVIOUS
<1>7. Keeps(t, c)
  BY <1>2, <1>5, <1>6, WidgetIs
<1>8. Click(c)
  BY <1>1, <1>3, <1>4, <1>6 DEF LaunchWidget, shown
<1> QED BY <1>1, <1>7, <1>8, ClickKeeps

LEMMA WidgetSucceedsKeeps ==
  ASSUME TypeInv, TabInv, WidgetSucceeds
  PROVE  Goes
<1>1. PICK t : t = tab
  OBVIOUS
<1>2. Sound(t) /\ t.widget # None
  BY <1>1 DEF TabInv, WidgetSucceeds
<1>3. t.widget \in Widgets
  BY <1>2, SoundTyped
<1>4. PICK selection : selection = t.widget.selection
  OBVIOUS
<1>5. selection \in Lines
  BY <1>3, <1>4 DEF Widgets
<1>6. PICK c : c = [t EXCEPT !.widget = None]
  OBVIOUS
<1>7. None \in Widgets \cup {None}
  OBVIOUS
<1>8. Sound(c) /\ Keeps(t, c)
  BY <1>2, <1>6, <1>7, WidgetIs
<1>9. PICK d : d = SignInWithWidget(c, selection)
  OBVIOUS
<1>10. Keeps(c, d)
  BY <1>5, <1>8, <1>9, SignInKeeps
<1>11. Keeps(t, d)
  BY <1>8, <1>10, KeepsTrans
<1>12. Page(Render(d))
  BY <1>1, <1>4, <1>6, <1>9 DEF WidgetSucceeds
<1>13. TabInv' /\ (tab'.st.cancelled => tab.st.cancelled)
  BY <1>1, <1>11, <1>12, RendersKeep DEF Page
<1>14. TypeInv'
  BY <1>12 DEF Page, TypeInv
<1> QED BY <1>13, <1>14 DEF Goes

LEMMA WidgetFailsKeeps ==
  ASSUME TypeInv, TabInv, WidgetFails
  PROVE  Goes
<1>1. PICK t : t = tab
  OBVIOUS
<1>2. Sound(t) /\ HasRoom(t) /\ Rested(t) /\ t.st \in State
  BY <1>1, ShownTyped DEF TabInv
<1>3. PICK s : s = ReqFail(t.st, "widgetSession")
  OBVIOUS
<1>4. Follows(t.st, s)
  <2>1. "widgetSession" \in PlainKey
    BY DEF PlainKey, RequestKey
  <2> QED BY <1>2, <1>3, <2>1, ReqFailFollows
<1>5. PICK c : c = [t EXCEPT !.widget = None]
  OBVIOUS
<1>6. None \in Widgets \cup {None}
  OBVIOUS
<1>7. Sound(c) /\ Calm(t, c) /\ c.st = t.st /\ c.flows = t.flows
  BY <1>2, <1>5, <1>6, WidgetIs
<1>8. PICK d : d = [c EXCEPT !.st = s]
  OBVIOUS
<1>9. Follows(c.st, s)
  BY <1>4, <1>7
<1>10. Sound(d) /\ Calm(c, d) /\ d.flows = c.flows
  BY <1>7, <1>8, <1>9, StKeeps
<1>11. tab' = d
  <2>1. tab' = [t EXCEPT !.widget = None, !.st = s]
    BY <1>1, <1>3 DEF WidgetFails
  <2> QED BY <1>5, <1>8, <2>1
<1>12. Calm(t, d)
  BY <1>7, <1>10, CalmTrans
<1>13. Rested(d)
  BY <1>2, <1>12, CalmRests
<1>14. HasRoom(d)
  BY <1>2, <1>7, <1>10 DEF HasRoom
<1>15. TabInv' /\ (tab'.st.cancelled => tab.st.cancelled)
  BY <1>1, <1>10, <1>11, <1>12, <1>13, <1>14 DEF TabInv, Calm
<1>16. clicks' \in 0..habit'.clicks
  BY SpendKeeps DEF WidgetFails
<1>17. TypeInv'
  BY <1>16 DEF WidgetFails, TypeInv
<1> QED BY <1>15, <1>17 DEF Goes

LEMMA HandlerFiresKeeps ==
  ASSUME TypeInv, TabInv, HandlerFires
  PROVE  Goes
<1>1. PICK c, d : c = tab /\ d = Handler(c)
  OBVIOUS
<1>2. Sound(c) /\ SheetWaits(c) /\ Page(d)
  BY <1>1 DEF HandlerFires, TabInv, SheetWaits
<1>3. HasRoom(Handler(c))
  BY <1>1, <1>2 DEF Page, Turns
<1>4. Sound(d) /\ Calm(c, d)
  BY <1>1, <1>2, <1>3, HandlerKeeps
<1> QED BY <1>1, <1>2, <1>4, OwnStepKeeps

LEMMA CloseSheetKeeps ==
  ASSUME TypeInv, TabInv, CloseSheet
  PROVE  Goes
<1>1. PICK c, d : c = tab /\ d = OnDismiss(c)
  OBVIOUS
<1>2. Sound(c) /\ Rested(c) /\ c.sheet # None /\ Page(d)
  BY <1>1 DEF CloseSheet, TabInv
<1>3. /\ Sound(d) /\ d.shown = c.shown /\ d.st.pdp = c.st.pdp
      /\ Paying(d) => Paying(c)
      /\ ~ SheetWaits(c) => d.st = c.st
  BY <1>1, <1>2, OnDismissKeeps
<1>4. Rested(d)
  BY <1>2, <1>3 DEF Rested
<1>5. TabInv'
  BY <1>2, <1>3, <1>4 DEF Page, Turns, TabInv
<1>6. TypeInv'
  BY <1>2 DEF Page, TypeInv
<1>7. tab' = d
  BY <1>2 DEF Page, Turns
<1>8. tab'.st.cancelled /\ ~ tab.st.cancelled => SheetWaits(tab)
  BY <1>1, <1>3, <1>7
<1> QED BY <1>5, <1>6, <1>8 DEF Goes

\* What happens to the server's record meanwhile.
LEMMA ServerStepsKeep ==
  ASSUME TypeInv, TabInv,
         \/ Capture
         \/ \E o \in OrderIds : Webhook(o) \/ OrderEnds(o)
         \/ \E t \in Tokens : Expire(t)
  PROVE  Goes
<1>1. PICK s : s = srv
  OBVIOUS
<1>2. s \in Server
  BY <1>1 DEF TypeInv
<1>3. PICK yes : yes = TRUE
  OBVIOUS
<1>4. yes \in BOOLEAN /\ "ended" \in OrderStatus
  BY <1>3 DEF OrderStatus
<1>5. CASE Capture
  <2>1. tab.sheet \in Sheets
    BY <1>5, SoundTyped DEF TabInv, Capture
  <2>2. PICK o : o = tab.sheet.order
    OBVIOUS
  <2>3. o \in OrderIds
    BY <2>1, <2>2 DEF Sheets
  <2>4. [s EXCEPT !.orders[o].paid = yes] \in Server
    BY <1>2, <1>4, <2>3, EntryKeeps
  <2>5. srv' \in Server
    BY <1>1, <1>3, <1>5, <2>2, <2>4 DEF Capture
  <2> QED BY <1>5, <2>5 DEF Capture, Goes, TypeInv, TabInv
<1>6. ASSUME NEW o \in OrderIds, Webhook(o)
      PROVE  Goes
  <2>1. srv' \in Server
    BY <1>1, <1>2, <1>6, PlaceKeeps DEF Webhook
  <2>2. seen' \in SUBSET Marks
    BY <1>6 DEF Webhook, TypeInv, Marks
  <2> QED BY <1>6, <2>1, <2>2 DEF Webhook, Goes, TypeInv, TabInv
<1>7. ASSUME NEW o \in OrderIds, OrderEnds(o)
      PROVE  Goes
  <2>1. [s EXCEPT !.orders[o].status = "ended"] \in Server
    BY <1>2, <1>4, EntryKeeps
  <2>2. srv' \in Server
    BY <1>1, <1>7, <2>1 DEF OrderEnds
  <2> QED BY <1>7, <2>2 DEF OrderEnds, Goes, TypeInv, TabInv
<1>8. ASSUME NEW t \in Tokens, Expire(t)
      PROVE  Goes
  <2>1. PICK lapsed : lapsed = s.lapsed \cup {t}
    OBVIOUS
  <2>2. lapsed \in SUBSET Tokens
    BY <1>2, <2>1, ServerIs
  <2>3. [s EXCEPT !.lapsed = lapsed] \in Server
    BY <1>2, <2>2, ServerIs
  <2>4. srv' \in Server
    BY <1>1, <1>8, <2>1, <2>3 DEF Expire
  <2> QED BY <1>8, <2>4 DEF Expire, Goes, TypeInv, TabInv
<1> QED BY <1>5, <1>6, <1>7, <1>8

LEMMA ReloadKeeps ==
  ASSUME TypeInv, TabInv, Reload
  PROVE  Goes
<1>1. PICK token, stored : token = tab.token /\ stored = tab.stored
  OBVIOUS
<1>2. token \in Tokens \cup {NoToken} /\ stored \in Lines
  BY <1>1, SoundTyped DEF TabInv, Typed
<1>3. PICK d : d = OpenPage(token, stored)
  OBVIOUS
<1>4. tab' = d /\ HasRoom(d)
  BY <1>1, <1>3 DEF Reload, Turns
<1>5. Sound(d) /\ Rested(d) /\ d.st.cancelled = FALSE
  BY <1>2, <1>3, <1>4, OpenPageKeeps
<1>6. TabInv' /\ (tab'.st.cancelled => tab.st.cancelled)
  BY <1>4, <1>5 DEF TabInv
<1>7. clicks' \in 0..habit'.clicks
  BY SpendKeeps DEF Reload
<1>8. seen' \in SUBSET Marks
  BY DEF Reload, TypeInv, Marks
<1>9. TypeInv'
  BY <1>7, <1>8 DEF Reload, TypeInv
<1> QED BY <1>6, <1>9 DEF Goes

-----------------------------------------------------------------------------
(* Where a behaviour starts.                                               *)

LEMMA AtRestIs ==
  ASSUME habit.stored \in Lines, NEW token \in Tokens \cup {NoToken},
         NEW user \in Shoppers \cup {None}, NEW cart \in Lines \cup {None}, NEW book \in Book
  PROVE  Resting(AtRest(token, user, cart, book))
<1>1. PICK no, stored : no = FALSE /\ stored = habit.stored
  OBVIOUS
<1>2. PICK dflt : dflt = book.dflt
  OBVIOUS
<1>3. no \in BOOLEAN /\ stored \in Lines /\ dflt \in AddressIds \cup {None}
      /\ Products \in SUBSET Products
  BY <1>1, <1>2 DEF Book
<1>4. PICK s1 : s1 = [InitialState EXCEPT !.booting = no]
  OBVIOUS
<1>5. Sets(InitialState, s1)
  BY <1>3, <1>4, InitialStateIs, FieldSets
<1>6. PICK s2 : s2 = [s1 EXCEPT !.products = Products]
  OBVIOUS
<1>7. Sets(s1, s2)
  BY <1>3, <1>5, <1>6, FieldSets DEF Sets, Follows
<1>8. PICK s3 : s3 = [s2 EXCEPT !.user = user]
  OBVIOUS
<1>9. Sets(s2, s3)
  BY <1>7, <1>8, FieldSets DEF Sets, Follows
<1>10. PICK s4 : s4 = [s3 EXCEPT !.cart = cart]
  OBVIOUS
<1>11. Sets(s3, s4)
  BY <1>9, <1>10, FieldSets DEF Sets, Follows
<1>12. PICK s5 : s5 = [s4 EXCEPT !.addresses = book]
  OBVIOUS
<1>13. Sets(s4, s5)
  BY <1>11, <1>12, FieldSets DEF Sets, Follows
<1>14. PICK s6 : s6 = [s5 EXCEPT !.selected = dflt]
  OBVIOUS
<1>15. Sets(s5, s6)
  BY <1>3, <1>13, <1>14, FieldSets DEF Sets, Follows
<1>16. PICK s7 : s7 = [s6 EXCEPT !.buffer = stored]
  OBVIOUS
<1>17. Sets(s6, s7)
  BY <1>3, <1>15, <1>16, FieldSets DEF Sets, Follows
<1>18. Sets(InitialState, s7)
  <2>1. Sets(InitialState, s3)
    BY <1>5, <1>7, <1>9, SetsTrans
  <2>2. Sets(InitialState, s5)
    BY <1>11, <1>13, <2>1, SetsTrans
  <2> QED BY <1>15, <1>17, <2>2, SetsTrans
<1>19. s7 \in State /\ s7.pending = {} /\ s7.pdp = None /\ s7.detail = None /\ s7.cancelled = FALSE
  <2>1. s7 \in State /\ s7.pending = {} /\ s7.pdp = None /\ s7.detail = None
    BY <1>18, InitialStateIs DEF Sets, Follows
  <2>2. s7.cancelled \in BOOLEAN
    BY <2>1 DEF State
  <2>3. ~ s7.cancelled
    BY <1>18, InitialStateIs DEF Sets, Follows
  <2> QED BY <2>1, <2>2, <2>3
<1>20. PICK none, flows : none = {} /\ flows = [i \in FlowIds |-> None]
  OBVIOUS
<1>21. PICK page : page = [st |-> s7, shown |-> s7, inflight |-> none, token |-> token,
                           stored |-> stored, flows |-> flows, widget |-> None, sheet |-> None]
  OBVIOUS
<1>22. AtRest(token, user, cart, book) = page
  <2>1. PICK t : t = [InitialState EXCEPT !.booting = no, !.products = Products, !.user = user,
                                  !.cart = cart, !.addresses = book, !.selected = dflt,
                                  !.buffer = stored]
    OBVIOUS
  <2>2. t = s7
    BY <1>4, <1>6, <1>8, <1>10, <1>12, <1>14, <1>16, <2>1
  <2>3. AtRest(token, user, cart, book) =
          [st |-> t, shown |-> t, inflight |-> none, token |-> token, stored |-> stored,
           flows |-> flows, widget |-> None, sheet |-> None]
    BY <1>1, <1>2, <1>20, <2>1 DEF AtRest
  <2> QED BY <1>21, <2>2, <2>3
<1>23. flows = [i \in FlowIds |-> flows[i]] /\ \A i \in FlowIds : flows[i] = None
  BY <1>20
<1>24. Shape(page)
  BY <1>21, <1>23 DEF Shape
<1>25. Typed(page)
  BY <1>3, <1>19, <1>20, <1>21 DEF Typed
<1>26. Resting(page)
  BY <1>19, <1>21, <1>23, <1>24, <1>25 DEF Resting
<1> QED BY <1>22, <1>26

LEMMA RestingRoom ==
  ASSUME NEW c, Resting(c), NEW d, HasRoom(d)
  PROVE  HasRoom(c)
BY DEF HasRoom, Resting

LEMMA RestoringIs ==
  ASSUME habit.stored \in Lines, HasRoom(Restoring)
  PROVE  Sound(Restoring) /\ Rested(Restoring)
<1>1. 1 \in Tokens \cup {NoToken} /\ None \in Shoppers \cup {None} /\ None \in Lines \cup {None}
  BY SessionsAssumption DEF Tokens
<1>2. PICK page : page = AtRest(1, None, None, NoBook)
  OBVIOUS
<1>3. Resting(page)
  BY <1>1, <1>2, AtRestIs, NoLinesIs
<1>4. Sound(page) /\ Rested(page) /\ HasRoom(page)
  BY <1>3, RestingSound, RestingRoom
<1>5. PICK i : i = FreeSlot(page)
  OBVIOUS
<1>6. PICK d : d = Join(Ask([page EXCEPT !.st = BootStart(@)], "boot", None, 0), i)
  OBVIOUS
<1>7. i \in FlowIds /\ Sound(d) /\ Calm(page, d) /\ Asks(page, d)
  BY <1>4, <1>5, <1>6, StartedKeeps
<1>8. i \in 0..MaxFlows
  BY <1>7, FlowsAssumption DEF FlowIds
<1>9. PICK e : e = RestoreSession(d, i)
  OBVIOUS
<1>10. Asks(d, e)
  BY <1>7, <1>8, <1>9, RestoreSessionAsks DEF Asks
<1>11. Restoring = Render(e)
  BY <1>2, <1>5, <1>6, <1>9 DEF Restoring
<1>12. Shape(e) /\ Typed(e) /\ e.st.pdp = e.shown.pdp
  BY <1>4, <1>7, <1>10 DEF Asks, Rested
<1>13. HasRoom(Render(e))
  BY <1>11
<1>14. HasRoom(e)
  BY <1>12, <1>13, RenderRoom
<1>15. Sound(e)
  BY <1>7, <1>8, <1>9, <1>14, RestoreSessionKeeps
<1>16. Sound(Render(e)) /\ Rested(Render(e))
  BY <1>13, <1>15, RenderKeeps
<1> QED BY <1>11, <1>16

LEMMA InitHolds ==
  ASSUME Init
  PROVE  TypeInv /\ TabInv
<1>1. PICK user \in Shoppers, lapsed \in SUBSET {1} :
        /\ srv = [sessions |-> [t \in Tokens |->
                            IF t = 1 /\ habit.start # "out" THEN user ELSE None],
                  lapsed |-> lapsed,
                  carts |-> [u \in Shoppers |-> IF u = user THEN habit.cart ELSE NoLines],
                  books |-> [u \in Shoppers |-> IF u = user THEN habit.book ELSE NoBook],
                  orders |-> [o \in OrderIds |->
                               [owner |-> None, status |-> "pending", paid |-> FALSE]]]
        /\ tab \in InitTab(user) /\ HasRoom(tab)
  BY DEF Init
<1>2. /\ habit \in Habits /\ habit.start \in {"opening", "restoring", "out", "in"}
      /\ habit.clicks \in Nat /\ habit.faults \in Nat
      /\ habit.cart \in Lines /\ habit.stored \in Lines /\ habit.book \in Book
      /\ clicks = habit.clicks /\ faults = habit.faults
      /\ asked = [p \in Products |-> Capped(habit.cart[p] + habit.stored[p])]
      /\ seen = {}
  BY HabitsAssumption DEF Init
<1>3. srv \in Server
  <2>1. PICK sessions : sessions = [t \in Tokens |->
                            IF t = 1 /\ habit.start # "out" THEN user ELSE None]
    OBVIOUS
  <2>2. PICK carts : carts = [u \in Shoppers |-> IF u = user THEN habit.cart ELSE NoLines]
    OBVIOUS
  <2>3. PICK books : books = [u \in Shoppers |-> IF u = user THEN habit.book ELSE NoBook]
    OBVIOUS
  <2>4. PICK no : no = FALSE
    OBVIOUS
  <2>5. PICK e : e = [owner |-> None, status |-> "pending", paid |-> no]
    OBVIOUS
  <2>6. e \in [owner : Shoppers \cup {None}, status : OrderStatus, paid : BOOLEAN]
    BY <2>4, <2>5 DEF OrderStatus
  <2>7. PICK orders : orders = [o \in OrderIds |-> e]
    OBVIOUS
  <2>8. sessions \in [Tokens -> Shoppers \cup {None}]
    BY <2>1
  <2>9. carts \in [Shoppers -> Lines]
    BY <1>2, <2>2, NoLinesIs
  <2>10. books \in [Shoppers -> Book]
    BY <1>2, <2>3, NoLinesIs
  <2>11. orders \in [OrderIds -> [owner : Shoppers \cup {None}, status : OrderStatus,
                                  paid : BOOLEAN]]
    BY <2>6, <2>7
  <2>12. lapsed \in SUBSET Tokens
    BY SessionsAssumption DEF Tokens
  <2>13. srv = [sessions |-> sessions, lapsed |-> lapsed, carts |-> carts, books |-> books,
                orders |-> orders]
    BY <1>1, <2>1, <2>2, <2>3, <2>4, <2>5, <2>7
  <2> QED BY <2>8, <2>9, <2>10, <2>11, <2>12, <2>13 DEF Server
<1>4. asked \in Lines
  <2>1. \A p \in Products : habit.cart[p] + habit.stored[p] \in Nat
    BY <1>2, ShopAssumption DEF Lines
  <2>2. \A p \in Products : Capped(habit.cart[p] + habit.stored[p]) \in 0..MaxQty
    BY <2>1, CappedIs
  <2> QED BY <1>2, <2>2 DEF Lines
<1>5. TypeInv
  BY <1>2, <1>3, <1>4 DEF TypeInv
<1>6. 1 \in Tokens \cup {NoToken} /\ NoToken \in Tokens \cup {NoToken}
      /\ None \in Shoppers \cup {None} /\ None \in Lines \cup {None}
  BY SessionsAssumption DEF Tokens
<1>7. CASE habit.start = "opening"
  <2>1. PICK t \in {NoToken, 1} : tab = OpenPage(t, habit.stored)
    BY <1>1, <1>7 DEF InitTab
  <2>2. Sound(tab) /\ Rested(tab)
    BY <1>1, <1>2, <1>6, <2>1, OpenPageKeeps
  <2> QED BY <1>1, <1>5, <2>2 DEF TabInv
<1>8. CASE habit.start = "restoring"
  <2>1. tab = Restoring
    BY <1>1, <1>8 DEF InitTab
  <2>2. Sound(tab) /\ Rested(tab)
    BY <1>1, <1>2, <2>1, RestoringIs
  <2> QED BY <1>1, <1>5, <2>2 DEF TabInv
<1>9. CASE habit.start = "out"
  <2>1. tab = AtRest(NoToken, None, None, NoBook)
    BY <1>1, <1>9 DEF InitTab
  <2>2. Sound(tab) /\ Rested(tab)
    BY <1>2, <1>6, <2>1, AtRestIs, RestingSound, NoLinesIs
  <2> QED BY <1>1, <1>5, <2>2 DEF TabInv
<1>10. CASE habit.start = "in"
  <2>1. PICK cart, book : cart = habit.cart /\ book = habit.book
    OBVIOUS
  <2>2. tab = AtRest(1, user, cart, book)
    BY <1>1, <1>10, <2>1 DEF InitTab
  <2>3. user \in Shoppers \cup {None} /\ cart \in Lines \cup {None} /\ book \in Book
    BY <1>2, <2>1
  <2>4. Sound(tab) /\ Rested(tab)
    BY <1>2, <1>6, <2>2, <2>3, AtRestIs, RestingSound
  <2> QED BY <1>1, <1>5, <2>4 DEF TabInv
<1> QED BY <1>2, <1>7, <1>8, <1>9, <1>10

LEMMA StepHolds ==
  ASSUME TypeInv, TabInv, [Next]_vars
  PROVE  Goes
<1>1. CASE Clicks
  BY <1>1, ClickCardKeeps, ClickPdpKeeps, ClickLineKeeps, ClickAddressKeeps, BuyFromPdpKeeps,
     ProceedKeeps, ClickFormKeeps, ClickPayKeeps, LinksKeep, ClickBannerKeeps, ClickSignOutKeeps,
     LaunchWidgetKeeps DEF Clicks
<1>2. CASE World
  BY <1>2, WidgetSucceedsKeeps, WidgetFailsKeeps, HandlerFiresKeeps, CloseSheetKeeps, ReloadKeeps,
     ServerStepsKeep DEF World
<1>3. CASE Runtime
  BY <1>3, CommitKeeps, ServeKeeps, ResumeKeeps, FinishJoinKeeps, WakesKeeps DEF Runtime, Progress
<1>4. CASE UNCHANGED vars
  BY <1>4 DEF vars, Goes, TypeInv, TabInv
<1> QED BY <1>1, <1>2, <1>3, <1>4 DEF Next

LEMMA Invariance == Spec => [](TypeInv /\ TabInv)
<1>1. Init => TypeInv /\ TabInv
  BY InitHolds
<1>2. TypeInv /\ TabInv /\ [Next]_vars => (TypeInv /\ TabInv)'
  BY StepHolds DEF Goes
<1> QED BY <1>1, <1>2, PTL DEF Spec

-----------------------------------------------------------------------------
(* What the invariants say of the tab.                                     *)

LEMMA TypesFollow == TypeInv /\ TabInv => TypeOK
<1> SUFFICES ASSUME TypeInv, TabInv PROVE TypeOK
  OBVIOUS
<1>1. PICK c : c = tab
  OBVIOUS
<1>2. Typed(c) /\ c.shown \in State /\ \A i \in FlowIds : c.flows[i] # None => GoodCall(c.flows[i])
  BY <1>1, SoundTyped DEF TabInv
<1>3. \A i \in FlowIds : c.flows[i] # None => c.flows[i].kind \in Kind /\ c.flows[i].at \in FlowStep
  BY <1>2, GoodCallIs
<1> QED BY <1>1, <1>2, <1>3 DEF TypeOK, TypeInv, Typed

LEMMA FlagsFollow == TabInv => FlagsHaveACall
BY DEF TabInv, Sound, FlagsInv, FlagsHaveACall, SheetWaits, Tells, Has, ServedBy

LEMMA OneFollows == TabInv => OneCheckoutAtATime
<1> SUFFICES ASSUME TabInv PROVE OneCheckoutAtATime
  OBVIOUS
<1> DEFINE sheet == IF tab.sheet # None /\ ~ tab.sheet.settled THEN {"sheet"} ELSE {}
           orders == ServedBy("checkout")
<1>1. /\ \A i, j \in orders \cup Telling : i = j
      /\ sheet # {} => orders = {} /\ Telling = {}
      /\ orders \cap Telling = {}
  BY DEF TabInv, Sound, PayInv, SheetWaits, Opens, Tells, ServedBy, Telling
<1>2. Cardinality({}) = 0 /\ \A x : Cardinality({x}) = 1
  BY FS_EmptySet, FS_Singleton
<1>3. orders = {} \/ \E i : orders = {i}
  BY <1>1
<1>4. Telling = {} \/ \E i : Telling = {i}
  BY <1>1
<1>5. sheet = {} \/ sheet = {"sheet"}
  OBVIOUS
<1>6. orders = {} \/ Telling = {}
  BY <1>1
<1>7. /\ Cardinality(orders) \in {0, 1} /\ Cardinality(Telling) \in {0, 1}
      /\ Cardinality(sheet) \in {0, 1}
      /\ orders = {} => Cardinality(orders) = 0
      /\ Telling = {} => Cardinality(Telling) = 0
      /\ sheet = {} => Cardinality(sheet) = 0
  BY <1>2, <1>3, <1>4, <1>5
<1>8. Cardinality(orders) + Cardinality(Telling) + Cardinality(sheet) <= 1
  BY <1>1, <1>6, <1>7
<1> QED BY <1>8 DEF OneCheckoutAtATime

LEMMA DetailFollows == TabInv => DetailIsOfThePage
BY DEF TabInv, Sound, PageInv, DetailIsOfThePage

\* Once the payment was reported no sheet waits any more.
LEMMA PaidIsNotWaiting ==
  ASSUME TabInv, (tab.sheet # None /\ tab.sheet.settled) \/ Telling # {}
  PROVE  ~ SheetWaits(tab)
BY DEF TabInv, Sound, PayInv, SheetWaits, Tells, Telling, ServedBy

(* Type correctness: the reducer's state, what is in flight, the stored     *)
(* token and selection, the calls that wait, the server's record and the    *)
(* history keep their types, whatever is clicked, answered, lost, reloaded  *)
(* or expires.                                                              *)
THEOREM TypeCorrect == Spec => []TypeOK
BY Invariance, TypesFollow, PTL

(* Every flag of ShopState.pending that is up has its call, its sheet or    *)
(* its ladder: no spinner is left on (useShop.ts, guard/reqStart/finally).  *)
THEOREM FlagsAreServed == Spec => []FlagsHaveACall
BY Invariance, FlagsFollow, PTL

(* The shopper is never in two checkouts: the pay button rests while an     *)
(* order is opened, its sheet waits or its payment is confirmed.            *)
THEOREM NeverTwoCheckouts == Spec => []OneCheckoutAtATime
BY Invariance, OneFollows, PTL

(* The page shows the details of its own product only: a newer load takes   *)
(* the place of the older one, and no answer is of another page.            *)
THEOREM DetailsAreOfThePage == Spec => []DetailIsOfThePage
BY Invariance, DetailFollows, PTL

(* From the captured payment to the told outcome no step, the closing of    *)
(* the sheet included, tells the shopper that it was cancelled.             *)
THEOREM PaidStaysPaid == Spec => PaidIsNeverCancelled
<1>1. TabInv /\ TypeInv /\ [Next]_vars =>
        [(tab.sheet # None /\ tab.sheet.settled) \/ Telling # {}
           => (tab'.st.cancelled => tab.st.cancelled)]_vars
  BY StepHolds, PaidIsNotWaiting DEF Goes
<1> QED BY <1>1, Invariance, PTL DEF Spec, PaidIsNeverCancelled

=============================================================================
