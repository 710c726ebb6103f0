------------------------ MODULE StorefrontInvariants ------------------------
(***************************************************************************)
(* Why the storefront keeps its promises: what holds of a tab between any  *)
(* two of its steps.  Every predicate is about a tab c, so that it can be  *)
(* followed through the commands, which are operators on tabs.             *)
(***************************************************************************)
EXTENDS StorefrontProperties

-----------------------------------------------------------------------------
(* Types: which calls there are, with what and what they are answered.     *)

CartCalls ==
  [op : {"get", "add", "set", "remove"}, product : Products \cup {None}, qty : 0..MaxQty,
   then : Screen \cup {None}]
SignIns ==
  [step : {"exchange", "replay"}, left : Lines, user : Shoppers \cup {None},
   replays : BOOLEAN, soldOut : BOOLEAN]
Edits == [id : AddressIds \cup {"new"}, dflt : BOOLEAN]
Tries == [order : OrderIds, try : 1..5]
Sessions == [token : Tokens, user : Shoppers]
Sheets == [order : OrderIds, settled : BOOLEAN]
Widgets == [selection : Lines]
Statuses == {"ok", "401", "404", "409", "net", "empty", "fields"}

ArgsOf(kind) ==
  CASE kind = "product"                     -> Products
    [] kind = "cart"                        -> CartCalls
    [] kind = "widgetSession"               -> SignIns
    [] kind = "addressSave"                 -> Edits
    [] kind \in {"addressDelete", "checkout"} -> AddressIds
    [] kind = "confirm"                     -> Tries
    [] OTHER                                -> {None}

BodiesOf(kind, arg) ==
  CASE kind = "products"                -> SUBSET Products
    [] kind = "product"                 -> {arg}
    [] kind = "restore"                 -> Shoppers
    [] kind = "cart"                    -> Lines
    [] kind = "widgetSession"           -> IF arg.step = "exchange" THEN Sessions ELSE Lines
    [] kind \in {"addresses", "addressDelete"} -> Book
    [] kind = "orders"                  -> SUBSET OrderIds
    [] kind = "addressSave"             -> AddressIds
    [] kind = "checkout"                -> OrderIds
    [] kind = "confirm"                 -> Order
    [] OTHER                            -> {None}

CallsOf(kind, arg, body) ==
  [kind : {kind}, at : FlowStep, tok : Tokens \cup {NoToken}, arg : {arg}, of : 0..MaxFlows,
   status : Statuses \cup {None}, body : {body}]

ASSUME NoneIsNothing ==
  /\ \A kind \in Kind : \A arg \in ArgsOf(kind) : \A body \in BodiesOf(kind, arg) \cup {None} :
       None \notin CallsOf(kind, arg, body)
  /\ None \notin Sheets /\ None \notin Widgets /\ None # "ok"

Joiners == {"boot", "restore", "widgetSession", "addressSave", "checkout", "confirm"}

\* The restored session and the payment have flags of no call of their own.
CallKind == Kind \ {"session", "payment"}

\* What a call is when its command waits for it.
GoodCall(f) ==
  /\ f \in CallsOf(f.kind, f.arg, f.body)
  /\ f.kind \in CallKind /\ f.arg \in ArgsOf(f.kind)
  /\ f.body \in BodiesOf(f.kind, f.arg) \cup {None}
  /\ f.kind = "cart" => f.arg.op = "get" \/ f.arg.product \in Products
  /\ f.kind = "boot" => f.at = "joining"
  /\ f.at = "joining" => f.kind \in Joiners /\ f.status = None
  /\ f.at = "resting" => f.kind = "confirm"
  /\ f.at = "answered" /\ f.status = "ok" => f.body \in BodiesOf(f.kind, f.arg)
  /\ f.kind = "widgetSession" =>
       /\ f.at = "joining" => f.arg.step = "replay"
       /\ f.at # "joining" /\ f.arg.step = "replay" => ~ IsEmpty(f.arg.left)

Shape(c) ==
  /\ c = [st |-> c.st, shown |-> c.shown, inflight |-> c.inflight, token |-> c.token,
          stored |-> c.stored, flows |-> c.flows, widget |-> c.widget, sheet |-> c.sheet]
  /\ c.flows = [i \in FlowIds |-> c.flows[i]]

GoodTab(c) ==
  /\ Shape(c)
  /\ c.st \in State /\ c.shown \in State /\ c.inflight \in SUBSET RequestKey
  /\ c.token \in Tokens \cup {NoToken} /\ c.stored \in Lines
  /\ c.widget \in Widgets \cup {None} /\ c.sheet \in Sheets \cup {None}
  /\ \A i \in FlowIds : c.flows[i] # None => GoodCall(c.flows[i])

-----------------------------------------------------------------------------
(* Flags, payments and the product page.                                   *)

Has(c, kind) == \E i \in FlowIds : c.flows[i] # None /\ c.flows[i].kind = kind

\* A checkout under way, a ladder that has not told the outcome, a sheet that
\* waits for the shopper.
Opens(c, i) == c.flows[i] # None /\ c.flows[i].kind = "checkout"
Tells(c, i) == c.flows[i] # None /\ c.flows[i].kind = "confirm" /\ c.flows[i].at # "joining"
SheetWaits(c) == c.sheet # None /\ ~ c.sheet.settled

Paying(c) == SheetWaits(c) \/ \E i \in FlowIds : Opens(c, i) \/ Tells(c, i)

FlagsInv(c) ==
  \A key \in c.st.pending \ {"widgetSession", "addressSave"} :
    IF key = "payment" THEN SheetWaits(c) \/ \E i \in FlowIds : Tells(c, i)
    ELSE Has(c, key)

\* One payment, whose flag is up.
PayInv(c) ==
  /\ \A i, j \in FlowIds :
       (Opens(c, i) \/ Tells(c, i)) /\ (Opens(c, j) \/ Tells(c, j)) => i = j
  /\ SheetWaits(c) => \A i \in FlowIds : ~ Opens(c, i) /\ ~ Tells(c, i)
  /\ (\E i \in FlowIds : Opens(c, i)) => "checkout" \in c.st.pending
  /\ (SheetWaits(c) \/ \E i \in FlowIds : Tells(c, i)) => "payment" \in c.st.pending

\* The details shown are of the page, and the load under way is of the page
\* that was rendered.
PageInv(c) ==
  /\ c.st.detail \in {None, c.st.pdp}
  /\ c.st.pdp = None => c.shown.pdp = None
  /\ \A i \in FlowIds :
       c.flows[i] # None /\ c.flows[i].kind = "product" => c.flows[i].arg = c.shown.pdp

Sound(c) == GoodTab(c) /\ FlagsInv(c) /\ PayInv(c) /\ PageInv(c)

\* What else holds between two steps: a new product page has been rendered,
\* and the pay button rests while something is paid for.
Rested(c) ==
  /\ c.st.pdp = c.shown.pdp
  /\ Paying(c) => "checkout" \in c.shown.pending \/ "payment" \in c.shown.pending

TypeInv ==
  /\ srv \in Server
  /\ habit \in Habits /\ clicks \in 0..habit.clicks /\ faults \in 0..habit.faults
  /\ asked \in Lines /\ seen \in SUBSET Marks

TabInv == Sound(tab) /\ Rested(tab) /\ HasRoom(tab)

-----------------------------------------------------------------------------
(* The offline selection.                                                  *)

Carts(c, i) == c.flows[i] # None /\ c.flows[i].kind = "cart"
SignsIn(c, i) == c.flows[i] # None /\ c.flows[i].kind = "widgetSession"

\* A sign-in that will wipe the selection, for it is adding it to the cart.
Replays(c) ==
  \E i \in FlowIds :
    SignsIn(c, i) /\ c.flows[i].arg.step = "replay" /\ c.flows[i].arg.replays

\* One cart call and one sign-in at a time, each behind its guard.
Once(c) ==
  /\ c.stored = c.st.buffer
  /\ \A i, j \in FlowIds : Carts(c, i) /\ Carts(c, j) => i = j
  /\ \A i, j \in FlowIds : SignsIn(c, i) /\ SignsIn(c, j) => i = j
  /\ \A i \in FlowIds : Carts(c, i) => "cart" \in c.inflight
  /\ \A i \in FlowIds : SignsIn(c, i) =>
       /\ "widgetSession" \in c.inflight /\ "widgetSession" \in c.st.pending
       /\ c.widget = None
       /\ ~ IsEmpty(c.flows[i].arg.left) => c.flows[i].arg.replays

\* The login screen has rendered that a sign-in is under way.
Awaits(c) == (\E i \in FlowIds : SignsIn(c, i)) => "widgetSession" \in c.shown.pending

\* What a sign-in has yet to add: the item of an answered call is added.
Left(f) ==
  IF f.arg.step = "replay" /\ f.at = "answered"
    THEN [f.arg.left EXCEPT ![NextItem(f.arg.left)] = 0]
    ELSE f.arg.left

\* The selections that may still be added to a cart.
Selects(c, s) ==
  \/ s = NoLines
  \/ s = c.st.buffer /\ ~ Replays(c)
  \/ s = c.shown.buffer /\ "widgetSession" \notin c.shown.pending
  \/ c.widget # None /\ s = c.widget.selection
  \/ \E i \in FlowIds : SignsIn(c, i) /\ s = Left(c.flows[i])

\* The carts the page shows or is about to be told.
Shows(c, x) ==
  \/ x # None /\ x \in {c.st.cart, c.shown.cart}
  \/ \E i \in FlowIds :
       /\ Carts(c, i) \/ (SignsIn(c, i) /\ c.flows[i].arg.step = "replay")
       /\ c.flows[i].at = "answered" /\ c.flows[i].status = "ok" /\ x = c.flows[i].body

\* The cart calls the server has not seen.
Sends(c, a) == \E i \in FlowIds : Carts(c, i) /\ c.flows[i].at = "asked" /\ a = c.flows[i].arg

Fits(want, p, n) == Capped(n) <= want[p]

\* Whatever may still be added to a cart, to one the page shows or to what a
\* call makes of it, was asked for.
Affords(c, carts, want) ==
  \A s \in Lines, p \in Products : Selects(c, s) =>
    /\ \A u \in Shoppers : Fits(want, p, carts[u][p] + s[p])
    /\ \A x \in Lines : Shows(c, x) => Fits(want, p, x[p] + s[p])
    /\ \A a \in CartCalls : Sends(c, a) /\ a.product = p =>
         /\ a.op = "add" => \A u \in Shoppers : Fits(want, p, carts[u][p] + a.qty + s[p])
         /\ a.op = "set" => Fits(want, p, a.qty + s[p])

AskedInv ==
  /\ Once(tab) /\ Awaits(tab)
  /\ seen \cap {"torn", "stale"} = {} => Affords(tab, srv.carts, asked)

-----------------------------------------------------------------------------
(* What the page shows at last.                                            *)

\* The calls whose answers put a cart, or a book, on the page.
BringsCart(f) ==
  f # None /\ (f.kind = "cart" \/ (f.kind = "widgetSession" /\ f.arg.step = "replay"))
BringsBook(f) == f # None /\ f.kind \in {"addresses", "addressDelete"}

\* An edit of something that is gone leaves the page as it is.
MayMiss(f) ==
  f.kind = "addressDelete" \/ (f.kind = "cart" /\ f.arg.op \in {"set", "remove"})

\* It was asked in this session, and what has been answered is still so.
Honest(f, tok, news) ==
  f.at # "joining" =>
    /\ f.tok = tok
    /\ f.at = "answered" => IF f.status = "ok" THEN f.body = news
                            ELSE f.status = "404" /\ MayMiss(f)

Fulfilled(f) == f.at = "answered" /\ f.status = "ok"

\* What will yet put the server's cart, or book, on the page.
RenewsCart(f) ==
  /\ f # None
  /\ \/ f.kind = "cart" /\ f.arg.op = "get"
     \/ BringsCart(f) /\ Fulfilled(f)
     \/ f.kind \in {"restore", "confirm"} /\ f.at # "joining"
RenewsBook(f) ==
  /\ f # None
  /\ \/ f.kind = "addresses"
     \/ f.kind \in {"addressDelete", "addressSave"} /\ Fulfilled(f)
     \/ f.kind = "restore" /\ f.at # "joining"

CartInv(c, cart) ==
  /\ \A i \in FlowIds : BringsCart(c.flows[i]) => Honest(c.flows[i], c.token, cart)
  /\ c.st.cart = cart \/ \E i \in FlowIds : RenewsCart(c.flows[i])
BookInv(c, book) ==
  /\ \A i \in FlowIds : BringsBook(c.flows[i]) => Honest(c.flows[i], c.token, book)
  /\ c.st.addresses = book \/ \E i \in FlowIds : RenewsBook(c.flows[i])

\* A load that is skipped is skipped for another one.
Loads(c) == \A key \in {"cart", "addresses"} : key \in c.inflight => Has(c, key)

\* The tokens of the page, and of an exchange that has been answered, exist.
Known(c, sessions) ==
  /\ c.token # NoToken => sessions[c.token] # None
  /\ \A i \in FlowIds :
       SignsIn(c, i) /\ c.flows[i].arg.step = "exchange" /\ Fulfilled(c.flows[i])
         => sessions[c.flows[i].body.token] # None

\* A session is restored with a token, and is or is not known.
Restores(c) ==
  \A i \in FlowIds :
    c.flows[i] # None /\ c.flows[i].kind = "restore" /\ c.flows[i].at # "joining" =>
      /\ c.flows[i].tok # NoToken
      /\ c.flows[i].at = "answered" => c.flows[i].status \in {"ok", "401"}

SettleInv ==
  /\ Loads(tab) /\ Known(tab, srv.sessions)
  /\ "fault" \notin seen => Restores(tab)
  /\ tab.token # NoToken /\ tab.token \notin srv.lapsed =>
       /\ seen \cap {"fault", "cartRace", "placed"} = {}
            => CartInv(tab, srv.carts[srv.sessions[tab.token]])
       /\ seen \cap {"fault", "bookRace"} = {}
            => BookInv(tab, srv.books[srv.sessions[tab.token]])

=============================================================================
