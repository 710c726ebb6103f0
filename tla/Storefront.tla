----------------------------- MODULE Storefront -----------------------------
(***************************************************************************)
(* One shopper at one browser tab, the API behind it and the payment       *)
(* sheet: the screens offer clicks, the commands wait for answers that may *)
(* come late, in another order or never, and the page may be reloaded.     *)
(*                                                                         *)
(* A behaviour follows one habit: where it starts, which parts of the shop *)
(* the shopper uses, how many clicks they make and how many answers go     *)
(* wrong.  asked and seen are history variables of the properties only.    *)
(***************************************************************************)
EXTENDS ShopCommands

CONSTANT Habits

ASSUME HabitsAssumption ==
  \A h \in Habits :
    /\ h.start \in {"opening", "restoring", "out", "in"}
    /\ h.clicks \in Nat /\ h.faults \in Nat
    /\ h.cart \in Lines /\ h.stored \in Lines /\ h.book \in Book

VARIABLES
  tab,      \* the browser tab (ShopCommands)
  srv,      \* the server's record (ShopServer)
  habit,    \* what happens in this behaviour
  clicks,   \* clicks the shopper has left
  faults,   \* answers that may still go wrong
  asked,    \* units of each product the shopper asked for
  seen      \* what has happened that a property makes an exception of

vars == <<tab, srv, habit, clicks, faults, asked, seen>>

Marks == {"fault", "torn", "stale", "cartRace", "bookRace", "placed"}

May(part) == part \in habit.does
shown == tab.shown
Waiting(kind) == {i \in FlowIds : tab.flows[i] # None /\ tab.flows[i].kind = kind}

-----------------------------------------------------------------------------
(* Where a behaviour starts: a page being opened, or a page at rest.       *)

AtRest(token, user, cart, book) ==
  LET st == [InitialState EXCEPT !.booting = FALSE, !.products = Products, !.user = user,
                                 !.cart = cart, !.addresses = book, !.selected = book.dflt,
                                 !.buffer = habit.stored]
  IN [st |-> st, shown |-> st, inflight |-> {}, token |-> token, stored |-> habit.stored,
      flows |-> [i \in FlowIds |-> None], widget |-> None, sheet |-> None]

\* A page that has loaded the catalogue but not yet restored the session.
Restoring ==
  LET page == AtRest(1, None, None, NoBook)
      booting == Ask([page EXCEPT !.st = BootStart(@)], "boot", None, 0)
      i == FreeSlot(page)
  IN Render(RestoreSession(Join(booting, i), i))

InitTab(user) ==
  CASE habit.start = "opening"   -> {OpenPage(t, habit.stored) : t \in {NoToken, 1}}
    [] habit.start = "restoring" -> {Restoring}
    [] habit.start = "out"       -> {AtRest(NoToken, None, None, NoBook)}
    [] habit.start = "in"        -> {AtRest(1, user, habit.cart, habit.book)}

Init ==
  /\ habit \in Habits
  /\ \E user \in Shoppers, lapsed \in SUBSET {1} :
       /\ lapsed = {} \/ habit.start \in {"opening", "restoring"}
       /\ srv = [sessions |-> [t \in Tokens |->
                            IF t = 1 /\ habit.start # "out" THEN user ELSE None],
                 lapsed |-> lapsed,
                 carts |-> [u \in Shoppers |-> IF u = user THEN habit.cart ELSE NoLines],
                 books |-> [u \in Shoppers |-> IF u = user THEN habit.book ELSE NoBook],
                 orders |-> [o \in OrderIds |->
                               [owner |-> None, status |-> "pending", paid |-> FALSE]]]
       /\ tab \in InitTab(user) /\ HasRoom(tab)
  /\ clicks = habit.clicks /\ faults = habit.faults
  /\ asked = [p \in Products |-> Capped(habit.cart[p] + habit.stored[p])]
  /\ seen = {}

-----------------------------------------------------------------------------
(* What the server answers to the call of a flow.                          *)

ReplayCall(left) == Call("add", NextItem(left), left[NextItem(left)], None)

\* Of the calls that need a session, u is the account of the token they carry.
ReplyTo(f, u) ==
  CASE f.kind = "restore"       -> Ok(srv, u)
    [] f.kind = "cart"          -> CartCall(srv, u, f.arg)
    [] f.kind = "widgetSession" -> CartCall(srv, u, ReplayCall(f.arg.left))
    [] f.kind = "addresses"     -> Ok(srv, srv.books[u])
    [] f.kind = "orders"        -> ListOrders(srv, u)
    [] f.kind = "addressSave"   ->
         IF f.arg.id = "new" THEN AddAddress(srv, u)
         ELSE UpdateAddress(srv, u, f.arg.id, f.arg.dflt)
    [] f.kind = "addressDelete" -> DeleteAddress(srv, u, f.arg)
    [] f.kind = "checkout"      -> OpenOrder(srv, u, f.arg)
    [] f.kind = "confirm"       ->
         IF f.arg.try <= 2 THEN ConfirmOrder(srv, u, f.arg.order)
         ELSE GetOrder(srv, u, f.arg.order)

Reply(f) ==
  LET u == SessionOf(srv, f.tok)
      exchange == f.kind = "widgetSession" /\ f.arg.step = "exchange"
  IN CASE f.kind = "trust"    -> Ok(srv, None)
       [] f.kind = "products" -> Ok(srv, Products)
       [] f.kind = "product"  -> Ok(srv, f.arg)
       [] exchange            -> UNION {ExchangeSession(srv, v) : v \in Shoppers}
       [] OTHER               -> IF u = None THEN Error(srv, "401") ELSE ReplyTo(f, u)

\* The request or its answer is lost, or the server declines what it could do.
Surprise(f) ==
  LET declined == CASE f.kind = "cart" -> {"409"}
                    [] f.kind = "widgetSession" ->
                         IF f.arg.step = "exchange" THEN {"401"} ELSE {"409"}
                    [] f.kind = "addressSave" -> {"fields"}
                    [] f.kind = "checkout" -> {"404", "fields"}
                    [] OTHER -> {}
  IN (UNION {Error(srv, s) : s \in declined \cup {"net"}})
       \cup {[o EXCEPT !.status = "net", !.body = None] : o \in Reply(f)}

\* Another call, whose answer is on its way to the page.
Late(i, kind) == \E j \in Waiting(kind) \ {i} : tab.flows[j].at = "answered"

\* A cart or a book is written while an answer with its older state is late.
Races(i, next) ==
  (IF next.carts # srv.carts /\ (Late(i, "cart") \/ Late(i, "widgetSession"))
     THEN {"cartRace"} ELSE {})
  \cup (IF next.books # srv.books /\ (Late(i, "addresses") \/ Late(i, "addressDelete"))
          THEN {"bookRace"} ELSE {})

Deliver(i, o) ==
  /\ srv' = o.srv
  /\ tab' = [tab EXCEPT !.flows[i].at = "answered", !.flows[i].status = o.status,
                        !.flows[i].body = o.body]

Serve(i) ==
  /\ tab.flows[i] # None /\ tab.flows[i].at = "asked"
  /\ \/ /\ \E o \in Reply(tab.flows[i]) : Deliver(i, o)
        /\ seen' = seen \cup Races(i, srv')
        /\ UNCHANGED faults
     \/ /\ faults > 0
        /\ faults' = faults - 1
        /\ \E o \in Surprise(tab.flows[i]) : Deliver(i, o)
        /\ seen' = seen \cup {"fault"} \cup Races(i, srv')
  /\ UNCHANGED <<habit, clicks, asked>>

-----------------------------------------------------------------------------
(* The page's own steps, none of which renders at once.                    *)

\* The bound on what may be under way: a step that would ask more is not taken.
Turns(c) == HasRoom(c) /\ tab' = c

Page(c) == Turns(c) /\ UNCHANGED <<srv, habit, clicks, faults, asked, seen>>

\* The loads that follow the answer of a flow are skipped if one is under way;
\* and the answer of a DELETE is not dropped when another session begins.
Skips(kind) ==
  (IF kind \in {"confirm", "widgetSession", "restore"} /\ Waiting("cart") # {}
     THEN {"cartRace"} ELSE {})
  \cup (IF \/ kind \in {"addressSave", "widgetSession", "restore"} /\ Waiting("addresses") # {}
           \/ kind = "widgetSession" /\ Waiting("addressDelete") # {}
          THEN {"bookRace"} ELSE {})

Resume(i) ==
  /\ tab.flows[i] # None /\ tab.flows[i].at = "answered"
  /\ \E c \in Answered(tab, i) : Turns(c)
  /\ seen' = seen \cup Skips(tab.flows[i].kind)
  /\ UNCHANGED <<srv, habit, clicks, faults, asked>>

FinishJoin(i) == Joined(tab, i) /\ Page(AfterJoin(tab, i))

\* The delay between two tries of the payment ladder is over.
Wake(i) ==
  /\ tab.flows[i] # None /\ tab.flows[i].at = "resting"
  /\ Page(AskAgain(tab, i, tab.flows[i].arg))

Commit == shown # tab.st /\ Page(Render(tab))

-----------------------------------------------------------------------------
(* Clicks: offered by the last render; what they do at once is rendered    *)
(* before the next click.                                                  *)

Spend == clicks > 0 /\ clicks' = clicks - 1

Click(c) ==
  Spend /\ Turns(Render(c)) /\ UNCHANGED <<srv, habit, faults, asked, seen>>

Idle(key) == key \notin shown.pending
SignedIn == shown.user # None

\* A click that asks for n more units of a product.  A visitor's click writes
\* the offline selection that was rendered, which may be another by now.
ClickFor(p, n, c) ==
  /\ Spend /\ Turns(Render(c))
  /\ asked' = [asked EXCEPT ![p] = Capped(@ + n)]
  /\ seen' = seen \cup (IF ~ SignedIn /\ shown.buffer # tab.st.buffer THEN {"stale"} ELSE {})
  /\ UNCHANGED <<srv, habit, faults>>

InCart(p) == IF SignedIn /\ shown.cart # None THEN shown.cart[p] ELSE 0
Selected(p) == IF SignedIn THEN 0 ELSE shown.buffer[p]

Leave(c, screen) == [c EXCEPT !.st = Go(@, screen)]

\* The buttons of a product's card.
ClickCard(p) ==
  /\ May("shop") /\ shown.screen = "shop" /\ p \in shown.products
  /\ \/ InCart(p) > 0 /\ Idle("cart") /\ Click(SetQty(tab, p, InCart(p) - 1))
     \/ InCart(p) \in 1..(MaxQty - 1) /\ Idle("cart")
          /\ ClickFor(p, 1, SetQty(tab, p, InCart(p) + 1))
     \/ Selected(p) > 0 /\ ClickFor(p, 0, SetBufferQty(tab, p, Selected(p) - 1))
     \/ Selected(p) \in 1..(MaxQty - 1) /\ ClickFor(p, 1, SetBufferQty(tab, p, Selected(p) + 1))
     \/ InCart(p) = 0 /\ Selected(p) = 0 /\ Idle("cart") /\ ClickFor(p, 1, AddItem(tab, p, 1))

ClickPdp(p) ==
  /\ May("pdp") /\ shown.screen \in {"shop", "pdp"} /\ p \in shown.products
  /\ Click([tab EXCEPT !.st = OpenPdp(@, p)])

BuyFromPdp ==
  /\ May("pdp") /\ shown.screen = "pdp" /\ shown.pdp \in shown.products
  /\ \/ \E up \in BOOLEAN : Click([tab EXCEPT !.st = BumpQty(@, up)])
     \/ Idle("cart") /\ ClickFor(shown.pdp, shown.qty, AddFromPdp(tab))

CartLines == shown.screen = "cart" /\ shown.cart # None /\ ~ IsEmpty(shown.cart)

ClickLine(p) ==
  /\ May("lines") /\ CartLines /\ InCart(p) > 0 /\ Idle("cart")
  /\ \/ Click(SetQty(tab, p, InCart(p) - 1))
     \/ InCart(p) < MaxQty /\ ClickFor(p, 1, SetQty(tab, p, InCart(p) + 1))
     \/ Click(RemoveItem(tab, p))

Proceed ==
  /\ May("pay") /\ CartLines /\ Idle("cart") /\ shown.selected # None
  /\ Click([tab EXCEPT !.st = GoCheckout(@)])

\* The address panel of the cart screen and the addresses screen.
BookScreen == CartLines \/ (shown.screen = "addresses" /\ SignedIn)

ClickAddress(a) ==
  /\ May("book") /\ BookScreen /\ shown.form = None /\ a \in shown.addresses.ids
  /\ \/ shown.screen = "cart" /\ Click([tab EXCEPT !.st = SelectAddress(@, a)])
     \/ /\ shown.screen = "addresses" /\ a # shown.addresses.dflt
        /\ Click(SetDefaultAddress(tab, a))
     \/ Click([tab EXCEPT !.st = ShowAddressForm(@, a)])
     \/ Idle("addressDelete") /\ Click(RemoveAddress(tab, a))

FormOpen ==
  BookScreen /\ (shown.form # None \/ (shown.screen = "cart" /\ shown.addresses.ids = {}))

ClickForm ==
  /\ May("book")
  /\ \/ BookScreen /\ ~ FormOpen /\ Click([tab EXCEPT !.st = ShowAddressForm(@, "new")])
     \/ FormOpen /\ shown.formError /\ Click([tab EXCEPT !.st = SetAddr(@)])
     \/ FormOpen /\ Idle("addressSave") /\ Click([tab EXCEPT !.st = SetAddrFieldError(@)])
     \/ /\ FormOpen /\ Idle("addressSave") /\ UnusedAddress(srv) # {}
        /\ Click(SaveAddress(tab))
     \/ /\ FormOpen /\ Idle("addressSave") /\ shown.addresses.ids # {}
        /\ Click([tab EXCEPT !.st = HideAddressForm(@)])

\* Mutant: the pay button is offered while a payment is under way.
ClickPayAgain ==
  /\ May("pay") /\ shown.screen = "review" /\ Idle("checkout")
  /\ shown.selected \in shown.addresses.ids /\ UnusedOrder(srv) # {}
  /\ Click(OpenCheckout(tab))

ClickPay ==
  /\ May("pay") /\ shown.screen = "review" /\ Idle("checkout") /\ Idle("payment")
  /\ shown.selected \in shown.addresses.ids /\ UnusedOrder(srv) # {}
  /\ Click(OpenCheckout(tab))

\* Links back to the shop, and from the review to the cart.
ClickBack ==
  \/ /\ May("leave") /\ shown.screen \in {"pdp", "login", "cart", "done", "orders"}
     /\ Click(Leave(tab, "shop"))
  \/ May("pay") /\ shown.screen = "review" /\ Click(Leave(tab, "cart"))

\* The cart button, which waits for the boot; "Sign in" of the account menu and
\* "Go to cart" of the selection do the same for a visitor and do not wait.
ClickCart ==
  /\ \/ May("cart") /\ ~ shown.booting
     \/ May("prompt") /\ ~ SignedIn
  /\ Click([tab EXCEPT !.st = RequireAuth(@, "cart")])

\* The account menu.
ClickAccount ==
  \/ May("orders") /\ SignedIn /\ Click(Leave(tab, "orders"))
  \/ May("book") /\ SignedIn /\ Click(Leave(tab, "addresses"))

\* The banner is dismissed, or what failed to load is tried again.
ClickBanner ==
  /\ May("banner") /\ shown.banner
  /\ \/ Click([tab EXCEPT !.st = ClearBanner(@)])
     \/ ~ shown.booting /\ Click(RunBoot(tab))

ClickSignOut == May("signOut") /\ SignedIn /\ Click(PerformSignOut(tab))

-----------------------------------------------------------------------------
(* The sign-in widget.  Its callbacks belong to the render it was launched *)
(* from.                                                                   *)

SignInOffered == shown.screen = "login" /\ Idle("widgetSession")

LaunchWidget ==
  /\ May("signIn") /\ SignInOffered
  /\ Click([tab EXCEPT !.widget = [selection |-> shown.buffer]])

\* The widget covers the page until its end is rendered: no second launch.
WidgetSucceeds ==
  /\ tab.widget # None /\ UnusedToken(srv) # {}
  /\ Page(Render(SignInWithWidget([tab EXCEPT !.widget = None], tab.widget.selection)))

\* The script was blocked, or the widget reports a failure or no token.
WidgetFails ==
  /\ May("widgetFails") /\ (SignInOffered \/ tab.widget # None) /\ Spend
  /\ tab' = [tab EXCEPT !.widget = None, !.st = ReqFail(@, "widgetSession")]
  /\ UNCHANGED <<srv, habit, faults, asked, seen>>

-----------------------------------------------------------------------------
(* The payment sheet, and what happens to orders and sessions meanwhile.   *)

Capture ==
  /\ tab.sheet # None /\ ~ srv.orders[tab.sheet.order].paid
  /\ srv' = [srv EXCEPT !.orders[tab.sheet.order].paid = TRUE]
  /\ UNCHANGED <<tab, habit, clicks, faults, asked, seen>>

HandlerFires ==
  /\ tab.sheet # None /\ ~ tab.sheet.settled /\ srv.orders[tab.sheet.order].paid
  /\ Page(Handler(tab))

CloseSheet == tab.sheet # None /\ Page(OnDismiss(tab))

Webhook(o) ==
  /\ srv.orders[o].paid /\ srv.orders[o].status = "pending"
  /\ srv' = Place(srv, o)
  /\ seen' = seen \cup {"placed"}
  /\ UNCHANGED <<tab, habit, clicks, faults, asked>>

OrderEnds(o) ==
  /\ May("orderEnds") /\ srv.orders[o].owner # None /\ srv.orders[o].status = "pending"
  /\ srv' = [srv EXCEPT !.orders[o].status = "ended"]
  /\ UNCHANGED <<tab, habit, clicks, faults, asked, seen>>

Expire(t) ==
  /\ May("expire") /\ srv.sessions[t] # None /\ t \notin srv.lapsed
  /\ srv' = [srv EXCEPT !.lapsed = @ \cup {t}]
  /\ UNCHANGED <<tab, habit, clicks, faults, asked, seen>>

Replaying == \E i \in Waiting("widgetSession") : tab.flows[i].arg.step = "replay"

Reload ==
  /\ May("reload") /\ Spend
  /\ Turns(OpenPage(tab.token, tab.stored))
  /\ seen' = seen \cup (IF Replaying THEN {"torn"} ELSE {})
  /\ UNCHANGED <<srv, habit, faults, asked>>

-----------------------------------------------------------------------------
Clicks ==
  \/ \E p \in Products : ClickCard(p) \/ ClickPdp(p) \/ ClickLine(p)
  \/ \E a \in AddressIds : ClickAddress(a)
  \/ BuyFromPdp \/ Proceed \/ ClickForm \/ ClickPay \/ ClickBack \/ ClickCart
  \/ ClickAccount \/ ClickBanner \/ ClickSignOut \/ LaunchWidget

World ==
  \/ WidgetSucceeds \/ WidgetFails \/ Capture \/ HandlerFires \/ CloseSheet \/ Reload
  \/ \E o \in OrderIds : Webhook(o) \/ OrderEnds(o)
  \/ \E t \in Tokens : Expire(t)

Progress(i) == Serve(i) \/ Resume(i) \/ FinishJoin(i) \/ Wake(i)

\* What goes on without the shopper.
Runtime == Commit \/ \E i \in FlowIds : Progress(i)

Next == Clicks \/ World \/ Runtime

\* A request is answered or times out, a timer ends, an answered promise is
\* resumed, a changed state is rendered.  Nothing else has to happen.
Fairness == WF_vars(Runtime)

Spec == Init /\ [][Next]_vars /\ Fairness

=============================================================================
