---------------------------- MODULE ShopCommands ----------------------------
(***************************************************************************)
(* The storefront's async commands (app/shop/useShop.ts) over the record   *)
(* tab of one browser tab:                                                 *)
(*   st, shown  the reducer's state, and the state of the last render: what *)
(*              the buttons and the closures of a click read;              *)
(*   inflight   the ref of keys with a request in flight;                  *)
(*   token, stored   the bearer token and the offline selection of         *)
(*              localStorage, which outlive the page;                      *)
(*   flows      the async calls that wait: for the server (asked), to be   *)
(*              resumed with its answer (answered), for the calls they     *)
(*              started (joining) or for a timer (resting);                *)
(*   widget     the selection captured when the sign-in widget was         *)
(*              launched; sheet: the open payment sheet.                   *)
(* A command is an operator from a tab to the tab after its synchronous    *)
(* part; ...Answered is the rest of it, up to the next await.              *)
(***************************************************************************)
EXTENDS ShopServer

CONSTANT MaxFlows      \* bound on the async calls of a tab at one time

ASSUME FlowsAssumption == MaxFlows \in Nat

FlowIds == 1..MaxFlows

Kind == RequestKey \cup {"boot", "restore", "confirm"}

Flow(c, kind, arg, of) ==
  [kind |-> kind, at |-> "asked", tok |-> c.token, arg |-> arg, of |-> of,
   status |-> None, body |-> None]

HasRoom(c) == \E i \in FlowIds : c.flows[i] = None
FreeSlot(c) == CHOOSE i \in FlowIds : c.flows[i] = None

\* http.ts: the token is read when the request is made.
Ask(c, kind, arg, of) == [c EXCEPT !.flows[FreeSlot(c)] = Flow(c, kind, arg, of)]

AskAgain(c, i, arg) ==
  [c EXCEPT !.flows[i] = Flow(c, @.kind, arg, @.of)]

End(c, i) == [c EXCEPT !.flows[i] = None]

\* await Promise.all of the calls that start on behalf of i.
Join(c, i) ==
  [c EXCEPT !.flows[i].at = "joining", !.flows[i].status = None, !.flows[i].body = None]

Joined(c, i) ==
  /\ c.flows[i] # None /\ c.flows[i].at = "joining"
  /\ \A j \in FlowIds : c.flows[j] # None => c.flows[j].of # i

Finally(c, i, key) == [End(c, i) EXCEPT !.inflight = @ \ {key}]

\* guard -> reqStart -> await: skipped while the key is in flight.
Guarded(c, key, arg, of) ==
  IF key \in c.inflight THEN c
  ELSE Ask([c EXCEPT !.inflight = @ \cup {key}, !.st = ReqStart(@, key)], key, arg, of)

\* -> loaded | reqFail, finally leave the guard.
Settle(c, i, key, loaded) ==
  Finally([c EXCEPT !.st = IF c.flows[i].status = "ok" THEN loaded ELSE ReqFail(@, key)],
          i, key)

-----------------------------------------------------------------------------
(* Loads.                                                                  *)

LoadTrust(c, of) == Guarded(c, "trust", None, of)
LoadProducts(c, of) == Guarded(c, "products", None, of)
LoadAddresses(c, of) == Guarded(c, "addresses", None, of)
LoadOrders(c) == Guarded(c, "orders", None, 0)

\* Mutant: the older load of the product page is not aborted.
LoadProductBeside(c, p) ==
  Ask([c EXCEPT !.inflight = @ \cup {"product"}, !.st = ReqStart(@, "product")],
      "product", p, 0)

\* A new load of the product page takes the place of the old one, whose
\* answer is dropped.  (The old one's finally also leaves the guard of the
\* key, which no command looks at.)
LoadProduct(c, p) ==
  LET old(f) == f # None /\ f.kind = "product"
      flows  == [i \in FlowIds |-> IF old(c.flows[i]) THEN None ELSE c.flows[i]]
  IN Ask([c EXCEPT !.flows = flows, !.inflight = @ \cup {"product"},
                   !.st = ReqStart(@, "product")], "product", p, 0)

TrustAnswered(c, i) == Settle(c, i, "trust", TrustLoaded(c.st))
ProductsAnswered(c, i) == Settle(c, i, "products", ProductsLoaded(c.st, c.flows[i].body))
ProductAnswered(c, i) == Settle(c, i, "product", ProductLoaded(c.st, c.flows[i].body))
AddressesAnswered(c, i) ==
  Settle(c, i, "addresses", AddressesLoaded(c.st, c.flows[i].body))
OrdersAnswered(c, i) == Settle(c, i, "orders", OrdersLoaded(c.st, c.flows[i].body))

-----------------------------------------------------------------------------
(* The cart.  call.then is the screen the caller goes to once it is loaded. *)

Call(op, p, n, then) == [op |-> op, product |-> p, qty |-> n, then |-> then]

CartMutation(c, call, of) == Guarded(c, "cart", call, of)

CartAnswered(c, i) ==
  LET f      == c.flows[i]
      loaded == CartLoaded(c.st, f.body)
  IN Settle(c, i, "cart", IF f.arg.then = None THEN loaded ELSE Go(loaded, f.arg.then))

LoadCart(c, of) == CartMutation(c, Call("get", None, 0, None), of)

SetQty(c, p, n) == CartMutation(c, Call(IF n = 0 THEN "remove" ELSE "set", p, n, None), 0)
RemoveItem(c, p) == CartMutation(c, Call("remove", p, 0, None), 0)

SaveBuffer(c, lines) == [c EXCEPT !.stored = lines, !.st = SetCartBuffer(@, lines)]

\* Mutant: the cap on a line is forgotten.
BufferAddUncapped(lines, p, n) == [lines EXCEPT ![p] = @ + n]

BufferAdd(lines, p, n) == [lines EXCEPT ![p] = Capped(@ + n)]

\* The quantity of a product that is not selected stays 0.
SetBufferQty(c, p, n) ==
  LET lines == c.shown.buffer
  IN SaveBuffer(c, [lines EXCEPT ![p] = IF @ = 0 THEN 0 ELSE Capped(n)])

\* Signed out, an add goes to the offline selection; nobody is sent to log in.
AddItem(c, p, n) ==
  IF c.shown.user # None THEN CartMutation(c, Call("add", p, n, None), 0)
  ELSE IF p \in c.shown.products
    THEN SaveBuffer(c, BufferAdd(c.shown.buffer, p, n))
    ELSE c

AddFromPdp(c) ==
  LET p == c.shown.pdp
      n == c.shown.qty
  IN IF p \notin c.shown.products THEN c
     ELSE IF c.shown.user # None
       THEN CartMutation(c, Call("add", p, n, "cart"), 0)
       ELSE SaveBuffer(c, BufferAdd(c.shown.buffer, p, n))

-----------------------------------------------------------------------------
(* Sign-out, boot and the restored session.                                *)

PerformSignOut(c) == [c EXCEPT !.token = NoToken, !.stored = NoLines, !.st = SignOut(@)]

\* http.ts: a 401 signs out, but only on a request that carried a token.
Unauthorized(c, i) ==
  IF c.flows[i].status = "401" /\ c.flows[i].tok # NoToken THEN PerformSignOut(c) ELSE c

RestoreSession(c, of) == IF c.token = NoToken THEN c ELSE Ask(c, "restore", None, of)

RestoreAnswered(c, i) ==
  LET f == c.flows[i]
      restored == [c EXCEPT !.st = SessionRestored(@, f.body)]
  IN IF f.status = "ok" THEN LoadAddresses(LoadCart(Join(restored, i), i), i)
     ELSE IF f.status = "401" THEN [End(c, i) EXCEPT !.token = NoToken]
     ELSE [End(c, i) EXCEPT !.st = ReqFail(@, "session")]

RunBoot(c) ==
  LET i == FreeSlot(c)
      started == Join(Ask([c EXCEPT !.st = BootStart(@)], "boot", None, 0), i)
  IN RestoreSession(LoadProducts(LoadTrust(started, i), i), i)

\* A page load: what was in flight is gone, the stored selection is read back.
OpenPage(token, stored) ==
  LET blank == [st |-> SetCartBuffer(InitialState, stored), shown |-> InitialState,
                inflight |-> {}, token |-> token, stored |-> stored,
                flows |-> [i \in FlowIds |-> None], widget |-> None, sheet |-> None]
  IN RunBoot(blank)

-----------------------------------------------------------------------------
(* Signing in: exchange the widget's token, load the shopper's data, add   *)
(* the selection made offline item by item, then go where they were going. *)

SignInWithWidget(c, selection) ==
  Guarded(c, "widgetSession",
          [step |-> "exchange", left |-> selection, user |-> None,
           replays |-> ~ IsEmpty(selection), soldOut |-> FALSE], 0)

\* Mutant: the account's cart is not loaded before the replay.
ExchangeAnsweredCartless(c, i) ==
  LET f == c.flows[i]
      in == [c EXCEPT !.token = f.body.token,
                      !.flows[i].arg.step = "replay", !.flows[i].arg.user = f.body.user]
  IN IF f.status # "ok" THEN Settle(c, i, "widgetSession", c.st)
     ELSE LoadAddresses(Join(in, i), i)

ExchangeAnswered(c, i) ==
  LET f == c.flows[i]
      in == [c EXCEPT !.token = f.body.token,
                      !.flows[i].arg.step = "replay", !.flows[i].arg.user = f.body.user]
  IN IF f.status # "ok" THEN Settle(c, i, "widgetSession", c.st)
     ELSE LoadAddresses(LoadCart(Join(in, i), i), i)

NextItem(left) == CHOOSE p \in Products : left[p] > 0

\* Mutant: the replayed selection stays in the storage.
FinishSignInKeeping(c, i, a) ==
  LET told == IF a.soldOut THEN ReqFail(c.st, "cart") ELSE c.st
  IN Finally([c EXCEPT !.st = OtpVerified(told, a.user)], i, "widgetSession")

FinishSignIn(c, i, a) ==
  LET emptied == IF a.replays THEN SaveBuffer(c, NoLines) ELSE c
      told    == IF a.soldOut THEN ReqFail(emptied.st, "cart") ELSE emptied.st
  IN Finally([emptied EXCEPT !.st = OtpVerified(told, a.user)], i, "widgetSession")

\* The next item of the selection captured at launch, or the end.
Replay(c, i, arg) ==
  IF IsEmpty(arg.left) THEN FinishSignIn(c, i, arg) ELSE AskAgain(c, i, arg)

\* A sold-out item is reported, any other failure is swallowed.
ReplayAnswered(c, i) ==
  LET f == c.flows[i]
      arg == [f.arg EXCEPT !.left[NextItem(f.arg.left)] = 0, !.soldOut = @ \/ f.status = "409"]
      heard == IF f.status = "ok" THEN [c EXCEPT !.st = CartLoaded(@, f.body)] ELSE c
  IN Replay(heard, i, arg)

-----------------------------------------------------------------------------
(* The address book.                                                       *)

SaveAddress(c) ==
  LET editing == c.shown.form
  IN Guarded(c, "addressSave",
             [id |-> IF editing = None THEN "new" ELSE editing, dflt |-> FALSE], 0)

SetDefaultAddress(c, a) ==
  IF a \notin c.shown.addresses.ids THEN c
  ELSE Guarded(c, "addressSave", [id |-> a, dflt |-> TRUE], 0)

\* Mutant: the list is not loaded again after a save.
AddressSaveAnsweredUnread(c, i) ==
  LET f == c.flows[i]
  IN IF f.status = "ok"
       THEN Finally([c EXCEPT !.st = AddressSaved(@, f.body)], i, "addressSave")
     ELSE IF f.status = "fields" /\ ~ f.arg.dflt
       THEN Finally([c EXCEPT !.st = SetAddrFieldError(@)], i, "addressSave")
     ELSE Settle(c, i, "addressSave", c.st)

\* Field errors of a save go to the form: neither loaded nor reqFail.
AddressSaveAnswered(c, i) ==
  LET f == c.flows[i]
  IN IF f.status = "ok"
       THEN LoadAddresses(Join([c EXCEPT !.st = AddressSaved(@, f.body)], i), i)
     ELSE IF f.status = "fields" /\ ~ f.arg.dflt
       THEN Finally([c EXCEPT !.st = SetAddrFieldError(@)], i, "addressSave")
     ELSE Settle(c, i, "addressSave", c.st)

RemoveAddress(c, a) == Guarded(c, "addressDelete", a, 0)
AddressDeleteAnswered(c, i) ==
  Settle(c, i, "addressDelete", AddressDeleted(c.st, c.flows[i].body))

-----------------------------------------------------------------------------
(* Checkout: POST /orders, the payment sheet, and what comes after it.     *)

OpenCheckout(c) == Guarded(c, "checkout", c.shown.selected, 0)

OpenSheet(c, i) ==
  LET o == c.flows[i].body
  IN Finally([c EXCEPT !.st = ReqStart(CheckoutOpened(@, o), "payment"),
                       !.inflight = @ \cup {"payment"},
                       !.sheet = [order |-> o, settled |-> FALSE]], i, "checkout")

\* The order is open, but the payment script was blocked.
SheetBlocked(c, i) ==
  Finally([c EXCEPT !.st = ReqFail(CheckoutOpened(@, c.flows[i].body), "checkout")],
          i, "checkout")

CheckoutRefused(c, i) ==
  LET status == c.flows[i].status
      to(s)  == [c EXCEPT !.st = Go(@, s)]
  IN CASE status = "empty"  -> Settle(to("shop"), i, "checkout", c.st)
       [] status = "fields" -> Settle(to("cart"), i, "checkout", c.st)
       [] status = "404"    -> LoadAddresses(Join(to("cart"), i), i)
       [] OTHER             -> Settle(c, i, "checkout", c.st)

CheckoutAnswered(c, i) ==
  IF c.flows[i].status = "ok" THEN {OpenSheet(c, i), SheetBlocked(c, i)}
  ELSE {CheckoutRefused(c, i)}

\* Mutant: the handler does not say that the sheet is settled.
HandlerUnsettled(c) == Ask(c, "confirm", [order |-> c.sheet.order, try |-> 1], 0)

\* The sheet's handler: the payment was captured.
Handler(c) ==
  Ask([c EXCEPT !.sheet.settled = TRUE], "confirm", [order |-> c.sheet.order, try |-> 1], 0)

\* Mutant: a dismissed sheet leaves the flag of the payment up.
OnDismissFlagged(c) ==
  IF c.sheet.settled THEN [c EXCEPT !.sheet = None]
  ELSE [c EXCEPT !.sheet = None, !.inflight = @ \ {"payment"},
                 !.st = ReqStart(PaymentCancelled(@), "payment")]

OnDismiss(c) ==
  IF c.sheet.settled THEN [c EXCEPT !.sheet = None]
  ELSE [c EXCEPT !.sheet = None, !.inflight = @ \ {"payment"}, !.st = PaymentCancelled(@)]

Confirmed(c, i, order) ==
  LoadCart(Join([c EXCEPT !.st = PaymentConfirmed(@, order),
                          !.inflight = @ \ {"payment"}], i), i)

\* Mutant: the last failed try ends the ladder without a word.
ConfirmAnsweredSilent(c, i) ==
  LET f == c.flows[i]
      try == f.arg.try
  IN IF f.status = "ok" /\ (try <= 2 \/ f.body.status = "placed")
       THEN Confirmed(c, i, f.body)
     ELSE IF try < 5
       THEN [c EXCEPT !.flows[i] = [Flow(c, "confirm", [f.arg EXCEPT !.try = try + 1], 0)
                                      EXCEPT !.at = "resting"]]
       ELSE Finally([c EXCEPT !.st = ReqFail(@, "payment")], i, "payment")

\* Tries 1 and 2 confirm the payment; 3, 4 and 5 only ask for the order and
\* accept it placed; then the order is shown as it was opened.
ConfirmAnswered(c, i) ==
  LET f == c.flows[i]
      try == f.arg.try
  IN IF f.status = "ok" /\ (try <= 2 \/ f.body.status = "placed")
       THEN Confirmed(c, i, f.body)
     ELSE IF try < 5
       THEN [c EXCEPT !.flows[i] = [Flow(c, "confirm", [f.arg EXCEPT !.try = try + 1], 0)
                                      EXCEPT !.at = "resting"]]
       ELSE Confirmed(c, i, [id |-> f.arg.order, status |-> "pending"])

-----------------------------------------------------------------------------
(* Going on: with an answer, when the started calls are done.              *)

Answered(d, i) ==
  LET c == Unauthorized(d, i)
      f == c.flows[i]
  IN CASE f.kind = "trust"         -> {TrustAnswered(c, i)}
       [] f.kind = "products"      -> {ProductsAnswered(c, i)}
       [] f.kind = "product"       -> {ProductAnswered(c, i)}
       [] f.kind = "restore"       -> {RestoreAnswered(c, i)}
       [] f.kind = "cart"          -> {CartAnswered(c, i)}
       [] f.kind = "addresses"     -> {AddressesAnswered(c, i)}
       [] f.kind = "orders"        -> {OrdersAnswered(c, i)}
       [] f.kind = "widgetSession" ->
            {IF f.arg.step = "exchange" THEN ExchangeAnswered(c, i) ELSE ReplayAnswered(c, i)}
       [] f.kind = "addressSave"   -> {AddressSaveAnswered(c, i)}
       [] f.kind = "addressDelete" -> {AddressDeleteAnswered(c, i)}
       [] f.kind = "checkout"      -> CheckoutAnswered(c, i)
       [] f.kind = "confirm"       -> {ConfirmAnswered(c, i)}

AfterJoin(c, i) ==
  LET k == c.flows[i].kind
  IN CASE k = "boot"          -> [End(c, i) EXCEPT !.st = BootDone(@)]
       [] k = "widgetSession" -> Replay(c, i, c.flows[i].arg)
       [] k = "addressSave"   -> Finally(c, i, k)
       [] k = "checkout"      -> Settle(c, i, k, c.st)
       [] OTHER               -> End(c, i)

\* Effects of ShopClient: a changed product page loads its product, arriving
\* at the orders or the addresses loads them.
Render(c) ==
  LET st == c.st
      on == [c EXCEPT !.shown = st]
      pdp == IF st.pdp \notin {None, c.shown.pdp} THEN LoadProduct(on, st.pdp) ELSE on
      new(s) == st.screen = s /\ c.shown.screen # s
      end == IF new("orders") THEN LoadOrders(pdp)
             ELSE IF new("addresses") THEN LoadAddresses(pdp, 0) ELSE pdp
  IN [end EXCEPT !.shown = end.st]

=============================================================================
