---------------------------- MODULE AdminConsole ----------------------------
(***************************************************************************)
(* The admin console (enerzia-admin): operators, each at a browser tab of  *)
(* their own, work on the order book or on the catalogue over the admin    *)
(* API, while orders come in and shoppers take units.                      *)
(*                                                                         *)
(* A tab is a record: the page it is on (route, subject), whether the      *)
(* page's auth guard has passed (ready), whether it holds a token, the     *)
(* page's state (view, new with every page) and its calls.  A call of a    *)
(* page that was left, or of an effect that was cleaned up, is not live:   *)
(* its answer changes no view.                                             *)
(*                                                                         *)
(* done, walk, put and seen are history variables of the properties only.  *)
(***************************************************************************)
EXTENDS AdminServer

CONSTANTS
  Operators,   \* browser tabs
  Filters,     \* what the filter bar offers
  Desks,       \* what is worked on in a behaviour (see Init)
  MaxCalls     \* bound on the calls of a tab at one time

VARIABLES
  tabs,        \* the operators' tabs
  book,        \* orders; None: not created yet
  now,         \* the server's clock
  shelf,       \* products; None: not created
  lapsed,      \* operators whose session the server no longer accepts
  desk,        \* what is worked on in this behaviour
  clicks,      \* what operators, shoppers and the clock may still do
  faults,      \* answers that may still go wrong
  done,        \* the steps that were written for each order
  walk,        \* the pages an operator saw on the way to the shown one
  put,         \* what an operator did to the form since it was loaded
  seen         \* what a property makes an exception of

\* A desk starts anywhere: with orders at any step, products of any kind, at any page.
ASSUME DesksAssumption ==
  \A d \in Desks :
    /\ d.crew \subseteq Operators /\ d.clicks \in Nat /\ d.faults \in Nat /\ d.now \in 0..MaxTime
    /\ d.book \in [OrderIds -> Order \cup {None}]
    /\ IsFiniteSet({o \in OrderIds : d.book[o] # None})
    /\ \A o \in OrderIds :
         d.book[o] # None /\ d.book[o].fulfilment # FulfilmentNone => d.book[o].status = "placed"
    /\ d.shelf \in [ProductIds -> Product \cup {None}]
    /\ \/ d.route \in {"login", "orders", "products", "new"}
       \/ d.route = "order" /\ d.subject \in OrderIds /\ d.book[d.subject] # None
       \/ d.route = "product" /\ d.subject \in ProductIds /\ d.shelf[d.subject] # None

ASSUME FiltersAssumption == Filters \subseteq Filter

server == <<book, now, shelf, lapsed>>
history == <<done, walk, put, seen>>
vars == <<tabs, server, desk, clicks, faults, history>>

Slots == 1..MaxCalls
Route == {"login", "orders", "order", "products", "product", "new"}
CallKind == {"me", "login", "orders", "order", "advance", "label", "products", "product",
             "save", "create", "retire", "upload"}

NoFilter == [statuses |-> {}, fulfilments |-> {}]
NoDraft == [stock |-> 0, active |-> TRUE, images |-> <<>>]

\* The useState of a page that was just opened.
Blank ==
  [filters |-> NoFilter, choice |-> NoFilter, cursors |-> <<None>>, rows |-> None, next |-> None,
   shown |-> None, loading |-> FALSE, failed |-> FALSE, busy |-> {},
   draft |-> None, confirm |-> FALSE]

NoWalk == [pages |-> <<>>, steady |-> {}]
NoPut == [stock |-> None, active |-> None, added |-> {}, removed |-> {}, moved |-> FALSE,
          late |-> FALSE]

-----------------------------------------------------------------------------
(* A tab's pages and calls.                                                *)

Call(kind, arg, live) ==
  [kind |-> kind, arg |-> arg, live |-> live, at |-> "asked", status |-> None, body |-> None]

IdleSlots(c) == {i \in Slots : c.calls[i] = None}

Ask(c, kind, arg) ==
  LET i == CHOOSE i \in IdleSlots(c) : \A j \in IdleSlots(c) : i <= j
  IN [c EXCEPT !.calls[i] = Call(kind, arg, TRUE)]

End(c, i) == [c EXCEPT !.calls[i] = None]

\* Mutant: an effect is not cleaned up before it runs again.
CancelNot(c, kinds) == c

Cancel(c, kinds) ==
  [c EXCEPT !.calls = [i \in Slots |->
     IF @[i] # None /\ @[i].kind \in kinds THEN [@[i] EXCEPT !.live = FALSE] ELSE @[i]]]

\* A page opens: its auth guard asks /admin/me, or sends to /login at once.
Mount(c, route, subject) ==
  LET to == IF c.token THEN route ELSE "login"
      page == [Cancel(c, CallKind) EXCEPT !.route = to, !.ready = ~ c.token, !.view = Blank,
                 !.subject = IF c.token THEN subject ELSE None]
  IN IF c.token THEN Ask(page, "me", to) ELSE page

SignOut(c) == Mount([c EXCEPT !.token = FALSE], "login", None)

\* The orders page loads when its filters or its cursor change.
LoadOrders(c) ==
  LET blank == [Cancel(c, {"orders"}) EXCEPT !.view.rows = None, !.view.loading = TRUE,
                                             !.view.failed = FALSE]
  IN Ask(blank, "orders", [filter |-> c.view.filters, before |-> Last(c.view.cursors)])

LoadOrder(c) ==
  Ask([c EXCEPT !.view.loading = TRUE, !.view.failed = FALSE], "order", c.subject)

\* What a page loads once its guard has passed.
Enter(c) ==
  LET in == [c EXCEPT !.ready = TRUE]
  IN CASE c.route = "login"    -> Mount(c, "products", None)
       [] c.route = "orders"   -> LoadOrders(in)
       [] c.route = "order"    -> LoadOrder(in)
       [] c.route = "products" -> Ask(in, "products", None)
       [] c.route = "product"  -> Ask(in, "product", c.subject)
       [] c.route = "new"      -> [in EXCEPT !.view.draft = NoDraft]

-----------------------------------------------------------------------------
(* Where it starts: the crew signed in, at the page of the desk.           *)

Init ==
  /\ desk \in Desks
  /\ tabs = [op \in Operators |->
       Mount([route |-> "login", ready |-> FALSE, token |-> op \in desk.crew, subject |-> None,
              view |-> Blank, calls |-> [i \in Slots |-> None]], desk.route, desk.subject)]
  /\ book = desk.book /\ shelf = desk.shelf
  /\ now = desk.now /\ lapsed = {}
  /\ clicks = desk.clicks /\ faults = desk.faults
  /\ done = [o \in OrderIds |-> IF book[o] = None THEN <<>>
                               ELSE SubSeq(Steps, 1, Rank(book[o].fulfilment))]
  /\ walk = [op \in Operators |-> NoWalk] /\ put = [op \in Operators |-> NoPut]
  /\ seen = {}

May(part) == part \in desk.does
Spend == clicks > 0 /\ clicks' = clicks - 1

-----------------------------------------------------------------------------
(* The server.  PATCH .../fulfilment reads the order and then writes it,   *)
(* everything else is one step.                                            *)

Reply(op, i, status, body) ==
  tabs' = [tabs EXCEPT ![op].calls[i].at = "answered", ![op].calls[i].status = status,
                       ![op].calls[i].body = body]

Accepted(op) == op \notin lapsed
Calling(op, i, kind) ==
  LET f == tabs[op].calls[i]
  IN f # None /\ f.at = "asked" /\ f.kind = kind

Refuse(op, i, kinds, status) ==
  (\E k \in kinds : Calling(op, i, k)) /\ Reply(op, i, status, None)

ReadOnly == {"me", "order", "products", "label"}

Answer(f) ==
  CASE f.kind = "order" -> book[f.arg]
    [] f.kind = "products" -> {p \in ProductIds : shelf[p] # None}
    [] OTHER -> None

ServeRead(op, i) ==
  /\ Accepted(op) /\ \E k \in ReadOnly : Calling(op, i, k)
  /\ Reply(op, i, "ok", Answer(tabs[op].calls[i]))
  /\ UNCHANGED <<server, history>>

ServeProduct(op, i) ==
  LET f == tabs[op].calls[i]
  IN /\ Accepted(op) /\ Calling(op, i, "product")
     /\ IF shelf[f.arg] = None THEN Reply(op, i, "404", None)
                               ELSE Reply(op, i, "ok", shelf[f.arg])
     /\ put' = IF f.live THEN [put EXCEPT ![op].moved = FALSE] ELSE put
     /\ UNCHANGED <<server, done, walk, seen>>

\* steady is history: the orders a walk that starts here has to show.
ServeOrders(op, i) ==
  LET q == tabs[op].calls[i].arg
  IN /\ Accepted(op) /\ Calling(op, i, "orders")
     /\ \E rows \in ListAll(book, q.filter, q.before) :
          Reply(op, i, "ok", [rows |-> rows, next |-> NextBefore(book, rows)])
     /\ walk' = IF q.before = None /\ tabs[op].calls[i].live
                  THEN [walk EXCEPT ![op].steady = Candidates(book, q.filter, None)]
                  ELSE walk
     /\ UNCHANGED <<server, done, put, seen>>

ReadForAdvance(op, i) ==
  LET f == tabs[op].calls[i]
  IN /\ Accepted(op) /\ Calling(op, i, "advance")
     /\ IF book[f.arg.order].status = "placed"
             /\ CanFulfil(book[f.arg.order].fulfilment, f.arg.to)
          THEN tabs' = [tabs EXCEPT ![op].calls[i].at = "read",
                                    ![op].calls[i].body = book[f.arg.order]]
          ELSE Reply(op, i, "409", None)
     /\ UNCHANGED <<server, history>>

WriteAdvance(op, i) ==
  LET f == tabs[op].calls[i]
      o == f.arg.order
  IN /\ f # None /\ f.at = "read"
     /\ book' = SetFulfilment(book, o, f.body.fulfilment, f.arg.to)
     /\ IF book' # book
          THEN Reply(op, i, "ok", [f.body EXCEPT !.fulfilment = f.arg.to])
          ELSE Reply(op, i, "409", None)
     /\ done' = IF book' # book THEN [done EXCEPT ![o] = Append(@, f.arg.to)] ELSE done
     /\ walk' = [x \in Operators |-> [walk[x] EXCEPT !.steady = @ \ {o}]]
     /\ UNCHANGED <<now, shelf, lapsed, put, seen>>

\* Forms that were filled from an older state of the product.
Moved(p) ==
  [x \in Operators |-> IF tabs[x].subject = p THEN [put[x] EXCEPT !.moved = TRUE] ELSE put[x]]

ServeSave(op, i) ==
  LET f == tabs[op].calls[i]
  IN /\ Accepted(op) /\ Calling(op, i, "save") /\ Valid(f.arg.product)
     /\ shelf' = Update(shelf, f.arg.id, f.arg.product)
     /\ Reply(op, i, "ok", f.arg.product)
     /\ put' = [Moved(f.arg.id) EXCEPT ![op].moved = @ /\ ~ f.live]
     /\ UNCHANGED <<book, now, lapsed, done, walk, seen>>

ServeCreate(op, i) ==
  LET f == tabs[op].calls[i]
  IN /\ Accepted(op) /\ Calling(op, i, "create") /\ Valid(f.arg.product)
     /\ IF shelf[f.arg.id] = None
          THEN /\ shelf' = Create(shelf, f.arg.id, f.arg.product)
               /\ Reply(op, i, "ok", f.arg.id)
          ELSE UNCHANGED shelf /\ Reply(op, i, "409", None)
     /\ UNCHANGED <<book, now, lapsed, history>>

ServeRetire(op, i) ==
  LET f == tabs[op].calls[i]
  IN /\ Accepted(op) /\ Calling(op, i, "retire")
     /\ shelf' = Retire(shelf, f.arg)
     /\ Reply(op, i, "ok", None)
     /\ UNCHANGED <<book, now, lapsed, history>>

\* Cloudinary's ids are fresh.
Drafts == {tabs[op].view.draft : op \in Operators} \ {None}
Used == (UNION {Range(shelf[p].images) : p \in {q \in ProductIds : shelf[q] # None}})
          \cup (UNION {Range(draft.images) : draft \in Drafts})
          \cup (UNION {put[op].added \cup put[op].removed : op \in Operators})

\* The signature of our server, then Cloudinary's answer.
ServeUpload(op, i) ==
  /\ Accepted(op) /\ Calling(op, i, "upload")
  /\ \E image \in Images \ Used : Reply(op, i, "ok", image)
  /\ UNCHANGED <<server, history>>

ServeLogin(op, i) ==
  /\ Calling(op, i, "login") /\ Reply(op, i, "ok", None)
  /\ lapsed' = lapsed \ {op}
  /\ UNCHANGED <<book, now, shelf, history>>

ServeRefusal(op, i) ==
  /\ \/ ~ Accepted(op) /\ Refuse(op, i, CallKind \ {"login"}, "401")
     \/ Refuse(op, i, {"save", "create"}, "422") /\ ~ Valid(tabs[op].calls[i].arg.product)
  /\ UNCHANGED <<server, history>>

Serve(op, i) ==
  /\ \/ ServeRead(op, i) \/ ServeProduct(op, i) \/ ServeOrders(op, i)
     \/ ReadForAdvance(op, i) \/ WriteAdvance(op, i) \/ ServeSave(op, i) \/ ServeCreate(op, i) \/ ServeRetire(op, i)
     \/ ServeUpload(op, i) \/ ServeLogin(op, i) \/ ServeRefusal(op, i)
  /\ UNCHANGED <<desk, clicks, faults>>

\* A request or an answer is lost.
Lose(op, i) ==
  /\ faults > 0 /\ faults' = faults - 1
  /\ tabs[op].calls[i] # None /\ tabs[op].calls[i].status \in {None, "ok"}
  /\ Reply(op, i, "net", None)
  /\ UNCHANGED <<server, desk, clicks, history>>

-----------------------------------------------------------------------------
(* What the page does with an answer.                                      *)

Failed(c, i) == c.calls[i].status # "ok"

\* setState of a page that was left does nothing.
Show(c, i, view) == IF c.calls[i].live THEN [End(c, i) EXCEPT !.view = view] ELSE End(c, i)

Rested(c, kind) == [c.view EXCEPT !.busy = @ \ {kind}]

\* A failed check of the token forgets it, even from a page that was left.
MeHeard(c, i) ==
  LET f == c.calls[i]
  IN IF ~ Failed(c, i) THEN IF f.live THEN Enter(End(c, i)) ELSE End(c, i)
     ELSE IF f.live \/ f.arg = "order" THEN SignOut(End(c, i))
     ELSE [End(c, i) EXCEPT !.token = FALSE]

LoginHeard(c, i) ==
  IF Failed(c, i) THEN Show(c, i, Rested(c, "login"))
  ELSE Mount([End(c, i) EXCEPT !.token = TRUE], "products", None)

OrdersHeard(c, i) ==
  LET body == c.calls[i].body
  IN Show(c, i, IF Failed(c, i) THEN [c.view EXCEPT !.loading = FALSE, !.failed = TRUE]
                ELSE [c.view EXCEPT !.loading = FALSE, !.rows = body.rows, !.next = body.next])

OrderHeard(c, i) ==
  Show(c, i, IF Failed(c, i) THEN [c.view EXCEPT !.loading = FALSE, !.failed = TRUE]
             ELSE [c.view EXCEPT !.loading = FALSE, !.shown = c.calls[i].body])

\* A refused step reloads the order: somebody else has moved it.
AdvanceHeard(c, i) ==
  LET f == c.calls[i]
      heard == Show(c, i, IF Failed(c, i) THEN Rested(c, "advance")
                          ELSE [Rested(c, "advance") EXCEPT !.shown = f.body])
  IN IF f.status = "409" /\ f.live THEN LoadOrder(heard) ELSE heard

\* Mutant: the form does not take over the product's stock.
ProductToDraftStockless(product) == [product EXCEPT !.stock = 0]

ProductToDraft(product) == product

ProductHeard(c, i) ==
  Show(c, i, IF Failed(c, i) THEN [c.view EXCEPT !.failed = TRUE]
             ELSE [c.view EXCEPT !.draft = ProductToDraft(c.calls[i].body)])

\* The answer of a save fills the form anew.
SaveHeard(c, i) ==
  Show(c, i, IF Failed(c, i) THEN Rested(c, "save")
             ELSE [Rested(c, "save") EXCEPT !.draft = ProductToDraft(c.calls[i].body)])

\* router.push works from a page that was left, too.
CreateHeard(c, i) ==
  IF Failed(c, i) THEN Show(c, i, Rested(c, "save"))
  ELSE Mount(End(c, i), "product", c.calls[i].body)

RetireHeard(c, i) ==
  IF Failed(c, i) THEN Show(c, i, Rested(c, "retire"))
  ELSE Mount(End(c, i), "products", None)

\* Mutant: the uploaded picture takes the place of the others.
AddImageAlone(draft, image) == [draft EXCEPT !.images = <<image>>]

AddImage(draft, image) == [draft EXCEPT !.images = Append(@, image)]

UploadHeard(c, i) ==
  Show(c, i, IF Failed(c, i) THEN Rested(c, "upload")
             ELSE [Rested(c, "upload") EXCEPT !.draft = AddImage(@, c.calls[i].body)])

\* A 401 on a call that carried a token ends the session first.
Heard(c, i) ==
  LET f == c.calls[i]
  IN IF f.status = "401" THEN SignOut(End(c, i))
     ELSE CASE f.kind = "me"   -> MeHeard(c, i)
       [] f.kind = "login"     -> LoginHeard(c, i)
       [] f.kind = "orders"    -> OrdersHeard(c, i)
       [] f.kind = "order"     -> OrderHeard(c, i)
       [] f.kind = "advance"   -> AdvanceHeard(c, i)
       [] f.kind = "label"     -> Show(c, i, Rested(c, "label"))
       [] f.kind = "products"  -> Show(c, i, c.view)
       [] f.kind = "product"   -> ProductHeard(c, i)
       [] f.kind = "save"      -> SaveHeard(c, i)
       [] f.kind = "create"    -> CreateHeard(c, i)
       [] f.kind = "retire"    -> RetireHeard(c, i)
       [] f.kind = "upload"    -> UploadHeard(c, i)

Saving(op) == "save" \in tabs[op].view.busy

\* The pages of the walk up to the one that is shown now.
Walked(op, f) ==
  LET depth == Len(tabs[op].view.cursors)
  IN [walk[op] EXCEPT !.pages = Append(SubSeq(@, 1, depth - 1), f.body.rows)]

Hear(op, i) ==
  LET f == tabs[op].calls[i]
      heard == f.live /\ f.status = "ok"
  IN /\ f # None /\ f.at = "answered"
     /\ tabs' = [tabs EXCEPT ![op] = Heard(@, i)]
     /\ walk' = IF heard /\ f.kind = "orders" THEN [walk EXCEPT ![op] = Walked(op, f)] ELSE walk
     /\ put' = IF heard /\ f.kind = "product"
                 THEN [put EXCEPT ![op] = [NoPut EXCEPT !.moved = put[op].moved]]
               ELSE IF heard /\ f.kind = "upload"
                 THEN [put EXCEPT ![op].added = @ \cup {f.body},
                                  ![op].late = @ \/ Saving(op)]
               ELSE put
     /\ UNCHANGED <<server, desk, clicks, faults, done, seen>>

-----------------------------------------------------------------------------
(* Clicks.                                                                 *)

View(op) == tabs[op].view
On(op, route) == tabs[op].route = route /\ tabs[op].ready
Room(op) == IdleSlots(tabs[op]) # {}
Resting(op, kind) == kind \notin View(op).busy

Click(op, c) ==
  /\ Spend /\ tabs' = [tabs EXCEPT ![op] = c]
  /\ UNCHANGED <<server, desk, faults, history>>

Start(op, kind, arg) ==
  LET c == tabs[op]
  IN Room(op) /\ Click(op, Ask([c EXCEPT !.view.busy = @ \cup {kind}], kind, arg))

ClickLogin(op) == On(op, "login") /\ Resting(op, "login") /\ Start(op, "login", None)

\* The links of the header and of the pages.
Follow(op) ==
  /\ May("links") /\ tabs[op].route # "login" /\ tabs[op].ready /\ Room(op)
  /\ \/ Click(op, Mount(tabs[op], "orders", None))
     \/ Click(op, Mount(tabs[op], "products", None))
     \/ Click(op, SignOut(tabs[op]))
     \/ On(op, "products") /\ Click(op, Mount(tabs[op], "new", None))
     \/ /\ On(op, "products")
        /\ \E p \in ProductIds : shelf[p] # None /\ Click(op, Mount(tabs[op], "product", p))
     \/ /\ On(op, "orders") /\ View(op).rows # None
        /\ \E o \in View(op).rows : Click(op, Mount(tabs[op], "order", o))

\* The filter bar and the pages of the order book.
Choose(op) ==
  /\ On(op, "orders")
  /\ \E f \in Filters \ {View(op).choice} : Click(op, [tabs[op] EXCEPT !.view.choice = f])

ApplyFilters(op) ==
  LET c == tabs[op]
  IN /\ On(op, "orders") /\ Room(op)
     /\ Click(op, LoadOrders([c EXCEPT !.view.cursors = <<None>>,
                                       !.view.filters = View(op).choice]))

PageShown(op) == On(op, "orders") /\ Room(op) /\ View(op).rows \notin {None, {}}

GoNext(op) ==
  /\ PageShown(op) /\ View(op).next # None
  /\ Click(op, LoadOrders([tabs[op] EXCEPT !.view.cursors = Append(@, View(op).next)]))

GoPrev(op) ==
  /\ PageShown(op) /\ Len(View(op).cursors) > 1
  /\ Click(op, LoadOrders([tabs[op] EXCEPT !.view.cursors = Front(@)]))

\* Mutant: the order stays on the page while it is loaded.
OrderShownAlways(op) == On(op, "order") /\ View(op).shown # None

OrderShown(op) == On(op, "order") /\ View(op).shown # None /\ ~ View(op).loading

Advance(op) ==
  LET shown == View(op).shown
  IN /\ OrderShown(op) /\ Resting(op, "advance")
     /\ shown.status = "placed" /\ Rank(shown.fulfilment) < Len(Steps)
     /\ Start(op, "advance", [order |-> tabs[op].subject, to |-> Steps[Rank(shown.fulfilment) + 1]])

PrintLabel(op) ==
  /\ May("label") /\ OrderShown(op) /\ View(op).shown.status = "placed" /\ Resting(op, "label")
  /\ Start(op, "label", tabs[op].subject)

\* Also offered while a step is under way.
TryAgain(op) ==
  /\ On(op, "order") /\ View(op).failed /\ ~ View(op).loading /\ Room(op) /\ Spend
  /\ tabs' = [tabs EXCEPT ![op] = LoadOrder(@)]
  /\ seen' = IF Resting(op, "advance") THEN seen ELSE seen \cup {"overlap"}
  /\ UNCHANGED <<server, desk, faults, done, walk, put>>

-----------------------------------------------------------------------------
(* The product form, new or of a product.                                  *)

FormShown(op) == (On(op, "product") \/ On(op, "new")) /\ View(op).draft # None

Edit(op, draft, mine) ==
  /\ Spend /\ tabs' = [tabs EXCEPT ![op].view.draft = draft]
  /\ put' = [put EXCEPT ![op] = [mine EXCEPT !.late = @ \/ Saving(op)]]
  /\ UNCHANGED <<server, desk, faults, done, walk, seen>>

EditForm(op) ==
  LET draft == View(op).draft
      mine == put[op]
  IN /\ FormShown(op)
     /\ \/ \E n \in 0..MaxStock :
             Edit(op, [draft EXCEPT !.stock = n], [mine EXCEPT !.stock = n])
        \/ Edit(op, [draft EXCEPT !.active = ~ @], [mine EXCEPT !.active = ~ draft.active])
        \/ \E n \in 2..Len(draft.images) :
             Edit(op, [draft EXCEPT !.images = <<@[n]>> \o RemoveAt(@, n)], mine)
        \/ \E n \in 1..Len(draft.images) :
             Edit(op, [draft EXCEPT !.images = RemoveAt(@, n)],
                  [mine EXCEPT !.removed = @ \cup {draft.images[n]},
                               !.added = @ \ {draft.images[n]}])

PickImage(op) ==
  /\ FormShown(op) /\ Len(View(op).draft.images) < MaxImages /\ Resting(op, "upload")
  /\ Images \ Used # {} /\ Start(op, "upload", None)

SaveForm(op) ==
  LET c == tabs[op]
      saving == [c EXCEPT !.view.busy = @ \cup {"save"}]
      body == View(op).draft
  IN /\ FormShown(op) /\ Resting(op, "save") /\ Room(op)
     /\ \/ /\ On(op, "product")
           /\ Click(op, Ask(saving, "save", [id |-> c.subject, product |-> body]))
        \/ /\ On(op, "new")
           /\ \E p \in ProductIds :
                Click(op, Ask(saving, "create", [id |-> p, product |-> body]))

RetireProduct(op) ==
  /\ May("retire") /\ On(op, "product") /\ FormShown(op)
  /\ \/ Click(op, [tabs[op] EXCEPT !.view.confirm = ~ @])
     \/ View(op).confirm /\ Resting(op, "retire") /\ Start(op, "retire", tabs[op].subject)

-----------------------------------------------------------------------------
(* Meanwhile: orders come in and are paid, units are taken and returned,   *)
(* sessions run out.                                                       *)

Meanwhile(part) == May(part) /\ Spend /\ UNCHANGED <<tabs, desk, faults>>

OrderComes(o) ==
  /\ Meanwhile("orders") /\ book[o] = None
  /\ book' = [book EXCEPT ![o] = [created |-> now, status |-> "pending", fulfilment |-> FulfilmentNone]]
  /\ UNCHANGED <<now, shelf, lapsed, history>>

OrderSettles(o) ==
  /\ Meanwhile("orders") /\ book[o] # None /\ book[o].status = "pending"
  /\ \E s \in {"placed", "expired"} : book' = [book EXCEPT ![o].status = s]
  /\ walk' = [x \in Operators |-> [walk[x] EXCEPT !.steady = @ \ {o}]]
  /\ UNCHANGED <<now, shelf, lapsed, done, put, seen>>

Tick ==
  /\ Meanwhile("orders") /\ now < MaxTime /\ now' = now + 1
  /\ UNCHANGED <<book, shelf, lapsed, history>>

StockMoves(p) ==
  /\ Meanwhile("stock") /\ shelf[p] # None
  /\ \E n \in {shelf[p].stock - 1, shelf[p].stock + 1} \cap (0..MaxStock) :
       shelf' = [shelf EXCEPT ![p].stock = n]
  /\ put' = Moved(p)
  /\ UNCHANGED <<book, now, lapsed, done, walk, seen>>

SessionLapses(op) ==
  /\ Meanwhile("lapse") /\ lapsed' = lapsed \cup {op}
  /\ UNCHANGED <<book, now, shelf, history>>

-----------------------------------------------------------------------------
Clicks(op) ==
  \/ ClickLogin(op) \/ Follow(op)
  \/ Choose(op) \/ ApplyFilters(op) \/ GoNext(op) \/ GoPrev(op)
  \/ Advance(op) \/ PrintLabel(op) \/ TryAgain(op)
  \/ EditForm(op) \/ PickImage(op) \/ SaveForm(op) \/ RetireProduct(op)

World ==
  \/ Tick
  \/ \E o \in OrderIds : OrderComes(o) \/ OrderSettles(o)
  \/ \E p \in ProductIds : StockMoves(p)
  \/ \E op \in Operators : SessionLapses(op)

Next ==
  \/ \E op \in desk.crew : Clicks(op)
  \/ World
  \/ \E op \in Operators, i \in Slots : Serve(op, i) \/ Lose(op, i) \/ Hear(op, i)

Spec == Init /\ [][Next]_vars

=============================================================================
