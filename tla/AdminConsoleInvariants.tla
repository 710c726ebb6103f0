----------------------- MODULE AdminConsoleInvariants -----------------------
(***************************************************************************)
(* Why the console keeps its promises: what holds of a tab, of its form    *)
(* and of the order it shows at every step.  K and P are the orders and    *)
(* the products there are; a tab that was good before more of them came is *)
(* good afterwards.                                                        *)
(***************************************************************************)
EXTENDS AdminConsoleProperties

Known == {o \in OrderIds : book[o] # None}
Stocked == {p \in ProductIds : shelf[p] # None}

Cursor == 0..MaxTime \cup {None}
\* "net": no answer at all.
Answers == {"ok", "net", "401", "404", "409", "422"}

-----------------------------------------------------------------------------
(* Types.                                                                  *)

Views(K) ==
  [filters : Filter, choice : Filter, cursors : Seq(Cursor) \ {<<>>}, rows : {None} \cup SUBSET K,
   next : Cursor, shown : Order \cup {None}, loading : BOOLEAN, failed : BOOLEAN,
   busy : SUBSET CallKind, draft : Form \cup {None}, confirm : BOOLEAN]

Args(kind, K, P) ==
  CASE kind = "me"                    -> Route
    [] kind = "orders"                -> [filter : Filter, before : Cursor]
    [] kind \in {"order", "label"}    -> K
    [] kind = "advance"               -> [order : K, to : Range(Steps)]
    [] kind \in {"product", "retire"} -> P
    [] kind = "save"                  -> [id : P, product : Form]
    [] kind = "create"                -> [id : ProductIds, product : Form]
    [] OTHER                          -> {None}

Bodies(kind, K, P) ==
  CASE kind \in {"order", "advance"} -> Order
    [] kind = "orders"               -> [rows : SUBSET K, next : Cursor]
    [] kind \in {"product", "save"}  -> Form
    [] kind = "create"               -> P
    [] kind = "upload"               -> Images
    [] OTHER                         -> {None} \cup SUBSET ProductIds

\* A step that was read and is not written yet may follow the one it was read with.
GoodCall(f, K, P) ==
  /\ f = [kind |-> f.kind, arg |-> f.arg, live |-> f.live, at |-> f.at, status |-> f.status,
          body |-> f.body]
  /\ f.kind \in CallKind /\ f.live \in BOOLEAN /\ f.arg \in Args(f.kind, K, P)
  /\ \/ f.at = "asked" /\ f.status = None
     \/ /\ f.at = "read" /\ f.status = None /\ f.kind = "advance"
        /\ f.body \in Order /\ CanFulfil(f.body.fulfilment, f.arg.to)
     \/ /\ f.at = "answered" /\ f.status \in Answers
        /\ f.status = "ok" => f.body \in Bodies(f.kind, K, P)

\* A call whose answer counts is about what the page is about.
OfThePage(c, f) ==
  f.live =>
    /\ f.kind = "orders" => c.route = "orders"
    /\ f.kind = "order" => c.route = "order" /\ f.arg = c.subject
    /\ f.kind = "advance" => c.route = "order" /\ f.arg.order = c.subject
    /\ f.kind = "product" => c.route = "product" /\ f.arg = c.subject
    /\ f.kind = "save" => c.route = "product" /\ f.arg.id = c.subject
    /\ f.kind = "create" => c.route = "new"
    /\ f.kind = "upload" => c.route \in {"product", "new"}

Shape(c) ==
  /\ c = [route |-> c.route, ready |-> c.ready, token |-> c.token, subject |-> c.subject,
          view |-> c.view, calls |-> c.calls]
  /\ c.calls = [i \in Slots |-> c.calls[i]]

GoodTab(c, K, P) ==
  /\ Shape(c)
  /\ c.route \in Route /\ c.ready \in BOOLEAN /\ c.token \in BOOLEAN /\ c.view \in Views(K)
  /\ c.route = "order" => c.subject \in K
  /\ c.route = "product" => c.subject \in P
  /\ \A i \in Slots : c.calls[i] # None => GoodCall(c.calls[i], K, P) /\ OfThePage(c, c.calls[i])

Put == [stock : 0..MaxStock \cup {None}, active : BOOLEAN \cup {None}, added : SUBSET Images,
        removed : SUBSET Images, moved : BOOLEAN, late : BOOLEAN]

TypeInv ==
  /\ tabs = [op \in Operators |-> tabs[op]]
  /\ \A op \in Operators : GoodTab(tabs[op], Known, Stocked)
  /\ book \in [OrderIds -> Order \cup {None}]
  /\ shelf \in [ProductIds -> Product \cup {None}]
  /\ now \in 0..MaxTime /\ desk \in Desks
  /\ put \in [Operators -> Put]

-----------------------------------------------------------------------------
(* One thing at a time.                                                    *)

Live(c, i) == c.calls[i] # None /\ c.calls[i].live
LiveCalls(c, kinds) == {i \in Slots : Live(c, i) /\ c.calls[i].kind \in kinds}
Single(calls) == \A i, j \in calls : i = j

\* Until the guard or the form is there nothing else is asked; a button rests until its
\* answer is there; but for "Try again" a page waits for one answer about its order.
OneAtATime(c, events) ==
  LET live == LiveCalls(c, CallKind)
      draft == c.view.draft
  IN /\ \A i \in live : c.calls[i].kind = "me" <=> ~ c.ready
     /\ \A i \in LiveCalls(c, {"me", "product"}) : \A j \in live : i = j
     /\ ~ c.ready \/ LiveCalls(c, {"product"}) # {} => draft = None
     /\ Single(LiveCalls(c, {"save", "create"})) /\ Single(LiveCalls(c, {"upload"}))
     /\ LiveCalls(c, {"save", "create"}) # {} => "save" \in c.view.busy /\ draft # None
     /\ LiveCalls(c, {"upload"}) # {} => "upload" \in c.view.busy /\ draft # None
     /\ Single(LiveCalls(c, {"advance"}))
     /\ LiveCalls(c, {"advance"}) # {} => "advance" \in c.view.busy
     /\ "overlap" \notin events =>
          /\ Single(LiveCalls(c, {"order", "advance"}))
          /\ LiveCalls(c, {"order"}) # {} => c.view.loading

OneInv == \A op \in Operators : OneAtATime(tabs[op], seen)

-----------------------------------------------------------------------------
(* The order on the page.                                                  *)

RankOf(order) == Rank(order.fulfilment)

\* The page shows no later step than the book has, no answer under way is older than the
\* page, and a step under way is the one after the one that is shown.
BadgeInv(c, order) ==
  /\ c.view.shown # None => RankOf(c.view.shown) <= RankOf(order)
  /\ \A i \in LiveCalls(c, {"order"}) : c.calls[i].status = "ok" =>
       /\ RankOf(c.calls[i].body) <= RankOf(order)
       /\ c.view.shown # None => RankOf(c.view.shown) <= RankOf(c.calls[i].body)
  /\ \A i \in LiveCalls(c, {"advance"}) :
       /\ c.view.shown # None /\ CanFulfil(c.view.shown.fulfilment, c.calls[i].arg.to)
       /\ c.calls[i].status = "ok" =>
            /\ c.calls[i].body.fulfilment = c.calls[i].arg.to
            /\ Rank(c.calls[i].arg.to) <= RankOf(order)

BadgesInv ==
  \A op \in Operators :
    LET c == tabs[op]
    IN c.route = "order" /\ "overlap" \notin seen => BadgeInv(c, book[c.subject])

-----------------------------------------------------------------------------
(* The form.                                                               *)

Keeps(draft, mine) ==
  /\ mine.stock \in {None, draft.stock}
  /\ mine.active \in {None, draft.active}
  /\ mine.added \subseteq Range(draft.images)
  /\ mine.removed \cap Range(draft.images) = {}

\* The form has what its operator did to it and else what the product has; so has the save
\* under way, which an edit may overtake; an upload brings a picture the form never had.
FormInv(c, mine, product) ==
  LET draft == c.view.draft
  IN /\ c.route = "product" /\ draft # None =>
          /\ ~ mine.late => Keeps(draft, mine)
          /\ mine.stock = None /\ ~ mine.moved => draft.stock = product.stock
     /\ \A i \in LiveCalls(c, {"product"}) :
          c.calls[i].status = "ok" /\ ~ mine.moved => c.calls[i].body.stock = product.stock
     /\ \A i \in LiveCalls(c, {"save", "create"}) :
          LET sent == c.calls[i].arg.product
          IN /\ Range(sent.images) \subseteq Range(draft.images) \cup mine.removed
             /\ mine.stock = None => sent.stock = draft.stock
             /\ ~ mine.late => sent = draft
             /\ c.calls[i].kind = "save" /\ c.calls[i].status = "ok" => c.calls[i].body = sent
     /\ \A i \in LiveCalls(c, {"upload"}) :
          c.calls[i].status = "ok" =>
            c.calls[i].body \notin Range(draft.images) \cup mine.removed

FormsInv == \A op \in Operators : FormInv(tabs[op], put[op], shelf[tabs[op].subject])

PagesInv == TypeInv /\ OneInv /\ FormsInv

-----------------------------------------------------------------------------
(* The steps of an order, and what they were written for.                  *)

StepsInv ==
  /\ done = [o \in OrderIds |-> done[o]]
  /\ \A o \in OrderIds :
       /\ done[o] = IF book[o] = None THEN <<>> ELSE SubSeq(Steps, 1, Rank(book[o].fulfilment))
       /\ book[o] # None /\ book[o].fulfilment # FulfilmentNone => book[o].status = "placed"

-----------------------------------------------------------------------------
(* The walk through the order book.                                        *)

\* The millisecond of the order o is its own.
Lone(b, o) == \A x \in OrderIds \ {o} : b[x] # None => b[x].created # b[o].created

\* The first n pages and these rows have every order that has to be shown and is not older
\* than t.
Covers(w, b, n, rows, t) ==
  \A o \in w.steady :
    Lone(b, o) /\ (t = None \/ b[o].created >= t) => o \in rows \/ \E m \in 1..n : o \in w.pages[m]

\* The pages before each cursor reach to it.
Reaches(w, b, cursors) ==
  /\ cursors[1] = None
  /\ \A n \in 2..Len(cursors) :
       cursors[n] # None /\ n - 1 <= Len(w.pages) /\ Covers(w, b, n - 1, {}, cursors[n])

Agrees(w, b, filter) == \A o \in w.steady : Matches(b[o], filter)

\* From here the orders may be loaded.
MayLoad(w, b, view) ==
  /\ Reaches(w, b, view.cursors)
  /\ Len(view.cursors) > 1 => Agrees(w, b, view.filters)

Query(view) == [filter |-> view.filters, before |-> Last(view.cursors)]

\* The one answer under way that counts is to the question of the page, it and the rows on the
\* page reach to the next cursor, and what has to be shown matches the filter.
WalkInv(w, b, c) ==
  LET view == c.view
      depth == Len(view.cursors)
      asked == LiveCalls(c, {"orders"})
  IN /\ MayLoad(w, b, view)
     /\ view.rows # None =>
          Agrees(w, b, view.filters) /\ Len(w.pages) = depth /\ Covers(w, b, depth, {}, view.next)
     /\ Single(asked)
     /\ \A i \in asked :
          /\ view.rows = None /\ c.calls[i].arg = Query(view)
          /\ c.calls[i].status = "ok" =>
               /\ Agrees(w, b, view.filters)
               /\ Covers(w, b, depth - 1, c.calls[i].body.rows, c.calls[i].body.next)

Walk(K) == [pages : Seq(SUBSET OrderIds), steady : SUBSET K]

WalksInv ==
  /\ IsFiniteSet(Known)
  /\ walk \in [Operators -> Walk(Known)]
  /\ \A op \in Operators : tabs[op].route = "orders" => WalkInv(walk[op], book, tabs[op])

IInv == PagesInv /\ StepsInv /\ BadgesInv /\ WalksInv

=============================================================================
