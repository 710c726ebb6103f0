--------------------------- MODULE MCAdminConsole ---------------------------
(* Small instances of the console: one desk per kind of work. *)
EXTENDS AdminConsoleProperties

CONSTANTS op1, op2, o1, o2, o3, o4, x1, x2, i1, i2, i3

Desk(route, subject, crew, does, n, bad, orders, products, t) ==
  [route |-> route, subject |-> subject, crew |-> crew, does |-> does, clicks |-> n,
   faults |-> bad, book |-> orders, shelf |-> products, now |-> t]

At(t, s, f) == [created |-> t, status |-> s, fulfilment |-> f]
Book(f) == [o \in OrderIds |-> IF o \in DOMAIN f THEN f[o] ELSE None]
Shelf == [p \in ProductIds |->
            IF p = x1 THEN [stock |-> 1, active |-> TRUE, images |-> <<i1>>] ELSE None]
Empty == [p \in ProductIds |-> None]
Both == {op1, op2}

\* Two operators on the page of one order, another one in between.
Fulfilling ==
  Desk("order", o1, Both, {"label"}, 5, 1, Book(o1 :> At(1, "placed", FulfilmentNone)), Empty, 1)

\* The order book, read page by page while orders come in.
Reading ==
  Desk("orders", None, {op1}, {"orders"}, 5, 1,
       Book(o1 :> At(1, "placed", FulfilmentNone) @@ o2 :> At(2, "placed", FulfilmentNone) @@ o3 :> At(3, "pending", FulfilmentNone)),
       Empty, 3)

\* A page of the book ends between two orders of one millisecond.
Tied ==
  Desk("orders", None, {op1}, {"orders"}, 3, 0,
       Book(o1 :> At(2, "placed", FulfilmentNone) @@ o2 :> At(2, "placed", FulfilmentNone) @@ o3 :> At(3, "placed", FulfilmentNone)),
       Empty, 3)

\* The form of one product, at one operator for long, at two at once.
Editing == Desk("product", x1, {op1}, {"stock", "retire"}, 5, 1, Book(<<>>), Shelf, 1)
Sharing == Desk("product", x1, Both, {}, 3, 0, Book(<<>>), Shelf, 1)

\* New products, and the way between the pages with sessions that lapse.
Creating == Desk("new", None, {op1}, {"lapse"}, 4, 1, Book(<<>>), Shelf, 1)
Wandering ==
  Desk("products", None, {op1}, {"links", "lapse"}, 4, 0, Book(o1 :> At(1, "placed", FulfilmentNone)), Shelf, 1)

MCDesks == {Fulfilling, Reading, Tied, Editing, Sharing, Creating, Wandering}
MCFilters == {NoFilter, [NoFilter EXCEPT !.statuses = {"placed"}]}
=============================================================================
