------------------------- MODULE AdminConsoleProofs -------------------------
(***************************************************************************)
(* What the admin console promises, for every value of the constants.      *)
(*                                                                         *)
(* DraftsKeepEdits is a part of PagesInv.                                  *)
(* StepsAreWrittenOnce, SavesKeepTheStock: the order book's and the        *)
(* shelf's own steps, read off the calls that reach the server.            *)
(* BadgesGoForward: a move of a tab is calm, so it shows the badge it      *)
(* showed, or one from an answer (Calm...), or the server turned one of    *)
(* its calls and did nothing else to it (...Turns, TabMoves); no answer    *)
(* under way has a rank below the badge's.                                 *)
(* WalksMissNothing: a move of a tab keeps the list and what was answered  *)
(* to it (Quiet), loads it from where the pages before reach to (Goes,     *)
(* PagesOn), or is the list's own answer, given or heard (Walks); the book *)
(* and the orders that have to be shown change in HistoryStep.             *)
(***************************************************************************)
EXTENDS AdminConsolePageProofs

-----------------------------------------------------------------------------
(* The form of a product.                                                  *)

(* Whatever uploads, saves, edits and failures do to each other, the form   *)
(* of a product has the number and the box as its operator last set them,   *)
(* every picture they added and none they removed, unless an edit or an     *)
(* upload ended while a save was under way: the effect's guard and the      *)
(* functional setDraft of app/products/[productId]/page.tsx see to it.      *)
THEOREM DraftsKeepEdits == Spec => []DraftKeepsEdits
<1>1. PagesInv => DraftKeepsEdits
  BY DEF PagesInv, FormsInv, FormInv, Keeps, DraftKeepsEdits
<1> QED BY <1>1, PagesStayGood, PTL

-----------------------------------------------------------------------------
(* The steps of an order.                                                  *)

\* Who writes an order.
LEMMA BookIs ==
  ASSUME PagesInv, [Next]_vars
  PROVE  \/ UNCHANGED <<book, done>>
         \/ \E op \in Operators, i \in Slots : WriteAdvance(op, i)
         \/ \E o \in OrderIds : OrderComes(o) \/ OrderSettles(o)
<1>1. CASE UNCHANGED vars
  BY <1>1 DEF vars, server, history
<1>2. ASSUME NEW op \in desk.crew, Clicks(op)
      PROVE  UNCHANGED <<book, done>>
  BY <1>2 DEF Clicks, ClickLogin, Follow, Choose, ApplyFilters, GoNext, GoPrev, Advance, PrintLabel,
              TryAgain, EditForm, Edit, PickImage, SaveForm, RetireProduct, Start, Click, server, history
<1>3. CASE World
  BY <1>3 DEF World, Tick, StockMoves, SessionLapses, history
<1>4. ASSUME NEW op \in Operators, NEW i \in Slots, Serve(op, i) \/ Lose(op, i) \/ Hear(op, i)
      PROVE  UNCHANGED <<book, done>> \/ WriteAdvance(op, i)
  BY <1>4 DEF Serve, ServeRead, ServeProduct, ServeOrders, ReadForAdvance, ServeSave, ServeCreate,
              ServeRetire, ServeUpload, ServeLogin, ServeRefusal, Lose, Hear, server, history
<1> QED BY <1>1, <1>2, <1>3, <1>4 DEF Next

LEMMA NoSteps ==
  SubSeq(Steps, 1, Rank(FulfilmentNone)) = <<>>
<1>1. Steps \in Seq(Range(Steps)) /\ Rank(FulfilmentNone) = 0
  BY RankIs
<1>2. SubSeq(Steps, 1, 0) = <<>>
  BY <1>1, SubSeqEmpty
<1> QED BY <1>1, <1>2

LEMMA StepsInit ==
  ASSUME Init
  PROVE  StepsInv
<1>1. desk \in Desks /\ book = desk.book
  BY DEF Init
<1>2. \A o \in OrderIds : book[o] # None /\ book[o].fulfilment # FulfilmentNone => book[o].status = "placed"
  BY <1>1, DesksAssumption
<1>3. done = [o \in OrderIds |-> IF book[o] = None THEN <<>>
                                ELSE SubSeq(Steps, 1, Rank(book[o].fulfilment))]
  BY DEF Init
<1> QED BY <1>2, <1>3 DEF StepsInv

LEMMA StepsNext ==
  ASSUME PagesInv, StepsInv, [Next]_vars
  PROVE  StepsInv'
<1>1. /\ TypeInv /\ book = [x \in OrderIds |-> book[x]] /\ done = [x \in OrderIds |-> done[x]]
      /\ None \notin Order
  BY NoneIsNothing DEF PagesInv, TypeInv, StepsInv
<1>2. ASSUME NEW o \in OrderIds, NEW order, NEW steps,
             book' = [book EXCEPT ![o] = order], done' = [done EXCEPT ![o] = steps],
             order # None, steps = SubSeq(Steps, 1, Rank(order.fulfilment)),
             order.fulfilment # FulfilmentNone => order.status = "placed"
      PROVE  StepsInv'
  <2>1. book'[o] = order /\ done'[o] = steps /\ done' = [x \in OrderIds |-> done'[x]]
    BY <1>1, <1>2
  <2>2. \A x \in OrderIds \ {o} : book'[x] = book[x] /\ done'[x] = done[x]
    BY <1>1, <1>2
  <2> QED BY <1>2, <2>1, <2>2 DEF StepsInv
<1>3. CASE UNCHANGED <<book, done>>
  BY <1>3 DEF StepsInv
<1>4. ASSUME NEW op \in Operators, NEW i \in Slots, WriteAdvance(op, i)
      PROVE  StepsInv'
  <2>1. PICK f, o : f = tabs[op].calls[i] /\ o = f.arg.order
    OBVIOUS
  <2>2. /\ o \in Known /\ f.arg.to \in Range(Steps) /\ f.body \in Order /\ book[o] \in Order
        /\ CanFulfil(f.body.fulfilment, f.arg.to)
    BY <1>4, <2>1, WriteIs
  <2>3. CASE book[o].status = "placed" /\ book[o].fulfilment = f.body.fulfilment
    <3>1. PICK order, steps : /\ order = [book[o] EXCEPT !.fulfilment = f.arg.to]
                              /\ steps = Append(done[o], f.arg.to)
      OBVIOUS
    <3>2. book' = [book EXCEPT ![o] = order] /\ done' = [done EXCEPT ![o] = steps]
      BY <1>4, <2>1, <2>3, <3>1, WriteIs
    <3>3. order \in Order /\ order.fulfilment = f.arg.to /\ order.status = "placed" /\ o \in OrderIds
      BY <2>2, <2>3, <3>1 DEF Order, Fulfilment, Known
    <3>4. done[o] = SubSeq(Steps, 1, Rank(book[o].fulfilment))
      BY <2>2 DEF StepsInv, Known
    <3>5. SubSeq(Steps, 1, Rank(f.arg.to)) = Append(SubSeq(Steps, 1, Rank(f.body.fulfilment)), f.arg.to)
      BY <2>2, NextPrefix DEF Order
    <3>6. steps = SubSeq(Steps, 1, Rank(order.fulfilment))
      BY <2>3, <3>1, <3>3, <3>4, <3>5
    <3> QED BY <1>1, <1>2, <3>2, <3>3, <3>6
  <2>4. CASE ~ (book[o].status = "placed" /\ book[o].fulfilment = f.body.fulfilment)
    BY <1>3, <1>4, <2>1, <2>4, WriteIs
  <2> QED BY <2>3, <2>4
<1>5. ASSUME NEW o \in OrderIds, OrderComes(o)
      PROVE  StepsInv'
  <2>1. PICK order : order = [created |-> now, status |-> "pending", fulfilment |-> FulfilmentNone]
    OBVIOUS
  <2>2. PICK steps : steps = done[o]
    OBVIOUS
  <2>3. book[o] = None /\ book' = [book EXCEPT ![o] = order] /\ done' = done
    BY <1>5, <2>1 DEF OrderComes, history
  <2>4. done' = [done EXCEPT ![o] = steps]
    BY <1>1, <2>2, <2>3
  <2>5. order # None
    <3>1. order \in Order
      BY <1>1, <2>1 DEF Order, Status, Fulfilment, TypeInv
    <3> QED BY <1>1, <3>1
  <2>6. steps = <<>>
    BY <2>2, <2>3 DEF StepsInv
  <2>7. order.fulfilment = FulfilmentNone
    BY <2>1
  <2>8. steps = SubSeq(Steps, 1, Rank(order.fulfilment))
    BY <2>6, <2>7, NoSteps
  <2> QED BY <1>2, <2>3, <2>4, <2>5, <2>7, <2>8
<1>6. ASSUME NEW o \in OrderIds, OrderSettles(o)
      PROVE  StepsInv'
  <2>1. /\ book[o] # None /\ book[o].status = "pending" /\ done' = done
        /\ \E s \in {"placed", "expired"} : book' = [book EXCEPT ![o].status = s]
    BY <1>6 DEF OrderSettles
  <2>2. PICK s \in {"placed", "expired"} : book' = [book EXCEPT ![o].status = s]
    BY <2>1
  <2>3. PICK order, steps : order = [book[o] EXCEPT !.status = s] /\ steps = done[o]
    OBVIOUS
  <2>4. book[o] \in Order
    BY <1>1, <2>1, ShelfIs
  <2>5. order \in Order /\ order.fulfilment = book[o].fulfilment /\ book' = [book EXCEPT ![o] = order]
    BY <2>2, <2>3, <2>4 DEF Order, Status
  <2>6. done' = [done EXCEPT ![o] = steps]
    BY <1>1, <2>1, <2>3
  <2>7. book[o].fulfilment = FulfilmentNone /\ steps = SubSeq(Steps, 1, Rank(book[o].fulfilment))
    BY <2>1, <2>3 DEF StepsInv
  <2> QED BY <1>1, <1>2, <2>5, <2>6, <2>7
<1> QED BY <1>3, <1>4, <1>5, <1>6, BookIs

(* However many operators advance an order at the same time, on pages that   *)
(* show an older step, each step of its fulfilment is written once, in       *)
(* order, and to a placed order only: the update of SetFulfilment in         *)
(* order/admin_repository.go names the step the request has read.            *)
THEOREM StepsAreWrittenOnce == Spec => []EachStepOnce
<1>1. Init => StepsInv
  BY StepsInit
<1>2. PagesInv /\ StepsInv /\ [Next]_vars => StepsInv'
  BY StepsNext
<1>3. StepsInv => EachStepOnce
  BY NoSteps DEF StepsInv, EachStepOnce
<1> QED BY <1>1, <1>2, <1>3, PagesStayGood, PTL DEF Spec

-----------------------------------------------------------------------------
(* Clicks and answers bring no answers of the server.                      *)

NoNews(c, d) ==
  \A j \in Slots : d.calls[j] # None /\ d.calls[j].status # None =>
    c.calls[j] # None /\ c.calls[j].status = d.calls[j].status

\* A step that is asked for is the one after the one that is shown.
RightStep(view, f) ==
  f.kind = "advance" => view.shown # None /\ CanFulfil(view.shown.fulfilment, f.arg.to)

\* The page stays, and what it shows of its order; nothing new but questions is under way.
Stays(c, d) ==
  /\ d.route = c.route /\ d.subject = c.subject /\ d.view.shown = c.view.shown
  /\ \A j \in Slots : Live(d, j) =>
       \/ Live(c, j) /\ d.calls[j] = c.calls[j]
       \/ d.calls[j].status = None /\ RightStep(c.view, d.calls[j])

\* Or another page was opened, or the guard of this one has passed.
Still(c, d) ==
  \/ Stays(c, d)
  \/ Fresh(d) /\ (d.route = "order" /\ d.view.shown # None => SameOrder(c, d))

Calm(c, d) == NoNews(c, d) /\ Still(c, d)

LEMMA NewsIs ==
  ASSUME NEW K, NEW P, NEW c, GoodTab(c, K, P), NEW d,
         \A j \in Slots : \/ d.calls[j] = None \/ d.calls[j] = c.calls[j] \/ d.calls[j].status = None
                          \/ c.calls[j] # None /\ d.calls[j] = Left(c.calls[j])
  PROVE  NoNews(c, d)
<1>1. \A j \in Slots : c.calls[j] # None => Left(c.calls[j]).status = c.calls[j].status
  <2>1. ASSUME NEW j \in Slots, c.calls[j] # None
        PROVE  Left(c.calls[j]).status = c.calls[j].status
    <3>1. PICK f, g : f = c.calls[j] /\ g = Left(f)
      OBVIOUS
    <3>2. g = [kind |-> f.kind, arg |-> f.arg, live |-> FALSE, at |-> f.at,
               status |-> f.status, body |-> f.body]
      BY <2>1, <3>1, LeftIs DEF GoodTab, GoodCall
    <3>3. g.status = f.status
      BY <3>2
    <3> QED BY <3>1, <3>3
  <2> QED BY <2>1
<1> QED BY <1>1 DEF NoNews

LEMMA CalmAfter ==
  ASSUME NEW b, NEW c, NEW d, NoNews(b, c), Stays(b, c), Calm(c, d)
  PROVE  Calm(b, d)
<1>1. NoNews(b, d)
  BY DEF NoNews, Calm
<1>2. CASE Stays(c, d)
  <2>1. Stays(b, d)
    BY <1>2 DEF Stays, RightStep
  <2> QED BY <1>1, <2>1 DEF Calm, Still
<1>3. CASE Fresh(d) /\ (d.route = "order" /\ d.view.shown # None => SameOrder(c, d))
  <2>1. SameOrder(c, d) => SameOrder(b, d)
    BY DEF SameOrder, Stays
  <2> QED BY <1>1, <1>3, <2>1 DEF Calm, Still
<1> QED BY <1>2, <1>3 DEF Calm, Still

LEMMA CalmView ==
  ASSUME NEW c, NEW d, d.route = c.route, d.subject = c.subject, d.view.shown = c.view.shown,
         d.calls = c.calls
  PROVE  NoNews(c, d) /\ Stays(c, d) /\ Calm(c, d)
BY DEF NoNews, Stays, Calm, Still, Live

LEMMA CalmAsk ==
  ASSUME NEW c, Shape(c), NEW kind, NEW arg, RightStep(c.view, Asked(kind, arg))
  PROVE  Calm(c, Ask(c, kind, arg))
<1>1. PICK d : d = Ask(c, kind, arg)
  OBVIOUS
<1>2. /\ SamePage(c, d) /\ d.view = c.view
      /\ \A j \in Slots : d.calls[j] = IF j = Free(c) THEN Asked(kind, arg) ELSE c.calls[j]
  BY <1>1, AskIs
<1>3. PICK f : f = Asked(kind, arg)
  OBVIOUS
<1>4. f.status = None /\ RightStep(c.view, f)
  BY <1>3, AskedIs
<1>5. Stays(c, d)
  BY <1>2, <1>3, <1>4 DEF Stays, Live, SamePage
<1>6. NoNews(c, d)
  BY <1>2, <1>3, <1>4 DEF NoNews
<1> QED BY <1>1, <1>5, <1>6 DEF Calm, Still

\* A question that is not about a step.
LEMMA CalmQuestion ==
  ASSUME NEW c, Shape(c), NEW kind, kind # "advance", NEW arg
  PROVE  Calm(c, Ask(c, kind, arg))
<1>1. PICK f : f = Asked(kind, arg)
  OBVIOUS
<1>2. RightStep(c.view, f)
  BY <1>1, AskedIs DEF RightStep
<1> QED BY <1>1, <1>2, CalmAsk

LEMMA CalmShow ==
  ASSUME NEW c, Shape(c), NEW i \in Slots, NEW view, c.calls[i].live => view.shown = c.view.shown
  PROVE  LET d == Show(c, i, view)
         IN NoNews(c, d) /\ Stays(c, d) /\ Calm(c, d)
<1>1. PICK d : d = Show(c, i, view)
  OBVIOUS
<1>2. /\ SamePage(c, d) /\ d.view.shown = c.view.shown
      /\ \A j \in Slots : d.calls[j] = IF j = i THEN None ELSE c.calls[j]
  BY <1>1, ShowIs
<1>3. NoNews(c, d) /\ Stays(c, d)
  BY <1>2 DEF NoNews, Stays, Live, SamePage
<1> QED BY <1>1, <1>3 DEF Calm, Still

LEMMA CalmEnd ==
  ASSUME NEW c, Shape(c), NEW i \in Slots
  PROVE  LET d == End(c, i)
         IN NoNews(c, d) /\ Stays(c, d) /\ Calm(c, d)
<1>1. PICK d : d = End(c, i)
  OBVIOUS
<1>2. /\ SamePage(c, d) /\ d.view = c.view
      /\ \A j \in Slots : d.calls[j] = IF j = i THEN None ELSE c.calls[j]
  BY <1>1, EndIs
<1>3. NoNews(c, d) /\ Stays(c, d)
  BY <1>2 DEF NoNews, Stays, Live, SamePage
<1> QED BY <1>1, <1>3 DEF Calm, Still

LEMMA CalmMount ==
  ASSUME NEW K, NEW P, NEW c, GoodTab(c, K, P), NEW route, NEW subject
  PROVE  Calm(c, Mount(c, route, subject))
<1>1. PICK d : d = Mount(c, route, subject)
  OBVIOUS
<1>2. Fresh(d) /\ d.view.shown = None
  BY <1>1, FreshMount, OpenedIs
<1>3. PICK s : Opened(c, d, s)
  BY <1>1, MountIs DEF GoodTab
<1>4. NoNews(c, d)
  BY <1>3, NewsIs, AskedIs DEF Opened
<1> QED BY <1>1, <1>2, <1>4 DEF Calm, Still

LEMMA CalmSignOut ==
  ASSUME NEW K, NEW P, NEW c, GoodTab(c, K, P)
  PROVE  Calm(c, SignOut(c))
<1>1. PICK no \in BOOLEAN : no = FALSE
  OBVIOUS
<1>2. PICK b : b = [c EXCEPT !.token = no]
  OBVIOUS
<1>3. GoodTab(b, K, P)
  BY <1>2, GoodToken
<1>4. NoNews(c, b) /\ Stays(c, b)
  <2>1. b.route = c.route /\ b.subject = c.subject /\ b.view = c.view /\ b.calls = c.calls
    BY <1>2, TokenIs DEF GoodTab
  <2> QED BY <2>1, CalmView
<1>5. PICK d : d = Mount(b, "login", None)
  OBVIOUS
<1>6. Calm(c, d)
  BY <1>3, <1>4, <1>5, CalmMount, CalmAfter
<1> QED BY <1>1, <1>2, <1>5, <1>6 DEF SignOut

LEMMA CalmLoadOrders ==
  ASSUME NEW K, NEW P, NEW c, GoodTab(c, K, P)
  PROVE  Calm(c, LoadOrders(c))
<1>1. PICK d, b, arg :
        /\ LoadOrders(c) = Ask(b, "orders", arg)
        /\ d = Cancel(c, {"orders"}) /\ Shape(d)
        /\ b = [d EXCEPT !.view = [d.view EXCEPT !.rows = None, !.loading = TRUE,
                                                 !.failed = FALSE]]
        /\ arg \in Args("orders", K, P)
  BY LoadOrdersIs
<1>2. PICK e : e = LoadOrders(c)
  OBVIOUS
<1>3. SamePage(c, e) /\ e.view.shown = c.view.shown /\ Asks(c, e, "orders")
  BY <1>2, LoadOrdersAsks
<1>4. Stays(c, e)
  BY <1>3 DEF Stays, SamePage, Asks, RightStep
<1>5. NoNews(c, e)
  <2>1. PICK w : w = [d.view EXCEPT !.rows = None, !.loading = TRUE, !.failed = FALSE]
    OBVIOUS
  <2>2. Shape(b) /\ b.calls = d.calls
    BY <1>1, <2>1, ViewIs
  <2>3. \A j \in Slots : e.calls[j] = IF j = Free(b) THEN Asked("orders", arg) ELSE d.calls[j]
    <3>1. PICK x : x = Ask(b, "orders", arg)
      OBVIOUS
    <3>2. \A j \in Slots : x.calls[j] = IF j = Free(b) THEN Asked("orders", arg) ELSE b.calls[j]
      BY <2>2, <3>1, AskIs
    <3>3. e = x
      BY <1>1, <1>2, <3>1
    <3> QED BY <2>2, <3>2, <3>3
  <2>4. \A j \in Slots : d.calls[j] = IF c.calls[j] # None /\ c.calls[j].kind \in {"orders"}
                                        THEN Left(c.calls[j]) ELSE c.calls[j]
    BY <1>1, CancelIs DEF GoodTab
  <2> QED BY <2>3, <2>4, NewsIs, AskedIs
<1> QED BY <1>2, <1>4, <1>5 DEF Calm, Still

LEMMA CalmLoadOrder ==
  ASSUME NEW K, NEW P, NEW c, GoodTab(c, K, P)
  PROVE  Calm(c, LoadOrder(c))
<1>1. Shape(c) /\ c.view \in Views(K)
  BY DEF GoodTab
<1>2. PICK w : w = [c.view EXCEPT !.loading = TRUE, !.failed = FALSE]
  OBVIOUS
<1>3. PICK b : b = [c EXCEPT !.view = w]
  OBVIOUS
<1>4. Shape(b) /\ SamePage(c, b) /\ b.view = w /\ b.calls = c.calls
  BY <1>1, <1>3, ViewIs
<1>5. w.shown = c.view.shown
  BY <1>1, <1>2 DEF Views
<1>6. NoNews(c, b) /\ Stays(c, b)
  BY <1>4, <1>5, CalmView DEF SamePage
<1>7. PICK d : d = Ask(b, "order", c.subject)
  OBVIOUS
<1>8. Calm(c, d)
  BY <1>4, <1>6, <1>7, CalmQuestion, CalmAfter
<1> QED BY <1>2, <1>3, <1>7, <1>8, LoadOrderIs

\* The guard of a page has passed: nothing else was under way.
LEMMA CalmEnter ==
  ASSUME NEW K, NEW P, NEW c, GoodTab(c, K, P), Idle(c), c.view.draft = None
  PROVE  Calm(c, Enter(c))
<1>1. Shape(c) /\ c.route \in Route
  BY DEF GoodTab
<1>2. PICK in : in = [c EXCEPT !.ready = TRUE]
  OBVIOUS
<1>3. /\ GoodTab(in, K, P) /\ Shape(in) /\ in.route = c.route /\ in.subject = c.subject
      /\ in.view = c.view /\ in.calls = c.calls
  <2>1. PICK yes \in BOOLEAN : yes = TRUE
    OBVIOUS
  <2>2. in = [c EXCEPT !.ready = yes]
    BY <1>2, <2>1
  <2>3. /\ in.route = c.route /\ in.subject = c.subject /\ in.view = c.view
        /\ in.calls = c.calls /\ Shape(in)
    BY <1>1, <2>2, ReadyIs
  <2>4. GoodTab(in, K, P)
    BY <2>1, <2>2, GoodReady
  <2> QED BY <2>3, <2>4
<1>4. \A d : NoNews(in, d) => NoNews(c, d)
  BY <1>3 DEF NoNews
<1>5. PICK d : d = Enter(c)
  OBVIOUS
<1>6. Still(c, d)
  BY <1>5, FreshEnter DEF Still
<1>7. NoNews(c, d)
  <2>1. CASE c.route = "login"
    BY <1>5, <2>1, CalmMount DEF Enter, Calm
  <2>2. CASE c.route = "orders"
    <3>1. NoNews(in, LoadOrders(in))
      BY <1>3, CalmLoadOrders DEF Calm
    <3> QED BY <1>2, <1>4, <1>5, <2>2, <3>1 DEF Enter
  <2>3. CASE c.route = "order"
    <3>1. NoNews(in, LoadOrder(in))
      BY <1>3, CalmLoadOrder DEF Calm
    <3> QED BY <1>2, <1>4, <1>5, <2>3, <3>1 DEF Enter
  <2>4. CASE c.route = "products"
    <3>1. NoNews(in, Ask(in, "products", None))
      BY <1>3, CalmQuestion DEF Calm
    <3> QED BY <1>2, <1>4, <1>5, <2>4, <3>1 DEF Enter
  <2>5. CASE c.route = "product"
    <3>1. NoNews(in, Ask(in, "product", c.subject))
      BY <1>3, CalmQuestion DEF Calm
    <3> QED BY <1>2, <1>4, <1>5, <2>5, <3>1 DEF Enter
  <2>6. CASE c.route = "new"
    <3>1. PICK w : w = [in.view EXCEPT !.draft = NoDraft]
      OBVIOUS
    <3>2. d = [in EXCEPT !.view.draft = NoDraft]
      BY <1>2, <1>5, <2>6 DEF Enter
    <3>3. d = [in EXCEPT !.view = w]
      BY <1>3, <3>1, <3>2 DEF Shape
    <3>4. d.calls = c.calls
      BY <1>3, <3>3, ViewIs
    <3> QED BY <3>4 DEF NoNews
  <2> QED BY <1>1, <2>1, <2>2, <2>3, <2>4, <2>5, <2>6 DEF Route
<1> QED BY <1>5, <1>6, <1>7 DEF Calm

\* An answer about the order replaces what the page shows; every other one is calm.
Brings(c, i) ==
  Live(c, i) /\ c.calls[i].status = "ok" /\ c.calls[i].kind \in {"order", "advance"}

LEMMA ShowNews ==
  ASSUME NEW c, Shape(c), NEW i \in Slots, NEW view
  PROVE  NoNews(c, Show(c, i, view))
<1>1. PICK d : d = Show(c, i, view)
  OBVIOUS
<1>2. \A j \in Slots : d.calls[j] = IF j = i THEN None ELSE c.calls[j]
  BY <1>1, ShowIs
<1>3. NoNews(c, d)
  BY <1>2 DEF NoNews
<1> QED BY <1>1, <1>3

LEMMA CalmMeHeard ==
  ASSUME NEW K, NEW P, NEW c, GoodTab(c, K, P), NEW s, OneAtATime(c, s), NEW i, Answered(c, i),
         c.calls[i].kind = "me"
  PROVE  Calm(c, MeHeard(c, i))
<1>1. i \in Slots /\ Shape(c) /\ c.calls[i] # None
  BY DEF Answered, GoodTab
<1>2. PICK d : d = End(c, i)
  OBVIOUS
<1>3. /\ GoodTab(d, K, P) /\ Shape(d) /\ d.view = c.view
      /\ \A j \in Slots : d.calls[j] = IF j = i THEN None ELSE c.calls[j]
  BY <1>1, <1>2, GoodEnd, EndIs
<1>4. NoNews(c, d) /\ Stays(c, d) /\ Calm(c, d)
  BY <1>1, <1>2, CalmEnd
<1>5. PICK no : no = FALSE
  OBVIOUS
<1>6. PICK b : b = [d EXCEPT !.token = no]
  OBVIOUS
<1>7. /\ b.route = d.route /\ b.subject = d.subject /\ b.view = d.view /\ b.calls = d.calls
  BY <1>3, <1>6, TokenIs
<1>8. Calm(c, b)
  BY <1>4, <1>7, CalmView, CalmAfter
<1>9. CASE c.calls[i].live /\ ~ Failed(c, i)
  <2>1. i \in LiveCalls(c, {"me", "product"}) /\ i \in LiveCalls(c, CallKind)
    BY <1>1, <1>9 DEF LiveCalls, Live, CallKind
  <2>2. ~ c.ready /\ \A j \in LiveCalls(c, CallKind) : i = j
    BY <2>1 DEF OneAtATime
  <2>3. c.view.draft = None
    BY <2>2 DEF OneAtATime
  <2>4. \A j \in Slots : Live(c, j) => j \in LiveCalls(c, CallKind)
    BY DEF LiveCalls, Live, GoodTab, GoodCall
  <2>5. Idle(d)
    BY <1>3, <2>2, <2>4 DEF Idle, Live
  <2>6. Calm(d, Enter(d))
    BY <1>3, <2>3, <2>5, CalmEnter
  <2>7. Calm(c, Enter(d))
    BY <1>4, <2>6, CalmAfter
  <2> QED BY <1>2, <1>9, <2>7 DEF MeHeard
<1>10. Calm(c, SignOut(d))
  <2>1. Calm(d, SignOut(d))
    BY <1>3, CalmSignOut
  <2> QED BY <1>4, <2>1, CalmAfter
<1> QED BY <1>2, <1>4, <1>5, <1>6, <1>8, <1>9, <1>10 DEF MeHeard

LEMMA CalmAdvanceHeard ==
  ASSUME NEW K, NEW P, NEW c, GoodTab(c, K, P), NEW i, Answered(c, i), c.calls[i].kind = "advance"
  PROVE  NoNews(c, AdvanceHeard(c, i)) /\ (Brings(c, i) \/ Still(c, AdvanceHeard(c, i)))
<1> DEFINE v == IF Failed(c, i) THEN Rested(c, "advance")
                ELSE [Rested(c, "advance") EXCEPT !.shown = c.calls[i].body]
<1>1. i \in Slots /\ Shape(c) /\ c.calls[i] # None /\ c.view \in Views(K)
  BY DEF Answered, GoodTab
<1>2. Failed(c, i) => v \in Views(K) /\ v.shown = c.view.shown
  BY <1>1, RestedView DEF Rested, Views
<1>3. ~ Failed(c, i) <=> c.calls[i].status = "ok"
  BY DEF Failed
<1>4. PICK heard : heard = Show(c, i, v)
  OBVIOUS
<1>5. AdvanceHeard(c, i) = IF c.calls[i].status = "409" /\ c.calls[i].live
                             THEN LoadOrder(heard) ELSE heard
  BY <1>4 DEF AdvanceHeard
<1> HIDE DEF v
<1>6. NoNews(c, heard)
  BY <1>1, <1>4, ShowNews
<1>7. CASE c.calls[i].live /\ ~ Failed(c, i)
  BY <1>1, <1>3, <1>5, <1>6, <1>7 DEF Brings, Live
<1>8. CASE ~ (c.calls[i].live /\ ~ Failed(c, i))
  <2>1. c.calls[i].live => v.shown = c.view.shown
    BY <1>2, <1>8
  <2>2. NoNews(c, heard) /\ Stays(c, heard) /\ Calm(c, heard)
    BY <1>1, <1>4, <2>1, CalmShow
  <2>3. CASE c.calls[i].live
    <3>1. GoodTab(heard, K, P)
      BY <1>1, <1>2, <1>4, <1>8, <2>3, GoodShow
    <3>2. Calm(heard, LoadOrder(heard))
      BY <3>1, CalmLoadOrder
    <3>3. Calm(c, LoadOrder(heard))
      BY <2>2, <3>2, CalmAfter
    <3> QED BY <1>5, <2>2, <3>3 DEF Calm
  <2>4. CASE ~ c.calls[i].live
    BY <1>5, <2>2, <2>4 DEF Calm
  <2> QED BY <2>3, <2>4
<1> QED BY <1>7, <1>8

LEMMA CalmHeard ==
  ASSUME NEW K, NEW P, NEW c, GoodTab(c, K, P), NEW s, OneAtATime(c, s), NEW i, Answered(c, i)
  PROVE  NoNews(c, Heard(c, i)) /\ (Brings(c, i) \/ Still(c, Heard(c, i)))
<1>1. i \in Slots /\ c.calls[i] # None /\ c.calls[i].kind \in CallKind /\ Shape(c) /\ c.view \in Views(K)
  BY AnswerIs DEF Answered, GoodTab
<1>2. PICK d : d = End(c, i)
  OBVIOUS
<1>3. GoodTab(d, K, P) /\ NoNews(c, d) /\ Stays(c, d)
  BY <1>1, <1>2, GoodEnd, CalmEnd
<1>4. \A route, subject : Calm(c, Mount(d, route, subject))
  BY <1>3, CalmMount, CalmAfter
<1>5. Calm(c, SignOut(d))
  BY <1>3, CalmSignOut, CalmAfter
<1>6. \A view : view.shown = c.view.shown => Calm(c, Show(c, i, view))
  BY <1>1, CalmShow
<1>7. \A kind : Rested(c, kind) \in Views(K) /\ Rested(c, kind).shown = c.view.shown
  BY <1>1, RestedView DEF Rested, Views
<1>8. \A kind : Calm(c, Show(c, i, Rested(c, kind)))
  BY <1>6, <1>7
<1>9. CASE c.calls[i].status = "401"
  BY <1>2, <1>5, <1>9 DEF Heard, Calm
<1>10. CASE c.calls[i].status # "401"
  <2>1. CASE c.calls[i].kind = "me"
    BY <1>10, <2>1, CalmMeHeard DEF Heard, Calm
  <2>2. CASE c.calls[i].kind = "login"
    <3>1. PICK yes \in BOOLEAN : yes = TRUE
      OBVIOUS
    <3>2. PICK b : b = [d EXCEPT !.token = yes]
      OBVIOUS
    <3>3. GoodTab(b, K, P) /\ NoNews(d, b) /\ Stays(d, b)
      <4>1. b.route = d.route /\ b.subject = d.subject /\ b.view = d.view /\ b.calls = d.calls
        BY <1>3, <3>2, TokenIs DEF GoodTab
      <4>2. NoNews(d, b) /\ Stays(d, b)
        BY <4>1, CalmView
      <4> QED BY <1>3, <3>2, <4>2, GoodToken
    <3>4. PICK e : e = Mount(b, "products", None)
      OBVIOUS
    <3>5. Calm(b, e)
      BY <3>3, <3>4, CalmMount
    <3>6. Calm(d, e)
      BY <3>3, <3>5, CalmAfter
    <3>7. Calm(c, e)
      BY <1>3, <3>6, CalmAfter
    <3>8. Heard(c, i) = IF Failed(c, i) THEN Show(c, i, Rested(c, "login")) ELSE e
      BY <1>2, <1>10, <2>2, <3>1, <3>2, <3>4 DEF Heard, LoginHeard
    <3> QED BY <1>8, <3>7, <3>8 DEF Calm
  <2>3. CASE c.calls[i].kind = "orders"
    <3> DEFINE body == c.calls[i].body
               v == IF Failed(c, i) THEN [c.view EXCEPT !.loading = FALSE, !.failed = TRUE]
                    ELSE [c.view EXCEPT !.loading = FALSE, !.rows = body.rows, !.next = body.next]
    <3>1. v.shown = c.view.shown
      BY <1>1 DEF Views
    <3>2. Heard(c, i) = Show(c, i, v)
      BY <1>10, <2>3 DEF Heard, OrdersHeard
    <3> HIDE DEF v
    <3> QED BY <1>6, <3>1, <3>2 DEF Calm
  <2>4. CASE c.calls[i].kind = "order"
    <3> DEFINE v == IF Failed(c, i) THEN [c.view EXCEPT !.loading = FALSE, !.failed = TRUE]
                    ELSE [c.view EXCEPT !.loading = FALSE, !.shown = c.calls[i].body]
    <3>1. Failed(c, i) => v.shown = c.view.shown
      BY <1>1 DEF Views
    <3>2. Heard(c, i) = Show(c, i, v)
      BY <1>10, <2>4 DEF Heard, OrderHeard
    <3> HIDE DEF v
    <3>3. NoNews(c, Show(c, i, v))
      BY <1>1, ShowNews
    <3>4. ~ Brings(c, i) => (c.calls[i].live => Failed(c, i))
      BY <1>1, <2>4 DEF Brings, Live, Failed
    <3>5. ~ Brings(c, i) => Calm(c, Show(c, i, v))
      BY <1>1, <3>1, <3>4, CalmShow
    <3> QED BY <3>2, <3>3, <3>5 DEF Calm
  <2>5. CASE c.calls[i].kind = "advance"
    BY <1>10, <2>5, CalmAdvanceHeard DEF Heard
  <2>6. CASE c.calls[i].kind = "label"
    BY <1>8, <1>10, <2>6 DEF Heard, Calm
  <2>7. CASE c.calls[i].kind = "products"
    BY <1>6, <1>10, <2>7 DEF Heard, Calm
  <2>8. CASE c.calls[i].kind = "product"
    <3> DEFINE v == IF Failed(c, i) THEN [c.view EXCEPT !.failed = TRUE]
                    ELSE [c.view EXCEPT !.draft = ProductToDraft(c.calls[i].body)]
    <3>1. v.shown = c.view.shown
      BY <1>1 DEF Views
    <3>2. Heard(c, i) = Show(c, i, v)
      BY <1>10, <2>8 DEF Heard, ProductHeard
    <3> HIDE DEF v
    <3> QED BY <1>6, <3>1, <3>2 DEF Calm
  <2>9. CASE c.calls[i].kind = "save"
    <3> DEFINE v == IF Failed(c, i) THEN Rested(c, "save")
                    ELSE [Rested(c, "save") EXCEPT !.draft = ProductToDraft(c.calls[i].body)]
    <3>1. v.shown = c.view.shown
      BY <1>7 DEF Views
    <3>2. Heard(c, i) = Show(c, i, v)
      BY <1>10, <2>9 DEF Heard, SaveHeard
    <3> HIDE DEF v
    <3> QED BY <1>6, <3>1, <3>2 DEF Calm
  <2>10. CASE c.calls[i].kind = "create"
    BY <1>2, <1>4, <1>8, <1>10, <2>10 DEF Heard, CreateHeard, Calm
  <2>11. CASE c.calls[i].kind = "retire"
    BY <1>2, <1>4, <1>8, <1>10, <2>11 DEF Heard, RetireHeard, Calm
  <2>12. CASE c.calls[i].kind = "upload"
    <3> DEFINE v == IF Failed(c, i) THEN Rested(c, "upload")
                    ELSE [Rested(c, "upload") EXCEPT !.draft = AddImage(@, c.calls[i].body)]
    <3>1. v.shown = c.view.shown
      BY <1>7 DEF Views
    <3>2. Heard(c, i) = Show(c, i, v)
      BY <1>10, <2>12 DEF Heard, UploadHeard
    <3> HIDE DEF v
    <3> QED BY <1>6, <3>1, <3>2 DEF Calm
  <2> QED BY <1>1, <2>1, <2>2, <2>3, <2>4, <2>5, <2>6, <2>7, <2>8, <2>9, <2>10, <2>11, <2>12
          DEF CallKind
<1> QED BY <1>9, <1>10

-----------------------------------------------------------------------------
(* Every click is calm.                                                    *)

Clicked(op) ==
  \E d : tabs' = [tabs EXCEPT ![op] = d] /\ Calm(tabs[op], d)

\* A view that shows the same order, and then the same buttons or a question.
LEMMA CalmClick ==
  ASSUME NEW op, NEW c, c = tabs[op], NEW w, w.shown = c.view.shown, Shape(c),
         NEW b, b = [c EXCEPT !.view = w], NEW d, d = b \/ Calm(b, d), tabs' = [tabs EXCEPT ![op] = d]
  PROVE  Clicked(op)
<1>1. SamePage(c, b) /\ b.view = w /\ b.calls = c.calls
  BY ViewIs
<1>2. NoNews(c, b) /\ Stays(c, b) /\ Calm(c, b)
  BY <1>1, CalmView DEF SamePage
<1>3. Calm(c, d)
  BY <1>2, CalmAfter
<1> QED BY <1>3 DEF Clicked

LEMMA StartCalm ==
  ASSUME PagesInv, NEW op \in Operators, NEW kind, NEW arg,
         RightStep(tabs[op].view, Asked(kind, arg)), Start(op, kind, arg)
  PROVE  Clicked(op)
<1>1. PICK c : c = tabs[op]
  OBVIOUS
<1>2. Shape(c) /\ c.view \in Views(Known)
  BY <1>1, PageOf
<1>3. PICK w : w = [c.view EXCEPT !.busy = c.view.busy \cup {kind}]
  OBVIOUS
<1>4. w.shown = c.view.shown
  BY <1>2, <1>3 DEF Views
<1>5. PICK b : b = [c EXCEPT !.view = w]
  OBVIOUS
<1>6. Shape(b) /\ b.view = w
  BY <1>2, <1>5, ViewIs
<1>7. PICK d : d = Ask(b, kind, arg)
  OBVIOUS
<1>8. Click(op, d)
  <2>1. [c EXCEPT !.view.busy = c.view.busy \cup {kind}] = b
    BY <1>2, <1>3, <1>5 DEF Shape
  <2>2. Click(op, Ask([c EXCEPT !.view.busy = @ \cup {kind}], kind, arg))
    BY <1>1 DEF Start
  <2> QED BY <1>7, <2>1, <2>2
<1>9. PICK f : f = Asked(kind, arg)
  OBVIOUS
<1>10. RightStep(b.view, f)
  BY <1>1, <1>4, <1>6, <1>9 DEF RightStep
<1>11. Calm(b, d)
  BY <1>6, <1>7, <1>9, <1>10, CalmAsk
<1>12. tabs' = [tabs EXCEPT ![op] = d]
  BY <1>8 DEF Click
<1> QED BY <1>1, <1>2, <1>4, <1>5, <1>11, <1>12, CalmClick

LEMMA AdvanceCalm ==
  ASSUME PagesInv, NEW op \in Operators, Advance(op)
  PROVE  Clicked(op)
<1>1. PICK c, shown : c = tabs[op] /\ shown = c.view.shown
  OBVIOUS
<1>2. shown # None /\ Rank(shown.fulfilment) < Len(Steps)
  BY <1>1 DEF Advance, OrderShown, View
<1>3. shown \in Order
  BY <1>1, <1>2, PageOf DEF Views
<1>4. PICK n : n = Rank(shown.fulfilment)
  OBVIOUS
<1>5. n \in 0..3 /\ n < 3
  BY <1>2, <1>3, <1>4, RankIs DEF Order
<1>6. PICK to : to = Steps[n + 1]
  OBVIOUS
<1>7. Rank(to) = n + 1
  <2>1. n + 1 \in 1..3
    BY <1>5
  <2> QED BY <1>6, <2>1, RankIs
<1>8. PICK arg : arg = [order |-> c.subject, to |-> to]
  OBVIOUS
<1>9. PICK f : f = Asked("advance", arg)
  OBVIOUS
<1>10. f.arg.to = to
  BY <1>8, <1>9, AskedIs
<1>11. RightStep(c.view, f)
  BY <1>1, <1>2, <1>4, <1>7, <1>10 DEF RightStep, CanFulfil
<1>12. Start(op, "advance", arg)
  BY <1>1, <1>4, <1>6, <1>8 DEF Advance, View
<1> QED BY <1>1, <1>9, <1>11, <1>12, StartCalm

LEMMA FollowCalm ==
  ASSUME PagesInv, NEW op \in Operators, Follow(op)
  PROVE  Clicked(op)
<1>1. ASSUME NEW route, NEW subject, Click(op, Mount(tabs[op], route, subject))
      PROVE  Clicked(op)
  <2>1. PICK d : d = Mount(tabs[op], route, subject)
    OBVIOUS
  <2>2. Calm(tabs[op], d)
    BY <2>1, PageOf, CalmMount
  <2> QED BY <1>1, <2>1, <2>2 DEF Clicked, Click
<1>2. ASSUME Click(op, SignOut(tabs[op]))
      PROVE  Clicked(op)
  <2>1. PICK d : d = SignOut(tabs[op])
    OBVIOUS
  <2>2. Calm(tabs[op], d)
    BY <2>1, PageOf, CalmSignOut
  <2> QED BY <1>2, <2>1, <2>2 DEF Clicked, Click
<1> QED BY <1>1, <1>2 DEF Follow

LEMMA ChooseCalm ==
  ASSUME PagesInv, NEW op \in Operators, Choose(op)
  PROVE  Clicked(op)
<1>1. PICK f \in Filters : Click(op, [tabs[op] EXCEPT !.view.choice = f])
  BY DEF Choose
<1>2. PICK c : c = tabs[op]
  OBVIOUS
<1>3. c.view \in Views(Known) /\ Shape(c)
  BY <1>2, PageOf
<1>4. PICK w : w = [c.view EXCEPT !.choice = f]
  OBVIOUS
<1>5. w.shown = c.view.shown
  BY <1>3, <1>4 DEF Views
<1>6. PICK d : d = [c EXCEPT !.view = w]
  OBVIOUS
<1>7. d = [tabs[op] EXCEPT !.view.choice = f]
  BY <1>2, <1>3, <1>4, <1>6 DEF Shape
<1>8. tabs' = [tabs EXCEPT ![op] = d]
  BY <1>1, <1>7 DEF Click
<1> QED BY <1>2, <1>3, <1>5, <1>6, <1>8, CalmClick

LEMMA ReloadCalm ==
  ASSUME PagesInv, NEW op \in Operators, NEW w \in Views(Known), w.shown = tabs[op].view.shown,
         Click(op, LoadOrders([tabs[op] EXCEPT !.view = w]))
  PROVE  Clicked(op)
<1>1. PICK c : c = tabs[op]
  OBVIOUS
<1>2. PICK b : b = [c EXCEPT !.view = w]
  OBVIOUS
<1>3. GoodTab(c, Known, Stocked) /\ Shape(c)
  BY <1>1, PageOf
<1>4. GoodTab(b, Known, Stocked)
  BY <1>2, <1>3, GoodView
<1>5. PICK d : d = LoadOrders(b)
  OBVIOUS
<1>6. Calm(b, d)
  BY <1>4, <1>5, CalmLoadOrders
<1>7. tabs' = [tabs EXCEPT ![op] = d]
  BY <1>1, <1>2, <1>5 DEF Click
<1> QED BY <1>1, <1>2, <1>3, <1>6, <1>7, CalmClick

LEMMA PagesCalm ==
  ASSUME PagesInv, NEW op \in Operators, ApplyFilters(op) \/ GoNext(op) \/ GoPrev(op)
  PROVE  Clicked(op)
<1>1. PICK w : Reloads(op, w)
  BY ReloadIs
<1> QED BY <1>1, ReloadCalm DEF Reloads

LEMMA TryAgainCalm ==
  ASSUME PagesInv, NEW op \in Operators, TryAgain(op)
  PROVE  Clicked(op)
<1>1. PICK d : d = LoadOrder(tabs[op])
  OBVIOUS
<1>2. Calm(tabs[op], d)
  BY <1>1, PageOf, CalmLoadOrder
<1> QED BY <1>1, <1>2 DEF TryAgain, Clicked

LEMMA EditCalm ==
  ASSUME PagesInv, NEW op \in Operators, EditForm(op)
  PROVE  Clicked(op)
<1>1. PICK c : c = tabs[op]
  OBVIOUS
<1>2. c.view \in Views(Known) /\ Shape(c)
  BY <1>1, PageOf
<1>3. \E draft, mine : Edit(op, draft, mine)
  BY DEF EditForm
<1>4. PICK draft, mine : Edit(op, draft, mine)
  BY <1>3
<1>5. PICK w : w = [c.view EXCEPT !.draft = draft]
  OBVIOUS
<1>6. w.shown = c.view.shown
  BY <1>2, <1>5 DEF Views
<1>7. PICK d : d = [c EXCEPT !.view = w]
  OBVIOUS
<1>8. d = [c EXCEPT !.view.draft = draft]
  BY <1>2, <1>5, <1>7 DEF Shape
<1>9. tabs' = [tabs EXCEPT ![op] = d]
  <2>1. tabs = [x \in Operators |-> tabs[x]]
    BY DEF PagesInv, TypeInv
  <2>2. tabs' = [tabs EXCEPT ![op].view.draft = draft]
    BY <1>4 DEF Edit
  <2>3. tabs' = [tabs EXCEPT ![op] = [c EXCEPT !.view.draft = draft]]
    BY <1>1, <2>1, <2>2
  <2> QED BY <1>8, <2>3
<1> QED BY <1>1, <1>2, <1>6, <1>7, <1>9, CalmClick

LEMMA SaveCalm ==
  ASSUME PagesInv, NEW op \in Operators, SaveForm(op)
  PROVE  Clicked(op)
<1>1. PICK c : c = tabs[op]
  OBVIOUS
<1>2. c.view \in Views(Known) /\ Shape(c)
  BY <1>1, PageOf
<1>3. PICK w : w = [c.view EXCEPT !.busy = c.view.busy \cup {"save"}]
  OBVIOUS
<1>4. w.shown = c.view.shown
  BY <1>2, <1>3 DEF Views
<1>5. PICK b : b = [c EXCEPT !.view = w]
  OBVIOUS
<1>6. Shape(b)
  BY <1>2, <1>5, ViewIs
<1>7. PICK kind, id : Saves(op, b, kind, id)
  <2>1. b = [c EXCEPT !.view.busy = @ \cup {"save"}]
    BY <1>2, <1>3, <1>5 DEF Shape
  <2>2. b = [tabs[op] EXCEPT !.view.busy = @ \cup {"save"}]
    BY <1>1, <2>1
  <2> QED BY <2>2, SaveIs
<1>8. PICK arg : arg = [id |-> id, product |-> tabs[op].view.draft]
  OBVIOUS
<1>9. PICK d : d = Ask(b, kind, arg)
  OBVIOUS
<1>10. Calm(b, d)
  <2>1. kind # "advance"
    BY <1>7 DEF Saves
  <2> QED BY <1>6, <1>9, <2>1, CalmQuestion
<1>11. tabs' = [tabs EXCEPT ![op] = d]
  BY <1>7, <1>8, <1>9 DEF Saves, Click
<1> QED BY <1>1, <1>2, <1>4, <1>5, <1>10, <1>11, CalmClick

LEMMA ButtonsCalm ==
  ASSUME PagesInv, NEW op \in Operators,
         ClickLogin(op) \/ PrintLabel(op) \/ PickImage(op) \/ RetireProduct(op)
  PROVE  Clicked(op)
<1>1. PICK c : c = tabs[op]
  OBVIOUS
<1>2. c.view \in Views(Known) /\ Shape(c)
  BY <1>1, PageOf
<1>3. ASSUME NEW kind \in {"login", "label", "upload", "retire"}, NEW arg, Start(op, kind, arg)
      PROVE  Clicked(op)
  <2>1. PICK f : f = Asked(kind, arg)
    OBVIOUS
  <2>2. RightStep(c.view, f)
    BY <2>1, AskedIs DEF RightStep
  <2> QED BY <1>1, <1>3, <2>1, <2>2, StartCalm
<1>4. ASSUME Click(op, [c EXCEPT !.view.confirm = ~ @])
      PROVE  Clicked(op)
  <2>1. PICK b \in BOOLEAN : b = ~ c.view.confirm
    OBVIOUS
  <2>2. PICK w : w = [c.view EXCEPT !.confirm = b]
    OBVIOUS
  <2>3. w.shown = c.view.shown
    BY <1>2, <2>2 DEF Views
  <2>4. PICK d : d = [c EXCEPT !.view = w]
    OBVIOUS
  <2>5. [c EXCEPT !.view.confirm = ~ @] = d
    <3>1. [c EXCEPT !.view.confirm = ~ @] = [c EXCEPT !.view.confirm = b]
      BY <2>1
    <3> QED BY <1>2, <2>2, <2>4, <3>1 DEF Shape
  <2>6. tabs' = [tabs EXCEPT ![op] = d]
    BY <1>4, <2>5 DEF Click
  <2> QED BY <1>1, <1>2, <2>3, <2>4, <2>6, CalmClick
<1> QED BY <1>1, <1>3, <1>4 DEF ClickLogin, PrintLabel, PickImage, RetireProduct

LEMMA ClicksCalm ==
  ASSUME PagesInv, NEW op \in Operators, Clicks(op)
  PROVE  Clicked(op)
BY FollowCalm, ChooseCalm, PagesCalm, AdvanceCalm, TryAgainCalm, EditCalm, SaveCalm, ButtonsCalm
   DEF Clicks

-----------------------------------------------------------------------------
(* What the server answers to a save, to a page of orders or of an order,  *)
(* and to a step.                                                          *)

\* The answer says what was written, or what the book has.
Tells(op, i, status, body) ==
  LET f == tabs[op].calls[i]
  IN status = "ok" =>
       /\ f.kind = "save" => ServeSave(op, i)
       /\ f.kind = "orders" => ServeOrders(op, i)
       /\ f.kind = "order" => body = book[f.arg] /\ book' = book
       /\ f.kind = "advance" =>
            /\ WriteAdvance(op, i) /\ body.fulfilment = f.arg.to
            /\ book'[f.arg.order].fulfilment = f.arg.to

\* The call i of op has become g.
Turns(op, i, g) ==
  LET f == tabs[op].calls[i]
  IN /\ f # None /\ g.kind = f.kind /\ g.arg = f.arg /\ g.live = f.live
     /\ tabs' = [tabs EXCEPT ![op] = WithCall(tabs[op], i, g)]
     /\ Tells(op, i, g.status, g.body)

LEMMA ReplyTurns ==
  ASSUME PagesInv, NEW op \in Operators, NEW i \in Slots, tabs[op].calls[i] # None,
         NEW status, NEW body, Reply(op, i, status, body), Tells(op, i, status, body)
  PROVE  \E g : Turns(op, i, g)
<1>1. PICK g : g = Turned(tabs[op].calls[i], "answered", status, body)
  OBVIOUS
<1>2. TypeInv
  BY DEF PagesInv
<1>3. tabs' = [tabs EXCEPT ![op] = WithCall(tabs[op], i, g)]
  BY <1>1, <1>2, ReplyIs
<1>4. /\ g.kind = tabs[op].calls[i].kind /\ g.arg = tabs[op].calls[i].arg
      /\ g.live = tabs[op].calls[i].live /\ g.status = status /\ g.body = body
  BY <1>1 DEF Turned
<1>5. Turns(op, i, g)
  BY <1>3, <1>4 DEF Turns
<1> QED BY <1>5

LEMMA ServedTurns ==
  ASSUME PagesInv, NEW op \in Operators, NEW i \in Slots, Serve(op, i) \/ Lose(op, i)
  PROVE  \E g : Turns(op, i, g)
<1>1. PICK f : f = tabs[op].calls[i]
  OBVIOUS
<1>2. CASE ServeRead(op, i)
  <2>1. f # None /\ f.kind \in ReadOnly /\ Reply(op, i, "ok", Answer(f)) /\ book' = book
    BY <1>1, <1>2 DEF ServeRead, Calling, server
  <2>2. Tells(op, i, "ok", Answer(f))
    BY <1>1, <2>1 DEF Tells, ReadOnly, Answer
  <2> QED BY <1>1, <2>1, <2>2, ReplyTurns
<1>3. CASE ServeProduct(op, i)
  <2>1. f # None /\ f.kind = "product" /\ \E status, body : Reply(op, i, status, body)
    BY <1>1, <1>3 DEF ServeProduct, Calling
  <2>2. PICK status, body : Reply(op, i, status, body)
    BY <2>1
  <2>3. Tells(op, i, status, body)
    BY <1>1, <2>1 DEF Tells
  <2> QED BY <1>1, <2>1, <2>2, <2>3, ReplyTurns
<1>4. CASE ServeOrders(op, i)
  <2>1. f # None /\ f.kind = "orders" /\ \E status, body : Reply(op, i, status, body)
    BY <1>1, <1>4 DEF ServeOrders, Calling
  <2>2. PICK status, body : Reply(op, i, status, body)
    BY <2>1
  <2>3. Tells(op, i, status, body)
    BY <1>1, <1>4, <2>1 DEF Tells
  <2> QED BY <1>1, <2>1, <2>2, <2>3, ReplyTurns
<1>5. CASE ReadForAdvance(op, i)
  <2>1. PICK order : order = book[f.arg.order]
    OBVIOUS
  <2>2. f # None /\ f.kind = "advance" /\ f.at = "asked"
    BY <1>1, <1>5 DEF ReadForAdvance, Calling
  <2>3. CASE order.status = "placed" /\ CanFulfil(order.fulfilment, f.arg.to)
    <3>1. tabs' = SetBody(SetAt(tabs, op, i, "read"), op, i, order)
      BY <1>1, <1>5, <2>1, <2>3 DEF ReadForAdvance, SetBody, SetAt
    <3>2. TypeInv /\ f.status = None
      BY <1>1, <2>2, CallingIs DEF GoodCall
    <3>3. PICK g : g = Turned(f, "read", None, order)
      OBVIOUS
    <3>4. tabs' = [tabs EXCEPT ![op] = WithCall(tabs[op], i, g)]
      BY <1>1, <2>2, <3>1, <3>2, <3>3, ReadIs
    <3>5. g.kind = f.kind /\ g.arg = f.arg /\ g.live = f.live /\ g.status = None
      BY <3>3 DEF Turned
    <3>6. Turns(op, i, g)
      BY <1>1, <2>2, <3>4, <3>5, NoneIsNothing DEF Turns, Tells
    <3> QED BY <3>6
  <2>4. CASE ~ (order.status = "placed" /\ CanFulfil(order.fulfilment, f.arg.to))
    <3>1. Reply(op, i, "409", None)
      BY <1>1, <1>5, <2>1, <2>4 DEF ReadForAdvance
    <3>2. Tells(op, i, "409", None)
      BY DEF Tells
    <3> QED BY <1>1, <2>2, <3>1, <3>2, ReplyTurns
  <2> QED BY <2>3, <2>4
<1>6. CASE WriteAdvance(op, i)
  <2>1. PICK o : o = f.arg.order
    OBVIOUS
  <2>2. /\ f # None /\ f.kind = "advance" /\ o \in Known /\ book[o] \in Order /\ f.body \in Order
    BY <1>1, <1>6, <2>1, WriteIs
  <2>3. CASE book[o].status = "placed" /\ book[o].fulfilment = f.body.fulfilment
    <3>1. PICK order, body : /\ order = [book[o] EXCEPT !.fulfilment = f.arg.to]
                             /\ body = [f.body EXCEPT !.fulfilment = f.arg.to]
      OBVIOUS
    <3>2. book' = [book EXCEPT ![o] = order] /\ Reply(op, i, "ok", body)
      BY <1>1, <1>6, <2>1, <2>3, <3>1, WriteIs
    <3>3. book'[o] = order
      BY <2>2, <3>2, ShelfIs DEF PagesInv, Known
    <3>4. order.fulfilment = f.arg.to /\ body.fulfilment = f.arg.to
      BY <2>2, <3>1 DEF Order
    <3>5. Tells(op, i, "ok", body)
      BY <1>1, <1>6, <2>1, <2>2, <3>3, <3>4 DEF Tells
    <3> QED BY <1>1, <2>2, <3>2, <3>5, ReplyTurns
  <2>4. CASE ~ (book[o].status = "placed" /\ book[o].fulfilment = f.body.fulfilment)
    <3>1. Reply(op, i, "409", None)
      BY <1>1, <1>6, <2>1, <2>4, WriteIs
    <3>2. Tells(op, i, "409", None)
      BY DEF Tells
    <3> QED BY <1>1, <2>2, <3>1, <3>2, ReplyTurns
  <2> QED BY <2>3, <2>4
<1>7. CASE ServeSave(op, i)
  <2>1. f # None /\ f.kind = "save" /\ Reply(op, i, "ok", f.arg.product)
    BY <1>1, <1>7 DEF ServeSave, Calling
  <2>2. Tells(op, i, "ok", f.arg.product)
    BY <1>1, <1>7, <2>1 DEF Tells
  <2> QED BY <1>1, <2>1, <2>2, ReplyTurns
<1>8. CASE ServeCreate(op, i) \/ ServeRetire(op, i) \/ ServeUpload(op, i) \/ ServeLogin(op, i)
  <2>1. /\ f # None /\ f.kind \in {"create", "retire", "upload", "login"}
        /\ \E status, body : Reply(op, i, status, body)
    BY <1>1, <1>8 DEF ServeCreate, ServeRetire, ServeUpload, ServeLogin, Calling
  <2>2. PICK status, body : Reply(op, i, status, body)
    BY <2>1
  <2>3. Tells(op, i, status, body)
    BY <1>1, <2>1 DEF Tells
  <2> QED BY <1>1, <2>1, <2>2, <2>3, ReplyTurns
<1>9. CASE ServeRefusal(op, i) \/ Lose(op, i)
  <2>1. f # None /\ \E status \in {"401", "422", "net"} : Reply(op, i, status, None)
    BY <1>1, <1>9 DEF ServeRefusal, Refuse, Calling, Lose
  <2>2. PICK status \in {"401", "422", "net"} : Reply(op, i, status, None)
    BY <2>1
  <2>3. Tells(op, i, status, None)
    BY DEF Tells
  <2> QED BY <1>1, <2>1, <2>2, <2>3, ReplyTurns
<1> QED BY <1>2, <1>3, <1>4, <1>5, <1>6, <1>7, <1>8, <1>9 DEF Serve

LEMMA TurnsIs ==
  ASSUME PagesInv, NEW op \in Operators, NEW i \in Slots, NEW g, Turns(op, i, g)
  PROVE  /\ \A x \in Operators \ {op} : tabs'[x] = tabs[x]
         /\ SamePage(tabs[op], tabs'[op]) /\ tabs'[op].view = tabs[op].view
         /\ \A j \in Slots : tabs'[op].calls[j] = IF j = i THEN g ELSE tabs[op].calls[j]
<1>1. PICK c, d : c = tabs[op] /\ d = WithCall(c, i, g)
  OBVIOUS
<1>2. /\ SamePage(c, d) /\ d.view = c.view
      /\ \A j \in Slots : d.calls[j] = IF j = i THEN g ELSE c.calls[j]
  BY <1>1, PageOf, WithCallIs
<1>3. tabs' = [tabs EXCEPT ![op] = d] /\ tabs = [x \in Operators |-> tabs[x]]
  BY <1>1 DEF Turns, PagesInv, TypeInv
<1>4. tabs'[op] = d /\ \A x \in Operators \ {op} : tabs'[x] = tabs[x]
  BY <1>3
<1> QED BY <1>1, <1>2, <1>4

-----------------------------------------------------------------------------
(* A save.                                                                 *)

\* Neither a click nor the ending of another call answers a save.
LEMMA OnlySaveSaves ==
  ASSUME PagesInv, [Next]_vars, NEW op \in Operators, NEW i \in Slots, Calling(op, i, "save"),
         tabs'[op].calls[i] # None, tabs'[op].calls[i].status = "ok"
  PROVE  ServeSave(op, i)
<1>1. tabs[op].calls[i] # None /\ tabs[op].calls[i].kind = "save" /\ tabs[op].calls[i].at = "asked"
  BY DEF Calling
<1>2. tabs[op].calls[i].status # "ok"
  BY <1>1, CallingIs, NoneIsNothing DEF GoodCall
<1>3. tabs'[op] # tabs[op]
  BY <1>2
<1>4. tabs = [x \in Operators |-> tabs[x]]
  BY DEF PagesInv, TypeInv
<1>5. ASSUME NEW x \in Operators, NEW d, tabs' = [tabs EXCEPT ![x] = d], NoNews(tabs[x], d)
      PROVE  FALSE
  <2>1. x = op /\ tabs'[op] = d
    BY <1>3, <1>4, <1>5
  <2> QED BY <1>2, <1>5, <2>1, NoneIsNothing DEF NoNews
<1>6. ASSUME NEW x \in desk.crew, Clicks(x)
      PROVE  FALSE
  <2>1. x \in Operators
    BY <1>6, DesksAssumption DEF PagesInv, TypeInv
  <2>2. Clicked(x)
    BY <1>6, <2>1, ClicksCalm
  <2>3. PICK d : tabs' = [tabs EXCEPT ![x] = d] /\ Calm(tabs[x], d)
    BY <2>2 DEF Clicked
  <2> QED BY <1>5, <2>1, <2>3 DEF Calm
<1>7. ASSUME NEW x \in Operators, NEW j \in Slots, Hear(x, j)
      PROVE  FALSE
  <2>1. PICK d : d = Heard(tabs[x], j)
    OBVIOUS
  <2>2. Answered(tabs[x], j) /\ tabs' = [tabs EXCEPT ![x] = d]
    BY <1>7, <2>1 DEF Hear, Answered
  <2>3. NoNews(tabs[x], d)
    BY <2>1, <2>2, PageOf, CalmHeard
  <2> QED BY <1>5, <2>2, <2>3
<1>8. ASSUME NEW x \in Operators, NEW j \in Slots, Serve(x, j) \/ Lose(x, j)
      PROVE  ServeSave(op, i)
  <2>1. PICK g : Turns(x, j, g)
    BY <1>8, ServedTurns
  <2>2. x = op /\ j = i /\ tabs'[op].calls[i] = g
    BY <1>2, <1>3, <2>1, TurnsIs
  <2> QED BY <1>1, <2>1, <2>2 DEF Turns, Tells
<1>9. CASE UNCHANGED tabs
  BY <1>3, <1>9
<1> QED BY <1>6, <1>7, <1>8, <1>9 DEF Next, World, Tick, OrderComes, OrderSettles, StockMoves,
                                      SessionLapses, Meanwhile, vars

LEMMA SaveKeepsStock ==
  ASSUME PagesInv, NEW op \in Operators, NEW i \in Slots, ServeSave(op, i),
         tabs[op].calls[i].live, put[op].stock = None, ~ put[op].moved
  PROVE  shelf'[tabs[op].calls[i].arg.id].stock = shelf[tabs[op].calls[i].arg.id].stock
<1>1. PICK c, f : c = tabs[op] /\ f = c.calls[i]
  OBVIOUS
<1>2. PICK p, sent : p = f.arg.id /\ sent = f.arg.product
  OBVIOUS
<1>3. f # None /\ f.kind = "save" /\ shelf' = [shelf EXCEPT ![p] = sent]
  BY <1>1, <1>2 DEF ServeSave, Calling, Update
<1>4. f.arg \in [id : Stocked, product : Form] /\ TypeInv
  BY <1>1, <1>3, CallingIs DEF Args
<1>5. p \in Stocked /\ shelf'[p] = sent
  BY <1>2, <1>3, <1>4, ShelfIs DEF Stocked
<1>6. GoodTab(c, Known, Stocked) /\ OneAtATime(c, seen) /\ FormInv(c, put[op], shelf[c.subject])
  BY <1>1, PageOf
<1>7. c.route = "product" /\ p = c.subject /\ i \in LiveCalls(c, {"save", "create"})
  BY <1>1, <1>2, <1>3, <1>6 DEF GoodTab, OfThePage, LiveCalls, Live
<1>8. c.view.draft # None
  BY <1>6, <1>7 DEF OneAtATime
<1>9. c.view.draft.stock = shelf[p].stock
  BY <1>6, <1>7, <1>8 DEF FormInv
<1>10. sent.stock = c.view.draft.stock
  BY <1>1, <1>2, <1>6, <1>7 DEF FormInv
<1> QED BY <1>1, <1>2, <1>5, <1>9, <1>10

(* A save by an operator who left the stock alone writes the stock the shop  *)
(* has, unless units moved since the form was filled: what                   *)
(* app/products/[productId]/page.tsx sends is its whole draft, and the draft *)
(* is the product as it was last read or saved.                              *)
THEOREM SavesKeepTheStock == Spec => UntouchedStockIsKept
<1>1. PagesInv /\ [Next]_vars =>
        [\A op \in Operators, i \in Slots :
           LET f == tabs[op].calls[i]
               saved == /\ Calling(op, i, "save") /\ f.live
                        /\ tabs'[op].calls[i] # None /\ tabs'[op].calls[i].status = "ok"
           IN (saved /\ put[op].stock = None /\ ~ put[op].moved)
              => shelf'[f.arg.id].stock = shelf[f.arg.id].stock]_vars
  BY OnlySaveSaves, SaveKeepsStock
<1> QED BY <1>1, PagesStayGood, PTL DEF Spec, UntouchedStockIsKept

-----------------------------------------------------------------------------
(* What a step of the system does to the page of an operator.              *)

\* It shows what it showed, or an answer about its order, or a call is turned to.
Moves(op) ==
  LET c == tabs[op]
      d == tabs'[op]
  IN \/ Still(c, d)
     \/ \E i \in Slots : Answered(c, i) /\ Brings(c, i) /\ d = Heard(c, i)
     \/ \E i \in Slots : \E g : Turns(op, i, g)

LEMMA TabMoves ==
  ASSUME PagesInv, [Next]_vars, NEW op \in Operators
  PROVE  Moves(op)
<1>1. tabs = [x \in Operators |-> tabs[x]]
  BY DEF PagesInv, TypeInv
<1>2. CASE tabs'[op] = tabs[op]
  <2>1. PICK c : c = tabs[op]
    OBVIOUS
  <2>2. Still(c, c)
    BY DEF Still, Stays
  <2> QED BY <1>2, <2>1, <2>2 DEF Moves
<1>3. ASSUME NEW x \in desk.crew, Clicks(x)
      PROVE  Moves(op)
  <2>1. x \in Operators
    BY <1>3, DesksAssumption DEF PagesInv, TypeInv
  <2>2. Clicked(x)
    BY <1>3, <2>1, ClicksCalm
  <2>3. PICK d : tabs' = [tabs EXCEPT ![x] = d] /\ Calm(tabs[x], d)
    BY <2>2 DEF Clicked
  <2>4. CASE x = op
    BY <1>1, <2>3, <2>4 DEF Moves, Calm
  <2>5. CASE x # op
    <3>1. tabs'[op] = tabs[op]
      BY <1>1, <2>3, <2>5
    <3> QED BY <1>2, <3>1
  <2> QED BY <2>4, <2>5
<1>4. ASSUME NEW x \in Operators, NEW j \in Slots, Hear(x, j)
      PROVE  Moves(op)
  <2>1. PICK c, d : c = tabs[x] /\ d = Heard(c, j)
    OBVIOUS
  <2>2. Answered(c, j) /\ tabs' = [tabs EXCEPT ![x] = d]
    BY <1>4, <2>1 DEF Hear, Answered
  <2>3. Brings(c, j) \/ Still(c, d)
    BY <2>1, <2>2, PageOf, CalmHeard
  <2>4. CASE x = op
    <3>1. tabs'[op] = d
      BY <1>1, <2>2, <2>4
    <3> QED BY <2>1, <2>2, <2>3, <2>4, <3>1 DEF Moves
  <2>5. CASE x # op
    <3>1. tabs'[op] = tabs[op]
      BY <1>1, <2>2, <2>5
    <3> QED BY <1>2, <3>1
  <2> QED BY <2>4, <2>5
<1>5. ASSUME NEW x \in Operators, NEW j \in Slots, Serve(x, j) \/ Lose(x, j)
      PROVE  Moves(op)
  <2>1. PICK g : Turns(x, j, g)
    BY <1>5, ServedTurns
  <2>2. CASE x = op
    BY <2>1, <2>2 DEF Moves
  <2>3. CASE x # op
    <3>1. tabs'[op] = tabs[op]
      BY <2>1, <2>3, TurnsIs
    <3> QED BY <1>2, <3>1
  <2> QED BY <2>2, <2>3
<1>6. CASE UNCHANGED tabs
  BY <1>2, <1>6
<1> QED BY <1>3, <1>4, <1>5, <1>6 DEF Next, World, Tick, OrderComes, OrderSettles, StockMoves,
                                      SessionLapses, Meanwhile, vars

LEMMA SeenGrows ==
  ASSUME [Next]_vars
  PROVE  seen \subseteq seen'
<1>1. ASSUME NEW op, Clicks(op)
      PROVE  seen \subseteq seen'
  BY <1>1 DEF Clicks, ClickLogin, Follow, Choose, ApplyFilters, GoNext, GoPrev, Advance, PrintLabel,
              TryAgain, EditForm, Edit, PickImage, SaveForm, RetireProduct, Start, Click, history
<1>2. ASSUME World
      PROVE  seen' = seen
  BY <1>2 DEF World, Tick, OrderComes, OrderSettles, StockMoves, SessionLapses, history
<1>3. ASSUME NEW op, NEW i, Serve(op, i) \/ Lose(op, i) \/ Hear(op, i)
      PROVE  seen' = seen
  BY <1>3 DEF Serve, ServeRead, ServeProduct, ServeOrders, ReadForAdvance, WriteAdvance, ServeSave,
              ServeCreate, ServeRetire, ServeUpload, ServeLogin, ServeRefusal, Lose, Hear, history
<1> QED BY <1>1, <1>2, <1>3 DEF Next, vars, history

\* The fulfilment of an order only goes on.
LEMMA BookGrows ==
  ASSUME PagesInv, [Next]_vars, NEW o \in Known
  PROVE  book'[o] \in Order /\ RankOf(book[o]) <= RankOf(book'[o])
<1>1. book \in [OrderIds -> Order \cup {None}] /\ o \in OrderIds /\ book[o] \in Order /\ None \notin Order
  BY ShelfIs DEF PagesInv, TypeInv, Known
<1>2. \A order \in Order : RankOf(order) \in 0..3
  BY RankIs DEF RankOf, Order
<1>3. CASE book'[o] = book[o]
  BY <1>1, <1>2, <1>3
<1>4. CASE UNCHANGED <<book, done>>
  BY <1>3, <1>4
<1>5. ASSUME NEW op \in Operators, NEW i \in Slots, WriteAdvance(op, i)
      PROVE  book'[o] \in Order /\ RankOf(book[o]) <= RankOf(book'[o])
  <2>1. PICK f, x : f = tabs[op].calls[i] /\ x = f.arg.order
    OBVIOUS
  <2>2. /\ x \in Known /\ f.arg.to \in Range(Steps) /\ f.body \in Order /\ book[x] \in Order
        /\ CanFulfil(f.body.fulfilment, f.arg.to)
    BY <1>5, <2>1, WriteIs
  <2>3. CASE book[x].status = "placed" /\ book[x].fulfilment = f.body.fulfilment
    <3>1. PICK order : order = [book[x] EXCEPT !.fulfilment = f.arg.to]
      OBVIOUS
    <3>2. book' = [book EXCEPT ![x] = order]
      BY <1>5, <2>1, <2>3, <3>1, WriteIs
    <3>3. order \in Order /\ order.fulfilment = f.arg.to
      BY <2>2, <3>1 DEF Order, Fulfilment
    <3>4. RankOf(order) = RankOf(book[x]) + 1
      BY <2>2, <2>3, <3>3 DEF RankOf, CanFulfil
    <3>5. RankOf(book[x]) <= RankOf(order)
      BY <1>2, <2>2, <3>4
    <3>6. CASE o = x
      BY <1>1, <3>2, <3>3, <3>5, <3>6
    <3>7. CASE o # x
      BY <1>1, <1>3, <3>2, <3>7
    <3> QED BY <3>6, <3>7
  <2>4. CASE ~ (book[x].status = "placed" /\ book[x].fulfilment = f.body.fulfilment)
    BY <1>3, <1>5, <2>1, <2>4, WriteIs
  <2> QED BY <2>3, <2>4
<1>6. ASSUME NEW x \in OrderIds, OrderComes(x)
      PROVE  book'[o] = book[o]
  BY <1>1, <1>6 DEF OrderComes, Known
<1>7. ASSUME NEW x \in OrderIds, OrderSettles(x)
      PROVE  book'[o] \in Order /\ RankOf(book[o]) <= RankOf(book'[o])
  <2>1. PICK s \in {"placed", "expired"} : book' = [book EXCEPT ![x].status = s]
    BY <1>7 DEF OrderSettles
  <2>2. PICK order : order = [book[x] EXCEPT !.status = s]
    OBVIOUS
  <2>3. book' = [book EXCEPT ![x] = order]
    BY <2>1, <2>2
  <2>4. CASE o = x
    <3>1. book'[o] = order
      BY <1>1, <2>3, <2>4
    <3>2. order \in Order /\ order.fulfilment = book[o].fulfilment
      BY <1>1, <2>2, <2>4 DEF Order, Status
    <3>3. RankOf(book[o]) = RankOf(order)
      BY <3>2 DEF RankOf
    <3> QED BY <1>1, <1>2, <3>1, <3>2, <3>3
  <2>5. CASE o # x
    BY <1>1, <1>3, <2>3, <2>5
  <2> QED BY <2>4, <2>5
<1> QED BY <1>3, <1>4, <1>5, <1>6, <1>7, BookIs

-----------------------------------------------------------------------------
(* The badge of an order.                                                  *)

LEMMA OrderRank ==
  /\ None \notin Order /\ None # "ok"
  /\ \A order \in Order : RankOf(order) \in 0..3
  /\ \A to \in Range(Steps) : Rank(to) \in 0..3
BY RankIs, NoneIsNothing DEF RankOf, Order

\* The orders and the steps a page has to do with.
LEMMA PageRanks ==
  ASSUME NEW K, NEW P, NEW c, GoodTab(c, K, P)
  PROVE  /\ c.view.shown # None => c.view.shown \in Order
         /\ \A i \in LiveCalls(c, {"order", "advance"}) : c.calls[i].status = "ok" =>
              Answered(c, i) /\ c.calls[i].body \in Order
         /\ \A i \in LiveCalls(c, {"order"}) : c.route = "order" /\ c.calls[i].arg = c.subject
         /\ \A i \in LiveCalls(c, {"advance"}) :
              /\ c.calls[i].arg.to \in Range(Steps)
              /\ c.route = "order" /\ c.calls[i].arg.order = c.subject
<1>1. c.view.shown # None => c.view.shown \in Order
  BY DEF GoodTab, Views
<1>2. ASSUME NEW i \in LiveCalls(c, {"order", "advance"})
      PROVE  /\ i \in Slots /\ c.calls[i] # None /\ GoodCall(c.calls[i], K, P)
             /\ OfThePage(c, c.calls[i]) /\ c.calls[i].live /\ c.calls[i].kind \in {"order", "advance"}
  BY <1>2 DEF LiveCalls, Live, GoodTab
<1>3. ASSUME NEW i \in LiveCalls(c, {"order", "advance"}), c.calls[i].status = "ok"
      PROVE  Answered(c, i) /\ c.calls[i].body \in Order
  <2>1. c.calls[i].at = "answered"
    BY <1>2, <1>3, NoneIsNothing DEF GoodCall
  <2>2. c.calls[i].body \in Bodies(c.calls[i].kind, K, P)
    BY <1>2, <1>3, <2>1 DEF GoodCall
  <2> QED BY <1>2, <2>1, <2>2 DEF Answered, Bodies
<1>4. \A i \in LiveCalls(c, {"order"}) : c.route = "order" /\ c.calls[i].arg = c.subject
  <2>1. LiveCalls(c, {"order"}) \subseteq LiveCalls(c, {"order", "advance"})
    BY DEF LiveCalls
  <2> QED BY <1>2, <2>1 DEF OfThePage, LiveCalls
<1>5. ASSUME NEW i \in LiveCalls(c, {"advance"})
      PROVE  /\ c.calls[i].arg.to \in Range(Steps)
             /\ c.route = "order" /\ c.calls[i].arg.order = c.subject
  <2>1. i \in LiveCalls(c, {"order", "advance"}) /\ c.calls[i].kind = "advance"
    BY <1>5 DEF LiveCalls
  <2>2. c.calls[i].arg \in [order : K, to : Range(Steps)]
    BY <1>2, <2>1 DEF GoodCall, Args
  <2> QED BY <1>2, <2>1, <2>2 DEF OfThePage
<1> QED BY <1>1, <1>3, <1>4, <1>5

\* An order that has gone on is still ahead of its pages.
LEMMA BadgeGrows ==
  ASSUME NEW K, NEW P, NEW c, GoodTab(c, K, P), NEW order \in Order, BadgeInv(c, order),
         NEW later \in Order, RankOf(order) <= RankOf(later)
  PROVE  BadgeInv(c, later)
<1>1. \A x \in 0..3 : x <= RankOf(order) => x <= RankOf(later)
  BY OrderRank
<1>2. c.view.shown # None => RankOf(c.view.shown) <= RankOf(later)
  BY <1>1, PageRanks, OrderRank DEF BadgeInv
<1>3. ASSUME NEW i \in LiveCalls(c, {"order"}), c.calls[i].status = "ok"
      PROVE  RankOf(c.calls[i].body) <= RankOf(later)
  <2>1. i \in LiveCalls(c, {"order", "advance"})
    BY <1>3 DEF LiveCalls
  <2>2. RankOf(c.calls[i].body) \in 0..3
    BY <1>3, <2>1, PageRanks, OrderRank
  <2> QED BY <1>1, <1>3, <2>2 DEF BadgeInv
<1>4. ASSUME NEW i \in LiveCalls(c, {"advance"}), c.calls[i].status = "ok"
      PROVE  Rank(c.calls[i].arg.to) <= RankOf(later)
  <2>1. Rank(c.calls[i].arg.to) \in 0..3
    BY PageRanks, OrderRank
  <2> QED BY <1>1, <1>4, <2>1 DEF BadgeInv
<1> QED BY <1>2, <1>3, <1>4 DEF BadgeInv

\* A page that shows what it showed.
LEMMA BadgeStill ==
  ASSUME NEW c, NEW d, Still(c, d), d.route = "order", NEW b,
         c.route = "order" => BadgeInv(c, b[c.subject])
  PROVE  BadgeInv(d, b[d.subject])
<1>1. CASE Stays(c, d)
  <2>1. /\ c.route = "order" /\ d.subject = c.subject /\ d.view.shown = c.view.shown
        /\ BadgeInv(c, b[c.subject])
    BY <1>1 DEF Stays
  <2>2. \A j \in LiveCalls(d, {"order"}) : d.calls[j].status = "ok" =>
          j \in LiveCalls(c, {"order"}) /\ d.calls[j] = c.calls[j]
    BY <1>1, NoneIsNothing DEF Stays, LiveCalls
  <2>3. \A j \in LiveCalls(d, {"advance"}) :
          \/ j \in LiveCalls(c, {"advance"}) /\ d.calls[j] = c.calls[j]
          \/ /\ d.calls[j].status # "ok" /\ c.view.shown # None
             /\ CanFulfil(c.view.shown.fulfilment, d.calls[j].arg.to)
    BY <1>1, NoneIsNothing DEF Stays, LiveCalls, RightStep
  <2> QED BY <2>1, <2>2, <2>3 DEF BadgeInv
<1>2. CASE Fresh(d) /\ (d.route = "order" /\ d.view.shown # None => SameOrder(c, d))
  <2>1. /\ LiveCalls(d, {"advance"}) = {}
        /\ \A j \in LiveCalls(d, {"order"}) : d.calls[j].status # "ok"
    BY <1>2, NoneIsNothing DEF Fresh, LiveCalls
  <2>2. d.view.shown # None => RankOf(d.view.shown) <= RankOf(b[d.subject])
    BY <1>2 DEF SameOrder, BadgeInv
  <2> QED BY <2>1, <2>2 DEF BadgeInv
<1> QED BY <1>1, <1>2 DEF Still

\* An answer about the order takes its place on the page.
LEMMA BringsIs ==
  ASSUME NEW K, NEW P, NEW c, GoodTab(c, K, P), NEW i, Answered(c, i), Brings(c, i)
  PROVE  LET d == Heard(c, i)
         IN /\ SamePage(c, d) /\ d.view.shown = c.calls[i].body
            /\ \A j \in Slots : d.calls[j] = IF j = i THEN None ELSE c.calls[j]
<1>1. /\ i \in Slots /\ Shape(c) /\ c.view \in Views(K) /\ c.calls[i].live /\ ~ Failed(c, i)
      /\ c.calls[i].status = "ok" /\ c.calls[i].kind \in {"order", "advance"}
  BY DEF Answered, GoodTab, Brings, Live, Failed
<1>2. PICK r : r = IF c.calls[i].kind = "order" THEN c.view ELSE Rested(c, "advance")
  OBVIOUS
<1>3. r \in Views(K)
  BY <1>1, <1>2, RestedView
<1>4. PICK w : w = IF c.calls[i].kind = "order"
                     THEN [r EXCEPT !.loading = FALSE, !.shown = c.calls[i].body]
                     ELSE [r EXCEPT !.shown = c.calls[i].body]
  OBVIOUS
<1>5. w.shown = c.calls[i].body
  BY <1>3, <1>4 DEF Views
<1>6. PICK d : d = Show(c, i, w)
  OBVIOUS
<1>7. Heard(c, i) = d
  <2>1. CASE c.calls[i].kind = "order"
    BY <1>1, <1>2, <1>4, <1>6, <2>1 DEF Heard, OrderHeard
  <2>2. CASE c.calls[i].kind = "advance"
    BY <1>1, <1>2, <1>4, <1>6, <2>2 DEF Heard, AdvanceHeard
  <2> QED BY <1>1, <2>1, <2>2
<1>8. /\ SamePage(c, d) /\ d.view = w
      /\ \A j \in Slots : d.calls[j] = IF j = i THEN None ELSE c.calls[j]
  BY <1>1, <1>6, ShowIs
<1> QED BY <1>5, <1>7, <1>8

LEMMA BadgeBrings ==
  ASSUME NEW K, NEW P, NEW c, GoodTab(c, K, P), NEW s, OneAtATime(c, s), "overlap" \notin s,
         NEW i, Answered(c, i), Brings(c, i), NEW order \in Order, BadgeInv(c, order)
  PROVE  /\ BadgeInv(Heard(c, i), order)
         /\ c.view.shown # None => RankOf(c.view.shown) <= RankOf(Heard(c, i).view.shown)
<1>1. PICK d : d = Heard(c, i)
  OBVIOUS
<1>2. /\ d.view.shown = c.calls[i].body
      /\ \A j \in Slots : d.calls[j] = IF j = i THEN None ELSE c.calls[j]
  BY <1>1, BringsIs
<1>3. i \in LiveCalls(c, {"order", "advance"}) /\ c.calls[i].status = "ok"
  BY DEF Brings, LiveCalls, Answered
<1>4. c.calls[i].body \in Order
  BY <1>3, PageRanks
<1>5. \A j \in LiveCalls(c, {"order", "advance"}) : j = i
  BY <1>3 DEF OneAtATime, Single
<1>6. LiveCalls(d, {"order"}) = {} /\ LiveCalls(d, {"advance"}) = {}
  BY <1>2, <1>5 DEF LiveCalls, Live
<1>7. /\ RankOf(d.view.shown) <= RankOf(order)
      /\ c.view.shown # None => RankOf(c.view.shown) <= RankOf(d.view.shown)
  <2>1. CASE c.calls[i].kind = "order"
    <3>1. i \in LiveCalls(c, {"order"})
      BY <1>3, <2>1 DEF LiveCalls
    <3> QED BY <1>2, <1>3, <3>1 DEF BadgeInv
  <2>2. CASE c.calls[i].kind = "advance"
    <3>1. i \in LiveCalls(c, {"advance"})
      BY <1>3, <2>2 DEF LiveCalls
    <3>2. /\ c.view.shown # None /\ CanFulfil(c.view.shown.fulfilment, c.calls[i].arg.to)
          /\ c.calls[i].body.fulfilment = c.calls[i].arg.to
          /\ Rank(c.calls[i].arg.to) <= RankOf(order)
      BY <1>3, <3>1 DEF BadgeInv
    <3>3. RankOf(d.view.shown) = Rank(c.calls[i].arg.to)
      BY <1>2, <3>2 DEF RankOf
    <3>4. RankOf(d.view.shown) = RankOf(c.view.shown) + 1
      BY <3>2, <3>3 DEF CanFulfil, RankOf
    <3>5. RankOf(c.view.shown) \in 0..3
      BY <3>2, PageRanks, OrderRank
    <3> QED BY <3>2, <3>3, <3>4, <3>5
  <2> QED BY <1>3, <2>1, <2>2 DEF LiveCalls
<1>8. BadgeInv(d, order)
  BY <1>6, <1>7 DEF BadgeInv
<1> QED BY <1>1, <1>7, <1>8

\* The server turns to a call of the page.
LEMMA BadgeTurns ==
  ASSUME PagesInv, NEW op \in Operators, NEW i \in Slots, NEW g, Turns(op, i, g),
         tabs[op].route = "order", BadgeInv(tabs[op], book[tabs[op].subject]),
         BadgeInv(tabs[op], book'[tabs[op].subject])
  PROVE  BadgeInv(tabs'[op], book'[tabs[op].subject])
<1>1. PICK c, d, order : c = tabs[op] /\ d = tabs'[op] /\ order = book'[c.subject]
  OBVIOUS
<1>2. /\ GoodTab(c, Known, Stocked) /\ d.view = c.view
      /\ \A j \in Slots : d.calls[j] = IF j = i THEN g ELSE c.calls[j]
  BY <1>1, PageOf, TurnsIs
<1>3. /\ c.calls[i] # None /\ g.kind = c.calls[i].kind /\ g.arg = c.calls[i].arg
      /\ g.live = c.calls[i].live /\ Tells(op, i, g.status, g.body)
  BY <1>1 DEF Turns
<1>4. \A kinds : LiveCalls(d, kinds) \subseteq LiveCalls(c, kinds)
  BY <1>2, <1>3 DEF LiveCalls, Live
<1>5. BadgeInv(c, order)
  BY <1>1
<1>6. ASSUME NEW j \in LiveCalls(d, {"order"}), d.calls[j].status = "ok"
      PROVE  /\ RankOf(d.calls[j].body) <= RankOf(order)
             /\ c.view.shown # None => RankOf(c.view.shown) <= RankOf(d.calls[j].body)
  <2>1. j \in LiveCalls(c, {"order"}) /\ j \in Slots
    BY <1>4, <1>6 DEF LiveCalls
  <2>2. CASE j = i
    <3>1. g.status = "ok" /\ c.calls[i].kind = "order" /\ d.calls[j] = g
      BY <1>2, <1>6, <2>1, <2>2 DEF LiveCalls
    <3>2. c.calls[i].arg = c.subject
      BY <1>2, <2>1, <2>2, PageRanks
    <3>3. g.body = order /\ order = book[c.subject]
      BY <1>1, <1>3, <3>1, <3>2 DEF Tells
    <3>4. order \in Order
      <4>1. c.subject \in Known
        BY <1>1, <1>2 DEF GoodTab
      <4> QED BY <3>3, <4>1 DEF PagesInv, TypeInv, Known
    <3>5. RankOf(order) \in 0..3
      BY <3>4, OrderRank
    <3> QED BY <1>5, <3>1, <3>3, <3>5 DEF BadgeInv
  <2>3. CASE j # i
    <3>1. d.calls[j] = c.calls[j]
      BY <1>2, <2>1, <2>3
    <3> QED BY <1>5, <1>6, <2>1, <3>1 DEF BadgeInv
  <2> QED BY <2>2, <2>3
<1>7. ASSUME NEW j \in LiveCalls(d, {"advance"})
      PROVE  /\ c.view.shown # None /\ CanFulfil(c.view.shown.fulfilment, d.calls[j].arg.to)
             /\ d.calls[j].status = "ok" =>
                  /\ d.calls[j].body.fulfilment = d.calls[j].arg.to
                  /\ Rank(d.calls[j].arg.to) <= RankOf(order)
  <2>1. j \in LiveCalls(c, {"advance"}) /\ j \in Slots
    BY <1>4, <1>7 DEF LiveCalls
  <2>2. CASE j = i
    <3>1. d.calls[j] = g /\ c.calls[i].kind = "advance"
      BY <1>2, <2>1, <2>2 DEF LiveCalls
    <3>2. c.calls[i].arg.order = c.subject /\ Rank(g.arg.to) \in 0..3
      BY <1>2, <1>3, <2>1, <2>2, PageRanks, OrderRank
    <3>3. c.view.shown # None /\ CanFulfil(c.view.shown.fulfilment, g.arg.to)
      BY <1>3, <1>5, <2>1, <2>2 DEF BadgeInv
    <3>4. g.status = "ok" => g.body.fulfilment = g.arg.to /\ order.fulfilment = g.arg.to
      BY <1>1, <1>3, <3>1, <3>2 DEF Tells
    <3>5. g.status = "ok" => Rank(g.arg.to) <= RankOf(order)
      BY <3>2, <3>4 DEF RankOf
    <3> QED BY <3>1, <3>3, <3>4, <3>5
  <2>3. CASE j # i
    <3>1. d.calls[j] = c.calls[j]
      BY <1>2, <2>1, <2>3
    <3> QED BY <1>5, <2>1, <3>1 DEF BadgeInv
  <2> QED BY <2>2, <2>3
<1>8. BadgeInv(d, order)
  BY <1>2, <1>5, <1>6, <1>7 DEF BadgeInv
<1> QED BY <1>1, <1>8

LEMMA BadgesInit ==
  ASSUME Init
  PROVE  BadgesInv
<1>1. ASSUME NEW op \in Operators
      PROVE  BadgeInv(tabs[op], book[tabs[op].subject])
  <2>1. PICK token : token = (op \in desk.crew)
    OBVIOUS
  <2>2. PICK c : c = Empty(token)
    OBVIOUS
  <2>3. PICK d : d = Mount(c, desk.route, desk.subject)
    OBVIOUS
  <2>4. tabs[op] = d
    BY <2>1, <2>2, <2>3 DEF Init, Empty
  <2>5. PICK K, P : K = Known /\ P = Stocked
    OBVIOUS
  <2>8. token \in BOOLEAN
    BY <2>1
  <2>9. GoodTab(c, K, P)
    BY <2>2, <2>8, EmptyTab
  <2>6. Fresh(d) /\ d.view.shown = None
    BY <2>3, <2>9, FreshMount, OpenedIs
  <2>7. /\ LiveCalls(d, {"advance"}) = {}
        /\ \A j \in LiveCalls(d, {"order"}) : d.calls[j].status # "ok"
    BY <2>6, NoneIsNothing DEF Fresh, LiveCalls
  <2> QED BY <2>4, <2>6, <2>7 DEF BadgeInv
<1> QED BY <1>1 DEF BadgesInv

LEMMA BadgesStep ==
  ASSUME PagesInv, BadgesInv, [Next]_vars, PagesInv'
  PROVE  BadgesInv'
<1> SUFFICES ASSUME NEW op \in Operators, tabs'[op].route = "order", "overlap" \notin seen'
             PROVE  BadgeInv(tabs'[op], book'[tabs'[op].subject])
  BY DEF BadgesInv
<1>1. PICK c, d, b : c = tabs[op] /\ d = tabs'[op] /\ b = book'
  OBVIOUS
<1>2. "overlap" \notin seen
  BY SeenGrows
<1>3. GoodTab(c, Known, Stocked) /\ OneAtATime(c, seen)
  BY <1>1, PageOf
<1>4. c.route = "order" =>
        /\ c.subject \in Known /\ book[c.subject] \in Order /\ BadgeInv(c, book[c.subject])
        /\ b[c.subject] \in Order /\ BadgeInv(c, b[c.subject])
  <2>1. c.route = "order" => c.subject \in Known /\ BadgeInv(c, book[c.subject])
    BY <1>1, <1>2, <1>3 DEF GoodTab, BadgesInv
  <2>2. c.route = "order" => book[c.subject] \in Order
    BY <2>1 DEF PagesInv, TypeInv, Known
  <2>3. c.route = "order" => b[c.subject] \in Order /\ RankOf(book[c.subject]) <= RankOf(b[c.subject])
    BY <1>1, <2>1, BookGrows
  <2>4. c.route = "order" => BadgeInv(c, b[c.subject])
    BY <1>3, <2>1, <2>2, <2>3, BadgeGrows
  <2> QED BY <2>1, <2>2, <2>3, <2>4
<1>5. CASE Still(c, d)
  BY <1>1, <1>4, <1>5, BadgeStill
<1>6. ASSUME NEW i \in Slots, Answered(c, i), Brings(c, i), d = Heard(c, i)
      PROVE  BadgeInv(d, b[d.subject])
  <2>1. d.route = c.route /\ d.subject = c.subject
    BY <1>3, <1>6, BringsIs DEF SamePage
  <2> QED BY <1>1, <1>2, <1>3, <1>4, <1>6, <2>1, BadgeBrings
<1>7. ASSUME NEW i \in Slots, NEW g, Turns(op, i, g)
      PROVE  BadgeInv(d, b[d.subject])
  <2>1. d.route = c.route /\ d.subject = c.subject
    BY <1>1, <1>7, TurnsIs DEF SamePage
  <2> QED BY <1>1, <1>4, <1>7, <2>1, BadgeTurns
<1> QED BY <1>1, <1>5, <1>6, <1>7, TabMoves DEF Moves

\* What an operator sees of it.
LEMMA BadgeStep ==
  ASSUME PagesInv, BadgesInv, [Next]_vars, NEW op \in Operators, "overlap" \notin seen,
         tabs[op].route = "order", tabs'[op].route = "order", tabs'[op].subject = tabs[op].subject,
         tabs[op].view.shown # None, tabs'[op].view.shown # None
  PROVE  Rank(tabs'[op].view.shown.fulfilment) >= Rank(tabs[op].view.shown.fulfilment)
<1>1. PICK c, d : c = tabs[op] /\ d = tabs'[op]
  OBVIOUS
<1>2. GoodTab(c, Known, Stocked) /\ OneAtATime(c, seen)
  BY <1>1, PageOf
<1>3. c.view.shown \in Order /\ RankOf(c.view.shown) \in 0..3
  BY <1>1, <1>2, PageRanks, OrderRank
<1>4. ASSUME d.view.shown = c.view.shown
      PROVE  RankOf(d.view.shown) >= RankOf(c.view.shown)
  BY <1>3, <1>4
<1>5. ASSUME Still(c, d)
      PROVE  RankOf(d.view.shown) >= RankOf(c.view.shown)
  <2>1. d.route = "order" /\ d.view.shown # None
    BY <1>1
  <2>2. CASE Stays(c, d)
    <3>1. d.view.shown = c.view.shown
      BY <2>2 DEF Stays
    <3> QED BY <1>4, <3>1
  <2>3. CASE SameOrder(c, d)
    <3>1. d.view.shown = c.view.shown
      BY <2>3 DEF SameOrder
    <3> QED BY <1>4, <3>1
  <2> QED BY <1>5, <2>1, <2>2, <2>3 DEF Still
<1>6. ASSUME NEW i \in Slots, Answered(c, i), Brings(c, i), d = Heard(c, i)
      PROVE  RankOf(d.view.shown) >= RankOf(c.view.shown)
  <2>1. PICK order : order = book[c.subject]
    OBVIOUS
  <2>2. order \in Order /\ BadgeInv(c, order)
    <3>1. c.subject \in Known
      BY <1>1, <1>2 DEF GoodTab
    <3> QED BY <1>1, <2>1, <3>1 DEF PagesInv, TypeInv, Known, BadgesInv
  <2>3. RankOf(c.view.shown) <= RankOf(d.view.shown)
    BY <1>1, <1>2, <1>6, <2>2, BadgeBrings
  <2>4. i \in LiveCalls(c, {"order", "advance"}) /\ c.calls[i].status = "ok"
    BY <1>6 DEF Brings, LiveCalls
  <2>5. RankOf(d.view.shown) \in 0..3
    BY <1>2, <1>6, <2>4, BringsIs, PageRanks, OrderRank
  <2> QED BY <1>3, <2>3, <2>5
<1>7. ASSUME NEW i \in Slots, NEW g, Turns(op, i, g)
      PROVE  RankOf(d.view.shown) >= RankOf(c.view.shown)
  BY <1>1, <1>4, <1>7, TurnsIs
<1>8. Moves(op)
  BY TabMoves
<1> QED BY <1>1, <1>5, <1>6, <1>7, <1>8 DEF Moves, RankOf

(* The badge of an open order never goes back: the button rests while a step *)
(* is under way, the order is hidden while it is loaded, and a refused step  *)
(* is followed by a reload (app/orders/[orderId]/page.tsx), so one answer is *)
(* awaited at a time and none is older than the page, as long as "Try again" *)
(* is not pressed while a step is under way.                                 *)
THEOREM BadgesGoForward == Spec => BadgeNeverGoesBack
<1>1. Init => BadgesInv
  BY BadgesInit
<1>2. PagesInv /\ PagesInv' /\ BadgesInv /\ [Next]_vars => BadgesInv'
  BY BadgesStep
<1>3. PagesInv /\ BadgesInv /\ [Next]_vars =>
        [\A op \in Operators :
           LET shown == tabs[op].view.shown
               shown2 == tabs'[op].view.shown
           IN (/\ "overlap" \notin seen
               /\ tabs[op].route = "order" /\ tabs'[op].route = "order"
               /\ tabs'[op].subject = tabs[op].subject
               /\ shown # None /\ shown2 # None)
              => Rank(shown2.fulfilment) >= Rank(shown.fulfilment)]_vars
  BY BadgeStep
<1> QED BY <1>1, <1>2, <1>3, PagesStayGood, PTL DEF Spec, BadgeNeverGoesBack

-----------------------------------------------------------------------------
(* A page of the order book.                                               *)

\* A page leaves out no order of its own millisecond that is not older than its cursor.
LEMMA ListCovers ==
  ASSUME book \in [OrderIds -> Order \cup {None}], IsFiniteSet(Known), NEW filter, NEW before,
         NEW rows \in ListAll(book, filter, before), NEW o \in Candidates(book, filter, before),
         Lone(book, o),
         NextBefore(book, rows) = None \/ book[o].created >= NextBefore(book, rows)
  PROVE  o \in rows
<1>1. PICK all : all = Candidates(book, filter, before)
  OBVIOUS
<1>2. PICK size : size = IF Cardinality(all) < PageSize THEN Cardinality(all) ELSE PageSize
  OBVIOUS
<1>3. /\ rows \subseteq all /\ Cardinality(rows) = size
      /\ \A r \in rows, x \in all \ rows : book[r].created >= book[x].created
  BY <1>1, <1>2 DEF ListAll
<1>4. all \subseteq Known /\ o \in all
  BY <1>1 DEF Candidates, Known
<1>5. IsFiniteSet(all) /\ IsFiniteSet(rows) /\ Cardinality(all) \in Nat /\ Cardinality(rows) \in Nat
  BY <1>3, <1>4, FS_Subset, FS_CardinalityType
<1>6. \A x \in Known : book[x].created \in 0..MaxTime /\ book[x].created \in Nat /\ book[x].created # None
  <2>1. \A x \in Known : book[x] \in Order
    BY DEF Known
  <2>2. \A order \in Order : order.created \in 0..MaxTime
    BY DEF Order
  <2> QED BY <2>1, <2>2, AdminAssumption
<1>7. rows \subseteq Known
  BY <1>3, <1>4
<1> SUFFICES ASSUME o \notin rows
             PROVE  FALSE
  OBVIOUS
<1>8. \A r \in rows : book[r].created > book[o].created
  <2>1. ASSUME NEW r \in rows
        PROVE  book[r].created > book[o].created
    <3>1. book[r].created >= book[o].created
      BY <1>3, <1>4
    <3>2. book[r].created # book[o].created
      BY <1>7 DEF Lone, Known
    <3> QED BY <1>4, <1>6, <1>7, <3>1, <3>2
  <2> QED BY <2>1
<1>9. CASE Cardinality(rows) < PageSize
  <2>1. Cardinality(rows) = Cardinality(all)
    BY <1>2, <1>3, <1>5, <1>9, AdminAssumption
  <2>2. rows = all
    BY <1>3, <1>5, <2>1, FS_Subset
  <2> QED BY <1>4, <2>2
<1>10. CASE ~ Cardinality(rows) < PageSize
  <2>1. PICK r \in rows : NextBefore(book, rows) = book[r].created
    BY <1>7, <1>10, NextBeforeIs
  <2>2. book[o].created >= book[r].created
    BY <1>6, <1>7, <2>1
  <2> QED BY <1>4, <1>6, <1>7, <1>8, <2>2
<1> QED BY <1>9, <1>10

-----------------------------------------------------------------------------
(* The walk and its tab, whatever the rest of the system does.             *)

\* What the walk of a tab depends on.
SameList(v, w) ==
  w.cursors = v.cursors /\ w.filters = v.filters /\ w.rows = v.rows /\ w.next = v.next

\* The list stays, and no answer to it comes.
Quiet(c, d) ==
  /\ d.route = c.route /\ SameList(c.view, d.view)
  /\ \A j \in LiveCalls(d, {"orders"}) :
       /\ j \in LiveCalls(c, {"orders"}) /\ d.calls[j].arg = c.calls[j].arg
       /\ d.calls[j].status = "ok" => c.calls[j].status = "ok" /\ d.calls[j].body = c.calls[j].body

\* The orders are asked for, or nothing is, with the filters and the cursors of a view.
Loaded(v, d) ==
  /\ d.view.cursors = v.cursors /\ d.view.filters = v.filters /\ d.view.rows = None
  /\ Single(LiveCalls(d, {"orders"}))
  /\ \A j \in LiveCalls(d, {"orders"}) : d.calls[j].arg = Query(v) /\ d.calls[j].status # "ok"

LEMMA WalkQuiet ==
  ASSUME NEW w, NEW b, NEW c, NEW d, WalkInv(w, b, c), Quiet(c, d)
  PROVE  WalkInv(w, b, d)
<1>1. MayLoad(w, b, d.view) /\ Query(d.view) = Query(c.view)
  BY DEF Quiet, SameList, WalkInv, MayLoad, Query
<1>2. d.view.rows # None =>
        /\ Agrees(w, b, d.view.filters) /\ Len(w.pages) = Len(d.view.cursors)
        /\ Covers(w, b, Len(d.view.cursors), {}, d.view.next)
  BY DEF Quiet, SameList, WalkInv
<1>3. Single(LiveCalls(d, {"orders"}))
  BY DEF Quiet, WalkInv, Single
<1>4. ASSUME NEW j \in LiveCalls(d, {"orders"})
      PROVE  /\ d.view.rows = None /\ d.calls[j].arg = Query(d.view)
             /\ d.calls[j].status = "ok" =>
                  /\ Agrees(w, b, d.view.filters)
                  /\ Covers(w, b, Len(d.view.cursors) - 1, d.calls[j].body.rows, d.calls[j].body.next)
  BY <1>1, <1>4 DEF Quiet, SameList, WalkInv
<1> QED BY <1>1, <1>2, <1>3, <1>4 DEF WalkInv

LEMMA WalkLoaded ==
  ASSUME NEW w, NEW b, NEW v, NEW d, MayLoad(w, b, v), Loaded(v, d)
  PROVE  WalkInv(w, b, d)
<1>1. MayLoad(w, b, d.view) /\ Query(d.view) = Query(v)
  BY DEF Loaded, MayLoad, Query
<1> QED BY <1>1 DEF Loaded, WalkInv

LEMMA BlankLoads ==
  ASSUME NEW w, NEW b
  PROVE  MayLoad(w, b, Blank)
<1>1. Blank.cursors = <<None>>
  BY DEF Blank
<1>2. PICK s : s = <<None>>
  OBVIOUS
<1>3. s[1] = None /\ Len(s) = 1
  BY <1>2
<1> QED BY <1>1, <1>2, <1>3 DEF MayLoad, Reaches

LEMMA WalkLeads ==
  ASSUME NEW w, w.pages \in Seq(SUBSET OrderIds), NEW b, NEW c, c.view.cursors \in Seq(Cursor) \ {<<>>},
         c.view.next \in Cursor, WalkInv(w, b, c), NEW v, Leads(c.view, v)
  PROVE  MayLoad(w, b, v)
<1>1. PICK s \in Seq(Cursor) : s = c.view.cursors
  OBVIOUS
<1>2. Len(s) \in Nat /\ Len(s) >= 1 /\ Len(w.pages) \in Nat
  BY <1>1
<1>3. Reaches(w, b, s)
  BY <1>1 DEF WalkInv, MayLoad
<1>4. CASE v.cursors = <<None>>
  <2>1. PICK t : t = <<None>>
    OBVIOUS
  <2>2. t[1] = None /\ Len(t) = 1
    BY <2>1
  <2> QED BY <1>4, <2>1, <2>2 DEF MayLoad, Reaches
<1>5. CASE /\ v.filters = c.view.filters /\ c.view.rows # None /\ c.view.next # None
           /\ v.cursors = Append(c.view.cursors, c.view.next)
  <2>1. PICK next \in Cursor : next = c.view.next
    OBVIOUS
  <2>2. PICK t : t = Append(s, next)
    OBVIOUS
  <2>3. /\ Len(t) = Len(s) + 1 /\ t[Len(s) + 1] = next
        /\ \A n \in 1..Len(s) : t[n] = s[n]
    BY <1>1, <2>2, AppendProperties
  <2>4. Agrees(w, b, v.filters) /\ Len(w.pages) = Len(s) /\ Covers(w, b, Len(s), {}, next)
    BY <1>1, <1>5, <2>1 DEF WalkInv
  <2>5. ASSUME NEW n \in 2..Len(t)
        PROVE  t[n] # None /\ n - 1 <= Len(w.pages) /\ Covers(w, b, n - 1, {}, t[n])
    <3>1. CASE n = Len(s) + 1
      <4>1. n - 1 = Len(s)
        BY <1>2, <3>1
      <4> QED BY <1>2, <1>5, <2>1, <2>3, <2>4, <3>1, <4>1
    <3>2. CASE n # Len(s) + 1
      <4>1. n \in 2..Len(s) /\ n \in 1..Len(s)
        BY <1>2, <2>3, <3>2
      <4> QED BY <1>3, <2>3, <4>1 DEF Reaches
    <3> QED BY <3>1, <3>2
  <2>6. t[1] = None
    <3>1. 1 \in 1..Len(s)
      BY <1>2
    <3> QED BY <1>3, <2>3, <3>1 DEF Reaches
  <2>7. Reaches(w, b, t)
    BY <2>5, <2>6 DEF Reaches
  <2> QED BY <1>1, <1>5, <2>1, <2>2, <2>4, <2>7 DEF MayLoad
<1>6. CASE /\ v.filters = c.view.filters /\ Len(c.view.cursors) > 1
           /\ v.cursors = Front(c.view.cursors)
  <2>1. PICK t : t = Front(s)
    OBVIOUS
  <2>2. t = SubSeq(s, 1, Len(s) - 1)
    BY <2>1 DEF Front
  <2>3. Len(t) = Len(s) - 1 /\ \A n \in 1..Len(t) : t[n] = s[n]
    BY <1>1, <1>2, <1>6, <2>2
  <2>4. t[1] = None
    <3>1. 1 \in 1..Len(t)
      BY <1>1, <1>2, <1>6, <2>3
    <3> QED BY <1>3, <2>3, <3>1 DEF Reaches
  <2>5. ASSUME NEW n \in 2..Len(t)
        PROVE  t[n] # None /\ n - 1 <= Len(w.pages) /\ Covers(w, b, n - 1, {}, t[n])
    <3>1. n \in 2..Len(s) /\ n \in 1..Len(t)
      BY <1>2, <2>3
    <3> QED BY <1>3, <2>3, <3>1 DEF Reaches
  <2>6. Reaches(w, b, t)
    BY <2>4, <2>5 DEF Reaches
  <2>7. Agrees(w, b, v.filters)
    BY <1>6 DEF WalkInv, MayLoad
  <2> QED BY <1>1, <1>6, <2>1, <2>6, <2>7 DEF MayLoad
<1> QED BY <1>4, <1>5, <1>6 DEF Leads

\* Orders come in, and what has changed need not be shown.
LEMMA WalkShrinks ==
  ASSUME NEW w, NEW b, NEW c, WalkInv(w, b, c), NEW w2, NEW b2,
         w2.pages = w.pages, w2.steady \subseteq w.steady, w.steady \subseteq OrderIds,
         \A o \in w2.steady : b2[o] = b[o],
         \A o \in OrderIds : b[o] # None => b2[o] # None /\ b2[o].created = b[o].created
  PROVE  WalkInv(w2, b2, c)
<1>1. \A o \in w2.steady : Lone(b2, o) => Lone(b, o)
  BY DEF Lone
<1>2. ASSUME NEW n, NEW rows, NEW t, Covers(w, b, n, rows, t)
      PROVE  Covers(w2, b2, n, rows, t)
  BY <1>1, <1>2 DEF Covers
<1>3. \A filter : Agrees(w, b, filter) => Agrees(w2, b2, filter)
  BY DEF Agrees
<1>4. MayLoad(w2, b2, c.view)
  BY <1>2, <1>3 DEF WalkInv, MayLoad, Reaches
<1>5. c.view.rows # None =>
        /\ Agrees(w2, b2, c.view.filters) /\ Len(w2.pages) = Len(c.view.cursors)
        /\ Covers(w2, b2, Len(c.view.cursors), {}, c.view.next)
  BY <1>2, <1>3 DEF WalkInv
<1>6. ASSUME NEW i \in LiveCalls(c, {"orders"})
      PROVE  /\ c.view.rows = None /\ c.calls[i].arg = Query(c.view)
             /\ c.calls[i].status = "ok" =>
                  /\ Agrees(w2, b2, c.view.filters)
                  /\ Covers(w2, b2, Len(c.view.cursors) - 1, c.calls[i].body.rows, c.calls[i].body.next)
  BY <1>2, <1>3, <1>6 DEF WalkInv
<1> QED BY <1>4, <1>5, <1>6 DEF WalkInv

\* The server lists the orders for a page that waits for them.
LEMMA WalkListed ==
  ASSUME book \in [OrderIds -> Order \cup {None}], IsFiniteSet(Known),
         NEW w \in Walk(Known), NEW c, c.view.cursors \in Seq(Cursor) \ {<<>>}, WalkInv(w, book, c),
         NEW i \in LiveCalls(c, {"orders"}), NEW q, q = c.calls[i].arg,
         NEW rows \in ListAll(book, q.filter, q.before),
         NEW g, g.kind = "orders", g.arg = q, g.body.rows = rows, g.body.next = NextBefore(book, rows),
         NEW d, d.view = c.view, \A j \in Slots : d.calls[j] = IF j = i THEN g ELSE c.calls[j],
         NEW w2, w2.pages = w.pages,
         w2.steady = IF q.before = None THEN Candidates(book, q.filter, None) ELSE w.steady
  PROVE  WalkInv(w2, book, d)
<1>1. PICK view, depth : view = c.view /\ depth = Len(view.cursors)
  OBVIOUS
<1>2. PICK next : next = NextBefore(book, rows)
  OBVIOUS
<1>3. depth \in Nat /\ depth >= 1
  BY <1>1
<1>4. /\ view.rows = None /\ q = Query(view) /\ MayLoad(w, book, view)
      /\ \A j \in LiveCalls(c, {"orders"}) : j = i
  BY <1>1 DEF WalkInv, Single
<1>5. q.filter = view.filters /\ q.before = view.cursors[depth]
  BY <1>1, <1>4 DEF Query, Last
<1>6. /\ view.cursors[1] = None
      /\ \A n \in 2..depth : view.cursors[n] # None /\ n - 1 <= Len(w.pages)
                             /\ Covers(w, book, n - 1, {}, view.cursors[n])
  BY <1>1, <1>4 DEF MayLoad, Reaches
<1>7. i \in Slots /\ LiveCalls(d, {"orders"}) \subseteq {i}
  BY <1>4 DEF LiveCalls, Live
<1>8. MayLoad(w2, book, view) /\ Agrees(w2, book, view.filters)
      /\ Covers(w2, book, depth - 1, rows, next)
  <2>1. ASSUME NEW o \in Candidates(book, q.filter, q.before), Lone(book, o),
               next = None \/ book[o].created >= next
        PROVE  o \in rows
    BY <1>2, <2>1, ListCovers
  <2>2. CASE q.before = None
    <3>1. depth = 1
      <4>1. ~ depth \in 2..depth
        BY <1>5, <1>6, <2>2
      <4> QED BY <1>3, <4>1
    <3>2. MayLoad(w2, book, view)
      BY <1>1, <1>6, <3>1 DEF MayLoad, Reaches
    <3>3. w2.steady = Candidates(book, q.filter, q.before)
      BY <2>2
    <3>4. Agrees(w2, book, view.filters)
      BY <1>5, <3>3 DEF Agrees, Candidates
    <3>5. Covers(w2, book, depth - 1, rows, next)
      BY <2>1, <3>3 DEF Covers
    <3> QED BY <3>2, <3>4, <3>5
  <2>3. CASE q.before # None
    <3>1. depth \in 2..depth /\ depth > 1
      <4>1. depth # 1
        BY <1>5, <1>6, <2>3
      <4> QED BY <1>3, <4>1
    <3>2. w2.steady = w.steady
      BY <2>3
    <3>3. MayLoad(w2, book, view)
      BY <1>4, <3>2 DEF MayLoad, Reaches, Covers, Agrees
    <3>4. Agrees(w2, book, view.filters) /\ Agrees(w, book, view.filters)
      BY <1>1, <3>1, <1>4, <3>2 DEF MayLoad, Agrees
    <3>5. Covers(w, book, depth - 1, {}, q.before)
      BY <1>5, <1>6, <3>1
    <3>6. ASSUME NEW o \in w2.steady, Lone(book, o), next = None \/ book[o].created >= next
          PROVE  o \in rows \/ \E m \in 1..(depth - 1) : o \in w2.pages[m]
      <4>1. o \in Known
        BY <3>2, <3>6 DEF Walk
      <4>2. CASE book[o].created >= q.before
        BY <3>2, <3>5, <3>6, <4>2 DEF Covers
      <4>3. CASE ~ book[o].created >= q.before
        <5>1. q.before \in Cursor
          BY <1>1, <1>3, <1>5
        <5>2. q.before \in Nat
          BY <2>3, <5>1, AdminAssumption DEF Cursor
        <5>3. book[o] \in Order
          BY <4>1 DEF Known
        <5>4. book[o].created \in Nat
          BY <5>3, AdminAssumption DEF Order
        <5>5. book[o].created < q.before
          BY <4>3, <5>2, <5>4
        <5>6. Matches(book[o], q.filter)
          BY <1>5, <3>4 DEF Agrees
        <5>7. o \in Candidates(book, q.filter, q.before)
          BY <4>1, <5>5, <5>6 DEF Candidates, Known
        <5> QED BY <2>1, <3>6, <5>7
      <4> QED BY <4>2, <4>3
    <3>7. Covers(w2, book, depth - 1, rows, next)
      BY <3>6 DEF Covers
    <3> QED BY <3>3, <3>4, <3>7
  <2> QED BY <2>2, <2>3
<1>9. Single(LiveCalls(d, {"orders"}))
  BY <1>7 DEF Single
<1>10. ASSUME NEW j \in LiveCalls(d, {"orders"})
       PROVE  /\ d.view.rows = None /\ d.calls[j].arg = Query(view)
              /\ d.calls[j].body.rows = rows /\ d.calls[j].body.next = next
  <2>1. d.calls[j] = g
    BY <1>7, <1>10
  <2> QED BY <1>1, <1>2, <1>4, <2>1
<1>11. d.view = view /\ d.view.rows = None
  BY <1>1, <1>4
<1> QED BY <1>1, <1>8, <1>9, <1>10, <1>11 DEF WalkInv

\* The page shows the rows it waited for.
LEMMA WalkHeard ==
  ASSUME NEW w, w.pages \in Seq(SUBSET OrderIds), NEW b, NEW c, c.view.cursors \in Seq(Cursor) \ {<<>>},
         WalkInv(w, b, c), NEW i \in LiveCalls(c, {"orders"}), c.calls[i].status = "ok",
         NEW rows \in SUBSET OrderIds, rows = c.calls[i].body.rows,
         NEW d, d.view.cursors = c.view.cursors, d.view.filters = c.view.filters,
         d.view.next = c.calls[i].body.next, LiveCalls(d, {"orders"}) = {},
         NEW w2, w2.steady = w.steady,
         w2.pages = Append(SubSeq(w.pages, 1, Len(c.view.cursors) - 1), rows)
  PROVE  WalkInv(w2, b, d) /\ w2.pages \in Seq(SUBSET OrderIds)
<1>1. PICK view, depth : view = c.view /\ depth = Len(view.cursors)
  OBVIOUS
<1>2. depth \in Nat /\ depth >= 1 /\ Len(w.pages) \in Nat
  BY <1>1
<1>3. /\ MayLoad(w, b, view) /\ Agrees(w, b, view.filters)
      /\ Covers(w, b, depth - 1, rows, d.view.next)
  BY <1>1 DEF WalkInv
<1>4. /\ view.cursors[1] = None
      /\ \A n \in 2..depth : view.cursors[n] # None /\ n - 1 <= Len(w.pages)
                             /\ Covers(w, b, n - 1, {}, view.cursors[n])
  BY <1>1, <1>3 DEF MayLoad, Reaches
<1>5. depth - 1 <= Len(w.pages)
  <2>1. CASE depth = 1
    BY <1>2, <2>1
  <2>2. CASE depth # 1
    <3>1. depth \in 2..depth
      BY <1>2, <2>2
    <3> QED BY <1>4, <3>1
  <2> QED BY <2>1, <2>2
<1>6. PICK s : s = SubSeq(w.pages, 1, depth - 1)
  OBVIOUS
<1>7. /\ s \in Seq(SUBSET OrderIds) /\ Len(s) = depth - 1
      /\ \A m \in 1..(depth - 1) : s[m] = w.pages[m]
  BY <1>2, <1>5, <1>6
<1>8. w2.pages = Append(s, rows)
  BY <1>1, <1>6
<1>9. /\ w2.pages \in Seq(SUBSET OrderIds) /\ Len(w2.pages) = depth /\ w2.pages[depth] = rows
      /\ \A m \in 1..(depth - 1) : w2.pages[m] = w.pages[m]
  <2>1. w2.pages \in Seq(SUBSET OrderIds) /\ Len(w2.pages) = Len(s) + 1
        /\ w2.pages[Len(s) + 1] = rows /\ \A m \in 1..Len(s) : w2.pages[m] = s[m]
    <3>1. PICK T : T = SUBSET OrderIds
      OBVIOUS
    <3>2. s \in Seq(T) /\ rows \in T
      BY <1>7, <3>1
    <3>3. PICK t : t = Append(s, rows)
      OBVIOUS
    <3>4. t \in Seq(T) /\ Len(t) = Len(s) + 1 /\ t[Len(s) + 1] = rows /\ \A m \in 1..Len(s) : t[m] = s[m]
      BY <3>2, <3>3, AppendProperties
    <3> QED BY <1>8, <3>1, <3>3, <3>4
  <2> QED BY <1>2, <1>7, <2>1
<1>10. ASSUME NEW n \in 2..depth
       PROVE  n - 1 <= Len(w2.pages) /\ Covers(w2, b, n - 1, {}, view.cursors[n])
  <2>1. n - 1 <= depth - 1 /\ 1..(n - 1) \subseteq 1..(depth - 1)
    BY <1>2
  <2>2. Covers(w, b, n - 1, {}, view.cursors[n])
    BY <1>4
  <2>3. Covers(w2, b, n - 1, {}, view.cursors[n])
    BY <1>9, <2>1, <2>2 DEF Covers
  <2> QED BY <1>2, <1>9, <2>1, <2>3
<1>11. Agrees(w2, b, view.filters) /\ MayLoad(w2, b, view)
  BY <1>1, <1>3, <1>4, <1>10 DEF Agrees, MayLoad, Reaches
<1>12. Covers(w2, b, depth, {}, d.view.next)
  <2>1. ASSUME NEW o \in w2.steady, Lone(b, o), d.view.next = None \/ b[o].created >= d.view.next
        PROVE  \E m \in 1..depth : o \in w2.pages[m]
    <3>1. o \in rows \/ \E m \in 1..(depth - 1) : o \in w.pages[m]
      BY <1>3, <2>1 DEF Covers
    <3>2. CASE o \in rows
      <4>1. depth \in 1..depth
        BY <1>2
      <4> QED BY <1>9, <3>2, <4>1
    <3>3. ASSUME NEW m \in 1..(depth - 1), o \in w.pages[m]
          PROVE  \E n \in 1..depth : o \in w2.pages[n]
      <4>1. m \in 1..depth
        BY <1>2
      <4> QED BY <1>9, <3>3, <4>1
    <3> QED BY <3>1, <3>2, <3>3
  <2> QED BY <2>1 DEF Covers
<1>13. MayLoad(w2, b, d.view)
  BY <1>1, <1>11 DEF MayLoad, Reaches
<1> QED BY <1>1, <1>9, <1>11, <1>12, <1>13 DEF WalkInv, Single

-----------------------------------------------------------------------------
(* What becomes of the list on a tab, one lemma per operator.              *)

\* The list stays, it is loaded, or the page is another one.
Goes(c, d) ==
  \/ d.route # "orders" \/ Loaded(Blank, d) \/ Quiet(c, d)
  \/ c.route = "orders" /\ Loaded(c.view, d)

LEMMA QuietView ==
  ASSUME NEW c, NEW d, d.route = c.route, SameList(c.view, d.view), d.calls = c.calls
  PROVE  Quiet(c, d)
BY DEF Quiet, LiveCalls, Live

LEMMA QuietAsk ==
  ASSUME NEW c, Shape(c), NEW kind, kind # "orders", NEW arg
  PROVE  Quiet(c, Ask(c, kind, arg))
<1>1. PICK d : d = Ask(c, kind, arg)
  OBVIOUS
<1>2. /\ SamePage(c, d) /\ d.view = c.view
      /\ \A j \in Slots : d.calls[j] = IF j = Free(c) THEN Asked(kind, arg) ELSE c.calls[j]
  BY <1>1, AskIs
<1>3. PICK f : f = Asked(kind, arg)
  OBVIOUS
<1>4. f.kind # "orders"
  BY <1>3, AskedIs
<1>5. Quiet(c, d)
  BY <1>2, <1>3, <1>4 DEF Quiet, SameList, LiveCalls, Live, SamePage
<1> QED BY <1>1, <1>5

LEMMA QuietShow ==
  ASSUME NEW c, Shape(c), NEW i \in Slots, NEW view, c.calls[i].live => SameList(c.view, view)
  PROVE  Quiet(c, Show(c, i, view))
<1>1. PICK d : d = Show(c, i, view)
  OBVIOUS
<1>2. /\ SamePage(c, d) /\ SameList(c.view, d.view)
      /\ \A j \in Slots : d.calls[j] = IF j = i THEN None ELSE c.calls[j]
  BY <1>1, ShowIs DEF SameList
<1>3. Quiet(c, d)
  BY <1>2 DEF Quiet, LiveCalls, Live, SamePage
<1> QED BY <1>1, <1>3

LEMMA QuietEnd ==
  ASSUME NEW c, Shape(c), NEW i \in Slots
  PROVE  Quiet(c, End(c, i))
<1>1. PICK d : d = End(c, i)
  OBVIOUS
<1>2. /\ SamePage(c, d) /\ d.view = c.view
      /\ \A j \in Slots : d.calls[j] = IF j = i THEN None ELSE c.calls[j]
  BY <1>1, EndIs
<1>3. Quiet(c, d)
  BY <1>2 DEF Quiet, SameList, LiveCalls, Live, SamePage
<1> QED BY <1>1, <1>3

LEMMA GoesAfter ==
  ASSUME NEW b, NEW c, NEW d, Quiet(b, c), Goes(c, d)
  PROVE  Goes(b, d)
<1>1. Quiet(c, d) => Quiet(b, d)
  BY DEF Quiet, SameList
<1>2. c.route = b.route /\ (Loaded(c.view, d) => Loaded(b.view, d))
  BY DEF Quiet, SameList, Loaded, Query
<1> QED BY <1>1, <1>2 DEF Goes

LEMMA GoesMount ==
  ASSUME NEW K, NEW P, NEW c, GoodTab(c, K, P), NEW route, NEW subject
  PROVE  Goes(c, Mount(c, route, subject))
<1>1. PICK d : d = Mount(c, route, subject)
  OBVIOUS
<1>2. d.view = Blank
  BY <1>1, MountIs DEF GoodTab
<1>3. \A j \in Slots : Live(d, j) => d.calls[j].kind = "me"
  BY <1>1, OpenedIs
<1>4. LiveCalls(d, {"orders"}) = {}
  BY <1>3 DEF LiveCalls
<1>5. Blank.rows = None
  BY DEF Blank
<1>6. Loaded(Blank, d)
  BY <1>2, <1>4, <1>5 DEF Loaded, Single
<1> QED BY <1>1, <1>6 DEF Goes

LEMMA GoesSignOut ==
  ASSUME NEW K, NEW P, NEW c, GoodTab(c, K, P)
  PROVE  Goes(c, SignOut(c))
<1>1. PICK no \in BOOLEAN : no = FALSE
  OBVIOUS
<1>2. PICK b : b = [c EXCEPT !.token = no]
  OBVIOUS
<1>3. GoodTab(b, K, P)
  BY <1>2, GoodToken
<1>4. Quiet(c, b)
  <2>1. b.route = c.route /\ b.view = c.view /\ b.calls = c.calls
    BY <1>2, TokenIs DEF GoodTab
  <2> QED BY <2>1, QuietView DEF SameList
<1>5. PICK d : d = Mount(b, "login", None)
  OBVIOUS
<1>6. Goes(c, d)
  BY <1>3, <1>4, <1>5, GoesMount, GoesAfter
<1> QED BY <1>1, <1>2, <1>5, <1>6 DEF SignOut

LEMMA LoadsOrders ==
  ASSUME NEW K, NEW P, NEW c, GoodTab(c, K, P)
  PROVE  Loaded(c.view, LoadOrders(c)) /\ LoadOrders(c).route = c.route
<1>1. PICK d, b, arg :
        /\ LoadOrders(c) = Ask(b, "orders", arg)
        /\ d = Cancel(c, {"orders"}) /\ Shape(d)
        /\ b = [d EXCEPT !.view = [d.view EXCEPT !.rows = None, !.loading = TRUE,
                                                 !.failed = FALSE]]
        /\ arg = Query(c.view)
  BY LoadOrdersIs
<1>2. Shape(c) /\ c.view \in Views(K)
  BY DEF GoodTab
<1>3. /\ SamePage(c, d) /\ d.view = c.view
      /\ \A j \in Slots : d.calls[j] = IF c.calls[j] # None /\ c.calls[j].kind \in {"orders"}
                                         THEN Left(c.calls[j]) ELSE c.calls[j]
  BY <1>1, <1>2, CancelIs
<1>4. PICK w : w = [c.view EXCEPT !.rows = None, !.loading = TRUE, !.failed = FALSE]
  OBVIOUS
<1>5. w.cursors = c.view.cursors /\ w.filters = c.view.filters /\ w.rows = None
  BY <1>2, <1>4 DEF Views
<1>6. Shape(b) /\ SamePage(d, b) /\ b.view = w /\ b.calls = d.calls
  <2>1. b = [d EXCEPT !.view = w] /\ Shape(d)
    BY <1>1, <1>3, <1>4
  <2> QED BY ONLY <2>1, ViewIs
<1>7. PICK f : f = Asked("orders", arg)
  OBVIOUS
<1>8. f.arg = arg /\ f.status # "ok"
  BY <1>7, AskedIs, NoneIsNothing
<1>9. PICK e : e = Ask(b, "orders", arg)
  OBVIOUS
<1>10. /\ SamePage(b, e) /\ e.view = w
       /\ \A j \in Slots : e.calls[j] = IF j = Free(b) THEN f ELSE d.calls[j]
  BY <1>6, <1>7, <1>9, AskIs
<1>11. \A j \in Slots : Live(d, j) => d.calls[j].kind # "orders"
  <2>1. \A j \in Slots : c.calls[j] # None => Left(c.calls[j]).live = FALSE
    BY GoodLeft DEF GoodTab
  <2> QED BY <1>3, <2>1 DEF Live
<1>12. \A j \in LiveCalls(e, {"orders"}) : j = Free(b) /\ e.calls[j] = f
  BY <1>10, <1>11 DEF LiveCalls, Live
<1>13. Loaded(c.view, e)
  BY <1>1, <1>5, <1>8, <1>10, <1>12 DEF Loaded, Single
<1> QED BY <1>1, <1>3, <1>6, <1>9, <1>10, <1>13 DEF SamePage

LEMMA QuietLoadOrder ==
  ASSUME NEW K, NEW P, NEW c, GoodTab(c, K, P)
  PROVE  Quiet(c, LoadOrder(c))
<1>1. Shape(c) /\ c.view \in Views(K)
  BY DEF GoodTab
<1>2. PICK w : w = [c.view EXCEPT !.loading = TRUE, !.failed = FALSE]
  OBVIOUS
<1>3. PICK b : b = [c EXCEPT !.view = w]
  OBVIOUS
<1>4. Shape(b) /\ SamePage(c, b) /\ b.view = w /\ b.calls = c.calls
  BY <1>1, <1>3, ViewIs
<1>5. SameList(c.view, w)
  BY <1>1, <1>2 DEF Views, SameList
<1>6. Quiet(c, b)
  BY <1>4, <1>5, QuietView DEF SamePage
<1>7. PICK d : d = Ask(b, "order", c.subject)
  OBVIOUS
<1>8. Quiet(b, d)
  BY <1>4, <1>7, QuietAsk
<1>9. Quiet(c, d)
  BY <1>6, <1>8 DEF Quiet, SameList
<1> QED BY <1>2, <1>3, <1>7, <1>9, LoadOrderIs

LEMMA GoesEnter ==
  ASSUME NEW K, NEW P, NEW c, GoodTab(c, K, P)
  PROVE  Goes(c, Enter(c))
<1>1. Shape(c) /\ c.route \in Route
  BY DEF GoodTab
<1>2. PICK in : in = [c EXCEPT !.ready = TRUE]
  OBVIOUS
<1>3. /\ GoodTab(in, K, P) /\ Shape(in) /\ in.route = c.route /\ in.subject = c.subject
      /\ in.view = c.view /\ in.calls = c.calls
  <2>1. PICK yes \in BOOLEAN : yes = TRUE
    OBVIOUS
  <2>2. in = [c EXCEPT !.ready = yes]
    BY <1>2, <2>1
  <2>3. /\ in.route = c.route /\ in.subject = c.subject /\ in.view = c.view
        /\ in.calls = c.calls /\ Shape(in)
    BY <1>1, <2>2, ReadyIs
  <2>4. GoodTab(in, K, P)
    BY <2>1, <2>2, GoodReady
  <2> QED BY <2>3, <2>4
<1>4. Quiet(c, in)
  BY <1>3, QuietView DEF SameList
<1>5. \A d : Quiet(in, d) => Goes(c, d)
  BY <1>4, GoesAfter DEF Goes
<1>6. CASE c.route = "login"
  BY <1>6, GoesMount DEF Enter
<1>7. CASE c.route = "orders"
  <2>1. PICK d : d = LoadOrders(in)
    OBVIOUS
  <2>2. Goes(in, d)
    BY <1>3, <1>7, <2>1, LoadsOrders DEF Goes
  <2>3. Goes(c, d)
    BY <1>4, <2>2, GoesAfter
  <2> QED BY <1>2, <1>7, <2>1, <2>3 DEF Enter
<1>8. CASE c.route = "order"
  BY <1>2, <1>3, <1>5, <1>8, QuietLoadOrder DEF Enter
<1>9. CASE c.route = "products"
  BY <1>2, <1>3, <1>5, <1>9, QuietAsk DEF Enter
<1>10. CASE c.route = "product"
  BY <1>2, <1>3, <1>5, <1>10, QuietAsk DEF Enter
<1>11. CASE c.route = "new"
  <2>1. PICK w : w = [in.view EXCEPT !.draft = NoDraft]
    OBVIOUS
  <2>2. PICK d : d = Enter(c)
    OBVIOUS
  <2>3. d = [in EXCEPT !.view.draft = NoDraft]
    BY <1>2, <1>11, <2>2 DEF Enter
  <2>4. d = [in EXCEPT !.view = w]
    BY <1>3, <2>1, <2>3 DEF Shape
  <2>5. d.route = "new"
    BY <1>3, <1>11, <2>4, ViewIs DEF SamePage
  <2> QED BY <2>2, <2>5 DEF Goes
<1> QED BY <1>1, <1>6, <1>7, <1>8, <1>9, <1>10, <1>11 DEF Route

\* An answer to the question of the list.
Lists(c, i) == i \in LiveCalls(c, {"orders"}) /\ c.calls[i].status = "ok"

LEMMA GoesMeHeard ==
  ASSUME NEW K, NEW P, NEW c, GoodTab(c, K, P), NEW i, Answered(c, i)
  PROVE  Goes(c, MeHeard(c, i))
<1>1. i \in Slots /\ Shape(c) /\ c.calls[i] # None
  BY DEF Answered, GoodTab
<1>2. PICK d : d = End(c, i)
  OBVIOUS
<1>3. GoodTab(d, K, P) /\ Shape(d) /\ Quiet(c, d)
  BY <1>1, <1>2, GoodEnd, EndIs, QuietEnd
<1>4. PICK no : no = FALSE
  OBVIOUS
<1>5. PICK b : b = [d EXCEPT !.token = no]
  OBVIOUS
<1>6. b.route = d.route /\ b.view = d.view /\ b.calls = d.calls
  BY <1>3, <1>5, TokenIs
<1>7. Goes(c, b)
  <2>1. Quiet(d, b)
    BY <1>6, QuietView DEF SameList
  <2> QED BY <1>3, <2>1, GoesAfter DEF Goes
<1>8. Goes(c, d) /\ Goes(c, Enter(d)) /\ Goes(c, SignOut(d))
  <2>1. Goes(c, d)
    BY <1>3 DEF Goes
  <2>2. Goes(d, Enter(d)) /\ Goes(d, SignOut(d))
    BY <1>3, GoesEnter, GoesSignOut
  <2> QED BY <1>3, <2>1, <2>2, GoesAfter
<1> QED BY <1>2, <1>4, <1>5, <1>7, <1>8 DEF MeHeard

LEMMA GoesAdvanceHeard ==
  ASSUME NEW K, NEW P, NEW c, GoodTab(c, K, P), NEW i, Answered(c, i), c.calls[i].kind = "advance"
  PROVE  Goes(c, AdvanceHeard(c, i))
<1> DEFINE v == IF Failed(c, i) THEN Rested(c, "advance")
                ELSE [Rested(c, "advance") EXCEPT !.shown = c.calls[i].body]
<1>1. i \in Slots /\ Shape(c) /\ c.calls[i] # None /\ c.view \in Views(K)
  BY DEF Answered, GoodTab
<1>2. SameList(c.view, v)
  BY <1>1 DEF Rested, Views, SameList
<1>3. PICK heard : heard = Show(c, i, v)
  OBVIOUS
<1>4. AdvanceHeard(c, i) = IF c.calls[i].status = "409" /\ c.calls[i].live
                             THEN LoadOrder(heard) ELSE heard
  BY <1>3 DEF AdvanceHeard
<1>5. c.calls[i].status = "409" => v = Rested(c, "advance")
  BY DEF Failed
<1> HIDE DEF v
<1>6. Quiet(c, heard)
  BY <1>1, <1>2, <1>3, QuietShow
<1>7. CASE c.calls[i].status = "409"
  <2>1. v \in Views(K)
    BY <1>1, <1>5, <1>7, RestedView
  <2>2. GoodTab(heard, K, P)
    BY <1>1, <1>3, <2>1, GoodShow
  <2>3. Quiet(heard, LoadOrder(heard))
    BY <2>2, QuietLoadOrder
  <2>4. Goes(c, LoadOrder(heard))
    BY <1>6, <2>3, GoesAfter DEF Goes
  <2> QED BY <1>4, <1>6, <2>4 DEF Goes
<1>8. CASE c.calls[i].status # "409"
  BY <1>4, <1>6, <1>8 DEF Goes
<1> QED BY <1>7, <1>8

LEMMA GoesHeard ==
  ASSUME NEW K, NEW P, NEW c, GoodTab(c, K, P), NEW i, Answered(c, i)
  PROVE  Lists(c, i) \/ Goes(c, Heard(c, i))
<1>1. i \in Slots /\ c.calls[i] # None /\ c.calls[i].kind \in CallKind /\ Shape(c) /\ c.view \in Views(K)
  BY AnswerIs DEF Answered, GoodTab
<1>2. PICK d : d = End(c, i)
  OBVIOUS
<1>3. GoodTab(d, K, P) /\ Quiet(c, d)
  BY <1>1, <1>2, GoodEnd, QuietEnd
<1>4. \A route, subject : Goes(c, Mount(d, route, subject))
  BY <1>3, GoesMount, GoesAfter
<1>5. Goes(c, SignOut(d))
  BY <1>3, GoesSignOut, GoesAfter
<1>6. \A view : SameList(c.view, view) => Goes(c, Show(c, i, view))
  BY <1>1, QuietShow DEF Goes
<1>7. \A kind : Rested(c, kind) \in Views(K) /\ SameList(c.view, Rested(c, kind))
  BY <1>1, RestedView DEF Rested, Views, SameList
<1>8. \A kind : Goes(c, Show(c, i, Rested(c, kind)))
  BY <1>6, <1>7
<1>9. CASE c.calls[i].status = "401"
  BY <1>2, <1>5, <1>9 DEF Heard
<1>10. CASE c.calls[i].status # "401"
  <2>1. CASE c.calls[i].kind = "me"
    BY <1>10, <2>1, GoesMeHeard DEF Heard
  <2>2. CASE c.calls[i].kind = "login"
    <3>1. PICK yes \in BOOLEAN : yes = TRUE
      OBVIOUS
    <3>2. PICK b : b = [d EXCEPT !.token = yes]
      OBVIOUS
    <3>3. GoodTab(b, K, P) /\ Quiet(d, b)
      <4>1. b.route = d.route /\ b.view = d.view /\ b.calls = d.calls
        BY <1>3, <3>2, TokenIs DEF GoodTab
      <4>2. Quiet(d, b)
        BY <4>1, QuietView DEF SameList
      <4> QED BY <1>3, <3>2, <4>2, GoodToken
    <3>4. PICK e : e = Mount(b, "products", None)
      OBVIOUS
    <3>5. Goes(b, e)
      BY <3>3, <3>4, GoesMount
    <3>6. Goes(d, e)
      BY <3>3, <3>5, GoesAfter
    <3>7. Goes(c, e)
      BY <1>3, <3>6, GoesAfter
    <3>8. Heard(c, i) = IF Failed(c, i) THEN Show(c, i, Rested(c, "login")) ELSE e
      BY <1>2, <1>10, <2>2, <3>1, <3>2, <3>4 DEF Heard, LoginHeard
    <3> QED BY <1>8, <3>7, <3>8
  <2>3. CASE c.calls[i].kind = "orders"
    <3> DEFINE body == c.calls[i].body
               v == IF Failed(c, i) THEN [c.view EXCEPT !.loading = FALSE, !.failed = TRUE]
                    ELSE [c.view EXCEPT !.loading = FALSE, !.rows = body.rows, !.next = body.next]
    <3>1. Failed(c, i) => SameList(c.view, v)
      BY <1>1 DEF Views, SameList
    <3>2. Heard(c, i) = Show(c, i, v)
      BY <1>10, <2>3 DEF Heard, OrdersHeard
    <3> HIDE DEF v
    <3>3. Lists(c, i) \/ ~ c.calls[i].live \/ Failed(c, i)
      BY <1>1, <2>3 DEF Lists, LiveCalls, Live, Failed
    <3>4. Lists(c, i) \/ Quiet(c, Show(c, i, v))
      BY <1>1, <3>1, <3>3, QuietShow
    <3> QED BY <3>2, <3>4 DEF Goes
  <2>4. CASE c.calls[i].kind = "order"
    <3> DEFINE v == IF Failed(c, i) THEN [c.view EXCEPT !.loading = FALSE, !.failed = TRUE]
                    ELSE [c.view EXCEPT !.loading = FALSE, !.shown = c.calls[i].body]
    <3>1. SameList(c.view, v)
      BY <1>1 DEF Views, SameList
    <3>2. Heard(c, i) = Show(c, i, v)
      BY <1>10, <2>4 DEF Heard, OrderHeard
    <3> HIDE DEF v
    <3> QED BY <1>6, <3>1, <3>2
  <2>5. CASE c.calls[i].kind = "advance"
    BY <1>10, <2>5, GoesAdvanceHeard DEF Heard
  <2>6. CASE c.calls[i].kind = "label"
    BY <1>8, <1>10, <2>6 DEF Heard
  <2>7. CASE c.calls[i].kind = "products"
    BY <1>6, <1>10, <2>7 DEF Heard, SameList
  <2>8. CASE c.calls[i].kind = "product"
    <3> DEFINE v == IF Failed(c, i) THEN [c.view EXCEPT !.failed = TRUE]
                    ELSE [c.view EXCEPT !.draft = ProductToDraft(c.calls[i].body)]
    <3>1. SameList(c.view, v)
      BY <1>1 DEF Views, SameList
    <3>2. Heard(c, i) = Show(c, i, v)
      BY <1>10, <2>8 DEF Heard, ProductHeard
    <3> HIDE DEF v
    <3> QED BY <1>6, <3>1, <3>2
  <2>9. CASE c.calls[i].kind = "save"
    <3> DEFINE v == IF Failed(c, i) THEN Rested(c, "save")
                    ELSE [Rested(c, "save") EXCEPT !.draft = ProductToDraft(c.calls[i].body)]
    <3>1. SameList(c.view, v)
      BY <1>7 DEF Views, SameList
    <3>2. Heard(c, i) = Show(c, i, v)
      BY <1>10, <2>9 DEF Heard, SaveHeard
    <3> HIDE DEF v
    <3> QED BY <1>6, <3>1, <3>2
  <2>10. CASE c.calls[i].kind = "create"
    BY <1>2, <1>4, <1>8, <1>10, <2>10 DEF Heard, CreateHeard
  <2>11. CASE c.calls[i].kind = "retire"
    BY <1>2, <1>4, <1>8, <1>10, <2>11 DEF Heard, RetireHeard
  <2>12. CASE c.calls[i].kind = "upload"
    <3> DEFINE v == IF Failed(c, i) THEN Rested(c, "upload")
                    ELSE [Rested(c, "upload") EXCEPT !.draft = AddImage(@, c.calls[i].body)]
    <3>1. SameList(c.view, v)
      BY <1>7 DEF Views, SameList
    <3>2. Heard(c, i) = Show(c, i, v)
      BY <1>10, <2>12 DEF Heard, UploadHeard
    <3> HIDE DEF v
    <3> QED BY <1>6, <3>1, <3>2
  <2> QED BY <1>1, <2>1, <2>2, <2>3, <2>4, <2>5, <2>6, <2>7, <2>8, <2>9, <2>10, <2>11, <2>12
          DEF CallKind
<1> QED BY <1>9, <1>10

\* The rows take their place on the page.
LEMMA ListsIs ==
  ASSUME NEW K, NEW P, NEW c, GoodTab(c, K, P), NEW i, Answered(c, i), Lists(c, i)
  PROVE  LET d == Heard(c, i)
             body == c.calls[i].body
         IN /\ SamePage(c, d) /\ d.view.cursors = c.view.cursors /\ d.view.filters = c.view.filters
            /\ d.view.next = body.next /\ body.rows \subseteq K
            /\ \A j \in Slots : d.calls[j] = IF j = i THEN None ELSE c.calls[j]
<1>1. /\ i \in Slots /\ Shape(c) /\ c.view \in Views(K) /\ c.calls[i].live /\ ~ Failed(c, i)
      /\ c.calls[i].status = "ok" /\ c.calls[i].kind = "orders"
  BY DEF Answered, GoodTab, Lists, LiveCalls, Live, Failed
<1>2. PICK body : body = c.calls[i].body
  OBVIOUS
<1>3. body.rows \subseteq K
  <2>1. GoodCall(c.calls[i], K, P) /\ c.calls[i].status # None
    BY <1>1, AnswerIs, NoneIsNothing
  <2>2. body \in Bodies("orders", K, P)
    BY <1>1, <1>2, <2>1 DEF GoodCall
  <2> QED BY <2>2 DEF Bodies
<1>4. PICK w : w = [c.view EXCEPT !.loading = FALSE, !.rows = body.rows, !.next = body.next]
  OBVIOUS
<1>5. w.cursors = c.view.cursors /\ w.filters = c.view.filters /\ w.next = body.next
  BY <1>1, <1>4 DEF Views
<1>6. PICK d : d = Show(c, i, w)
  OBVIOUS
<1>7. Heard(c, i) = d
  BY <1>1, <1>2, <1>4, <1>6 DEF Heard, OrdersHeard
<1>8. /\ SamePage(c, d) /\ d.view = w
      /\ \A j \in Slots : d.calls[j] = IF j = i THEN None ELSE c.calls[j]
  BY <1>1, <1>6, ShowIs
<1> QED BY <1>2, <1>3, <1>5, <1>7, <1>8

-----------------------------------------------------------------------------
(* What a click does to the list.                                          *)

PagesOn(c, d) == c.route = "orders" /\ \E v : Leads(c.view, v) /\ Loaded(v, d)

Listed(op) ==
  \E d : tabs' = [tabs EXCEPT ![op] = d] /\ (Goes(tabs[op], d) \/ PagesOn(tabs[op], d))

\* A view with the same list, and then the same buttons or a question.
LEMMA ViewListed ==
  ASSUME NEW op, NEW c, c = tabs[op], NEW w, SameList(c.view, w), Shape(c),
         NEW b, b = [c EXCEPT !.view = w], NEW d, d = b \/ Quiet(b, d), tabs' = [tabs EXCEPT ![op] = d]
  PROVE  Listed(op)
<1>1. SamePage(c, b) /\ b.view = w /\ b.calls = c.calls
  BY ViewIs
<1>2. Quiet(c, b)
  BY <1>1, QuietView DEF SamePage
<1>3. Goes(c, d)
  BY <1>2, GoesAfter DEF Goes
<1> QED BY <1>3 DEF Listed

LEMMA StartListed ==
  ASSUME PagesInv, NEW op \in Operators, NEW kind, kind # "orders", NEW arg, Start(op, kind, arg)
  PROVE  Listed(op)
<1>1. PICK c : c = tabs[op]
  OBVIOUS
<1>2. Shape(c) /\ c.view \in Views(Known)
  BY <1>1, PageOf
<1>3. PICK w : w = [c.view EXCEPT !.busy = c.view.busy \cup {kind}]
  OBVIOUS
<1>4. SameList(c.view, w)
  BY <1>2, <1>3 DEF Views, SameList
<1>5. PICK b : b = [c EXCEPT !.view = w]
  OBVIOUS
<1>6. Shape(b)
  BY <1>2, <1>5, ViewIs
<1>7. PICK d : d = Ask(b, kind, arg)
  OBVIOUS
<1>8. Click(op, d)
  <2>1. [c EXCEPT !.view.busy = c.view.busy \cup {kind}] = b
    BY <1>2, <1>3, <1>5 DEF Shape
  <2>2. Click(op, Ask([c EXCEPT !.view.busy = @ \cup {kind}], kind, arg))
    BY <1>1 DEF Start
  <2> QED BY <1>7, <2>1, <2>2
<1>9. Quiet(b, d)
  BY <1>6, <1>7, QuietAsk
<1>10. tabs' = [tabs EXCEPT ![op] = d]
  BY <1>8 DEF Click
<1> QED BY <1>1, <1>2, <1>4, <1>5, <1>9, <1>10, ViewListed

LEMMA FollowListed ==
  ASSUME PagesInv, NEW op \in Operators, Follow(op)
  PROVE  Listed(op)
<1>1. ASSUME NEW route, NEW subject, Click(op, Mount(tabs[op], route, subject))
      PROVE  Listed(op)
  <2>1. PICK d : d = Mount(tabs[op], route, subject)
    OBVIOUS
  <2>2. Goes(tabs[op], d)
    BY <2>1, PageOf, GoesMount
  <2> QED BY <1>1, <2>1, <2>2 DEF Listed, Click
<1>2. ASSUME Click(op, SignOut(tabs[op]))
      PROVE  Listed(op)
  <2>1. PICK d : d = SignOut(tabs[op])
    OBVIOUS
  <2>2. Goes(tabs[op], d)
    BY <2>1, PageOf, GoesSignOut
  <2> QED BY <1>2, <2>1, <2>2 DEF Listed, Click
<1> QED BY <1>1, <1>2 DEF Follow

LEMMA ChooseListed ==
  ASSUME PagesInv, NEW op \in Operators, Choose(op)
  PROVE  Listed(op)
<1>1. PICK f \in Filters : Click(op, [tabs[op] EXCEPT !.view.choice = f])
  BY DEF Choose
<1>2. PICK c : c = tabs[op]
  OBVIOUS
<1>3. c.view \in Views(Known) /\ Shape(c)
  BY <1>2, PageOf
<1>4. PICK w : w = [c.view EXCEPT !.choice = f]
  OBVIOUS
<1>5. SameList(c.view, w)
  BY <1>3, <1>4 DEF Views, SameList
<1>6. PICK d : d = [c EXCEPT !.view = w]
  OBVIOUS
<1>7. d = [tabs[op] EXCEPT !.view.choice = f]
  BY <1>2, <1>3, <1>4, <1>6 DEF Shape
<1>8. tabs' = [tabs EXCEPT ![op] = d]
  BY <1>1, <1>7 DEF Click
<1> QED BY <1>2, <1>3, <1>5, <1>6, <1>8, ViewListed

LEMMA PagesListed ==
  ASSUME PagesInv, NEW op \in Operators, ApplyFilters(op) \/ GoNext(op) \/ GoPrev(op)
  PROVE  Listed(op)
<1>1. PICK w : Reloads(op, w)
  BY ReloadIs
<1>2. PICK c, b : c = tabs[op] /\ b = [c EXCEPT !.view = w]
  OBVIOUS
<1>3. /\ w \in Views(Known) /\ Leads(c.view, w) /\ c.route = "orders"
      /\ Click(op, LoadOrders(b))
  BY <1>1, <1>2, ReloadIs DEF Reloads, On
<1>4. GoodTab(b, Known, Stocked) /\ b.view = w
  BY <1>2, <1>3, PageOf, GoodView, ViewIs
<1>5. PICK d : d = LoadOrders(b)
  OBVIOUS
<1>6. Loaded(w, d)
  BY <1>4, <1>5, LoadsOrders
<1>7. PagesOn(c, d)
  BY <1>3, <1>6 DEF PagesOn
<1>8. tabs' = [tabs EXCEPT ![op] = d]
  BY <1>3, <1>5 DEF Click
<1> QED BY <1>2, <1>7, <1>8 DEF Listed

LEMMA TryAgainListed ==
  ASSUME PagesInv, NEW op \in Operators, TryAgain(op)
  PROVE  Listed(op)
<1>1. PICK d : d = LoadOrder(tabs[op])
  OBVIOUS
<1>2. Goes(tabs[op], d)
  BY <1>1, PageOf, QuietLoadOrder DEF Goes
<1> QED BY <1>1, <1>2 DEF TryAgain, Listed

LEMMA EditListed ==
  ASSUME PagesInv, NEW op \in Operators, EditForm(op)
  PROVE  Listed(op)
<1>1. PICK c : c = tabs[op]
  OBVIOUS
<1>2. c.view \in Views(Known) /\ Shape(c)
  BY <1>1, PageOf
<1>3. \E draft, mine : Edit(op, draft, mine)
  BY DEF EditForm
<1>4. PICK draft, mine : Edit(op, draft, mine)
  BY <1>3
<1>5. PICK w : w = [c.view EXCEPT !.draft = draft]
  OBVIOUS
<1>6. SameList(c.view, w)
  BY <1>2, <1>5 DEF Views, SameList
<1>7. PICK d : d = [c EXCEPT !.view = w]
  OBVIOUS
<1>8. d = [c EXCEPT !.view.draft = draft]
  BY <1>2, <1>5, <1>7 DEF Shape
<1>9. tabs' = [tabs EXCEPT ![op] = d]
  <2>1. tabs = [x \in Operators |-> tabs[x]]
    BY DEF PagesInv, TypeInv
  <2>2. tabs' = [tabs EXCEPT ![op].view.draft = draft]
    BY <1>4 DEF Edit
  <2>3. tabs' = [tabs EXCEPT ![op] = [c EXCEPT !.view.draft = draft]]
    BY <1>1, <2>1, <2>2
  <2> QED BY <1>8, <2>3
<1> QED BY <1>1, <1>2, <1>6, <1>7, <1>9, ViewListed

LEMMA SaveListed ==
  ASSUME PagesInv, NEW op \in Operators, SaveForm(op)
  PROVE  Listed(op)
<1>1. PICK c : c = tabs[op]
  OBVIOUS
<1>2. c.view \in Views(Known) /\ Shape(c)
  BY <1>1, PageOf
<1>3. PICK w : w = [c.view EXCEPT !.busy = c.view.busy \cup {"save"}]
  OBVIOUS
<1>4. SameList(c.view, w)
  BY <1>2, <1>3 DEF Views, SameList
<1>5. PICK b : b = [c EXCEPT !.view = w]
  OBVIOUS
<1>6. Shape(b)
  BY <1>2, <1>5, ViewIs
<1>7. PICK kind, id : Saves(op, b, kind, id)
  <2>1. b = [c EXCEPT !.view.busy = @ \cup {"save"}]
    BY <1>2, <1>3, <1>5 DEF Shape
  <2>2. b = [tabs[op] EXCEPT !.view.busy = @ \cup {"save"}]
    BY <1>1, <2>1
  <2> QED BY <2>2, SaveIs
<1>8. PICK arg : arg = [id |-> id, product |-> tabs[op].view.draft]
  OBVIOUS
<1>9. PICK d : d = Ask(b, kind, arg)
  OBVIOUS
<1>10. Quiet(b, d)
  <2>1. kind # "orders"
    BY <1>7 DEF Saves
  <2> QED BY <1>6, <1>9, <2>1, QuietAsk
<1>11. tabs' = [tabs EXCEPT ![op] = d]
  BY <1>7, <1>8, <1>9 DEF Saves, Click
<1> QED BY <1>1, <1>2, <1>4, <1>5, <1>10, <1>11, ViewListed

LEMMA ButtonsListed ==
  ASSUME PagesInv, NEW op \in Operators,
         ClickLogin(op) \/ Advance(op) \/ PrintLabel(op) \/ PickImage(op) \/ RetireProduct(op)
  PROVE  Listed(op)
<1>1. PICK c : c = tabs[op]
  OBVIOUS
<1>2. c.view \in Views(Known) /\ Shape(c)
  BY <1>1, PageOf
<1>3. ASSUME NEW kind \in {"login", "advance", "label", "upload", "retire"}, NEW arg, Start(op, kind, arg)
      PROVE  Listed(op)
  BY <1>3, StartListed
<1>4. ASSUME Click(op, [c EXCEPT !.view.confirm = ~ @])
      PROVE  Listed(op)
  <2>1. PICK b \in BOOLEAN : b = ~ c.view.confirm
    OBVIOUS
  <2>2. PICK w : w = [c.view EXCEPT !.confirm = b]
    OBVIOUS
  <2>3. SameList(c.view, w)
    BY <1>2, <2>2 DEF Views, SameList
  <2>4. PICK d : d = [c EXCEPT !.view = w]
    OBVIOUS
  <2>5. [c EXCEPT !.view.confirm = ~ @] = d
    <3>1. [c EXCEPT !.view.confirm = ~ @] = [c EXCEPT !.view.confirm = b]
      BY <2>1
    <3> QED BY <1>2, <2>2, <2>4, <3>1 DEF Shape
  <2>6. tabs' = [tabs EXCEPT ![op] = d]
    BY <1>4, <2>5 DEF Click
  <2> QED BY <1>1, <1>2, <2>3, <2>4, <2>6, ViewListed
<1> QED BY <1>1, <1>3, <1>4 DEF ClickLogin, Advance, PrintLabel, PickImage, RetireProduct

LEMMA ClicksListed ==
  ASSUME PagesInv, NEW op \in Operators, Clicks(op)
  PROVE  Listed(op)
BY FollowListed, ChooseListed, PagesListed, TryAgainListed, EditListed, SaveListed, ButtonsListed
   DEF Clicks

-----------------------------------------------------------------------------
(* The book and the history of the walk.                                   *)

\* The orders that changed or were settled need not be shown.
Dropped(o) == [x \in Operators |-> [walk[x] EXCEPT !.steady = @ \ {o}]]

LEMMA DroppedIs ==
  ASSUME NEW K, walk \in [Operators -> Walk(K)], NEW o
  PROVE  /\ Dropped(o) \in [Operators -> Walk(K)]
         /\ \A x \in Operators : /\ Dropped(o)[x].pages = walk[x].pages
                                 /\ Dropped(o)[x].steady = walk[x].steady \ {o}
<1>1. ASSUME NEW x \in Operators
      PROVE  /\ Dropped(o)[x] \in Walk(K) /\ Dropped(o)[x].pages = walk[x].pages
             /\ Dropped(o)[x].steady = walk[x].steady \ {o}
  <2>1. PICK w \in Walk(K) : w = walk[x]
    OBVIOUS
  <2>2. PICK v : v = [w EXCEPT !.steady = w.steady \ {o}]
    OBVIOUS
  <2>3. Dropped(o)[x] = v
    BY <2>1, <2>2 DEF Dropped
  <2>4. v \in Walk(K) /\ v.pages = w.pages /\ v.steady = w.steady \ {o}
    BY <2>2 DEF Walk
  <2> QED BY <2>1, <2>3, <2>4
<1> QED BY <1>1 DEF Dropped

\* Who writes a walk or an order.
LEMMA HistoryIs ==
  ASSUME PagesInv, [Next]_vars
  PROVE  \/ UNCHANGED <<book, walk>>
         \/ \E op \in Operators, i \in Slots :
              \/ WriteAdvance(op, i) \/ ServeOrders(op, i)
              \/ Hear(op, i) /\ Lists(tabs[op], i)
         \/ \E o \in OrderIds : OrderComes(o) \/ OrderSettles(o)
<1>1. CASE UNCHANGED vars
  BY <1>1 DEF vars, server, history
<1>2. ASSUME NEW op \in desk.crew, Clicks(op)
      PROVE  UNCHANGED <<book, walk>>
  BY <1>2 DEF Clicks, ClickLogin, Follow, Choose, ApplyFilters, GoNext, GoPrev, Advance, PrintLabel,
              TryAgain, EditForm, Edit, PickImage, SaveForm, RetireProduct, Start, Click, server, history
<1>3. ASSUME World
      PROVE  UNCHANGED <<book, walk>> \/ \E o \in OrderIds : OrderComes(o) \/ OrderSettles(o)
  BY <1>3 DEF World, Tick, StockMoves, SessionLapses, history
<1>4. ASSUME NEW op \in Operators, NEW i \in Slots, Serve(op, i) \/ Lose(op, i)
      PROVE  UNCHANGED <<book, walk>> \/ WriteAdvance(op, i) \/ ServeOrders(op, i)
  BY <1>4 DEF Serve, ServeRead, ServeProduct, ReadForAdvance, ServeSave, ServeCreate,
              ServeRetire, ServeUpload, ServeLogin, ServeRefusal, Lose, server, history
<1>5. ASSUME NEW op \in Operators, NEW i \in Slots, Hear(op, i)
      PROVE  UNCHANGED <<book, walk>> \/ Lists(tabs[op], i)
  <2>1. PICK f : f = tabs[op].calls[i]
    OBVIOUS
  <2>2. CASE f.live /\ f.status = "ok" /\ f.kind = "orders"
    BY <1>5, <2>1, <2>2 DEF Hear, Lists, LiveCalls, Live
  <2>3. CASE ~ (f.live /\ f.status = "ok" /\ f.kind = "orders")
    BY <1>5, <2>1, <2>3 DEF Hear, server
  <2> QED BY <2>2, <2>3
<1> QED BY <1>1, <1>2, <1>3, <1>4, <1>5 DEF Next

\* An order stays, and its time; a walk that does not leave it out knows it as it is.
Steady(op) ==
  /\ walk'[op].pages = walk[op].pages /\ walk'[op].steady \subseteq walk[op].steady
  /\ \A o \in walk'[op].steady : book'[o] = book[o]

Dated(b, b2) == \A o \in OrderIds : b[o] # None => b2[o] # None /\ b2[o].created = b[o].created

WalkTypes == IsFiniteSet(Known) /\ walk \in [Operators -> Walk(Known)]

LEMMA DropIs ==
  ASSUME PagesInv, WalkTypes, NEW o \in Known, NEW order, order \in Order, order.created = book[o].created,
         book' = book \/ book' = [book EXCEPT ![o] = order], walk' = Dropped(o)
  PROVE  Dated(book, book') /\ WalkTypes' /\ \A op \in Operators : Steady(op)
<1>1. book \in [OrderIds -> Order \cup {None}] /\ None \notin Order
  BY ShelfIs DEF PagesInv
<1>2. PICK b : b = book'
  OBVIOUS
<1>3. \A x \in OrderIds : x # o => b[x] = book[x]
  BY <1>1, <1>2
<1>4. b[o] = book[o] \/ b[o] = order
  BY <1>1, <1>2 DEF Known
<1>5. Dated(book, b)
  BY <1>1, <1>3, <1>4 DEF Dated
<1>6. \A x \in OrderIds : b[x] # None <=> book[x] # None
  BY <1>1, <1>3, <1>4 DEF Known
<1>7. Known' = Known
  BY <1>2, <1>6 DEF Known
<1>8. walk' \in [Operators -> Walk(Known)]
  BY DroppedIs DEF WalkTypes
<1>9. WalkTypes'
  BY <1>7, <1>8 DEF WalkTypes
<1>10. ASSUME NEW op \in Operators
       PROVE  Steady(op)
  <2>1. walk'[op].pages = walk[op].pages /\ walk'[op].steady = walk[op].steady \ {o}
    BY DroppedIs DEF WalkTypes
  <2>2. walk[op].steady \subseteq OrderIds
    BY DEF WalkTypes, Walk, Known
  <2> QED BY <1>2, <1>3, <2>1, <2>2 DEF Steady
<1> QED BY <1>2, <1>5, <1>9, <1>10

LEMMA HistoryStep ==
  ASSUME PagesInv, WalkTypes, [Next]_vars
  PROVE  \/ Dated(book, book') /\ WalkTypes' /\ \A op \in Operators : Steady(op)
         \/ \E op \in Operators, i \in Slots :
              ServeOrders(op, i) \/ (Hear(op, i) /\ Lists(tabs[op], i))
<1> DEFINE Kept == Dated(book, book') /\ WalkTypes' /\ \A op \in Operators : Steady(op)
<1>1. book \in [OrderIds -> Order \cup {None}] /\ None \notin Order
  BY ShelfIs DEF PagesInv, TypeInv
<1>2. walk \in [Operators -> Walk(Known)] /\ IsFiniteSet(Known)
  BY DEF WalkTypes
<1>3. \A x \in Operators : walk[x].steady \subseteq Known
  BY <1>2 DEF Walk
<1>4. CASE UNCHANGED <<book, walk>>
  BY <1>2, <1>4 DEF Dated, WalkTypes, Known, Steady
<1>5. ASSUME NEW x \in Operators, NEW i \in Slots, WriteAdvance(x, i)
      PROVE  Kept
  <2>1. PICK f, o : f = tabs[x].calls[i] /\ o = f.arg.order
    OBVIOUS
  <2>2. o \in Known /\ f.arg.to \in Range(Steps) /\ book[o] \in Order
    BY <1>5, <2>1, WriteIs
  <2>3. PICK order : order = [book[o] EXCEPT !.fulfilment = f.arg.to]
    OBVIOUS
  <2>4. order \in Order /\ order.created = book[o].created
    BY <2>2, <2>3 DEF Order, Fulfilment
  <2>5. book' = book \/ book' = [book EXCEPT ![o] = order]
    BY <1>5, <2>1, <2>3, WriteIs
  <2>6. walk' = Dropped(o)
    BY <1>5, <2>1 DEF WriteAdvance, Dropped
  <2> QED BY <2>2, <2>4, <2>5, <2>6, DropIs
<1>6. ASSUME NEW o \in OrderIds, OrderSettles(o)
      PROVE  Kept
  <2>1. PICK s \in {"placed", "expired"} : book' = [book EXCEPT ![o].status = s]
    BY <1>6 DEF OrderSettles
  <2>2. PICK order : order = [book[o] EXCEPT !.status = s]
    OBVIOUS
  <2>3. o \in Known /\ book[o] \in Order
    BY <1>1, <1>6 DEF OrderSettles, Known
  <2>4. order \in Order /\ order.created = book[o].created
    BY <2>2, <2>3 DEF Order, Status
  <2>5. book' = [book EXCEPT ![o] = order]
    BY <2>1, <2>2
  <2>6. walk' = Dropped(o)
    BY <1>6 DEF OrderSettles, Dropped
  <2> QED BY <2>3, <2>4, <2>5, <2>6, DropIs
<1>7. ASSUME NEW o \in OrderIds, OrderComes(o)
      PROVE  Kept
  <2>1. PICK order : order = [created |-> now, status |-> "pending", fulfilment |-> FulfilmentNone]
    OBVIOUS
  <2>2. book[o] = None /\ book' = [book EXCEPT ![o] = order] /\ walk' = walk
    BY <1>7, <2>1 DEF OrderComes, history
  <2>3. \A x \in OrderIds \ {o} : book'[x] = book[x]
    BY <1>1, <2>2
  <2>4. o \notin Known
    BY <2>2 DEF Known
  <2>5. Known' \subseteq Known \cup {o} /\ Known \subseteq Known'
    BY <2>3, <2>4 DEF Known
  <2>6. IsFiniteSet(Known')
    <3>1. IsFiniteSet(Known \cup {o})
      BY <1>2, FS_AddElement
    <3> QED BY <2>5, <3>1, FS_Subset
  <2>7. PICK K : K = Known'
    OBVIOUS
  <2>8. walk \in [Operators -> Walk(K)]
    <3>1. Known \subseteq K
      BY <2>5, <2>7
    <3>2. Walk(Known) \subseteq Walk(K)
      BY <3>1 DEF Walk
    <3> QED BY <1>2, <3>2
  <2>9. WalkTypes'
    BY <2>2, <2>6, <2>7, <2>8 DEF WalkTypes
  <2>10. Dated(book, book')
    BY <2>2, <2>3 DEF Dated
  <2>11. ASSUME NEW op \in Operators
         PROVE  Steady(op)
    <3>1. walk[op].steady \subseteq OrderIds \ {o}
      BY <1>3, <2>4 DEF Known
    <3> QED BY <2>2, <2>3, <3>1 DEF Steady
  <2> QED BY <2>9, <2>10, <2>11
<1>8. \/ UNCHANGED <<book, walk>>
      \/ \E op \in Operators, i \in Slots :
           \/ WriteAdvance(op, i) \/ ServeOrders(op, i)
           \/ Hear(op, i) /\ Lists(tabs[op], i)
      \/ \E o \in OrderIds : OrderComes(o) \/ OrderSettles(o)
  BY HistoryIs
<1> HIDE DEF Kept
<1>9. \/ Kept
      \/ \E op \in Operators, i \in Slots :
           ServeOrders(op, i) \/ (Hear(op, i) /\ Lists(tabs[op], i))
  <2>1. CASE UNCHANGED <<book, walk>>
    BY <1>4, <2>1 DEF Kept
  <2> QED BY <1>5, <1>6, <1>7, <1>8, <2>1
<1> QED BY <1>9 DEF Kept

\* The step is about the list of x and keeps the others' walks.
Walks(x) ==
  /\ book' = book /\ walk' \in [Operators -> Walk(Known)]
  /\ \A y \in Operators \ {x} : walk'[y] = walk[y] /\ tabs'[y] = tabs[y]
  /\ tabs'[x].route = "orders" => WalkInv(walk'[x], book, tabs'[x])

LEMMA ServeWalks ==
  ASSUME PagesInv, WalksInv, NEW x \in Operators, NEW i \in Slots, ServeOrders(x, i)
  PROVE  Walks(x)
<1>1. PICK c, f : c = tabs[x] /\ f = c.calls[i]
  OBVIOUS
<1>2. PICK q : q = f.arg
  OBVIOUS
<1>3. PICK w \in Walk(Known) : w = walk[x]
  BY DEF WalksInv
<1>4. PICK rows \in ListAll(book, q.filter, q.before) :
        Reply(x, i, "ok", [rows |-> rows, next |-> NextBefore(book, rows)])
  BY <1>1, <1>2 DEF ServeOrders
<1>5. PICK body : body = [rows |-> rows, next |-> NextBefore(book, rows)]
  OBVIOUS
<1>6. PICK g : g = Turned(f, "answered", "ok", body)
  OBVIOUS
<1>7. PICK d : d = WithCall(c, i, g)
  OBVIOUS
<1>8. f # None /\ f.kind = "orders"
  BY <1>1, <1>2 DEF ServeOrders, Calling
<1>9. tabs' = [tabs EXCEPT ![x] = d]
  BY <1>1, <1>4, <1>5, <1>6, <1>7, <1>8, ReplyIs DEF PagesInv
<1>10. tabs'[x] = d /\ \A y \in Operators \ {x} : tabs'[y] = tabs[y]
  BY <1>9 DEF PagesInv, TypeInv
<1>11. /\ GoodTab(c, Known, Stocked) /\ Shape(c) /\ c.view \in Views(Known)
       /\ d.route = c.route /\ d.view = c.view
       /\ \A j \in Slots : d.calls[j] = IF j = i THEN g ELSE c.calls[j]
  BY <1>1, <1>7, PageOf, WithCallIs DEF SamePage
<1>12. /\ g.kind = "orders" /\ g.arg = q /\ g.live = f.live /\ g.status = "ok"
       /\ g.body.rows = rows /\ g.body.next = NextBefore(book, rows)
  BY <1>2, <1>5, <1>6, <1>8 DEF Turned
<1>13. PICK set : set = Candidates(book, q.filter, None)
  OBVIOUS
<1>14. PICK v : v = [w EXCEPT !.steady = set]
  OBVIOUS
<1>15. v \in Walk(Known) /\ v.pages = w.pages /\ v.steady = set
  <2>1. set \subseteq Known
    BY <1>13 DEF Candidates, Known
  <2> QED BY <1>14, <2>1 DEF Walk
<1>16. /\ book' = book
       /\ q.before = None /\ f.live => walk' = [walk EXCEPT ![x] = v]
       /\ ~ (q.before = None /\ f.live) => walk' = walk
  <2>1. walk' = IF q.before = None /\ f.live THEN [walk EXCEPT ![x].steady = set] ELSE walk
    BY <1>1, <1>2, <1>13 DEF ServeOrders
  <2> QED BY <1>3, <1>14, <2>1 DEF ServeOrders, server
<1>17. walk \in [Operators -> Walk(Known)]
  BY DEF WalksInv
<1>18. walk' \in [Operators -> Walk(Known)] /\ \A y \in Operators \ {x} : walk'[y] = walk[y]
  <2>1. walk' = [walk EXCEPT ![x] = v] \/ walk' = walk
    BY <1>16
  <2> QED BY <1>15, <1>17, <2>1
<1>19. PICK w2 : w2 = walk'[x]
  OBVIOUS
<1>20. ASSUME c.route = "orders"
       PROVE  WalkInv(w2, book, d)
  <2>1. WalkInv(w, book, c)
    BY <1>1, <1>3, <1>20 DEF WalksInv
  <2>2. CASE f.live
    <3>1. i \in LiveCalls(c, {"orders"})
      BY <1>1, <1>8, <2>2 DEF LiveCalls, Live
    <3>2. w2.pages = w.pages
          /\ w2.steady = IF q.before = None THEN Candidates(book, q.filter, None) ELSE w.steady
      BY <1>3, <1>13, <1>15, <1>16, <1>17, <1>19, <2>2
    <3>3. book \in [OrderIds -> Order \cup {None}] /\ IsFiniteSet(Known)
      BY DEF PagesInv, TypeInv, WalksInv
    <3>4. c.view.cursors \in Seq(Cursor) \ {<<>>}
      BY <1>11 DEF Views
    <3> QED BY <1>1, <1>2, <1>11, <1>12, <2>1, <3>1, <3>2, <3>3, <3>4, WalkListed
  <2>3. CASE ~ f.live
    <3>1. Quiet(c, d)
      <4>1. ASSUME NEW j \in LiveCalls(d, {"orders"})
            PROVE  j \in LiveCalls(c, {"orders"}) /\ d.calls[j] = c.calls[j]
        BY <1>11, <1>12, <2>3, <4>1 DEF LiveCalls, Live
      <4> QED BY <1>11, <4>1 DEF Quiet, SameList
    <3>2. w2 = w
      BY <1>3, <1>16, <1>19, <2>3
    <3> QED BY <2>1, <3>1, <3>2, WalkQuiet
  <2> QED BY <2>2, <2>3
<1> QED BY <1>10, <1>11, <1>16, <1>18, <1>19, <1>20 DEF Walks

LEMMA HearWalks ==
  ASSUME PagesInv, WalksInv, NEW x \in Operators, NEW i \in Slots, Hear(x, i), Lists(tabs[x], i)
  PROVE  Walks(x)
<1>1. PICK c, f : c = tabs[x] /\ f = c.calls[i]
  OBVIOUS
<1>2. PICK w \in Walk(Known) : w = walk[x]
  BY DEF WalksInv
<1>3. PICK d : d = Heard(c, i)
  OBVIOUS
<1>4. PICK rows : rows = f.body.rows
  OBVIOUS
<1>5. PICK pages : pages = Append(SubSeq(w.pages, 1, Len(c.view.cursors) - 1), rows)
  OBVIOUS
<1>6. PICK v : v = [w EXCEPT !.pages = pages]
  OBVIOUS
<1>7. /\ i \in LiveCalls(c, {"orders"}) /\ f # None /\ f.live /\ f.status = "ok" /\ f.kind = "orders"
      /\ Answered(c, i) /\ Lists(c, i)
  BY <1>1 DEF Lists, LiveCalls, Live, Hear, Answered
<1>8. GoodTab(c, Known, Stocked) /\ c.view.cursors \in Seq(Cursor) \ {<<>>} /\ OfThePage(c, f)
  BY <1>1, <1>7, PageOf, AnswerIs DEF Views
<1>9. c.route = "orders"
  BY <1>7, <1>8 DEF OfThePage
<1>10. /\ SamePage(c, d) /\ d.view.cursors = c.view.cursors /\ d.view.filters = c.view.filters
       /\ d.view.next = f.body.next /\ rows \subseteq Known
       /\ \A j \in Slots : d.calls[j] = IF j = i THEN None ELSE c.calls[j]
  BY <1>1, <1>3, <1>4, <1>7, <1>8, ListsIs
<1>11. WalkInv(w, book, c)
  BY <1>1, <1>2, <1>9 DEF WalksInv
<1>12. LiveCalls(d, {"orders"}) = {}
  <2>1. \A j \in LiveCalls(c, {"orders"}) : j = i
    BY <1>7, <1>11 DEF WalkInv, Single
  <2> QED BY <1>10, <2>1 DEF LiveCalls, Live
<1>13. v.steady = w.steady /\ v.pages = pages /\ w.pages \in Seq(SUBSET OrderIds)
  BY <1>6 DEF Walk
<1>14. rows \in SUBSET OrderIds
  BY <1>10 DEF Known
<1>15. WalkInv(v, book, d) /\ pages \in Seq(SUBSET OrderIds)
  <2>1. w.pages \in Seq(SUBSET OrderIds) /\ c.view.cursors \in Seq(Cursor) \ {<<>>}
    BY <1>8, <1>13
  <2>2. i \in LiveCalls(c, {"orders"}) /\ c.calls[i].status = "ok" /\ rows = c.calls[i].body.rows
    BY <1>1, <1>4, <1>7
  <2>3. d.view.cursors = c.view.cursors /\ d.view.filters = c.view.filters
    BY <1>10
  <2>4. d.view.next = c.calls[i].body.next
    BY <1>1, <1>10
  <2>5. v.steady = w.steady /\ v.pages = Append(SubSeq(w.pages, 1, Len(c.view.cursors) - 1), rows)
    BY <1>5, <1>13
  <2>6. WalkInv(v, book, d) /\ v.pages \in Seq(SUBSET OrderIds)
    BY <1>11, <1>12, <1>14, <2>1, <2>2, <2>3, <2>4, <2>5, WalkHeard
  <2> QED BY <1>13, <2>6
<1>16. v \in Walk(Known)
  BY <1>6, <1>15 DEF Walk
<1>17. book' = book /\ walk' = [walk EXCEPT ![x] = v] /\ tabs' = [tabs EXCEPT ![x] = d]
  <2>1. Walked(x, f) = v
    BY <1>1, <1>2, <1>4, <1>5, <1>6 DEF Walked
  <2> QED BY <1>1, <1>3, <1>7, <2>1 DEF Hear, server
<1>18. walk \in [Operators -> Walk(Known)] /\ tabs = [y \in Operators |-> tabs[y]]
  BY DEF WalksInv, PagesInv, TypeInv
<1>19. walk' \in [Operators -> Walk(Known)] /\ walk'[x] = v /\ tabs'[x] = d
  BY <1>16, <1>17, <1>18
<1>20. \A y \in Operators \ {x} : walk'[y] = walk[y] /\ tabs'[y] = tabs[y]
  BY <1>17, <1>18
<1> QED BY <1>15, <1>17, <1>19, <1>20 DEF Walks

-----------------------------------------------------------------------------
(* What a step of the system does to the list of an operator.              *)

LEMMA QuietSame ==
  ASSUME NEW c, NEW d, d = c
  PROVE  Quiet(c, d)
BY DEF Quiet, SameList

\* It keeps the list or loads it, or it is about the list.
ListMoves(op) ==
  \/ Goes(tabs[op], tabs'[op]) \/ PagesOn(tabs[op], tabs'[op])
  \/ \E i \in Slots : ServeOrders(op, i) \/ (Hear(op, i) /\ Lists(tabs[op], i))

LEMMA EachListMoves ==
  ASSUME PagesInv, [Next]_vars, NEW op \in Operators
  PROVE  ListMoves(op)
<1>1. tabs = [x \in Operators |-> tabs[x]]
  BY DEF PagesInv, TypeInv
<1>2. CASE tabs'[op] = tabs[op]
  <2>1. Quiet(tabs[op], tabs'[op])
    BY <1>2, QuietSame
  <2> QED BY <2>1 DEF ListMoves, Goes
<1>3. ASSUME NEW x \in desk.crew, Clicks(x)
      PROVE  ListMoves(op)
  <2>1. x \in Operators
    BY <1>3, DesksAssumption DEF PagesInv, TypeInv
  <2>2. Listed(x)
    BY <1>3, <2>1, ClicksListed
  <2>3. PICK d : tabs' = [tabs EXCEPT ![x] = d] /\ (Goes(tabs[x], d) \/ PagesOn(tabs[x], d))
    BY <2>2 DEF Listed
  <2>4. CASE x = op
    <3>1. tabs'[op] = d
      BY <1>1, <2>3, <2>4
    <3> QED BY <2>3, <2>4, <3>1 DEF ListMoves
  <2>5. CASE x # op
    <3>1. tabs'[op] = tabs[op]
      BY <1>1, <2>3, <2>5
    <3> QED BY <1>2, <3>1
  <2> QED BY <2>4, <2>5
<1>4. ASSUME NEW x \in Operators, NEW i \in Slots, Hear(x, i)
      PROVE  ListMoves(op)
  <2>1. PICK c, d : c = tabs[x] /\ d = Heard(c, i)
    OBVIOUS
  <2>2. Answered(c, i) /\ tabs' = [tabs EXCEPT ![x] = d]
    BY <1>4, <2>1 DEF Hear, Answered
  <2>3. Lists(c, i) \/ Goes(c, d)
    BY <2>1, <2>2, PageOf, GoesHeard
  <2>4. CASE x = op
    <3>1. tabs'[op] = d
      BY <1>1, <2>2, <2>4
    <3> QED BY <1>4, <2>1, <2>3, <2>4, <3>1 DEF ListMoves
  <2>5. CASE x # op
    <3>1. tabs'[op] = tabs[op]
      BY <1>1, <2>2, <2>5
    <3> QED BY <1>2, <3>1
  <2> QED BY <2>4, <2>5
<1>5. ASSUME NEW x \in Operators, NEW i \in Slots, Serve(x, i) \/ Lose(x, i)
      PROVE  ListMoves(op)
  <2>1. PICK g : Turns(x, i, g)
    BY <1>5, ServedTurns
  <2>2. CASE x = op
    <3>1. PICK c, d : c = tabs[op] /\ d = tabs'[op]
      OBVIOUS
    <3>2. /\ SamePage(c, d) /\ d.view = c.view
          /\ \A j \in Slots : d.calls[j] = IF j = i THEN g ELSE c.calls[j]
      BY <2>1, <2>2, <3>1, TurnsIs
    <3>3. c.calls[i] # None /\ g.kind = c.calls[i].kind /\ g.arg = c.calls[i].arg
          /\ g.live = c.calls[i].live
      BY <2>1, <2>2, <3>1 DEF Turns
    <3>4. CASE g.status = "ok" /\ g.kind = "orders"
      <4>1. ServeOrders(op, i)
        BY <2>1, <2>2, <3>4 DEF Turns, Tells
      <4> QED BY <4>1 DEF ListMoves
    <3>5. CASE ~ (g.status = "ok" /\ g.kind = "orders")
      <4>1. ASSUME NEW j \in LiveCalls(d, {"orders"})
            PROVE  /\ j \in LiveCalls(c, {"orders"}) /\ d.calls[j].arg = c.calls[j].arg
                   /\ d.calls[j].status = "ok" =>
                        c.calls[j].status = "ok" /\ d.calls[j].body = c.calls[j].body
        BY <3>2, <3>3, <3>5, <4>1 DEF LiveCalls, Live
      <4>2. Quiet(c, d)
        BY <3>2, <4>1 DEF Quiet, SameList, SamePage
      <4> QED BY <3>1, <4>2 DEF ListMoves, Goes
    <3> QED BY <3>4, <3>5
  <2>3. CASE x # op
    <3>1. tabs'[op] = tabs[op]
      BY <2>1, <2>3, TurnsIs
    <3> QED BY <1>2, <3>1
  <2> QED BY <2>2, <2>3
<1>6. CASE UNCHANGED tabs
  BY <1>2, <1>6
<1> QED BY <1>3, <1>4, <1>5, <1>6 DEF Next, World, Tick, OrderComes, OrderSettles, StockMoves,
                                      SessionLapses, Meanwhile, vars

LEMMA WalksStep ==
  ASSUME PagesInv, WalksInv, [Next]_vars
  PROVE  WalksInv'
<1>1. ASSUME NEW x \in Operators, Walks(x)
      PROVE  WalksInv'
  <2>1. book' = book /\ Known' = Known /\ IsFiniteSet(Known) /\ walk' \in [Operators -> Walk(Known)]
    BY <1>1 DEF Walks, WalksInv, Known
  <2>2. ASSUME NEW op \in Operators, tabs'[op].route = "orders"
        PROVE  WalkInv(walk'[op], book', tabs'[op])
    <3>1. CASE op = x
      BY <1>1, <2>2, <3>1 DEF Walks
    <3>2. CASE op # x
      <4>1. walk'[op] = walk[op] /\ tabs'[op] = tabs[op]
        BY <1>1, <3>2 DEF Walks
      <4>2. WalkInv(walk[op], book, tabs[op])
        BY <2>2, <4>1 DEF WalksInv
      <4> QED BY <2>1, <4>1, <4>2
    <3> QED BY <3>1, <3>2
  <2> QED BY <2>1, <2>2 DEF WalksInv
<1>2. CASE \E op \in Operators, i \in Slots : ServeOrders(op, i) \/ (Hear(op, i) /\ Lists(tabs[op], i))
  BY <1>1, <1>2, ServeWalks, HearWalks
<1>3. CASE ~ \E op \in Operators, i \in Slots :
               ServeOrders(op, i) \/ (Hear(op, i) /\ Lists(tabs[op], i))
  <2>1. WalkTypes
    BY DEF WalksInv, WalkTypes
  <2>2. Dated(book, book') /\ WalkTypes' /\ \A op \in Operators : Steady(op)
    BY <1>3, <2>1, HistoryStep
  <2>3. ASSUME NEW op \in Operators, tabs'[op].route = "orders"
        PROVE  WalkInv(walk'[op], book', tabs'[op])
    <3>1. PICK c, d : c = tabs[op] /\ d = tabs'[op]
      OBVIOUS
    <3>2. PICK w, w2 : w = walk[op] /\ w2 = walk'[op]
      OBVIOUS
    <3>3. PICK b : b = book'
      OBVIOUS
    <3>4. w2.pages = w.pages /\ w2.steady \subseteq w.steady /\ \A o \in w2.steady : b[o] = book[o]
      BY <2>2, <3>2, <3>3 DEF Steady
    <3>5. w.pages \in Seq(SUBSET OrderIds) /\ w.steady \subseteq OrderIds
      BY <2>1, <3>2 DEF WalkTypes, Walk, Known
    <3>6. \A o \in OrderIds : book[o] # None => b[o] # None /\ b[o].created = book[o].created
      BY <2>2, <3>3 DEF Dated
    <3>7. ASSUME c.route = "orders"
          PROVE  WalkInv(w2, b, c)
      <4>1. WalkInv(w, book, c)
        BY <3>1, <3>2, <3>7 DEF WalksInv
      <4> QED BY <3>4, <3>5, <3>6, <4>1, WalkShrinks
    <3>8. Goes(c, d) \/ PagesOn(c, d)
      <4>1. ListMoves(op)
        BY EachListMoves
      <4> QED BY <1>3, <3>1, <4>1 DEF ListMoves
    <3>9. CASE Loaded(Blank, d)
      <4>1. WalkInv(w2, b, d)
        BY <3>9, BlankLoads, WalkLoaded
      <4> QED BY <3>1, <3>2, <3>3, <4>1
    <3>10. CASE Quiet(c, d)
      <4>1. c.route = "orders"
        BY <2>3, <3>1, <3>10 DEF Quiet
      <4>2. WalkInv(w2, b, d)
        BY <3>7, <3>10, <4>1, WalkQuiet
      <4> QED BY <3>1, <3>2, <3>3, <4>2
    <3>11. CASE c.route = "orders" /\ Loaded(c.view, d)
      <4>1. MayLoad(w2, b, c.view)
        BY <3>7, <3>11 DEF WalkInv
      <4>2. WalkInv(w2, b, d)
        BY <3>11, <4>1, WalkLoaded
      <4> QED BY <3>1, <3>2, <3>3, <4>2
    <3>12. CASE PagesOn(c, d)
      <4>1. PICK v : c.route = "orders" /\ Leads(c.view, v) /\ Loaded(v, d)
        BY <3>12 DEF PagesOn
      <4>2. c.view.cursors \in Seq(Cursor) \ {<<>>} /\ c.view.next \in Cursor
        BY <3>1, PageOf DEF Views
      <4>3. w2.pages \in Seq(SUBSET OrderIds)
        BY <3>4, <3>5
      <4>4. WalkInv(w2, b, c)
        BY <3>7, <4>1
      <4>5. MayLoad(w2, b, v)
        BY <4>1, <4>2, <4>3, <4>4, WalkLeads
      <4>6. WalkInv(w2, b, d)
        BY <4>1, <4>5, WalkLoaded
      <4> QED BY <3>1, <3>2, <3>3, <4>6
    <3> QED BY <2>3, <3>1, <3>8, <3>9, <3>10, <3>11, <3>12 DEF Goes
  <2> QED BY <2>2, <2>3 DEF WalksInv, WalkTypes
<1> QED BY <1>2, <1>3

LEMMA WalksInit ==
  ASSUME Init
  PROVE  WalksInv
<1>1. desk \in Desks /\ book = desk.book /\ walk = [op \in Operators |-> NoWalk]
  BY DEF Init
<1>2. IsFiniteSet(Known)
  BY <1>1, DesksAssumption DEF Known
<1>3. NoWalk \in Walk(Known)
  <2>1. PICK s : s = <<>>
    OBVIOUS
  <2>2. s \in Seq(SUBSET OrderIds)
    BY <2>1
  <2> QED BY <2>1, <2>2 DEF NoWalk, Walk
<1>4. ASSUME NEW op \in Operators, tabs[op].route = "orders"
      PROVE  WalkInv(walk[op], book, tabs[op])
  <2>1. PICK token : token = (op \in desk.crew)
    OBVIOUS
  <2>2. PICK c : c = Empty(token)
    OBVIOUS
  <2>3. PICK d : d = Mount(c, desk.route, desk.subject)
    OBVIOUS
  <2>4. tabs[op] = d
    BY <2>1, <2>2, <2>3 DEF Init, Empty
  <2>5. GoodTab(c, Known, Stocked) /\ c.route = "login"
    <3>1. token \in BOOLEAN
      BY <2>1
    <3> QED BY <2>2, <3>1, EmptyTab DEF Empty
  <2>6. Goes(c, d)
    BY <2>3, <2>5, GoesMount
  <2>7. Loaded(Blank, d)
    BY <1>4, <2>4, <2>5, <2>6 DEF Goes, Quiet
  <2> QED BY <2>4, <2>7, BlankLoads, WalkLoaded
<1> QED BY <1>1, <1>2, <1>3, <1>4 DEF WalksInv

LEMMA WalkShows ==
  ASSUME PagesInv, WalksInv
  PROVE  WalkMissesNothing
<1> SUFFICES ASSUME NEW op \in Operators, tabs[op].route = "orders", tabs[op].view.rows # None,
                    tabs[op].view.next = None
             PROVE  /\ walk[op].steady \cap Alone \subseteq UNION Range(walk[op].pages)
                    /\ \A o \in tabs[op].view.rows :
                         Matches(book[o], tabs[op].view.filters) \/ o \notin walk[op].steady
  BY DEF WalkMissesNothing
<1>1. PICK c, w : c = tabs[op] /\ w = walk[op]
  OBVIOUS
<1>2. PICK depth : depth = Len(c.view.cursors)
  OBVIOUS
<1>3. /\ Agrees(w, book, c.view.filters) /\ Len(w.pages) = depth
      /\ Covers(w, book, depth, {}, None)
  BY <1>1, <1>2 DEF WalksInv, WalkInv
<1>4. w.pages \in Seq(SUBSET OrderIds)
  BY <1>1 DEF WalksInv, Walk
<1>5. \A m \in 1..depth : w.pages[m] \subseteq UNION Range(w.pages)
  BY <1>3, <1>4 DEF Range
<1>6. \A o \in Alone : Lone(book, o)
  BY DEF Alone, Lone
<1>7. w.steady \cap Alone \subseteq UNION Range(w.pages)
  BY <1>3, <1>5, <1>6 DEF Covers
<1>8. \A o \in w.steady : Matches(book[o], c.view.filters)
  BY <1>3 DEF Agrees
<1> QED BY <1>1, <1>7, <1>8

(* Whoever walks through the pages of the order book to the last one has    *)
(* been shown every order that matched the filter when the first page was   *)
(* read, has not changed since and shares its millisecond with no other,    *)
(* whatever comes in meanwhile, whichever answers come late or never, and   *)
(* however often they go back, filter anew or try again                     *)
(* (app/orders/page.tsx: the stack of cursors and the effect's cancelled    *)
(* flag; admin_repository.go: ListAll and nextBefore).                      *)
THEOREM WalksMissNothing == Spec => []WalkMissesNothing
<1>1. Init => WalksInv
  BY WalksInit
<1>2. PagesInv /\ WalksInv /\ [Next]_vars => WalksInv'
  BY WalksStep
<1>3. PagesInv /\ WalksInv => WalkMissesNothing
  BY WalkShows
<1> QED BY <1>1, <1>2, <1>3, PagesStayGood, PTL DEF Spec

=============================================================================
