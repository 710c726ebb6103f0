---------------------------- MODULE AdminServer ----------------------------
(***************************************************************************)
(* The admin API as the console sees it: the order book (order/            *)
(* admin_handler.go, admin_repository.go) and the catalogue (catalogue/    *)
(* admin_handler.go, repository.go).  A product is its stock, whether it   *)
(* is shown in the shop, and its pictures; its texts, prices, badges and   *)
(* nutrition are left out.  createdAt is a number of milliseconds, shared  *)
(* by orders that come in the same one.                                    *)
(***************************************************************************)
EXTENDS Naturals, Sequences, FiniteSets, SequencesExt

CONSTANTS
  OrderIds,     \* ids of orders
  ProductIds,   \* ids of products
  Images,       \* pictures
  MaxImages,    \* pictures a product may have (5 in the code)
  MaxStock,     \* bound on the stock
  MaxTime,      \* bound on the clock
  PageSize,     \* limit of a page of the order book
  None          \* null

ASSUME AdminAssumption ==
  /\ MaxImages \in Nat \ {0} /\ MaxStock \in Nat /\ MaxTime \in Nat
  /\ PageSize \in Nat \ {0}
  /\ None \notin OrderIds \cup ProductIds \cup Images \cup Nat

Status == {"pending", "placed", "expired"}

\* The steps of fulfilment in their order, and what an order has before the first.
FulfilmentNone == ""
Steps == <<"packed", "in_transit", "shipped">>
Fulfilment == Range(Steps) \cup {FulfilmentNone}
Rank(f) == CHOOSE n \in 0..3 : IF n = 0 THEN f = FulfilmentNone ELSE f = Steps[n]
CanFulfil(from, to) == Rank(to) = Rank(from) + 1

Order == [created : 0..MaxTime, status : Status, fulfilment : Fulfilment]

\* An empty set of a filter does not filter.
Filter == [statuses : SUBSET Status, fulfilments : SUBSET Fulfilment]

Matches(order, filter) ==
  /\ filter.statuses = {} \/ order.status \in filter.statuses
  /\ filter.fulfilments = {} \/ order.fulfilment \in filter.fulfilments

\* The orders a page may be taken from.
Candidates(book, filter, before) ==
  {o \in OrderIds : /\ book[o] # None /\ Matches(book[o], filter)
                    /\ before = None \/ book[o].created < before}

\* The newest ones, in any order within one millisecond.
ListAll(book, filter, before) ==
  LET all == Candidates(book, filter, before)
      size == IF Cardinality(all) < PageSize THEN Cardinality(all) ELSE PageSize
  IN {s \in SUBSET all : /\ Cardinality(s) = size
                         /\ \A o \in s, x \in all \ s : book[o].created >= book[x].created}

\* A full page names the last row's time as the cursor of the next one.
NextBefore(book, rows) ==
  IF Cardinality(rows) < PageSize THEN None
  ELSE CHOOSE t \in {book[o].created : o \in rows} :
         \A o \in rows : t <= book[o].created

\* Mutant: the write does not name the step it starts from.
SetFulfilmentBlind(book, o, from, to) ==
  IF book[o].status = "placed" THEN [book EXCEPT ![o].fulfilment = to] ELSE book

\* Guarded by the step the request has read.
SetFulfilment(book, o, from, to) ==
  IF book[o].status = "placed" /\ book[o].fulfilment = from
    THEN [book EXCEPT ![o].fulfilment = to] ELSE book

\* No picture twice: every upload has an id of its own.
Pictures == {s \in Seq(Images) : \A m, n \in DOMAIN s : s[m] = s[n] => m = n}

\* What a form may send, and what the API lets pass.
Form == [stock : 0..MaxStock, active : BOOLEAN, images : Pictures]
Valid(product) == Len(product.images) <= MaxImages
Product == {product \in Form : Valid(product)}

ASSUME NoneIsNothing == None \notin Order /\ None \notin Form /\ None # "ok"

Create(shelf, p, product) == [shelf EXCEPT ![p] = product]
Update(shelf, p, product) == [shelf EXCEPT ![p] = product]
Retire(shelf, p) == [shelf EXCEPT ![p].active = FALSE]

=============================================================================
