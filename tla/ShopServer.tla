----------------------------- MODULE ShopServer -----------------------------
(***************************************************************************)
(* The API as one browser sees it: what a request does to the server's     *)
(* record srv and what is answered.  Each operator returns the set of      *)
(* possible outcomes [srv, status, body].  A call is one step here; how    *)
(* the services interleave inside a call is the subject of OrderService    *)
(* and Accounts, and an order is reduced to the end it came to.            *)
(*                                                                         *)
(* A token is a number, 0 for none.  status "ok" carries the data of the   *)
(* envelope, any other is the HTTP status of an ApiError; "net" is a       *)
(* NetworkError, and "fields" a 422 that names form fields.                *)
(***************************************************************************)
EXTENDS ShopState

CONSTANT MaxSessions      \* bound on the sign-ins of a behaviour

ASSUME SessionsAssumption == MaxSessions \in Nat \ {0}

Tokens == 1..MaxSessions
NoToken == 0

Server ==
  [sessions : [Tokens -> Shoppers \cup {None}], lapsed : SUBSET Tokens,
   carts : [Shoppers -> Lines], books : [Shoppers -> Book],
   orders : [OrderIds -> [owner : Shoppers \cup {None}, status : OrderStatus,
                          paid : BOOLEAN]]]

Outcome(srv, status, body) == [srv |-> srv, status |-> status, body |-> body]
Ok(srv, body) == {Outcome(srv, "ok", body)}
Error(srv, status) == {Outcome(srv, status, None)}

\* Whose session a token is: 401 for none, an unknown or an expired one.
SessionOf(srv, tok) ==
  IF tok = NoToken \/ tok \in srv.lapsed THEN None ELSE srv.sessions[tok]

UnusedToken(srv) == {t \in Tokens : srv.sessions[t] = None}
UnusedAddress(srv) == AddressIds \ UNION {srv.books[u].ids : u \in Shoppers}
UnusedOrder(srv) == {o \in OrderIds : srv.orders[o].owner = None}

-----------------------------------------------------------------------------
(* POST /auth/session: the account behind the sign-in and a fresh token.   *)

ExchangeSession(srv, u) ==
  {Outcome([srv EXCEPT !.sessions[t] = u], "ok", [token |-> t, user |-> u]) :
     t \in {x \in UnusedToken(srv) : \A y \in UnusedToken(srv) : x <= y}}

-----------------------------------------------------------------------------
(* /cart: every call answers with the whole cart.                          *)

SaveCart(srv, u, lines) == Ok([srv EXCEPT !.carts[u] = lines], lines)

CartCall(srv, u, call) ==
  LET lines == srv.carts[u]
      held  == lines[call.product]
  IN CASE call.op = "get"    -> Ok(srv, lines)
       [] call.op = "add"    ->
            SaveCart(srv, u, [lines EXCEPT ![call.product] = Capped(held + call.qty)])
       [] call.op \in {"set", "remove"} ->
            IF held = 0 THEN Error(srv, "404")
            ELSE SaveCart(srv, u,
                   [lines EXCEPT ![call.product] = IF call.op = "set" THEN call.qty ELSE 0])

-----------------------------------------------------------------------------
(* /me/addresses: there is a default whenever there is an address.         *)

SaveBook(srv, u, book, body) == Ok([srv EXCEPT !.books[u] = book], body)

AddAddress(srv, u) ==
  UNION {LET book == srv.books[u]
         IN SaveBook(srv, u,
              [ids  |-> book.ids \cup {a},
               dflt |-> IF book.ids = {} THEN a ELSE book.dflt], a) :
         a \in UnusedAddress(srv)}

UpdateAddress(srv, u, a, isDefault) ==
  IF a \notin srv.books[u].ids THEN Error(srv, "404")
  ELSE SaveBook(srv, u,
         [srv.books[u] EXCEPT !.dflt = IF isDefault THEN a ELSE @], a)

\* Deleting the default promotes another address.
DeleteAddress(srv, u, a) ==
  LET book == srv.books[u]
      left == book.ids \ {a}
      dflts == IF book.dflt # a THEN {book.dflt} ELSE IF left = {} THEN {None} ELSE left
  IN IF a \notin book.ids THEN Error(srv, "404")
     ELSE UNION {LET next == [ids |-> left, dflt |-> d]
                 IN SaveBook(srv, u, next, next) : d \in dflts}

-----------------------------------------------------------------------------
(* /orders.  Opening a checkout ends the shopper's previous reservation;   *)
(* placing an order clears the cart.                                       *)

Shown(srv, o) == [id |-> o, status |-> srv.orders[o].status]

OpenOrder(srv, u, a) ==
  IF IsEmpty(srv.carts[u]) THEN Error(srv, "empty")
  ELSE IF a \notin srv.books[u].ids THEN Error(srv, "404")
  ELSE LET opened == [owner |-> u, status |-> "pending", paid |-> FALSE]
           mine(x) == srv.orders[x].owner = u /\ srv.orders[x].status = "pending"
           ended(x) == [srv.orders[x] EXCEPT !.status = "ended"]
           after(o) == [x \in OrderIds |-> IF x = o THEN opened
                                           ELSE IF mine(x) THEN ended(x)
                                           ELSE srv.orders[x]]
       IN UNION {Ok([srv EXCEPT !.orders = after(o)], o) : o \in UnusedOrder(srv)}

Place(srv, o) ==
  IF srv.orders[o].status = "pending"
    THEN [srv EXCEPT !.orders[o].status = "placed",
                     !.carts[srv.orders[o].owner] = NoLines]
    ELSE srv

\* Answers with the order whatever it has become (service.go).
ConfirmOrder(srv, u, o) ==
  IF srv.orders[o].owner # u THEN Error(srv, "404")
  ELSE Ok(Place(srv, o), Shown(Place(srv, o), o))

GetOrder(srv, u, o) ==
  IF srv.orders[o].owner # u THEN Error(srv, "404") ELSE Ok(srv, Shown(srv, o))

ListOrders(srv, u) == Ok(srv, {o \in OrderIds : srv.orders[o].owner = u})

=============================================================================
