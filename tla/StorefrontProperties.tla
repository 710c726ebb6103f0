------------------------ MODULE StorefrontProperties ------------------------
(* What the storefront promises its shopper. *)
EXTENDS Storefront

FlowStep == {"asked", "answered", "joining", "resting"}

(* Type correctness of the tab, the server's record and the history. *)
TypeOK ==
  /\ tab.st \in State /\ tab.shown \in State
  /\ tab.inflight \subseteq RequestKey
  /\ tab.token \in Tokens \cup {NoToken} /\ tab.stored \in Lines
  /\ \A i \in FlowIds : tab.flows[i] # None =>
       tab.flows[i].kind \in Kind /\ tab.flows[i].at \in FlowStep
  /\ srv \in Server
  /\ habit \in Habits /\ clicks \in 0..habit.clicks /\ faults \in 0..habit.faults
  /\ asked \in Lines /\ seen \subseteq Marks

Quiet == \A i \in FlowIds : tab.flows[i] = None

ServedBy(key) ==
  {i \in FlowIds : tab.flows[i] # None /\ tab.flows[i].kind = key}

(* A spinner is never left on: a flag of ShopState.pending is only up while *)
(* something that will take it down is under way -- the call of that key,   *)
(* or for "payment" the open sheet or the ladder that confirms the payment. *)
(* addressSave (kept up by field errors) and widgetSession (kept up by a    *)
(* success, see SigningInIsInFlight) are left out.                          *)
FlagsHaveACall ==
  \A key \in tab.st.pending \ {"widgetSession", "addressSave"} :
    IF key = "payment"
      THEN tab.sheet # None \/ ServedBy("confirm") # {}
      ELSE ServedBy(key) # {}

(* The login screen says "Signing in..." and keeps its button disabled only *)
(* while a sign-in is in flight, as the flags are documented (types.ts).    *)
SigningInIsInFlight ==
  (tab.shown.screen = "login" /\ "widgetSession" \in tab.shown.pending
     /\ tab.shown = tab.st)
  => ServedBy("widgetSession") # {}

\* The ladders that have not told the shopper the outcome yet.
Telling == {i \in ServedBy("confirm") : tab.flows[i].at # "joining"}

(* A shopper is never in two checkouts: of POST /orders under way, an       *)
(* unsettled payment sheet and a ladder that has not yet told the outcome,  *)
(* there is at most one, whatever is clicked, reloaded or signed out.       *)
OneCheckoutAtATime ==
  LET sheet == IF tab.sheet # None /\ ~ tab.sheet.settled THEN {"sheet"} ELSE {}
  IN Cardinality(ServedBy("checkout")) + Cardinality(Telling) + Cardinality(sheet) <= 1

(* Once the sheet's handler has reported a captured payment, closing that   *)
(* sheet or any later step up to the outcome never tells the shopper that   *)
(* the payment was cancelled.                                               *)
PaidIsNeverCancelled ==
  [][(tab.sheet # None /\ tab.sheet.settled) \/ Telling # {}
     => (tab'.st.cancelled => tab.st.cancelled)]_vars

(* What was selected offline is added to the account's cart once: the       *)
(* server never holds more of a product than the shopper asked for, over    *)
(* any number of sign-ins, lost answers and reloads.  Exceptions: a page    *)
(* reloaded in the middle of the replay may replay again, and so may one on *)
(* which a click, between the end of a replay and its rendering, wrote the  *)
(* selection back.                                                          *)
AskedOnce ==
  seen \cap {"torn", "stale"} = {} =>
    \A u \in Shoppers, p \in Products : srv.carts[u][p] <= asked[p]

(* The product page never shows another product's details: of two pages     *)
(* opened in a row, the answer of the first may come last.                  *)
DetailIsOfThePage == tab.st.detail \in {None, tab.st.pdp}

(* When nothing is under way, a signed-in shopper sees the server's cart.   *)
(* Exceptions: an answer was lost or refused; the webhook placed the order; *)
(* the cart was written while an answer with its older state was on its way *)
(* to the page (by a click during a replay, by the replay during a click,   *)
(* by a placed order); or a sign-in or a confirmed payment was to load it      *)
(* while a cart call was under way, for which the guard skips the load.     *)
CartSettles ==
  (Quiet /\ tab.st.user # None /\ tab.token # NoToken /\ tab.token \notin srv.lapsed
     /\ seen \cap {"fault", "cartRace", "placed"} = {})
  => tab.st.cart = srv.carts[srv.sessions[tab.token]]

(* When nothing is under way, a signed-in shopper sees the server's address *)
(* book and its default.  Exceptions: an answer was lost or refused; the    *)
(* book was written while an answer with its older state was on its way; a  *)
(* list was to be loaded while one was under way, for which the guard skips *)
(* the load; or the answer of a DELETE outlives its session, and shows its  *)
(* book in the next one.                                                    *)
BookSettles ==
  (Quiet /\ tab.st.user # None /\ tab.token # NoToken /\ tab.token \notin srv.lapsed
     /\ seen \cap {"fault", "bookRace"} = {})
  => tab.st.addresses = srv.books[srv.sessions[tab.token]]

(* Whoever has paid is told so: once the handler fired for an order, the    *)
(* page comes to the done screen with that order, though every confirming   *)
(* call may fail.  (A reload of the page is not survived; none of the       *)
(* habits that pay reloads.)                                                *)
PaidIsTold ==
  \A o \in OrderIds :
    (\E i \in Telling : tab.flows[i].arg.order = o)
      ~> (tab.st.placed # None /\ tab.st.placed.id = o)

=============================================================================
