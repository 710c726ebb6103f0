# Enerzia shop: a verification development

TLA+ models, TLC runs and TLAPS proofs about the shop in this repository: a Go
API (`enerzia-be`) over MongoDB and Razorpay, a Next.js storefront (`Enerzia`)
and an admin console (`enerzia-admin`). Four parts of it are hard, and each has a
model of its own:

- the order service: a checkout takes stock before it has an order, an order is a
  reservation with a deadline, and five parties that do not know of each other
  (the shopper's next checkout, the browser's payment callback, Razorpay's
  webhook, the background sweeper, a checkout undoing itself) may end it;
- the accounts: sign-in by one-time code or widget, the migration of old phone
  numbers and whole-list edits of the address book share one users collection;
- the storefront: some fifteen commands with in-flight guards, aborts and flags
  share one reducer, while the shopper clicks on, answers come late, a cart kept
  offline is replayed and a payment sheet calls back;
- the admin console: operators page, filter, edit, upload and advance orders over
  answers that may belong to a page they have left.

There are no transactions and no locks: every step is one atomic call on one
document, or one turn of the browser's event loop, and everything between two of
them is an interleaving point. That is what the models are about.

## Inventory

Paths are under `enerzia-be/internal/` unless they say otherwise.

| component | state | operations | what is hard | what makes it correct |
|---|---|---|---|---|
| checkout (`order/service.go` `OpenCheckout`) | locals of the request | eight steps: read cart, expire the previous reservation, take stock line by line, insert, create and link the Razorpay order; compensations | double clicks, competing shoppers, failure at each step | units conserved, one reservation per shopper |
| order repository (`order/repository.go`) | `orders` | insert under two unique indexes; writes guarded on `pending_payment` | which writes are guarded, and on what | settled orders stay settled |
| payment callback (`ConfirmPayment`) | none kept | read, guarded transition, email, cart clear | races the webhook and the sweeper | confirms once, answers the truth |
| webhook (`order/webhook.go`, `events_repository.go`) | `payment_events` | insert-first dedupe, dispatch, mark processed | duplicate, concurrent, reordered and interrupted deliveries | each event applied, once |
| sweeper (`order/sweeper.go`) | batch in memory | find lapsed, claim each, return stock | an order placed between find and claim | sold units stay sold; lapsed ones come back |
| order documents (`order/model.go`, `id.go`) | - | statuses, fulfilment steps, validation, ids | id collisions | every stored order valid |
| admin order book (`order/admin_*.go`) | `orders.fulfilment` | filtered paging, guarded fulfilment step | two operators; ties on `createdAt` | no step skipped, no order missed |
| catalogue (`catalogue/`) | `products` | `TakeStock`, `ReturnStock`; admin create, update, retire; seed | absolute stock overwritten by an edit | stock never negative, never invented |
| cart (`cart/`) | `carts` | add, set, remove, clear: read whole, write whole | lost updates; clear after placing | lines and totals follow the catalogue |
| sign-in (`auth/service.go`, `repository.go`) | `otp_codes`, `users` | request, verify, session, upsert user, legacy phone migration | count-then-insert, attempts in flight, first sign-in twice | a code works once, a phone is one user |
| address book (`auth/address.go`) | `users.addresses` | add, update, delete, default | whole-list writes | exactly one default |
| admin sign-in (`admin/`) | limiter map | allow, record failure | check-then-record | bounded failures per window |
| storefront (`Enerzia/app/shop/`, `lib/shop/`, `components/shop/`) | reducer state, in-flight keys, token and offline cart in local storage | boot, loads, cart and address edits, sign-in and replay, checkout, payment sheet callbacks, confirm and poll | loads dropped by a guard, answers out of order, a stale screen, reloads, a sheet that closes after it succeeded | what is shown ends at what the server has; a paid order is never shown as cancelled and always told |
| admin console (`enerzia-admin/app/`) | state of the open page, token | guard, paging and filters, fulfilment, product form, uploads, retire | late answers of a page or effect that was left, two operators, answers that overwrite edits | no step twice, no order missed, no edit lost |
| static content, styles, deployment scripts | - | - | - | - |
| adapters (Razorpay, MSG91, SMTP, Cloudinary, MongoDB, HTTP, config) | - | I/O | - | - |

Components interact through the database (`orders`, `products.stock`, `carts`,
`payment_events`, `users`, `otp_codes`), through direct calls (checkout to cart,
catalogue, auth and gateway), through the two HTTP APIs that the storefront and
the console call, and through Razorpay, which calls the browser and the webhook
independently. `PROJECT.json` lists every component with its status and every
hazard with its line.

## Modules

| module | stands for |
|---|---|
| `OrderStore` | the database: one operator per call of `order/repository.go` and of the stock calls of `catalogue/repository.go`, with the guard that call has |
| `OpenCheckout` | `Service.OpenCheckout` with `releaseLines` and `compensateAfterInsert` |
| `Razorpay` | the provider, external: captures, declined attempts, at-least-once unordered events |
| `Payments` | `Service.ConfirmPayment` and `Service.HandleWebhook` with `handleWebhookCapture` and `handleWebhookFailed` |
| `Sweeper` | `Sweeper.SweepOnce` and `Run` |
| `OrderService` | the composition: all of the above interleaved, `Spec` and `FairSpec` |
| `OrderProperties` | what the service promises, and three promises of the documentation it does not keep |
| `StockLedger` | where every unit is, party by party, and the conservation of units; a sum is the number of tokens in a set, one token per unit, so that it can be reasoned about without recursion |
| `OrderInvariants` | the inductive strengthenings the proofs use |
| `Reservations` | what the order service promises, abstractly: ids handed out once, one reservation per shopper, one sale against money taken, one confirmation, ends that stay ends |
| `OrderRefinement` | the mapping from the service's documents to `Reservations` |
| `UserStore` | the `users` and `otp_codes` collections and the requests in flight over them |
| `SignIn` | `RequestCode`, `Verify`, `CreateSession` and `UpsertUser` with its migration |
| `AddressBook` | the edits of `auth/address.go`: pure operators for the lists, a read and a write per edit |
| `Accounts` | the composition, with failing requests, the TTL index and a clock; its properties |
| `ShopState` | the storefront's state and one operator per action of `shopReducer` |
| `ShopServer` | what the API answers to the storefront and changes: sessions, carts, books, orders |
| `ShopCommands` | the commands of `useShop.ts`: guard, start, await and what follows each answer |
| `Storefront` | screens and clicks, the server, lost answers, the payment sheet, reloads; `Spec` |
| `StorefrontProperties` | what the storefront promises its shopper |
| `StorefrontInvariants` | which calls a tab may have under way with which flags, payment and page, what may still be added to a cart, and which answers will yet bring the cart and the book: the inductive strengthenings of the storefront |
| `AdminServer` | order book and catalogue as the console sees them: listing by cursor, the guarded fulfilment write, product writes |
| `AdminConsole` | tabs, pages, calls and clicks of the operators, beside a shop that moves on |
| `AdminConsoleProperties` | what the console promises its operators |
| `AdminConsoleInvariants` | what holds of a tab, its form and its order at every step: the inductive strengthenings of the console |
| `OrderSafetyProofs`, `StockProofs`, `AccountsProofs`, `AdminConsolePageProofs`, `AdminConsoleProofs`, `StorefrontProofs`, `StorefrontSelectionProofs`, `StorefrontSettleProofs` | the proofs; the ledger's stand on `OrderSafetyProofs`, those of the console on `AdminConsolePageProofs`, those of the storefront on one another in the order given |
| `MCOrderService`, `MCAccounts`, `MCStorefront`, `MCAdminConsole` | constant values and symmetry sets for TLC |

`OpenCheckout`, `Razorpay` and `Payments` extend one another, in that order, from
`OrderStore`; `Sweeper` extends `OrderStore` beside them; `OrderService` extends
both ends, and `OrderRefinement` instantiates `Reservations` over it. `SignIn` and
`AddressBook` extend `UserStore` and meet in `Accounts`. `ShopCommands` extends
`ShopState` and `ShopServer`; `Storefront` extends `ShopCommands`.

### The order service

How state and actions correspond to the code. `orders[o]` is the order document:
`status`, `user`, `lines`, whether `payment.razorpayOrderId` and
`payment.method` are there, and whether `expiresAt` has passed (`lapsed`; the
clock only ever makes it true). An id no document carries has status `absent`.
A handler is a record with a `pc` and the local variables it still needs; each
action is one database or gateway call with the code up to the next one, and
release loops return one line per action. A lookup the code makes for a write
that is guarded anyway is folded into the write only where nothing between the
two can change what was read (`DispatchCapture` says so); the status check
`ConfirmPayment` makes on an earlier read is a step of its own. `returns` and
`confirmations` are history variables: how often each line of an order was put
back, how often its email was handed to the mail goroutine.

Failures are explicit and counted (`faults`, at most `MaxFaults`): `gateway`,
`link` (the write of the Razorpay id), `return` (a `ReturnStock`), `db` (any
other call) and `stop` (the process dies or its context is cancelled). A failed
write is not applied.

Abstractions to know about: quantities and prices are the lines of a basket;
names, addresses, totals and email text are left out; cart edits are one atomic
replacement; signatures are genuine; the amount check of the webhook is a set
`Mispriced` of orders whose capture reports another amount; a capture's payload
carries the method. The release and reservation loops visit the lines in any
order. Reads that lead to an error and write nothing are not steps.

### The accounts

`users[u]` is a document: its phone, in the form it is stored in, and its list of
addresses (ids and default flags; the texts are left out). `codes[c]` is a
one-time code. `call[p]` is the request a process handles: the step it is at and
its locals. Each step is one call of the store, so `checkRateLimit` followed by
the insert, `LatestCode` followed by the guarded consume, `UpsertUser`'s touch,
rename and insert, and the read and the write of an address edit are separate
steps, and any request may fail between two. A request that is refused by its
first read changes nothing and is not a step. `signedIn`, `opened` and `made` are
history. A session names its user for good; the expiry of its token is left out
here and is in the storefront's model.

### The storefront

`tab` is the browser tab: the reducer's state (`st`), what was last rendered
(`shown`), the refs (`inflight`), local storage (`token`, `stored`), the sign-in
widget, the payment sheet, and `flows`: every command that is past its first
await, with the call it waits for. A command's synchronous part is one operator,
what follows its answer another, so anything can happen between them. Clicks are
offered by `shown`, not by `st`: a state change is only seen after `Commit`, and
effects run there. The server answers a call in one step; `ShopServer` abstracts
the order service to placed, pending and ended orders, whose internal races are
the subject of `OrderService`. A 401 signs out, as `http.ts` does.

`MaxFlows` bounds the calls under way at one time: a step of the tab is taken
only if a free place is left after it (`Turns`, `HasRoom`), so that no command
runs half. With the seven places of the run this holds back a few clicks and
nothing the page does by itself: TLC finds no state in which `Resume`,
`FinishJoin`, `Commit` or the sheet's handler lacks room.

Data the properties do not tell apart is left out: prices, texts, sold-out stock
(so `hasBlockingIssues` never blocks; a refused cart call or checkout stands for
it), the widget's and the sheet's scripts (a blocked script is `WidgetFails` or
`SheetBlocked`), and the one-time-code screens, which no route reaches any more.

### The console

A tab is the page it shows (`route`, `subject`, `ready`), its token, the page's
`useState` values (`view`) and its calls. A call whose page was left or whose
effect was cleaned up is not `live`: its answer changes no view, but a 401, a
failed `me`, a creation or a retirement still acts, as in the code. `PATCH
.../fulfilment` is a read and a guarded write, everything else one step. Orders
have a creation time, shared by orders of one millisecond; a page is any choice
of the newest that MongoDB may make among ties. A picture's id is Cloudinary's
and new (`Used` has every picture of the shop and of the open forms). A desk may
start with orders at any step; `done` then has the steps they are past.
`DesksAssumption` says what a desk may be: a book whose orders that are past a
step were placed, a shelf of valid products, an open page that is about one of
them. `None` stands for null and is no order, no form and no status
(`NoneIsNothing`). `done`, `walk`, `put` and `seen` are history.

## Runs

| run | instance | shows |
|---|---|---|
| `checkout` | 2 shoppers, 3 requests, 2 products (3 and 1 units), 2 order ids, 2 id retries, 1 sweeper, no failure | `StockIsConserved`: shelf, reservations and the hands of running handlers always add up. `OnePendingPerUser`, double clicks included. Carts that want the last unit collide; both ids run out |
| `payments` | 1 order, 2 callbacks, 2 deliveries of 3 events, 1 sweeper, 1 failure of kind `return`, `db` or `stop` | nothing is returned twice, confirmed twice, lost after being marked processed, or sold twice; returns follow the end of a reservation; a recorded method stays |
| `failures` | 1 shopper, 2 requests, 2 orders, 1 delivery, 1 sweeper, 1 failure of any kind, one order's capture mispriced | types; placed orders were paid and keep their units; captures find their order; settled is final, also when a checkout compensates; every step of every handler is a step of `Reservations` or a stutter (`KeepsItsPromise`) |
| `liveness` | 1 order, 1 callback, 1 delivery, 1 sweeper, 2 failures `db` or `stop`, `FairSpec` | lapsed reservations end; captures are applied, whatever fails; the method is recorded unless two calls fail; without failures every placed order is confirmed |
| `gateway_race` | 1 shopper, 2 requests, 1 gateway failure | `NeverOversold` is violated, see below |
| `callback_answer` | 1 order, 1 callback, 1 sweeper | `AnswerIsPlaced` is violated |
| `declined_retry` | 1 order, 1 delivery | `RetryAfterDeclineIsHonoured` is violated |
| `placed_without_method` | 1 order, 1 callback | `PlacedHasMethod` is violated |
| `storefront` | 1 shopper, 2 products, 2 units of each at most, 2 addresses, 2 orders, 2 sessions, 7 calls at a time; eight habits of 2 to 6 clicks and 0 to 2 lost or refused answers | no flag without a call, one checkout at a time, an offline cart added once, the cart and the book shown end at the server's, the product page never shows another product's details; a paid order is never called cancelled and, under fairness, always told |
| `sign_in_again` | the same, signing in and out | `SigningInIsInFlight` is violated |
| `console` | 2 operators, 4 orders, pages of 2, 2 products, 3 pictures (2 per product), 3 calls per tab; seven desks of 3 to 5 clicks and 0 or 1 lost answers | each fulfilment step is written once, in order, to a placed order; paging misses nothing; the form keeps what was done to it; a badge never goes back; a save leaves stock alone that nobody touched |
| `accounts` | 1 number with an old ten-digit account, 2 user ids, 2 codes, 2 addresses, 2 overlapping requests, a clock of 2, one guess allowed | a number keeps its account through first sign-ins and migration; a code opens one session and guesses in flight stay bounded; a book that is not empty has one default |

The bounds. Every race in the code is between two parties over one order, or two
checkouts over one product or one shopper: two of each party, with the failure
that may hit either, reach each pair. A third request in `checkout` lets a double
click meet a competing shopper. Both quantities of a basket and scarce stock make
one line fail after another was taken. The theorems remove the bounds for the
properties they state. Symmetry is used in safety runs only.

The storefront and the console have more buttons than can be pressed in every
order, so a behaviour follows one habit (`Habits`) or works at one desk
(`Desks`): where it starts, which parts of the shop it uses (`does`), how many
clicks it makes and how many answers go wrong. Each habit is one part of the
shop, with the parts that share a guard, a flag or a list with it. Two of
everything is enough for one thing to overtake another; a second session is a
second sign-in; `MaxQty` 2 tells a capped from an uncapped sum; seven calls are
what these habits have under way at once, and one more. In the console a page of 2
with 4 orders has a next page, a last page and orders that come in between, and
`MaxImages` 2 reaches the limit of the form. In `accounts`, `CodeTTL` and
`RateWindow` 2, `ResendInterval` 1 and a clock to 2 reach a resend, an expiry and
a full window; a request is in one of two `Works`, since codes and addresses
share nothing.

Deadlock is checked in `accounts` only, where a request can always begin or end.
Elsewhere an instance is finite (requests, callbacks, clicks) and stops when it
is done.

Every property of a passing run has a mutant, a plausible bug of the code (a
dropped status filter, a missing index, units not put back, an inverted
`modified`), defined next to the operator it replaces; TLC finds the property
violated with it.

### Where code and documentation disagree

1. `compensateAfterInsert` returns the lines and then expires whatever order of
   the shopper is pending. A second checkout of the same shopper that runs
   between insert and compensation has already expired and released the first
   order, so its units go back twice; and the order the second one opened is then
   expired with its own units never returned. This needs a double click and a
   gateway error. It is why `ReturnedAtMostOnce`, `ReturnsFollowTheEnd` and
   `NeverOversold` are checked without gateway failures.
2. A callback that finds the order expired or failed after its own guarded write
   modified nothing answers 200 with that order; the documents say a 200 shows a
   placed one.
3. The first `payment.failed` ends the order, while the payment sheet stays open
   for another attempt: the later capture is taken and dropped.
4. `Order.Validate` says that a placed order has a payment method; the callback
   places it without one and the webhook adds it later. `PlacedGetsItsMethod`
   shows that it does while at most one call fails. Two failed
   `FillPaymentDetail` writes, one per capture event, lose the method: the
   handler logs the failure and acknowledges the event.
5. A widget sign-in that succeeds never lowers `pending.widgetSession`. A shopper
   who signs out in the same tab finds the sign-in button disabled, "Signing
   in...", until the page is reloaded.

### What the models show beside the properties

These behaviours of the code contradict no sentence of the repository, so they
have no violating run; the properties name them as exceptions or stay within
them.

Storefront: a cart or address load is skipped while an older one is under way, so
the page may stay behind the server (after a sign-in, a confirmed payment, a saved
address; `cartRace` and `bookRace` in `Storefront`, as in the next two); the
replay adds its items past the guard of the cart, so of its answer and that of a
card clicked meanwhile the older may be shown last; the answer of a DELETE can
overwrite the list a later save has loaded, and, after a sign-out, the book of
whoever signs in next; `addressSave` stays up after field errors; a product opened again does not load its details again; an answer of the
previous session shows its cart after a sign-out, and its late 401 ends the new
session; a page reloaded in the middle of the replay replays from the start
(`torn`); a click on a card handled after the replay has cleared the selection and
before that is rendered writes the selection back, and the next sign-in replays
it again (`stale`); a selection made offline is not replayed when a session is restored; a
409 in the replay counts as sold out whatever its reason; what is selected after
the widget was opened is wiped with the replayed buffer.

Console: an edit or an upload that ends during a save is lost to the save's
answer; an upload that ends after a save's answer can give the draft one picture
too many, which the server refuses; a PUT under way un-retires a retired product;
a network failure of `me` signs out; creating or retiring navigates even from a
page that was left; a full last page offers an empty next one; orders of the
last row's millisecond are skipped; "Try again" pressed during a step can show an
older badge.

Accounts: the TTL of a code (5 minutes) ends before the rate window (10), so the
limit counts live codes only; the one-time-code routes accept a ten-digit number,
which after the migration would be a second account, so `NumberKeepsItsAccount`
is about numbers in their stored form; of two overlapping edits of one book, one
is lost.

## Fairness

`FairSpec` assumes: a started handler runs on (a goroutine is scheduled, a
database call returns or fails); the sweeper's ticker goes on firing; Razorpay
redelivers an event until a delivery of it is answered 2xx. The last is strong
fairness because the model has a bounded pool of delivery handlers where the code
has a goroutine per request, so one event's handler may keep being taken by
another. Shoppers, the clock, payments, callbacks and failures promise nothing.

`Storefront` assumes weak fairness of `Runtime` alone: a request is answered or
fails (the browser times it out), a timer ends, an awaited promise resumes, a
changed state is rendered. Clicks, the sheet, the webhook and reloads may never
come. The console and the accounts state no liveness and assume no fairness.

## Proofs

TLAPS checks the theorems below for any number of shoppers, products, requests,
callbacks, deliveries, sweepers, failures, processes, operators and tabs, from
the named assumptions on the constants: `StoreAssumption`, `CheckoutAssumption`
and, for the sums only, `FiniteOrderIds`, `FiniteRequests`, `FiniteDeliveries`
and `FiniteSweepers` for the order service; `UserStoreAssumption`,
`SignInAssumption` and `AccountsAssumption` for the accounts; `AdminAssumption`,
`NoneIsNothing`, `DesksAssumption` and `FiltersAssumption` for the console;
`ShopAssumption`, `SessionsAssumption`, `FlowsAssumption`, `HabitsAssumption` and
`StorefrontInvariants`' `NoneIsNothing` for the storefront, any number of calls
under way and any habit included. TLC evaluates each of them in the runs.

### The order service

- `TypeCorrect`, `TypeOKHolds`: types, with `LocalsOK` (a handler about to touch
  an order has one), without which they are not inductive;
- `SettlementIsFinal`, `SingleReservation`: from `OrdersStep`, which says once how
  an order may change in a step of any party (inserted under a free id for a
  shopper without a reservation, settled while pending, annotated, or untouched);
- `NothingUnpaidIsPlaced`, `NoCaptureIsUnknown`: with `InsertInv` (an order
  belongs to the one request that inserted it, and an answered one is linked) and
  `PaidInv` (every event is about an answered order; who may place an order acts
  on a capture);
- `MethodStays`: only two guarded writes name the method, one writes it to a
  pending order, which has none, the other only where it is missing. That a
  pending order has none is what makes the first harmless;
- `SoldStaysSold`: with `ReleaseInv` (a release loop works on an order that has
  ended) and `ReturnsInv` (what came back of a live order belongs to a checkout
  that compensates and so never answers). A placed order was paid, so it was
  answered, so nothing of it came back. Gateway failures are included;
- `UnitsFollowTheEnd`, `LinesReturnOnce`: with `LineInv`. A line of an order has
  come back, or is owed by the one release loop that works on the order (the
  checkout's, the delivery's or the sweeper's, `Owing`), or neither: never two of
  them, because an order ends once and the write that ends it hands the order to
  one loop;
- `StockStaysConserved`, `NothingIsOversold`: the ledger. Each step of a handler
  moves units between the shelf, its own hands and one order (`CheckoutFlow`,
  `DeliveryFlow`, `SweepFlow`) and leaves what the others hold alone
  (`OthersKept`); the totals follow (`TotalChanges`, `LedgerStep`);
- `OneConfirmation`: with `ConfirmInv` (who holds the right to confirm an order
  is the one whose guarded write placed it, and it has not confirmed yet);
- `ProcessedIsApplied`: with `AppliedEverywhere` (an event a delivery is about to
  mark, or has marked, is applied, and what is applied stays so);
- `ServiceKeepsItsPromise`: `Spec => Shop!ShopSpec`. The initial states map to
  the open shop, and each step is split by what `OrdersStep` says of the orders:
  an insert is `Hold`, a placing `Sell` (paid by `PaidInv`), the three ways to
  end `Release`, Razorpay's capture `Take`, an email `Confirm` (by `ConfirmInv`),
  everything else a stutter. `ShopperKnown` says that a checkout about to insert
  has its shopper.

Two of these have a temporal hypothesis beside `Spec`, and it is needed.
`UnitsFollowTheEnd`, `LinesReturnOnce` and `NothingIsOversold` hold of the
behaviours in which no checkout has to undo an order it inserted
(`[]NobodyCompensates`): the run `gateway_race` is a behaviour with such a
checkout in which the shop promises units it does not have. Every other failure,
crash, repetition and race is allowed. `GatewayUpMeansNoCompensation` says when
the hypothesis holds: whenever neither Razorpay nor the write of its id fails.
`StockStaysConserved` is about the behaviours without a failed call
(`[](faults = 0)`), since a `ReturnStock` that fails is never retried and its
units are lost. Both hypotheses hold of real executions and of the instances of
the runs that check these properties.

### The accounts

- `AccountsTypeCorrect`, `NumberAlwaysKeepsItsAccount`, `CodesAreAlwaysGuarded`,
  `AlwaysOneDefaultAddress`: one inductive invariant of four parts. `TypeInv`
  says what a request knows at each step. `BooksInv`: every list in the store and
  every list in flight has one default and no id twice, so whichever write comes
  last leaves a valid book. `AccountsInv`: one document per phone, an old account
  reached from its old or its new form, and a request about to insert has seen
  that no old form is left. `CodesInv` and `GuessesInv`: a code not consumed has
  no session and none under way, and the attempts of a code with the wrong
  guesses still in flight stay below the limit plus the number of processes.

### The storefront

One invariant, `TypeInv /\ TabInv` of `StorefrontInvariants`, carries the first
five theorems. Every part of it is a predicate on a tab, so that it can be followed
through the commands, which are operators on tabs.

- `GoodTab`: the types, and for every call under way what its kind makes of its
  argument, its answer and the state it may wait in (`GoodCall`). Without the
  last a resumed command could not be said to find the data it goes on with.
- `FlagsInv`: a flag that is up has its call, and "payment" its waiting sheet or
  its ladder (`FlagsAreServed`). "addressSave", which field errors leave up, and
  "widgetSession", which a sign-in leaves up, are the exceptions.
- `PayInv`: of the order being opened, the waiting sheet and the ladder there is
  one at most, and its flag is up (`NeverTwoCheckouts`). `Rested` closes the gap
  to the buttons: while something is paid for, the flags that were *rendered*
  say so too, so the pay button rests between a step and its rendering.
- `PageInv`: the one load of details under way is of the page that was rendered,
  and what is shown is of the page (`DetailsAreOfThePage`).
- `HasRoom`: the bound on the calls, without which `FreeSlot` has no value.

`PaidStaysPaid` follows because only the closing of a sheet that waits tells of a
cancelled payment, and by `PayInv` no sheet waits once the payment was reported.

Its proof goes in four stages: what each action of the reducer leaves alone
(`Follows`), what asking, ending and joining do to the calls (`Places`), what a
command does (`Calm` if no payment or page comes of it, `Keeps` if it asks), and
the actions of `Storefront` (`Goes`). TLC had checked `TypeInv` and `TabInv` on
the storefront's run before they were proved. Two flaws of the model came to
light in this way: `AskedOnce` is not true of a click that was rendered before the
replay ended (now `stale`), and a failing widget could be reported where none had
been offered.

`SelectionIsAskedOnce` stands on a second invariant, `AskedInv`, beside the first.
`AskedOnce` compares the server's carts with what was asked for, and that alone is
not inductive: the server adds whatever a call brings, so everything a tab may
still send has to be afforded beforehand.

- `Once`, `Awaits`: one cart call and one sign-in at a time, each behind its
  guard; the login screen has rendered that a sign-in is under way; the selection
  in local storage is the reducer's.
- `Selects` names the selections that may still be added to a cart: the reducer's
  (unless a replay of it is under way), the rendered one, the one the open widget
  was given, and what the sign-in under way has left (`Left`: the item of an
  answered call is no longer left, though the command has not resumed). `Shows`
  names the carts a click or a "set" may start from, `Sends` the cart calls the
  server has not seen.
- `Affords`: each of these selections fits into `asked` on top of each account's
  cart, of each cart shown, and of what the call under way makes of them. The
  server caps a line at `MaxQty` (`Capped`), and what was asked for is capped
  likewise.

Most of the steps add nothing: they leave the selection and its calls alone
(`Aside`) or only take from them (`Bears`). Of the others, a click asks for more
before it sends or selects more; the widget takes the selection and hands it to a
sign-in; and when the server adds an item, that item is no longer left. The two
exceptions of `AskedOnce` are where this breaks: after a reload in the middle of a
replay (`torn`) local storage still has what the server has already added, and
after a click on an outdated card (`stale`) the reducer has. `Once` and `Awaits`
hold there too. TLC had checked `AskedInv` on the storefront's run as well.

`CartIsShownAtLast` and `BookIsShownAtLast` stand on a third, `SettleInv`. What
`CartSettles` and `BookSettles` say of a page with nothing under way needs, while
something is, where the missing piece is to come from.

- `Honest`: an answer that brings a cart (a book) was asked with the page's token,
  and what it brings is the server's cart of now; so whichever comes last is right.
- `CartInv`, `BookInv`: the page shows the server's cart (book), or a call is under
  way that will: a load, an answer that has it, a restored session or a ladder that
  will ask for it (`RenewsCart`, `RenewsBook`).
- `Loads`: a guard that is up belongs to a load under way, so a load that is
  skipped is skipped for another one. `Known`, `Restores`: the tokens about exist
  at the server, and a session is restored with one.

A step of the tab carries all this over (`Carries`), a resumed answer shows what
it brings or asks anew (`Settles`), and a page that opens, reloads or signs in
starts over (`Fresh`, `SignedInAs`). The server changes a cart only for a cart
call, whose answer tells of it, and for a placed order, whose ladder will load the
cart or which is marked; a book only for a save, which loads it anew, and a DELETE
(`Serves`). The proof attempt found two exceptions that the model had not made:
`CartSettles` was false of a click served between two items of the replay and
resumed first, and `BookSettles` of a DELETE that is answered after another user
has signed in. Both are behaviours of the code (see above); `Races` and `Skips`
mark them now, the former also more narrowly than before, only where an older
answer is really late, and a habit of the run reaches the first. TLC had checked
`SettleInv` on the storefront's run and, with two shoppers, on habits that reach
the second.

### The console

None of the console's properties is inductive: each depends on which answers may
still be under way when a page changes. `AdminConsoleInvariants` says it once.

- `PagesStayGood`, the invariant `PagesInv`, has three parts. `TypeInv`: the
  types, and that a live call is about the page that is open (`OfThePage`), which
  is what `cancelled` and the unmounting of a page are for. `OneAtATime`: while
  the guard or the form is not there nothing else is asked, and a resting button
  means that no answer of its kind is awaited; so at most one save, one upload and
  one step are under way. `FormInv`: the form, and the save under way, have what
  their operator did and else what the product has.
- `DraftsKeepEdits` is a part of `FormInv`.
- `SavesKeepTheStock`: a save is written with the form it was sent with, which
  still has the product's stock if `put` says that nothing touched either.
- `StepsAreWrittenOnce`, with `StepsInv`: `done` is the prefix of the steps up to
  the one the book has, and an order that is past a step was placed. The guarded
  write may append a step only if the book still has the one that was read.
- `BadgesGoForward`, with `BadgesInv`: the page shows no later step than the book
  has, no answer under way is older than the page, and a step under way is the
  one after the one shown. A step of the system that brings no answer of
  the order leaves the badge alone (`Calm`), and there is one answer at a time
  unless "Try again" was pressed during a step, which `seen` remembers.

- `WalksMissNothing`, with `WalksInv`. The pages before each cursor of the stack
  reach to it: every order that has to be shown and is not older than the cursor
  is on one of them (`Reaches`, `Covers`). The page that is shown reaches to the
  next cursor, and so does the one answer under way that counts, which is to the
  question of the page, together with the pages before it. At the last page
  nothing is older than the cursor, so everything has been shown. A page of the
  server leaves out no order that is not older than its cursor, but for one of
  the same millisecond (`ListCovers`); orders that come in later do not have to
  be shown, and one that changes need not be any more (`WalkShrinks`). Going
  back, filtering anew and trying again load from a place that is reached
  (`WalkLeads`), and an answer of an effect that was cleaned up is not live
  (`Quiet`). `DesksAssumption` says for this that a behaviour starts with
  finitely many orders.

The operators of `AdminConsole` on tabs (`Mount`, `Ask`, `Enter`, the `...Heard`
of each kind of call) each have a lemma that says what they do to the page and
its calls; the proofs of the steps cite those.

The strengthenings were checked with TLC on the instances above before they were
proved (`IInv` of the console: half a million states). Two flaws of the model
came to light in this way: `Used` had left out the pictures of an open form that
were never saved, and `done` had started empty for orders that are past a step.

### Only model-checked

The liveness properties (those of the run `liveness`, and `PaidIsTold`), which are
out of this prover's reach. `SigningInIsInFlight` and the other properties of
violating runs are false.

## Plan

Done: the modules above, and a theorem for every safety property of a passing run.
What is left, in order of worth:

1. The cart's read-modify-write inside `ShopServer`, against a second tab and the
   clear after placing, once somebody has written down which lines should survive.
2. The admin limiter around the password check, and the seeding at start-up.

## Not modelled

Adapters and wiring (I/O without state of their own), the admin limiter and the
password check, seeding, cart pricing, `Order.Validate`, labels and emails
(layout), the one-time-code screens of the storefront (no route reaches them),
the shop's filter, static content, styles and deployment scripts, HMAC and TLS
(trusted), rendering and wording.
