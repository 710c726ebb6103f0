---------------------------- MODULE MCStorefront ----------------------------
(* Small instances of the storefront: one habit per part of the shop. *)
EXTENDS StorefrontInvariants

CONSTANTS p1, p2, a1, a2, u1

One(p) == [q \in Products |-> IF q = p THEN 1 ELSE 0]
Home == [ids |-> {a1}, dflt |-> a1]
Two == [ids |-> {a1, a2}, dflt |-> a1]

Habit(start, does, n, bad, cart, book, stored) ==
  [start |-> start, does |-> does, clicks |-> n, faults |-> bad, cart |-> cart, book |-> book,
   stored |-> stored]

\* The page is opened, with or without a token, which may have lapsed, and
\* with a stored selection; the boot is retried, or the shopper signs in
\* before it has ended and edits the cart while the selection is replayed.
Opening ==
  {Habit("opening", {"banner", "shop", "cart", "widgetFails"}, 2, 1, One(p1), Home, One(p1)),
   Habit("restoring", {"prompt", "signIn", "leave", "shop"}, 4, 0, One(p1), Home, One(p2))}

\* An offline selection is taken through sign-in, sign-out and reloads.
Selecting ==
  {Habit("out", {"cart", "signIn", "reload"}, 5, 1, NoLines, NoBook, One(p1)),
   Habit("out", {"pdp", "cart", "leave", "signIn", "signOut"}, 6, 0, NoLines, NoBook, NoLines)}

\* The cart is edited from its screen and from the cards.
Filling ==
  {Habit("in", {"shop", "lines", "cart", "leave", "signOut", "signIn", "expire"}, 4, 0,
         One(p1), NoBook, NoLines)}

\* The address book is edited.
Lodging == {Habit("in", {"book", "cart", "leave"}, 5, 1, One(p1), Home, NoLines)}

\* The cart is paid for, with the way back to the cart open all along.
Buying ==
  {Habit("in", {"pay", "cart", "leave", "expire", "orderEnds"}, 5, 2, One(p1), Home, NoLines),
   Habit("in", {"pay", "lines", "cart", "signOut", "orders"}, 5, 0,
         One(p1), Home, NoLines)}

\* A shopper signs in, out and wants to sign in again.
Returning == {Habit("out", {"cart", "signIn", "signOut"}, 4, 0, NoLines, NoBook, NoLines)}

MCHabits == Opening \cup Selecting \cup Filling \cup Lodging \cup Buying
=============================================================================
