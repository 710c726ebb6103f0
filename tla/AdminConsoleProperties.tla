----------------------- MODULE AdminConsoleProperties -----------------------
(* What the console promises its operators. *)
EXTENDS AdminConsole

(* However many operators press the button of an order, on pages that show  *)
(* an older step, every step of its fulfilment is written once, in order,   *)
(* and to a placed order only.                                              *)
EachStepOnce ==
  \A o \in OrderIds : book[o] # None =>
    /\ done[o] = SubSeq(Steps, 1, Rank(book[o].fulfilment))
    /\ done[o] # <<>> => book[o].status = "placed"

(* The badge of an open order never goes back to an earlier step: neither a *)
(* refused step's reload nor a late answer overwrites a newer one.  (The    *)
(* exception: "Try again" pressed while a step is under way.)               *)
BadgeNeverGoesBack ==
  [][\A op \in Operators :
       LET shown == tabs[op].view.shown
           shown2 == tabs'[op].view.shown
       IN (/\ "overlap" \notin seen
           /\ tabs[op].route = "order" /\ tabs'[op].route = "order"
           /\ tabs'[op].subject = tabs[op].subject
           /\ shown # None /\ shown2 # None)
          => Rank(shown2.fulfilment) >= Rank(shown.fulfilment)]_vars

\* Orders whose millisecond is their own.
Alone == {o \in OrderIds : book[o] # None /\
            \A x \in OrderIds \ {o} : book[x] # None => book[x].created # book[o].created}

(* Paging to the end of the order book misses nothing: an operator on the   *)
(* last page has been shown every order that matched the filter when the    *)
(* first page was read and has not changed since, whatever orders came in   *)
(* meanwhile and whichever answers came late.  (The exception: an order     *)
(* that shares its millisecond with another.)  And no row of another filter *)
(* is left there: one shown matches the filter on screen or has changed     *)
(* since.                                                                   *)
WalkMissesNothing ==
  \A op \in Operators :
    LET view == tabs[op].view
        shown == UNION Range(walk[op].pages)
    IN (tabs[op].route = "orders" /\ view.rows # None /\ view.next = None)
       => /\ walk[op].steady \cap Alone \subseteq shown
          /\ \A o \in view.rows : Matches(book[o], view.filters) \/ o \notin walk[op].steady

(* What an operator did to the form of a product stays in it: the number    *)
(* and the box as last set, every picture added and none that was removed,  *)
(* however uploads, saves and failures overlap.  (The exception: an edit or *)
(* an upload that ends while a save is under way is lost to its answer.)    *)
DraftKeepsEdits ==
  \A op \in Operators :
    LET draft == tabs[op].view.draft
        mine == put[op]
    IN (tabs[op].route = "product" /\ draft # None /\ ~ mine.late)
       => /\ mine.stock \in {None, draft.stock}
          /\ mine.active \in {None, draft.active}
          /\ mine.added \subseteq Range(draft.images)
          /\ mine.removed \cap Range(draft.images) = {}

(* A save by an operator who left the stock alone does not change it, but   *)
(* for the units that moved since the form was filled: those it overwrites, *)
(* as the form warns.                                                       *)
UntouchedStockIsKept ==
  [][\A op \in Operators, i \in Slots :
       LET f == tabs[op].calls[i]
           saved == /\ Calling(op, i, "save") /\ f.live
                    /\ tabs'[op].calls[i] # None /\ tabs'[op].calls[i].status = "ok"
       IN (saved /\ put[op].stock = None /\ ~ put[op].moved)
          => shelf'[f.arg.id].stock = shelf[f.arg.id].stock]_vars

=============================================================================
