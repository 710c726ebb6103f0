-------------------------- MODULE OrderInvariants ---------------------------
(***************************************************************************)
(* The inductive strengthenings of the safety properties: what the local   *)
(* state of a handler says about the database between two of its calls.    *)
(***************************************************************************)
EXTENDS OrderProperties

Ended == {"payment_failed", "expired"}

\* A handler that is about to touch an order or an event has one.
CheckoutLocals ==
  \A r \in Requests :
    co[r].pc \in {"releaseOld", "gateway", "link", "compensate", "opened"} =>
      co[r].order \in OrderIds

CallbackLocals ==
  \A c \in Callbacks :
    cb[c].pc \in {"write", "effects", "reread"} => cb[c].order \in OrderIds

DeliveryLocals == \A d \in Deliveries : wh[d].pc # "idle" => wh[d].event \in Event

SweeperLocals ==
  \A s \in Sweepers : sw[s].pc = "release" => sw[s].order \in OrderIds

LocalsOK == CheckoutLocals /\ CallbackLocals /\ DeliveryLocals /\ SweeperLocals

TypeInv == TypeOK /\ LocalsOK

-----------------------------------------------------------------------------
(* Whose order it is.                                                      *)

\* Request r has inserted order o.
Inserted(r, o) ==
  co[r].pc \in {"gateway", "link", "compensate", "opened"} /\ co[r].order = o

\* A request inserts its order into the collection and no other request has
\* that order; what is answered to the shopper is linked.
InsertInv ==
  /\ \A r \in Requests, o \in OrderIds :
       Inserted(r, o) => orders[o].status # "absent"
  /\ \A r1, r2 \in Requests, o \in OrderIds :
       Inserted(r1, o) /\ Inserted(r2, o) => r1 = r2
  /\ \A r \in Requests, o \in OrderIds :
       co[r].pc = "opened" /\ co[r].order = o => orders[o].linked
  /\ \A o \in OrderIds : orders[o].linked => orders[o].status # "absent"

\* Whatever Razorpay reports is about an order that was answered to its
\* shopper, and handlers act only on what Razorpay reported.
PaidInv ==
  /\ \A e \in emitted : \E r \in Requests : co[r].pc = "opened" /\ co[r].order = e.order
  /\ \A o \in OrderIds : PaidEvent(o) \in emitted => Captured(o)
  /\ \A c \in Callbacks :
       cb[c].pc \in {"write", "effects", "reread"} => Captured(cb[c].order)
  /\ \A d \in Deliveries : wh[d].pc # "idle" => wh[d].event \in emitted

-----------------------------------------------------------------------------
(* Who may put units back.                                                 *)

\* A release loop of a handler that ended a reservation works on an order
\* that stays ended.
ReleaseInv ==
  /\ \A r \in Requests :
       co[r].pc = "releaseOld" => orders[co[r].order].status \in Ended
  /\ \A d \in Deliveries :
       wh[d].pc = "release" => orders[wh[d].event.order].status \in Ended
  /\ \A s \in Sweepers :
       sw[s].pc = "release" => orders[sw[s].order].status \in Ended

\* Nothing of an order was put back before it exists, nor while it is live and
\* has been, or may still be, answered to its shopper.
ReturnsInv ==
  \A o \in OrderIds, p \in Products :
    returns[o][p] # 0 =>
      /\ orders[o].status # "absent"
      /\ orders[o].status \in Ended
           \/ \A r \in Requests : Inserted(r, o) => co[r].pc = "compensate"

\* No checkout is giving up an order it has inserted.
NobodyCompensates == \A r \in Requests : co[r].pc # "compensate"

\* The release loop of a handler has still to put line p of order o back.
CheckoutOwes(r, o, p) == co[r].pc = "releaseOld" /\ co[r].order = o /\ p \in co[r].todo
DeliveryOwes(d, o, p) == wh[d].pc = "release" /\ wh[d].event.order = o /\ p \in wh[d].todo
SweeperOwes(s, o, p) == sw[s].pc = "release" /\ sw[s].order = o /\ p \in sw[s].todo

Owing(o, p) ==
  ({"checkout"} \X {r \in Requests : CheckoutOwes(r, o, p)})
    \cup ({"delivery"} \X {d \in Deliveries : DeliveryOwes(d, o, p)})
    \cup ({"sweeper"} \X {s \in Sweepers : SweeperOwes(s, o, p)})

\* A line that was put back is nobody's to put back again, and nobody shares
\* one with another handler.  Only an order that has ended has such lines.
LineInv ==
  \A o \in OrderIds, p \in Products :
    /\ returns[o][p] = 0 \/ (returns[o][p] = 1 /\ Owing(o, p) = {})
    /\ \A x, y \in Owing(o, p) : x = y
    /\ orders[o].status \notin Ended => returns[o][p] = 0

-----------------------------------------------------------------------------
(* Who confirms.                                                           *)

\* The handlers that won the MarkPlaced of order o and have still to confirm it.
Confirming(o) ==
  {c \in Callbacks : cb[c].pc = "effects" /\ cb[c].order = o}
DeliveryConfirming(o) ==
  {d \in Deliveries : wh[d].pc = "effects" /\ wh[d].event.order = o}

ConfirmInv ==
  \A o \in OrderIds :
    /\ Confirming(o) # {} \/ DeliveryConfirming(o) # {} =>
         orders[o].status = "placed" /\ confirmations[o] = 0
    /\ Confirming(o) = {} \/ DeliveryConfirming(o) = {}
    /\ \A c1, c2 \in Confirming(o) : c1 = c2
    /\ \A d1, d2 \in DeliveryConfirming(o) : d1 = d2

=============================================================================
