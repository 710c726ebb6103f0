------------------------------ MODULE Sweeper -------------------------------
(***************************************************************************)
(* The background sweeper (internal/order/sweeper.go): each tick finds the *)
(* lapsed reservations, claims them one by one with a guarded update and   *)
(* returns the stock of those it claimed.  sw[s] is the tick in progress   *)
(* of sweeper process s: the orders left in its batch, the order it has    *)
(* claimed and the lines of it left to return.                             *)
(***************************************************************************)
EXTENDS OrderStore

CONSTANTS
  Sweepers,      \* API processes whose sweeper is enabled
  SweepBatch     \* SweeperConfig.Batch (100 in production)

ASSUME SweeperAssumption == SweepBatch \in Nat \ {0}

ASSUME FiniteSweepers == IsFiniteSet(Sweepers)

VARIABLE sw

SweeperPC == {"idle", "claim", "release"}

Tick == [pc : SweeperPC, batch : SUBSET OrderIds, order : OrderIds \cup {NoOrder},
         todo : SUBSET Products]

SweeperTypeOK == sw \in [Sweepers -> Tick]

NoTick == [pc |-> "idle", batch |-> {}, order |-> NoOrder, todo |-> {}]

SweeperInit == sw = [s \in Sweepers |-> NoTick]

\* FindExpiredPending: all lapsed reservations, or SweepBatch of them.
FindExpired(s) ==
  /\ sw[s].pc = "idle"
  /\ \E batch \in SUBSET ExpiredPending :
       /\ batch # {}
       /\ \/ batch = ExpiredPending /\ Cardinality(batch) <= SweepBatch
          \/ Cardinality(batch) = SweepBatch
       /\ sw' = [sw EXCEPT ![s].pc = "claim", ![s].batch = batch]
  /\ UNCHANGED storeVars

\* Bug variant: an order someone else settled is released all the same.
ClaimExpiredBlind(s) ==
  /\ sw[s].pc = "claim"
  /\ \E o \in sw[s].batch, modified \in BOOLEAN :
       /\ MarkExpired(o, modified)
       /\ sw' = [sw EXCEPT ![s] = [pc |-> "release", batch |-> sw[s].batch \ {o},
                                   order |-> o, todo |-> Items(orders[o].lines)]]
  /\ UNCHANGED <<stock, cart, returns, faults>>

\* MarkExpired on the next order of the batch: release it only if we won it.
ClaimExpired(s) ==
  /\ sw[s].pc = "claim"
  /\ \E o \in sw[s].batch, modified \in BOOLEAN :
       /\ MarkExpired(o, modified)
       /\ sw' = [sw EXCEPT
            ![s] = IF modified
                     THEN [pc |-> "release", batch |-> sw[s].batch \ {o},
                           order |-> o, todo |-> Items(orders[o].lines)]
                     ELSE [sw[s] EXCEPT !.batch = @ \ {o}]]
  /\ UNCHANGED <<stock, cart, returns, faults>>

\* One turn of sweepReleaseLines.
SweepReturn(s) ==
  /\ sw[s].pc = "release"
  /\ \E p \in sw[s].todo :
       /\ ReturnLine(sw[s].order, p)
       /\ sw' = [sw EXCEPT ![s].todo = @ \ {p},
                           ![s].pc = IF sw[s].todo = {p} THEN "claim" ELSE "release"]
  /\ UNCHANGED <<orders, cart>>

\* The batch is done.
EndTick(s) ==
  /\ sw[s].pc = "claim"
  /\ sw[s].batch = {}
  /\ sw' = [sw EXCEPT ![s] = NoTick]
  /\ UNCHANGED storeVars

\* MarkExpired fails, which aborts the tick, or the process dies.
TickFails(s) ==
  /\ \/ sw[s].pc = "claim" /\ Fail("db")
     \/ sw[s].pc # "idle" /\ Fail("stop")
  /\ sw' = [sw EXCEPT ![s] = NoTick]
  /\ UNCHANGED <<orders, stock, cart, returns>>

SweeperStep(s) == FindExpired(s) \/ ClaimExpired(s) \/ SweepReturn(s) \/ EndTick(s)

SweeperNext(s) == SweeperStep(s) \/ TickFails(s)

=============================================================================
