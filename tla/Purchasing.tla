----------------------------- MODULE Purchasing ------------------------------
(* Buying one kind of goods from one supplier (packages/purchasing): an      *)
(* order, the deliveries made against it or without it, the supplier's bills *)
(* and what the books make of them, and the comparison of the three that a   *)
(* person may be asked to accept.                                            *)
(*                                                                           *)
(* A request is one unit of work, one at a time.  Whoever records a bill may *)
(* say which delivery brought its goods, if one did, as posting-types.ts     *)
(* asks of him, or may not, as over the web API, which has no field for it.  *)
(* A request made again answers what there is and has no action.             *)
(*                                                                           *)
(* Left out: tax and money (Tax, Ledger), the checks on a bill before it is  *)
(* approved, and goods described in units that differ, which nothing clears. *)
EXTENDS Naturals, FiniteSets, FiniteSetsExt

CONSTANTS
    Deliveries, Purchases, None,
    Number, Billed, Dear, \* of each purchase: the bill's number, its quantity, whether it charges more than was agreed
    Ordered, Arrivals,    \* the quantity ordered; deliveries as [received, accepted]
    MaxSold, MaxApprovals \* bounds

VARIABLES
    order,     \* purchase_orders: its state and whether it was placed
    delivery,  \* goods_receipts
    bill,      \* purchase_bills: its state, the delivery that brought its goods, and the one it says did
    onHand,
    sold,
    approvals  \* purchase_match_approvals: fingerprint and the differences accepted

papers == <<order, delivery>>
shop == <<onHand, sold>>
vars == <<papers, bill, shop, approvals>>

OrderStates == {"NONE", "DRAFT", "PLACED", "PARTIALLY_RECEIVED", "RECEIVED", "CLOSED", "CANCELLED"}
Over == {"CLOSED", "CANCELLED"}

Receipt(a, for, state) == [state |-> state, received |-> a.received, accepted |-> a.accepted, forOrder |-> for]
Receipts == {Receipt(a, for, s) : a \in Arrivals, for \in BOOLEAN, s \in {"DRAFT", "CONFIRMED", "CANCELLED"}}

TypeOK ==
    /\ order \in [state : OrderStates, placed : BOOLEAN]
    /\ delivery \in [Deliveries -> {None} \cup Receipts]
    /\ bill \in [Purchases -> [state : {"NONE", "POSTED", "REVERSED"}, 
                            by : Deliveries \cup {None}, came : Deliveries \cup {None}]]
    /\ onHand \in Nat /\ sold \in 0..MaxSold

Init ==
    /\ order = [state |-> "NONE", placed |-> FALSE]
    /\ delivery = [d \in Deliveries |-> None]
    /\ bill = [p \in Purchases |-> [state |-> "NONE", by |-> None, came |-> None]]
    /\ onHand = 0 /\ sold = 0 /\ approvals = {}

Total(f) == MapThenSumSet(LAMBDA x : f[x], DOMAIN f)

-----------------------------------------------------------------------------
(* Orders                                                                    *)

Confirmed(of) == {d \in Deliveries : of[d] # None /\ of[d].state = "CONFIRMED"}
AgainstOrder(of) == {d \in Confirmed(of) : of[d].forOrder}
Accepted(ds, of) == Total([d \in ds |-> of[d].accepted])

CreateOrder ==
    /\ order.state = "NONE"
    /\ order' = [order EXCEPT !.state = "DRAFT"]
    /\ UNCHANGED <<delivery, bill, shop, approvals>>

PlaceOrder ==
    /\ order.state = "DRAFT"
    /\ order' = [state |-> "PLACED", placed |-> TRUE]
    /\ UNCHANGED <<delivery, bill, shop, approvals>>

CancelOrder ==
    /\ order.state \notin {"NONE", "CANCELLED"}
    /\ AgainstOrder(delivery) = {}
    /\ order' = [order EXCEPT !.state = "CANCELLED"]
    /\ UNCHANGED <<delivery, bill, shop, approvals>>

CloseOrder ==
    /\ order.state \notin {"NONE"} \cup Over
    /\ order' = [order EXCEPT !.state = "CLOSED"]
    /\ UNCHANGED <<delivery, bill, shop, approvals>>

\* The state that what has arrived gives an order.
Arrived(placed, of) ==
    CASE Accepted(AgainstOrder(of), of) >= Ordered -> "RECEIVED"
      [] Accepted(AgainstOrder(of), of) \in 1..Ordered-1 -> "PARTIALLY_RECEIVED"
      [] OTHER -> IF placed THEN "PLACED" ELSE "DRAFT"

\* Bug: an order only ever moves on.
AdvanceForward(of) ==
    order' = IF order.state \in Over \/ Accepted(AgainstOrder(of), of) = 0 THEN order
             ELSE [order EXCEPT !.state = Arrived(order.placed, of)]

\* #advanceOrder
Advance(of) ==
    order' = IF order.state \in Over THEN order ELSE [order EXCEPT !.state = Arrived(order.placed, of)]

-----------------------------------------------------------------------------
(* Deliveries                                                                *)

RecordReceipt(d, a, for) ==
    /\ delivery[d] = None
    /\ for => order.state \notin {"NONE", "CANCELLED"}
    /\ delivery' = [delivery EXCEPT ![d] = Receipt(a, for, "DRAFT")]
    /\ UNCHANGED <<order, bill, shop, approvals>>

\* The goods that were kept go on the shelf, and the order moves along.
ConfirmReceipt(d) ==
    /\ delivery[d] # None /\ delivery[d].state = "DRAFT"
    /\ delivery' = [delivery EXCEPT ![d].state = "CONFIRMED"]
    /\ onHand' = onHand + delivery[d].accepted
    /\ IF delivery[d].forOrder THEN Advance(delivery') ELSE UNCHANGED order
    /\ UNCHANGED <<bill, sold, approvals>>

GoodsConfirmed(d, a) ==
    /\ delivery[d] = None
    /\ delivery' = [delivery EXCEPT ![d] = Receipt(a, FALSE, "CONFIRMED")]
    /\ onHand' = onHand + a.accepted
    /\ UNCHANGED <<order, bill, sold, approvals>>

\* Bug: what was sold meanwhile is taken back all the same, as far as it goes.
TakeBackSome(n) == onHand' = IF n <= onHand THEN onHand - n ELSE 0

\* returnIn: the godown refuses to go below nothing.
TakeBack(n) == n <= onHand /\ onHand' = onHand - n

CancelReceipt(d) ==
    /\ delivery[d] # None /\ delivery[d].state \in {"DRAFT", "CONFIRMED"}
    /\ TakeBack(IF delivery[d].state = "CONFIRMED" THEN delivery[d].accepted ELSE 0)
    /\ delivery' = [delivery EXCEPT ![d].state = "CANCELLED"]
    /\ IF delivery[d].forOrder THEN Advance(delivery') ELSE UNCHANGED order
    /\ UNCHANGED <<bill, sold, approvals>>

-----------------------------------------------------------------------------
(* Bills                                                                     *)

Live(p) == bill[p].state = "POSTED"

\* Bug: the bill's goods come in whatever brought them.
BroughtAnyhow(p, came) == Billed[p]

Brought(p, came) == IF came = None THEN Billed[p] ELSE 0

\* One live bill for each of the supplier's numbers; one that was undone stays so.  A bill
\* names the delivery its goods came by, or none.
Post(p, by, came) ==
    /\ bill[p].state = "NONE"
    /\ ~ \E q \in Purchases : Live(q) /\ Number[q] = Number[p]
    /\ by \in Confirmed(delivery) \cup {None} /\ came \in {by, None}
    /\ bill' = [bill EXCEPT ![p] = [state |-> "POSTED", by |-> by, came |-> came]]
    /\ onHand' = onHand + Brought(p, came)
    /\ UNCHANGED <<papers, sold, approvals>>

Reverse(p) ==
    /\ Live(p)
    /\ TakeBack(IF bill[p].came = None THEN Billed[p] ELSE 0)
    /\ bill' = [bill EXCEPT ![p].state = "REVERSED"]
    /\ UNCHANGED <<papers, sold, approvals>>

Sell ==
    /\ onHand > 0 /\ sold < MaxSold
    /\ onHand' = onHand - 1 /\ sold' = sold + 1
    /\ UNCHANGED <<papers, bill, approvals>>

-----------------------------------------------------------------------------
(* The comparison of a bill with the order and what came for it; or, without *)
(* an order, with the deliveries that are named: all of the supplier's, which *)
(* is what the API names (demo-application.ts:6000), or none.                *)

MayName == {"supplier", "nothing"} \cup IF order.state = "NONE" THEN {} ELSE {"order"}
Compared(named) ==
    CASE named = "order" -> AgainstOrder(delivery) [] named = "supplier" -> Confirmed(delivery) [] OTHER -> {}

\* quantityWithinTolerance: one part in a hundred.
Beyond(expected, actual) == actual > expected + expected \div 100

\* The differences that hold a bill until a person accepts them, with their size.
Holds(p, named) ==
    LET kept == Accepted(Compared(named), delivery)
        arrived == Compared(named) # {}
    IN (IF arrived /\ Beyond(kept, Billed[p]) THEN {<<"INVOICED_ABOVE_ACCEPTED", Billed[p] - kept>>} ELSE {})
         \cup (IF arrived /\ named = "order" /\ Beyond(Ordered, kept) THEN {<<"OVER_DELIVERED", kept - Ordered>>} ELSE {})
         \cup (IF named = "order" /\ Dear[p] THEN {<<"PRICE_ABOVE_ORDER", 1>>} ELSE {})

\* Bug: the fingerprint is of the order and the bill alone.
FingerprintOfPaper(p, named) == <<Number[p], named, Billed[p], Dear[p]>>

\* fingerprintOfMatch
Fingerprint(p, named) ==
    <<Number[p], named, Billed[p], Dear[p],
      {<<d, delivery[d].received, delivery[d].accepted>> : d \in Compared(named)}>>

Cleared(p, named) == Holds(p, named) = {} \/ \E a \in approvals : a.print = Fingerprint(p, named)

ApproveMatch(p, named) ==
    /\ named \in MayName
    /\ ~Cleared(p, named)
    /\ Cardinality(approvals) < MaxApprovals
    /\ approvals' = approvals \cup {[print |-> Fingerprint(p, named), number |-> Number[p], accepted |-> Holds(p, named)]}
    /\ UNCHANGED <<papers, bill, shop>>

Next ==
    \/ CreateOrder \/ PlaceOrder \/ CancelOrder \/ CloseOrder
    \/ \E d \in Deliveries :
         \/ \E a \in Arrivals : GoodsConfirmed(d, a) \/ \E for \in BOOLEAN : RecordReceipt(d, a, for)
         \/ ConfirmReceipt(d) \/ CancelReceipt(d)
    \/ \E p \in Purchases :
         \/ Reverse(p) \/ \E by, came \in Deliveries \cup {None} : Post(p, by, came)
         \/ \E named \in {"order", "supplier", "nothing"} : ApproveMatch(p, named)
    \/ Sell

-----------------------------------------------------------------------------
(* Where the bills that stand name the delivery that brought their goods,    *)
(* goods come in once: by that delivery, as many as it accepted, or else by  *)
(* the bill, whatever is sold, cancelled or reversed in between              *)
(* (matching-service.ts:296, 399, posting-service.ts:199, 318).  A bill that *)
(* keeps its delivery to itself, as every bill of delivered goods recorded   *)
(* over the web API does (demo-application.ts:7803), brings them in again:   *)
(* of those nothing is claimed here.                                         *)
GoodsComeInOnce ==
    (\A p \in Purchases : Live(p) => bill[p].came = bill[p].by) =>
      onHand + sold = Accepted(Confirmed(delivery), delivery)
                        + Total([p \in Purchases |-> IF Live(p) /\ bill[p].by = None THEN Billed[p] ELSE 0])

(* An order that is not over shows what has arrived, backwards too           *)
(* (matching-service.ts:539).                                                *)
OrderShowsArrivals == order.state \in {"NONE"} \cup Over \/ order.state = Arrived(order.placed, delivery)

(* Differences a person accepted clear a bill with those differences and no  *)
(* others (matching-service.ts:518, matching.ts:435).                        *)
AcceptedAsSeen ==
    \A p \in Purchases, named \in MayName : Cleared(p, named) /\ Holds(p, named) # {} =>
      \E a \in approvals : a.number = Number[p] /\ a.accepted = Holds(p, named)
=============================================================================
