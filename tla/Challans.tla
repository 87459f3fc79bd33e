------------------------------ MODULE Challans -------------------------------
(* Goods that leave before their bill (packages/sales/src/challan-service.ts *)
(* behind apps/api/src/challan-application.ts): a delivery challan keeps its *)
(* goods off sale with a hold of its own until it is billed, linked to a     *)
(* bill made otherwise, or cancelled.  The challan and the hold belong to    *)
(* two services; what joins them are the hooks of the API.                   *)
(*                                                                           *)
(* A request is one unit of work, one at a time, so a refused one leaves     *)
(* nothing; one made again answers what there is and has no action.          *)
(*                                                                           *)
(* One item in one godown for one customer.  Left out: figures and tax, the  *)
(* print, quantities that are estimates (liquid gas), and what refuses a     *)
(* challan whatever the stock.                                               *)
EXTENDS Integers, FiniteSets, FiniteSetsExt

CONSTANTS
    Challans, Bills, None,
    Stock,    \* goods in the godown at the start
    MaxLost   \* bound: goods that counts find missing

VARIABLES
    challan,  \* delivery_challans
    bill,     \* sales bills, each issued in one go
    onHand,   \* goods in the godown by the movements
    held,     \* goods HELD by stock_reservations, by challan
    lost

vars == <<challan, bill, onHand, held, lost>>

Pieces == 1..Stock

Papers == [state : {"ISSUED", "INVOICED", "CANCELLED"}, qty : Pieces, invoiceFollows : BOOLEAN,
           ewayBill : BOOLEAN, invoice : Bills \cup {None}, differs : BOOLEAN]
Sales == [state : {"FINAL", "CANCELLED"}, qty : Pieces]

TypeOK ==
    /\ challan \in [Challans -> Papers \cup {None}] /\ bill \in [Bills -> Sales \cup {None}]
    /\ onHand \in 0..Stock /\ held \in [Challans -> 0..Stock] /\ lost \in 0..MaxLost

Init ==
    /\ challan = [c \in Challans |-> None] /\ bill = [b \in Bills |-> None]
    /\ onHand = Stock /\ held = [c \in Challans |-> 0] /\ lost = 0

Held == MapThenSumSet(LAMBDA c : held[c], Challans)
Available == onHand - Held

Made(c) == challan[c] # None
Open(c) == Made(c) /\ challan[c].state = "ISSUED"
Final(b) == bill[b] # None /\ bill[b].state = "FINAL"

-----------------------------------------------------------------------------
(* Holds (the hooks)                                                         *)

\* Bug: a challan that is cancelled keeps what it held.
ReleaseBilled(c) == held' = IF challan'[c].state = "INVOICED" THEN [held EXCEPT ![c] = 0] ELSE held

Release(c) == held' = [held EXCEPT ![c] = 0]

\* Bug: goods in the godown are enough.
CheckOnHand(n) == n <= onHand

Check(n) == n <= Available

-----------------------------------------------------------------------------
(* Challans                                                                  *)

Issue(c, n, follows) ==
    /\ challan[c] = None /\ Check(n)
    /\ challan' = [challan EXCEPT ![c] = [state |-> "ISSUED", qty |-> n, invoiceFollows |-> follows,
                                          ewayBill |-> FALSE, invoice |-> None, differs |-> FALSE]]
    /\ held' = [held EXCEPT ![c] = n]
    /\ UNCHANGED <<bill, onHand, lost>>

AttachEwayBill(c) ==
    /\ Open(c)
    /\ challan' = [challan EXCEPT ![c].ewayBill = TRUE]
    /\ UNCHANGED <<bill, onHand, held, lost>>

\* Bug: only more than was sent is written down.
DiffersMore(c, n) == n > challan[c].qty

\* A shortfall is written down, not refused; each challan is compared alone.
Differs(c, n) == n < challan[c].qty

Linked(c, b, n) ==
    /\ Open(c) /\ challan[c].invoiceFollows
    /\ challan' = [challan EXCEPT ![c] = [@ EXCEPT !.state = "INVOICED", !.invoice = b, !.differs = Differs(c, n)]]
    /\ Release(c)

LinkInvoice(c, b) ==
    /\ Final(b) /\ Linked(c, b, bill[b].qty)
    /\ UNCHANGED <<bill, onHand, lost>>

Billed(b, n) ==
    /\ bill[b] = None
    /\ bill' = [bill EXCEPT ![b] = [state |-> "FINAL", qty |-> n]]
    /\ onHand' = onHand - n

\* The hold is let go, the bill takes the goods if they are still there, and is linked.
BillChallan(c, b) ==
    /\ Open(c) /\ challan[c].qty <= Available + held[c]
    /\ Billed(b, challan[c].qty) /\ Linked(c, b, challan[c].qty)
    /\ lost' = lost

\* Bug: a challan that is billed may be cancelled too.
MayCancelBilled(c, confirmed) == Made(c) /\ challan[c].state # "CANCELLED" /\ (challan[c].ewayBill => confirmed)

MayCancel(c, confirmed) == Open(c) /\ (challan[c].ewayBill => confirmed)

Cancel(c, confirmed) ==
    /\ MayCancel(c, confirmed)
    /\ challan' = [challan EXCEPT ![c].state = "CANCELLED"]
    /\ Release(c)
    /\ UNCHANGED <<bill, onHand, lost>>

-----------------------------------------------------------------------------
(* Beside them                                                               *)

RecordSale(b, n) == Check(n) /\ Billed(b, n) /\ UNCHANGED <<challan, held, lost>>

CancelSale(b) ==
    /\ Final(b)
    /\ bill' = [bill EXCEPT ![b].state = "CANCELLED"]
    /\ onHand' = onHand + bill[b].qty
    /\ UNCHANGED <<challan, held, lost>>

\* A count may find goods missing that a challan holds.
Lose ==
    /\ onHand > 0 /\ lost < MaxLost
    /\ onHand' = onHand - 1 /\ lost' = lost + 1
    /\ UNCHANGED <<challan, bill, held>>

Next ==
    \/ \E c \in Challans, n \in Pieces, follows \in BOOLEAN : Issue(c, n, follows)
    \/ \E c \in Challans : AttachEwayBill(c)
    \/ \E c \in Challans, b \in Bills : LinkInvoice(c, b) \/ BillChallan(c, b)
    \/ \E c \in Challans, confirmed \in BOOLEAN : Cancel(c, confirmed)
    \/ \E b \in Bills, n \in Pieces : RecordSale(b, n)
    \/ \E b \in Bills : CancelSale(b)
    \/ Lose

Spec == Init /\ [][Next]_vars

-----------------------------------------------------------------------------
(* Goods that are out on a challan are kept off sale until it is billed or   *)
(* cancelled, and no longer (challan-application.ts:226, demo-application.ts *)
(* :3360): the hold follows the challan's state, and unless a count finds    *)
(* some missing, the goods in the godown cover every challan that is out.    *)
OutIsKept ==
    /\ \A c \in Challans : held[c] = IF Open(c) THEN challan[c].qty ELSE 0
    /\ lost = 0 => Available >= 0

(* A challan that is billed stays so, and names a bill that was issued, for  *)
(* goods that are sold; where that bill has less than the challan sent, this *)
(* is on record (challan-service.ts:286-298, 330-336, 378).                  *)
BilledIsOnRecord ==
    \A c \in Challans : Made(c) /\ challan[c].invoice # None =>
      /\ challan[c].state = "INVOICED" /\ challan[c].invoiceFollows /\ bill[challan[c].invoice] # None
      /\ bill[challan[c].invoice].qty < challan[c].qty => challan[c].differs
=============================================================================
