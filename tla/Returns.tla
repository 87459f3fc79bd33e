------------------------------ MODULE Returns ------------------------------
(* Credit and debit notes on one issued bill (packages/returns): goods that  *)
(* come back, line by line or the whole bill, charges included; and a price  *)
(* corrected with nothing coming back, down or up, on what the customer      *)
(* keeps.  Goods that come back are credited at the price then in force, so  *)
(* a note depends on every note before it.                                   *)
(*                                                                           *)
(* A request looks first and makes the note later, in a transaction that     *)
(* works everything out again; requests interleave in between, as the        *)
(* service allows.  A key seen before changes nothing and has no action.     *)
(* All taxes of a line are one amount here, and quantities are whole.        *)
(*                                                                           *)
(* Left out: dates and their limits, which only refuse; the goods' movements *)
(* (Inventory); the evidence asked for a discount; returns to a supplier.    *)
EXTENDS Naturals, Integers, FiniteSets, FiniteSetsExt

CONSTANTS
    Lines, Charges,   \* of the bill; Charges \subseteq Lines are freight and the like
    Sold, Value, Tax, \* of each line: quantity, taxable value and tax, in paise
    Keys, Callers, None,
    Amounts           \* quantities, new prices and amounts off that are asked for

VARIABLES
    bill,     \* FINAL or CANCELLED
    note,     \* the note made under each key
    asked     \* what a request has looked at and not yet recorded

vars == <<bill, note, asked>>

Kinds == {"goods", "whole", "amount off", "new price"}
Commands == [key : Keys, kind : Kinds, line : Lines, n : Amounts]

TypeOK ==
    /\ bill \in {"FINAL", "CANCELLED"}
    /\ \A k \in Keys : note[k] # None =>
          /\ note[k].kind \in {"goods", "cut", "raise"} /\ note[k].lines # <<>> /\ DOMAIN note[k].lines \subseteq Lines
          /\ \A l \in DOMAIN note[k].lines : note[k].lines[l] \in [qty : 1..Sold[l], tax : Int, total : Int]
    /\ \A c \in Callers : asked[c] \in Commands \cup {None}

Init == bill = "FINAL" /\ note = [k \in Keys |-> None] /\ asked = [c \in Callers |-> None]

-----------------------------------------------------------------------------
(* Amounts                                                                   *)

HalfUp(n, d) == (n + d \div 2) \div d

\* isGoodsReturn, isPriceCorrection: the notes on a line.
On(l, kinds) == {k \in Keys : note[k] # None /\ note[k].kind \in kinds /\ l \in DOMAIN note[k].lines}
Corrections(l) == On(l, {"cut", "raise"})

Already(l) == MapThenSumSet(LAMBDA k : note[k].lines[l].qty, On(l, {"goods"}))
Kept(l) == Sold[l] - Already(l)

\* #amounts: a share of the line; a remainder goes into the taxable value,
\* which is always what the total leaves beside the tax.
Share(l, q) == [qty |-> q, tax |-> HalfUp(Tax[l] * q, Sold[l]), total |-> HalfUp((Value[l] + Tax[l]) * q, Sold[l])]

TaxableValue(a) == a.total - a.tax

\* Each correction spread over all that was sold.
AtCurrentPriceOfSold(l, q) ==
    LET part(k, f) == LET of == note[k].lines[l][f] * q IN IF note[k].kind = "raise" THEN HalfUp(of, Sold[l]) ELSE -HalfUp(of, Sold[l])
    IN [Share(l, q) EXCEPT !.tax = @ + MapThenSumSet(LAMBDA k : part(k, "tax"), Corrections(l)),
                           !.total = @ + MapThenSumSet(LAMBDA k : part(k, "total"), Corrections(l))]

\* #amountsAtCurrentPrice: each correction is spread over the units it was for.
AtCurrentPrice(l, q) ==
    LET part(k, f) == LET of == HalfUp(note[k].lines[l][f] * q, note[k].lines[l].qty) IN IF note[k].kind = "raise" THEN of ELSE -of
    IN [Share(l, q) EXCEPT !.tax = @ + MapThenSumSet(LAMBDA k : part(k, "tax"), Corrections(l)),
                           !.total = @ + MapThenSumSet(LAMBDA k : part(k, "total"), Corrections(l))]

-----------------------------------------------------------------------------
(* What a command would make: previewSales, previewPriceCorrection           *)

\* One line within what the bill sold.
ReturnsUnseen(cmd) ==
    IF cmd.kind = "whole" THEN [l \in {m \in Lines : Kept(m) > 0} |-> AtCurrentPrice(l, Kept(l))]
    ELSE [l \in {cmd.line} |-> AtCurrentPrice(l, cmd.n)]

\* The lines that come back: one, within what is left of it, or all that is left.
Returns(cmd) ==
    IF cmd.kind = "whole" THEN [l \in {m \in Lines : Kept(m) > 0} |-> AtCurrentPrice(l, Kept(l))]
    ELSE [l \in {m \in {cmd.line} : cmd.n \in 1..Kept(m)} |-> AtCurrentPrice(l, cmd.n)]

\* How much a line's taxable value changes.
Difference(cmd) ==
    IF cmd.kind = "new price" THEN cmd.n * Kept(cmd.line) - TaxableValue(AtCurrentPrice(cmd.line, Kept(cmd.line))) ELSE -cmd.n

\* By no more than the bill said.
CorrectionOfBill(cmd) ==
    LET l == cmd.line
        d == Difference(cmd)
        size == IF d < 0 THEN -d ELSE d
        tax == HalfUp(Tax[l] * size, Value[l])
    IN IF l \in Charges \/ Value[l] = 0 \/ Kept(l) = 0 \/ d = 0 \/ -d > Value[l] THEN <<>>
       ELSE [m \in {l} |-> [qty |-> Kept(l), tax |-> tax, total |-> size + tax]]

\* A correction of what is kept, by no more than it is now billed at.
Correction(cmd) ==
    LET l == cmd.line
        d == Difference(cmd)
        size == IF d < 0 THEN -d ELSE d
        tax == HalfUp(Tax[l] * size, Value[l])
    IN IF l \in Charges \/ Value[l] = 0 \/ Kept(l) = 0 \/ d = 0 \/ -d > TaxableValue(AtCurrentPrice(l, Kept(l))) THEN <<>>
       ELSE [m \in {l} |-> [qty |-> Kept(l), tax |-> tax, total |-> size + tax]]

Makes(cmd) ==
    IF cmd.kind \in {"goods", "whole"} THEN [kind |-> "goods", lines |-> Returns(cmd)]
    ELSE [kind |-> IF Difference(cmd) < 0 THEN "cut" ELSE "raise", lines |-> Correction(cmd)]

\* previewSales and previewPriceCorrection pass.
MayMake(cmd) == bill = "FINAL" /\ DOMAIN Makes(cmd).lines # {}

\* The ledger takes no line that is negative, or that is nothing at all.
MayPost(n) ==
    LET all(f) == MapThenSumSet(LAMBDA l : n.lines[l][f], DOMAIN n.lines)
    IN all("tax") >= 0 /\ all("total") > all("tax")

-----------------------------------------------------------------------------
Ask(c, cmd) ==
    /\ asked[c] = None /\ note[cmd.key] = None /\ MayMake(cmd)
    /\ asked' = [asked EXCEPT ![c] = cmd]
    /\ UNCHANGED <<bill, note>>

\* The bill is still what it was at the look.
MayRecordTrusting(cmd) == DOMAIN Makes(cmd).lines # {} /\ note[cmd.key] = None /\ MayPost(Makes(cmd))

\* In the transaction everything is worked out again; the key is unique.
MayRecord(cmd) == MayMake(cmd) /\ note[cmd.key] = None /\ MayPost(Makes(cmd))

Record(c) ==
    /\ asked[c] # None /\ MayRecord(asked[c])
    /\ note' = [note EXCEPT ![asked[c].key] = Makes(asked[c])]
    /\ asked' = [asked EXCEPT ![c] = None]
    /\ UNCHANGED bill

\* A refusal undoes the transaction.
Refuse(c) ==
    /\ asked[c] # None /\ ~MayRecord(asked[c])
    /\ asked' = [asked EXCEPT ![c] = None]
    /\ UNCHANGED <<bill, note>>

\* A bill with a note is not cancelled: its guard, and then the cancellation.
Cancel ==
    /\ bill = "FINAL" /\ \A k \in Keys : note[k] = None
    /\ bill' = "CANCELLED" /\ UNCHANGED <<note, asked>>

\* Distinct commands: a whole bill needs no line, the others a number.
Asked == {cmd \in Commands : IF cmd.kind = "whole" THEN cmd.n = 0 /\ cmd.line \in Charges
                             ELSE cmd.kind = "new price" \/ cmd.n > 0}

Next ==
    \/ \E c \in Callers : Record(c) \/ Refuse(c) \/ \E cmd \in Asked : Ask(c, cmd)
    \/ Cancel

Spec == Init /\ [][Next]_vars

-----------------------------------------------------------------------------
\* What is charged for a line after all its notes, of its tax or in all.
Left(l, f) ==
    (IF f = "tax" THEN Tax[l] ELSE Value[l] + Tax[l])
      + MapThenSumSet(LAMBDA k : note[k].lines[l][f], On(l, {"raise"}))
      - MapThenSumSet(LAMBDA k : note[k].lines[l][f], On(l, {"goods", "cut"}))

\* Each return rounds its share of the line and of every correction; each
\* correction rounds its tax.
Roundings(l) ==
    LET m == Cardinality(Corrections(l)) IN Cardinality(On(l, {"goods"})) * (1 + m) + m

(* No more comes back than was sold, and whatever returns and corrections    *)
(* are made, in whatever order and however they overlap, no more is credited *)
(* than was charged, and nothing is left charged once all has come back, but *)
(* for half a paisa at each rounding; a cancelled bill has no notes          *)
(* (service.ts:261, 672, 684; demo-application.ts:1195).                     *)
CreditsFitTheBill ==
    /\ bill = "CANCELLED" => \A k \in Keys : note[k] = None
    /\ \A l \in Lines :
        LET back == MapThenSumSet(LAMBDA k : note[k].lines[l].qty, On(l, {"goods"}))
        IN /\ back <= Sold[l]
           /\ \A f \in {"tax", "total"} :
                /\ 2 * Left(l, f) >= -Roundings(l)
                /\ back = Sold[l] => 2 * Left(l, f) <= Roundings(l)
=============================================================================
