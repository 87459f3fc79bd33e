-------------------------------- MODULE Tax --------------------------------
(* The arithmetic of a bill (packages/gst-calc): each line's taxable value   *)
(* and taxes, freight shared between the rates it travelled with, the totals *)
(* and the rounding to a rupee; and the two tables a bill is reported by:    *)
(* its parts by goods code (the printed summary, GSTR-1) and its items (the  *)
(* e-way bill, the e-invoice), in which freight has no line of its own.      *)
(* Rows are added one at a time and the whole worked out, as the draft does. *)
(*                                                                           *)
(* Amounts are paise, rates hundredths of a per cent, and quantities halves  *)
(* of a unit (the code's are millionths).  What the rules engine answers,    *)
(* the split and whether tax is charged, is part of the document.            *)
(*                                                                           *)
(* Left out: the digits a code needs, the search of the rate registers by    *)
(* date and prefix, wording, and amounts below zero.                         *)
EXTENDS Integers, Sequences, FiniteSets, SequencesExt

CONSTANTS
    Items,     \* the masters: a function to [treatment, code, register, declared, reverse, cess]
    Offers,    \* rows of a bill: [item, price, qty, basis, off]
    Documents, \* [scheme, split, zeroRated]
    Charges,   \* pairs of freight and other charges
    MaxLines,  \* bound on the rows of a bill
    NoRate, NoCode

VARIABLES rows, sheet
vars == <<rows, sheet>>

Heads == {"cgst", "sgst", "utgst", "igst", "cess"}
Blank == [status |-> "BLANK"]

TypeOK ==
    /\ rows \in UNION {[1..n -> Offers] : n \in 0..MaxLines}
    /\ sheet.status \in {"BLANK", "COMPUTED", "CANNOT_COMPUTE"}
    /\ sheet.status = "COMPUTED" => \A i \in DOMAIN sheet.lines : sheet.lines[i].taxable \in Nat /\ sheet.lines[i].tax \in [Heads -> Nat]

Init == rows = <<>> /\ sheet = Blank

-----------------------------------------------------------------------------
(* Amounts (kernel)                                                          *)

MulDiv(amount, n, d) == (amount * n + d \div 2) \div d

Total(s) == LET sum[i \in 0..Len(s)] == IF i = 0 THEN 0 ELSE sum[i - 1] + s[i] IN sum[Len(s)]
AllOf(tax) == tax["cgst"] + tax["sgst"] + tax["utgst"] + tax["igst"] + tax["cess"]
Distinct(s) == LET d[i \in 0..Len(s)] == IF i = 0 THEN <<>> ELSE IF s[i] \in ToSet(d[i - 1]) THEN d[i - 1] ELSE Append(d[i - 1], s[i]) IN d[Len(s)]

\* By weight with every share rounded, and nothing left over.
AllocateRounded(amount, w) ==
    LET all == Total(w) IN [i \in DOMAIN w |-> IF all = 0 THEN MulDiv(amount, 1, Len(w)) ELSE MulDiv(amount, w[i], all)]

\* The leftover paise go to the largest weights first, or to the first if all are 0.
AllocateByWeight(amount, w) ==
    LET all == Total(w)
        low == [i \in DOMAIN w |-> IF all = 0 THEN amount \div Len(w) ELSE (amount * w[i]) \div all]
        before(i) == Cardinality({j \in DOMAIN w : w[j] > w[i] \/ (w[j] = w[i] /\ j < i)})
    IN [i \in DOMAIN w |-> low[i] + IF before(i) < amount - Total(low) THEN 1 ELSE 0]

-----------------------------------------------------------------------------
(* Lines                                                                     *)

NoTax == [h \in Heads |-> 0]
HeadsOf(split) == CASE split = "IGST" -> {"igst"} [] split = "CGST_UTGST" -> {"cgst", "utgst"} [] OTHER -> {"cgst", "sgst"}
ApplySplit(base, rate, split) ==
    [h \in Heads |-> IF h \in HeadsOf(split) THEN MulDiv(base, IF split = "IGST" THEN rate ELSE rate \div 2, 10000) ELSE 0]

\* extend, applyDiscount
Net(row) == LET gross == MulDiv(row.price, row.qty, 2) IN gross - MulDiv(gross, row.off, 10000)

\* A checked notification first, what the business declared second.
ResolveRate(item) == IF item.register # NoRate THEN item.register ELSE item.declared

NoCess == [percent |-> 0, perUnit |-> 0, takeHigher |-> FALSE]
Cess(rule, value, qty) ==
    LET byPercent == MulDiv(value, rule.percent, 10000)
        perUnit == MulDiv(rule.perUnit, qty, 2)
    IN IF rule.takeHigher THEN IF byPercent >= perUnit THEN byPercent ELSE perUnit ELSE byPercent + perUnit

Charged(item, doc) == item.treatment = "TAXABLE" /\ doc.scheme = "REGULAR"

\* A quoted price that includes the tax, taken apart by the rate alone.
LineTaxFromRate(row, doc) ==
    LET item == Items[row.item]
        rate == ResolveRate(item)
        inside == row.basis = "INCLUSIVE" /\ doc.zeroRated # "WITHOUT_TAX"
        value == IF inside THEN MulDiv(Net(row), 10000, 10000 + rate) ELSE Net(row)
    IN [value |-> value, tax |-> [ApplySplit(value, rate, doc.split) EXCEPT !["cess"] = Cess(item.cess, value, row.qty)]]

\* #computeLine: when the price includes the tax, the taxable value is what the tax leaves of it.
LineTax(row, doc) ==
    LET item == Items[row.item]
        rate == ResolveRate(item)
        inside == row.basis = "INCLUSIVE" /\ doc.zeroRated # "WITHOUT_TAX"
        tax == ApplySplit(IF inside THEN MulDiv(Net(row), 10000, 10000 + rate) ELSE Net(row), rate, doc.split)
        value == IF inside THEN Net(row) - AllOf(tax) ELSE Net(row)
    IN [value |-> value, tax |-> [tax EXCEPT !["cess"] = Cess(item.cess, value, row.qty)]]

Line(kind, code, rate, reverse, value, tax) ==
    [kind |-> kind, code |-> code, rate |-> rate, reverse |-> reverse, taxable |-> value, tax |-> tax,
     total |-> value + IF reverse THEN 0 ELSE AllOf(tax)]

ComputeLine(row, doc) ==
    LET item == Items[row.item] IN
    IF ~Charged(item, doc) THEN Line("GOODS", item.code, NoRate, item.reverse, Net(row), NoTax)
    ELSE Line("GOODS", item.code, ResolveRate(item), item.reverse, LineTax(row, doc).value, LineTax(row, doc).tax)

-----------------------------------------------------------------------------
(* Freight and other charges                                                 *)

IsGoods(l) == l.kind = "GOODS"
Bucket(l) == <<l.rate, l.reverse>>
Weight(lines) == Total([i \in DOMAIN lines |-> lines[i].taxable])

\* One line for each charge and rate.  Never a cess.
ChargeLines(goods, charges, split) ==
    LET buckets == IF goods = <<>> THEN <<<<NoRate, FALSE>>>> ELSE Distinct([i \in DOMAIN goods |-> Bucket(goods[i])])
        shares(c) == AllocateByWeight(c, [i \in DOMAIN buckets |-> Weight(SelectSeq(goods, LAMBDA l : Bucket(l) = buckets[i]))])
        line(b, a) == Line("CHARGE", NoCode, b[1], b[2], a, IF b[1] = NoRate THEN NoTax ELSE ApplySplit(a, b[1], split))
    IN FlattenSeq([k \in DOMAIN charges |->
          SelectSeq([i \in DOMAIN buckets |-> line(buckets[i], shares(charges[k])[i])], LAMBDA l : l.taxable # 0)])

WithoutTax(l) == [l EXCEPT !.tax = NoTax, !.total = l.taxable]

\* Of the tax of every line.
TotalsOfAll(lines) ==
    LET value == Weight(lines)
        tax == [h \in Heads |-> Total([i \in DOMAIN lines |-> lines[i].tax[h]])]
        before == value + AllOf(tax)
    IN [taxable |-> value, tax |-> tax, reverse |-> 0, before |-> before, invoice |-> 100 * MulDiv(before, 1, 100)]

\* #totals: tax the buyer pays to the government itself is no part of the bill.
Totals(lines) ==
    LET value == Weight(lines)
        tax == [h \in Heads |-> Total([i \in DOMAIN lines |-> IF lines[i].reverse THEN 0 ELSE lines[i].tax[h]])]
        before == value + AllOf(tax)
    IN [taxable |-> value, tax |-> tax, reverse |-> Total([i \in DOMAIN lines |-> IF lines[i].reverse THEN AllOf(lines[i].tax) ELSE 0]),
        before |-> before, invoice |-> 100 * MulDiv(before, 1, 100)]

-----------------------------------------------------------------------------
(* The tables a bill is reported by: value and taxes under a code            *)

Entry(code, rate, reverse, value, tax) == [code |-> code, rate |-> rate, reverse |-> reverse, taxable |-> value, tax |-> tax]
EntryOf(l) == Entry(l.code, l.rate, l.reverse, l.taxable, l.tax)

\* The i-th share of a line, each of its taxes shared by itself.
Share(l, code, weights, i) ==
    Entry(code, l.rate, l.reverse, AllocateByWeight(l.taxable, weights)[i], [h \in Heads |-> AllocateByWeight(l.tax[h], weights)[i]])

\* A charge is shared over all goods of the bill.
SharesOverAll(lines, charge) ==
    LET goods == SelectSeq(lines, IsGoods)
        codes == Distinct([i \in DOMAIN goods |-> goods[i].code])
        weights == [i \in DOMAIN codes |-> Weight(SelectSeq(goods, LAMBDA l : l.code = codes[i]))]
    IN [i \in DOMAIN codes |-> Share(charge, codes[i], weights, i)]

\* apportionChargesToHsn: over the codes of the goods with its rate.
Shares(lines, charge) ==
    LET goods == SelectSeq(lines, LAMBDA l : IsGoods(l) /\ Bucket(l) = Bucket(charge))
        codes == Distinct([i \in DOMAIN goods |-> goods[i].code])
        weights == [i \in DOMAIN codes |-> Weight(SelectSeq(goods, LAMBDA l : l.code = codes[i]))]
    IN [i \in DOMAIN codes |-> Share(charge, codes[i], weights, i)]

Of(lines) == SelectSeq(lines, IsGoods)
ChargesOf(lines) == SelectSeq(lines, LAMBDA l : ~IsGoods(l))
Loose(lines) ==
    LET alone == SelectSeq(ChargesOf(lines), LAMBDA c : Shares(lines, c) = <<>>) IN [i \in DOMAIN alone |-> EntryOf(alone[i])]
AllShares(lines) == FlattenSeq([i \in DOMAIN ChargesOf(lines) |-> Shares(lines, ChargesOf(lines)[i])])

Parts(lines) == [i \in DOMAIN Of(lines) |-> EntryOf(Of(lines)[i])] \o Loose(lines) \o AllShares(lines)

\* An entry with its shares of the charges.
With(entry, shares) ==
    LET sum[i \in 0..Len(shares)] ==
          IF i = 0 THEN entry
          ELSE LET previous == sum[i - 1] IN [previous EXCEPT !.taxable = @ + shares[i].taxable, !.tax = [h \in Heads |-> @[h] + shares[i].tax[h]]]
    IN sum[Len(shares)]

\* Goods line g's share of an entry, among the lines it is shared over.
Taken(goods, over, g, entry) ==
    LET targets == SetToSortSeq(over, LAMBDA i, j : i < j)
    IN Share(entry, goods[g].code, [k \in DOMAIN targets |-> goods[targets[k]].taxable], CHOOSE k \in DOMAIN targets : targets[k] = g)

\* Every charge shared over the goods with its rate, without regard to codes.
FoldByLine(lines) ==
    LET goods == Of(lines)
        takes(g) == LET mine == SelectSeq(ChargesOf(lines), LAMBDA c : Bucket(c) = Bucket(goods[g]))
                    IN [i \in DOMAIN mine |-> Taken(goods, {j \in DOMAIN goods : Bucket(goods[j]) = Bucket(mine[i])}, g, mine[i])]
    IN [g \in DOMAIN goods |-> With(EntryOf(goods[g]), takes(g))] \o Loose(lines)

\* foldChargesIntoGoods: each code's share over the lines with that code and rate.
Fold(lines) ==
    LET goods == Of(lines)
        all == AllShares(lines)
        rides(l, s) == l.code = s.code /\ Bucket(l) = Bucket(s)
        takes(g) == LET mine == SelectSeq(all, LAMBDA s : rides(goods[g], s))
                    IN [i \in DOMAIN mine |-> Taken(goods, {j \in DOMAIN goods : rides(goods[j], mine[i])}, g, mine[i])]
    IN [g \in DOMAIN goods |-> With(EntryOf(goods[g]), takes(g))] \o Loose(lines)

-----------------------------------------------------------------------------
(* The document                                                              *)

\* Why it cannot be worked out.  Of the rows all is said at once: first what
\* has no classification, then what has no code, no rate, or a cess in its price.
Reasons(doc) ==
    LET item(i) == Items[rows[i].item]
        vague == {i \in DOMAIN rows : item(i).treatment = "UNKNOWN"}
        taxed == {i \in DOMAIN rows : Charged(item(i), doc)}
        because(code, those) == {<<code, i>> : i \in those}
    IN IF doc.scheme = "COMPOSITION" /\ doc.split = "IGST" THEN {<<"COMPOSITION_INTERSTATE_SUPPLY", 0>>}
       ELSE IF vague # {} THEN because("ITEM_NOT_CLASSIFIED", vague)
       ELSE because("HSN_MISSING", {i \in taxed : item(i).code = NoCode})
            \cup because("RATE_NOT_FOUND", {i \in taxed : item(i).code # NoCode /\ ResolveRate(item(i)) = NoRate})
            \cup because("INCLUSIVE_WITH_CESS_UNSUPPORTED",
                         {i \in taxed : item(i).code # NoCode /\ ResolveRate(item(i)) # NoRate
                                        /\ rows[i].basis = "INCLUSIVE" /\ item(i).cess # NoCess})

ComputedLines(doc, charges) ==
    LET goods == [i \in DOMAIN rows |-> ComputeLine(rows[i], doc)]
        lines == goods \o ChargeLines(goods, charges, doc.split)
    IN IF doc.zeroRated = "WITHOUT_TAX" THEN [i \in DOMAIN lines |-> WithoutTax(lines[i])] ELSE lines

AddLine(row) == sheet.status = "BLANK" /\ Len(rows) < MaxLines /\ rows' = Append(rows, row) /\ UNCHANGED sheet

Compute(doc, charges) ==
    /\ sheet.status = "BLANK"
    /\ sheet' = IF Reasons(doc) # {} THEN [status |-> "CANNOT_COMPUTE", reasons |-> Reasons(doc)]
                ELSE LET lines == ComputedLines(doc, charges)
                     IN [status |-> "COMPUTED", lines |-> lines, totals |-> Totals(lines), asked |-> Total(charges),
                         parts |-> Parts(lines), items |-> Fold(lines)]
    /\ UNCHANGED rows

NewBill == sheet.status # "BLANK" /\ rows' = <<>> /\ sheet' = Blank

Next == NewBill \/ (\E row \in Offers : AddLine(row)) \/ (\E doc \in Documents, charges \in Charges : Compute(doc, charges))

Spec == Init /\ [][Next]_vars

-----------------------------------------------------------------------------
Sum(entries, h) == Total([i \in DOMAIN entries |-> IF h = "taxable" THEN entries[i].taxable ELSE entries[i].tax[h]])
Key(entry) == <<entry.code, entry.rate, entry.reverse>>

(* The bill adds up in every direction: its lines to the total, which is the *)
(* invoice value but for half a rupee; a line whose price includes its tax   *)
(* to the price quoted (compute.ts:632); its charges to what was charged.    *)
(* Freight is neither lost nor left on a line of its own in the tables by    *)
(* code, whose figures, tax by tax, are the bill's (charge-shares.ts:79);    *)
(* and the items of the e-way bill and e-invoice show the same, code by code *)
(* and rate by rate (charge-shares.ts:174).                                  *)
BillsAddUp ==
    sheet.status = "COMPUTED" =>
      LET lines == sheet.lines
          t == sheet.totals
          off == t.invoice - t.before
      IN /\ Total([i \in DOMAIN lines |-> lines[i].total]) = t.before /\ t.invoice % 100 = 0 /\ off \in -50..50
         /\ \A i \in DOMAIN rows : rows[i].basis = "INCLUSIVE" /\ ~lines[i].reverse => lines[i].total = Net(rows[i])
         /\ sheet.asked = Weight(ChargesOf(lines))
         /\ \A h \in Heads \cup {"taxable"} :
              /\ Sum(sheet.parts, h) = Sum(lines, h)
              /\ \A k \in {Key(entry) : entry \in ToSet(sheet.parts \o sheet.items)} :
                   LET at(entry) == Key(entry) = k IN Sum(SelectSeq(sheet.parts, at), h) = Sum(SelectSeq(sheet.items, at), h)
              /\ \A b \in {Bucket(l) : l \in ToSet(lines)} :
                   LET at(entry) == Bucket(entry) = b IN Sum(SelectSeq(sheet.items, at), h) = Sum(SelectSeq(lines, at), h)
         /\ rows # <<>> => Len(sheet.items) = Len(rows)
=============================================================================
