------------------------------ MODULE BankMatch ------------------------------
(* Which lines of the bank are which receipts of the books                   *)
(* (packages/bank-reconciliation): candidates by amount and reference, those *)
(* a run accepts by itself, those a person confirms, and undoing.            *)
(*                                                                           *)
(* A command is one unit of work under the company's lock; but the lines and *)
(* receipts that a run compares are read before it, so others come between.  *)
(* Dates agree, so what speaks for a candidate are amounts and references.   *)
(*                                                                           *)
(* Left out: the list of exceptions, which a run makes anew and does not     *)
(* keep; lines that look like a reversal, which no run accepts; and the      *)
(* table's own refusal of what is matched already (migrations.ts:55): what   *)
(* holds here holds without it.                                              *)
EXTENDS Integers, Sequences, FiniteSets, SequencesExt

CONSTANTS
    Callers, None,
    Lines, Receipts,   \* lines of the bank; receipts recorded by hand
    Amount, Reference, \* of each line and receipt
    MaxMatches         \* bound

VARIABLES
    arrived, \* the lines brought in
    book,    \* receipts: recorded or undone; a line may become a receipt of its own
    offered, \* bank_reconciliation_candidates
    matches, \* bank_reconciliation_matches
    reading  \* what each caller's run has read

vars == <<arrived, book, offered, matches, reading>>

BookEntries == Receipts \cup Lines \* a line stands for the receipt recorded from it
Groups ==
    {g \in [banks : (SUBSET Lines) \ {{}}, pays : (SUBSET BookEntries) \ {{}}] :
        /\ Cardinality(g.banks) = 1 \/ Cardinality(g.pays) = 1
        /\ Cardinality(g.banks) + Cardinality(g.pays) <= 4}

TypeOK ==
    /\ arrived \subseteq Lines
    /\ book \in [BookEntries -> {"NONE", "RECORDED", "UNDONE"}]
    /\ offered \subseteq Groups
    /\ \A m \in 1..Len(matches) : matches[m].of \in offered
    /\ \A c \in Callers : reading[c] # None => reading[c].banks \subseteq Lines /\ reading[c].pays \subseteq BookEntries

Init ==
    /\ arrived = {} /\ offered = {} /\ matches = <<>>
    /\ book = [e \in BookEntries |-> "NONE"]
    /\ reading = [c \in Callers |-> None]

-----------------------------------------------------------------------------
(* Candidates                                                                *)

Total(set) == FoldSet(LAMBDA e, sum : sum + Amount[e], 0, set)

\* How sure a candidate is; 0 when its amounts differ by more than a rupee.
Confidence ==
    [g \in Groups |->
        LET difference == Total(g.banks) - Total(g.pays) IN
        IF difference > 100 \/ difference < -100 THEN 0
        ELSE (IF difference = 0 THEN 75 ELSE 60)
             + (IF \E b \in g.banks, p \in g.pays : Reference[b] # None /\ Reference[b] = Reference[p] THEN 25 ELSE 0)]
Likely == {g \in Groups : Confidence[g] > 0}
Threshold == 75
Margin == 10

Overlap(g, h) == g.banks \cap h.banks # {} \/ g.pays \cap h.pays # {}
Live(ms) == {m \in 1..Len(ms) : ms[m].status # "UNMATCHED"}

\* Bug: only the lines of the bank are looked at.
TakenAtBank(g) == \E m \in Live(matches) : matches[m].of.banks \cap g.banks # {}
\* A line or a receipt of it is matched already.
Taken(g) == \E m \in Live(matches) : Overlap(matches[m].of, g)

\* Bug: only a surer one competes.
CompetesSurer(g, h) == g # h /\ Overlap(g, h) /\ Confidence[h] > Confidence[g]
\* Another that is about as sure, for some of the same lines or receipts.
Competes(g, h) == g # h /\ Overlap(g, h) /\ Confidence[h] >= Confidence[g] - Margin

\* Bug: what a person undid is forgotten with the match.
UndoneForgotten(g) == FALSE
\* A person matched it and then undid it.
Undone(g) == \E m \in 1..Len(matches) : matches[m].of = g /\ matches[m].status = "UNMATCHED"

Accepted(of, status) == [of |-> of, status |-> status]

-----------------------------------------------------------------------------
(* Commands                                                                  *)

Read(c) ==
    /\ reading[c] = None /\ arrived # {}
    /\ reading' = [reading EXCEPT ![c] = [banks |-> arrived, pays |-> {e \in BookEntries : book[e] = "RECORDED"}]]
    /\ UNCHANGED <<arrived, book, offered, matches>>

\* A run accepts what is sure, alone in being so and not undone by a person.
Candidates(c) == {g \in Likely : g.banks \subseteq reading[c].banks /\ g.pays \subseteq reading[c].pays /\ ~Taken(g)}
Sure(cs) == {g \in cs : Confidence[g] >= Threshold /\ ~Undone(g) /\ ~\E h \in cs : Competes(g, h)}
Reconcile(c) ==
    /\ reading[c] # None
    /\ LET cs == Candidates(c)
           sure == SetToSeq(Sure(cs)) IN
       /\ Len(matches) + Len(sure) <= MaxMatches
       /\ offered' = offered \cup cs
       /\ matches' = matches \o [i \in DOMAIN sure |-> Accepted(sure[i], "AUTO_MATCHED")]
    /\ reading' = [reading EXCEPT ![c] = None]
    /\ UNCHANGED <<arrived, book>>

Confirm(g) ==
    /\ g \in offered /\ ~Taken(g) /\ Len(matches) < MaxMatches
    /\ matches' = Append(matches, Accepted(g, "CONFIRMED"))
    /\ UNCHANGED <<arrived, book, offered, reading>>

Unmatch(m) ==
    /\ m \in Live(matches)
    /\ matches' = [matches EXCEPT ![m].status = "UNMATCHED"]
    /\ UNCHANGED <<arrived, book, offered, reading>>

\* A line that is in no book becomes a receipt; pressed again it is the same one.
RecordSuggestion(l) ==
    /\ l \in arrived /\ book[l] = "NONE"
    /\ book' = [book EXCEPT ![l] = "RECORDED"]
    /\ UNCHANGED <<arrived, offered, matches, reading>>

Arrive(l) ==
    /\ l \notin arrived
    /\ arrived' = arrived \cup {l}
    /\ UNCHANGED <<book, offered, matches, reading>>
Record(r) ==
    /\ r \in Receipts /\ book[r] = "NONE"
    /\ book' = [book EXCEPT ![r] = "RECORDED"]
    /\ UNCHANGED <<arrived, offered, matches, reading>>
Undo(e) ==
    /\ book[e] = "RECORDED"
    /\ book' = [book EXCEPT ![e] = "UNDONE"]
    /\ UNCHANGED <<arrived, offered, matches, reading>>

Next ==
    \/ \E c \in Callers : Read(c) \/ Reconcile(c)
    \/ \E g \in offered : Confirm(g)
    \/ \E m \in 1..MaxMatches : Unmatch(m)
    \/ \E l \in Lines : Arrive(l) \/ RecordSuggestion(l)
    \/ \E e \in BookEntries : Record(e) \/ Undo(e)

Spec == Init /\ [][Next]_vars

-----------------------------------------------------------------------------
(* However runs, confirmations and undoing come between each other, a line   *)
(* of the bank and a receipt are in one match that stands at most            *)
(* (bank-reconciliation-v1.md:17).                                           *)
MatchedOnce == \A m, n \in Live(matches) : m # n => ~Overlap(matches[m].of, matches[n].of)

(* What was matched stays on record, an undone match stays undone, and what  *)
(* a person undid no run matches again by itself                             *)
(* (bank-reconciliation/service.ts:28-29).                                   *)
UndoneStays ==
    [][\A m \in 1..Len(matches') :
          /\ m <= Len(matches) => matches'[m].of = matches[m].of /\ matches'[m].status \in {matches[m].status, "UNMATCHED"}
          /\ m > Len(matches) /\ matches'[m].status = "AUTO_MATCHED" =>
                ~\E n \in 1..Len(matches) : matches[n].of = matches'[m].of]_vars
=============================================================================
