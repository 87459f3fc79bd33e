------------------------------ MODULE MCCredit ------------------------------
(* Credit on one bill, and goods of it sent back, over two months.           *)
EXTENDS Credit

CONSTANTS bill, note

NoteOf == [n \in Notes |-> bill]
TaxOf == [d \in Documents |-> IF d = bill THEN 2 ELSE 1]
=============================================================================
