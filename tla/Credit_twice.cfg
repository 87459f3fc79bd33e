SPECIFICATION Spec
CONSTANTS
  bill = bill
  note = note
  Bills = {bill}
  Notes = {note}
  BillOf <- NoteOf
  Tax <- TaxOf
  Months = {1, 2}
  LastReturn = 2
  Orderly = FALSE
  MaxInputs = 3
  None = None
INVARIANTS TakenOnce
