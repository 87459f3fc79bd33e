SPECIFICATION MCSpec
CONSTANTS
  Callers = {c1, c2}
  Month = apr
  Cases = {"alone", "together", "both", "customer", "three", "notes", "feed", "matching"}
  OneSale = {s1}
  OnePurchase = {b1}
  Later = {p3}
  None = None
  Price = 2
  Statement = {"first", "second"}
  Receipts = {"both"}
  Amount <- TheAmounts
  Reference <- TheReferences
  MaxLines = 2
  MaxLost = 1
  MaxMatches = 3
  Months = {apr, may}
  BeforeStart = {}
  Keys = {k1, k2}
  Entries <- AllEntries
  Postable <- TakePostings
  MaxVouchers = 3
  MaxCrashes = 1
CHECK_DEADLOCK FALSE
SYMMETRY Symmetry
INVARIANTS TypesOK BooksHold OnceEach BooksAgree SpentOnce CreditsFitTheBill
PROPERTIES HistoryStands
