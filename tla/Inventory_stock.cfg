SPECIFICATION MCSpec
CONSTANTS
  Cases = {"goods", "one bill", "two bills", "assistant", "bought", "compared", "moving"}
  None = None
  Godowns = {"shop", "store"}
  Documents = {"d1", "d2"}
  Lines <- Bills
  Incoming <- Receipts
  Outgoing <- Losses
  Transfers <- Carried
  LastDate = 2
  MaxCrashes = 1
  Purchases = {"p1", "p2"}
  Number <- OneNumber
  Billed <- Asks
  Dear <- Overcharges
  Ordered = 2
  Arrivals <- Some
  MaxSold = 1
  MaxApprovals = 2
  Chased <- Debtors
  MaxDay = 2
  MaxRollbacks = 1
  Plans = {"p1", "p2"}
  RunKeys = {"k1", "k2"}
  MaxOwed = 2
  MaxChanges = 1
  Files <- FileNames
  Kind <- Kinds
  RowsOf <- Sheets
  Already = {"mira"}
  Callers = {1, 2}
  MaxBatches = 2
  MaxVersions = 2
  MaxFails = 2
CHECK_DEADLOCK FALSE
INVARIANTS TypesOK StockAddsUp PurchasesAddUp CustomersAreSpared
PROPERTIES KeepsPromises
