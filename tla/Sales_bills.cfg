SPECIFICATION MCSpec
CONSTANTS
  Callers = {c1, c2}
  Bills = {b1, b2}
  Contents <- All
  Stock = 2
  Counts = {1}
  OneAction = FALSE
  MaxVersion = 3
  MaxRequested = 5
  MaxCrashes = 1
  Cases = {"tills", "count", "requests", "line", "challans", "road", "credit"}
  None = None
  Attempts = {k1}
  Events = {e1, e2}
  MaxFailures = 1
  MaxSteps = 5
  Validity = 2
  CancelWindow = 1
  RejectWindow = 2
  Around = 1
  MaxNow = 3
  MaxLosses = 1
  MaxKeys = 3
  Purchases = {"bill"}
  SentBack = {"note"}
  BillOf <- TheBill
  Tax <- TheTax
  Months = {1, 2}
  LastReturn = 2
  Orderly = TRUE
  MaxInputs = 3
CHECK_DEADLOCK FALSE
SYMMETRY Symmetry
INVARIANTS TypesOK IssuedProperly GoodsAccounted RequestsMoveGoods GovernmentIsFollowed
PROPERTIES WhatIsSettledStays
