\* The gateway refuses one refund for ever; no webhook arrives.
CONSTANTS
  w1 = w1
  w2 = w2
  v1 = v1
  Job = Job
  None = None
  Workers = {w1}
  Reservations = {v1}
  Checkouts = {1, 2}
  Refused = {1}
  Prices = {1}
  FirstPrice = 1
  DepositPercent = 30
SPECIFICATION UndeliveredSpec
PROPERTIES DueSessionsReconciled
