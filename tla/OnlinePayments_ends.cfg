\* One request and the job on one checkout, under fairness.
CONSTANTS
  w1 = w1
  w2 = w2
  v1 = v1
  Job = Job
  None = None
  Workers = {w1}
  Reservations = {v1}
  Checkouts = {1}
  Refused = {}
  Prices = {1}
  FirstPrice = 1
  DepositPercent = 30
SPECIFICATION FairSpec
PROPERTIES RefundsEnd ImplementsCardLedger
