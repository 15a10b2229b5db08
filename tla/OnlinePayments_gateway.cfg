\* Two requests and the job on one checkout, or two requests on two: repeated
\* and crossing events.
CONSTANTS
  w1 = w1
  w2 = w2
  v1 = v1
  Job = Job
  None = None
  Workers = {w1, w2}
  Reservations = {v1}
  Checkouts = {1, 2}
  Refused = {}
  Prices = {1, 2}
  FirstPrice = 2
  DepositPercent = 30
SPECIFICATION Spec
SYMMETRY WorkerSymmetry
CONSTRAINT OneCheckoutOrGuests
INVARIANT IInv
INVARIANT NeverOvercharged
INVARIANT MoneyAccounted
INVARIANT RecordedMeansSettled
