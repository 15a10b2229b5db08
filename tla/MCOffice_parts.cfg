\* Two browsers, one booking and one shift on the settings; two reviewers of
\* one stay, or one and two stays; two API processes and two mails; two
\* deployments of three files; the loop and an operator with external copies.
CONSTANTS
  None = None
  Workers = {a, b}
  Currencies = {bob, usd}  FirstCurrency = bob
  Texts = {t1, t2}  FirstText = t1
  Reservations = {z}  Employees = {e1}  MaxVersion = 3
  Reviewers = {a, b}  Stays = {x, y}  Asks = {p, q}  LastNight = 2  MaxPrice = 1
  Mails = {1, 2}  Broken = {}  MaxAttempts = 2  MaxFaults = 1  MaxRetries = 1
  Runners = {a, b}  Files = {1, 2, 3}  Contents = {x, y}
  Shells = {a, b}  MaxRuns = 3  Offsite = TRUE
  Keys = {x, y}  Values = {1, 2}  MaxRows = 2  MaxCalls = 3
  Junk = z  Numbers = {0, 1, 4, 101}
SPECIFICATION Spec
SYMMETRY Symmetry
CONSTRAINT Narrow
INVARIANT CurrencyKept
INVARIANT ApprovedStaysHold
INVARIANT MailExplained
INVARIANT DeployedInOrder
INVARIANT LatestIsThere
PROPERTY NothingUndone
CHECK_DEADLOCK FALSE
