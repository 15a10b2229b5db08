\* A refund begins between the checks of review and its commit.
CONSTANTS
  None = None
  Reviewers = {a, b}
  Stays = {v1}
  Asks = {q1, q2}
  LastNight = 2
  MaxPrice = 1
SPECIFICATION Spec
PROPERTIES NoApprovalDuringCharge
