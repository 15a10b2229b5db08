CONSTANTS
  None = None
  Workers = {w1, w2}
  Users = {u1, u2}
  Reservations = {a}
  Payments = {p1, p2}
  Shifts = {s1, s2}
  MaxTotal = 2
SPECIFICATION Spec
SYMMETRY Symmetry
CONSTRAINT OneShiftOrOnes
INVARIANT BalanceInv
INVARIANT NeverOvercharged
INVARIANT BooksMatch
INVARIANT ClosedShiftComplete
