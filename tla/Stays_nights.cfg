CONSTANTS
  NoRoom = NoRoom  NoRef = NoRef
  Workers = {w1, w2}
  Rooms = {r1}
  Reservations = {a, b}
  StaffTasks = {t1}
  MaxDay = 2
SPECIFICATION Spec
SYMMETRY Symmetry
CONSTRAINT ShortOrUndisturbed
INVARIANT IInv
INVARIANT ReadyRoomHasNoOpenTask
INVARIANT NoSharedNight
INVARIANT ExclusionNeverFires
PROPERTY NoArrivalBeforeCleaning
PROPERTY ImplementsLedger
