CONSTANTS
  NoRoom = NoRoom  NoRef = NoRef
  Workers = {w1, w2}
  Rooms = {r1}
  Reservations = {a}
  StaffTasks = {}
  MaxDay = 1
SPECIFICATION Spec
PROPERTIES EditKeepsGuestIn
