------------------------------- MODULE Stays -------------------------------
(***************************************************************************)
(* Reservations, rooms, check-in logs and housekeeping tasks, as the       *)
(* concurrent HTTP requests of the backend change them.                    *)
(*                                                                         *)
(* Every request is one PostgreSQL transaction (READ COMMITTED) of a       *)
(* worker.  A transaction is split at its statements that can wait or that *)
(* read what another transaction may write: the unlocked first read, the   *)
(* row locks, the availability check, and the write that is committed.     *)
(* What a transaction read is kept in tx[w] and used later as the code     *)
(* uses it, so a lock that is missing shows up as a stale value.           *)
(*                                                                         *)
(* Left out: amounts (module Billing), clients and room types (an inactive *)
(* one only refuses the request, which Rollback always allows), texts.     *)
(***************************************************************************)
EXTENDS Integers, FiniteSets, TLC

CONSTANTS
  Workers,       \* requests that can be in progress at the same time
  Rooms,         \* rows of table room
  Reservations,  \* ids the reservation sequence can hand out
  StaffTasks,    \* ids of tasks created by hand
  MaxDay,        \* bound on CURRENT_DATE and on the dates of a stay
  NoRoom, NoRef  \* absent values

ASSUME DaysAssumption == MaxDay \in Nat \ {0}
ASSUME NamesAssumption == /\ NoRoom \notin Rooms
                          /\ NoRef \notin Reservations \union StaffTasks
                          /\ Reservations \intersect StaffTasks = {}

VARIABLES
  day,       \* CURRENT_DATE in the hotel's time zone
  stay,      \* table reservation
  status,    \* room.status
  log,       \* check_in_log of a reservation
  task,      \* table housekeeping_task; a check-out task has its reservation's id
  tx,        \* the request each worker is serving
  edited     \* history: rooms written by the room routes (edit or status)

vars == <<day, stay, status, log, task, tx, edited>>

Days == 0 .. MaxDay
TaskIds == Reservations \union StaffTasks

RoomStatus == {"available", "reserved", "occupied", "maintenance"}
StayStatus == {"none", "confirmed", "checked_in", "checked_out", "cancelled"}

BookOps == {"book", "portal"}                            \* staff, guest portal
StayOps == {"update", "cancel", "checkIn", "checkOut"}   \* use reservationLock
TaskOps == {"newTask", "doneTask"}
Ops == BookOps \union StayOps \union TaskOps \union {"edit"}

NoStay == [status |-> "none", room |-> NoRoom, in |-> 0, out |-> 0]
NoTask == [status |-> "none", room |-> NoRoom]

Idle == [op |-> "idle", step |-> "none", room |-> NoRoom, ref |-> NoRef,
         today |-> 0, saw |-> "none", was |-> "none",
         in |-> 0, out |-> 0, to |-> "none"]

(* BEGIN: CURRENT_DATE is the date at which the transaction started. *)
Request(op, r, ref, to) ==
  [op |-> op, step |-> "begun", room |-> r, ref |-> ref,
   today |-> day, saw |-> "none", was |-> "none",
   in |-> 0, out |-> 0, to |-> to]

StayRows == [status : StayStatus, room : Rooms \union {NoRoom}, in : Days, out : Days]
TaskRows == [status : {"none", "open", "completed"}, room : Rooms \union {NoRoom}]
Requests == [op : Ops \union {"idle"},
             step : {"none", "begun", "room", "stay", "checked"},
             room : Rooms \union {NoRoom},
             ref : TaskIds \union {NoRef},
             today : Days,
             saw : RoomStatus \union {"none"},
             was : StayStatus,
             in : Days, out : Days,
             to : RoomStatus \union StayStatus]

TypeOK ==
  /\ day \in Days
  /\ stay \in [Reservations -> StayRows]
  /\ status \in [Rooms -> RoomStatus]
  /\ log \in [Reservations -> {"none", "open", "closed"}]
  /\ task \in [TaskIds -> TaskRows]
  /\ tx \in [Workers -> Requests]
  /\ edited \subseteq Rooms

Init ==
  /\ day = 0
  /\ stay = [v \in Reservations |-> NoStay]
  /\ status = [r \in Rooms |-> "available"]
  /\ log = [v \in Reservations |-> "none"]
  /\ task = [k \in TaskIds |-> NoTask]
  /\ tx = [w \in Workers |-> Idle]
  /\ edited = {}

-----------------------------------------------------------------------------
(* Row locks, held until the transaction ends.                             *)

HoldsRoom(t) == t.step \in {"room", "stay", "checked"}
HoldsStay(t) == t.op \in StayOps /\ t.step \in {"stay", "checked"}

(* Mutant: SELECT without FOR UPDATE. *)
RoomNotLocked(w) == TRUE

RoomFree(w) == \A x \in Workers \ {w} : HoldsRoom(tx[x]) => tx[x].room # tx[w].room
StayFree(w) == \A x \in Workers \ {w} : HoldsStay(tx[x]) => tx[x].ref # tx[w].ref

-----------------------------------------------------------------------------
(* Queries.                                                                *)

Live(v) == stay[v].status \notin {"none", "cancelled"}

(* Mutant: only a stay that covers the arrival day is seen. *)
OverlapsArrivalOnly(v, i, o) == stay[v].in <= i /\ stay[v].out > i

(* check_in < $3 AND check_out > $2: the departure day is free again. *)
Overlaps(v, i, o) == stay[v].in < o /\ stay[v].out > i

HasOverlap(r, i, o, except) ==
  \E v \in Reservations \ {except} :
    stay[v].room = r /\ Live(v) /\ Overlaps(v, i, o)

OpenTasks(tasks, r) == {k \in TaskIds : tasks[k].room = r /\ tasks[k].status = "open"}

(* Mutant: a guest already in the house is forgotten. *)
AvailableIgnoringGuests(r, i, o) ==
  /\ status[r] \in {"available", "reserved", "occupied"}
  /\ ~\E v \in Reservations :
        stay[v].room = r /\ stay[v].status = "confirmed" /\ Overlaps(v, i, o)

(* Room.findAvailableForDates, restricted to the locked room. *)
AvailableForDates(r, i, o) ==
  /\ status[r] \in {"available", "reserved", "occupied"}
  /\ ~HasOverlap(r, i, o, NoRef)

(* availableWhere of the portal, for the locked room. *)
PortalAvailable(r, i, o) ==
  /\ status[r] # "maintenance"
  /\ OpenTasks(task, r) = {}
  /\ ~HasOverlap(r, i, o, NoRef)

(* reservation_no_room_overlap on the row about to be written; a write that
   breaks it fails, and only Rollback is left.                             *)
ExclusionHolds(v, r, i, o, s) == s = "cancelled" \/ ~HasOverlap(r, i, o, v)

(* Mutant: no trigger. *)
SetRoomStatusUnguarded(r, s, tasks) == status' = [status EXCEPT ![r] = s]

(* Mutant: the trigger does not look at "reserved". *)
SetRoomStatusReserved(r, s, tasks) ==
  /\ s = "available" => OpenTasks(tasks, r) = {}
  /\ status' = [status EXCEPT ![r] = s]

(* Trigger hotel_room_ready on every UPDATE of room.status. *)
SetRoomStatus(r, s, tasks) ==
  /\ s \in {"available", "reserved"} => OpenTasks(tasks, r) = {}
  /\ status' = [status EXCEPT ![r] = s]

Guests(rows, r) ==
  {v \in Reservations : rows[v].room = r /\ rows[v].status = "checked_in"}

Upcoming(rows, r, today) ==
  {v \in Reservations :
     rows[v].room = r /\ rows[v].status = "confirmed" /\ rows[v].out > today}

(* Room.syncReservationStatus over the rows this transaction has written.  *)
SyncedStatus(base, r, rows, today) ==
  CASE base = "maintenance" -> "maintenance"
    [] base # "maintenance" /\ Guests(rows, r) # {} -> "occupied"
    [] base # "maintenance" /\ Guests(rows, r) = {} /\ Upcoming(rows, r, today) # {}
         -> "reserved"
    [] OTHER -> "available"

(* The transition table of roomController.update and updateStatus.         *)
AllowedStatus ==
  [available   |-> {"available", "reserved", "maintenance"},
   reserved    |-> {"reserved", "occupied", "available", "maintenance"},
   occupied    |-> {"occupied", "maintenance"},
   maintenance |-> {"maintenance", "available"}]

-----------------------------------------------------------------------------
(* First statements of a request, before any lock.                         *)

BeginBook(w) == \E op \in BookOps, r \in Rooms :
  tx' = [tx EXCEPT ![w] = Request(op, r, NoRef, "none")]

(* reservationLock: the snapshot that says which room to lock.             *)
BeginStay(w) == \E op \in StayOps, v \in Reservations :
  /\ stay[v].status # "none"
  /\ tx' = [tx EXCEPT ![w] = Request(op, stay[v].room, v, "none")]

BeginTask(w) ==
  \/ \E r \in Rooms : tx' = [tx EXCEPT ![w] = Request("newTask", r, NoRef, "none")]
  \/ \E k \in TaskIds :
       /\ task[k].status # "none"
       /\ tx' = [tx EXCEPT ![w] = Request("doneTask", task[k].room, k, "none")]

(* roomController: the transition is validated on an unlocked read, which  *)
(* is also the status written back when the request names none.            *)
BeginEdit(w) == \E r \in Rooms : \E s \in AllowedStatus[status[r]] :
  tx' = [tx EXCEPT ![w] = Request("edit", r, NoRef, s)]

Begin(w) ==
  /\ tx[w] = Idle
  /\ BeginBook(w) \/ BeginStay(w) \/ BeginTask(w) \/ BeginEdit(w)
  /\ UNCHANGED <<day, stay, status, log, task, edited>>

-----------------------------------------------------------------------------
(* Locks and checks.                                                       *)

LockRoom(w) ==
  /\ tx[w].step = "begun" /\ tx[w].op # "edit"
  /\ RoomFree(w)
  /\ tx' = [tx EXCEPT ![w].step = "room", ![w].saw = status[tx[w].room]]
  /\ UNCHANGED <<day, stay, status, log, task, edited>>

LockStay(w) ==
  /\ tx[w].op \in StayOps /\ tx[w].step = "room"
  /\ StayFree(w)
  /\ tx' = [tx EXCEPT ![w].step = "stay", ![w].was = stay[tx[w].ref].status]
  /\ UNCHANGED <<day, stay, status, log, task, edited>>

(* Dates a new reservation may get; the portal refuses a past arrival.     *)
CheckBook(w) == \E i, o \in Days :
  /\ tx[w].op \in BookOps /\ tx[w].step = "room"
  /\ i < o
  /\ IF tx[w].op = "book" THEN AvailableForDates(tx[w].room, i, o)
     ELSE i >= tx[w].today /\ PortalAvailable(tx[w].room, i, o)
  /\ tx' = [tx EXCEPT ![w].step = "checked", ![w].in = i, ![w].out = o,
                      ![w].to = "confirmed"]
  /\ UNCHANGED <<day, stay, status, log, task, edited>>

(* reservationService.update: new dates, or a cancellation with any dates. *)
CheckUpdate(w) == \E i, o \in Days : \E s \in {tx[w].was, "cancelled"} :
  /\ tx[w].op = "update" /\ tx[w].step = "stay"
  /\ s # tx[w].was => tx[w].was = "confirmed"
  /\ tx[w].was \notin {"cancelled", "checked_out"}
  /\ i < o
  /\ s # "cancelled" => /\ ~HasOverlap(tx[w].room, i, o, tx[w].ref)
                        /\ tx[w].saw # "maintenance"
  /\ tx' = [tx EXCEPT ![w].step = "checked", ![w].in = i, ![w].out = o, ![w].to = s]
  /\ UNCHANGED <<day, stay, status, log, task, edited>>

-----------------------------------------------------------------------------
(* Writes and COMMIT.  A guard that fails leaves only Rollback.            *)

End(w) == tx' = [tx EXCEPT ![w] = Idle]

Sync(w) ==
  LET r == tx[w].room
  IN  SetRoomStatus(r, SyncedStatus(status[r], r, stay', tx[w].today), task)

CreateStay(w) == \E v \in Reservations :
  /\ tx[w].op \in BookOps /\ tx[w].step = "checked"
  /\ stay[v].status = "none"
  /\ ExclusionHolds(v, tx[w].room, tx[w].in, tx[w].out, "confirmed")
  /\ stay' = [stay EXCEPT ![v] = [status |-> "confirmed", room |-> tx[w].room,
                                  in |-> tx[w].in, out |-> tx[w].out]]
  /\ Sync(w) /\ End(w)
  /\ UNCHANGED <<day, log, task, edited>>

UpdateStay(w) == LET v == tx[w].ref IN
  /\ tx[w].op = "update" /\ tx[w].step = "checked"
  /\ ExclusionHolds(v, tx[w].room, tx[w].in, tx[w].out, tx[w].to)
  /\ stay' = [stay EXCEPT ![v].in = tx[w].in, ![v].out = tx[w].out,
                          ![v].status = tx[w].to]
  /\ Sync(w) /\ End(w)
  /\ UNCHANGED <<day, log, task, edited>>

(* Mutant: a guest who has arrived can be cancelled. *)
CancelStayAnyStatus(w) ==
  /\ tx[w].op = "cancel" /\ tx[w].step = "stay"
  /\ tx[w].was # "cancelled"
  /\ stay' = [stay EXCEPT ![tx[w].ref].status = "cancelled"]
  /\ Sync(w) /\ End(w)
  /\ UNCHANGED <<day, log, task, edited>>

CancelStay(w) ==
  /\ tx[w].op = "cancel" /\ tx[w].step = "stay"
  /\ tx[w].was = "confirmed"
  /\ stay' = [stay EXCEPT ![tx[w].ref].status = "cancelled"]
  /\ Sync(w) /\ End(w)
  /\ UNCHANGED <<day, log, task, edited>>

CheckIn(w) == LET v == tx[w].ref IN
  /\ tx[w].op = "checkIn" /\ tx[w].step = "stay"
  /\ tx[w].was = "confirmed"
  /\ tx[w].saw \notin {"maintenance", "occupied"}
  /\ log[v] = "none"
  /\ log' = [log EXCEPT ![v] = "open"]
  /\ stay' = [stay EXCEPT ![v].status = "checked_in"]
  /\ SetRoomStatus(tx[w].room, "occupied", task) /\ End(w)
  /\ UNCHANGED <<day, task, edited>>

CheckOut(w) == LET v == tx[w].ref IN
  /\ tx[w].op = "checkOut" /\ tx[w].step = "stay"
  /\ tx[w].was = "checked_in"
  /\ log[v] = "open"
  /\ log' = [log EXCEPT ![v] = "closed"]
  /\ stay' = [stay EXCEPT ![v].status = "checked_out"]
  /\ SetRoomStatus(tx[w].room, "maintenance", task)
  /\ task' = [task EXCEPT ![v] = IF task[v] = NoTask   \* ON CONFLICT DO NOTHING
                                 THEN [status |-> "open", room |-> tx[w].room]
                                 ELSE task[v]]
  /\ End(w)
  /\ UNCHANGED <<day, edited>>

CreateTask(w) == \E k \in StaffTasks :
  /\ tx[w].op = "newTask" /\ tx[w].step = "room"
  /\ task[k] = NoTask
  /\ task' = [task EXCEPT ![k] = [status |-> "open", room |-> tx[w].room]]
  /\ IF tx[w].saw = "occupied" THEN UNCHANGED status
     ELSE SetRoomStatus(tx[w].room, "maintenance", task')
  /\ End(w)
  /\ UNCHANGED <<day, stay, log, edited>>

(* updateTask with status "completed"; its other updates keep the task open. *)
CompleteTask(w) == LET k == tx[w].ref  r == tx[w].room IN
  /\ tx[w].op = "doneTask" /\ tx[w].step = "room"
  /\ task[k].status = "open"
  /\ task' = [task EXCEPT ![k].status = "completed"]
  /\ IF OpenTasks(task', r) = {}
     THEN SetRoomStatus(r, SyncedStatus("available", r, stay, tx[w].today), task')
     ELSE UNCHANGED status
  /\ End(w)
  /\ UNCHANGED <<day, stay, log, edited>>

(* One UPDATE outside any transaction block; it still waits for the row.   *)
EditRoom(w) ==
  /\ tx[w].op = "edit"
  /\ RoomFree(w)
  /\ SetRoomStatus(tx[w].room, tx[w].to, task)
  /\ edited' = edited \union {tx[w].room}
  /\ End(w)
  /\ UNCHANGED <<day, stay, log, task>>

(* A refused guard, a failed statement, a lost connection, a crash.        *)
Rollback(w) ==
  /\ tx[w].op # "idle"
  /\ End(w)
  /\ UNCHANGED <<day, stay, status, log, task, edited>>

Midnight ==
  /\ day < MaxDay
  /\ day' = day + 1
  /\ UNCHANGED <<stay, status, log, task, tx, edited>>

Commit(w) ==
  \/ CreateStay(w) \/ UpdateStay(w) \/ CancelStay(w)
  \/ CheckIn(w) \/ CheckOut(w)
  \/ CreateTask(w) \/ CompleteTask(w) \/ EditRoom(w)

Step(w) ==
  \/ Begin(w) \/ LockRoom(w) \/ LockStay(w) \/ CheckBook(w) \/ CheckUpdate(w)
  \/ Commit(w) \/ Rollback(w)

Next == Midnight \/ \E w \in Workers : Step(w)

Spec == Init /\ [][Next]_vars

-----------------------------------------------------------------------------
(* Properties.                                                             *)

(* No night of a room is promised to two stays that have not been          *)
(* cancelled, whatever requests run at once (reservationLock, hasOverlap,  *)
(* the exclusion constraint).                                              *)
NoSharedNight ==
  \A v, x \in {y \in Reservations : stay[y].status \notin {"none", "cancelled"}} :
    \A n \in Days :
    /\ v # x /\ stay[v].room = stay[x].room
    /\ stay[v].in <= n /\ n < stay[v].out
    => ~(stay[x].in <= n /\ n < stay[x].out)

(* The room lock makes the availability check of the code conclusive: the  *)
(* exclusion constraint behind it never has to reject a write.             *)
ExclusionNeverFires == \A w \in Workers :
  tx[w].step = "checked" =>
    ExclusionHolds(tx[w].ref, tx[w].room, tx[w].in, tx[w].out, tx[w].to)

(* A room offered as available or reserved has no unfinished task, also    *)
(* when the desk writes its status by hand on a stale read (trigger        *)
(* hotel_room_ready, createTask, updateTask).                              *)
ReadyRoomHasNoOpenTask ==
  \A r \in Rooms : status[r] \in {"available", "reserved"} => OpenTasks(task, r) = {}

(* While nobody has edited a room by hand, it is "occupied" exactly when a *)
(* guest is in it, and never two guests are (check-in, check-out, sync).   *)
OccupiedMeansOneGuest == \A r \in Rooms \ edited :
  /\ status[r] = "occupied" <=> Guests(stay, r) # {}
  /\ \A v, x \in Guests(stay, r) : v = x

(* A room nobody has edited is not set free while a confirmed stay still   *)
(* has nights ahead, even if the transaction that computed it started on   *)
(* an earlier day (syncReservationStatus).                                 *)
AvailableMeansFree == \A r \in Rooms \ edited :
  status[r] = "available" => Upcoming(stay, r, day) = {}

(* An arrival finds no unfinished task in its room.                        *)
ArrivalIsClean == \A v \in Reservations :
  stay[v].status # "checked_in" /\ stay'[v].status = "checked_in"
    => OpenTasks(task, stay[v].room) = {}

(* No guest is ever checked into a room with an unfinished task, edited or *)
(* not: after a departure the room is cleaned first (checkIn, checkOut).   *)
NoArrivalBeforeCleaning == [][ArrivalIsClean]_vars

(* The room routes never free an occupied room: their table only lets      *)
(* "occupied" become "occupied" or "maintenance" (roomController.js:170).  *)
EditKeepsGuestIn == [][
  \A w \in Workers : LET r == tx[w].room IN
    tx[w].op = "edit" /\ tx'[w] = Idle /\ status[r] = "occupied"
      => status'[r] \in {"occupied", "maintenance"}]_vars

(* The table reservation under concurrent requests implements the ledger:  *)
(* each request takes effect at its commit, on the book as it is then, and *)
(* a finished or cancelled stay never changes again.                       *)
Ledger == INSTANCE BookingLedger WITH book <- stay

ImplementsLedger == Ledger!LedgerSpec

-----------------------------------------------------------------------------
(* The inductive invariant behind the safety properties above.             *)

(* What a request carries at each of its steps.                            *)
RequestShape(t) ==
  /\ t.op = "idle" <=> t.step = "none"
  /\ t.op # "idle" => t.room \in Rooms
  /\ t.op \in BookOps => t.ref = NoRef /\ t.step # "stay"
  /\ t.op \in StayOps => /\ t.ref \in Reservations
                         /\ stay[t.ref].status # "none"
                         /\ stay[t.ref].room = t.room
  /\ t.op = "newTask" => t.step \in {"begun", "room"}
  /\ t.op = "doneTask" => /\ t.step \in {"begun", "room"}
                          /\ t.ref \in TaskIds
                          /\ task[t.ref].status # "none"
                          /\ task[t.ref].room = t.room
  /\ t.op = "edit" => t.step = "begun" /\ t.to \in RoomStatus
  /\ t.op \in StayOps \ {"update"} => t.step # "checked"
  /\ t.today <= day

(* What was read under a lock is still so.                                 *)
ReadsFresh(t) ==
  /\ HoldsRoom(t) => t.saw = status[t.room]
  /\ HoldsStay(t) => t.was = stay[t.ref].status

(* What CheckBook and CheckUpdate established still holds.                 *)
CheckConclusive(t) == t.step = "checked" =>
  /\ t.in < t.out
  /\ t.op \in BookOps => t.to = "confirmed"
  /\ t.op = "update" => \/ t.to = t.was /\ t.was \in {"confirmed", "checked_in"}
                        \/ t.to = "cancelled" /\ t.was = "confirmed"
  /\ ExclusionHolds(t.ref, t.room, t.in, t.out, t.to)

RequestOK(t) == RequestShape(t) /\ ReadsFresh(t) /\ CheckConclusive(t)

(* Two transactions never hold the lock of one room.                       *)
LocksExclusive == \A w, x \in Workers :
  w # x /\ HoldsRoom(tx[w]) /\ HoldsRoom(tx[x]) => tx[w].room # tx[x].room

StayOK(v) ==
  /\ stay[v].status = "none" => stay[v] = NoStay
  /\ stay[v].status # "none" => stay[v].room \in Rooms /\ stay[v].in < stay[v].out
  /\ log[v] = "open" <=> stay[v].status = "checked_in"
  /\ log[v] = "closed" <=> stay[v].status = "checked_out"

NoOverlap == \A v, x \in Reservations :
  v # x /\ Live(v) /\ Live(x) /\ stay[v].room = stay[x].room
    => ~Overlaps(v, stay[x].in, stay[x].out)

RoomOK(r) ==
  /\ status[r] \in {"available", "reserved"} => OpenTasks(task, r) = {}
  /\ r \notin edited =>
       /\ status[r] = "occupied" <=> Guests(stay, r) # {}
       /\ \A v, x \in Guests(stay, r) : v = x
       /\ status[r] = "available" => Upcoming(stay, r, day) = {}

(* All of it: it implies the invariants above and no step breaks it.       *)
IInv ==
  /\ TypeOK
  /\ \A w \in Workers : RequestOK(tx[w])
  /\ LocksExclusive
  /\ \A v \in Reservations : StayOK(v)
  /\ \A k \in TaskIds : task[k].status # "none" => task[k].room \in Rooms
  /\ NoOverlap
  /\ \A r \in Rooms : RoomOK(r)

-----------------------------------------------------------------------------
(* For TLC: either the nights are many, or the staff has tasks of its own  *)
(* and edits rooms by hand.                                                *)
ShortOrUndisturbed ==
  \/ edited = {} /\ \A k \in StaffTasks : task[k] = NoTask
  \/ day <= 1 /\ \A v \in Reservations : stay[v].out <= 1

Symmetry == Permutations(Workers) \union Permutations(Reservations)
=============================================================================
