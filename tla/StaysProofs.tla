---------------------------- MODULE StaysProofs ----------------------------
(* Proofs about Stays, for any number of workers, rooms, reservations,     *)
(* tasks and days.                                                         *)
EXTENDS Stays, TLAPS

LEMMA BlankRows ==
  /\ 0 \in Days
  /\ Idle \in Requests /\ NoStay \in StayRows /\ NoTask \in TaskRows
<1>1. 0 \in Days
  BY DaysAssumption DEF Days
<1>2. Idle \in Requests
  BY <1>1 DEF Idle, Requests, StayStatus
<1>3. NoStay \in StayRows
  BY <1>1 DEF NoStay, StayRows, StayStatus
<1>4. NoTask \in TaskRows
  BY DEF NoTask, TaskRows
<1> QED
  BY <1>1, <1>2, <1>3, <1>4

LEMMA IdleOK == TypeOK => RequestOK(Idle) /\ ~HoldsRoom(Idle)
<1> SUFFICES ASSUME TypeOK PROVE RequestOK(Idle) /\ ~HoldsRoom(Idle)
  OBVIOUS
<1>1. 0 <= day
  BY DaysAssumption DEF TypeOK, Days
<1>2. RequestShape(Idle)
  BY <1>1 DEF RequestShape, Idle, BookOps, StayOps
<1>3. ReadsFresh(Idle) /\ ~HoldsRoom(Idle)
  BY DEF ReadsFresh, Idle, HoldsRoom, HoldsStay
<1>4. CheckConclusive(Idle)
  BY DEF CheckConclusive, Idle
<1> QED
  BY <1>2, <1>3, <1>4 DEF RequestOK

LEMMA InitIInv == Init => IInv
<1> SUFFICES ASSUME Init PROVE IInv
  OBVIOUS
<1>1. TypeOK
  BY BlankRows DEF Init, TypeOK, RoomStatus
<1>2. \A w \in Workers : RequestOK(tx[w]) /\ ~HoldsRoom(tx[w])
  BY <1>1, IdleOK DEF Init
<1>3. \A v \in Reservations : StayOK(v)
  BY DEF Init, StayOK, NoStay
<1>4. \A k \in TaskIds : task[k].status = "none"
  BY DEF Init, NoTask
<1>5. NoOverlap
  BY DEF Init, NoOverlap, Live, NoStay
<1>6. \A r \in Rooms : RoomOK(r)
  BY <1>4 DEF Init, RoomOK, OpenTasks, Guests, Upcoming, NoStay
<1> QED
  BY <1>1, <1>2, <1>3, <1>4, <1>5, <1>6 DEF IInv, LocksExclusive

-----------------------------------------------------------------------------
(* Steps that only change what one request carries.                        *)

(* The tables are as before and the new request is in order by itself.     *)
LEMMA OnlyRequest ==
  ASSUME IInv, NEW w \in Workers, NEW q \in Requests,
         tx' = [tx EXCEPT ![w] = q],
         UNCHANGED <<day, stay, status, log, task, edited>>,
         RequestOK(q),
         HoldsRoom(q) => /\ RoomFree(w)
                         /\ q.room = tx[w].room
  PROVE  IInv'
<1>1. TypeOK'
  BY DEF IInv, TypeOK
<1>2. \A x \in Workers : RequestOK(tx[x])'
  <2>1. \A t : RequestOK(t) => RequestOK(t)'
    BY DEF RequestOK, RequestShape, ReadsFresh, CheckConclusive, HoldsRoom, HoldsStay,
           ExclusionHolds, HasOverlap, Live, Overlaps
  <2> QED
    BY <2>1 DEF IInv, TypeOK
<1>3. LocksExclusive'
  BY DEF IInv, TypeOK, LocksExclusive, RoomFree
<1>4. (\A v \in Reservations : StayOK(v))' /\ NoOverlap' /\ (\A r \in Rooms : RoomOK(r))'
  BY DEF IInv, StayOK, NoOverlap, RoomOK, Live, Overlaps, OpenTasks, Guests, Upcoming
<1> QED
  BY <1>1, <1>2, <1>3, <1>4 DEF IInv

LEMMA BeginIInv ==
  ASSUME IInv, NEW w \in Workers, Begin(w)
  PROVE  IInv'
<1>1. TypeOK
  BY DEF IInv
<1>2. ASSUME NEW op \in Ops, NEW r \in Rooms, NEW ref \in TaskIds \union {NoRef},
             NEW to \in RoomStatus \union {"none"},
             tx' = [tx EXCEPT ![w] = Request(op, r, ref, to)],
             op \in BookOps => ref = NoRef,
             op \in StayOps => /\ ref \in Reservations
                               /\ stay[ref].status # "none" /\ stay[ref].room = r,
             op = "doneTask" => /\ ref \in TaskIds
                                /\ task[ref].status # "none" /\ task[ref].room = r,
             op = "edit" => to \in RoomStatus
      PROVE  IInv'
  <2> DEFINE q == Request(op, r, ref, to)
  <2>1. q \in Requests
    BY <1>1, DaysAssumption DEF TypeOK, Request, Requests, Days, StayStatus
  <2>2. RequestShape(q)
    BY <1>1, <1>2, DaysAssumption
       DEF RequestShape, Request, TypeOK, Days, Ops, BookOps, StayOps, TaskOps
  <2>3. ReadsFresh(q) /\ CheckConclusive(q) /\ ~HoldsRoom(q)
    BY DEF ReadsFresh, CheckConclusive, HoldsRoom, HoldsStay, Request
  <2> HIDE DEF q
  <2> QED
    BY <1>2, <2>1, <2>2, <2>3, OnlyRequest DEF Begin, RequestOK, q
<1>3. BookOps \subseteq Ops /\ StayOps \subseteq Ops /\ {"newTask", "doneTask", "edit"} \subseteq Ops
  BY DEF Ops, TaskOps
<1>4. CASE BeginBook(w)
  <2>1. PICK op \in BookOps, r \in Rooms :
          tx' = [tx EXCEPT ![w] = Request(op, r, NoRef, "none")]
    BY <1>4 DEF BeginBook
  <2> QED
    BY <1>2, <1>3, <2>1 DEF BookOps, StayOps
<1>5. CASE BeginStay(w)
  <2>1. PICK op \in StayOps, v \in Reservations :
          /\ stay[v].status # "none"
          /\ tx' = [tx EXCEPT ![w] = Request(op, stay[v].room, v, "none")]
    BY <1>5 DEF BeginStay
  <2>2. stay[v].room \in Rooms /\ v \in TaskIds
    BY <2>1 DEF IInv, StayOK, TaskIds
  <2> QED
    BY <1>2, <1>3, <2>1, <2>2 DEF BookOps, StayOps
<1>6. CASE BeginTask(w)
  <2>1. CASE \E r \in Rooms : tx' = [tx EXCEPT ![w] = Request("newTask", r, NoRef, "none")]
    BY <1>2, <1>3, <2>1 DEF BookOps, StayOps
  <2>2. ASSUME NEW k \in TaskIds, task[k].status # "none",
               tx' = [tx EXCEPT ![w] = Request("doneTask", task[k].room, k, "none")]
        PROVE  IInv'
    <3>1. task[k].room \in Rooms
      BY <2>2 DEF IInv
    <3> QED
      BY <1>2, <1>3, <2>2, <3>1 DEF BookOps, StayOps
  <2> QED
    BY <1>6, <2>1, <2>2 DEF BeginTask
<1>7. CASE BeginEdit(w)
  <2>1. PICK r \in Rooms : \E s \in AllowedStatus[status[r]] :
          tx' = [tx EXCEPT ![w] = Request("edit", r, NoRef, s)]
    BY <1>7 DEF BeginEdit
  <2>2. AllowedStatus[status[r]] \subseteq RoomStatus
    BY <1>1 DEF TypeOK, AllowedStatus, RoomStatus
  <2> QED
    BY <1>2, <1>3, <2>1, <2>2 DEF BookOps, StayOps
<1> QED
  BY <1>4, <1>5, <1>6, <1>7 DEF Begin

LEMMA LockIInv ==
  ASSUME IInv, NEW w \in Workers, LockRoom(w) \/ LockStay(w)
  PROVE  IInv'
<1>1. TypeOK /\ RequestOK(tx[w]) /\ tx[w] \in Requests
  BY DEF IInv, TypeOK
<1>2. CASE LockRoom(w)
  <2> DEFINE q == [tx[w] EXCEPT !.step = "room", !.saw = status[tx[w].room]]
  <2>1. tx[w].room \in Rooms
    BY <1>1, <1>2 DEF RequestOK, RequestShape, LockRoom
  <2>2. q \in Requests
    BY <1>1, <2>1 DEF Requests, TypeOK
  <2>3. RequestOK(q)
    BY <1>1, <1>2, <2>1 DEF LockRoom, RequestOK, RequestShape, ReadsFresh, CheckConclusive,
       HoldsRoom, HoldsStay, Requests
  <2>4. tx' = [tx EXCEPT ![w] = q] /\ RoomFree(w) /\ q.room = tx[w].room
    BY <1>1, <1>2 DEF LockRoom, TypeOK, Requests
  <2> HIDE DEF q
  <2> QED
    BY <1>2, <2>2, <2>3, <2>4, OnlyRequest DEF LockRoom
<1>3. CASE LockStay(w)
  <2> DEFINE q == [tx[w] EXCEPT !.step = "stay", !.was = stay[tx[w].ref].status]
  <2>1. tx[w].ref \in Reservations
    BY <1>1, <1>3 DEF RequestOK, RequestShape, LockStay
  <2>2. q \in Requests
    BY <1>1, <2>1 DEF Requests, TypeOK, StayRows
  <2>3. RequestOK(q)
    BY <1>1, <1>3, <2>1 DEF LockStay, RequestOK, RequestShape, ReadsFresh, CheckConclusive,
       HoldsRoom, HoldsStay, Requests, StayOps, BookOps
  <2>4. tx' = [tx EXCEPT ![w] = q] /\ q.room = tx[w].room
    BY <1>1, <1>3 DEF LockStay, TypeOK, Requests
  <2>5. RoomFree(w)
    BY <1>3 DEF IInv, LocksExclusive, RoomFree, LockStay, HoldsRoom
  <2> HIDE DEF q
  <2> QED
    BY <1>3, <2>2, <2>3, <2>4, <2>5, OnlyRequest DEF LockStay
<1> QED
  BY <1>2, <1>3

LEMMA CheckIInv ==
  ASSUME IInv, NEW w \in Workers, CheckBook(w) \/ CheckUpdate(w)
  PROVE  IInv'
<1>1. TypeOK /\ RequestOK(tx[w]) /\ tx[w] \in Requests
  BY DEF IInv, TypeOK
<1>2. RoomFree(w)
  BY DEF IInv, LocksExclusive, RoomFree, CheckBook, CheckUpdate, HoldsRoom
<1>3. ASSUME NEW i \in Days, NEW o \in Days, NEW s \in StayStatus,
             tx' = [tx EXCEPT ![w].step = "checked", ![w].in = i, ![w].out = o, ![w].to = s],
             UNCHANGED <<day, stay, status, log, task, edited>>,
             RequestOK([tx[w] EXCEPT !.step = "checked", !.in = i, !.out = o, !.to = s])
      PROVE  IInv'
  <2> DEFINE q == [tx[w] EXCEPT !.step = "checked", !.in = i, !.out = o, !.to = s]
  <2>1. q \in Requests
    BY <1>1 DEF Requests
  <2>2. tx' = [tx EXCEPT ![w] = q] /\ q.room = tx[w].room
    BY <1>1, <1>3 DEF TypeOK, Requests
  <2> HIDE DEF q
  <2> QED
    BY <1>2, <1>3, <2>1, <2>2, OnlyRequest DEF q
<1>4. CASE CheckBook(w)
  <2>1. PICK i \in Days, o \in Days :
          /\ tx[w].op \in BookOps /\ tx[w].step = "room"
          /\ i < o
          /\ ~HasOverlap(tx[w].room, i, o, NoRef)
          /\ tx' = [tx EXCEPT ![w].step = "checked", ![w].in = i, ![w].out = o,
                              ![w].to = "confirmed"]
    BY <1>4 DEF CheckBook, AvailableForDates, PortalAvailable
  <2> DEFINE q == [tx[w] EXCEPT !.step = "checked", !.in = i, !.out = o, !.to = "confirmed"]
  <2>2. RequestShape(q)
    BY <1>1, <2>1 DEF RequestOK, RequestShape, Requests, BookOps, StayOps
  <2>3. ReadsFresh(q)
    BY <1>1, <2>1 DEF RequestOK, ReadsFresh, HoldsRoom, HoldsStay, Requests, BookOps, StayOps
  <2>4. q.ref = NoRef
    BY <1>1, <2>1 DEF RequestOK, RequestShape, Requests
  <2>5. CheckConclusive(q)
    BY <1>1, <2>1, <2>4 DEF CheckConclusive, ExclusionHolds, Requests, BookOps
  <2>6. "confirmed" \in StayStatus
    BY DEF StayStatus
  <2> QED
    BY <1>3, <1>4, <2>1, <2>2, <2>3, <2>5, <2>6 DEF RequestOK, CheckBook
<1>5. CASE CheckUpdate(w)
  <2>1. PICK i \in Days, o \in Days, s \in {tx[w].was, "cancelled"} :
          /\ tx[w].op = "update" /\ tx[w].step = "stay"
          /\ s # tx[w].was => tx[w].was = "confirmed"
          /\ tx[w].was \notin {"cancelled", "checked_out"}
          /\ i < o
          /\ s # "cancelled" => ~HasOverlap(tx[w].room, i, o, tx[w].ref)
          /\ tx' = [tx EXCEPT ![w].step = "checked", ![w].in = i, ![w].out = o, ![w].to = s]
    BY <1>5 DEF CheckUpdate
  <2> DEFINE q == [tx[w] EXCEPT !.step = "checked", !.in = i, !.out = o, !.to = s]
  <2>2. RequestShape(q)
    BY <1>1, <2>1 DEF RequestOK, RequestShape, Requests, BookOps, StayOps
  <2>3. ReadsFresh(q)
    BY <1>1, <2>1 DEF RequestOK, ReadsFresh, HoldsRoom, HoldsStay, Requests, StayOps
  <2>4. tx[w].was \in {"confirmed", "checked_in"}
    BY <1>1, <2>1 DEF RequestOK, RequestShape, ReadsFresh, HoldsStay, Requests, StayOps, StayStatus
  <2>5. CheckConclusive(q)
    BY <1>1, <2>1, <2>4 DEF CheckConclusive, ExclusionHolds, Requests, BookOps
  <2>6. s \in StayStatus
    BY <1>1 DEF Requests, StayStatus
  <2> QED
    BY <1>3, <1>5, <2>1, <2>2, <2>3, <2>5, <2>6 DEF RequestOK, CheckUpdate
<1> QED
  BY <1>4, <1>5

LEMMA RollbackIInv ==
  ASSUME IInv, NEW w \in Workers, Rollback(w)
  PROVE  IInv'
  BY BlankRows, IdleOK, OnlyRequest DEF Rollback, End, IInv

-----------------------------------------------------------------------------
(* Steps that commit.                                                      *)

(* What a commit of a transaction on room r may change.                    *)
OnlyRoom(r) ==
  /\ \A y \in Rooms \ {r} : status'[y] = status[y]
  /\ \A v \in Reservations :
       \/ stay'[v] = stay[v]
       \/ /\ stay'[v].room = r /\ stay'[v].status # "none"
          /\ stay[v].room \in {r, NoRoom}
  /\ \A k \in TaskIds :
       \/ task'[k] = task[k]
       \/ /\ task'[k].room = r /\ task'[k].status # "none"
          /\ task[k].room \in {r, NoRoom}
  /\ edited' \subseteq edited \union {r} /\ edited \subseteq edited'
  /\ day' = day

(* The rows of every other room look the same after the commit.            *)
LEMMA OtherRooms ==
  ASSUME IInv, TypeOK', NEW r \in Rooms, OnlyRoom(r), NEW y \in Rooms \ {r}
  PROVE  /\ RoomOK(y)'
         /\ \A i, o, e : HasOverlap(y, i, o, e)' <=> HasOverlap(y, i, o, e)
<1>1. \A v \in Reservations : stay'[v] = stay[v] \/ (stay'[v].room # y /\ stay[v].room # y)
  BY NamesAssumption DEF OnlyRoom
<1>2. \A k \in TaskIds : task'[k] = task[k] \/ (task'[k].room # y /\ task[k].room # y)
  BY NamesAssumption DEF OnlyRoom
<1>3. Guests(stay', y) = Guests(stay, y) /\ Upcoming(stay', y, day') = Upcoming(stay, y, day)
  BY <1>1 DEF Guests, Upcoming, OnlyRoom
<1>4. OpenTasks(task', y) = OpenTasks(task, y)
  BY <1>2 DEF OpenTasks
<1>5. RoomOK(y)'
  <2>1. RoomOK(y)
    BY DEF IInv
  <2>2. y \notin edited' => y \notin edited
    BY DEF OnlyRoom
  <2> QED
    BY <1>3, <1>4, <2>1, <2>2 DEF RoomOK, OnlyRoom
<1>6. ASSUME NEW i, NEW o, NEW e
      PROVE  HasOverlap(y, i, o, e)' <=> HasOverlap(y, i, o, e)
  BY <1>1 DEF HasOverlap, Live, Overlaps
<1> QED
  BY <1>5, <1>6

(* The other requests are left in order, and so is what they have read.    *)
LEMMA OtherRequests ==
  ASSUME IInv, TypeOK', NEW w \in Workers, End(w), RoomFree(w),
         tx[w].room \in Rooms, OnlyRoom(tx[w].room)
  PROVE  (\A x \in Workers : RequestOK(tx[x]))' /\ LocksExclusive'
<1> DEFINE r == tx[w].room
<1>1. TypeOK /\ \A x \in Workers \ {w} : tx'[x] = tx[x] /\ RequestOK(tx[x])
  BY DEF End, IInv, TypeOK
<1>2. tx'[w] = Idle
  BY DEF End, IInv, TypeOK
<1>3. RequestOK(Idle)' /\ ~HoldsRoom(Idle)
  <2>1. 0 <= day'
    BY DaysAssumption DEF TypeOK, Days
  <2>2. RequestShape(Idle)'
    BY <2>1 DEF RequestShape, Idle, BookOps, StayOps
  <2>3. ReadsFresh(Idle)' /\ ~HoldsRoom(Idle) /\ CheckConclusive(Idle)'
    BY DEF ReadsFresh, Idle, HoldsRoom, HoldsStay, CheckConclusive
  <2> QED
    BY <2>2, <2>3 DEF RequestOK
<1>4. ASSUME NEW t \in Requests, RequestOK(t), HoldsRoom(t) => t.room # r
      PROVE  RequestOK(t)'
  <2>1. RequestShape(t) /\ ReadsFresh(t) /\ CheckConclusive(t)
    BY <1>4 DEF RequestOK
  <2>2. RequestShape(t)'
    <3>1. t.op \in StayOps => stay'[t.ref].status # "none" /\ stay'[t.ref].room = t.room
      BY <2>1, NamesAssumption DEF RequestShape, OnlyRoom, IInv, StayOK, StayOps
    <3>2. t.op = "doneTask" => task'[t.ref].status # "none" /\ task'[t.ref].room = t.room
      BY <2>1, NamesAssumption DEF RequestShape, OnlyRoom, IInv
    <3> QED
      BY <2>1, <3>1, <3>2 DEF RequestShape, OnlyRoom
  <2>3. HoldsRoom(t) => t.room \in Rooms \ {r}
    BY <1>4, <2>1 DEF RequestShape, HoldsRoom
  <2>4. ReadsFresh(t)'
    <3>1. HoldsRoom(t) => t.saw = status'[t.room]
      BY <2>1, <2>3 DEF ReadsFresh, OnlyRoom
    <3>2. HoldsStay(t) => t.was = stay'[t.ref].status
      BY <2>1, <2>3, NamesAssumption
         DEF ReadsFresh, OnlyRoom, HoldsStay, HoldsRoom, RequestShape
    <3> QED
      BY <3>1, <3>2 DEF ReadsFresh, HoldsRoom, HoldsStay
  <2>5. CheckConclusive(t)'
    <3>1. t.step = "checked" =>
            (HasOverlap(t.room, t.in, t.out, t.ref)' <=> HasOverlap(t.room, t.in, t.out, t.ref))
      BY <2>3, OtherRooms DEF HoldsRoom
    <3> QED
      BY <2>1, <3>1 DEF CheckConclusive, ExclusionHolds
  <2> QED
    BY <2>2, <2>4, <2>5 DEF RequestOK
<1>5. \A x \in Workers : RequestOK(tx[x])'
  <2>1. \A x \in Workers \ {w} : tx[x] \in Requests /\ (HoldsRoom(tx[x]) => tx[x].room # r)
    BY <1>1 DEF TypeOK, RoomFree
  <2> QED
    BY <1>1, <1>2, <1>3, <1>4, <2>1
<1>6. LocksExclusive'
  BY <1>1, <1>2, <1>3 DEF IInv, LocksExclusive, HoldsRoom
<1> QED
  BY <1>5, <1>6

(* A step that changes only its own room, and leaves that room in order,   *)
(* keeps the whole invariant.                                              *)
LEMMA CommitIInv ==
  ASSUME IInv, NEW w \in Workers, NEW r \in Rooms, tx[w].room = r,
         End(w), RoomFree(w), OnlyRoom(r),
         stay' \in [Reservations -> StayRows],
         status' \in [Rooms -> RoomStatus],
         log' \in [Reservations -> {"none", "open", "closed"}],
         task' \in [TaskIds -> TaskRows],
         \A v \in Reservations : StayOK(v)',
         NoOverlap', RoomOK(r)'
  PROVE  IInv'
<1>1. TypeOK'
  <2>1. tx' \in [Workers -> Requests]
    BY BlankRows DEF End, IInv, TypeOK
  <2>2. edited' \subseteq Rooms /\ day' \in Days
    BY DEF OnlyRoom, IInv, TypeOK
  <2> QED
    BY <2>1, <2>2 DEF TypeOK
<1>2. (\A x \in Workers : RequestOK(tx[x]))' /\ LocksExclusive'
  BY <1>1, OtherRequests
<1>3. \A k \in TaskIds : task'[k].status # "none" => task'[k].room \in Rooms
  BY DEF OnlyRoom, IInv
<1>4. \A y \in Rooms : RoomOK(y)'
  BY <1>1, OtherRooms
<1> QED
  BY <1>1, <1>2, <1>3, <1>4 DEF IInv

(* A request past its first step holds its room, so nobody else does.      *)
LEMMA Holder ==
  ASSUME IInv, NEW w \in Workers, HoldsRoom(tx[w])
  PROVE  /\ TypeOK /\ tx[w] \in Requests /\ tx[w].room \in Rooms /\ RoomFree(w)
         /\ RequestShape(tx[w]) /\ ReadsFresh(tx[w]) /\ CheckConclusive(tx[w])
         /\ tx[w].today <= day
<1>1. TypeOK /\ tx[w] \in Requests /\ RequestOK(tx[w])
  BY DEF IInv, TypeOK
<1>2. tx[w].room \in Rooms /\ tx[w].today <= day
  BY <1>1 DEF RequestOK, RequestShape, HoldsRoom
<1>3. RoomFree(w)
  BY DEF IInv, LocksExclusive, RoomFree
<1> QED
  BY <1>1, <1>2, <1>3 DEF RequestOK

(* Room.syncReservationStatus leaves the room in order when the step adds  *)
(* no guest to it.                                                         *)
LEMMA SyncRoom ==
  ASSUME IInv, NEW w \in Workers, NEW r \in Rooms, tx[w].room = r, tx[w].today <= day,
         Sync(w), Guests(stay', r) = Guests(stay, r),
         task' = task, edited' = edited, day' = day,
         tx[w].today \in Days,
         stay' \in [Reservations -> StayRows]
  PROVE  /\ RoomOK(r)'
         /\ status' \in [Rooms -> RoomStatus]
         /\ \A y \in Rooms \ {r} : status'[y] = status[y]
<1> DEFINE s == SyncedStatus(status[r], r, stay', tx[w].today)
<1>1. s \in RoomStatus
  BY DEF SyncedStatus, RoomStatus
<1>2. /\ s \in {"available", "reserved"} => OpenTasks(task, r) = {}
      /\ status' = [status EXCEPT ![r] = s]
  BY DEF Sync, SetRoomStatus
<1>3. /\ status[r] = "maintenance" => s = "maintenance"
      /\ status[r] # "maintenance" => (s = "occupied" <=> Guests(stay', r) # {})
      /\ s = "available" => Upcoming(stay', r, tx[w].today) = {}
  BY DEF SyncedStatus
<1>4. Upcoming(stay', r, day) \subseteq Upcoming(stay', r, tx[w].today)
  BY DEF Upcoming, StayRows, IInv, TypeOK, Days
<1>5. status \in [Rooms -> RoomStatus] /\ RoomOK(r)
  BY DEF IInv, TypeOK
<1>6. status'[r] = s
  BY <1>2, <1>5
<1> HIDE DEF s
<1>7. RoomOK(r)'
  BY <1>2, <1>3, <1>4, <1>5, <1>6 DEF RoomOK, RoomStatus
<1> QED
  BY <1>1, <1>2, <1>5, <1>7

(* One row is written, and the dates it gets were free.                    *)
LEMMA OverlapWritten ==
  ASSUME IInv, NEW v \in Reservations, NEW row \in StayRows,
         stay' = [stay EXCEPT ![v] = row],
         row.status # "cancelled" => ~HasOverlap(row.room, row.in, row.out, v)
  PROVE  NoOverlap'
<1>1. stay \in [Reservations -> StayRows] /\ NoOverlap
  BY DEF IInv, TypeOK
<1>2. stay'[v] = row /\ \A x \in Reservations \ {v} : stay'[x] = stay[x]
  BY <1>1
<1>3. \A x \in Reservations \ {v} :
        Live(x) /\ stay[x].room = row.room /\ row.status # "cancelled"
          => ~Overlaps(x, row.in, row.out)
  BY DEF HasOverlap
<1>4. ASSUME NEW x \in Reservations, NEW y \in Reservations, x # y,
             Live(x)', Live(y)', stay'[x].room = stay'[y].room
      PROVE  ~(stay'[x].in < stay'[y].out /\ stay'[x].out > stay'[y].in)
  <2>1. CASE x # v /\ y # v
    BY <1>1, <1>2, <1>4, <2>1 DEF NoOverlap, Live, Overlaps
  <2>2. CASE x = v
    BY <1>2, <1>3, <1>4, <2>2 DEF Live, Overlaps
  <2>3. CASE y = v
    BY <1>2, <1>3, <1>4, <2>3 DEF Live, Overlaps
  <2> QED
    BY <2>1, <2>2, <2>3
<1> QED
  BY <1>4 DEF NoOverlap, Overlaps

(* A commit that writes the row of one stay of the locked room.            *)
LEMMA StayWritten ==
  ASSUME IInv, NEW w \in Workers, NEW r \in Rooms, NEW v \in Reservations,
         NEW row \in StayRows,
         tx[w].room = r, RoomFree(w), End(w),
         stay' = [stay EXCEPT ![v] = row],
         row.room = r, row.status # "none", row.in < row.out,
         stay[v].room \in {r, NoRoom},
         row.status # "cancelled" => ~HasOverlap(r, row.in, row.out, v),
         status' \in [Rooms -> RoomStatus],
         \A y \in Rooms \ {r} : status'[y] = status[y],
         log' \in [Reservations -> {"none", "open", "closed"}],
         \A x \in Reservations \ {v} : log'[x] = log[x],
         log'[v] = "open" <=> row.status = "checked_in",
         log'[v] = "closed" <=> row.status = "checked_out",
         task' \in [TaskIds -> TaskRows],
         \A k \in TaskIds : \/ task'[k] = task[k]
                            \/ /\ task'[k].room = r /\ task'[k].status # "none"
                               /\ task[k].room \in {r, NoRoom},
         UNCHANGED <<day, edited>>,
         RoomOK(r)'
  PROVE  IInv'
<1>1. stay \in [Reservations -> StayRows] /\ \A x \in Reservations : StayOK(x)
  BY DEF IInv, TypeOK
<1>2. stay'[v] = row /\ \A x \in Reservations \ {v} : stay'[x] = stay[x]
  BY <1>1
<1>3. stay' \in [Reservations -> StayRows]
  BY <1>1
<1>4. \A x \in Reservations : StayOK(x)'
  <2>1. StayOK(v)'
    BY <1>2 DEF StayOK
  <2>2. ASSUME NEW x \in Reservations \ {v} PROVE StayOK(x)'
    BY <1>1, <1>2 DEF StayOK
  <2> QED
    BY <2>1, <2>2
<1>5. NoOverlap'
  BY OverlapWritten
<1>6. OnlyRoom(r)
  BY <1>2 DEF OnlyRoom
<1> QED
  BY <1>3, <1>4, <1>5, <1>6, CommitIInv

(* The commits that end with syncReservationStatus and bring no guest.     *)
LEMMA StaySynced ==
  ASSUME IInv, NEW w \in Workers, NEW r \in Rooms, NEW v \in Reservations,
         NEW row \in StayRows,
         tx[w].room = r, HoldsRoom(tx[w]), End(w), Sync(w),
         stay' = [stay EXCEPT ![v] = row],
         row.room = r, row.in < row.out,
         row.status \in {"confirmed", "checked_in", "cancelled"},
         row.status = "checked_in" <=> stay[v].status = "checked_in",
         stay[v].status # "checked_out",
         stay[v].room \in {r, NoRoom},
         row.status # "cancelled" => ~HasOverlap(r, row.in, row.out, v),
         UNCHANGED <<day, log, task, edited>>
  PROVE  IInv'
<1>1. /\ TypeOK /\ RoomFree(w) /\ tx[w].today <= day /\ tx[w].today \in Days
      /\ StayOK(v)
  BY Holder DEF IInv, Requests
<1>2. stay \in [Reservations -> StayRows] /\ stay' \in [Reservations -> StayRows]
  BY <1>1 DEF TypeOK
<1>3. stay'[v] = row /\ \A x \in Reservations \ {v} : stay'[x] = stay[x]
  BY <1>2
<1>4. Guests(stay', r) = Guests(stay, r)
  <2>1. stay[v].status = "checked_in" => stay[v].room = r
    BY <1>1, NamesAssumption DEF StayOK
  <2> QED
    BY <1>3, <2>1 DEF Guests
<1>5. RoomOK(r)' /\ status' \in [Rooms -> RoomStatus]
      /\ \A y \in Rooms \ {r} : status'[y] = status[y]
  BY <1>1, <1>2, <1>4, SyncRoom
<1>6. /\ log' \in [Reservations -> {"none", "open", "closed"}]
      /\ log'[v] = "open" <=> row.status = "checked_in"
      /\ log'[v] = "closed" <=> row.status = "checked_out"
  BY <1>1 DEF TypeOK, StayOK
<1>7. task' \in [TaskIds -> TaskRows]
  BY <1>1 DEF TypeOK
<1> QED
  BY <1>1, <1>5, <1>6, <1>7, StayWritten

(* A stay that counts keeps its nights to itself.                          *)
LEMMA OwnNights ==
  ASSUME IInv, NEW v \in Reservations, Live(v)
  PROVE  ~HasOverlap(stay[v].room, stay[v].in, stay[v].out, v)
  BY DEF IInv, NoOverlap, HasOverlap, Overlaps

LEMMA CreateStayIInv ==
  ASSUME IInv, NEW w \in Workers, CreateStay(w)
  PROVE  IInv'
<1>1. HoldsRoom(tx[w])
  BY DEF CreateStay, HoldsRoom
<1>2. /\ TypeOK /\ tx[w] \in Requests /\ tx[w].room \in Rooms
      /\ tx[w].in < tx[w].out
  BY <1>1, Holder DEF CreateStay, CheckConclusive
<1>3. PICK r \in Rooms : r = tx[w].room
  BY <1>2
<1>4. PICK v \in Reservations :
        /\ stay[v].status = "none"
        /\ ~HasOverlap(r, tx[w].in, tx[w].out, v)
        /\ stay' = [stay EXCEPT ![v] = [status |-> "confirmed", room |-> r,
                                        in |-> tx[w].in, out |-> tx[w].out]]
  BY <1>3 DEF CreateStay, ExclusionHolds
<1>5. PICK row : row = [status |-> "confirmed", room |-> r,
                        in |-> tx[w].in, out |-> tx[w].out]
  OBVIOUS
<1>6. row \in StayRows
  BY <1>2, <1>5 DEF StayRows, StayStatus, Requests
<1>7. /\ row.status = "confirmed" /\ row.room = r
      /\ row.in = tx[w].in /\ row.out = tx[w].out
  BY <1>5
<1>8. stay[v].room = NoRoom
  BY <1>4 DEF IInv, StayOK, NoStay
<1>9. End(w) /\ Sync(w) /\ UNCHANGED <<day, log, task, edited>>
  BY DEF CreateStay
<1>10. stay' = [stay EXCEPT ![v] = row] /\ ~HasOverlap(r, row.in, row.out, v)
  BY <1>4, <1>5, <1>7
<1>11. row.in < row.out
  BY <1>2, <1>7
<1> QED
  BY <1>1, <1>3, <1>4, <1>6, <1>7, <1>8, <1>9, <1>10, <1>11, StaySynced

LEMMA UpdateStayIInv ==
  ASSUME IInv, NEW w \in Workers, UpdateStay(w)
  PROVE  IInv'
<1>1. HoldsRoom(tx[w]) /\ HoldsStay(tx[w])
  BY DEF UpdateStay, HoldsRoom, HoldsStay, StayOps
<1>2. /\ TypeOK /\ tx[w] \in Requests /\ tx[w].room \in Rooms
      /\ tx[w].in < tx[w].out
      /\ tx[w].ref \in Reservations /\ stay[tx[w].ref].room = tx[w].room
      /\ \/ tx[w].to = stay[tx[w].ref].status /\ tx[w].to \in {"confirmed", "checked_in"}
         \/ tx[w].to = "cancelled" /\ stay[tx[w].ref].status = "confirmed"
  BY <1>1, Holder DEF UpdateStay, CheckConclusive, RequestShape, ReadsFresh, StayOps
<1>3. PICK r \in Rooms, v \in Reservations : r = tx[w].room /\ v = tx[w].ref
  BY <1>2
<1>4. PICK row : row = [stay[v] EXCEPT !.in = tx[w].in, !.out = tx[w].out, !.status = tx[w].to]
  OBVIOUS
<1>5. stay[v] \in StayRows /\ stay \in [Reservations -> StayRows]
  BY <1>2 DEF TypeOK
<1>6. row \in StayRows
  BY <1>2, <1>4, <1>5 DEF StayRows, Requests, StayStatus
<1>7. /\ row.status = tx[w].to /\ row.room = r
      /\ row.in = tx[w].in /\ row.out = tx[w].out
  BY <1>2, <1>3, <1>4, <1>5 DEF StayRows
<1>8. stay' = [stay EXCEPT ![v] = row]
  BY <1>3, <1>4, <1>5 DEF UpdateStay, StayRows
<1>9. End(w) /\ Sync(w) /\ UNCHANGED <<day, log, task, edited>>
  BY DEF UpdateStay
<1>10. row.status # "cancelled" => ~HasOverlap(r, row.in, row.out, v)
  BY <1>3, <1>7 DEF UpdateStay, ExclusionHolds
<1> QED
  BY <1>1, <1>2, <1>3, <1>6, <1>7, <1>8, <1>9, <1>10, StaySynced

(* What the commits of a stay's own request know once they hold both rows. *)
LEMMA StayHolder ==
  ASSUME IInv, NEW w \in Workers, HoldsStay(tx[w])
  PROVE  /\ HoldsRoom(tx[w]) /\ TypeOK /\ RoomFree(w)
         /\ tx[w].room \in Rooms /\ tx[w].ref \in Reservations
         /\ stay[tx[w].ref].room = tx[w].room
         /\ stay[tx[w].ref].in < stay[tx[w].ref].out
         /\ tx[w].was = stay[tx[w].ref].status
         /\ tx[w].saw = status[tx[w].room]
<1>1. HoldsRoom(tx[w])
  BY DEF HoldsStay, HoldsRoom
<1>2. /\ TypeOK /\ RoomFree(w) /\ tx[w].room \in Rooms
      /\ RequestShape(tx[w]) /\ ReadsFresh(tx[w])
  BY <1>1, Holder
<1>3. /\ tx[w].ref \in Reservations /\ stay[tx[w].ref].room = tx[w].room
      /\ stay[tx[w].ref].status # "none"
  BY <1>2 DEF RequestShape, HoldsStay
<1> QED
  BY <1>1, <1>2, <1>3 DEF ReadsFresh, IInv, StayOK

LEMMA CancelStayIInv ==
  ASSUME IInv, NEW w \in Workers, CancelStay(w)
  PROVE  IInv'
<1>1. HoldsStay(tx[w])
  BY DEF CancelStay, HoldsStay, StayOps
<1>2. PICK r \in Rooms, v \in Reservations : r = tx[w].room /\ v = tx[w].ref
  BY <1>1, StayHolder
<1>3. /\ HoldsRoom(tx[w]) /\ stay[v].room = r /\ stay[v].in < stay[v].out
      /\ stay[v].status = "confirmed"
      /\ stay[v] \in StayRows /\ stay \in [Reservations -> StayRows]
  BY <1>1, <1>2, StayHolder DEF CancelStay, TypeOK
<1>4. PICK row : row = [stay[v] EXCEPT !.status = "cancelled"]
  OBVIOUS
<1>5. /\ row \in StayRows /\ row.status = "cancelled" /\ row.room = r
      /\ row.in < row.out
  BY <1>3, <1>4 DEF StayRows, StayStatus
<1>6. stay' = [stay EXCEPT ![v] = row]
  BY <1>2, <1>3, <1>4 DEF CancelStay, StayRows
<1>7. End(w) /\ Sync(w) /\ UNCHANGED <<day, log, task, edited>>
  BY DEF CancelStay
<1> QED
  BY <1>2, <1>3, <1>5, <1>6, <1>7, StaySynced

LEMMA CheckInIInv ==
  ASSUME IInv, NEW w \in Workers, CheckIn(w)
  PROVE  IInv'
<1>1. HoldsStay(tx[w])
  BY DEF CheckIn, HoldsStay, StayOps
<1>2. PICK r \in Rooms, v \in Reservations : r = tx[w].room /\ v = tx[w].ref
  BY <1>1, StayHolder
<1>3. /\ TypeOK /\ RoomFree(w) /\ stay[v].room = r /\ stay[v].in < stay[v].out
      /\ stay[v].status = "confirmed" /\ status[r] # "occupied"
      /\ stay[v] \in StayRows /\ stay \in [Reservations -> StayRows]
  BY <1>1, <1>2, StayHolder DEF CheckIn, TypeOK
<1>4. PICK row : row = [stay[v] EXCEPT !.status = "checked_in"]
  OBVIOUS
<1>5. /\ row \in StayRows /\ row.status = "checked_in" /\ row.room = r
      /\ row.in = stay[v].in /\ row.out = stay[v].out
  BY <1>3, <1>4 DEF StayRows, StayStatus
<1>6. stay' = [stay EXCEPT ![v] = row]
  BY <1>2, <1>3, <1>4 DEF CheckIn, StayRows
<1>7. ~HasOverlap(r, row.in, row.out, v)
  BY <1>3, <1>5, OwnNights DEF Live
<1>8. /\ log' = [log EXCEPT ![v] = "open"]
      /\ status' = [status EXCEPT ![r] = "occupied"]
      /\ End(w) /\ UNCHANGED <<day, task, edited>>
  BY <1>2 DEF CheckIn, SetRoomStatus
<1>9. /\ log' \in [Reservations -> {"none", "open", "closed"}] /\ log'[v] = "open"
      /\ \A x \in Reservations \ {v} : log'[x] = log[x]
      /\ status' \in [Rooms -> RoomStatus] /\ status'[r] = "occupied"
      /\ \A y \in Rooms \ {r} : status'[y] = status[y]
  BY <1>3, <1>8 DEF TypeOK, RoomStatus
<1>10. RoomOK(r)'
  <2>1. Guests(stay', r) = Guests(stay, r) \union {v}
    BY <1>3, <1>5, <1>6 DEF Guests
  <2>2. r \notin edited => Guests(stay, r) = {}
    BY <1>3 DEF IInv, RoomOK
  <2> QED
    BY <1>8, <1>9, <2>1, <2>2 DEF RoomOK
<1>11. task' \in [TaskIds -> TaskRows] /\ row.in < row.out
  BY <1>3, <1>5, <1>8 DEF TypeOK
<1> QED
  BY <1>2, <1>3, <1>5, <1>6, <1>7, <1>8, <1>9, <1>10, <1>11, StayWritten

LEMMA CheckOutIInv ==
  ASSUME IInv, NEW w \in Workers, CheckOut(w)
  PROVE  IInv'
<1>1. HoldsStay(tx[w])
  BY DEF CheckOut, HoldsStay, StayOps
<1>2. PICK r \in Rooms, v \in Reservations : r = tx[w].room /\ v = tx[w].ref
  BY <1>1, StayHolder
<1>3. /\ TypeOK /\ RoomFree(w) /\ stay[v].room = r /\ stay[v].in < stay[v].out
      /\ stay[v].status = "checked_in"
      /\ stay[v] \in StayRows /\ stay \in [Reservations -> StayRows]
  BY <1>1, <1>2, StayHolder DEF CheckOut, TypeOK
<1>4. PICK row : row = [stay[v] EXCEPT !.status = "checked_out"]
  OBVIOUS
<1>5. /\ row \in StayRows /\ row.status = "checked_out" /\ row.room = r
      /\ row.in = stay[v].in /\ row.out = stay[v].out
  BY <1>3, <1>4 DEF StayRows, StayStatus
<1>6. stay' = [stay EXCEPT ![v] = row]
  BY <1>2, <1>3, <1>4 DEF CheckOut, StayRows
<1>7. ~HasOverlap(r, row.in, row.out, v)
  BY <1>3, <1>5, OwnNights DEF Live
<1>8. /\ log' = [log EXCEPT ![v] = "closed"]
      /\ status' = [status EXCEPT ![r] = "maintenance"]
      /\ task' = [task EXCEPT ![v] = IF task[v] = NoTask
                                     THEN [status |-> "open", room |-> r] ELSE task[v]]
      /\ End(w) /\ UNCHANGED <<day, edited>>
  BY <1>2 DEF CheckOut, SetRoomStatus
<1>9. /\ log' \in [Reservations -> {"none", "open", "closed"}] /\ log'[v] = "closed"
      /\ \A x \in Reservations \ {v} : log'[x] = log[x]
      /\ status' \in [Rooms -> RoomStatus] /\ status'[r] = "maintenance"
      /\ \A y \in Rooms \ {r} : status'[y] = status[y]
  BY <1>3, <1>8 DEF TypeOK, RoomStatus
<1>10. /\ task' \in [TaskIds -> TaskRows]
       /\ \A k \in TaskIds : \/ task'[k] = task[k]
                             \/ /\ task'[k].room = r /\ task'[k].status # "none"
                                /\ task[k].room \in {r, NoRoom}
  BY <1>3, <1>8 DEF TypeOK, TaskRows, TaskIds, NoTask
<1>11. RoomOK(r)'
  <2>1. r \notin edited => Guests(stay, r) = {v}
    BY <1>3 DEF IInv, RoomOK, Guests
  <2>2. Guests(stay', r) = Guests(stay, r) \ {v}
    BY <1>3, <1>5, <1>6 DEF Guests
  <2> QED
    BY <1>8, <1>9, <2>1, <2>2 DEF RoomOK
<1>12. row.in < row.out
  BY <1>3, <1>5
<1> QED
  BY <1>2, <1>3, <1>5, <1>6, <1>7, <1>8, <1>9, <1>10, <1>11, <1>12, StayWritten

(* A commit that writes no reservation.                                    *)
LEMMA RoomWritten ==
  ASSUME IInv, NEW w \in Workers, NEW r \in Rooms, tx[w].room = r, RoomFree(w), End(w),
         UNCHANGED <<day, stay, log>>,
         status' \in [Rooms -> RoomStatus],
         \A y \in Rooms \ {r} : status'[y] = status[y],
         task' \in [TaskIds -> TaskRows],
         \A k \in TaskIds : \/ task'[k] = task[k]
                            \/ /\ task'[k].room = r /\ task'[k].status # "none"
                               /\ task[k].room \in {r, NoRoom},
         edited' \in {edited, edited \union {r}},
         RoomOK(r)'
  PROVE  IInv'
<1>1. OnlyRoom(r)
  BY DEF OnlyRoom
<1>2. (\A v \in Reservations : StayOK(v)') /\ NoOverlap'
  BY DEF IInv, StayOK, NoOverlap, Live, Overlaps
<1>3. /\ stay' \in [Reservations -> StayRows]
      /\ log' \in [Reservations -> {"none", "open", "closed"}]
  BY DEF IInv, TypeOK
<1> QED
  BY <1>1, <1>2, <1>3, CommitIInv

LEMMA CreateTaskIInv ==
  ASSUME IInv, NEW w \in Workers, CreateTask(w)
  PROVE  IInv'
<1>1. HoldsRoom(tx[w])
  BY DEF CreateTask, HoldsRoom
<1>2. PICK r \in Rooms : r = tx[w].room
  BY <1>1, Holder
<1>3. /\ TypeOK /\ RoomFree(w) /\ tx[w].saw = status[r] /\ RoomOK(r)
  BY <1>1, <1>2, Holder DEF ReadsFresh, IInv
<1>4. PICK k \in StaffTasks :
        /\ task[k] = NoTask
        /\ task' = [task EXCEPT ![k] = [status |-> "open", room |-> r]]
  BY <1>2 DEF CreateTask
<1>5. /\ task' \in [TaskIds -> TaskRows]
      /\ \A j \in TaskIds : \/ task'[j] = task[j]
                            \/ /\ task'[j].room = r /\ task'[j].status # "none"
                               /\ task[j].room \in {r, NoRoom}
  BY <1>3, <1>4 DEF TypeOK, TaskRows, TaskIds, NoTask
<1>6. status' = IF status[r] = "occupied" THEN status
                ELSE [status EXCEPT ![r] = "maintenance"]
  BY <1>2, <1>3 DEF CreateTask, SetRoomStatus
<1>7. /\ status' \in [Rooms -> RoomStatus] /\ \A y \in Rooms \ {r} : status'[y] = status[y]
      /\ status'[r] \in {"occupied", "maintenance"}
      /\ status'[r] = "occupied" <=> status[r] = "occupied"
  BY <1>3, <1>6 DEF TypeOK, RoomStatus
<1>8. End(w) /\ UNCHANGED <<day, stay, log, edited>>
  BY DEF CreateTask
<1>9. RoomOK(r)'
  BY <1>3, <1>7, <1>8 DEF RoomOK
<1> QED
  BY <1>2, <1>3, <1>5, <1>7, <1>8, <1>9, RoomWritten

LEMMA CompleteTaskIInv ==
  ASSUME IInv, NEW w \in Workers, CompleteTask(w)
  PROVE  IInv'
<1>1. HoldsRoom(tx[w])
  BY DEF CompleteTask, HoldsRoom
<1>2. PICK r \in Rooms : r = tx[w].room
  BY <1>1, Holder
<1>3. /\ TypeOK /\ RoomFree(w) /\ RoomOK(r) /\ tx[w].today <= day /\ tx[w].today \in Days
      /\ tx[w].ref \in TaskIds /\ task[tx[w].ref].room = r
  BY <1>1, <1>2, Holder DEF IInv, RequestShape, Requests, CompleteTask
<1>4. PICK k \in TaskIds : k = tx[w].ref
  BY <1>3
<1>5. /\ task' = [task EXCEPT ![k].status = "completed"]
      /\ End(w) /\ UNCHANGED <<day, stay, log, edited>>
  BY <1>4 DEF CompleteTask
<1>6. /\ task' \in [TaskIds -> TaskRows]
      /\ \A j \in TaskIds : \/ task'[j] = task[j]
                            \/ /\ task'[j].room = r /\ task'[j].status = "completed"
                               /\ task[j].room \in {r, NoRoom}
  BY <1>3, <1>4, <1>5 DEF TypeOK, TaskRows
<1>7. OpenTasks(task', r) \subseteq OpenTasks(task, r)
  BY <1>6 DEF OpenTasks
<1> DEFINE s == SyncedStatus("available", r, stay, tx[w].today)
<1>8. /\ s \in RoomStatus
      /\ s = "occupied" <=> Guests(stay, r) # {}
      /\ s = "available" => Upcoming(stay, r, tx[w].today) = {}
  BY DEF SyncedStatus, RoomStatus
<1>9. \/ UNCHANGED status
      \/ OpenTasks(task', r) = {} /\ status' = [status EXCEPT ![r] = s]
  BY <1>2 DEF CompleteTask, SetRoomStatus
<1> HIDE DEF s
<1>10. status' \in [Rooms -> RoomStatus] /\ \A y \in Rooms \ {r} : status'[y] = status[y]
  BY <1>3, <1>8, <1>9 DEF TypeOK
<1>11. Upcoming(stay, r, day) \subseteq Upcoming(stay, r, tx[w].today)
  BY <1>3 DEF Upcoming, StayRows, TypeOK, Days
<1>12. RoomOK(r)'
  <2>1. CASE UNCHANGED status
    BY <1>3, <1>5, <1>7, <2>1 DEF RoomOK
  <2>2. CASE OpenTasks(task', r) = {} /\ status' = [status EXCEPT ![r] = s]
    <3>1. status'[r] = s
      BY <1>3, <2>2 DEF TypeOK
    <3> QED
      BY <1>3, <1>5, <1>8, <1>11, <2>2, <3>1 DEF RoomOK
  <2> QED
    BY <1>9, <2>1, <2>2
<1>13. \A j \in TaskIds : \/ task'[j] = task[j]
                          \/ /\ task'[j].room = r /\ task'[j].status # "none"
                             /\ task[j].room \in {r, NoRoom}
  BY <1>6
<1>14. edited' = edited
  BY <1>5
<1> QED
  BY <1>2, <1>3, <1>5, <1>6, <1>10, <1>12, <1>13, <1>14, RoomWritten

LEMMA EditRoomIInv ==
  ASSUME IInv, NEW w \in Workers, EditRoom(w)
  PROVE  IInv'
<1>1. TypeOK /\ RequestShape(tx[w]) /\ tx[w].op = "edit" /\ RoomFree(w)
  BY DEF EditRoom, IInv, RequestOK
<1>2. tx[w].room \in Rooms /\ tx[w].to \in RoomStatus
  BY <1>1 DEF RequestShape
<1>3. PICK r \in Rooms, s \in RoomStatus : r = tx[w].room /\ s = tx[w].to
  BY <1>2
<1>4. /\ s \in {"available", "reserved"} => OpenTasks(task, r) = {}
      /\ status' = [status EXCEPT ![r] = s] /\ edited' = edited \union {r}
      /\ End(w) /\ UNCHANGED <<day, stay, log, task>>
  BY <1>3 DEF EditRoom, SetRoomStatus
<1>5. /\ status' \in [Rooms -> RoomStatus] /\ status'[r] = s
      /\ \A y \in Rooms \ {r} : status'[y] = status[y]
      /\ task' \in [TaskIds -> TaskRows]
  BY <1>1, <1>4 DEF TypeOK
<1>6. RoomOK(r)'
  BY <1>4, <1>5 DEF RoomOK
<1> QED
  BY <1>1, <1>3, <1>4, <1>5, <1>6, RoomWritten

LEMMA MidnightIInv ==
  ASSUME IInv, Midnight
  PROVE  IInv'
<1>1. TypeOK /\ day \in Days /\ day' = day + 1 /\ day' \in Days
      /\ UNCHANGED <<stay, status, log, task, tx, edited>>
  BY DaysAssumption DEF Midnight, IInv, TypeOK, Days
<1>2. TypeOK'
  BY <1>1 DEF TypeOK
<1>3. ASSUME NEW x \in Workers PROVE RequestOK(tx[x])'
  <2>1. RequestOK(tx[x]) /\ tx[x] \in Requests
    BY <1>1 DEF IInv, TypeOK
  <2>2. tx[x].today <= day'
    BY <1>1, <2>1 DEF RequestOK, RequestShape, Requests, Days
  <2> QED
    BY <1>1, <2>1, <2>2 DEF RequestOK, RequestShape, ReadsFresh, CheckConclusive,
       ExclusionHolds, HasOverlap, Live, Overlaps, HoldsRoom, HoldsStay
<1>4. ASSUME NEW r \in Rooms PROVE RoomOK(r)'
  <2>1. Upcoming(stay, r, day') \subseteq Upcoming(stay, r, day)
    BY <1>1 DEF Upcoming, TypeOK, StayRows, Days
  <2>2. RoomOK(r)
    BY DEF IInv
  <2> QED
    BY <1>1, <2>1, <2>2 DEF RoomOK, OpenTasks, Guests
<1>5. LocksExclusive' /\ NoOverlap' /\ (\A v \in Reservations : StayOK(v)')
      /\ \A k \in TaskIds : task'[k].status # "none" => task'[k].room \in Rooms
  BY <1>1 DEF IInv, LocksExclusive, NoOverlap, StayOK, Live, Overlaps
<1> QED
  BY <1>2, <1>3, <1>4, <1>5 DEF IInv

LEMMA NextIInv == IInv /\ [Next]_vars => IInv'
<1> SUFFICES ASSUME IInv, [Next]_vars PROVE IInv'
  OBVIOUS
<1>1. CASE UNCHANGED vars
  BY <1>1 DEF vars, IInv, TypeOK, RequestOK, RequestShape, ReadsFresh, CheckConclusive,
     ExclusionHolds, HasOverlap, Live, Overlaps, HoldsRoom, HoldsStay, LocksExclusive,
     NoOverlap, StayOK, RoomOK, OpenTasks, Guests, Upcoming
<1>2. CASE Midnight
  BY <1>2, MidnightIInv
<1>3. ASSUME NEW w \in Workers, Commit(w) PROVE IInv'
  BY <1>3, CreateStayIInv, UpdateStayIInv, CancelStayIInv, CheckInIInv, CheckOutIInv,
     CreateTaskIInv, CompleteTaskIInv, EditRoomIInv DEF Commit
<1>4. ASSUME NEW w \in Workers, Step(w) PROVE IInv'
  BY <1>3, <1>4, BeginIInv, LockIInv, CheckIInv, RollbackIInv DEF Step
<1> QED
  BY <1>1, <1>2, <1>4 DEF Next

-----------------------------------------------------------------------------
(* The theorems.                                                           *)

(* In every reachable state the whole inductive invariant holds: the types, *)
(* what each request carries and has read, the row locks, and the tables.  *)
THEOREM Invariant == Spec => []IInv
<1>1. Init => IInv
  BY InitIInv
<1>2. IInv /\ [Next]_vars => IInv'
  BY NextIInv
<1> QED
  BY <1>1, <1>2, PTL DEF Spec

(* Every variable always has its type.                                     *)
THEOREM TypeCorrect == Spec => []TypeOK
<1>1. IInv => TypeOK
  BY DEF IInv
<1> QED
  BY <1>1, Invariant, PTL

(* No two stays that have not been cancelled share a night of a room.      *)
THEOREM NightsUnique == Spec => []NoSharedNight
<1>1. IInv => NoSharedNight
  BY DEF IInv, TypeOK, StayRows, Days, NoOverlap, NoSharedNight, Overlaps, Live
<1> QED
  BY <1>1, Invariant, PTL

(* A check made under the room lock is still conclusive when the row is     *)
(* written: the exclusion constraint never rejects a request.              *)
THEOREM LockMakesCheckConclusive == Spec => []ExclusionNeverFires
<1>1. IInv => ExclusionNeverFires
  BY DEF IInv, RequestOK, CheckConclusive, ExclusionNeverFires
<1> QED
  BY <1>1, Invariant, PTL

(* A room shown available or reserved never has an unfinished task.        *)
THEOREM ReadyRooms == Spec => []ReadyRoomHasNoOpenTask
<1>1. IInv => ReadyRoomHasNoOpenTask
  BY DEF IInv, RoomOK, ReadyRoomHasNoOpenTask
<1> QED
  BY <1>1, Invariant, PTL

(* A room nobody edited is occupied exactly while its one guest is in it.  *)
THEOREM OneGuest == Spec => []OccupiedMeansOneGuest
<1>1. IInv => OccupiedMeansOneGuest
  BY DEF IInv, RoomOK, OccupiedMeansOneGuest
<1> QED
  BY <1>1, Invariant, PTL

(* A room nobody edited is available only if no confirmed stay has nights   *)
(* ahead in it.                                                            *)
THEOREM AvailableRooms == Spec => []AvailableMeansFree
<1>1. IInv => AvailableMeansFree
  BY DEF IInv, RoomOK, AvailableMeansFree
<1> QED
  BY <1>1, Invariant, PTL

LEMMA CheckInClean ==
  ASSUME IInv, NEW w \in Workers, CheckIn(w)
  PROVE  ArrivalIsClean
<1>1. HoldsStay(tx[w])
  BY DEF CheckIn, HoldsStay, StayOps
<1>2. PICK r \in Rooms, v \in Reservations : r = tx[w].room /\ v = tx[w].ref
  BY <1>1, StayHolder
<1>3. TypeOK /\ RoomOK(r) /\ stay[v].room = r /\ status[r] \notin {"maintenance", "occupied"}
  BY <1>1, <1>2, StayHolder DEF CheckIn, IInv
<1>4. OpenTasks(task, r) = {}
  BY <1>3 DEF RoomOK, TypeOK, RoomStatus
<1>5. \A x \in Reservations \ {v} : stay'[x] = stay[x]
  BY <1>2, <1>3 DEF CheckIn, TypeOK
<1> QED
  BY <1>3, <1>4, <1>5 DEF ArrivalIsClean

(* No step checks a guest into a room with an unfinished task.             *)
THEOREM CleanArrivals == Spec => NoArrivalBeforeCleaning
<1>1. IInv /\ [Next]_vars => [ArrivalIsClean]_vars
  <2> SUFFICES ASSUME IInv, Next PROVE ArrivalIsClean
    OBVIOUS
  <2>1. CASE UNCHANGED stay
    BY <2>1 DEF ArrivalIsClean
  <2>2. ASSUME NEW w \in Workers, CreateStay(w) PROVE ArrivalIsClean
    <3>1. \A v \in Reservations : stay'[v] = stay[v] \/ stay'[v].status = "confirmed"
      BY <2>2 DEF CreateStay, IInv, TypeOK
    <3> QED
      BY <3>1 DEF ArrivalIsClean
  <2>3. ASSUME NEW w \in Workers, CancelStay(w) PROVE ArrivalIsClean
    <3>1. \A v \in Reservations : stay'[v] = stay[v] \/ stay'[v].status = "cancelled"
      BY <2>3 DEF CancelStay, IInv, TypeOK, StayRows
    <3> QED
      BY <3>1 DEF ArrivalIsClean
  <2>4. ASSUME NEW w \in Workers, CheckOut(w) PROVE ArrivalIsClean
    <3>1. \A v \in Reservations : stay'[v] = stay[v] \/ stay'[v].status = "checked_out"
      BY <2>4 DEF CheckOut, IInv, TypeOK, StayRows
    <3> QED
      BY <3>1 DEF ArrivalIsClean
  <2>5. ASSUME NEW w \in Workers, UpdateStay(w) PROVE ArrivalIsClean
    <3>1. HoldsRoom(tx[w]) /\ HoldsStay(tx[w])
      BY <2>5 DEF UpdateStay, HoldsRoom, HoldsStay, StayOps
    <3>2. tx[w].to = stay[tx[w].ref].status \/ tx[w].to = "cancelled"
      BY <2>5, <3>1, Holder DEF UpdateStay, CheckConclusive, ReadsFresh
    <3>3. \A v \in Reservations : stay'[v].status \in {stay[v].status, "cancelled"}
      BY <2>5, <3>2 DEF UpdateStay, IInv, TypeOK, StayRows
    <3> QED
      BY <3>3 DEF ArrivalIsClean
  <2>6. ASSUME NEW w \in Workers, Step(w) PROVE ArrivalIsClean
    BY <2>1, <2>2, <2>3, <2>4, <2>5, <2>6, CheckInClean
       DEF Step, Commit, Begin, LockRoom, LockStay, CheckBook, CheckUpdate, CreateTask,
           CompleteTask, EditRoom, Rollback
  <2> QED
    BY <2>1, <2>6 DEF Next, Midnight
<1> QED
  BY <1>1, Invariant, PTL DEF Spec, NoArrivalBeforeCleaning

-----------------------------------------------------------------------------
(* The table reservation implements the ledger.                            *)

LEMMA NightsFree ==
  ASSUME TypeOK, NEW r, NEW v \in Reservations, NEW i \in Days, NEW o \in Days,
         ~HasOverlap(r, i, o, v)
  PROVE  Ledger!Nights(i, o) \intersect Ledger!Taken(r, v) = {}
<1> SUFFICES ASSUME NEW n \in i .. o - 1, NEW x \in Reservations \ {v},
                    stay[x].room = r, Live(x), n \in stay[x].in .. stay[x].out - 1
             PROVE  FALSE
  BY DEF Ledger!Nights, Ledger!Taken, Live
<1>1. stay[x].in \in Int /\ stay[x].out \in Int /\ i \in Int /\ o \in Int
  BY DEF TypeOK, StayRows, Days
<1>2. Overlaps(x, i, o)
  BY <1>1 DEF Overlaps
<1> QED
  BY <1>2 DEF HasOverlap

LEMMA CreateMaps ==
  ASSUME IInv, NEW w \in Workers, CreateStay(w)
  PROVE  Ledger!LedgerNext
<1>1. /\ TypeOK /\ tx[w] \in Requests /\ tx[w].room \in Rooms /\ tx[w].in < tx[w].out
  BY Holder DEF CreateStay, CheckConclusive, HoldsRoom
<1>2. PICK v \in Reservations :
        /\ stay[v].status = "none"
        /\ ~HasOverlap(tx[w].room, tx[w].in, tx[w].out, v)
        /\ stay' = [stay EXCEPT ![v] = [status |-> "confirmed", room |-> tx[w].room,
                                        in |-> tx[w].in, out |-> tx[w].out]]
  BY DEF CreateStay, ExclusionHolds
<1>3. stay[v] = Ledger!Blank
  BY <1>2 DEF IInv, StayOK, NoStay, Ledger!Blank
<1>4. tx[w].in \in 0 .. MaxDay /\ tx[w].out \in 0 .. MaxDay
  BY <1>1 DEF Requests, Days
<1>5. Ledger!Promise(v, tx[w].room, tx[w].in, tx[w].out)
  BY <1>1, <1>2, <1>3, <1>4, NightsFree DEF Ledger!Promise, Days
<1> QED
  BY <1>1, <1>4, <1>5 DEF Ledger!LedgerNext

LEMMA UpdateMaps ==
  ASSUME IInv, NEW w \in Workers, UpdateStay(w)
  PROVE  Ledger!LedgerNext
<1> DEFINE v == tx[w].ref
           i == tx[w].in
           o == tx[w].out
<1>1. HoldsRoom(tx[w]) /\ HoldsStay(tx[w])
  BY DEF UpdateStay, HoldsRoom, HoldsStay, StayOps
<1>2. /\ TypeOK /\ tx[w] \in Requests /\ v \in Reservations /\ stay[v].room = tx[w].room
      /\ i < o
      /\ \/ tx[w].to = stay[v].status /\ tx[w].to \in {"confirmed", "checked_in"}
         \/ tx[w].to = "cancelled" /\ stay[v].status = "confirmed"
  BY <1>1, Holder DEF UpdateStay, CheckConclusive, RequestShape, ReadsFresh, StayOps
<1>3. i \in 0 .. MaxDay /\ o \in 0 .. MaxDay
  BY <1>2 DEF Requests, Days
<1>4. stay \in [Reservations -> StayRows] /\ stay[v] \in StayRows
  BY <1>2 DEF TypeOK
<1>5. CASE tx[w].to = stay[v].status /\ tx[w].to \in {"confirmed", "checked_in"}
  <2>1. stay' = [stay EXCEPT ![v].in = i, ![v].out = o]
    BY <1>2, <1>4, <1>5 DEF UpdateStay, StayRows
  <2>2. ~HasOverlap(stay[v].room, i, o, v)
    BY <1>2, <1>5 DEF UpdateStay, ExclusionHolds
  <2>3. Ledger!Nights(i, o) \intersect Ledger!Taken(stay[v].room, v) = {}
    BY <1>2, <1>3, <2>2, NightsFree DEF Days
  <2>4. Ledger!Move(v, i, o)
    BY <1>2, <1>5, <2>1, <2>3 DEF Ledger!Move
  <2> QED
    BY <1>2, <1>3, <2>4 DEF Ledger!LedgerNext
<1>6. CASE tx[w].to = "cancelled" /\ stay[v].status = "confirmed"
  <2>1. stay' = [stay EXCEPT ![v].status = "cancelled", ![v].in = i, ![v].out = o]
    BY <1>2, <1>4, <1>6 DEF UpdateStay, StayRows
  <2>2. Ledger!Drop(v, i, o)
    BY <1>2, <1>6, <2>1 DEF Ledger!Drop
  <2> QED
    BY <1>2, <1>3, <2>2 DEF Ledger!LedgerNext
<1> QED
  BY <1>2, <1>5, <1>6

LEMMA StayMaps ==
  ASSUME IInv, NEW w \in Workers, CancelStay(w) \/ CheckIn(w) \/ CheckOut(w)
  PROVE  Ledger!LedgerNext
<1> DEFINE v == tx[w].ref
<1>1. HoldsStay(tx[w])
  BY DEF CancelStay, CheckIn, CheckOut, HoldsStay, StayOps
<1>2. /\ v \in Reservations /\ stay[v] \in StayRows /\ stay \in [Reservations -> StayRows]
      /\ stay[v].in < stay[v].out /\ tx[w].was = stay[v].status
  BY <1>1, StayHolder DEF TypeOK
<1>3. stay[v].in \in 0 .. MaxDay /\ stay[v].out \in 0 .. MaxDay
  BY <1>2 DEF StayRows, Days
<1>4. CASE CancelStay(w)
  <2>1. stay' = [stay EXCEPT ![v].status = "cancelled",
                            ![v].in = stay[v].in, ![v].out = stay[v].out]
    BY <1>2, <1>4 DEF CancelStay, StayRows
  <2>2. Ledger!Drop(v, stay[v].in, stay[v].out)
    BY <1>2, <1>4, <2>1 DEF Ledger!Drop, CancelStay
  <2> QED
    BY <1>2, <1>3, <2>2 DEF Ledger!LedgerNext
<1>5. CASE CheckIn(w)
  BY <1>2, <1>5 DEF CheckIn, Ledger!Arrive, Ledger!LedgerNext
<1>6. CASE CheckOut(w)
  BY <1>2, <1>6 DEF CheckOut, Ledger!Depart, Ledger!LedgerNext
<1> QED
  BY <1>4, <1>5, <1>6

(* Concurrent requests change the reservations as a book in which every     *)
(* change happens at once, and never promise a night twice.                *)
THEOREM Refinement == Spec => ImplementsLedger
<1>1. Init => Ledger!LedgerInit
  BY DEF Init, NoStay, Ledger!LedgerInit, Ledger!Blank
<1>2. IInv /\ [Next]_vars => [Ledger!LedgerNext]_stay
  <2> SUFFICES ASSUME IInv, Next PROVE [Ledger!LedgerNext]_stay
    BY DEF vars
  <2>1. ASSUME NEW w \in Workers, Step(w) PROVE [Ledger!LedgerNext]_stay
    BY <2>1, CreateMaps, UpdateMaps, StayMaps
       DEF Step, Commit, Begin, LockRoom, LockStay, CheckBook, CheckUpdate, CreateTask,
           CompleteTask, EditRoom, Rollback
  <2> QED
    BY <2>1 DEF Next, Midnight
<1> QED
  BY <1>1, <1>2, Invariant, PTL DEF Spec, ImplementsLedger, Ledger!LedgerSpec

=============================================================================
