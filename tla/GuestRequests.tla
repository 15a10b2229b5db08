--------------------------- MODULE GuestRequests ---------------------------
(***************************************************************************)
(* A guest asks for other dates or for a cancellation; the hotel reviews   *)
(* the request while the desk, the portal and the online payments work on  *)
(* the same stays.                                                         *)
(*                                                                         *)
(* review takes the locks of room, reservation and request and then reads  *)
(* what it decides on; it is split at each lock, after its checks and at   *)
(* its COMMIT.  What takes those same locks and holds them to its end is   *)
(* one step here, possible while the locks are free (module Stays shows    *)
(* that such requests implement atomic ones); the expiry of a checkout and *)
(* the beginning of a refund take no lock of the reservation.              *)
(*                                                                         *)
(* Left out: the notice before the arrival and the passing of days (a      *)
(* request that comes too late is refused), texts, the online amounts.     *)
(***************************************************************************)
EXTENDS Integers

CONSTANTS
  Reviewers,  \* employees, each with one review at a time
  Stays,      \* reservations of one room
  Asks,       \* ids of reservation_request
  LastNight,  \* nights are 0 .. LastNight - 1
  MaxPrice,   \* bound on a price, in units of one payment
  None

NightAssumption == LastNight \in Nat \ {0}
PriceAssumption == MaxPrice \in Nat

VARIABLES
  stay,      \* reservation and the payments collected for it
  room,      \* room.status
  online,    \* the reservation's online_payment, and whether it was booked
  ask,       \* reservation_request
  answered,  \* requests whose mail is in the outbox
  review     \* each reviewer's transaction

vars == <<stay, room, online, ask, answered, review>>

Days == 0 .. LastNight
StayRows == [status : {"free", "confirmed", "checked_in", "cancelled"}, in : Days, out : Days,
             price : 0 .. MaxPrice, paid : 0 .. MaxPrice]
Charges == [status : {"none", "pending", "paid", "expired", "refund_pending", "refunded"},
            booked : BOOLEAN]
AskRows == [stay : Stays, kind : {"dates", "cancel"}, in : Days, out : Days,
            status : {"pending", "approved", "rejected"}]
NoneAssumption == None \notin Asks \union AskRows
Free == [status |-> "free", in |-> 0, out |-> 0, price |-> 0, paid |-> 0]
Idle == [step |-> "idle", id |-> None, decision |-> "rejected", price |-> 0]

Guests(rows) == {v \in Stays : rows[v].status = "checked_in"}
Upcoming(rows) == {v \in Stays : rows[v].status = "confirmed"}

(* Room.syncReservationStatus, with every night ahead. *)
Synced(rows) ==
  IF room = "maintenance" THEN "maintenance"
  ELSE IF Guests(rows) # {} THEN "occupied"
  ELSE IF Upcoming(rows) # {} THEN "reserved" ELSE "available"

TypeOK ==
  /\ stay \in [Stays -> StayRows]
  /\ room \in {"available", "reserved", "occupied", "maintenance"}
  /\ online \in [Stays -> Charges]
  /\ ask \in [Asks -> AskRows \union {None}]
  /\ answered = {q \in Asks : ask[q] # None /\ ask[q].status # "pending"}
  /\ review \in [Reviewers -> [step : {"idle", "begun", "room", "stay", "checked"},
                               id : Asks \union {None}, decision : {"approved", "rejected"},
                               price : 0 .. MaxPrice]]

Init ==
  /\ stay = [v \in Stays |-> Free]
  /\ room = "available"
  /\ online = [v \in Stays |-> [status |-> "none", booked |-> FALSE]]
  /\ ask = [q \in Asks |-> None]
  /\ answered = {}
  /\ review = [w \in Reviewers |-> Idle]

-----------------------------------------------------------------------------
(* Locks.                                                                  *)

StayOf(w) == ask[review[w].id].stay
RoomFree == \A x \in Reviewers : review[x].step \in {"idle", "begun"}

StayFree(v) == \A x \in Reviewers :
  review[x].step \in {"stay", "checked"} => StayOf(x) # v

HasOverlap(i, o, except) == \E v \in Stays \ {except} :
  stay[v].status \in {"confirmed", "checked_in"} /\ stay[v].in < o /\ stay[v].out > i

-----------------------------------------------------------------------------
(* reservationRequestService.create.  The index reservation_request_pending *)
(* refuses a second pending request of the reservation.                    *)

Create(v, q) ==
  /\ ask[q] = None
  /\ StayFree(v) /\ stay[v].status = "confirmed"
  /\ \A p \in Asks : ask[p] # None => ~(ask[p].stay = v /\ ask[p].status = "pending")
  /\ \E k \in {"dates", "cancel"}, i \in Days, o \in Days :
       /\ k = "dates" => i < o
       /\ k = "cancel" => i = 0 /\ o = 0
       /\ ask' = [ask EXCEPT ![q] = [stay |-> v, kind |-> k, in |-> i, out |-> o,
                                     status |-> "pending"]]
  /\ UNCHANGED <<stay, room, online, answered, review>>

-----------------------------------------------------------------------------
(* reservationRequestService.review.                                       *)

Step(w, step) == review' = [review EXCEPT ![w].step = step]

Begin(w) ==
  /\ review[w] = Idle
  /\ \E q \in Asks, d \in {"approved", "rejected"}, p \in 0 .. MaxPrice :
       /\ ask[q] # None
       /\ p # 0 => d = "approved" /\ ask[q].kind = "dates"
       /\ review' = [review EXCEPT ![w] = [step |-> "begun", id |-> q, decision |-> d,
                                           price |-> p]]
  /\ UNCHANGED <<stay, room, online, ask, answered>>

LockRoom(w) ==
  /\ review[w].step = "begun" /\ RoomFree
  /\ Step(w, "room")
  /\ UNCHANGED <<stay, room, online, ask, answered>>

LockStay(w) ==
  /\ review[w].step = "room" /\ StayFree(StayOf(w))
  /\ Step(w, "stay")
  /\ UNCHANGED <<stay, room, online, ask, answered>>

(* Mutant: the nights are not looked for again. *)
DatesAnyRoom(w) == review[w].price >= stay[StayOf(w)].paid

StillPending(w) == ask[review[w].id].status = "pending"
Approvable(w) ==
  /\ stay[StayOf(w)].status = "confirmed"
  /\ online[StayOf(w)].status \notin {"pending", "refund_pending"}
DatesFit(w) ==
  /\ room # "maintenance"
  /\ ~HasOverlap(ask[review[w].id].in, ask[review[w].id].out, StayOf(w))
  /\ review[w].price >= stay[StayOf(w)].paid

Examine(w) ==
  /\ review[w].step = "stay"
  /\ StillPending(w)
  /\ review[w].decision = "approved" =>
       Approvable(w) /\ (ask[review[w].id].kind = "dates" => DatesFit(w))
  /\ Step(w, "checked")
  /\ UNCHANGED <<stay, room, online, ask, answered>>

Approve(w) ==
  LET q == ask[review[w].id]  v == q.stay
      moved == [stay[v] EXCEPT !.in = q.in, !.out = q.out, !.price = review[w].price]
      rows == [stay EXCEPT ![v] =
                 IF q.kind = "cancel" THEN [@ EXCEPT !.status = "cancelled"] ELSE moved]
  IN stay' = rows /\ room' = Synced(rows)

Commit(w) ==
  /\ review[w].step = "checked"
  /\ IF review[w].decision = "approved" THEN Approve(w) ELSE UNCHANGED <<stay, room>>
  /\ ask' = [ask EXCEPT ![review[w].id].status = review[w].decision]
  /\ answered' = answered \union {review[w].id}
  /\ review' = [review EXCEPT ![w] = Idle]
  /\ UNCHANGED online

Rollback(w) ==
  /\ review[w] # Idle
  /\ review' = [review EXCEPT ![w] = Idle]
  /\ UNCHANGED <<stay, room, online, ask, answered>>

-----------------------------------------------------------------------------
(* The desk.                                                               *)

Book(v) ==
  /\ stay[v].status = "free" /\ RoomFree
  /\ \E i \in Days, o \in Days, p \in 0 .. MaxPrice :
       /\ i < o /\ room # "maintenance" /\ ~HasOverlap(i, o, v)
       /\ stay' = [stay EXCEPT ![v] = [status |-> "confirmed", in |-> i, out |-> o,
                                       price |-> p, paid |-> 0]]
  /\ room' = Synced(stay')
  /\ UNCHANGED <<online, ask, answered, review>>

(* Cancellation and check-in, one guest at a time in the room. *)
Move(v, to) ==
  /\ RoomFree /\ StayFree(v) /\ stay[v].status = "confirmed"
  /\ to = "checked_in" => Guests(stay) = {} /\ room # "maintenance"
  /\ stay' = [stay EXCEPT ![v].status = to]
  /\ room' = Synced(stay')
  /\ UNCHANGED <<online, ask, answered, review>>

Pay(v) ==
  /\ StayFree(v) /\ stay[v].status \in {"confirmed", "checked_in"}
  /\ stay[v].paid < stay[v].price
  /\ stay' = [stay EXCEPT ![v].paid = @ + 1]
  /\ UNCHANGED <<room, online, ask, answered, review>>

(* createTask and the completion of the last task. *)
Maintain ==
  /\ RoomFree
  /\ room' = IF room = "maintenance"
             THEN IF Guests(stay) # {} THEN "occupied"
                  ELSE IF Upcoming(stay) # {} THEN "reserved" ELSE "available"
             ELSE IF room = "occupied" THEN "occupied" ELSE "maintenance"
  /\ UNCHANGED <<stay, online, ask, answered, review>>

-----------------------------------------------------------------------------
(* Online payments of the reservation.                                     *)

Charge(v, status, booked) == online' = [online EXCEPT ![v] = [status |-> status,
                                                              booked |-> booked]]

OpenCheckout(v) ==
  /\ StayFree(v) /\ stay[v].status \in {"confirmed", "checked_in"}
  /\ stay[v].paid < stay[v].price
  /\ online[v].status \in {"none", "expired"}
  /\ Charge(v, "pending", FALSE)
  /\ UNCHANGED <<stay, room, ask, answered, review>>

Settle(v) ==
  /\ StayFree(v) /\ online[v].status \in {"pending", "expired"}
  /\ IF stay[v].status # "cancelled" /\ stay[v].paid < stay[v].price
     THEN stay' = [stay EXCEPT ![v].paid = @ + 1] /\ Charge(v, "paid", TRUE)
     ELSE UNCHANGED stay /\ Charge(v, "refund_pending", FALSE)
  /\ UNCHANGED <<room, ask, answered, review>>

Expire(v) ==
  /\ online[v].status = "pending"
  /\ Charge(v, "expired", FALSE)
  /\ UNCHANGED <<stay, room, ask, answered, review>>

Refund(v) ==
  /\ online[v].status = "paid"
  /\ Charge(v, "refund_pending", online[v].booked)
  /\ UNCHANGED <<stay, room, ask, answered, review>>

FinishRefund(v) ==
  /\ StayFree(v) /\ online[v].status = "refund_pending"
  /\ stay' = IF online[v].booked THEN [stay EXCEPT ![v].paid = @ - 1] ELSE stay
  /\ Charge(v, "refunded", FALSE)
  /\ UNCHANGED <<room, ask, answered, review>>

Next ==
  \/ \E w \in Reviewers :
       Begin(w) \/ LockRoom(w) \/ LockStay(w) \/ Examine(w) \/ Commit(w) \/ Rollback(w)
  \/ \E v \in Stays, q \in Asks : Create(v, q)
  \/ \E v \in Stays :
       \/ Book(v) \/ Move(v, "cancelled") \/ Move(v, "checked_in") \/ Pay(v)
       \/ OpenCheckout(v) \/ Settle(v) \/ Expire(v) \/ Refund(v) \/ FinishRefund(v)
  \/ Maintain

Spec == Init /\ [][Next]_vars

-----------------------------------------------------------------------------
(* Properties.                                                             *)

(* However many reviewers answer a request at once, it is decided once.    *)
OneDecision == \A q \in answered : ask'[q] = ask[q]

(* The price agreed in an approval never falls below what the guest has    *)
(* paid, though payments complete between the form and the approval.       *)
PriceCoversPayments == \A v \in Stays : stay[v].paid <= stay[v].price

(* Approved dates never share a night with another stay of the room.       *)
NightsApart == \A v \in Upcoming(stay) \union Guests(stay) :
  ~HasOverlap(stay[v].in, stay[v].out, v)

(* A guest who has arrived keeps the stay: a request made before the       *)
(* arrival is not applied after it.                                        *)
ArrivedKeepsStay == \A v \in Guests(stay) :
  stay'[v] = [stay[v] EXCEPT !.paid = stay'[v].paid]

(* docs/servicios-huesped.md: "No se aprueba mientras exista un checkout o *)
(* reembolso pendiente."                                                   *)
NoApprovalDuringCharge ==
  [][\A q \in answered' \ answered :
  ask'[q].status = "approved" =>
    online[ask[q].stay].status \notin {"pending", "refund_pending"}]_vars
=============================================================================
