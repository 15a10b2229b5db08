------------------------------ MODULE Billing ------------------------------
(***************************************************************************)
(* Payments at the desk, cash shifts, and the changes of a reservation     *)
(* that depend on what has been paid, under concurrent requests.           *)
(*                                                                         *)
(* A request is one READ COMMITTED transaction of a worker, split where it *)
(* waits for a row lock or uses what it read before: reservation, payment, *)
(* balance check, shift of the employee (trigger hotel_payment_event),     *)
(* write.  Amounts are whole cents.                                        *)
(*                                                                         *)
(* Left out: the room of the reservation (module Stays), payments owned by *)
(* the online gateway (withPayment refuses them), currency, and the        *)
(* status a request requires besides the one it asks for (`complete`,      *)
(* `refund`), which only refuses requests that would change nothing.       *)
(***************************************************************************)
EXTENDS Integers, FiniteSets, TLC

CONSTANTS
  Workers,       \* requests in progress at the same time
  Users,         \* employees who can open a cash shift
  Reservations,
  Payments,      \* ids the payment sequence can hand out
  Shifts,        \* ids the shift sequence can hand out
  MaxTotal,      \* bound on the price of a reservation and on an amount
  None

ASSUME PaymentsAssumption == IsFiniteSet(Payments)
ASSUME TotalAssumption == MaxTotal \in Nat \ {0}
ASSUME NoneAssumption == None \notin Users \union Reservations \union Payments \union Shifts

VARIABLES
  stay,      \* reservation: is it cancelled, and its total_price
  payment,   \* table payment
  shift,     \* table cash_shift, with the movements its closing counted
  movement,  \* table cash_movement
  receipt,   \* table payment_receipt: the amounts printed, by payment
  tx         \* the request each worker is serving

vars == <<stay, payment, shift, movement, receipt, tx>>

Amounts == 0 .. MaxTotal
PaymentStatus == {"none", "pending", "completed", "failed", "refunded"}

StayRows == [status : {"confirmed", "cancelled"}, total : Amounts]
PaymentRows == [status : PaymentStatus, stay : Reservations \union {None}, amount : Amounts]
Movements == [payment : Payments, shift : Shifts, kind : {"payment", "refund"},
              amount : Amounts]
ShiftRows == [state : {"none", "open", "closed"}, user : Users \union {None},
              counted : SUBSET Movements, totals : SUBSET Movements]

StayOps == {"charge", "amend", "status", "price", "cancel"}
PaymentOps == {"amend", "status"}   \* withPayment
Ops == StayOps \union {"close"}

NoPayment == [status |-> "none", stay |-> None, amount |-> 0]
NoShift == [state |-> "none", user |-> None, counted |-> {}, totals |-> {}]

Idle == [op |-> "idle", step |-> "none", user |-> None, stay |-> None,
         payment |-> None, shift |-> None, amount |-> 0, to |-> "none",
         row |-> [status |-> "cancelled", total |-> 0], paid |-> NoPayment,
         totals |-> {}]

Steps == {"none", "begun", "stay", "payment", "checked", "shift", "totals"}

Requests == [op : Ops \union {"idle"}, step : Steps, user : Users \union {None},
             stay : Reservations \union {None}, payment : Payments \union {None},
             shift : Shifts \union {None}, amount : Amounts, to : PaymentStatus,
             row : StayRows, paid : PaymentRows, totals : SUBSET Movements]

TypeOK ==
  /\ stay \in [Reservations -> StayRows]
  /\ payment \in [Payments -> PaymentRows]
  /\ shift \in [Shifts -> ShiftRows]
  /\ movement \subseteq Movements
  /\ receipt \in [Payments -> Amounts]   \* 0: no receipt
  /\ tx \in [Workers -> Requests]

Init ==
  /\ stay = [v \in Reservations |-> [status |-> "confirmed", total |-> MaxTotal]]
  /\ payment = [p \in Payments |-> NoPayment]
  /\ shift = [s \in Shifts |-> NoShift]
  /\ movement = {}
  /\ receipt = [p \in Payments |-> 0]
  /\ tx = [w \in Workers |-> Idle]

-----------------------------------------------------------------------------
(* Row locks, held until the transaction ends.                             *)

HoldsStay(t) == t.op \in StayOps /\ t.step \in {"stay", "payment", "checked", "shift"}
HoldsPayment(t) == t.op \in PaymentOps /\ t.step \in {"payment", "checked", "shift"}
HoldsShift(t) == t.step \in {"shift", "totals"}

(* Mutant: SELECT of the reservation without FOR UPDATE. *)
StayNotLocked(w) == TRUE

StayFree(w) == \A x \in Workers \ {w} : HoldsStay(tx[x]) => tx[x].stay # tx[w].stay
PaymentFree(w) ==
  \A x \in Workers \ {w} : HoldsPayment(tx[x]) => tx[x].payment # tx[w].payment

(* Mutant: SELECT of the shift without FOR UPDATE. *)
ShiftNotLocked(w, s) == TRUE

ShiftFree(w, s) == \A x \in Workers \ {w} : HoldsShift(tx[x]) => tx[x].shift # s

-----------------------------------------------------------------------------
(* Queries.                                                                *)

(* The sum of the completed payments of a reservation, one of them aside,  *)
(* as the number of its cents.                                             *)
Collected(v, except) == {p \in Payments \ {except} :
  payment[p].stay = v /\ payment[p].status = "completed"}

Cents(v, except) == UNION {{p} \X (1 .. payment[p].amount) : p \in Collected(v, except)}

Paid(v, except) == Cardinality(Cents(v, except))

(* assertBalance, on the reservation as it was when its row was locked.    *)
BalanceAllows(t, amount) ==
  /\ t.row.status # "cancelled"
  /\ amount > 0
  /\ Paid(t.stay, t.payment) + amount <= t.row.total

Transitions ==
  [none      |-> {},
   pending   |-> {"pending", "completed", "failed"},
   completed |-> {"completed", "refunded"},
   failed    |-> {"failed", "pending"},
   refunded  |-> {"refunded"}]

MovementsOf(s) == {m \in movement : m.shift = s}

-----------------------------------------------------------------------------
(* First statements of a request.                                          *)

Request(op, u, v, p, s, amount, to) ==
  [op |-> op, step |-> "begun", user |-> u, stay |-> v, payment |-> p, shift |-> s,
   amount |-> amount, to |-> to, row |-> Idle.row, paid |-> NoPayment, totals |-> {}]

BeginStay(w) == \E v \in Reservations, n \in Amounts, op \in StayOps \ PaymentOps :
  /\ op = "cancel" => n = 0
  /\ tx' = [tx EXCEPT ![w] = Request(op, None, v, None, None, n, "none")]

(* withPayment: the snapshot that says which reservation to lock.          *)
BeginPayment(w) == \E p \in Payments, u \in Users :
  /\ payment[p].status # "none"
  /\ \/ \E n \in Amounts :
          tx' = [tx EXCEPT ![w] = Request("amend", u, payment[p].stay, p, None, n, "none")]
     \/ \E to \in PaymentStatus \ {"none"} :
          tx' = [tx EXCEPT ![w] = Request("status", u, payment[p].stay, p, None, 0, to)]

BeginClose(w) == \E s \in Shifts, u \in Users :
  /\ shift[s].state # "none"
  /\ tx' = [tx EXCEPT ![w] = Request("close", u, None, None, s, 0, "none")]

Begin(w) ==
  /\ tx[w] = Idle
  /\ BeginStay(w) \/ BeginPayment(w) \/ BeginClose(w)
  /\ UNCHANGED <<stay, payment, shift, movement, receipt>>

(* openShift: one INSERT; cash_one_open_shift allows one open shift each.  *)
OpenShift(u, s) ==
  /\ shift[s].state = "none"
  /\ \A y \in Shifts : shift[y].user = u => shift[y].state # "open"
  /\ shift' = [shift EXCEPT ![s].state = "open", ![s].user = u]
  /\ UNCHANGED <<stay, payment, movement, receipt, tx>>

-----------------------------------------------------------------------------
(* Locks and checks.                                                       *)

LockStay(w) ==
  /\ tx[w].op \in StayOps /\ tx[w].step = "begun"
  /\ StayFree(w)
  /\ tx' = [tx EXCEPT ![w].step = "stay", ![w].row = stay[tx[w].stay]]
  /\ UNCHANGED <<stay, payment, shift, movement, receipt>>

LockPayment(w) ==
  /\ tx[w].op \in PaymentOps /\ tx[w].step = "stay"
  /\ PaymentFree(w)
  /\ tx' = [tx EXCEPT ![w].step = "payment", ![w].paid = payment[tx[w].payment]]
  /\ UNCHANGED <<stay, payment, shift, movement, receipt>>

CheckCharge(w) ==
  /\ tx[w].op = "charge" /\ tx[w].step = "stay"
  /\ BalanceAllows(tx[w], tx[w].amount)

CheckAmend(w) ==
  /\ tx[w].op = "amend" /\ tx[w].step = "payment"
  /\ tx[w].paid.status = "pending"
  /\ BalanceAllows(tx[w], tx[w].amount)

CheckStatus(w) ==
  /\ tx[w].op = "status" /\ tx[w].step = "payment"
  /\ tx[w].to \in Transitions[tx[w].paid.status] \ {tx[w].paid.status}
  /\ tx[w].to \in {"completed", "pending"} => BalanceAllows(tx[w], tx[w].paid.amount)

(* reservationService.update with a total_price.                           *)
CheckPrice(w) ==
  /\ tx[w].op = "price" /\ tx[w].step = "stay"
  /\ tx[w].row.status # "cancelled"
  /\ tx[w].amount >= Paid(tx[w].stay, None)

CheckCancel(w) ==
  /\ tx[w].op = "cancel" /\ tx[w].step = "stay"
  /\ tx[w].row.status = "confirmed"

Check(w) ==
  /\ CheckCharge(w) \/ CheckAmend(w) \/ CheckStatus(w) \/ CheckPrice(w) \/ CheckCancel(w)
  /\ tx' = [tx EXCEPT ![w].step = "checked"]
  /\ UNCHANGED <<stay, payment, shift, movement, receipt>>

(* The trigger: the employee's open shift, after waiting for whoever holds *)
(* it; with no open shift the payment fails and only Rollback is left.     *)
LockOwnShift(w) == \E s \in Shifts :
  /\ tx[w].op = "status" /\ tx[w].step = "checked"
  /\ tx[w].to \in {"completed", "refunded"}
  /\ shift[s].state = "open" /\ shift[s].user = tx[w].user
  /\ ShiftFree(w, s)
  /\ tx' = [tx EXCEPT ![w].step = "shift", ![w].shift = s]
  /\ UNCHANGED <<stay, payment, shift, movement, receipt>>

(* Mutant: the closing does not wait for a payment that uses the shift. *)
LockShiftAtOnce(w) ==
  /\ tx[w].op = "close" /\ tx[w].step = "begun"
  /\ shift[tx[w].shift].state = "open"
  /\ tx' = [tx EXCEPT ![w].step = "shift"]
  /\ UNCHANGED <<stay, payment, shift, movement, receipt>>

(* closeShift; who may close it besides its owner is left out.             *)
LockShift(w) ==
  /\ tx[w].op = "close" /\ tx[w].step = "begun"
  /\ ShiftFree(w, tx[w].shift)
  /\ shift[tx[w].shift].state = "open"
  /\ tx' = [tx EXCEPT ![w].step = "shift"]
  /\ UNCHANGED <<stay, payment, shift, movement, receipt>>

ShiftTotals(w) ==
  /\ tx[w].op = "close" /\ tx[w].step = "shift"
  /\ tx' = [tx EXCEPT ![w].step = "totals", ![w].totals = MovementsOf(tx[w].shift)]
  /\ UNCHANGED <<stay, payment, shift, movement, receipt>>

-----------------------------------------------------------------------------
(* Writes and COMMIT.  A guard that fails leaves only Rollback.            *)

End(w) == tx' = [tx EXCEPT ![w] = Idle]

CreatePayment(w) == \E p \in Payments :
  /\ tx[w].op = "charge" /\ tx[w].step = "checked"
  /\ payment[p] = NoPayment
  /\ payment' = [payment EXCEPT ![p] = [status |-> "pending", stay |-> tx[w].stay,
                                        amount |-> tx[w].amount]]
  /\ End(w)
  /\ UNCHANGED <<stay, shift, movement, receipt>>

(* Payment.update writes back the status it read.                          *)
AmendPayment(w) ==
  /\ tx[w].op = "amend" /\ tx[w].step = "checked"
  /\ payment' = [payment EXCEPT ![tx[w].payment].amount = tx[w].amount,
                                ![tx[w].payment].status = tx[w].paid.status]
  /\ End(w)
  /\ UNCHANGED <<stay, shift, movement, receipt>>

(* pending <-> failed: the trigger records nothing.                        *)
MarkPayment(w) ==
  /\ tx[w].op = "status" /\ tx[w].step = "checked"
  /\ tx[w].to \in {"pending", "failed"}
  /\ payment' = [payment EXCEPT ![tx[w].payment].status = tx[w].to]
  /\ End(w)
  /\ UNCHANGED <<stay, shift, movement, receipt>>

(* Mutant: ON CONFLICT(payment_id), one movement per payment. *)
AddMovementOncePerPayment(p, s, kind) ==
  movement' = IF \E m \in movement : m.payment = p THEN movement
              ELSE movement \union {[payment |-> p, shift |-> s, kind |-> kind,
                                     amount |-> payment[p].amount]}

(* INSERT INTO cash_movement ... ON CONFLICT(payment_id,kind) DO NOTHING.  *)
AddMovement(p, s, kind) ==
  movement' = IF \E m \in movement : m.payment = p /\ m.kind = kind THEN movement
              ELSE movement \union {[payment |-> p, shift |-> s, kind |-> kind,
                                     amount |-> payment[p].amount]}

CompletePayment(w) == LET p == tx[w].payment IN
  /\ tx[w].op = "status" /\ tx[w].step = "shift" /\ tx[w].to = "completed"
  /\ payment' = [payment EXCEPT ![p].status = "completed"]
  /\ AddMovement(p, tx[w].shift, "payment")
  /\ receipt' = [receipt EXCEPT ![p] = IF receipt[p] = 0 THEN payment[p].amount ELSE receipt[p]]
  /\ End(w)
  /\ UNCHANGED <<stay, shift>>

RefundPayment(w) == LET p == tx[w].payment IN
  /\ tx[w].op = "status" /\ tx[w].step = "shift" /\ tx[w].to = "refunded"
  /\ payment' = [payment EXCEPT ![p].status = "refunded"]
  /\ AddMovement(p, tx[w].shift, "refund")
  /\ End(w)
  /\ UNCHANGED <<stay, shift, receipt>>

(* The two sums of closeShift are computed by two statements.              *)
CloseShift(w) == LET s == tx[w].shift IN
  /\ tx[w].op = "close" /\ tx[w].step = "totals"
  /\ shift' = [shift EXCEPT ![s].state = "closed", ![s].counted = MovementsOf(s),
                            ![s].totals = tx[w].totals]
  /\ End(w)
  /\ UNCHANGED <<stay, payment, movement, receipt>>

(* The same UPDATE may cancel a confirmed reservation.                     *)
SetPrice(w) == \E s \in {tx[w].row.status, "cancelled"} :
  /\ tx[w].op = "price" /\ tx[w].step = "checked"
  /\ stay' = [stay EXCEPT ![tx[w].stay] = [status |-> s, total |-> tx[w].amount]]
  /\ End(w)
  /\ UNCHANGED <<payment, shift, movement, receipt>>

CancelStay(w) ==
  /\ tx[w].op = "cancel" /\ tx[w].step = "checked"
  /\ stay' = [stay EXCEPT ![tx[w].stay].status = "cancelled"]
  /\ End(w)
  /\ UNCHANGED <<payment, shift, movement, receipt>>

Rollback(w) ==
  /\ tx[w].op # "idle"
  /\ End(w)
  /\ UNCHANGED <<stay, payment, shift, movement, receipt>>

Commit(w) ==
  \/ CreatePayment(w) \/ AmendPayment(w) \/ MarkPayment(w)
  \/ CompletePayment(w) \/ RefundPayment(w)
  \/ CloseShift(w) \/ SetPrice(w) \/ CancelStay(w)

Step(w) ==
  \/ Begin(w) \/ LockStay(w) \/ LockPayment(w) \/ Check(w)
  \/ LockOwnShift(w) \/ LockShift(w) \/ ShiftTotals(w)
  \/ Commit(w) \/ Rollback(w)

Next ==
  \/ \E u \in Users, s \in Shifts : OpenShift(u, s)
  \/ \E w \in Workers : Step(w)

Spec == Init /\ [][Next]_vars

-----------------------------------------------------------------------------
(* Properties.                                                             *)

(* However payments, price changes and cancellations interleave, what has  *)
(* been collected for a reservation never exceeds its price                *)
(* (paymentService.assertBalance, reservationService.update).              *)
NeverOvercharged == \A v \in Reservations : Paid(v, None) <= stay[v].total

KindsOf(p) == {m.kind : m \in {n \in movement : n.payment = p}}

(* Cash book, receipts and payments tell one story: a payment collected    *)
(* has its movement and receipt for its amount, a refunded one also the    *)
(* opposite movement, each once, and any other payment has none.           *)
BooksMatch ==
  /\ \A p \in Payments :
       /\ KindsOf(p) = CASE payment[p].status = "completed" -> {"payment"}
                          [] payment[p].status = "refunded" -> {"payment", "refund"}
                          [] OTHER -> {}
       /\ receipt[p] = IF KindsOf(p) = {} THEN 0 ELSE payment[p].amount
  /\ \A m \in movement : m.amount = payment[m.payment].amount
  /\ \A m, n \in movement : m.payment = n.payment /\ m.kind = n.kind => m = n

(* A payment completed while the shift is being closed is counted by the   *)
(* closing or refused: the two sums of a closed shift are all its          *)
(* movements, for ever (closeShift against hotel_payment_event).           *)
ClosedShiftComplete == \A s \in Shifts : shift[s].state = "closed" =>
  shift[s].counted = MovementsOf(s) /\ shift[s].totals = MovementsOf(s)

ChargesLiveStay == \A p \in Payments :
  \/ payment[p].status = "none" /\ payment'[p].status # "none"
  \/ payment[p].status # "completed" /\ payment'[p].status = "completed"
  => stay[payment'[p].stay].status # "cancelled"

(* No payment is created for, or completed on, a reservation that a        *)
(* concurrent request has cancelled.                                       *)
NoChargeAfterCancel == [][ChargesLiveStay]_vars

KeepsSettled == \A p \in Payments : payment[p].status \in {"completed", "refunded"} =>
  /\ payment'[p].amount = payment[p].amount
  /\ payment'[p].status \in {payment[p].status, "refunded"}

(* A collected payment can only be refunded: a concurrent edit, which      *)
(* writes the whole row back, never reopens it or changes its amount.      *)
SettledIsFinal == [][KeepsSettled]_vars

-----------------------------------------------------------------------------
(* The inductive invariant.                                                *)

(* What a request carries at each of its steps.                            *)
RequestShape(t) ==
  /\ t.op = "idle" <=> t.step = "none"
  /\ t.op \in StayOps => t.stay \in Reservations /\ t.step # "totals"
  /\ t.op \in StayOps \ PaymentOps => t.step \in {"begun", "stay", "checked"}
  /\ t.op \in PaymentOps => /\ t.payment \in Payments
                            /\ payment[t.payment].status # "none"
                            /\ payment[t.payment].stay = t.stay
  /\ t.op = "close" => t.step \in {"begun", "shift", "totals"} /\ t.shift \in Shifts
  /\ t.op = "amend" => t.step # "shift"
  /\ t.op = "status" /\ t.step = "shift" => t.to \in {"completed", "refunded"}

(* What was read under a lock is still so.                                 *)
ReadsFresh(t) ==
  /\ HoldsStay(t) => t.row = stay[t.stay]
  /\ HoldsPayment(t) => t.paid = payment[t.payment]
  /\ HoldsShift(t) => t.shift \in Shifts /\ shift[t.shift].state = "open"
  /\ t.step = "totals" => t.totals = MovementsOf(t.shift)

(* What Check established, the balance aside, still holds.                 *)
CheckConclusive(t) == t.op \in StayOps /\ t.step \in {"checked", "shift"} =>
  /\ t.op \in {"charge", "amend"} => t.amount > 0 /\ t.row.status # "cancelled"
  /\ t.op = "amend" => t.paid.status = "pending"
  /\ t.op = "status" => /\ t.to \in Transitions[t.paid.status] \ {t.paid.status}
                        /\ t.to = "completed" => t.row.status # "cancelled"

RequestOK(t) == RequestShape(t) /\ ReadsFresh(t) /\ CheckConclusive(t)

(* No two transactions hold the same row.                                  *)
LocksExclusive == \A w, x \in Workers : w # x =>
  /\ HoldsStay(tx[w]) /\ HoldsStay(tx[x]) => tx[w].stay # tx[x].stay
  /\ HoldsPayment(tx[w]) /\ HoldsPayment(tx[x]) => tx[w].payment # tx[x].payment
  /\ HoldsShift(tx[w]) /\ HoldsShift(tx[x]) => tx[w].shift # tx[x].shift

PaymentOK(p) ==
  /\ payment[p].status = "none" => payment[p] = NoPayment
  /\ payment[p].status # "none" => payment[p].stay \in Reservations /\ payment[p].amount > 0

IInv ==
  /\ TypeOK
  /\ \A w \in Workers : RequestOK(tx[w])
  /\ LocksExclusive
  /\ \A p \in Payments : PaymentOK(p)
  /\ \A m \in movement : shift[m.shift].state # "none"
  /\ BooksMatch
  /\ ClosedShiftComplete

(* The balance that Check found stays enough while the reservation is      *)
(* locked: of its payments only the one of this request may change.        *)
BalanceConclusive(t) == t.op \in StayOps /\ t.step \in {"checked", "shift"} =>
  /\ t.op = "price" => Paid(t.stay, None) <= t.amount
  /\ t.op = "status" /\ t.to = "completed" =>
       Paid(t.stay, t.payment) + t.paid.amount <= t.row.total

BalanceInv == IInv /\ NeverOvercharged /\ \A w \in Workers : BalanceConclusive(tx[w])

-----------------------------------------------------------------------------
(* For TLC: either one shift has been opened, or one payment exists and    *)
(* every amount is one.                                                    *)
OneShiftOrOnes ==
  \/ Cardinality({s \in Shifts : shift[s].state # "none"}) <= 1
  \/ /\ \A v \in Reservations : stay[v].total <= 1
     /\ \A p \in Payments : payment[p].amount <= 1
     /\ Cardinality({p \in Payments : payment[p].status # "none"}) <= 1

Symmetry == Permutations(Workers) \union Permutations(Users)
              \union Permutations(Payments) \union Permutations(Shifts)
=============================================================================
