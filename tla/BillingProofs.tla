--------------------------- MODULE BillingProofs ---------------------------
(* Proofs about Billing, for any number of workers, employees,             *)
(* reservations, payments and shifts, and any prices.                      *)
EXTENDS Billing, FiniteSetTheorems, TLAPS

LEMMA Blank ==
  /\ 0 \in Amounts
  /\ Idle \in Requests /\ NoPayment \in PaymentRows /\ NoShift \in ShiftRows
<1>1. 0 \in Amounts
  BY TotalAssumption DEF Amounts
<1>2. NoPayment \in PaymentRows
  BY <1>1 DEF NoPayment, PaymentRows, PaymentStatus
<1>3. NoShift \in ShiftRows
  BY DEF NoShift, ShiftRows
<1>4. Idle \in Requests
  BY <1>1, <1>2 DEF Idle, Requests, Steps, PaymentStatus, StayRows
<1> QED
  BY <1>1, <1>2, <1>3, <1>4

LEMMA IdleOK ==
  /\ \A t : t = Idle => RequestOK(t) /\ RequestOK(t)'
  /\ ~HoldsStay(Idle) /\ ~HoldsPayment(Idle) /\ ~HoldsShift(Idle)
<1>1. Idle.op = "idle" /\ Idle.step = "none"
  BY DEF Idle
<1> HIDE DEF Idle
<1>2. ~HoldsStay(Idle) /\ ~HoldsPayment(Idle) /\ ~HoldsShift(Idle)
  BY <1>1 DEF HoldsStay, HoldsPayment, HoldsShift
<1>3. ASSUME NEW t, t = Idle PROVE RequestOK(t) /\ RequestOK(t)'
  BY <1>1, <1>2, <1>3 DEF RequestOK, RequestShape, ReadsFresh, CheckConclusive,
     StayOps, PaymentOps, HoldsStay, HoldsPayment, HoldsShift
<1> QED
  BY <1>2, <1>3

LEMMA InitIInv == Init => IInv
<1> SUFFICES ASSUME Init PROVE IInv
  OBVIOUS
<1>1. TypeOK
  BY Blank, TotalAssumption DEF Init, TypeOK, StayRows, Amounts
<1>2. \A w \in Workers : tx[w] = Idle
  BY DEF Init
<1>3. LocksExclusive /\ \A w \in Workers : RequestOK(tx[w])
  BY <1>2, IdleOK DEF LocksExclusive
<1>4. \A p \in Payments : PaymentOK(p)
  BY DEF Init, PaymentOK, NoPayment
<1>5. BooksMatch /\ ClosedShiftComplete
  BY DEF Init, BooksMatch, KindsOf, ClosedShiftComplete, NoPayment, NoShift
<1>6. \A m \in movement : shift[m.shift].state # "none"
  BY DEF Init
<1> QED
  BY <1>1, <1>3, <1>4, <1>5, <1>6 DEF IInv

-----------------------------------------------------------------------------
(* What a step leaves of a request that is not its own.                    *)

LEMMA FrameRequest ==
  ASSUME NEW t, RequestOK(t),
         HoldsStay(t) => stay'[t.stay] = stay[t.stay],
         HoldsPayment(t) => payment'[t.payment] = payment[t.payment],
         \A p \in Payments : payment[p].status # "none" =>
           payment'[p].status # "none" /\ payment'[p].stay = payment[p].stay,
         HoldsShift(t) => /\ shift'[t.shift].state = shift[t.shift].state
                          /\ MovementsOf(t.shift)' = MovementsOf(t.shift)
  PROVE  RequestOK(t)'
<1>1. RequestShape(t)'
  BY DEF RequestOK, RequestShape
<1>2. ReadsFresh(t)'
  <2>1. ReadsFresh(t)
    BY DEF RequestOK
  <2>2. t.step = "totals" => HoldsShift(t)
    BY DEF HoldsShift
  <2>3. (t.step = "totals" => t.totals = MovementsOf(t.shift))'
    BY <2>1, <2>2 DEF ReadsFresh
  <2>4. (HoldsStay(t) => t.row = stay[t.stay])'
        /\ (HoldsPayment(t) => t.paid = payment[t.payment])'
        /\ (HoldsShift(t) => t.shift \in Shifts /\ shift[t.shift].state = "open")'
    BY <2>1 DEF ReadsFresh, HoldsStay, HoldsPayment, HoldsShift
  <2> QED
    BY <2>3, <2>4 DEF ReadsFresh
<1>3. CheckConclusive(t)'
  BY DEF RequestOK, CheckConclusive
<1> QED
  BY <1>1, <1>2, <1>3 DEF RequestOK

(* The tables are as before and the new request is in order by itself.     *)
LEMMA OnlyRequest ==
  ASSUME IInv, NEW w \in Workers, NEW q \in Requests,
         tx' = [tx EXCEPT ![w] = q],
         UNCHANGED <<stay, payment, shift, movement, receipt>>,
         RequestOK(q),
         HoldsStay(q) => StayFree(w) /\ q.stay = tx[w].stay,
         HoldsPayment(q) => PaymentFree(w) /\ q.payment = tx[w].payment,
         HoldsShift(q) => ShiftFree(w, q.shift)
  PROVE  IInv'
<1>1. TypeOK'
  BY DEF IInv, TypeOK
<1>2. tx'[w] = q /\ \A x \in Workers \ {w} : tx'[x] = tx[x]
  BY DEF IInv, TypeOK
<1>3. \A t : RequestOK(t) => RequestOK(t)'
  BY FrameRequest DEF MovementsOf
<1>4. \A x \in Workers : RequestOK(tx[x])'
  BY <1>2, <1>3 DEF IInv
<1>5. LocksExclusive'
  BY <1>2 DEF IInv, LocksExclusive, StayFree, PaymentFree, ShiftFree
<1>6. (\A p \in Payments : PaymentOK(p))' /\ BooksMatch' /\ ClosedShiftComplete'
      /\ (\A m \in movement : shift[m.shift].state # "none")'
  BY DEF IInv, PaymentOK, BooksMatch, KindsOf, ClosedShiftComplete, MovementsOf
<1> QED
  BY <1>1, <1>4, <1>5, <1>6 DEF IInv

-----------------------------------------------------------------------------
(* Steps that only change what one request carries.                        *)

LEMMA BeginIInv ==
  ASSUME IInv, NEW w \in Workers, Begin(w)
  PROVE  IInv'
<1>1. TypeOK /\ UNCHANGED <<stay, payment, shift, movement, receipt>>
  BY DEF IInv, Begin
<1>2. ASSUME NEW op \in Ops, NEW u \in Users \union {None}, NEW v \in Reservations \union {None},
             NEW p \in Payments \union {None}, NEW s \in Shifts \union {None},
             NEW n \in Amounts, NEW to \in PaymentStatus,
             tx' = [tx EXCEPT ![w] = Request(op, u, v, p, s, n, to)],
             op \in StayOps => v \in Reservations,
             op \in PaymentOps => /\ p \in Payments
                                  /\ payment[p].status # "none" /\ payment[p].stay = v,
             op = "close" => s \in Shifts
      PROVE  IInv'
  <2> DEFINE q == Request(op, u, v, p, s, n, to)
  <2>1. q = [op |-> op, step |-> "begun", user |-> u, stay |-> v, payment |-> p,
             shift |-> s, amount |-> n, to |-> to,
             row |-> [status |-> "cancelled", total |-> 0], paid |-> NoPayment,
             totals |-> {}]
    BY DEF Request, Idle
  <2>5. tx' = [tx EXCEPT ![w] = q]
    BY <1>2
  <2> HIDE DEF q
  <2>2. q \in Requests
    BY <2>1, Blank DEF Requests, Steps, StayRows
  <2>3. RequestOK(q)
    BY <1>2, <2>1 DEF RequestOK, RequestShape, ReadsFresh, CheckConclusive, HoldsStay,
       HoldsPayment, HoldsShift, Ops, StayOps
  <2>4. ~HoldsStay(q) /\ ~HoldsPayment(q) /\ ~HoldsShift(q)
    BY <2>1 DEF HoldsStay, HoldsPayment, HoldsShift
  <2> QED
    BY <1>1, <2>2, <2>3, <2>4, <2>5, OnlyRequest
<1>3. "none" \in PaymentStatus /\ 0 \in Amounts
  BY Blank DEF PaymentStatus
<1>4. CASE BeginStay(w)
  <2>1. PICK v \in Reservations, n \in Amounts, op \in StayOps \ PaymentOps :
          tx' = [tx EXCEPT ![w] = Request(op, None, v, None, None, n, "none")]
    BY <1>4 DEF BeginStay
  <2>2. op \in Ops /\ op # "close"
    BY DEF Ops, StayOps
  <2> QED
    BY <1>2, <1>3, <2>1, <2>2
<1>5. CASE BeginPayment(w)
  <2>1. PICK p \in Payments, u \in Users :
          /\ payment[p].status # "none"
          /\ \/ \E n \in Amounts :
                  tx' = [tx EXCEPT ![w] = Request("amend", u, payment[p].stay, p, None, n, "none")]
             \/ \E to \in PaymentStatus \ {"none"} :
                  tx' = [tx EXCEPT ![w] = Request("status", u, payment[p].stay, p, None, 0, to)]
    BY <1>5 DEF BeginPayment
  <2>2. payment[p].stay \in Reservations
    BY <2>1 DEF IInv, PaymentOK
  <2>3. {"amend", "status"} \subseteq Ops /\ "close" \notin {"amend", "status"}
    BY DEF Ops, StayOps
  <2>4. CASE \E n \in Amounts :
               tx' = [tx EXCEPT ![w] = Request("amend", u, payment[p].stay, p, None, n, "none")]
    BY <1>2, <1>3, <2>1, <2>2, <2>3, <2>4
  <2>5. CASE \E to \in PaymentStatus \ {"none"} :
               tx' = [tx EXCEPT ![w] = Request("status", u, payment[p].stay, p, None, 0, to)]
    BY <1>2, <1>3, <2>1, <2>2, <2>3, <2>5
  <2> QED
    BY <2>1, <2>4, <2>5
<1>6. CASE BeginClose(w)
  <2>1. PICK s \in Shifts, u \in Users :
          tx' = [tx EXCEPT ![w] = Request("close", u, None, None, s, 0, "none")]
    BY <1>6 DEF BeginClose
  <2>2. "close" \in Ops /\ "close" \notin StayOps /\ "close" \notin PaymentOps
    BY DEF Ops, StayOps, PaymentOps
  <2> QED
    BY <1>2, <1>3, <2>1, <2>2
<1> QED
  BY <1>4, <1>5, <1>6 DEF Begin

(* What is known of the request that takes the step.                       *)
LEMMA Own ==
  ASSUME IInv, NEW w \in Workers
  PROVE  /\ TypeOK /\ tx[w] \in Requests
         /\ RequestShape(tx[w]) /\ ReadsFresh(tx[w]) /\ CheckConclusive(tx[w])
         /\ HoldsStay(tx[w]) => StayFree(w)
         /\ HoldsPayment(tx[w]) => PaymentFree(w)
         /\ HoldsShift(tx[w]) => ShiftFree(w, tx[w].shift)
<1>1. TypeOK /\ tx[w] \in Requests /\ RequestOK(tx[w])
  BY DEF IInv, TypeOK
<1>2. /\ HoldsStay(tx[w]) => StayFree(w)
      /\ HoldsPayment(tx[w]) => PaymentFree(w)
      /\ HoldsShift(tx[w]) => ShiftFree(w, tx[w].shift)
  BY DEF IInv, LocksExclusive, StayFree, PaymentFree, ShiftFree
<1> QED
  BY <1>1, <1>2 DEF RequestOK

LEMMA LockStayIInv ==
  ASSUME IInv, NEW w \in Workers, LockStay(w)
  PROVE  IInv'
<1> DEFINE q == [tx[w] EXCEPT !.step = "stay", !.row = stay[tx[w].stay]]
<1>1. /\ TypeOK /\ tx[w] \in Requests /\ RequestShape(tx[w])
      /\ tx[w].op \in StayOps /\ tx[w].stay \in Reservations
  BY Own DEF LockStay, RequestShape
<1>2. q \in Requests
  BY <1>1 DEF Requests, Steps, TypeOK
<1>3. RequestOK(q)
  BY <1>1 DEF RequestOK, RequestShape, ReadsFresh, CheckConclusive, HoldsStay, HoldsPayment,
     HoldsShift, Requests, StayOps
<1>4. ~HoldsPayment(q) /\ ~HoldsShift(q) /\ q.stay = tx[w].stay
  BY <1>1 DEF HoldsPayment, HoldsShift, Requests
<1>5. tx' = [tx EXCEPT ![w] = q]
  BY <1>1 DEF LockStay, TypeOK, Requests
<1> HIDE DEF q
<1> QED
  BY <1>2, <1>3, <1>4, <1>5, OnlyRequest DEF LockStay

LEMMA LockPaymentIInv ==
  ASSUME IInv, NEW w \in Workers, LockPayment(w)
  PROVE  IInv'
<1> DEFINE q == [tx[w] EXCEPT !.step = "payment", !.paid = payment[tx[w].payment]]
<1>1. /\ TypeOK /\ tx[w] \in Requests /\ RequestShape(tx[w]) /\ ReadsFresh(tx[w])
      /\ tx[w].op \in PaymentOps /\ tx[w].payment \in Payments
      /\ HoldsStay(tx[w]) /\ StayFree(w)
  BY Own DEF LockPayment, RequestShape, HoldsStay, PaymentOps, StayOps
<1>2. q \in Requests
  BY <1>1 DEF Requests, Steps, TypeOK
<1>3. RequestOK(q)
  BY <1>1 DEF RequestOK, RequestShape, ReadsFresh, CheckConclusive, HoldsStay, HoldsPayment,
     HoldsShift, Requests, StayOps, PaymentOps
<1>4. ~HoldsShift(q) /\ q.stay = tx[w].stay /\ q.payment = tx[w].payment
  BY <1>1 DEF HoldsShift, Requests
<1>5. tx' = [tx EXCEPT ![w] = q]
  BY <1>1 DEF LockPayment, TypeOK, Requests
<1> HIDE DEF q
<1> QED
  BY <1>1, <1>2, <1>3, <1>4, <1>5, OnlyRequest DEF LockPayment

LEMMA CheckIInv ==
  ASSUME IInv, NEW w \in Workers, Check(w)
  PROVE  IInv'
<1> DEFINE q == [tx[w] EXCEPT !.step = "checked"]
<1>1. /\ TypeOK /\ tx[w] \in Requests /\ RequestShape(tx[w]) /\ ReadsFresh(tx[w])
      /\ HoldsStay(tx[w]) => StayFree(w)
      /\ HoldsPayment(tx[w]) => PaymentFree(w)
  BY Own
<1>2. /\ tx[w].op \in {"charge", "amend", "status", "price", "cancel"}
      /\ tx[w].step = IF tx[w].op \in PaymentOps THEN "payment" ELSE "stay"
  BY DEF Check, CheckCharge, CheckAmend, CheckStatus, CheckPrice, CheckCancel, PaymentOps
<1>3. /\ tx[w].op \in {"charge", "amend"} => tx[w].amount > 0 /\ tx[w].row.status # "cancelled"
      /\ tx[w].op = "amend" => tx[w].paid.status = "pending"
      /\ tx[w].op = "status" =>
           /\ tx[w].to \in Transitions[tx[w].paid.status] \ {tx[w].paid.status}
           /\ tx[w].to = "completed" => tx[w].row.status # "cancelled"
  BY DEF Check, CheckCharge, CheckAmend, CheckStatus, CheckPrice, CheckCancel, BalanceAllows
<1>4. q \in Requests
  BY <1>1 DEF Requests, Steps
<1>5. RequestOK(q)
  <2>1. RequestShape(q)
    BY <1>1, <1>2 DEF RequestShape, Requests, StayOps, PaymentOps
  <2>2. ReadsFresh(q)
    BY <1>1, <1>2 DEF ReadsFresh, HoldsStay, HoldsPayment, HoldsShift, Requests, StayOps, PaymentOps
  <2>3. CheckConclusive(q)
    BY <1>1, <1>3 DEF CheckConclusive, Requests
  <2> QED
    BY <2>1, <2>2, <2>3 DEF RequestOK
<1>6. /\ HoldsStay(q) => StayFree(w) /\ q.stay = tx[w].stay
      /\ HoldsPayment(q) => PaymentFree(w) /\ q.payment = tx[w].payment
      /\ ~HoldsShift(q)
  BY <1>1, <1>2 DEF HoldsStay, HoldsPayment, HoldsShift, Requests, StayOps, PaymentOps
<1>7. tx' = [tx EXCEPT ![w] = q]
  BY <1>1 DEF Check, TypeOK, Requests
<1> HIDE DEF q
<1> QED
  BY <1>4, <1>5, <1>6, <1>7, OnlyRequest DEF Check

LEMMA ShiftStepsIInv ==
  ASSUME IInv, NEW w \in Workers, LockOwnShift(w) \/ LockShift(w) \/ ShiftTotals(w)
  PROVE  IInv'
<1>1. /\ TypeOK /\ tx[w] \in Requests /\ RequestShape(tx[w]) /\ ReadsFresh(tx[w])
      /\ CheckConclusive(tx[w])
      /\ HoldsStay(tx[w]) => StayFree(w)
      /\ HoldsPayment(tx[w]) => PaymentFree(w)
      /\ HoldsShift(tx[w]) => ShiftFree(w, tx[w].shift)
  BY Own
<1>2. CASE LockOwnShift(w)
  <2>1. PICK s \in Shifts :
          /\ tx[w].op = "status" /\ tx[w].step = "checked"
          /\ tx[w].to \in {"completed", "refunded"}
          /\ shift[s].state = "open"
          /\ ShiftFree(w, s)
          /\ tx' = [tx EXCEPT ![w].step = "shift", ![w].shift = s]
    BY <1>2 DEF LockOwnShift
  <2> DEFINE q == [tx[w] EXCEPT !.step = "shift", !.shift = s]
  <2>2. q \in Requests
    BY <1>1 DEF Requests, Steps
  <2>3. RequestShape(q)
    BY <1>1, <2>1 DEF RequestShape, Requests, StayOps, PaymentOps
  <2>4. ReadsFresh(q) /\ CheckConclusive(q)
    BY <1>1, <2>1 DEF ReadsFresh, CheckConclusive, HoldsStay, HoldsPayment, HoldsShift,
       Requests, StayOps, PaymentOps
  <2>5. /\ HoldsStay(q) => StayFree(w) /\ q.stay = tx[w].stay
        /\ HoldsPayment(q) => PaymentFree(w) /\ q.payment = tx[w].payment
        /\ HoldsShift(q) => ShiftFree(w, q.shift)
    BY <1>1, <2>1 DEF HoldsStay, HoldsPayment, HoldsShift, Requests, StayOps, PaymentOps
  <2>6. tx' = [tx EXCEPT ![w] = q]
    BY <1>1, <2>1 DEF TypeOK, Requests
  <2> HIDE DEF q
  <2> QED
    BY <1>2, <2>2, <2>3, <2>4, <2>5, <2>6, OnlyRequest DEF LockOwnShift, RequestOK
<1>3. CASE LockShift(w)
  <2> DEFINE q == [tx[w] EXCEPT !.step = "shift"]
  <2>1. tx[w].op = "close" /\ tx[w].shift \in Shifts
    BY <1>1, <1>3 DEF LockShift, RequestShape
  <2>2. q \in Requests
    BY <1>1 DEF Requests, Steps
  <2>3. RequestShape(q)
    BY <1>1, <2>1 DEF RequestShape, Requests, StayOps, PaymentOps
  <2>4. ReadsFresh(q) /\ CheckConclusive(q) /\ ~HoldsStay(q) /\ ~HoldsPayment(q)
    BY <1>1, <1>3, <2>1 DEF LockShift, ReadsFresh, CheckConclusive, HoldsStay, HoldsPayment,
       HoldsShift, Requests, StayOps, PaymentOps
  <2>5. tx' = [tx EXCEPT ![w] = q] /\ ShiftFree(w, q.shift)
    BY <1>1, <1>3 DEF LockShift, TypeOK, Requests
  <2> HIDE DEF q
  <2> QED
    BY <1>3, <2>2, <2>3, <2>4, <2>5, OnlyRequest DEF LockShift, RequestOK
<1>4. CASE ShiftTotals(w)
  <2> DEFINE q == [tx[w] EXCEPT !.step = "totals", !.totals = MovementsOf(tx[w].shift)]
  <2>1. tx[w].op = "close" /\ HoldsShift(tx[w])
    BY <1>4 DEF ShiftTotals, HoldsShift
  <2>2. q \in Requests
    BY <1>1 DEF Requests, Steps, MovementsOf, TypeOK
  <2>3. RequestShape(q)
    BY <1>1, <2>1 DEF RequestShape, Requests, StayOps, PaymentOps
  <2>4. ReadsFresh(q) /\ CheckConclusive(q) /\ ~HoldsStay(q) /\ ~HoldsPayment(q)
    BY <1>1, <2>1 DEF ReadsFresh, CheckConclusive, HoldsStay, HoldsPayment, HoldsShift,
       Requests, StayOps, PaymentOps
  <2>5. tx' = [tx EXCEPT ![w] = q] /\ ShiftFree(w, q.shift)
    BY <1>1, <1>4, <2>1 DEF ShiftTotals, TypeOK, Requests
  <2> HIDE DEF q
  <2> QED
    BY <1>4, <2>2, <2>3, <2>4, <2>5, OnlyRequest DEF ShiftTotals, RequestOK
<1> QED
  BY <1>2, <1>3, <1>4

LEMMA RollbackIInv ==
  ASSUME IInv, NEW w \in Workers, Rollback(w)
  PROVE  IInv'
  BY Blank, IdleOK, OnlyRequest DEF Rollback, End

-----------------------------------------------------------------------------
(* Steps that commit.                                                      *)

(* A transaction writes only rows it holds, new rows, and movements of the *)
(* shift it holds; the other requests are left in order.                   *)
LEMMA CommitIInv ==
  ASSUME IInv, NEW w \in Workers, End(w),
         stay' \in [Reservations -> StayRows],
         payment' \in [Payments -> PaymentRows],
         shift' \in [Shifts -> ShiftRows],
         movement' \subseteq Movements,
         receipt' \in [Payments -> Amounts],
         \A v \in Reservations : stay'[v] # stay[v] => HoldsStay(tx[w]) /\ tx[w].stay = v,
         \A p \in Payments : payment'[p] # payment[p] =>
           \/ payment[p].status = "none"
           \/ /\ HoldsPayment(tx[w]) /\ tx[w].payment = p
              /\ payment'[p].status # "none" /\ payment'[p].stay = payment[p].stay,
         \A s \in Shifts : shift'[s] # shift[s] \/ MovementsOf(s)' # MovementsOf(s)
           => HoldsShift(tx[w]) /\ tx[w].shift = s,
         \A p \in Payments : PaymentOK(p)',
         \A m \in movement' : shift'[m.shift].state # "none",
         BooksMatch', ClosedShiftComplete'
  PROVE  IInv'
<1>1. TypeOK'
  BY Blank DEF TypeOK, End, IInv
<1>2. tx'[w] = Idle /\ \A x \in Workers \ {w} : tx'[x] = tx[x]
  BY DEF End, IInv, TypeOK
<1>3. ASSUME NEW x \in Workers \ {w} PROVE RequestOK(tx[x])'
  <2>1. PICK t \in Requests : t = tx[x]
    BY DEF IInv, TypeOK
  <2>2. RequestOK(t)
    BY <2>1 DEF IInv
  <2>3. /\ HoldsStay(t) => t.stay \in Reservations
        /\ HoldsPayment(t) => /\ t.payment \in Payments
                              /\ payment[t.payment].status # "none"
        /\ HoldsShift(t) => t.shift \in Shifts
    BY <2>2 DEF RequestOK, RequestShape, ReadsFresh, HoldsStay, HoldsPayment
  <2>4. /\ HoldsStay(t) => stay'[t.stay] = stay[t.stay]
        /\ HoldsPayment(t) => payment'[t.payment] = payment[t.payment]
        /\ HoldsShift(t) => /\ shift'[t.shift] = shift[t.shift]
                            /\ MovementsOf(t.shift)' = MovementsOf(t.shift)
    BY <2>1, <2>3, Own DEF StayFree, PaymentFree, ShiftFree
  <2>5. \A p \in Payments : payment[p].status # "none" =>
          payment'[p].status # "none" /\ payment'[p].stay = payment[p].stay
    OBVIOUS
  <2>6. RequestOK(t)'
    BY <2>2, <2>4, <2>5, FrameRequest
  <2> QED
    BY <1>2, <2>1, <2>6
<1>4. \A x \in Workers : RequestOK(tx[x])'
  BY <1>2, <1>3, IdleOK
<1>5. LocksExclusive'
  BY <1>2, IdleOK DEF IInv, LocksExclusive
<1> QED
  BY <1>1, <1>4, <1>5 DEF IInv

(* The writes that touch neither the cash book nor a settled payment.      *)
LEMMA BooksKept ==
  ASSUME IInv, UNCHANGED <<movement, receipt>>,
         \A p \in Payments : payment'[p] = payment[p] \/
           /\ payment[p].status \notin {"completed", "refunded"}
           /\ payment'[p].status \notin {"completed", "refunded"}
  PROVE  BooksMatch'
<1>1. BooksMatch /\ movement \subseteq Movements
  BY DEF IInv, TypeOK
<1>2. \A p \in Payments : KindsOf(p)' = KindsOf(p)
  BY DEF KindsOf
<1>3. ASSUME NEW p \in Payments
      PROVE  /\ KindsOf(p)' = (CASE payment[p].status = "completed" -> {"payment"}
                                 [] payment[p].status = "refunded" -> {"payment", "refund"}
                                 [] OTHER -> {})'
             /\ (receipt[p] = IF KindsOf(p) = {} THEN 0 ELSE payment[p].amount)'
  <2>1. CASE payment'[p] = payment[p]
    BY <1>1, <1>2, <2>1 DEF BooksMatch
  <2>2. CASE /\ payment[p].status \notin {"completed", "refunded"}
             /\ payment'[p].status \notin {"completed", "refunded"}
    <3>1. KindsOf(p) = {} /\ receipt[p] = 0
      BY <1>1, <2>2 DEF BooksMatch
    <3> QED
      BY <1>2, <2>2, <3>1
  <2> QED
    BY <2>1, <2>2
<1>4. ASSUME NEW m \in movement PROVE m.amount = payment'[m.payment].amount
  <2>1. m.payment \in Payments /\ KindsOf(m.payment) # {}
    BY <1>1 DEF KindsOf, Movements
  <2>2. payment[m.payment].status \in {"completed", "refunded"}
    BY <1>1, <2>1 DEF BooksMatch
  <2> QED
    BY <1>1, <2>1, <2>2 DEF BooksMatch
<1> QED
  BY <1>1, <1>3, <1>4 DEF BooksMatch

LEMMA CreatePaymentIInv ==
  ASSUME IInv, NEW w \in Workers, CreatePayment(w)
  PROVE  IInv'
<1>1. /\ TypeOK /\ tx[w] \in Requests /\ tx[w].stay \in Reservations /\ tx[w].amount > 0
      /\ tx[w].amount \in Amounts
  BY Own DEF CreatePayment, RequestShape, CheckConclusive, StayOps, Requests
<1>2. PICK p \in Payments :
        /\ payment[p] = NoPayment
        /\ payment' = [payment EXCEPT ![p] = [status |-> "pending", stay |-> tx[w].stay,
                                              amount |-> tx[w].amount]]
  BY DEF CreatePayment
<1>3. PICK row : row = [status |-> "pending", stay |-> tx[w].stay, amount |-> tx[w].amount]
  OBVIOUS
<1>4. row \in PaymentRows /\ row.status = "pending" /\ row.stay \in Reservations /\ row.amount > 0
  BY <1>1, <1>3 DEF PaymentRows, PaymentStatus
<1>5. /\ payment' \in [Payments -> PaymentRows] /\ payment'[p] = row
      /\ \A x \in Payments \ {p} : payment'[x] = payment[x]
  BY <1>1, <1>2, <1>3, <1>4 DEF TypeOK
<1>6. payment[p].status = "none"
  BY <1>2 DEF NoPayment
<1>7. End(w) /\ UNCHANGED <<stay, shift, movement, receipt>>
  BY DEF CreatePayment
<1>8. \A x \in Payments : PaymentOK(x)'
  <2>1. PaymentOK(p)'
    BY <1>4, <1>5 DEF PaymentOK
  <2>2. \A x \in Payments \ {p} : PaymentOK(x)'
    BY <1>5 DEF IInv, PaymentOK
  <2> QED
    BY <2>1, <2>2
<1>9. BooksMatch'
  BY <1>4, <1>5, <1>6, <1>7, BooksKept
<1>10. ClosedShiftComplete' /\ (\A s \in Shifts : MovementsOf(s)' = MovementsOf(s))
  BY <1>7 DEF IInv, ClosedShiftComplete, MovementsOf
<1>11. /\ stay' \in [Reservations -> StayRows] /\ shift' \in [Shifts -> ShiftRows]
       /\ movement' \subseteq Movements /\ receipt' \in [Payments -> Amounts]
       /\ \A m \in movement' : shift'[m.shift].state # "none"
  BY <1>1, <1>7 DEF TypeOK, IInv
<1> QED
  BY <1>5, <1>6, <1>7, <1>8, <1>9, <1>10, <1>11, CommitIInv

(* Amending and marking: a payment that is not settled gets another amount *)
(* or another status, and is still not settled.                            *)
LEMMA PaymentWritten ==
  ASSUME IInv, NEW w \in Workers, HoldsPayment(tx[w]), End(w),
         NEW p \in Payments, p = tx[w].payment,
         NEW row \in PaymentRows, payment' = [payment EXCEPT ![p] = row],
         row.stay = payment[p].stay, row.amount > 0,
         row.status \in {"pending", "failed"},
         payment[p].status \in {"pending", "failed"},
         UNCHANGED <<stay, shift, movement, receipt>>
  PROVE  IInv'
<1>1. TypeOK /\ PaymentOK(p)
  BY DEF IInv
<1>2. /\ payment' \in [Payments -> PaymentRows] /\ payment'[p] = row
      /\ \A x \in Payments \ {p} : payment'[x] = payment[x]
  BY <1>1 DEF TypeOK
<1>3. \A x \in Payments : PaymentOK(x)'
  <2>1. PaymentOK(p)'
    BY <1>1, <1>2 DEF PaymentOK
  <2>2. \A x \in Payments \ {p} : PaymentOK(x)'
    BY <1>2 DEF IInv, PaymentOK
  <2> QED
    BY <2>1, <2>2
<1>4. BooksMatch'
  BY <1>2, BooksKept
<1>5. ClosedShiftComplete' /\ (\A s \in Shifts : MovementsOf(s)' = MovementsOf(s))
  BY DEF IInv, ClosedShiftComplete, MovementsOf
<1>6. /\ stay' \in [Reservations -> StayRows] /\ shift' \in [Shifts -> ShiftRows]
      /\ movement' \subseteq Movements /\ receipt' \in [Payments -> Amounts]
      /\ \A m \in movement' : shift'[m.shift].state # "none"
  BY <1>1 DEF TypeOK, IInv
<1> QED
  BY <1>2, <1>3, <1>4, <1>5, <1>6, CommitIInv

(* The payment whose row the request holds.                                *)
LEMMA OwnPayment ==
  ASSUME IInv, NEW w \in Workers, HoldsPayment(tx[w])
  PROVE  /\ TypeOK /\ tx[w] \in Requests /\ tx[w].payment \in Payments
         /\ payment \in [Payments -> PaymentRows]
         /\ tx[w].paid = payment[tx[w].payment]
         /\ payment[tx[w].payment] \in PaymentRows
         /\ payment[tx[w].payment].amount > 0
         /\ payment[tx[w].payment].stay = tx[w].stay /\ tx[w].stay \in Reservations
<1>1. /\ TypeOK /\ tx[w] \in Requests /\ RequestShape(tx[w]) /\ ReadsFresh(tx[w])
      /\ tx[w].op \in PaymentOps
  BY Own DEF HoldsPayment
<1>2. /\ tx[w].payment \in Payments /\ payment[tx[w].payment].status # "none"
      /\ payment[tx[w].payment].stay = tx[w].stay
      /\ tx[w].paid = payment[tx[w].payment]
  BY <1>1 DEF RequestShape, ReadsFresh
<1> QED
  BY <1>1, <1>2 DEF TypeOK, IInv, PaymentOK

LEMMA AmendPaymentIInv ==
  ASSUME IInv, NEW w \in Workers, AmendPayment(w)
  PROVE  IInv'
<1>1. HoldsPayment(tx[w])
  BY DEF AmendPayment, HoldsPayment, PaymentOps
<1>2. tx[w].paid.status = "pending" /\ tx[w].amount > 0
  BY Own DEF AmendPayment, CheckConclusive, StayOps
<1>3. PICK p \in Payments : p = tx[w].payment
  BY <1>1, OwnPayment
<1>4. PICK row : row = [payment[p] EXCEPT !.amount = tx[w].amount, !.status = tx[w].paid.status]
  OBVIOUS
<1>5. /\ payment \in [Payments -> PaymentRows] /\ payment[p] \in PaymentRows
      /\ payment[p].status = "pending" /\ tx[w].amount \in Amounts
  BY <1>1, <1>2, <1>3, OwnPayment DEF Requests
<1>6. row \in PaymentRows /\ row.status = "pending" /\ row.amount > 0 /\ row.stay = payment[p].stay
  BY <1>2, <1>4, <1>5 DEF PaymentRows, PaymentStatus
<1>7. payment' = [payment EXCEPT ![p] = row]
  BY <1>3, <1>4, <1>5 DEF AmendPayment, PaymentRows
<1>8. End(w) /\ UNCHANGED <<stay, shift, movement, receipt>>
  BY DEF AmendPayment
<1> QED
  BY <1>1, <1>3, <1>5, <1>6, <1>7, <1>8, PaymentWritten

LEMMA MarkPaymentIInv ==
  ASSUME IInv, NEW w \in Workers, MarkPayment(w)
  PROVE  IInv'
<1>1. HoldsPayment(tx[w])
  BY DEF MarkPayment, HoldsPayment, PaymentOps
<1>2. PICK p \in Payments : p = tx[w].payment
  BY <1>1, OwnPayment
<1>3. /\ payment \in [Payments -> PaymentRows] /\ payment[p] \in PaymentRows
      /\ payment[p].amount > 0 /\ payment[p].status = tx[w].paid.status
      /\ tx[w].to \in Transitions[tx[w].paid.status] \ {tx[w].paid.status}
      /\ tx[w].to \in {"pending", "failed"}
  BY <1>1, <1>2, Own, OwnPayment DEF CheckConclusive, MarkPayment, StayOps
<1>4. payment[p].status \in {"pending", "failed"}
  BY <1>3 DEF Transitions, PaymentRows, PaymentStatus
<1>5. PICK row : row = [payment[p] EXCEPT !.status = tx[w].to]
  OBVIOUS
<1>6. /\ row \in PaymentRows /\ row.status \in {"pending", "failed"} /\ row.amount > 0
      /\ row.stay = payment[p].stay
  BY <1>3, <1>5 DEF PaymentRows, PaymentStatus
<1>7. payment' = [payment EXCEPT ![p] = row]
  BY <1>2, <1>3, <1>5 DEF MarkPayment, PaymentRows
<1>8. End(w) /\ UNCHANGED <<stay, shift, movement, receipt>>
  BY DEF MarkPayment
<1> QED
  BY <1>1, <1>2, <1>4, <1>6, <1>7, <1>8, PaymentWritten

(* Completing and refunding: the payment changes status and the cash book  *)
(* of the shift held gets a movement the payment did not have.             *)
LEMMA BookedIInv ==
  ASSUME IInv, NEW w \in Workers, tx[w].step = "shift", HoldsPayment(tx[w]), End(w),
         NEW p \in Payments, p = tx[w].payment,
         NEW s \in Shifts, s = tx[w].shift, shift[s].state = "open",
         NEW kind \in {"payment", "refund"},
         NEW m \in Movements,
         m.payment = p, m.shift = s, m.kind = kind, m.amount = payment[p].amount,
         movement' = movement \union {m},
         NEW row \in PaymentRows, payment' = [payment EXCEPT ![p] = row],
         row.stay = payment[p].stay, row.amount = payment[p].amount,
         \/ /\ kind = "payment" /\ payment[p].status = "pending" /\ row.status = "completed"
            /\ receipt' = [receipt EXCEPT ![p] = payment[p].amount]
         \/ /\ kind = "refund" /\ payment[p].status = "completed" /\ row.status = "refunded"
            /\ receipt' = receipt,
         UNCHANGED <<stay, shift>>
  PROVE  IInv'
<1>1. /\ TypeOK /\ PaymentOK(p) /\ BooksMatch /\ ClosedShiftComplete
      /\ payment[p] \in PaymentRows /\ payment[p].amount > 0
  BY OwnPayment DEF IInv
<1>2. /\ payment' \in [Payments -> PaymentRows] /\ payment'[p] = row
      /\ \A x \in Payments \ {p} : payment'[x] = payment[x]
  BY <1>1 DEF TypeOK
<1>3. /\ receipt' \in [Payments -> Amounts] /\ receipt'[p] = payment[p].amount
      /\ \A x \in Payments \ {p} : receipt'[x] = receipt[x]
  <2>1. payment[p].amount \in Amounts /\ receipt \in [Payments -> Amounts]
    BY <1>1 DEF PaymentRows, TypeOK
  <2>2. CASE payment[p].status = "pending"
    BY <2>1, <2>2
  <2>3. CASE payment[p].status = "completed"
    <3>1. KindsOf(p) = {"payment"} /\ receipt[p] = payment[p].amount
      BY <1>1, <2>3 DEF BooksMatch
    <3> QED
      BY <2>1, <2>3, <3>1
  <2> QED
    BY <2>2, <2>3
<1>4. KindsOf(p) = IF kind = "payment" THEN {} ELSE {"payment"}
  BY <1>1 DEF BooksMatch
<1>5. KindsOf(p)' = KindsOf(p) \union {kind} /\ \A x \in Payments \ {p} : KindsOf(x)' = KindsOf(x)
  BY DEF KindsOf
<1>6. BooksMatch'
  <2>1. /\ (KindsOf(p) = CASE payment[p].status = "completed" -> {"payment"}
                           [] payment[p].status = "refunded" -> {"payment", "refund"}
                           [] OTHER -> {})'
        /\ (receipt[p] = IF KindsOf(p) = {} THEN 0 ELSE payment[p].amount)'
    BY <1>2, <1>3, <1>4, <1>5
  <2>2. ASSUME NEW x \in Payments \ {p}
        PROVE  /\ (KindsOf(x) = CASE payment[x].status = "completed" -> {"payment"}
                                  [] payment[x].status = "refunded" -> {"payment", "refund"}
                                  [] OTHER -> {})'
               /\ (receipt[x] = IF KindsOf(x) = {} THEN 0 ELSE payment[x].amount)'
    BY <1>1, <1>2, <1>3, <1>5 DEF BooksMatch
  <2>3. \A n \in movement' : n.amount = payment'[n.payment].amount
    BY <1>1, <1>2 DEF BooksMatch, TypeOK, Movements
  <2>4. \A n \in movement : ~(n.payment = p /\ n.kind = kind)
    BY <1>4 DEF KindsOf
  <2>5. \A n, l \in movement' : n.payment = l.payment /\ n.kind = l.kind => n = l
    BY <1>1, <2>4 DEF BooksMatch
  <2> QED
    BY <2>1, <2>2, <2>3, <2>5 DEF BooksMatch
<1>7. \A x \in Shifts \ {s} : MovementsOf(x)' = MovementsOf(x)
  BY DEF MovementsOf
<1>8. ClosedShiftComplete'
  BY <1>1, <1>7 DEF ClosedShiftComplete
<1>9. \A x \in Payments : PaymentOK(x)'
  <2>1. PaymentOK(p)'
    BY <1>1, <1>2 DEF PaymentOK
  <2>2. \A x \in Payments \ {p} : PaymentOK(x)'
    BY <1>2 DEF IInv, PaymentOK
  <2> QED
    BY <2>1, <2>2
<1>10. /\ stay' \in [Reservations -> StayRows] /\ shift' \in [Shifts -> ShiftRows]
       /\ movement' \subseteq Movements
       /\ \A n \in movement' : shift'[n.shift].state # "none"
  BY <1>1 DEF TypeOK, IInv
<1>11. HoldsShift(tx[w])
  BY DEF HoldsShift
<1> QED
  BY <1>2, <1>3, <1>6, <1>7, <1>8, <1>9, <1>10, <1>11, CommitIInv

LEMMA CompletePaymentIInv ==
  ASSUME IInv, NEW w \in Workers, CompletePayment(w)
  PROVE  IInv'
<1>1. /\ tx[w].op = "status" /\ tx[w].step = "shift" /\ tx[w].to = "completed"
      /\ HoldsPayment(tx[w]) /\ End(w) /\ UNCHANGED <<stay, shift>>
  BY DEF CompletePayment, HoldsPayment, PaymentOps
<1>2. PICK p \in Payments : p = tx[w].payment
  BY <1>1, OwnPayment
<1>3. PICK s \in Shifts : s = tx[w].shift /\ shift[s].state = "open"
  BY <1>1, Own DEF ReadsFresh, HoldsShift
<1>4. /\ payment \in [Payments -> PaymentRows] /\ payment[p] \in PaymentRows
      /\ payment[p].status = tx[w].paid.status
      /\ tx[w].to \in Transitions[tx[w].paid.status] \ {tx[w].paid.status}
      /\ BooksMatch
  BY <1>1, <1>2, Own, OwnPayment DEF CheckConclusive, StayOps, IInv
<1>5. payment[p].status = "pending"
  BY <1>1, <1>4 DEF Transitions, PaymentRows, PaymentStatus
<1>6. KindsOf(p) = {} /\ receipt[p] = 0
  BY <1>4, <1>5 DEF BooksMatch
<1>7. PICK m : m = [payment |-> p, shift |-> s, kind |-> "payment", amount |-> payment[p].amount]
  OBVIOUS
<1>8. m \in Movements /\ m.payment = p /\ m.shift = s /\ m.kind = "payment"
      /\ m.amount = payment[p].amount
  BY <1>4, <1>7 DEF Movements, PaymentRows
<1>9. movement' = movement \union {m}
  BY <1>2, <1>3, <1>6, <1>7 DEF CompletePayment, AddMovement, KindsOf
<1>10. PICK row : row = [payment[p] EXCEPT !.status = "completed"]
  OBVIOUS
<1>11. /\ row \in PaymentRows /\ row.status = "completed" /\ row.stay = payment[p].stay
       /\ row.amount = payment[p].amount
  BY <1>4, <1>10 DEF PaymentRows, PaymentStatus
<1>12. payment' = [payment EXCEPT ![p] = row]
  BY <1>2, <1>4, <1>10 DEF CompletePayment, PaymentRows
<1>13. receipt' = [receipt EXCEPT ![p] = payment[p].amount]
  BY <1>2, <1>6 DEF CompletePayment
<1> QED
  BY <1>1, <1>2, <1>3, <1>5, <1>8, <1>9, <1>11, <1>12, <1>13, BookedIInv

LEMMA RefundPaymentIInv ==
  ASSUME IInv, NEW w \in Workers, RefundPayment(w)
  PROVE  IInv'
<1>1. /\ tx[w].op = "status" /\ tx[w].step = "shift" /\ tx[w].to = "refunded"
      /\ HoldsPayment(tx[w]) /\ End(w) /\ UNCHANGED <<stay, shift, receipt>>
  BY DEF RefundPayment, HoldsPayment, PaymentOps
<1>2. PICK p \in Payments : p = tx[w].payment
  BY <1>1, OwnPayment
<1>3. PICK s \in Shifts : s = tx[w].shift /\ shift[s].state = "open"
  BY <1>1, Own DEF ReadsFresh, HoldsShift
<1>4. /\ payment \in [Payments -> PaymentRows] /\ payment[p] \in PaymentRows
      /\ payment[p].status = tx[w].paid.status
      /\ tx[w].to \in Transitions[tx[w].paid.status] \ {tx[w].paid.status}
      /\ BooksMatch
  BY <1>1, <1>2, Own, OwnPayment DEF CheckConclusive, StayOps, IInv
<1>5. payment[p].status = "completed"
  BY <1>1, <1>4 DEF Transitions, PaymentRows, PaymentStatus
<1>6. KindsOf(p) = {"payment"}
  BY <1>4, <1>5 DEF BooksMatch
<1>7. PICK m : m = [payment |-> p, shift |-> s, kind |-> "refund", amount |-> payment[p].amount]
  OBVIOUS
<1>8. m \in Movements /\ m.payment = p /\ m.shift = s /\ m.kind = "refund"
      /\ m.amount = payment[p].amount
  BY <1>4, <1>7 DEF Movements, PaymentRows
<1>9. movement' = movement \union {m}
  BY <1>2, <1>3, <1>6, <1>7 DEF RefundPayment, AddMovement, KindsOf
<1>10. PICK row : row = [payment[p] EXCEPT !.status = "refunded"]
  OBVIOUS
<1>11. /\ row \in PaymentRows /\ row.status = "refunded" /\ row.stay = payment[p].stay
       /\ row.amount = payment[p].amount
  BY <1>4, <1>10 DEF PaymentRows, PaymentStatus
<1>12. payment' = [payment EXCEPT ![p] = row]
  BY <1>2, <1>4, <1>10 DEF RefundPayment, PaymentRows
<1> QED
  BY <1>1, <1>2, <1>3, <1>5, <1>8, <1>9, <1>11, <1>12, BookedIInv

LEMMA CloseShiftIInv ==
  ASSUME IInv, NEW w \in Workers, CloseShift(w)
  PROVE  IInv'
<1>1. /\ TypeOK /\ RequestShape(tx[w]) /\ ReadsFresh(tx[w]) /\ ClosedShiftComplete
      /\ HoldsShift(tx[w]) /\ tx[w].step = "totals"
      /\ End(w) /\ UNCHANGED <<stay, payment, movement, receipt>>
  BY Own DEF CloseShift, HoldsShift, IInv
<1>2. PICK s \in Shifts : s = tx[w].shift
  BY <1>1 DEF ReadsFresh
<1>3. PICK row : row = [shift[s] EXCEPT !.state = "closed", !.counted = MovementsOf(s),
                                        !.totals = tx[w].totals]
  OBVIOUS
<1>4. tx[w].totals = MovementsOf(s) /\ MovementsOf(s) \in SUBSET Movements
      /\ shift[s] \in ShiftRows
  BY <1>1, <1>2 DEF ReadsFresh, MovementsOf, TypeOK
<1>5. /\ row \in ShiftRows /\ row.state = "closed"
      /\ row.counted = MovementsOf(s) /\ row.totals = MovementsOf(s)
  BY <1>3, <1>4 DEF ShiftRows
<1>6. shift' = [shift EXCEPT ![s] = row]
  BY <1>2, <1>3, <1>4 DEF CloseShift, ShiftRows
<1>7. /\ shift' \in [Shifts -> ShiftRows] /\ shift'[s] = row
      /\ \A x \in Shifts \ {s} : shift'[x] = shift[x]
  BY <1>1, <1>5, <1>6 DEF TypeOK
<1>8. \A x \in Shifts : MovementsOf(x)' = MovementsOf(x)
  BY <1>1 DEF MovementsOf
<1>9. ClosedShiftComplete'
  BY <1>1, <1>5, <1>7, <1>8 DEF ClosedShiftComplete
<1>10. \A m \in movement' : shift'[m.shift].state # "none"
  BY <1>1, <1>5, <1>7 DEF IInv, TypeOK, Movements
<1>11. BooksMatch' /\ \A p \in Payments : PaymentOK(p)'
  BY <1>1, BooksKept DEF IInv, PaymentOK
<1>12. /\ stay' \in [Reservations -> StayRows] /\ payment' \in [Payments -> PaymentRows]
       /\ movement' \subseteq Movements /\ receipt' \in [Payments -> Amounts]
  BY <1>1 DEF TypeOK
<1> QED
  BY <1>1, <1>2, <1>7, <1>8, <1>9, <1>10, <1>11, <1>12, CommitIInv

LEMMA StayWritten ==
  ASSUME IInv, NEW w \in Workers, HoldsStay(tx[w]), End(w),
         NEW row \in StayRows, stay' = [stay EXCEPT ![tx[w].stay] = row],
         UNCHANGED <<payment, shift, movement, receipt>>
  PROVE  IInv'
<1>1. /\ TypeOK
      /\ stay' \in [Reservations -> StayRows]
      /\ \A v \in Reservations : stay'[v] # stay[v] => HoldsStay(tx[w]) /\ tx[w].stay = v
  BY DEF IInv, TypeOK
<1>2. BooksMatch' /\ ClosedShiftComplete' /\ \A p \in Payments : PaymentOK(p)'
  BY BooksKept DEF IInv, PaymentOK, ClosedShiftComplete, MovementsOf
<1>3. \A x \in Shifts : MovementsOf(x)' = MovementsOf(x)
  BY DEF MovementsOf
<1>4. /\ payment' \in [Payments -> PaymentRows] /\ shift' \in [Shifts -> ShiftRows]
      /\ movement' \subseteq Movements /\ receipt' \in [Payments -> Amounts]
      /\ \A m \in movement' : shift'[m.shift].state # "none"
  BY <1>1 DEF TypeOK, IInv
<1> QED
  BY <1>1, <1>2, <1>3, <1>4, CommitIInv

LEMMA PriceAndCancelIInv ==
  ASSUME IInv, NEW w \in Workers, SetPrice(w) \/ CancelStay(w)
  PROVE  IInv'
<1>1. /\ TypeOK /\ tx[w] \in Requests /\ RequestShape(tx[w])
      /\ HoldsStay(tx[w]) /\ End(w) /\ tx[w].stay \in Reservations
      /\ UNCHANGED <<payment, shift, movement, receipt>>
  BY Own DEF SetPrice, CancelStay, HoldsStay, StayOps, RequestShape
<1>2. CASE SetPrice(w)
  <2>1. PICK s \in {tx[w].row.status, "cancelled"} :
          stay' = [stay EXCEPT ![tx[w].stay] = [status |-> s, total |-> tx[w].amount]]
    BY <1>2 DEF SetPrice
  <2>2. [status |-> s, total |-> tx[w].amount] \in StayRows
    BY <1>1 DEF Requests, StayRows
  <2> QED
    BY <1>1, <2>1, <2>2, StayWritten
<1>3. CASE CancelStay(w)
  <2>1. stay[tx[w].stay] \in StayRows
    BY <1>1 DEF TypeOK
  <2>2. PICK row : row = [stay[tx[w].stay] EXCEPT !.status = "cancelled"]
    OBVIOUS
  <2>3. row \in StayRows
    BY <2>1, <2>2 DEF StayRows
  <2>4. stay' = [stay EXCEPT ![tx[w].stay] = row]
    BY <1>1, <1>3, <2>1, <2>2 DEF CancelStay, StayRows
  <2> QED
    BY <1>1, <2>3, <2>4, StayWritten
<1> QED
  BY <1>2, <1>3

-----------------------------------------------------------------------------
(* Opening a shift, and every step.                                        *)

LEMMA OpenShiftIInv ==
  ASSUME IInv, NEW u \in Users, NEW s \in Shifts, OpenShift(u, s)
  PROVE  IInv'
<1>1. /\ TypeOK /\ shift[s].state = "none" /\ shift[s] \in ShiftRows
      /\ UNCHANGED <<stay, payment, movement, receipt, tx>>
  BY DEF OpenShift, IInv, TypeOK
<1>2. PICK row : row = [shift[s] EXCEPT !.state = "open", !.user = u]
  OBVIOUS
<1>3. row \in ShiftRows /\ row.state = "open"
  BY <1>1, <1>2 DEF ShiftRows
<1>4. shift' = [shift EXCEPT ![s] = row]
  BY <1>1, <1>2 DEF OpenShift, ShiftRows
<1>5. /\ shift' \in [Shifts -> ShiftRows] /\ shift'[s] = row
      /\ \A x \in Shifts \ {s} : shift'[x] = shift[x]
  BY <1>1, <1>3, <1>4 DEF TypeOK
<1>6. TypeOK'
  BY <1>1, <1>5 DEF TypeOK
<1>7. \A x \in Shifts : MovementsOf(x)' = MovementsOf(x)
  BY <1>1 DEF MovementsOf
<1>8. ASSUME NEW x \in Workers PROVE RequestOK(tx[x])'
  <2>1. PICK t \in Requests : t = tx[x]
    BY <1>1 DEF TypeOK
  <2>2. RequestOK(t)
    BY <2>1 DEF IInv
  <2>3. HoldsShift(t) => t.shift \in Shifts /\ t.shift # s
    BY <1>1, <2>2 DEF RequestOK, ReadsFresh
  <2>4. RequestOK(t)'
    BY <1>1, <1>5, <1>7, <2>2, <2>3, FrameRequest
  <2> QED
    BY <1>1, <2>1, <2>4
<1>9. LocksExclusive' /\ BooksMatch' /\ \A p \in Payments : PaymentOK(p)'
  BY <1>1, BooksKept DEF IInv, LocksExclusive, PaymentOK
<1>10. ClosedShiftComplete'
  BY <1>3, <1>5, <1>7 DEF IInv, ClosedShiftComplete
<1>11. \A m \in movement' : shift'[m.shift].state # "none"
  BY <1>1, <1>3, <1>5 DEF IInv, TypeOK, Movements
<1> QED
  BY <1>6, <1>8, <1>9, <1>10, <1>11 DEF IInv

LEMMA StutterIInv == ASSUME IInv, UNCHANGED vars PROVE IInv'
<1>1. TypeOK'
  BY DEF IInv, TypeOK, vars
<1>2. \A w \in Workers : RequestOK(tx[w])'
  BY FrameRequest DEF IInv, vars, MovementsOf
<1>3. LocksExclusive' /\ (\A p \in Payments : PaymentOK(p))' /\ BooksMatch'
      /\ ClosedShiftComplete' /\ (\A m \in movement : shift[m.shift].state # "none")'
  BY DEF IInv, vars, LocksExclusive, PaymentOK, BooksMatch, KindsOf, ClosedShiftComplete,
     MovementsOf
<1> QED
  BY <1>1, <1>2, <1>3 DEF IInv

LEMMA NextIInv == ASSUME IInv, [Next]_vars PROVE IInv'
<1>1. CASE \E u \in Users, s \in Shifts : OpenShift(u, s)
  BY <1>1, OpenShiftIInv
<1>2. ASSUME NEW w \in Workers, Step(w) PROVE IInv'
  <2>1. CASE Begin(w)
    BY <2>1, BeginIInv
  <2>2. CASE LockStay(w) \/ LockPayment(w) \/ Check(w)
    BY <2>2, LockStayIInv, LockPaymentIInv, CheckIInv
  <2>3. CASE LockOwnShift(w) \/ LockShift(w) \/ ShiftTotals(w)
    BY <2>3, ShiftStepsIInv
  <2>4. CASE Rollback(w)
    BY <2>4, RollbackIInv
  <2>5. CASE CreatePayment(w) \/ AmendPayment(w) \/ MarkPayment(w)
    BY <2>5, CreatePaymentIInv, AmendPaymentIInv, MarkPaymentIInv
  <2>6. CASE CompletePayment(w) \/ RefundPayment(w)
    BY <2>6, CompletePaymentIInv, RefundPaymentIInv
  <2>7. CASE CloseShift(w) \/ SetPrice(w) \/ CancelStay(w)
    BY <2>7, CloseShiftIInv, PriceAndCancelIInv
  <2> QED
    BY <1>2, <2>1, <2>2, <2>3, <2>4, <2>5, <2>6, <2>7 DEF Step, Commit
<1>3. CASE UNCHANGED vars
  BY <1>3, StutterIInv
<1> QED
  BY <1>1, <1>2, <1>3 DEF Next

-----------------------------------------------------------------------------
(* Theorems.                                                               *)

(* The strengthening: what every request read under a lock stays true      *)
(* until it commits, and no two requests hold the same row.                *)
THEOREM Invariant == Spec => []IInv
  BY InitIInv, NextIInv, PTL DEF Spec

(* The rows and the requests keep their shape.                             *)
THEOREM TypeCorrect == Spec => []TypeOK
<1>1. IInv => TypeOK
  BY DEF IInv
<1> QED
  BY <1>1, Invariant, PTL

(* Cash book, receipts and payments agree after every commit, for any      *)
(* number of concurrent requests (hotel_payment_event).                    *)
THEOREM Books == Spec => []BooksMatch
<1>1. IInv => BooksMatch
  BY DEF IInv
<1> QED
  BY <1>1, Invariant, PTL

(* A closed shift has counted all its movements, and both sums of the      *)
(* closing agree (closeShift).                                             *)
THEOREM ClosedShifts == Spec => []ClosedShiftComplete
<1>1. IInv => ClosedShiftComplete
  BY DEF IInv
<1> QED
  BY <1>1, Invariant, PTL

-----------------------------------------------------------------------------
(* What a step may do to a payment.                                        *)

LEMMA StepOnPayments ==
  ASSUME IInv, [Next]_vars
  PROVE  ChargesLiveStay /\ KeepsSettled
<1>1. TypeOK
  BY DEF IInv
<1>2. CASE payment' = payment
  BY <1>2 DEF ChargesLiveStay, KeepsSettled
<1>3. ASSUME NEW w \in Workers, CreatePayment(w) PROVE ChargesLiveStay /\ KeepsSettled
  <2> DEFINE row == [status |-> "pending", stay |-> tx[w].stay, amount |-> tx[w].amount]
  <2>1. PICK p \in Payments : payment[p] = NoPayment /\ payment' = [payment EXCEPT ![p] = row]
    BY <1>3 DEF CreatePayment
  <2>2. stay[tx[w].stay].status # "cancelled"
    BY <1>3, Own DEF CreatePayment, CheckConclusive, ReadsFresh, HoldsStay, StayOps
  <2>3. payment'[p] = row /\ \A x \in Payments \ {p} : payment'[x] = payment[x]
    BY <1>1, <2>1 DEF TypeOK
  <2>4. row.status = "pending" /\ row.stay = tx[w].stay
    OBVIOUS
  <2>5. UNCHANGED stay
    BY <1>3 DEF CreatePayment
  <2> HIDE DEF row
  <2> QED
    BY <2>1, <2>2, <2>3, <2>4, <2>5 DEF ChargesLiveStay, KeepsSettled, NoPayment
<1>4. ASSUME NEW w \in Workers,
             AmendPayment(w) \/ MarkPayment(w) \/ CompletePayment(w) \/ RefundPayment(w)
      PROVE  ChargesLiveStay /\ KeepsSettled
  <2>1. /\ HoldsPayment(tx[w]) /\ UNCHANGED stay
        /\ HoldsStay(tx[w]) /\ tx[w].op \in StayOps /\ tx[w].step \in {"checked", "shift"}
    BY <1>4 DEF AmendPayment, MarkPayment, CompletePayment, RefundPayment, HoldsPayment,
       HoldsStay, PaymentOps, StayOps
  <2>2. PICK p \in Payments : p = tx[w].payment
    BY <2>1, OwnPayment
  <2>3. /\ payment \in [Payments -> PaymentRows] /\ payment[p] \in PaymentRows
        /\ tx[w].paid = payment[p] /\ payment[p].stay = tx[w].stay
        /\ tx[w].row = stay[tx[w].stay] /\ CheckConclusive(tx[w])
    BY <2>1, <2>2, Own, OwnPayment DEF ReadsFresh
  <2>4. \A x \in Payments \ {p} : payment'[x] = payment[x]
    BY <1>4, <2>2, <2>3 DEF AmendPayment, MarkPayment, CompletePayment, RefundPayment
  <2>5. /\ payment'[p].stay = payment[p].stay
        /\ payment'[p].status # "none" => payment[p].status # "none"
        /\ payment[p].status # "completed" /\ payment'[p].status = "completed" =>
             stay[tx[w].stay].status # "cancelled"
        /\ payment[p].status \in {"completed", "refunded"} =>
             /\ payment'[p].amount = payment[p].amount
             /\ payment'[p].status \in {payment[p].status, "refunded"}
    <3>1. CASE AmendPayment(w)
      <4>1. payment[p].status = "pending"
        BY <2>1, <2>3, <3>1 DEF AmendPayment, CheckConclusive
      <4>2. payment'[p].status = "pending" /\ payment'[p].stay = payment[p].stay
        BY <2>2, <2>3, <3>1, <4>1 DEF AmendPayment, PaymentRows
      <4> QED
        BY <4>1, <4>2
    <3>2. CASE ~AmendPayment(w)
      <4>1. tx[w].op = "status" /\ tx[w].to \in Transitions[payment[p].status] \ {payment[p].status}
        BY <1>4, <2>1, <2>3, <3>2 DEF MarkPayment, CompletePayment, RefundPayment, CheckConclusive
      <4>2. /\ payment'[p].status = tx[w].to /\ payment'[p].stay = payment[p].stay
            /\ payment'[p].amount = payment[p].amount
        BY <1>4, <2>2, <2>3, <3>2 DEF MarkPayment, CompletePayment, RefundPayment, PaymentRows
      <4>3. tx[w].to = "completed" => stay[tx[w].stay].status # "cancelled"
        BY <2>1, <2>3, <4>1 DEF CheckConclusive
      <4>4. /\ payment[p].status # "none"
            /\ payment[p].status \in {"completed", "refunded"} => tx[w].to = "refunded"
        BY <2>3, <4>1 DEF Transitions, PaymentRows, PaymentStatus
      <4> QED
        BY <4>2, <4>3, <4>4
    <3> QED
      BY <3>1, <3>2
  <2> QED
    BY <2>1, <2>3, <2>4, <2>5 DEF ChargesLiveStay, KeepsSettled
<1>5. \/ payment' = payment
      \/ \E w \in Workers : \/ CreatePayment(w) \/ AmendPayment(w) \/ MarkPayment(w)
                            \/ CompletePayment(w) \/ RefundPayment(w)
  BY DEF Next, Step, Commit, OpenShift, Begin, LockStay, LockPayment, Check, LockOwnShift,
     LockShift, ShiftTotals, CloseShift, SetPrice, CancelStay, Rollback, vars
<1> QED
  BY <1>2, <1>3, <1>4, <1>5

(* No request, whatever the others do, creates or completes a payment of a *)
(* cancelled reservation (assertBalance under the reservation's lock).     *)
THEOREM LiveCharges == Spec => NoChargeAfterCancel
<1>1. IInv /\ [Next]_vars => [ChargesLiveStay]_vars
  BY StepOnPayments
<1> QED
  BY <1>1, Invariant, PTL DEF Spec, NoChargeAfterCancel

(* A collected payment is only ever refunded (paymentService.update and    *)
(* changeStatus under the payment's lock).                                 *)
THEOREM Settled == Spec => SettledIsFinal
<1>1. IInv /\ [Next]_vars => [KeepsSettled]_vars
  BY StepOnPayments
<1> QED
  BY <1>1, Invariant, PTL DEF Spec, SettledIsFinal

-----------------------------------------------------------------------------
(* What has been collected, counted by the cent.                           *)

LEMMA CentsAre ==
  ASSUME NEW v, NEW e, NEW z
  PROVE  /\ (z \in Cents(v, e)) <=>
              (\E p \in Collected(v, e) : \E n \in 1 .. payment[p].amount : z = <<p, n>>)
         /\ (z \in Cents(v, e)') <=>
              (\E p \in Collected(v, e)' : \E n \in 1 .. payment'[p].amount : z = <<p, n>>)
BY DEF Cents

LEMMA CentsFinite ==
  /\ TypeOK => \A v, e : IsFiniteSet(Cents(v, e)) /\ Paid(v, e) \in Nat
  /\ TypeOK' => \A v, e : IsFiniteSet(Cents(v, e)') /\ Paid(v, e)' \in Nat
<1>1. IsFiniteSet(Payments \X (1 .. MaxTotal))
  <2>1. IsFiniteSet(1 .. MaxTotal)
    BY TotalAssumption, FS_Interval
  <2> QED
    BY <2>1, PaymentsAssumption, FS_Product
<1>2. ASSUME TypeOK, NEW v, NEW e PROVE Cents(v, e) \subseteq Payments \X (1 .. MaxTotal)
  <2> SUFFICES ASSUME NEW p \in Collected(v, e), NEW n \in 1 .. payment[p].amount
               PROVE  <<p, n>> \in Payments \X (1 .. MaxTotal)
    BY CentsAre
  <2>1. p \in Payments /\ payment[p].amount \in 0 .. MaxTotal
    BY <1>2 DEF Collected, TypeOK, PaymentRows, Amounts
  <2> QED
    BY <2>1, TotalAssumption
<1>3. ASSUME TypeOK', NEW v, NEW e PROVE Cents(v, e)' \subseteq Payments \X (1 .. MaxTotal)
  <2> SUFFICES ASSUME NEW p \in Collected(v, e)', NEW n \in 1 .. payment'[p].amount
               PROVE  <<p, n>> \in Payments \X (1 .. MaxTotal)
    BY CentsAre
  <2>1. p \in Payments /\ payment'[p].amount \in 0 .. MaxTotal
    BY <1>3 DEF Collected, TypeOK, PaymentRows, Amounts
  <2> QED
    BY <2>1, TotalAssumption
<1> QED
  BY <1>1, <1>2, <1>3, FS_Subset, FS_CardinalityType DEF Paid

Counts(p, v) == payment[p].stay = v /\ payment[p].status = "completed"

(* The sum of a reservation changes only with a completed payment of it.   *)
LEMMA SamePaid ==
  ASSUME NEW v,
         \A p \in Payments : payment'[p] = payment[p] \/ (~Counts(p, v) /\ ~Counts(p, v)')
  PROVE  \A e : Paid(v, e)' = Paid(v, e)
<1> SUFFICES ASSUME NEW e PROVE Cents(v, e)' = Cents(v, e)
  BY DEF Paid
<1>1. Collected(v, e)' = Collected(v, e)
  BY DEF Collected, Counts
<1>2. \A p \in Collected(v, e) : payment'[p] = payment[p]
  BY DEF Collected, Counts
<1>3. \A z : z \in Cents(v, e)' <=> z \in Cents(v, e)
  BY <1>1, <1>2, CentsAre
<1> QED
  BY <1>3

(* One payment more adds at most its amount.                               *)
LEMMA OneMorePaid ==
  ASSUME TypeOK, TypeOK', NEW v, NEW p \in Payments,
         \A q \in Payments \ {p} : payment'[q] = payment[q]
  PROVE  Paid(v, None)' <= Paid(v, p) + payment'[p].amount
<1>1. PICK n \in Nat : n = payment'[p].amount
  BY TotalAssumption DEF TypeOK, PaymentRows, Amounts
<1>2. PICK cents : cents = {p} \X (1 .. n)
  OBVIOUS
<1>3. IsFiniteSet(cents) /\ Cardinality(cents) = n
  <2>1. IsFiniteSet({p}) /\ Cardinality({p}) = 1
    BY FS_Singleton
  <2>2. IsFiniteSet(1 .. n) /\ Cardinality(1 .. n) = n
    BY FS_Interval
  <2>3. IsFiniteSet({p} \X (1 .. n))
    BY <2>1, <2>2, FS_Product
  <2>4. Cardinality({p} \X (1 .. n)) = Cardinality({p}) * Cardinality(1 .. n)
    BY <2>1, <2>2, FS_Product
  <2>5. Cardinality({p} \X (1 .. n)) = 1 * n
    BY <2>1, <2>2, <2>4
  <2> QED
    BY <1>2, <2>3, <2>5
<1>4. Cents(v, None)' \subseteq Cents(v, p) \union cents
  <2> SUFFICES ASSUME NEW q \in Collected(v, None)', NEW k \in 1 .. payment'[q].amount
               PROVE  <<q, k>> \in Cents(v, p) \union cents
    BY CentsAre
  <2>1. CASE q = p
    BY <1>1, <1>2, <2>1
  <2>2. CASE q # p
    BY <2>2, CentsAre DEF Collected
  <2> QED
    BY <2>1, <2>2
<1>5. IsFiniteSet(Cents(v, p)) /\ Paid(v, p) \in Nat
  BY CentsFinite
<1>6. /\ IsFiniteSet(Cents(v, p) \union cents)
      /\ Cardinality(Cents(v, p) \union cents) =
           Paid(v, p) + n - Cardinality(Cents(v, p) \cap cents)
  BY <1>3, <1>5, FS_Union DEF Paid
<1>7. Cardinality(Cents(v, p) \cap cents) \in Nat
  BY <1>5, FS_Intersection, FS_CardinalityType
<1>8. /\ Cardinality(Cents(v, p) \union cents) \in Nat
      /\ Paid(v, None)' <= Cardinality(Cents(v, p) \union cents) /\ Paid(v, None)' \in Nat
  BY <1>4, <1>6, FS_Subset, FS_CardinalityType, CentsFinite DEF Paid
<1> QED
  BY <1>1, <1>5, <1>6, <1>7, <1>8

(* A payment less.                                                         *)
LEMMA FewerPaid ==
  ASSUME TypeOK, TypeOK', NEW v,
         \A p \in Payments : payment'[p] = payment[p] \/ ~Counts(p, v)'
  PROVE  Paid(v, None)' <= Paid(v, None)
<1>1. Cents(v, None)' \subseteq Cents(v, None)
  <2> SUFFICES ASSUME NEW p \in Collected(v, None)', NEW n \in 1 .. payment'[p].amount
               PROVE  <<p, n>> \in Cents(v, None)
    BY CentsAre
  <2>1. payment'[p] = payment[p]
    BY DEF Collected, Counts
  <2> QED
    BY <2>1, CentsAre DEF Collected
<1> QED
  BY <1>1, CentsFinite, FS_Subset DEF Paid
-----------------------------------------------------------------------------
(* What a step leaves of what has been checked.                            *)

LEMMA Balanced ==
  ASSUME NEW t, BalanceConclusive(t),
         HoldsStay(t) => \A e : Paid(t.stay, e)' = Paid(t.stay, e)
  PROVE  BalanceConclusive(t)'
BY DEF BalanceConclusive, HoldsStay

(* A step of a request that writes neither reservations nor payments.      *)
LEMMA NothingPaid ==
  ASSUME BalanceInv, NEW w \in Workers, UNCHANGED <<stay, payment>>,
         \A x \in Workers \ {w} : tx'[x] = tx[x],
         BalanceConclusive(tx'[w])
  PROVE  NeverOvercharged' /\ \A x \in Workers : BalanceConclusive(tx[x])'
<1>1. \A v, e : Paid(v, e)' = Paid(v, e)
  BY SamePaid
<1>2. NeverOvercharged'
  BY <1>1 DEF BalanceInv, NeverOvercharged
<1>3. ASSUME NEW x \in Workers PROVE BalanceConclusive(tx[x])'
  <2>1. PICK t : t = tx'[x]
    OBVIOUS
  <2>2. BalanceConclusive(t)
    BY <2>1 DEF BalanceInv
  <2>3. BalanceConclusive(t)'
    BY <1>1, <2>2, Balanced
  <2> QED
    BY <2>1, <2>3
<1> QED
  BY <1>2, <1>3

LEMMA IdleBalanced == BalanceConclusive(Idle)
<1>1. Idle.op = "idle"
  BY DEF Idle
<1> HIDE DEF Idle
<1> QED
  BY <1>1 DEF BalanceConclusive, StayOps

(* The COMMIT of a request that held a reservation: the others hold other  *)
(* reservations, so what they have found is still so.                      *)
LEMMA Committed ==
  ASSUME BalanceInv, NEW w \in Workers, HoldsStay(tx[w]), End(w), NEW v0, v0 = tx[w].stay,
         \A v \in Reservations \ {v0} : stay'[v] = stay[v],
         \A v : v # v0 =>
           \A p \in Payments : payment'[p] = payment[p] \/ (~Counts(p, v) /\ ~Counts(p, v)'),
         Paid(v0, None)' <= stay'[v0].total
  PROVE  NeverOvercharged' /\ \A x \in Workers : BalanceConclusive(tx[x])'
<1>1. ASSUME NEW v, v # v0 PROVE \A e : Paid(v, e)' = Paid(v, e)
  BY <1>1, SamePaid
<1>2. NeverOvercharged'
  BY <1>1 DEF BalanceInv, NeverOvercharged
<1>3. /\ IInv /\ TypeOK /\ tx'[w] = Idle
      /\ \A x \in Workers \ {w} : tx'[x] = tx[x]
  BY DEF BalanceInv, IInv, TypeOK, End
<1>4. ASSUME NEW x \in Workers PROVE BalanceConclusive(tx[x])'
  <2>1. PICK t : t = tx'[x]
    OBVIOUS
  <2>2. CASE x = w
    <3>1. BalanceConclusive(t) /\ ~HoldsStay(t)
      BY <1>3, <2>1, <2>2, IdleBalanced, IdleOK
    <3> QED
      BY <2>1, <3>1, Balanced
  <2>3. CASE x # w
    <3>1. BalanceConclusive(t) /\ t = tx[x]
      BY <1>3, <2>1, <2>3 DEF BalanceInv
    <3>2. HoldsStay(t) => t.stay # v0
      BY <1>3, <2>3, <3>1, Own DEF StayFree
    <3>3. HoldsStay(t) => \A e : Paid(t.stay, e)' = Paid(t.stay, e)
      BY <1>1, <3>2
    <3> QED
      BY <2>1, <3>1, <3>3, Balanced
  <2> QED
    BY <2>2, <2>3
<1> QED
  BY <1>2, <1>4

-----------------------------------------------------------------------------
(* Steps that only change what one request carries.                        *)

LEMMA CheckBalance ==
  ASSUME BalanceInv, NEW w \in Workers, Check(w)
  PROVE  NeverOvercharged' /\ \A x \in Workers : BalanceConclusive(tx[x])'
<1>1. TypeOK /\ tx[w] \in Requests
  BY Own DEF BalanceInv
<1>2. PICK q : q = [tx[w] EXCEPT !.step = "checked"]
  OBVIOUS
<1>3. /\ q.op = tx[w].op /\ q.to = tx[w].to /\ q.stay = tx[w].stay /\ q.amount = tx[w].amount
      /\ q.payment = tx[w].payment /\ q.paid = tx[w].paid /\ q.row = tx[w].row
  BY <1>1, <1>2 DEF Requests
<1>4. /\ tx[w].op = "price" => tx[w].amount >= Paid(tx[w].stay, None)
      /\ tx[w].op = "status" /\ tx[w].to = "completed" =>
           Paid(tx[w].stay, tx[w].payment) + tx[w].paid.amount <= tx[w].row.total
  BY DEF Check, CheckCharge, CheckAmend, CheckStatus, CheckPrice, CheckCancel, BalanceAllows
<1>5. BalanceConclusive(q)
  <2>1. Paid(tx[w].stay, None) \in Nat /\ tx[w].amount \in Nat
    BY <1>1, CentsFinite, TotalAssumption DEF Requests, Amounts
  <2> QED
    BY <1>3, <1>4, <2>1 DEF BalanceConclusive
<1>6. tx'[w] = q /\ \A x \in Workers \ {w} : tx'[x] = tx[x]
  BY <1>1, <1>2 DEF Check, TypeOK, Requests
<1> QED
  BY <1>5, <1>6, NothingPaid DEF Check

LEMMA CarryBalance ==
  ASSUME BalanceInv, NEW w \in Workers,
         \/ Begin(w) \/ LockStay(w) \/ LockPayment(w) \/ LockOwnShift(w)
         \/ LockShift(w) \/ ShiftTotals(w) \/ Rollback(w) \/ CloseShift(w)
  PROVE  NeverOvercharged' /\ \A x \in Workers : BalanceConclusive(tx[x])'
<1>1. TypeOK /\ tx[w] \in Requests /\ RequestShape(tx[w]) /\ BalanceConclusive(tx[w])
  BY Own DEF BalanceInv
<1>2. UNCHANGED <<stay, payment>> /\ \A x \in Workers \ {w} : tx'[x] = tx[x]
  BY <1>1 DEF TypeOK, Begin, BeginStay, BeginPayment, BeginClose, LockStay, LockPayment,
     LockOwnShift, LockShift, ShiftTotals, Rollback, CloseShift, End
<1>3. BalanceConclusive(tx'[w])
  <2>1. CASE Begin(w)
    <3>1. tx'[w].step = "begun"
      BY <1>1, <2>1 DEF Begin, BeginStay, BeginPayment, BeginClose, Request, TypeOK
    <3> QED
      BY <3>1 DEF BalanceConclusive
  <2>2. CASE LockStay(w) \/ LockPayment(w)
    <3>1. tx'[w].step \in {"stay", "payment"}
      BY <1>1, <2>2 DEF LockStay, LockPayment, TypeOK, Requests
    <3> QED
      BY <3>1 DEF BalanceConclusive
  <2>3. CASE LockOwnShift(w)
    <3>1. PICK s \in Shifts : tx' = [tx EXCEPT ![w].step = "shift", ![w].shift = s]
      BY <2>3 DEF LockOwnShift
    <3>2. PICK q : q = [tx[w] EXCEPT !.step = "shift", !.shift = s]
      OBVIOUS
    <3>3. tx'[w] = q
      BY <1>1, <3>1, <3>2 DEF TypeOK, Requests
    <3>4. /\ q.op = tx[w].op /\ q.to = tx[w].to /\ q.stay = tx[w].stay
          /\ q.amount = tx[w].amount /\ q.payment = tx[w].payment
          /\ q.paid = tx[w].paid /\ q.row = tx[w].row
      BY <1>1, <3>2 DEF Requests
    <3>5. tx[w].op = "status" /\ tx[w].step = "checked"
      BY <2>3 DEF LockOwnShift
    <3>6. BalanceConclusive(q)
      BY <1>1, <3>4, <3>5 DEF BalanceConclusive
    <3> QED
      BY <3>3, <3>6
  <2>4. CASE LockShift(w) \/ ShiftTotals(w)
    <3>1. tx'[w].op = "close"
      BY <1>1, <2>4 DEF LockShift, ShiftTotals, TypeOK, Requests
    <3> QED
      BY <3>1 DEF BalanceConclusive, StayOps
  <2>5. CASE Rollback(w) \/ CloseShift(w)
    <3>1. tx'[w] = Idle
      BY <1>1, <2>5 DEF Rollback, CloseShift, End, TypeOK
    <3> QED
      BY <3>1, IdleBalanced
  <2> QED
    BY <2>1, <2>2, <2>3, <2>4, <2>5
<1> QED
  BY <1>2, <1>3, NothingPaid

-----------------------------------------------------------------------------
(* Writes.                                                                 *)

LEMMA CreateBalance ==
  ASSUME BalanceInv, TypeOK', NEW w \in Workers, CreatePayment(w)
  PROVE  NeverOvercharged' /\ \A x \in Workers : BalanceConclusive(tx[x])'
<1>1. /\ IInv /\ TypeOK /\ tx[w].stay \in Reservations
      /\ HoldsStay(tx[w]) /\ End(w) /\ UNCHANGED stay
  BY Own DEF BalanceInv, CreatePayment, HoldsStay, StayOps, RequestShape
<1>2. PICK row : row = [status |-> "pending", stay |-> tx[w].stay, amount |-> tx[w].amount]
  OBVIOUS
<1>3. PICK p \in Payments : payment[p] = NoPayment /\ payment' = [payment EXCEPT ![p] = row]
  BY <1>2 DEF CreatePayment
<1>4. /\ payment'[p].status = "pending" /\ payment[p].status = "none"
      /\ \A q \in Payments \ {p} : payment'[q] = payment[q]
  BY <1>1, <1>2, <1>3 DEF TypeOK, NoPayment
<1>5. \A v : \A q \in Payments : payment'[q] = payment[q] \/ (~Counts(q, v) /\ ~Counts(q, v)')
  BY <1>4 DEF Counts
<1>6. PICK v0 \in Reservations : v0 = tx[w].stay
  BY <1>1
<1>7. Paid(v0, None)' <= stay'[v0].total
  BY <1>1, <1>5, SamePaid DEF BalanceInv, NeverOvercharged
<1> QED
  BY <1>1, <1>5, <1>6, <1>7, Committed

(* The status of a payment, or its amount while it is pending.             *)
LEMMA PaymentBalance ==
  ASSUME BalanceInv, TypeOK', NEW w \in Workers,
         AmendPayment(w) \/ MarkPayment(w) \/ CompletePayment(w) \/ RefundPayment(w)
  PROVE  NeverOvercharged' /\ \A x \in Workers : BalanceConclusive(tx[x])'
<1>1. /\ IInv /\ TypeOK /\ HoldsPayment(tx[w]) /\ HoldsStay(tx[w])
      /\ End(w) /\ UNCHANGED stay
      /\ tx[w].op \in StayOps /\ tx[w].step \in {"checked", "shift"}
  BY Own DEF BalanceInv, AmendPayment, MarkPayment, CompletePayment, RefundPayment,
     HoldsPayment, HoldsStay, PaymentOps, StayOps
<1>2. PICK p \in Payments : p = tx[w].payment
  BY <1>1, OwnPayment
<1>3. PICK v0 \in Reservations : v0 = tx[w].stay
  BY <1>1, OwnPayment
<1>4. /\ payment \in [Payments -> PaymentRows] /\ payment[p] \in PaymentRows
      /\ tx[w].paid = payment[p] /\ payment[p].stay = v0
      /\ tx[w].row = stay[v0] /\ CheckConclusive(tx[w]) /\ BalanceConclusive(tx[w])
  BY <1>1, <1>2, <1>3, Own, OwnPayment DEF ReadsFresh, BalanceInv
<1>5. \A q \in Payments \ {p} : payment'[q] = payment[q]
  BY <1>2, <1>4 DEF AmendPayment, MarkPayment, CompletePayment, RefundPayment
<1>6. payment'[p].stay = v0
  BY <1>2, <1>4 DEF AmendPayment, MarkPayment, CompletePayment, RefundPayment, PaymentRows
<1>7. \A v : v # v0 =>
        \A q \in Payments : payment'[q] = payment[q] \/ (~Counts(q, v) /\ ~Counts(q, v)')
  BY <1>4, <1>5, <1>6 DEF Counts
<1>8. Paid(v0, None) <= stay[v0].total
  BY DEF BalanceInv, NeverOvercharged
<1>9. Paid(v0, None)' <= stay'[v0].total
  <2>1. CASE CompletePayment(w)
    <3>1. tx[w].op = "status" /\ tx[w].to = "completed"
      BY <2>1 DEF CompletePayment
    <3>2. Paid(v0, p) + payment[p].amount <= stay[v0].total
      BY <1>1, <1>2, <1>3, <1>4, <3>1 DEF BalanceConclusive
    <3>3. payment'[p].amount = payment[p].amount
      BY <1>2, <1>4, <2>1 DEF CompletePayment, PaymentRows
    <3>4. Paid(v0, None)' <= Paid(v0, p) + payment'[p].amount
      BY <1>1, <1>5, OneMorePaid
    <3>5. /\ Paid(v0, None)' \in Nat /\ Paid(v0, p) \in Nat /\ payment[p].amount \in Nat
          /\ stay[v0].total \in Nat
      BY <1>1, <1>4, CentsFinite, TotalAssumption DEF PaymentRows, Amounts, TypeOK, StayRows
    <3> QED
      BY <1>1, <3>2, <3>3, <3>4, <3>5
  <2>2. CASE RefundPayment(w)
    <3>1. payment'[p].status = "refunded"
      BY <1>2, <1>4, <2>2 DEF RefundPayment, PaymentRows
    <3>2. Paid(v0, None)' <= Paid(v0, None)
      BY <1>1, <1>5, <3>1, FewerPaid DEF Counts
    <3>3. /\ Paid(v0, None)' \in Nat /\ Paid(v0, None) \in Nat /\ stay[v0].total \in Nat
      BY <1>1, CentsFinite, TotalAssumption DEF Amounts, TypeOK, StayRows
    <3> QED
      BY <1>1, <1>8, <3>2, <3>3
  <2>3. CASE AmendPayment(w) \/ MarkPayment(w)
    <3>1. payment[p].status # "completed" /\ payment'[p].status # "completed"
      <4>1. CASE AmendPayment(w)
        BY <1>1, <1>2, <1>4, <4>1 DEF AmendPayment, CheckConclusive, PaymentRows
      <4>2. CASE MarkPayment(w)
        <5>1. tx[w].op = "status" /\ tx[w].to \in {"pending", "failed"}
          BY <4>2 DEF MarkPayment
        <5>2. tx[w].to \in Transitions[payment[p].status]
          BY <1>1, <1>4, <5>1 DEF CheckConclusive
        <5>3. payment[p].status # "completed"
          BY <5>1, <5>2 DEF Transitions
        <5>4. payment'[p].status = tx[w].to
          BY <1>2, <1>4, <4>2 DEF MarkPayment, PaymentRows
        <5> QED
          BY <5>1, <5>3, <5>4
      <4> QED
        BY <2>3, <4>1, <4>2
    <3>2. Paid(v0, None)' = Paid(v0, None)
      BY <1>5, <3>1, SamePaid DEF Counts
    <3> QED
      BY <1>1, <1>8, <3>2
  <2> QED
    BY <2>1, <2>2, <2>3
<1> QED
  BY <1>1, <1>3, <1>7, <1>9, Committed

LEMMA StayBalance ==
  ASSUME BalanceInv, TypeOK', NEW w \in Workers, SetPrice(w) \/ CancelStay(w)
  PROVE  NeverOvercharged' /\ \A x \in Workers : BalanceConclusive(tx[x])'
<1>1. /\ IInv /\ TypeOK /\ tx[w].stay \in Reservations
      /\ HoldsStay(tx[w]) /\ End(w) /\ UNCHANGED payment
      /\ tx[w].op \in StayOps /\ tx[w].step = "checked" /\ BalanceConclusive(tx[w])
  BY Own DEF BalanceInv, SetPrice, CancelStay, HoldsStay, StayOps, RequestShape
<1>2. PICK v0 \in Reservations : v0 = tx[w].stay
  BY <1>1
<1>3. \A v, e : Paid(v, e)' = Paid(v, e)
  BY <1>1, SamePaid
<1>4. \A v \in Reservations \ {v0} : stay'[v] = stay[v]
  BY <1>1, <1>2 DEF SetPrice, CancelStay, TypeOK
<1>5. Paid(v0, None) <= stay'[v0].total
  <2>1. CASE SetPrice(w)
    <3>1. tx[w].op = "price" /\ stay'[v0].total = tx[w].amount
      BY <1>1, <1>2, <2>1 DEF SetPrice, TypeOK
    <3> QED
      BY <1>1, <1>2, <3>1 DEF BalanceConclusive
  <2>2. CASE CancelStay(w)
    <3>1. stay'[v0].total = stay[v0].total
      BY <1>1, <1>2, <2>2 DEF CancelStay, TypeOK, StayRows
    <3> QED
      BY <3>1 DEF BalanceInv, NeverOvercharged
  <2> QED
    BY <2>1, <2>2
<1> QED
  BY <1>1, <1>2, <1>3, <1>4, <1>5, Committed

LEMMA OtherBalance ==
  ASSUME BalanceInv, UNCHANGED <<stay, payment, tx>>
  PROVE  NeverOvercharged' /\ \A x \in Workers : BalanceConclusive(tx[x])'
<1>1. \A v, e : Paid(v, e)' = Paid(v, e)
  BY SamePaid
<1>2. NeverOvercharged'
  BY <1>1 DEF BalanceInv, NeverOvercharged
<1>3. ASSUME NEW x \in Workers PROVE BalanceConclusive(tx[x])'
  <2>1. PICK t : t = tx[x]
    OBVIOUS
  <2>2. BalanceConclusive(t)'
    BY <1>1, <2>1, Balanced DEF BalanceInv
  <2> QED
    BY <2>1, <2>2
<1> QED
  BY <1>2, <1>3

LEMMA NextBalance == ASSUME BalanceInv, [Next]_vars PROVE BalanceInv'
<1>1. IInv' /\ TypeOK'
  BY NextIInv DEF BalanceInv, IInv
<1>2. ASSUME NEW w \in Workers, Step(w)
      PROVE  NeverOvercharged' /\ \A x \in Workers : BalanceConclusive(tx[x])'
  <2>1. CASE \/ Begin(w) \/ LockStay(w) \/ LockPayment(w) \/ LockOwnShift(w)
             \/ LockShift(w) \/ ShiftTotals(w) \/ Rollback(w) \/ CloseShift(w)
    BY <2>1, CarryBalance
  <2>2. CASE Check(w)
    BY <2>2, CheckBalance
  <2>3. CASE CreatePayment(w)
    BY <1>1, <2>3, CreateBalance
  <2>4. CASE AmendPayment(w) \/ MarkPayment(w) \/ CompletePayment(w) \/ RefundPayment(w)
    BY <1>1, <2>4, PaymentBalance
  <2>5. CASE SetPrice(w) \/ CancelStay(w)
    BY <1>1, <2>5, StayBalance
  <2> QED
    BY <1>2, <2>1, <2>2, <2>3, <2>4, <2>5 DEF Step, Commit
<1>3. ASSUME UNCHANGED vars \/ \E u \in Users, s \in Shifts : OpenShift(u, s)
      PROVE  NeverOvercharged' /\ \A x \in Workers : BalanceConclusive(tx[x])'
  BY <1>3, OtherBalance DEF vars, OpenShift
<1> QED
  BY <1>1, <1>2, <1>3 DEF Next, BalanceInv

LEMMA InitBalance == Init => BalanceInv
<1> SUFFICES ASSUME Init PROVE BalanceInv
  OBVIOUS
<1>1. IInv
  BY InitIInv
<1>2. ASSUME NEW v PROVE Cents(v, None) = {}
  BY CentsAre DEF Collected, Init, NoPayment
<1>3. \A v : Paid(v, None) = 0
  BY <1>2, FS_EmptySet DEF Paid
<1>4. NeverOvercharged
  BY <1>3, TotalAssumption DEF Init, NeverOvercharged
<1>5. \A w \in Workers : BalanceConclusive(tx[w])
  BY IdleBalanced DEF Init
<1> QED
  BY <1>1, <1>4, <1>5 DEF BalanceInv

(* The strengthening for the price: the sum that a request has compared    *)
(* with the price stays enough until the request commits, because only it  *)
(* may change the payments of a reservation it has locked.                 *)
THEOREM Balance == Spec => []BalanceInv
  BY InitBalance, NextBalance, PTL DEF Spec

(* For any number of employees, payments and prices, what has been         *)
(* collected for a reservation never exceeds its price, whatever payments, *)
(* price changes and cancellations interleave (assertBalance).             *)
THEOREM Overcharge == Spec => []NeverOvercharged
<1>1. BalanceInv => NeverOvercharged
  BY DEF BalanceInv
<1> QED
  BY <1>1, Balance, PTL
=============================================================================
