--------------------------- MODULE OnlinePayments ---------------------------
(***************************************************************************)
(* Online payments through the gateway: checkout, settlement, refund, the  *)
(* webhook and the reconciliation job, under concurrent requests, lost     *)
(* answers, crashes, and events lost, repeated and reordered.              *)
(*                                                                         *)
(* A request is split where it waits for the row of the reservation, calls *)
(* the gateway, or ends a transaction.  The row of a checkout is locked    *)
(* only within one step.  The desk (module Billing), which locks the       *)
(* reservation for all it does, takes one step.  Amounts are whole cents.  *)
(*                                                                         *)
(* Left out: the demo provider, currency, amounts of the gateway that do   *)
(* not match (settle and matchesRefund refuse them), refunds made outside  *)
(* the hotel, the mail of a refund, and LIMIT 10 of the job.               *)
(***************************************************************************)
EXTENDS Integers, FiniteSets, TLC

CONSTANTS
  Workers,         \* requests in progress at the same time
  Job,             \* the worker of the reconciliation, one per process
  Reservations,
  Checkouts,       \* ids of online_payment, numbered by created_at
  Refused,         \* checkouts whose refund the gateway always refuses
  Prices,          \* prices a reservation can be given
  FirstPrice,
  DepositPercent,
  None

ASSUME JobAssumption == Job \notin Workers
ASSUME CheckoutsAssumption ==
  Checkouts \subseteq Nat /\ IsFiniteSet(Checkouts) /\ Refused \subseteq Checkouts
ASSUME PricesAssumption == Prices \subseteq Nat \ {0} /\ FirstPrice \in Prices
ASSUME DepositAssumption == DepositPercent \in 0 .. 100

VARIABLES
  stay,      \* reservation: status, total_price, and what the desk has collected
  online,    \* table online_payment, with the status of the payment it created
  gateway,   \* sessions and refunds at the gateway
  event,     \* events the gateway has sent: each is delivered any number of times
  seen,      \* table payment_webhook
  tx,        \* the request each worker is serving
  job        \* the pass of reconcile in progress: its phase and what it still has to do

vars == <<stay, online, gateway, event, seen, tx, job>>

Actors == Workers \union {Job}

StayRows == [status : {"confirmed", "cancelled"}, total : Prices, desk : Nat]
CheckoutStatus == {"none", "pending", "paid", "expired", "refund_pending", "refunded"}

(* `refund`: provider_refund is saved; `due`: expires_at <= now().         *)
CheckoutRows == [status : CheckoutStatus, stay : Reservations \union {None}, amount : Nat,
                 payment : {"none", "completed", "refunded"}, refund : BOOLEAN, due : BOOLEAN]

(* `refund`: its present state; `answer`: what the first call that asked   *)
(* for it was answered.                                                    *)
GatewayRows == [session : {"none", "open", "expired", "paid"},
                refund : {"none", "pending", "succeeded"},
                answer : {"none", "pending", "succeeded"}]
Events == [type : {"paid", "expired", "refunded"}, checkout : Checkouts]

ASSUME NoneAssumption == None \notin Reservations \union Checkouts \union Events

NoCheckout == [status |-> "none", stay |-> None, amount |-> 0, payment |-> "none",
               refund |-> FALSE, due |-> FALSE]

Ops == {"idle", "create", "settle", "refund", "finish", "event"}
Steps == {"none", "begun", "stay", "session", "call", "save", "record"}

Requests == [op : Ops, step : Steps, stay : Reservations \union {None},
             checkout : Checkouts \union {None}, amount : Nat, row : StayRows,
             answer : {"none", "pending", "succeeded"}, event : Events \union {None}]

Request(op, step, v, c, e) ==
  [op |-> op, step |-> step, stay |-> v, checkout |-> c, amount |-> 0,
   row |-> [status |-> "cancelled", total |-> FirstPrice, desk |-> 0],
   answer |-> "none", event |-> e]

Idle == Request("idle", "none", None, None, None)
NoJob == [phase |-> "none", todo |-> {}]

TypeOK ==
  /\ stay \in [Reservations -> StayRows]
  /\ online \in [Checkouts -> CheckoutRows]
  /\ gateway \in [Checkouts -> GatewayRows]
  /\ event \subseteq Events
  /\ seen \subseteq event
  /\ tx \in [Actors -> Requests]
  /\ job \in [phase : {"none", "refunds", "sessions"}, todo : SUBSET Checkouts]

Init ==
  /\ stay = [v \in Reservations |-> [status |-> "confirmed", total |-> FirstPrice, desk |-> 0]]
  /\ online = [c \in Checkouts |-> NoCheckout]
  /\ gateway = [c \in Checkouts |-> [session |-> "none", refund |-> "none", answer |-> "none"]]
  /\ event = {} /\ seen = {}
  /\ tx = [w \in Actors |-> Idle]
  /\ job = NoJob

-----------------------------------------------------------------------------
(* Queries and locks.                                                      *)

(* Completed payments of a reservation, at the desk and online, these as   *)
(* the number of their cents.                                              *)
PaidOnline(v) == {c \in Checkouts : online[c].stay = v /\ online[c].payment = "completed"}

Cents(v) == UNION {{c} \X (1 .. online[c].amount) : c \in PaidOnline(v)}

Collected(v) == stay[v].desk + Cardinality(Cents(v))

Pending(v) == {c \in Checkouts : online[c].stay = v /\ online[c].status = "pending"}

(* Of the deposit or the balance, what create would ask for now.           *)
Deposit(total) == (total * DepositPercent + 99) \div 100
Offers(v, total) == {n \in 1 .. total :
  Collected(v) + n = total \/ Collected(v) + n = Deposit(total)}

HoldsStay(t) == t.op \in {"create", "settle", "finish"} /\ t.step \in {"stay", "session"}

(* Mutant: SELECT of the reservation without FOR UPDATE. *)
StayNotLocked(v) == TRUE

StayUnlocked(v) == \A x \in Actors : HoldsStay(tx[x]) => tx[x].stay # v

WaitsForStay(w) == tx[w].op \in {"create", "settle", "finish"} /\ tx[w].step = "begun"

LockStay(w) ==
  /\ WaitsForStay(w)
  /\ StayUnlocked(tx[w].stay)
  /\ tx' = [tx EXCEPT ![w].step = "stay",
                     ![w].row = IF tx[w].op = "finish" THEN @ ELSE stay[tx[w].stay]]
  /\ UNCHANGED <<stay, online, gateway, event, seen, job>>

(* The end of a call: a webhook goes on to record its event.               *)
Return(w) ==
  tx' = [tx EXCEPT ![w] = IF tx[w].event = None THEN Idle
                          ELSE Request("event", "record", None, None, tx[w].event)]

(* An error, a lost answer or a crash: ROLLBACK, and the job's pass ends.  *)
Fail(w) ==
  /\ tx[w] # Idle \/ (w = Job /\ job # NoJob)
  /\ tx' = [tx EXCEPT ![w] = Idle]
  /\ job' = IF w = Job THEN NoJob ELSE job
  /\ UNCHANGED <<stay, online, gateway, event, seen>>

-----------------------------------------------------------------------------
(* create.  The session exists at the gateway before its row is committed; *)
(* with a checkout pending, create returns it and changes nothing.         *)

BeginCreate(w) == \E v \in Reservations :
  /\ tx[w] = Idle
  /\ tx' = [tx EXCEPT ![w] = Request("create", "begun", v, None, None)]
  /\ UNCHANGED <<stay, online, gateway, event, seen, job>>

OpenSession(w) ==
  /\ tx[w].op = "create" /\ tx[w].step = "stay"
  /\ tx[w].row.status = "confirmed"
  /\ Pending(tx[w].stay) = {}
  /\ \E c \in Checkouts, n \in Offers(tx[w].stay, tx[w].row.total) :
       /\ gateway[c].session = "none"
       /\ gateway' = [gateway EXCEPT ![c].session = "open"]
       /\ tx' = [tx EXCEPT ![w].step = "session", ![w].checkout = c, ![w].amount = n]
  /\ UNCHANGED <<stay, online, event, seen, job>>

SaveCheckout(w) ==
  /\ tx[w].op = "create" /\ tx[w].step = "session"
  /\ online' = [online EXCEPT ![tx[w].checkout] =
                  [NoCheckout EXCEPT !.status = "pending", !.stay = tx[w].stay,
                                     !.amount = tx[w].amount]]
  /\ Return(w)
  /\ UNCHANGED <<stay, gateway, event, seen, job>>

-----------------------------------------------------------------------------
(* settle.                                                                 *)

Settles(w) == tx[w].op = "settle" /\ tx[w].step = "stay"

Unsettled(c) == online[c].status \in {"pending", "expired"}

BalanceAllows(t) ==
  /\ t.row.status # "cancelled"
  /\ Collected(t.stay) + online[t.checkout].amount <= t.row.total

SettleBook(w) ==
  /\ Settles(w) /\ Unsettled(tx[w].checkout)
  /\ BalanceAllows(tx[w])
  /\ online' = [online EXCEPT ![tx[w].checkout].status = "paid",
                              ![tx[w].checkout].payment = "completed"]
  /\ Return(w)
  /\ UNCHANGED <<stay, gateway, event, seen, job>>

SettleLate(w) ==
  /\ Settles(w) /\ Unsettled(tx[w].checkout)
  /\ ~BalanceAllows(tx[w])
  /\ online' = [online EXCEPT ![tx[w].checkout].status = "refund_pending"]
  /\ Return(w)
  /\ UNCHANGED <<stay, gateway, event, seen, job>>

SettleAgain(w) ==
  /\ Settles(w) /\ ~Unsettled(tx[w].checkout)
  /\ Return(w)
  /\ UNCHANGED <<stay, online, gateway, event, seen, job>>

Settle(w) == SettleBook(w) \/ SettleLate(w) \/ SettleAgain(w)

-----------------------------------------------------------------------------
(* refund: the request is committed before the gateway is called, and the  *)
(* call carries an idempotency key.                                        *)

RequestRefund(w, c) ==
  /\ tx[w] = Idle
  /\ online[c].status \in {"paid", "refund_pending"}
  /\ online' = [online EXCEPT ![c].status = "refund_pending"]
  /\ tx' = [tx EXCEPT ![w] = Request("refund", "call", online[c].stay, c, None)]

BeginRefund(w) == \E c \in Checkouts :
  /\ RequestRefund(w, c)
  /\ UNCHANGED <<stay, gateway, event, seen, job>>

Succeeded(c) == [type |-> "refunded", checkout |-> c]

(* refunds.create, with the key refund:<id>.  The gateway keeps the answer *)
(* to the first call and replays it to every other one with that key,      *)
(* whatever became of the refund since.                                    *)
CallRefund(w) == \E r \in {"pending", "succeeded"} : LET c == tx[w].checkout IN
  /\ tx[w].op = "refund" /\ tx[w].step = "call"
  /\ c \notin Refused
  /\ gateway[c].answer \in {"none", r}
  /\ gateway' = [gateway EXCEPT ![c].answer = r,
                                ![c].refund = IF @ = "none" THEN r ELSE @]
  /\ event' = IF r = "succeeded" THEN event \union {Succeeded(c)} ELSE event
  /\ tx' = [tx EXCEPT ![w].step = "save", ![w].answer = r]
  /\ UNCHANGED <<stay, online, seen, job>>

(* Mutant: any answer of the gateway finishes the refund. *)
SaveRefundAnyAnswer(w) == LET c == tx[w].checkout IN
  /\ tx[w].op = "refund" /\ tx[w].step = "save"
  /\ online' = [online EXCEPT ![c].refund = TRUE]
  /\ tx' = [tx EXCEPT ![w] = Request("finish", "begun", tx[w].stay, c, None)]
  /\ UNCHANGED <<stay, gateway, event, seen, job>>

(* Mutant: the refund is left for refund.updated to finish. *)
SaveRefundAndWait(w) == LET c == tx[w].checkout IN
  /\ tx[w].op = "refund" /\ tx[w].step = "save"
  /\ online' = [online EXCEPT ![c].refund = TRUE]
  /\ Return(w)
  /\ UNCHANGED <<stay, gateway, event, seen, job>>

SaveRefund(w) == LET c == tx[w].checkout IN
  /\ tx[w].op = "refund" /\ tx[w].step = "save"
  /\ online' = [online EXCEPT ![c].refund = TRUE]
  /\ IF tx[w].answer = "succeeded"
     THEN tx' = [tx EXCEPT ![w] = Request("finish", "begun", tx[w].stay, c, None)]
     ELSE Return(w)
  /\ UNCHANGED <<stay, gateway, event, seen, job>>

Finishes(w) == tx[w].op = "finish" /\ tx[w].step = "stay"

(* Mutant: the payment of the refunded checkout stays completed. *)
FinishRefundOnly(w) == LET c == tx[w].checkout IN
  /\ Finishes(w) /\ online[c].status = "refund_pending" /\ online[c].refund
  /\ online' = [online EXCEPT ![c].status = "refunded"]
  /\ Return(w)
  /\ UNCHANGED <<stay, gateway, event, seen, job>>

FinishRefund(w) == LET c == tx[w].checkout IN
  /\ Finishes(w) /\ online[c].status = "refund_pending" /\ online[c].refund
  /\ online' = [online EXCEPT ![c].status = "refunded",
       ![c].payment = IF online[c].payment = "completed" THEN "refunded" ELSE online[c].payment]
  /\ Return(w)
  /\ UNCHANGED <<stay, gateway, event, seen, job>>

FinishAgain(w) ==
  /\ Finishes(w) /\ online[tx[w].checkout].status = "refunded"
  /\ Return(w)
  /\ UNCHANGED <<stay, online, gateway, event, seen, job>>

Finish(w) == FinishRefund(w) \/ FinishAgain(w)

-----------------------------------------------------------------------------
(* handleEvent: the check against payment_webhook, the row of the session  *)
(* or of the refund, the effect, and the record of the event, each in a    *)
(* statement or transaction of its own.                                    *)

(* An event recorded before is answered and has no effect.                 *)
ReceiveEvent(w) == \E e \in event \ seen :
  /\ tx[w] = Idle
  /\ tx' = [tx EXCEPT ![w] = Request("event", "begun", None, None, e)]
  /\ UNCHANGED <<stay, online, gateway, event, seen, job>>

Handles(w, type) == tx[w].op = "event" /\ tx[w].step = "begun" /\ tx[w].event.type = type

(* Mutant: the event is recorded before it is settled. *)
HandlePaidRecordsFirst(w) == LET c == tx[w].event.checkout IN
  /\ Handles(w, "paid") /\ online[c].status # "none"
  /\ seen' = seen \union {tx[w].event}
  /\ tx' = [tx EXCEPT ![w] = Request("settle", "begun", online[c].stay, c, None)]
  /\ UNCHANGED <<stay, online, gateway, event, job>>

(* A session without a row fails, for the gateway to deliver it again.     *)
HandlePaid(w) == LET c == tx[w].event.checkout IN
  /\ Handles(w, "paid") /\ online[c].status # "none"
  /\ tx' = [tx EXCEPT ![w] = Request("settle", "begun", online[c].stay, c, tx[w].event)]
  /\ UNCHANGED <<stay, online, gateway, event, seen, job>>

Expire(c) == online' = IF online[c].status = "pending"
                       THEN [online EXCEPT ![c].status = "expired"] ELSE online

HandleExpired(w) == LET c == tx[w].event.checkout IN
  /\ Handles(w, "expired") /\ online[c].status # "none"
  /\ Expire(c)
  /\ Return(w)
  /\ UNCHANGED <<stay, gateway, event, seen, job>>

(* A refund whose id is not saved yet has no row: its event is recorded    *)
(* and has no effect.                                                      *)
HandleRefunded(w) == LET c == tx[w].event.checkout IN
  /\ Handles(w, "refunded")
  /\ IF online[c].refund /\ online[c].status = "refund_pending"
     THEN tx' = [tx EXCEPT ![w] = Request("finish", "begun", online[c].stay, c, tx[w].event)]
     ELSE Return(w)
  /\ UNCHANGED <<stay, online, gateway, event, seen, job>>

RecordEvent(w) ==
  /\ tx[w].op = "event" /\ tx[w].step = "record"
  /\ seen' = seen \union {tx[w].event}
  /\ tx' = [tx EXCEPT ![w] = Idle]
  /\ UNCHANGED <<stay, online, gateway, event, job>>

Handle(w) == HandlePaid(w) \/ HandleExpired(w) \/ HandleRefunded(w) \/ RecordEvent(w)

-----------------------------------------------------------------------------
(* reconcile: pending refunds by age, then the sessions that are due.      *)

JobStart ==
  /\ job = NoJob /\ tx[Job] = Idle
  /\ job' = [phase |-> "refunds",
             todo |-> {c \in Checkouts : online[c].status = "refund_pending"}]
  /\ UNCHANGED <<stay, online, gateway, event, seen, tx>>

JobRefund ==
  /\ job.phase = "refunds" /\ job.todo # {} /\ tx[Job] = Idle
  /\ \E c \in job.todo :
       /\ \A d \in job.todo : c <= d
       /\ job' = [job EXCEPT !.todo = job.todo \ {c}]
       /\ \/ RequestRefund(Job, c)
          \/ online[c].status = "refunded" /\ UNCHANGED <<online, tx>>
  /\ UNCHANGED <<stay, gateway, event, seen>>

JobSessions ==
  /\ job.phase = "refunds" /\ job.todo = {} /\ tx[Job] = Idle
  /\ job' = [phase |-> "sessions",
             todo |-> {c \in Checkouts : online[c].status = "pending" /\ online[c].due}]
  /\ UNCHANGED <<stay, online, gateway, event, seen, tx>>

(* Mutant: a session that is due is only looked at for having expired. *)
JobRetrieveExpired(c) ==
  /\ job.phase = "sessions" /\ c \in job.todo /\ tx[Job] = Idle
  /\ job' = [job EXCEPT !.todo = job.todo \ {c}]
  /\ IF gateway[c].session = "expired" THEN Expire(c) ELSE UNCHANGED online
  /\ UNCHANGED <<stay, gateway, event, seen, tx>>

JobRetrieve(c) ==
  /\ job.phase = "sessions" /\ c \in job.todo /\ tx[Job] = Idle
  /\ job' = [job EXCEPT !.todo = job.todo \ {c}]
  /\ \/ /\ gateway[c].session = "paid"
        /\ tx' = [tx EXCEPT ![Job] = Request("settle", "begun", online[c].stay, c, None)]
        /\ UNCHANGED online
     \/ gateway[c].session = "expired" /\ Expire(c) /\ UNCHANGED tx
     \/ gateway[c].session = "open" /\ UNCHANGED <<online, tx>>
  /\ UNCHANGED <<stay, gateway, event, seen>>

JobEnd ==
  /\ job.phase = "sessions" /\ job.todo = {} /\ tx[Job] = Idle
  /\ job' = NoJob
  /\ UNCHANGED <<stay, online, gateway, event, seen, tx>>

-----------------------------------------------------------------------------
(* The gateway, the clock and the desk.                                    *)

(* The guest has the address of a session only once its row is committed.  *)
GuestPays(c) ==
  /\ online[c].status # "none" /\ gateway[c].session = "open"
  /\ gateway' = [gateway EXCEPT ![c].session = "paid"]
  /\ event' = event \union {[type |-> "paid", checkout |-> c]}
  /\ UNCHANGED <<stay, online, seen, tx, job>>

SessionExpires(c) ==
  /\ gateway[c].session = "open"
  /\ gateway' = [gateway EXCEPT ![c].session = "expired"]
  /\ event' = event \union {[type |-> "expired", checkout |-> c]}
  /\ UNCHANGED <<stay, online, seen, tx, job>>

RefundSucceeds(c) ==
  /\ gateway[c].refund = "pending"
  /\ gateway' = [gateway EXCEPT ![c].refund = "succeeded"]
  /\ event' = event \union {Succeeded(c)}
  /\ UNCHANGED <<stay, online, seen, tx, job>>

BecomesDue(c) ==
  /\ online[c].status = "pending" /\ ~online[c].due
  /\ online' = [online EXCEPT ![c].due = TRUE]
  /\ UNCHANGED <<stay, gateway, event, seen, tx, job>>

(* What the desk does to a reservation, each under its lock.               *)
DeskCollects(v) == \E n \in 1 .. stay[v].total :
  /\ stay[v].status # "cancelled" /\ Collected(v) + n <= stay[v].total
  /\ stay' = [stay EXCEPT ![v].desk = stay[v].desk + n]

DeskRefunds(v) == \E n \in 1 .. stay[v].desk :
  stay' = [stay EXCEPT ![v].desk = stay[v].desk - n]

SetPrice(v) == \E n \in Prices :
  /\ stay[v].status # "cancelled" /\ n >= Collected(v)
  /\ stay' = [stay EXCEPT ![v].total = n]

CancelStay(v) ==
  /\ stay[v].status = "confirmed"
  /\ stay' = [stay EXCEPT ![v].status = "cancelled"]

DeskStep(v) ==
  /\ StayUnlocked(v)
  /\ DeskCollects(v) \/ DeskRefunds(v) \/ SetPrice(v) \/ CancelStay(v)
  /\ UNCHANGED <<online, gateway, event, seen, tx, job>>

-----------------------------------------------------------------------------
Goes(w) ==
  \/ LockStay(w) \/ OpenSession(w) \/ SaveCheckout(w) \/ Settle(w)
  \/ CallRefund(w) \/ SaveRefund(w) \/ Finish(w) \/ Handle(w)

Next ==
  \/ \E w \in Workers : BeginCreate(w) \/ BeginRefund(w) \/ ReceiveEvent(w)
  \/ \E w \in Actors : Goes(w) \/ Fail(w)
  \/ JobStart \/ JobRefund \/ JobSessions \/ JobEnd
  \/ \E c \in Checkouts : \/ JobRetrieve(c) \/ GuestPays(c) \/ SessionExpires(c)
                          \/ RefundSucceeds(c) \/ BecomesDue(c)
  \/ \E v \in Reservations : DeskStep(v)

Spec == Init /\ [][Next]_vars

(* Row locks are queued and no timeout ends the wait: of all the times the *)
(* job waits for one, it is not always the connection that breaks.         *)
GetsLock == []<>WaitsForStay(Job) => []<><<LockStay(Job)>>_vars

(* A request ends, well or badly; the timer starts the job again; a step   *)
(* of the job that is tried again and again works in the end; the gateway  *)
(* decides its refunds and time passes.  No webhook need ever arrive.      *)
Fairness ==
  /\ \A w \in Actors : WF_vars(Goes(w) \/ Fail(w))
  /\ WF_vars(JobStart) /\ SF_vars(JobRefund) /\ SF_vars(JobSessions) /\ WF_vars(JobEnd)
  /\ SF_vars(Settle(Job)) /\ GetsLock
  /\ SF_vars(CallRefund(Job)) /\ SF_vars(SaveRefund(Job)) /\ SF_vars(Finish(Job))
  /\ \A c \in Checkouts : /\ SF_vars(JobRetrieve(c))
                          /\ WF_vars(RefundSucceeds(c)) /\ WF_vars(BecomesDue(c))

FairSpec == Spec /\ Fairness

-----------------------------------------------------------------------------
(* Properties.                                                             *)

(* Payments at the desk and through the gateway, price changes and         *)
(* cancellations together never collect more than the price (settle).      *)
NeverOvercharged == \A v \in Reservations : Collected(v) <= stay[v].total

(* Two creates at once never leave a reservation with two checkouts to     *)
(* pay: the index online_payment_pending never refuses a row (create).     *)
OnePendingCheckout == \A v \in Reservations : \A c, d \in Pending(v) : c = d

(* The hotel's record and the gateway's agree on the money: what is paid   *)
(* or to be returned was captured; the gateway returns only what the hotel *)
(* has asked it to; a refund finished at the hotel is one the gateway      *)
(* made; a checkout given up can no longer be paid.                        *)
MoneyAccounted == \A c \in Checkouts :
  /\ online[c].status \in {"paid", "refund_pending", "refunded"} =>
       gateway[c].session = "paid"
  /\ gateway[c].refund # "none" => online[c].status \in {"refund_pending", "refunded"}
  /\ online[c].status = "refunded" =>
       gateway[c].refund = "succeeded" /\ online[c].payment # "completed"
  /\ online[c].status = "paid" => online[c].payment = "completed"
  /\ online[c].status = "expired" => gateway[c].session = "expired"

(* A crash between settling and recording never loses a payment: a paid    *)
(* session whose event is recorded, and so never delivered again, has been *)
(* settled (handleEvent).                                                  *)
RecordedMeansSettled == \A c \in Checkouts :
  [type |-> "paid", checkout |-> c] \in seen =>
    online[c].status \in {"paid", "refund_pending", "refunded"}

BooksLiveStay == \A c \in Checkouts : online[c].payment # online'[c].payment =>
  \/ /\ online[c].payment = "none" /\ online'[c].payment = "completed"
     /\ stay[online[c].stay].status # "cancelled"
  \/ online[c].payment = "completed" /\ online'[c].payment = "refunded"

(* However often a payment is notified, it is booked once, never on a      *)
(* reservation cancelled meanwhile, and refunded once (settle).            *)
BookedOnce == [][BooksLiveStay]_vars

(* refund.updated was handled before the refund's id was saved: it found   *)
(* no row and had no effect.                                               *)
HandledEarly(c) ==
  /\ gateway[c].answer = "pending" /\ ~online[c].refund
  /\ \E w \in Workers : tx[w].step = "record" /\ tx[w].event = Succeeded(c)

Drops(c) == \E w \in Workers : tx[w].event = Succeeded(c) /\ tx'[w] = Idle /\ seen' = seen

(* What Stripe and the process do for a webhook: it is sent again and      *)
(* again until it is answered, and from some time on none is dropped.      *)
Redelivered(c) ==
  /\ SF_vars(\E w \in Workers : ReceiveEvent(w) /\ tx'[w].event = Succeeded(c))
  /\ <>[][~Drops(c)]_vars

(* Every refund the hotel owes is recorded as made in the end, through     *)
(* lost answers and crashes (reconcile).  The job alone sees to it, unless *)
(* the gateway's answer was "pending", which it replays to the job for     *)
(* ever.  Such a refund ends when refund.updated is delivered, unless that *)
(* was handled before the refund's id was saved.                           *)
RefundsEnd == \A c \in Checkouts :
  /\ online[c].status = "refund_pending" ~>
       online[c].status = "refunded" \/ gateway[c].answer = "pending"
  /\ Redelivered(c) =>
       \/ online[c].status = "refund_pending" ~> online[c].status = "refunded"
       \/ <>HandledEarly(c)

(* docs/servicios-huesped.md:34, the worker reconciles sessions past their *)
(* time: a session that was paid and is due gets settled.                  *)
DueSessionsReconciled == \A c \in Checkouts :
  gateway[c].session = "paid" /\ online[c].due ~> online[c].status # "pending"

(* Where the money of each checkout is.                                    *)
money == [c \in Checkouts |->
  IF gateway[c].refund = "succeeded" THEN "returned"
  ELSE IF online[c].status = "refund_pending" THEN "owed"
  ELSE IF online[c].status = "paid" THEN "booked"
  ELSE IF online[c].status = "pending" /\ gateway[c].session = "paid" THEN "held"
  ELSE "unpaid"]

Card == INSTANCE CardLedger

(* Money captured is kept or returned, never both, neither or undecided    *)
(* for ever.                                                               *)
ImplementsCardLedger == Card!Spec

-----------------------------------------------------------------------------
(* The inductive invariant.                                                *)

Settled(c) == online[c].status \in {"paid", "refund_pending", "refunded"}
Owed(c) == online[c].status \in {"refund_pending", "refunded"}

(* What a request carries, and what it has established, at each step.      *)
RequestShape(t) ==
  /\ t.op = "idle" => t.step = "none"
  /\ t.op = "create" => t.step \in {"begun", "stay", "session"} /\ t.event = None
  /\ t.op \in {"settle", "finish"} => t.step \in {"begun", "stay"}
  /\ t.op = "refund" => t.step \in {"call", "save"} /\ t.event = None
  /\ t.op = "event" => t.step \in {"begun", "record"}

RequestOK(t) ==
  /\ RequestShape(t)
  /\ t.op \in {"create", "settle", "finish"} => t.stay \in Reservations
  /\ t.op = "create" /\ t.step = "session" =>
       /\ t.checkout \in Checkouts /\ t.amount > 0
       /\ online[t.checkout] = NoCheckout
       /\ gateway[t.checkout].session \in {"open", "expired"}
       /\ Pending(t.stay) = {}
  /\ t.op \in {"settle", "finish", "refund"} =>
       t.checkout \in Checkouts /\ online[t.checkout].stay = t.stay
  /\ t.op = "settle" => /\ gateway[t.checkout].session = "paid"
                        /\ online[t.checkout].status # "none"
  /\ t.op \in {"refund", "finish"} => Owed(t.checkout)
  /\ t.op = "refund" /\ t.step = "save" =>
       /\ gateway[t.checkout].refund # "none"
       /\ t.answer = "succeeded" => gateway[t.checkout].refund = "succeeded"
  /\ t.op = "finish" => gateway[t.checkout].refund = "succeeded"
  /\ t.op = "event" => t.event \in event
  /\ t.event # None =>
       /\ t.event \in event
       /\ t.op = "settle" => t.event = [type |-> "paid", checkout |-> t.checkout]
       /\ t.op = "finish" => t.event = [type |-> "refunded", checkout |-> t.checkout]
       /\ t.step = "record" /\ t.event.type = "paid" => Settled(t.event.checkout)
  /\ HoldsStay(t) /\ t.op # "finish" => t.row = stay[t.stay]

(* No two transactions hold the same reservation, and no two checkouts     *)
(* being created have the same id.                                         *)
RequestsApart == \A w, x \in Actors : w # x =>
  /\ HoldsStay(tx[w]) /\ HoldsStay(tx[x]) => tx[w].stay # tx[x].stay
  /\ tx[w].step = "session" /\ tx[x].step = "session" => tx[w].checkout # tx[x].checkout

CheckoutOK(c) ==
  /\ online[c].status = "none" =>
       online[c] = NoCheckout /\ gateway[c].session \in {"none", "open", "expired"}
  /\ online[c].status # "none" =>
       online[c].stay \in Reservations /\ gateway[c].session # "none"
  /\ online[c].payment = "none" \/ Settled(c)
  /\ online[c].payment = "refunded" => online[c].status = "refunded"
  /\ online[c].refund => gateway[c].refund # "none"
  /\ gateway[c].answer = "none" <=> gateway[c].refund = "none"
  /\ gateway[c].answer = "succeeded" => gateway[c].refund = "succeeded"

EventOK(e) ==
  /\ e.type \in {"paid", "expired"} => gateway[e.checkout].session = e.type
  /\ e.type = "refunded" => gateway[e.checkout].refund = "succeeded"

JobOK ==
  /\ job.phase = "refunds" => \A c \in job.todo : Owed(c)
  /\ job.phase = "sessions" => \A c \in job.todo : online[c].status # "none"

IInv ==
  /\ TypeOK
  /\ \A w \in Actors : RequestOK(tx[w])
  /\ RequestsApart
  /\ \A c \in Checkouts : CheckoutOK(c)
  /\ \A e \in event : EventOK(e)
  /\ JobOK
  /\ OnePendingCheckout
  /\ MoneyAccounted
  /\ RecordedMeansSettled

-----------------------------------------------------------------------------
(* Small hotels, for TLC. Requests are alike.                              *)
WorkerSymmetry == Permutations(Workers)

(* Two checkouts only while the job stays out and nothing is refunded.     *)
OneCheckoutOrGuests ==
  \/ online[2] = NoCheckout /\ gateway[2].session = "none"
  \/ /\ job = NoJob
     /\ \A c \in Checkouts : online[c].status \notin {"refund_pending", "refunded"}

(* Among the behaviours of FairSpec, those where no webhook arrives and    *)
(* the job fails only because the gateway refuses a refund.                *)
Undelivered ==
  /\ \A w \in Workers : tx'[w].op \in {"idle", "create"}
  /\ job # NoJob /\ job' = NoJob =>
       \/ tx[Job].step = "call"
       \/ tx[Job] = Idle /\ job = [phase |-> "sessions", todo |-> {}]

UndeliveredSpec == Init /\ [][Next /\ Undelivered]_vars /\ Fairness
=============================================================================
