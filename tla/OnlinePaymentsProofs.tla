------------------------ MODULE OnlinePaymentsProofs ------------------------
(* Proofs about OnlinePayments, for any number of workers, reservations    *)
(* and checkouts, any prices, and any refunds the gateway refuses.         *)
EXTENDS OnlinePayments, FiniteSetTheorems, TLAPS

TablesOK ==
  /\ \A c \in Checkouts : CheckoutOK(c)
  /\ \A e \in event : EventOK(e)
  /\ OnePendingCheckout
  /\ MoneyAccounted
  /\ RecordedMeansSettled

JobRecords == [phase : {"none", "refunds", "sessions"}, todo : SUBSET Checkouts]

(* What no step takes back.                                                *)
Grows ==
  /\ \A c \in Checkouts :
       /\ online[c].status # "none" =>
            online'[c].status # "none" /\ online'[c].stay = online[c].stay
       /\ Settled(c) => Settled(c)'
       /\ Owed(c) => Owed(c)'
       /\ gateway[c].session = "paid" => gateway'[c].session = "paid"
       /\ gateway[c].refund # "none" => gateway'[c].refund # "none"
       /\ gateway[c].refund = "succeeded" => gateway'[c].refund = "succeeded"
  /\ event \subseteq event'

(* What a step of another request leaves to request t.                     *)
Keeps(t) ==
  /\ HoldsStay(t) /\ t.op # "finish" => stay'[t.stay] = stay[t.stay]
  /\ t.op = "create" /\ t.step = "session" =>
       /\ online'[t.checkout] = NoCheckout
       /\ gateway'[t.checkout].session \in {"open", "expired"}
       /\ \A d \in Checkouts : online'[d].status = "pending" => online'[d].stay # t.stay

(* An idle request and a checkout without a row are well formed.           *)
LEMMA Blank ==
  /\ Idle \in Requests /\ NoCheckout \in CheckoutRows
  /\ Idle.op = "idle" /\ Idle.step = "none" /\ Idle.event = None
<1>1. NoCheckout \in CheckoutRows
  BY DEF NoCheckout, CheckoutRows, CheckoutStatus
<1>2. Idle \in Requests
  BY PricesAssumption DEF Idle, Request, Requests, Ops, Steps, StayRows
<1> QED
  BY <1>1, <1>2 DEF Idle, Request

(* A request just begun is a request.                                      *)
LEMMA RequestTyped ==
  ASSUME NEW op \in Ops, NEW s \in Steps, NEW v \in Reservations \union {None},
         NEW c \in Checkouts \union {None}, NEW e \in Events \union {None}
  PROVE  /\ Request(op, s, v, c, e) \in Requests
         /\ Request(op, s, v, c, e).op = op /\ Request(op, s, v, c, e).step = s
         /\ Request(op, s, v, c, e).stay = v /\ Request(op, s, v, c, e).checkout = c
         /\ Request(op, s, v, c, e).event = e
  BY PricesAssumption DEF Request, Requests, StayRows

(* An idle worker relies on nothing.                                       *)
LEMMA IdleOK ==
  ASSUME NEW t, t.op = "idle", t.step = "none", t.event = None
  PROVE  RequestOK(t) /\ RequestOK(t)' /\ ~HoldsStay(t)
  BY DEF RequestOK, RequestShape, HoldsStay

(* The invariant holds of a hotel nobody has paid anything to.             *)
LEMMA InitIInv == Init => IInv
<1> SUFFICES ASSUME Init PROVE IInv
  OBVIOUS
<1>1. TypeOK
  BY Blank, PricesAssumption DEF Init, TypeOK, StayRows, GatewayRows, NoJob
<1>2. \A w \in Actors : tx[w] = Idle
  BY DEF Init
<1>3. RequestsApart /\ \A w \in Actors : RequestOK(tx[w])
  BY <1>2, Blank, IdleOK DEF RequestsApart
<1>4. TablesOK
  BY DEF Init, TablesOK, CheckoutOK, OnePendingCheckout, Pending, MoneyAccounted,
     RecordedMeansSettled, NoCheckout, Settled
<1>5. JobOK
  BY DEF Init, JobOK, NoJob
<1> QED
  BY <1>1, <1>3, <1>4, <1>5 DEF IInv, TablesOK

-----------------------------------------------------------------------------
(* What a step leaves of the requests that are not its own.                *)

(* What a request has established survives a step that takes nothing back. *)
LEMMA FrameRequest ==
  ASSUME TypeOK, NEW t, RequestOK(t), Grows, Keeps(t)
  PROVE  RequestOK(t)'
<1>1. (RequestShape(t) /\ (t.op \in {"create", "settle", "finish"} => t.stay \in Reservations))'
  BY DEF RequestOK, RequestShape
<1>2. (t.op = "create" /\ t.step = "session" =>
         /\ t.checkout \in Checkouts /\ t.amount > 0
         /\ online[t.checkout] = NoCheckout
         /\ gateway[t.checkout].session \in {"open", "expired"}
         /\ Pending(t.stay) = {})'
  BY DEF RequestOK, Keeps, Pending
<1>3. /\ (t.op \in {"settle", "finish", "refund"} =>
            t.checkout \in Checkouts /\ online[t.checkout].stay = t.stay)'
      /\ (t.op = "settle" => /\ gateway[t.checkout].session = "paid"
                             /\ online[t.checkout].status # "none")'
  BY DEF RequestOK, Grows, Owed
<1>4. /\ (t.op \in {"refund", "finish"} => Owed(t.checkout))'
      /\ (t.op = "refund" /\ t.step = "save" =>
            /\ gateway[t.checkout].refund # "none"
            /\ t.answer = "succeeded" => gateway[t.checkout].refund = "succeeded")'
      /\ (t.op = "finish" => gateway[t.checkout].refund = "succeeded")'
  BY DEF RequestOK, Grows
<1>5. (t.op = "event" => t.event \in event)'
  BY DEF RequestOK, Grows
<1>6. (t.event # None =>
         /\ t.event \in event
         /\ t.op = "settle" => t.event = [type |-> "paid", checkout |-> t.checkout]
         /\ t.op = "finish" => t.event = [type |-> "refunded", checkout |-> t.checkout]
         /\ t.step = "record" /\ t.event.type = "paid" => Settled(t.event.checkout))'
  BY DEF RequestOK, Grows, TypeOK, Events
<1>7. (HoldsStay(t) /\ t.op # "finish" => t.row = stay[t.stay])'
  BY DEF RequestOK, Keeps, HoldsStay
<1> QED
  BY <1>1, <1>2, <1>3, <1>4, <1>5, <1>6, <1>7 DEF RequestOK

(* A step of request w, the tables being in order after it.                *)
LEMMA RequestStep ==
  ASSUME IInv, TypeOK', Grows, TablesOK', NEW w \in Actors,
         \A x \in Actors \ {w} : tx'[x] = tx[x] /\ Keeps(tx[x]),
         RequestOK(tx[w])',
         HoldsStay(tx[w])' =>
           StayUnlocked(tx'[w].stay) \/ (HoldsStay(tx[w]) /\ tx'[w].stay = tx[w].stay),
         tx'[w].step = "session" => \A x \in Actors \ {w} :
           tx[x].step = "session" => tx[x].checkout # tx'[w].checkout,
         JobOK'
  PROVE  IInv' /\ Grows
<1>1. \A x \in Actors : RequestOK(tx[x])'
  <2>1. SUFFICES ASSUME NEW x \in Actors \ {w} PROVE RequestOK(tx[x])'
    OBVIOUS
  <2>2. RequestOK(tx[x]) /\ Keeps(tx[x]) /\ TypeOK
    BY DEF IInv
  <2>3. \A t : RequestOK(t) /\ Keeps(t) => RequestOK(t)'
    BY <2>2, FrameRequest
  <2>4. tx'[x] = tx[x]
    OBVIOUS
  <2> QED
    BY <2>2, <2>3, <2>4
<1>2. RequestsApart'
  BY DEF IInv, RequestsApart, StayUnlocked, HoldsStay
<1> QED
  BY <1>1, <1>2 DEF IInv, TablesOK

(* A step of no request.                                                   *)
LEMMA OutsideStep ==
  ASSUME IInv, TypeOK', Grows, TablesOK', UNCHANGED tx,
         \A x \in Actors : Keeps(tx[x]), JobOK'
  PROVE  IInv' /\ Grows
<1>1. \A x \in Actors : RequestOK(tx[x])'
  <2>1. SUFFICES ASSUME NEW x \in Actors PROVE RequestOK(tx[x])'
    OBVIOUS
  <2>2. RequestOK(tx[x]) /\ Keeps(tx[x]) /\ TypeOK
    BY DEF IInv
  <2>3. \A t : RequestOK(t) /\ Keeps(t) => RequestOK(t)'
    BY <2>2, FrameRequest
  <2> QED
    BY <2>2, <2>3
<1>2. RequestsApart'
  BY DEF IInv, RequestsApart, HoldsStay
<1> QED
  BY <1>1, <1>2 DEF IInv, TablesOK

(* What the job still has to do stays worth doing.                         *)
LEMMA JobKeeps ==
  ASSUME IInv, Grows, UNCHANGED job
  PROVE  JobOK'
  BY DEF IInv, JobOK, Grows, TypeOK

-----------------------------------------------------------------------------
(* Steps that only change what one request carries.                        *)

(* The step is safe if the new request is.                                 *)
LEMMA OnlyRequest ==
  ASSUME IInv, NEW w \in Actors, NEW q \in Requests, tx' = [tx EXCEPT ![w] = q],
         UNCHANGED <<stay, online, gateway, event>>,
         seen' \subseteq event, RecordedMeansSettled', job' \in JobRecords, JobOK', RequestOK(q),
         HoldsStay(q) => StayUnlocked(q.stay) \/ (HoldsStay(tx[w]) /\ q.stay = tx[w].stay),
         q.step # "session"
  PROVE  IInv' /\ Grows
<1>1. TypeOK'
  BY DEF IInv, TypeOK, JobRecords
<1>2. tx'[w] = q /\ \A x \in Actors \ {w} : tx'[x] = tx[x]
  BY DEF IInv, TypeOK
<1>3. Grows
  BY DEF Grows, Settled, Owed
<1>4. TablesOK'
  BY DEF IInv, TablesOK, CheckoutOK, EventOK, OnePendingCheckout, Pending, MoneyAccounted, Settled
<1>5. \A t : RequestOK(t) => Keeps(t)
  BY DEF Keeps, RequestOK, Pending
<1>6. \A t : Keeps(t) /\ RequestOK(t) => RequestOK(t)'
  BY <1>3, FrameRequest DEF IInv
<1>7. RequestOK(q)'
  BY <1>5, <1>6
<1>8. RequestOK(tx[w])' /\ \A x \in Actors : Keeps(tx[x])
  BY <1>2, <1>5, <1>7 DEF IInv
<1>9. HoldsStay(tx[w])' => HoldsStay(q)
  BY <1>2 DEF HoldsStay
<1> QED
  BY <1>1, <1>2, <1>3, <1>4, <1>8, <1>9, RequestStep

(* The same, for the steps that touch neither the job nor the webhooks.    *)
LEMMA QuietRequest ==
  ASSUME IInv, NEW w \in Actors, NEW q \in Requests, tx' = [tx EXCEPT ![w] = q],
         UNCHANGED <<stay, online, gateway, event, seen, job>>,
         RequestOK(q),
         HoldsStay(q) => StayUnlocked(q.stay) \/ (HoldsStay(tx[w]) /\ q.stay = tx[w].stay),
         q.step # "session"
  PROVE  IInv' /\ Grows
<1>1. RecordedMeansSettled' /\ JobOK'
  BY DEF IInv, RecordedMeansSettled, JobOK, Owed
<1>2. seen' \subseteq event /\ job' \in JobRecords
  BY DEF IInv, TypeOK, JobRecords
<1> QED
  BY <1>1, <1>2, OnlyRequest

(* What Return leaves of a request.                                        *)
LEMMA Returned ==
  ASSUME IInv, NEW w \in Actors, Return(w)
  PROVE  \E q \in Requests :
           /\ tx' = [tx EXCEPT ![w] = q] /\ ~HoldsStay(q) /\ q.step # "session"
           /\ \/ tx[w].event = None /\ q.op = "idle" /\ q.step = "none" /\ q.event = None
              \/ /\ tx[w].event # None /\ q.op = "event" /\ q.step = "record"
                 /\ q.event = tx[w].event
<1>1. tx[w] \in Requests
  BY DEF IInv, TypeOK
<1>2. CASE tx[w].event = None
  BY <1>2, Blank, IdleOK DEF Return
<1>3. CASE tx[w].event # None
  <2> DEFINE q == Request("event", "record", None, None, tx[w].event)
  <2>1. "event" \in Ops /\ "record" \in Steps /\ tx[w].event \in Events \union {None}
    BY <1>1 DEF Requests, Ops, Steps
  <2>2. q \in Requests /\ q.op = "event" /\ q.step = "record" /\ q.event = tx[w].event
    BY <2>1, RequestTyped
  <2>3. tx' = [tx EXCEPT ![w] = q]
    BY <1>3 DEF Return
  <2> HIDE DEF q
  <2> QED
    BY <1>3, <2>2, <2>3 DEF HoldsStay
<1> QED
  BY <1>2, <1>3

(* A webhook goes on to record its event once it is settled.               *)
LEMMA ReturnedOK ==
  ASSUME IInv, NEW w \in Actors, NEW q \in Requests, NEW e, e = tx[w].event,
         \/ e = None /\ q.op = "idle" /\ q.step = "none" /\ q.event = None
         \/ e # None /\ q.op = "event" /\ q.step = "record" /\ q.event = e,
         event \subseteq event',
         e # None /\ e.type = "paid" => Settled(e.checkout)'
  PROVE  RequestOK(q)'
<1>1. CASE e = None
  BY <1>1, IdleOK
<1>2. CASE e # None
  <2>1. e \in event'
    BY <1>2 DEF IInv, RequestOK
  <2> QED
    BY <1>2, <2>1 DEF RequestOK, RequestShape, HoldsStay
<1> QED
  BY <1>1, <1>2

(* The end of a call that changes no table but online_payment.             *)
LEMMA ReturnStep ==
  ASSUME IInv, NEW w \in Actors, Return(w), NEW e, e = tx[w].event,
         UNCHANGED <<stay, gateway, event, seen, job>>,
         online' \in [Checkouts -> CheckoutRows], Grows, TablesOK',
         \A x \in Actors \ {w} : Keeps(tx[x]),
         e # None /\ e.type = "paid" => Settled(e.checkout)'
  PROVE  IInv' /\ Grows
<1>1. PICK q \in Requests :
        /\ tx' = [tx EXCEPT ![w] = q] /\ ~HoldsStay(q) /\ q.step # "session"
        /\ \/ tx[w].event = None /\ q.op = "idle" /\ q.step = "none" /\ q.event = None
           \/ /\ tx[w].event # None /\ q.op = "event" /\ q.step = "record"
              /\ q.event = tx[w].event
  BY Returned
<1>2. TypeOK' /\ tx'[w] = q /\ \A x \in Actors \ {w} : tx'[x] = tx[x]
  BY <1>1 DEF IInv, TypeOK
<1>3. RequestOK(q)'
  BY <1>1, ReturnedOK
<1>4. RequestOK(tx[w])' /\ ~HoldsStay(tx[w])' /\ tx'[w].step # "session"
  BY <1>1, <1>2, <1>3 DEF HoldsStay
<1>5. JobOK'
  BY JobKeeps
<1> QED
  BY <1>2, <1>4, <1>5, RequestStep

-----------------------------------------------------------------------------
(* Steps that change one row of online_payment.                            *)

SettledStatus == {"paid", "refund_pending", "refunded"}
OwedStatus == {"refund_pending", "refunded"}

(* What r may be, as the row of a checkout that has one.                   *)
RowOK(c, r) ==
  /\ r.status # "none" /\ r.stay = online[c].stay
  /\ r.status = "pending" => online[c].status = "pending"
  /\ Settled(c) => r.status \in SettledStatus
  /\ Owed(c) => r.status \in OwedStatus
  /\ r.payment = "none" \/ r.status \in SettledStatus
  /\ r.payment = "refunded" => r.status = "refunded"
  /\ r.refund => gateway[c].refund # "none"
  /\ r.status \in SettledStatus => gateway[c].session = "paid"
  /\ gateway[c].refund # "none" => r.status \in OwedStatus
  /\ r.status = "refunded" => gateway[c].refund = "succeeded" /\ r.payment # "completed"
  /\ r.status = "paid" => r.payment = "completed"
  /\ r.status = "expired" => gateway[c].session = "expired"

(* A row that RowOK allows keeps the tables in order.                      *)
LEMMA RowStep ==
  ASSUME IInv, NEW c \in Checkouts, NEW r \in CheckoutRows, online[c].status # "none",
         online' = [online EXCEPT ![c] = r], RowOK(c, r),
         UNCHANGED <<stay, gateway, event, seen>>
  PROVE  /\ online' \in [Checkouts -> CheckoutRows] /\ Grows /\ TablesOK'
         /\ \A t : RequestOK(t) => Keeps(t)
<1>1. TypeOK /\ CheckoutOK(c)
  BY DEF IInv
<1>2. online' \in [Checkouts -> CheckoutRows] /\ online'[c] = r
      /\ \A d \in Checkouts \ {c} : online'[d] = online[d]
  BY <1>1 DEF TypeOK
<1>3. Grows
  BY <1>2 DEF Grows, RowOK, Settled, Owed, SettledStatus, OwedStatus
<1>4. \A v : Pending(v)' \subseteq Pending(v)
  BY <1>2 DEF Pending, RowOK
<1>5. TablesOK'
  <2>1. \A d \in Checkouts : CheckoutOK(d)'
    BY <1>1, <1>2 DEF IInv, CheckoutOK, RowOK, Settled, SettledStatus
  <2>2. \A e \in event' : EventOK(e)'
    BY DEF IInv, EventOK
  <2>3. OnePendingCheckout'
    BY <1>4 DEF IInv, OnePendingCheckout
  <2>4. MoneyAccounted'
    BY <1>2 DEF IInv, MoneyAccounted, RowOK, SettledStatus, OwedStatus
  <2>5. RecordedMeansSettled'
    BY <1>2 DEF IInv, RecordedMeansSettled, RowOK, Settled, SettledStatus
  <2> QED
    BY <2>1, <2>2, <2>3, <2>4, <2>5 DEF TablesOK
<1>6. \A t : RequestOK(t) => Keeps(t)
  <2>1. SUFFICES ASSUME NEW t, RequestOK(t) PROVE Keeps(t)
    OBVIOUS
  <2>2. ASSUME t.op = "create", t.step = "session"
        PROVE  /\ online'[t.checkout] = NoCheckout
               /\ gateway'[t.checkout].session \in {"open", "expired"}
               /\ \A d \in Checkouts :
                    online'[d].status = "pending" => online'[d].stay # t.stay
    <3>1. /\ t.checkout \in Checkouts /\ online[t.checkout] = NoCheckout
          /\ gateway[t.checkout].session \in {"open", "expired"} /\ Pending(t.stay) = {}
      BY <2>1, <2>2 DEF RequestOK
    <3>2. t.checkout # c
      BY <3>1 DEF NoCheckout
    <3> QED
      BY <1>2, <1>4, <3>1, <3>2 DEF Pending
  <2> QED
    BY <2>2 DEF Keeps
<1> QED
  BY <1>2, <1>3, <1>5, <1>6

-----------------------------------------------------------------------------
(* The steps, one lemma for each part of a request's life.                 *)

(* Tables that nobody writes stay in order.                                *)
LEMMA SameTables ==
  ASSUME IInv, UNCHANGED <<stay, online, gateway, event, seen>>
  PROVE  /\ online' \in [Checkouts -> CheckoutRows] /\ Grows /\ TablesOK'
         /\ \A t : RequestOK(t) => Keeps(t)
<1>1. online' \in [Checkouts -> CheckoutRows] /\ Grows
  BY DEF IInv, TypeOK, Grows, Settled, Owed
<1>2. TablesOK'
  BY DEF IInv, TablesOK, CheckoutOK, EventOK, OnePendingCheckout, Pending, MoneyAccounted,
     RecordedMeansSettled, Settled
<1>3. \A t : RequestOK(t) => Keeps(t)
  BY DEF Keeps, RequestOK, Pending
<1> QED
  BY <1>1, <1>2, <1>3

(* What the invariant says of the request that takes the step.             *)
LEMMA OwnRequest ==
  ASSUME IInv, NEW w \in Actors
  PROVE  /\ tx[w] \in Requests /\ RequestOK(tx[w])
         /\ tx[w].event # None =>
              tx[w].event \in event /\ tx[w].event \in Events /\ EventOK(tx[w].event)
              /\ tx[w].event = [type |-> tx[w].event.type, checkout |-> tx[w].event.checkout]
<1>1. tx[w] \in Requests /\ RequestOK(tx[w])
  BY DEF IInv, TypeOK
<1>2. tx[w].event # None => tx[w].event \in event /\ tx[w].event \in Events
  BY <1>1 DEF RequestOK, IInv, TypeOK
<1> QED
  BY <1>1, <1>2 DEF IInv, Events

(* create and a delivered webhook begin.                                   *)
LEMMA BeginSteps ==
  ASSUME IInv, NEW w \in Workers, BeginCreate(w) \/ ReceiveEvent(w)
  PROVE  IInv' /\ Grows
<1> w \in Actors
  BY DEF Actors
<1>1. CASE BeginCreate(w)
  <2>1. PICK v \in Reservations : tx' = [tx EXCEPT ![w] = Request("create", "begun", v, None, None)]
    BY <1>1 DEF BeginCreate
  <2> DEFINE q == Request("create", "begun", v, None, None)
  <2>2. /\ q \in Requests /\ q.op = "create" /\ q.step = "begun" /\ q.stay = v
        /\ q.event = None
    BY RequestTyped DEF Ops, Steps
  <2> HIDE DEF q
  <2>3. RequestOK(q) /\ ~HoldsStay(q)
    BY <2>2 DEF RequestOK, RequestShape, HoldsStay
  <2> QED
    BY <1>1, <2>1, <2>2, <2>3, QuietRequest DEF BeginCreate, q
<1>2. CASE ReceiveEvent(w)
  <2>1. PICK e \in event : tx' = [tx EXCEPT ![w] = Request("event", "begun", None, None, e)]
    BY <1>2 DEF ReceiveEvent
  <2> DEFINE q == Request("event", "begun", None, None, e)
  <2>2. /\ q \in Requests /\ q.op = "event" /\ q.step = "begun" /\ q.event = e
    <3>1. e \in Events \union {None} /\ "event" \in Ops /\ "begun" \in Steps
      BY DEF IInv, TypeOK, Ops, Steps
    <3> QED
      BY <3>1, RequestTyped
  <2> HIDE DEF q
  <2>3. RequestOK(q) /\ ~HoldsStay(q)
    BY <2>2 DEF RequestOK, RequestShape, HoldsStay
  <2> QED
    BY <1>2, <2>1, <2>2, <2>3, QuietRequest DEF ReceiveEvent, q
<1> QED
  BY <1>1, <1>2

(* A request gets the row of its reservation.                              *)
LEMMA LockStep ==
  ASSUME IInv, NEW w \in Actors, LockStay(w)
  PROVE  IInv' /\ Grows
<1> DEFINE t == tx[w]
           q == [t EXCEPT !.step = "stay", !.row = IF t.op = "finish" THEN t.row ELSE stay[t.stay]]
<1>1. /\ t \in Requests /\ RequestOK(t) /\ t.op \in {"create", "settle", "finish"}
      /\ t.step = "begun" /\ t.stay \in Reservations /\ stay[t.stay] \in StayRows
  BY OwnRequest DEF LockStay, WaitsForStay, RequestOK, IInv, TypeOK
<1>2. /\ q \in Requests /\ q.step = "stay" /\ q.op = t.op /\ q.stay = t.stay
      /\ q.checkout = t.checkout /\ q.event = t.event
      /\ t.op # "finish" => q.row = stay[t.stay]
  BY <1>1 DEF Requests, Steps
<1>3. tx' = [tx EXCEPT ![w] = q]
  BY <1>1 DEF LockStay, IInv, TypeOK, Requests
<1>4. RequestOK(q)
  BY <1>1, <1>2 DEF RequestOK, RequestShape, HoldsStay
<1>5. StayUnlocked(q.stay)
  BY <1>2 DEF LockStay
<1> HIDE DEF q, t
<1> QED
  BY <1>2, <1>3, <1>4, <1>5, QuietRequest DEF LockStay

(* handleEvent: a payment, a refund, and the record of an event.           *)
LEMMA EventSteps ==
  ASSUME IInv, NEW w \in Actors, HandlePaid(w) \/ HandleRefunded(w) \/ RecordEvent(w)
  PROVE  IInv' /\ Grows
<1> DEFINE e == tx[w].event
           c == tx[w].event.checkout
<1>1. tx[w] \in Requests /\ RequestOK(tx[w]) /\ e \in event /\ e \in Events /\ EventOK(e)
      /\ e = [type |-> e.type, checkout |-> c] /\ c \in Checkouts /\ e # None
  <2>1. tx[w].op = "event"
    BY DEF HandlePaid, HandleRefunded, RecordEvent, Handles
  <2>2. e \in event
    BY <2>1, OwnRequest DEF RequestOK
  <2>3. e \in Events /\ EventOK(e)
    BY <2>2 DEF IInv, TypeOK
  <2>4. e = [type |-> e.type, checkout |-> c] /\ c \in Checkouts
    BY <2>3 DEF Events
  <2> QED
    BY <2>2, <2>3, <2>4, OwnRequest, NoneAssumption
<1> HIDE DEF e, c
<1>2. CASE HandlePaid(w)
  <2>1. /\ e.type = "paid" /\ online[c].status # "none"
        /\ tx' = [tx EXCEPT ![w] = Request("settle", "begun", online[c].stay, c, e)]
    BY <1>2 DEF HandlePaid, Handles, e, c
  <2>2. online[c].stay \in Reservations /\ gateway[c].session = "paid"
    BY <1>1, <2>1 DEF IInv, CheckoutOK, EventOK
  <2> DEFINE q == Request("settle", "begun", online[c].stay, c, e)
  <2>3. /\ q \in Requests /\ q.op = "settle" /\ q.step = "begun" /\ q.stay = online[c].stay
        /\ q.checkout = c /\ q.event = e
    <3>1. "settle" \in Ops /\ "begun" \in Steps
      BY DEF Ops, Steps
    <3> QED
      BY <1>1, <2>2, <3>1, RequestTyped
  <2>4. tx' = [tx EXCEPT ![w] = q]
    BY <2>1
  <2> HIDE DEF q
  <2>5. RequestOK(q) /\ ~HoldsStay(q)
    BY <1>1, <2>1, <2>2, <2>3 DEF RequestOK, RequestShape, HoldsStay
  <2> QED
    BY <1>2, <2>3, <2>4, <2>5, QuietRequest DEF HandlePaid
<1>3. CASE HandleRefunded(w) /\ online[c].refund /\ online[c].status = "refund_pending"
  <2>1. /\ e.type = "refunded"
        /\ tx' = [tx EXCEPT ![w] = Request("finish", "begun", online[c].stay, c, e)]
    BY <1>3 DEF HandleRefunded, Handles, e, c
  <2>2. online[c].stay \in Reservations /\ gateway[c].refund = "succeeded" /\ Owed(c)
    BY <1>1, <1>3, <2>1 DEF IInv, CheckoutOK, EventOK, Owed
  <2> DEFINE q == Request("finish", "begun", online[c].stay, c, e)
  <2>3. /\ q \in Requests /\ q.op = "finish" /\ q.step = "begun" /\ q.stay = online[c].stay
        /\ q.checkout = c /\ q.event = e
    <3>1. "finish" \in Ops /\ "begun" \in Steps
      BY DEF Ops, Steps
    <3> QED
      BY <1>1, <2>2, <3>1, RequestTyped
  <2>4. tx' = [tx EXCEPT ![w] = q]
    BY <2>1
  <2> HIDE DEF q
  <2>5. RequestOK(q) /\ ~HoldsStay(q)
    BY <1>1, <2>1, <2>2, <2>3 DEF RequestOK, RequestShape, HoldsStay
  <2> QED
    BY <1>3, <2>3, <2>4, <2>5, QuietRequest DEF HandleRefunded
<1>4. CASE HandleRefunded(w) /\ ~(online[c].refund /\ online[c].status = "refund_pending")
  <2>1. e.type = "refunded" /\ Return(w)
    BY <1>4 DEF HandleRefunded, Handles, e, c
  <2>2. UNCHANGED <<stay, online, gateway, event, seen, job>>
    BY <1>4 DEF HandleRefunded
  <2>3. /\ online' \in [Checkouts -> CheckoutRows] /\ Grows /\ TablesOK'
        /\ \A x \in Actors \ {w} : Keeps(tx[x])
    BY <2>2, SameTables, OwnRequest
  <2>4. e = tx[w].event
    BY DEF e
  <2> QED
    BY <2>1, <2>2, <2>3, <2>4, ReturnStep
<1>5. CASE RecordEvent(w)
  <2>1. /\ tx[w].step = "record" /\ seen' = seen \union {e} /\ tx' = [tx EXCEPT ![w] = Idle]
        /\ UNCHANGED <<stay, online, gateway, event, job>>
    BY <1>5 DEF RecordEvent, e
  <2>2. e.type = "paid" => Settled(c)
    BY <1>1, <2>1 DEF RequestOK, e, c
  <2>3. RecordedMeansSettled'
    BY <1>1, <2>1, <2>2 DEF IInv, RecordedMeansSettled, Settled
  <2>4. /\ seen' \subseteq event /\ JobOK'
        /\ job' \in JobRecords
    BY <1>1, <2>1 DEF IInv, TypeOK, JobRecords, JobOK, Owed
  <2> QED
    BY <2>1, <2>3, <2>4, Blank, IdleOK, OnlyRequest
<1> QED
  BY <1>2, <1>3, <1>4, <1>5

(* A request or the job's pass is given up.                                *)
LEMMA FailStep ==
  ASSUME IInv, NEW w \in Actors, Fail(w)
  PROVE  IInv' /\ Grows
<1>1. /\ tx' = [tx EXCEPT ![w] = Idle] /\ job' \in {job, NoJob}
      /\ UNCHANGED <<stay, online, gateway, event, seen>>
  BY DEF Fail
<1>2. /\ seen' \subseteq event /\ RecordedMeansSettled' /\ JobOK'
      /\ job' \in JobRecords
  BY <1>1 DEF IInv, TypeOK, JobRecords, RecordedMeansSettled, JobOK, NoJob, Owed
<1> QED
  BY <1>1, <1>2, Blank, IdleOK, OnlyRequest

(* settle: booked, to be refunded, or settled before.                      *)
LEMMA SettleSteps ==
  ASSUME IInv, NEW w \in Actors, Settle(w)
  PROVE  IInv' /\ Grows
<1>0. PICK c, e : c = tx[w].checkout /\ e = tx[w].event
  OBVIOUS
<1>1. /\ tx[w].op = "settle" /\ RequestOK(tx[w]) /\ c \in Checkouts /\ online[c] \in CheckoutRows
      /\ online[c].status # "none" /\ gateway[c].session = "paid"
      /\ CheckoutOK(c) /\ online \in [Checkouts -> CheckoutRows]
      /\ gateway[c].refund # "none" => Owed(c)
      /\ e # None => e = [type |-> "paid", checkout |-> c]
  <2>1. tx[w].op = "settle"
    BY DEF Settle, SettleBook, SettleLate, SettleAgain, Settles
  <2>2. RequestOK(tx[w])
    BY OwnRequest
  <2>3. c \in Checkouts /\ online[c].status # "none" /\ gateway[c].session = "paid"
        /\ (e # None => e = [type |-> "paid", checkout |-> c])
    BY <1>0, <2>1, <2>2 DEF RequestOK
  <2> QED
    BY <2>1, <2>2, <2>3 DEF IInv, TypeOK, MoneyAccounted, Owed
<1>2. e = tx[w].event
  BY <1>0
<1>3. CASE SettleBook(w)
  <2> DEFINE r == [online[c] EXCEPT !.status = "paid", !.payment = "completed"]
  <2>1. /\ r \in CheckoutRows /\ r.status = "paid" /\ r.payment = "completed"
        /\ r.stay = online[c].stay /\ r.refund = online[c].refund
    BY <1>1 DEF CheckoutRows, CheckoutStatus
  <2>2. Unsettled(c) /\ Return(w) /\ UNCHANGED <<stay, gateway, event, seen, job>>
    BY <1>0, <1>3 DEF SettleBook
  <2>3. online' = [online EXCEPT ![c] = r]
    BY <1>0, <1>1, <1>3 DEF SettleBook, CheckoutRows
  <2> HIDE DEF r
  <2>4. RowOK(c, r)
    BY <1>1, <2>1, <2>2 DEF RowOK, CheckoutOK, Unsettled, Settled, Owed, SettledStatus
  <2>5. /\ online' \in [Checkouts -> CheckoutRows] /\ Grows /\ TablesOK'
        /\ \A t : RequestOK(t) => Keeps(t)
    BY <1>1, <2>1, <2>2, <2>3, <2>4, RowStep
  <2>6. Settled(c)'
    BY <1>1, <2>1, <2>3 DEF Settled
  <2>7. /\ \A x \in Actors \ {w} : Keeps(tx[x])
        /\ e # None /\ e.type = "paid" => Settled(e.checkout)'
    <3>1. \A x \in Actors \ {w} : Keeps(tx[x])
      BY <2>5, OwnRequest
    <3>2. e # None => e.checkout = c
      BY <1>1
    <3> QED
      BY <2>6, <3>1, <3>2 DEF Settled
  <2> QED
    BY <1>2, <2>2, <2>5, <2>7, ReturnStep
<1>4. CASE SettleLate(w)
  <2> DEFINE r == [online[c] EXCEPT !.status = "refund_pending"]
  <2>1. /\ r \in CheckoutRows /\ r.status = "refund_pending" /\ r.payment = online[c].payment
        /\ r.stay = online[c].stay /\ r.refund = online[c].refund
    BY <1>1 DEF CheckoutRows, CheckoutStatus
  <2>2. Unsettled(c) /\ Return(w) /\ UNCHANGED <<stay, gateway, event, seen, job>>
    BY <1>0, <1>4 DEF SettleLate
  <2>3. online' = [online EXCEPT ![c] = r]
    BY <1>0, <1>1, <1>4 DEF SettleLate, CheckoutRows
  <2> HIDE DEF r
  <2>4. RowOK(c, r)
    BY <1>1, <2>1, <2>2 DEF RowOK, CheckoutOK, Unsettled, Settled, Owed, SettledStatus, OwedStatus
  <2>5. /\ online' \in [Checkouts -> CheckoutRows] /\ Grows /\ TablesOK'
        /\ \A t : RequestOK(t) => Keeps(t)
    BY <1>1, <2>1, <2>2, <2>3, <2>4, RowStep
  <2>6. Settled(c)'
    BY <1>1, <2>1, <2>3 DEF Settled
  <2>7. /\ \A x \in Actors \ {w} : Keeps(tx[x])
        /\ e # None /\ e.type = "paid" => Settled(e.checkout)'
    <3>1. \A x \in Actors \ {w} : Keeps(tx[x])
      BY <2>5, OwnRequest
    <3>2. e # None => e.checkout = c
      BY <1>1
    <3> QED
      BY <2>6, <3>1, <3>2 DEF Settled
  <2> QED
    BY <1>2, <2>2, <2>5, <2>7, ReturnStep
<1>5. CASE SettleAgain(w)
  <2>1. ~Unsettled(c) /\ Return(w) /\ UNCHANGED <<stay, online, gateway, event, seen, job>>
    BY <1>0, <1>5 DEF SettleAgain
  <2>2. Settled(c)'
    BY <1>1, <2>1 DEF Settled, Unsettled, CheckoutRows, CheckoutStatus
  <2>3. /\ online' \in [Checkouts -> CheckoutRows] /\ Grows /\ TablesOK'
        /\ \A t : RequestOK(t) => Keeps(t)
    BY <2>1, SameTables
  <2>4. /\ \A x \in Actors \ {w} : Keeps(tx[x])
        /\ e # None /\ e.type = "paid" => Settled(e.checkout)'
    <3>1. \A x \in Actors \ {w} : Keeps(tx[x])
      BY <2>3, OwnRequest
    <3>2. e # None => e.checkout = c
      BY <1>1
    <3> QED
      BY <2>2, <3>1, <3>2 DEF Settled
  <2> QED
    BY <1>2, <2>1, <2>3, <2>4, ReturnStep
<1> QED
  BY <1>3, <1>4, <1>5 DEF Settle

(* finishRefund.                                                           *)
LEMMA FinishSteps ==
  ASSUME IInv, NEW w \in Actors, Finish(w)
  PROVE  IInv' /\ Grows
<1>0. PICK c, e : c = tx[w].checkout /\ e = tx[w].event
  OBVIOUS
<1>1. /\ tx[w].op = "finish" /\ RequestOK(tx[w]) /\ c \in Checkouts /\ online[c] \in CheckoutRows
      /\ online[c].status # "none" /\ gateway[c].refund = "succeeded"
      /\ gateway[c].session = "paid"
      /\ CheckoutOK(c) /\ online \in [Checkouts -> CheckoutRows]
      /\ e # None => e = [type |-> "refunded", checkout |-> c]
  <2>1. tx[w].op = "finish"
    BY DEF Finish, FinishRefund, FinishAgain, Finishes
  <2>2. RequestOK(tx[w])
    BY OwnRequest
  <2>3. c \in Checkouts /\ Owed(c) /\ gateway[c].refund = "succeeded"
        /\ (e # None => e = [type |-> "refunded", checkout |-> c])
    BY <1>0, <2>1, <2>2 DEF RequestOK
  <2> QED
    BY <2>1, <2>2, <2>3 DEF IInv, TypeOK, MoneyAccounted, Owed
<1>2. e = tx[w].event
  BY <1>0
<1>3. e # None => e.type # "paid"
  BY <1>1
<1>4. CASE FinishRefund(w)
  <2> DEFINE p == IF online[c].payment = "completed" THEN "refunded" ELSE online[c].payment
             r == [online[c] EXCEPT !.status = "refunded", !.payment = p]
  <2>1. p \in {"none", "refunded"}
    BY <1>1 DEF CheckoutRows
  <2>2. /\ r \in CheckoutRows /\ r.status = "refunded" /\ r.payment = p
        /\ r.stay = online[c].stay /\ r.refund = online[c].refund
    BY <1>1, <2>1 DEF CheckoutRows, CheckoutStatus
  <2>3. Return(w) /\ UNCHANGED <<stay, gateway, event, seen, job>>
    BY <1>0, <1>4 DEF FinishRefund
  <2>4. online' = [online EXCEPT ![c] = r]
    BY <1>0, <1>1, <1>4 DEF FinishRefund, CheckoutRows
  <2> HIDE DEF r, p
  <2>5. RowOK(c, r)
    BY <1>1, <2>1, <2>2 DEF RowOK, CheckoutOK, Settled, Owed, SettledStatus, OwedStatus
  <2>6. /\ online' \in [Checkouts -> CheckoutRows] /\ Grows /\ TablesOK'
        /\ \A t : RequestOK(t) => Keeps(t)
    BY <1>1, <2>2, <2>3, <2>4, <2>5, RowStep
  <2>7. \A x \in Actors \ {w} : Keeps(tx[x])
    BY <2>6, OwnRequest
  <2> QED
    BY <1>2, <1>3, <2>3, <2>6, <2>7, ReturnStep
<1>5. CASE FinishAgain(w)
  <2>1. Return(w) /\ UNCHANGED <<stay, online, gateway, event, seen, job>>
    BY <1>0, <1>5 DEF FinishAgain
  <2>2. /\ online' \in [Checkouts -> CheckoutRows] /\ Grows /\ TablesOK'
        /\ \A t : RequestOK(t) => Keeps(t)
    BY <2>1, SameTables
  <2>3. \A x \in Actors \ {w} : Keeps(tx[x])
    BY <2>2, OwnRequest
  <2> QED
    BY <1>2, <1>3, <2>1, <2>2, <2>3, ReturnStep
<1> QED
  BY <1>4, <1>5 DEF Finish

(* refund commits its request, for an employee or for the job.             *)
LEMMA RefundRequested ==
  ASSUME IInv, NEW w \in Actors, NEW c \in Checkouts, RequestRefund(w, c),
         UNCHANGED <<stay, gateway, event, seen>>, job' \in JobRecords,
         Grows => JobOK'
  PROVE  IInv' /\ Grows
<1> DEFINE r == [online[c] EXCEPT !.status = "refund_pending"]
           q == Request("refund", "call", online[c].stay, c, None)
<1>1. /\ online[c].status \in {"paid", "refund_pending"} /\ online[c] \in CheckoutRows
      /\ CheckoutOK(c) /\ gateway[c].session = "paid" /\ online \in [Checkouts -> CheckoutRows]
  BY DEF RequestRefund, IInv, TypeOK, MoneyAccounted
<1>2. /\ r \in CheckoutRows /\ r.status = "refund_pending" /\ r.payment = online[c].payment
      /\ r.stay = online[c].stay /\ r.refund = online[c].refund
      /\ online' = [online EXCEPT ![c] = r]
  BY <1>1 DEF CheckoutRows, CheckoutStatus, RequestRefund
<1>3. RowOK(c, r)
  BY <1>1, <1>2 DEF RowOK, CheckoutOK, Settled, Owed, SettledStatus, OwedStatus
<1>4. /\ online' \in [Checkouts -> CheckoutRows] /\ Grows /\ TablesOK'
      /\ \A t : RequestOK(t) => Keeps(t)
  BY <1>1, <1>2, <1>3, RowStep
<1>5. /\ q \in Requests /\ q.op = "refund" /\ q.step = "call" /\ q.stay = online[c].stay
      /\ q.checkout = c /\ q.event = None /\ tx' = [tx EXCEPT ![w] = q]
  <2>1. "refund" \in Ops /\ "call" \in Steps /\ online[c].stay \in Reservations \union {None}
    BY <1>1 DEF Ops, Steps, CheckoutRows
  <2> QED
    BY <2>1, RequestTyped DEF RequestRefund
<1> HIDE DEF q, r
<1>6. online'[c].stay = q.stay /\ Owed(c)'
  BY <1>1, <1>2, <1>5 DEF Owed
<1>7. TypeOK' /\ tx'[w] = q /\ \A x \in Actors \ {w} : tx'[x] = tx[x]
  BY <1>4, <1>5 DEF IInv, TypeOK, JobRecords
<1>8. RequestOK(tx[w])' /\ ~HoldsStay(tx[w])' /\ tx'[w].step # "session"
  BY <1>5, <1>6, <1>7 DEF RequestOK, RequestShape, HoldsStay, Owed
<1>9. \A x \in Actors \ {w} : Keeps(tx[x])
  BY <1>4, OwnRequest
<1> QED
  BY <1>4, <1>7, <1>8, <1>9, RequestStep

(* refund saves the id of the refund and goes on if it succeeded.          *)
LEMMA SaveRefundStep ==
  ASSUME IInv, NEW w \in Actors, SaveRefund(w)
  PROVE  IInv' /\ Grows
<1>0. PICK c, e, v : c = tx[w].checkout /\ e = tx[w].event /\ v = tx[w].stay
  OBVIOUS
<1> DEFINE r == [online[c] EXCEPT !.refund = TRUE]
<1>1. /\ c \in Checkouts /\ Owed(c) /\ gateway[c].refund # "none" /\ e = None
      /\ online[c].stay = v /\ v \in Reservations
      /\ tx[w].answer = "succeeded" => gateway[c].refund = "succeeded"
  <2>1. RequestOK(tx[w]) /\ tx[w].op = "refund" /\ tx[w].step = "save"
    BY OwnRequest DEF SaveRefund
  <2>2. /\ c \in Checkouts /\ Owed(c) /\ gateway[c].refund # "none" /\ e = None
        /\ online[c].stay = v
        /\ tx[w].answer = "succeeded" => gateway[c].refund = "succeeded"
    BY <1>0, <2>1 DEF RequestOK, RequestShape
  <2> QED
    BY <2>2 DEF IInv, CheckoutOK, Owed
<1>2. online[c] \in CheckoutRows /\ CheckoutOK(c) /\ online \in [Checkouts -> CheckoutRows]
      /\ gateway[c].session = "paid"
  BY <1>1 DEF IInv, TypeOK, MoneyAccounted, Owed
<1>3. /\ r \in CheckoutRows /\ r.status = online[c].status /\ r.payment = online[c].payment
      /\ r.stay = online[c].stay /\ online' = [online EXCEPT ![c] = r]
      /\ UNCHANGED <<stay, gateway, event, seen, job>>
  BY <1>0, <1>2 DEF CheckoutRows, SaveRefund
<1> HIDE DEF r
<1>4. RowOK(c, r)
  BY <1>1, <1>2, <1>3 DEF IInv, MoneyAccounted, RowOK, CheckoutOK, Settled, Owed, SettledStatus, OwedStatus
<1>5. /\ online' \in [Checkouts -> CheckoutRows] /\ Grows /\ TablesOK'
      /\ \A t : RequestOK(t) => Keeps(t)
  BY <1>1, <1>2, <1>3, <1>4, RowStep DEF Owed
<1>6. \A x \in Actors \ {w} : Keeps(tx[x])
  BY <1>5, OwnRequest
<1>7. CASE tx[w].answer # "succeeded"
  <2>1. Return(w)
    BY <1>7 DEF SaveRefund
  <2> QED
    BY <1>0, <1>1, <1>3, <1>5, <1>6, <2>1, ReturnStep
<1>8. CASE tx[w].answer = "succeeded"
  <2> DEFINE q == Request("finish", "begun", v, c, None)
  <2>1. /\ q \in Requests /\ q.op = "finish" /\ q.step = "begun" /\ q.stay = v
        /\ q.checkout = c /\ q.event = None /\ tx' = [tx EXCEPT ![w] = q]
    <3>1. "finish" \in Ops /\ "begun" \in Steps
      BY DEF Ops, Steps
    <3>2. tx' = [tx EXCEPT ![w] = q]
      BY <1>0, <1>8 DEF SaveRefund
    <3> QED
      BY <1>1, <3>1, <3>2, RequestTyped
  <2> HIDE DEF q
  <2>2. Owed(c)' /\ online'[c].stay = v /\ gateway'[c].refund = "succeeded"
    BY <1>1, <1>2, <1>3, <1>8 DEF Owed
  <2>3. TypeOK' /\ tx'[w] = q /\ \A x \in Actors \ {w} : tx'[x] = tx[x]
    BY <1>3, <1>5, <2>1 DEF IInv, TypeOK
  <2>4. RequestOK(tx[w])' /\ ~HoldsStay(tx[w])' /\ tx'[w].step # "session"
    BY <1>1, <2>1, <2>2, <2>3 DEF RequestOK, RequestShape, HoldsStay, Owed
  <2>5. JobOK'
    BY <1>3, <1>5, JobKeeps
  <2> QED
    BY <1>5, <1>6, <2>3, <2>4, <2>5, RequestStep
<1> QED
  BY <1>7, <1>8

(* Only a checkout still pending is given up.                              *)
LEMMA ExpireRow ==
  ASSUME IInv, NEW c \in Checkouts, Expire(c), gateway[c].session = "expired",
         UNCHANGED <<stay, gateway, event, seen>>
  PROVE  /\ online' \in [Checkouts -> CheckoutRows] /\ Grows /\ TablesOK'
         /\ \A t : RequestOK(t) => Keeps(t)
<1>1. CASE online[c].status # "pending"
  BY <1>1, SameTables DEF Expire
<1>2. CASE online[c].status = "pending"
  <2> DEFINE r == [online[c] EXCEPT !.status = "expired"]
  <2>1. online[c] \in CheckoutRows /\ CheckoutOK(c) /\ online \in [Checkouts -> CheckoutRows]
        /\ (gateway[c].refund # "none" => Owed(c))
    BY DEF IInv, TypeOK, MoneyAccounted, Owed
  <2>2. /\ r \in CheckoutRows /\ r.status = "expired" /\ r.payment = online[c].payment
        /\ r.stay = online[c].stay /\ r.refund = online[c].refund
        /\ online' = [online EXCEPT ![c] = r]
    BY <1>2, <2>1 DEF CheckoutRows, CheckoutStatus, Expire
  <2> HIDE DEF r
  <2>3. RowOK(c, r)
    BY <1>2, <2>1, <2>2 DEF RowOK, CheckoutOK, Settled, Owed, SettledStatus, OwedStatus
  <2> QED
    BY <1>2, <2>2, <2>3, RowStep
<1> QED
  BY <1>1, <1>2

(* handleEvent: an expired session.                                        *)
LEMMA ExpiredStep ==
  ASSUME IInv, NEW w \in Actors, HandleExpired(w)
  PROVE  IInv' /\ Grows
<1>0. PICK c, e : c = tx[w].event.checkout /\ e = tx[w].event
  OBVIOUS
<1>1. /\ e.type = "expired" /\ Expire(c) /\ Return(w) /\ tx[w].op = "event"
      /\ UNCHANGED <<stay, gateway, event, seen, job>>
  BY <1>0 DEF HandleExpired, Handles
<1>2. c \in Checkouts /\ gateway[c].session = "expired"
  <2>1. e \in event
    BY <1>0, <1>1, OwnRequest DEF RequestOK
  <2> QED
    BY <1>0, <1>1, <2>1 DEF IInv, TypeOK, Events, EventOK
<1>3. /\ online' \in [Checkouts -> CheckoutRows] /\ Grows /\ TablesOK'
      /\ \A t : RequestOK(t) => Keeps(t)
  BY <1>1, <1>2, ExpireRow
<1>4. \A x \in Actors \ {w} : Keeps(tx[x])
  BY <1>3, OwnRequest
<1> QED
  BY <1>0, <1>1, <1>3, <1>4, ReturnStep

(* reconcile starts, goes on to the sessions, and ends.                    *)
LEMMA JobPhases ==
  ASSUME IInv, JobStart \/ JobSessions \/ JobEnd
  PROVE  IInv' /\ Grows
<1>1. UNCHANGED <<stay, online, gateway, event, seen, tx>>
  BY DEF JobStart, JobSessions, JobEnd
<1>2. job' \in JobRecords /\ JobOK'
  BY <1>1 DEF JobStart, JobSessions, JobEnd, NoJob, JobRecords, JobOK, Owed
<1>3. TypeOK'
  BY <1>1, <1>2 DEF IInv, TypeOK, JobRecords
<1>4. Grows /\ TablesOK' /\ \A x \in Actors : Keeps(tx[x])
  BY <1>1, SameTables, OwnRequest
<1> QED
  BY <1>1, <1>2, <1>3, <1>4, OutsideStep

(* reconcile tries the oldest refund.                                      *)
LEMMA JobRefundStep ==
  ASSUME IInv, JobRefund
  PROVE  IInv' /\ Grows
<1>1. PICK c \in job.todo :
        /\ job' = [job EXCEPT !.todo = job.todo \ {c}]
        /\ RequestRefund(Job, c) \/ UNCHANGED <<online, tx>>
        /\ UNCHANGED <<stay, gateway, event, seen>>
  BY DEF JobRefund
<1>2. /\ c \in Checkouts /\ job' \in JobRecords /\ Job \in Actors
      /\ job'.phase = job.phase /\ job'.todo \subseteq job.todo
  BY <1>1 DEF IInv, TypeOK, JobRecords, Actors
<1>3. Grows => JobOK'
  BY <1>2 DEF IInv, JobOK, Grows, TypeOK
<1>4. CASE RequestRefund(Job, c)
  BY <1>1, <1>2, <1>3, <1>4, RefundRequested
<1>5. CASE UNCHANGED <<online, tx>>
  <2>1. Grows /\ TablesOK' /\ \A x \in Actors : Keeps(tx[x])
    BY <1>1, <1>5, SameTables, OwnRequest
  <2>2. TypeOK'
    BY <1>1, <1>2, <1>5 DEF IInv, TypeOK, JobRecords
  <2> QED
    BY <1>3, <1>5, <2>1, <2>2, OutsideStep
<1> QED
  BY <1>1, <1>4, <1>5

(* reconcile looks at a session that is due.                               *)
LEMMA JobRetrieveStep ==
  ASSUME IInv, NEW c \in Checkouts, JobRetrieve(c)
  PROVE  IInv' /\ Grows
<1>1. /\ job' \in JobRecords /\ job'.phase = "sessions" /\ job'.todo \subseteq job.todo
      /\ c \in job.todo /\ job.phase = "sessions"
      /\ UNCHANGED <<stay, gateway, event, seen>> /\ Job \in Actors
  BY DEF IInv, TypeOK, JobRecords, JobRetrieve, Actors
<1>2. online[c].status # "none" /\ Grows => JobOK'
  BY <1>1 DEF IInv, JobOK, Grows, TypeOK
<1>3. online[c].status # "none" /\ online[c].stay \in Reservations
  BY <1>1 DEF IInv, JobOK, CheckoutOK
<1>4. CASE UNCHANGED tx /\ (UNCHANGED online \/ (Expire(c) /\ gateway[c].session = "expired"))
  <2>1. /\ online' \in [Checkouts -> CheckoutRows] /\ Grows /\ TablesOK'
        /\ \A t : RequestOK(t) => Keeps(t)
    BY <1>1, <1>4, SameTables, ExpireRow
  <2>2. TypeOK'
    BY <1>1, <1>4, <2>1 DEF IInv, TypeOK, JobRecords
  <2>3. \A x \in Actors : Keeps(tx[x])
    BY <2>1, OwnRequest
  <2> QED
    BY <1>2, <1>3, <1>4, <2>1, <2>2, <2>3, OutsideStep
<1>5. CASE gateway[c].session = "paid" /\ UNCHANGED online
           /\ tx' = [tx EXCEPT ![Job] = Request("settle", "begun", online[c].stay, c, None)]
  <2> DEFINE q == Request("settle", "begun", online[c].stay, c, None)
  <2>1. /\ q \in Requests /\ q.op = "settle" /\ q.step = "begun" /\ q.stay = online[c].stay
        /\ q.checkout = c /\ q.event = None /\ tx' = [tx EXCEPT ![Job] = q]
    <3>1. "settle" \in Ops /\ "begun" \in Steps
      BY DEF Ops, Steps
    <3> QED
      BY <1>3, <1>5, <3>1, RequestTyped
  <2> HIDE DEF q
  <2>2. RequestOK(q) /\ ~HoldsStay(q)
    BY <1>3, <1>5, <2>1 DEF RequestOK, RequestShape, HoldsStay
  <2>3. Grows /\ TablesOK'
    BY <1>1, <1>5, SameTables
  <2>4. JobOK' /\ RecordedMeansSettled' /\ seen' \subseteq event
    BY <1>1, <1>2, <1>3, <2>3 DEF TablesOK, IInv, TypeOK
  <2> QED
    BY <1>1, <1>5, <2>1, <2>2, <2>4, OnlyRequest DEF JobRecords
<1> QED
  BY <1>4, <1>5 DEF JobRetrieve

(* A session comes past its time.                                          *)
LEMMA DueStep ==
  ASSUME IInv, NEW c \in Checkouts, BecomesDue(c)
  PROVE  IInv' /\ Grows
<1> DEFINE r == [online[c] EXCEPT !.due = TRUE]
<1>1. /\ online[c] \in CheckoutRows /\ CheckoutOK(c) /\ online \in [Checkouts -> CheckoutRows]
      /\ (gateway[c].refund # "none" => Owed(c)) /\ online[c].status = "pending"
  BY DEF IInv, TypeOK, MoneyAccounted, Owed, BecomesDue
<1>2. /\ r \in CheckoutRows /\ r.status = "pending" /\ r.payment = online[c].payment
      /\ r.stay = online[c].stay /\ r.refund = online[c].refund
      /\ online' = [online EXCEPT ![c] = r] /\ UNCHANGED <<stay, gateway, event, seen, tx, job>>
  BY <1>1 DEF CheckoutRows, BecomesDue
<1> HIDE DEF r
<1>3. RowOK(c, r)
  BY <1>1, <1>2 DEF RowOK, CheckoutOK, Settled, Owed, SettledStatus, OwedStatus
<1>4. /\ online' \in [Checkouts -> CheckoutRows] /\ Grows /\ TablesOK'
      /\ \A t : RequestOK(t) => Keeps(t)
  BY <1>1, <1>2, <1>3, RowStep
<1>5. TypeOK' /\ JobOK' /\ \A x \in Actors : Keeps(tx[x])
  BY <1>2, <1>4, OwnRequest, JobKeeps DEF IInv, TypeOK
<1> QED
  BY <1>2, <1>4, <1>5, OutsideStep

(* The desk changes a reservation that no request has locked.              *)
LEMMA DeskSteps ==
  ASSUME IInv, NEW v \in Reservations, DeskStep(v)
  PROVE  IInv' /\ Grows
<1>1. UNCHANGED <<online, gateway, event, seen, tx, job>> /\ StayUnlocked(v)
  BY DEF DeskStep
<1>2. stay' \in [Reservations -> StayRows] /\ \A u \in Reservations \ {v} : stay'[u] = stay[u]
  <2>1. stay \in [Reservations -> StayRows] /\ stay[v] \in StayRows /\ Prices \subseteq Nat
    BY PricesAssumption DEF IInv, TypeOK
  <2>2. CASE DeskCollects(v)
    BY <2>1, <2>2 DEF DeskCollects, StayRows
  <2>3. CASE DeskRefunds(v)
    BY <2>1, <2>3 DEF DeskRefunds, StayRows
  <2>4. CASE SetPrice(v)
    BY <2>1, <2>4 DEF SetPrice, StayRows
  <2>5. CASE CancelStay(v)
    BY <2>1, <2>5 DEF CancelStay, StayRows
  <2> QED
    BY <2>2, <2>3, <2>4, <2>5 DEF DeskStep
<1>3. TypeOK' /\ Grows
  BY <1>1, <1>2 DEF IInv, TypeOK, Grows, Settled, Owed
<1>4. TablesOK'
  BY <1>1 DEF IInv, TablesOK, CheckoutOK, EventOK, OnePendingCheckout, Pending, MoneyAccounted,
     RecordedMeansSettled, Settled
<1>5. \A x \in Actors : Keeps(tx[x])
  <2>1. SUFFICES ASSUME NEW x \in Actors PROVE Keeps(tx[x])
    OBVIOUS
  <2>2. RequestOK(tx[x]) /\ (HoldsStay(tx[x]) => tx[x].stay # v)
    BY <1>1, OwnRequest DEF StayUnlocked
  <2> QED
    BY <1>1, <1>2, <2>2 DEF Keeps, RequestOK, Pending, HoldsStay
<1>6. JobOK'
  BY <1>1, <1>3, JobKeeps
<1> QED
  BY <1>1, <1>3, <1>4, <1>5, <1>6, OutsideStep

-----------------------------------------------------------------------------
(* Steps that change one row at the gateway.                               *)

GatewayOK(c, g) ==
  /\ gateway[c].session # "none" => g.session # "none"
  /\ gateway[c].session \in {"paid", "expired"} => g.session = gateway[c].session
  /\ online[c].status = "none" => g.session # "paid"
  /\ gateway[c].refund # "none" => g.refund # "none"
  /\ gateway[c].refund = "succeeded" => g.refund = "succeeded"
  /\ g.refund # "none" => Owed(c)
  /\ g.answer = "none" <=> g.refund = "none"
  /\ g.answer = "succeeded" => g.refund = "succeeded"

(* A row of the gateway that GatewayOK allows keeps the tables in order.   *)
LEMMA GatewayStep ==
  ASSUME IInv, NEW c \in Checkouts, NEW g \in GatewayRows, GatewayOK(c, g),
         gateway' = [gateway EXCEPT ![c] = g], UNCHANGED <<stay, online, seen>>,
         event \subseteq event', \A e \in event' \ event : EventOK(e)'
  PROVE  /\ gateway' \in [Checkouts -> GatewayRows] /\ gateway'[c] = g
         /\ Grows /\ TablesOK'
         /\ \A t : RequestOK(t) /\ (t.op = "create" /\ t.step = "session" /\ t.checkout = c =>
                                      gateway[c].session # "none") => Keeps(t)
<1>1. /\ gateway' \in [Checkouts -> GatewayRows] /\ gateway'[c] = g
      /\ \A d \in Checkouts \ {c} : gateway'[d] = gateway[d]
  BY DEF IInv, TypeOK
<1>2. Grows
  BY <1>1 DEF Grows, GatewayOK, Settled, Owed
<1>3. \A v : Pending(v)' = Pending(v)
  BY DEF Pending
<1>4. TablesOK'
  <2>1. \A d \in Checkouts : CheckoutOK(d)'
    <3>1. SUFFICES ASSUME NEW d \in Checkouts PROVE CheckoutOK(d)'
      OBVIOUS
    <3>2. CheckoutOK(d) /\ (d = c \/ gateway'[d] = gateway[d])
      BY <1>1 DEF IInv
    <3>3. (Settled(d)' <=> Settled(d)) /\ online'[d] = online[d]
      BY DEF Settled
    <3> QED
      BY <1>1, <3>2, <3>3 DEF CheckoutOK, GatewayOK, GatewayRows
  <2>2. \A e \in event' : EventOK(e)'
    <3>1. SUFFICES ASSUME NEW e \in event PROVE EventOK(e)'
      OBVIOUS
    <3>2. EventOK(e) /\ e.checkout \in Checkouts
      BY DEF IInv, TypeOK, Events
    <3> QED
      BY <1>1, <3>2 DEF EventOK, GatewayOK
  <2>3. OnePendingCheckout'
    BY <1>3 DEF IInv, OnePendingCheckout
  <2>4. MoneyAccounted'
    BY <1>1 DEF IInv, MoneyAccounted, GatewayOK, Owed
  <2>5. RecordedMeansSettled'
    BY DEF IInv, RecordedMeansSettled
  <2> QED
    BY <2>1, <2>2, <2>3, <2>4, <2>5 DEF TablesOK
<1>5. ASSUME NEW t, RequestOK(t),
             t.op = "create" /\ t.step = "session" /\ t.checkout = c => gateway[c].session # "none"
      PROVE  Keeps(t)
  <2>1. ASSUME t.op = "create", t.step = "session"
        PROVE  gateway'[t.checkout].session \in {"open", "expired"} /\ online[t.checkout] = NoCheckout
    <3>1. /\ t.checkout \in Checkouts /\ online[t.checkout] = NoCheckout
          /\ gateway[t.checkout].session \in {"open", "expired"}
      BY <1>5, <2>1 DEF RequestOK
    <3>2. NoCheckout.status = "none"
      BY DEF NoCheckout
    <3> QED
      BY <1>1, <3>1, <3>2 DEF GatewayOK, GatewayRows
  <2> QED
    BY <1>5, <2>1 DEF Keeps, RequestOK, Pending
<1> QED
  BY <1>1, <1>2, <1>4, <1>5

(* A guest pays, a session expires, a refund succeeds.                     *)
LEMMA OutsideGateway ==
  ASSUME IInv, NEW c \in Checkouts, GuestPays(c) \/ SessionExpires(c) \/ RefundSucceeds(c)
  PROVE  IInv' /\ Grows
<1>1. /\ gateway \in [Checkouts -> GatewayRows] /\ CheckoutOK(c)
      /\ (gateway[c].refund # "none" => Owed(c))
  BY DEF IInv, TypeOK, MoneyAccounted, Owed
<1>2. PICK g \in GatewayRows, e \in Events :
        /\ GatewayOK(c, g) /\ gateway' = [gateway EXCEPT ![c] = g]
        /\ event' = event \union {e} /\ e.checkout = c
        /\ e.type \in {"paid", "expired"} => g.session = e.type
        /\ e.type = "refunded" => g.refund = "succeeded"
  <2>1. CASE GuestPays(c)
    <3> DEFINE g == [gateway[c] EXCEPT !.session = "paid"]
               e == [type |-> "paid", checkout |-> c]
    <3>1. /\ g \in GatewayRows /\ g.session = "paid"
          /\ g.refund = gateway[c].refund /\ g.answer = gateway[c].answer
      BY <1>1 DEF GatewayRows
    <3>2. gateway' = [gateway EXCEPT ![c] = g] /\ event' = event \union {e}
      BY <1>1, <2>1 DEF GuestPays, GatewayRows
    <3>3. gateway[c].session = "open" /\ online[c].status # "none"
      BY <2>1 DEF GuestPays
    <3>4. e \in Events /\ e.type = "paid" /\ e.checkout = c
      BY DEF Events
    <3> HIDE DEF g, e
    <3>5. GatewayOK(c, g)
      BY <1>1, <3>1, <3>3 DEF GatewayOK, CheckoutOK
    <3> QED
      BY <3>1, <3>2, <3>4, <3>5
  <2>2. CASE SessionExpires(c)
    <3> DEFINE g == [gateway[c] EXCEPT !.session = "expired"]
               e == [type |-> "expired", checkout |-> c]
    <3>1. /\ g \in GatewayRows /\ g.session = "expired"
          /\ g.refund = gateway[c].refund /\ g.answer = gateway[c].answer
      BY <1>1 DEF GatewayRows
    <3>2. gateway' = [gateway EXCEPT ![c] = g] /\ event' = event \union {e}
      BY <1>1, <2>2 DEF SessionExpires, GatewayRows
    <3>3. gateway[c].session = "open"
      BY <2>2 DEF SessionExpires
    <3>4. e \in Events /\ e.type = "expired" /\ e.checkout = c
      BY DEF Events
    <3> HIDE DEF g, e
    <3>5. GatewayOK(c, g)
      BY <1>1, <3>1, <3>3 DEF GatewayOK, CheckoutOK
    <3> QED
      BY <3>1, <3>2, <3>4, <3>5
  <2>3. CASE RefundSucceeds(c)
    <3> DEFINE g == [gateway[c] EXCEPT !.refund = "succeeded"]
               e == [type |-> "refunded", checkout |-> c]
    <3>1. /\ g \in GatewayRows /\ g.refund = "succeeded"
          /\ g.session = gateway[c].session /\ g.answer = gateway[c].answer
      BY <1>1 DEF GatewayRows
    <3>2. gateway' = [gateway EXCEPT ![c] = g] /\ event' = event \union {e}
      BY <1>1, <2>3 DEF RefundSucceeds, GatewayRows, Succeeded
    <3>3. gateway[c].refund = "pending"
      BY <2>3 DEF RefundSucceeds
    <3>4. e \in Events /\ e.type = "refunded" /\ e.checkout = c
      BY DEF Events
    <3> HIDE DEF g, e
    <3>5. GatewayOK(c, g)
      BY <1>1, <3>1, <3>3 DEF GatewayOK, CheckoutOK, Owed
    <3> QED
      BY <3>1, <3>2, <3>4, <3>5
  <2> QED
    BY <2>1, <2>2, <2>3
<1>3. UNCHANGED <<stay, online, seen, tx, job>> /\ gateway[c].session # "none"
  BY <1>1 DEF GuestPays, SessionExpires, RefundSucceeds, CheckoutOK, Owed
<1>4. gateway'[c] = g
  BY <1>1, <1>2
<1>5. \A d \in event' \ event : EventOK(d)'
  BY <1>2, <1>4 DEF EventOK
<1>6. /\ gateway' \in [Checkouts -> GatewayRows] /\ Grows /\ TablesOK'
      /\ \A t : RequestOK(t) => Keeps(t)
  BY <1>2, <1>3, <1>5, GatewayStep
<1>7. TypeOK' /\ JobOK' /\ \A x \in Actors : Keeps(tx[x])
  BY <1>2, <1>3, <1>6, OwnRequest, JobKeeps DEF IInv, TypeOK
<1> QED
  BY <1>3, <1>6, <1>7, OutsideStep

(* refund calls the gateway.                                               *)
LEMMA CallStep ==
  ASSUME IInv, NEW w \in Actors, CallRefund(w)
  PROVE  IInv' /\ Grows
<1>0. PICK t, c : t = tx[w] /\ c = t.checkout
  OBVIOUS
<1>1. PICK r \in {"pending", "succeeded"} :
        /\ t.op = "refund" /\ t.step = "call"
        /\ gateway[c].answer \in {"none", r}
        /\ gateway' = [gateway EXCEPT ![c].answer = r,
                                      ![c].refund = IF @ = "none" THEN r ELSE @]
        /\ event' = IF r = "succeeded" THEN event \union {Succeeded(c)} ELSE event
        /\ tx' = [tx EXCEPT ![w].step = "save", ![w].answer = r]
        /\ UNCHANGED <<stay, online, seen, job>>
  BY <1>0 DEF CallRefund
<1>2. /\ t \in Requests /\ RequestOK(t) /\ c \in Checkouts /\ Owed(c) /\ t.event = None
      /\ online[c].stay = t.stay /\ gateway[c].session = "paid"
      /\ gateway \in [Checkouts -> GatewayRows] /\ tx \in [Actors -> Requests]
  <2>1. /\ t \in Requests /\ RequestOK(t)
    BY <1>0, OwnRequest
  <2>2. c \in Checkouts /\ Owed(c) /\ t.event = None /\ online[c].stay = t.stay
    BY <1>0, <1>1, <2>1 DEF RequestOK, RequestShape
  <2> QED
    BY <2>1, <2>2 DEF IInv, TypeOK, MoneyAccounted, Owed
<1> DEFINE g == [gateway[c] EXCEPT !.answer = r, !.refund = IF @ = "none" THEN r ELSE @]
           q == [t EXCEPT !.step = "save", !.answer = r]
<1>3. /\ g \in GatewayRows /\ g.answer = r /\ g.session = gateway[c].session
      /\ g.refund = IF gateway[c].refund = "none" THEN r ELSE gateway[c].refund
      /\ gateway' = [gateway EXCEPT ![c] = g]
  BY <1>1, <1>2 DEF GatewayRows
<1>4. /\ q \in Requests /\ q.op = "refund" /\ q.step = "save" /\ q.answer = r
      /\ q.checkout = c /\ q.stay = t.stay /\ q.event = None
      /\ tx' = [tx EXCEPT ![w] = q]
  BY <1>0, <1>1, <1>2 DEF Requests, Steps
<1> HIDE DEF g, q
<1>5. GatewayOK(c, g) /\ g.refund # "none" /\ (r = "succeeded" => g.refund = "succeeded")
  <2>1. CheckoutOK(c) /\ gateway[c] \in GatewayRows
    BY <1>2 DEF IInv
  <2>2. g.refund # "none" /\ (r = "succeeded" => g.refund = "succeeded")
    BY <1>1, <1>3, <2>1 DEF CheckoutOK, GatewayRows
  <2> QED
    BY <1>1, <1>2, <1>3, <2>1, <2>2 DEF GatewayOK, CheckoutOK, Owed
<1>6. gateway'[c] = g /\ tx'[w] = q /\ \A x \in Actors \ {w} : tx'[x] = tx[x]
  BY <1>2, <1>3, <1>4
<1>7. event \subseteq event' /\ event' \subseteq Events /\ \A d \in event' \ event : EventOK(d)'
  <2>1. Succeeded(c) \in Events /\ Succeeded(c).type = "refunded" /\ Succeeded(c).checkout = c
    BY <1>2 DEF Succeeded, Events
  <2>2. r = "succeeded" => EventOK(Succeeded(c))'
    BY <1>5, <1>6, <2>1 DEF EventOK, Succeeded
  <2> QED
    BY <1>1, <2>1, <2>2 DEF IInv, TypeOK
<1>8. /\ gateway' \in [Checkouts -> GatewayRows] /\ Grows /\ TablesOK'
      /\ \A x \in Actors \ {w} : Keeps(tx[x])
  BY <1>1, <1>2, <1>3, <1>5, <1>7, GatewayStep, OwnRequest
<1>9. TypeOK' /\ JobOK'
  BY <1>1, <1>4, <1>7, <1>8, JobKeeps DEF IInv, TypeOK
<1>10. /\ Owed(c)' /\ online'[c].stay = q.stay /\ gateway'[c].refund # "none"
       /\ q.answer = "succeeded" => gateway'[c].refund = "succeeded"
  BY <1>1, <1>2, <1>4, <1>5, <1>6 DEF Owed
<1>11. RequestOK(tx[w])' /\ ~HoldsStay(tx[w])' /\ tx'[w].step # "session"
  BY <1>1, <1>2, <1>4, <1>6, <1>10 DEF RequestOK, RequestShape, HoldsStay, Owed
<1> QED
  BY <1>1, <1>6, <1>8, <1>9, <1>11, RequestStep

(* create opens a session at the gateway.                                  *)
LEMMA OpenStep ==
  ASSUME IInv, NEW w \in Actors, OpenSession(w)
  PROVE  IInv' /\ Grows
<1>0. PICK t : t = tx[w]
  OBVIOUS
<1>1. PICK c \in Checkouts, n \in Offers(t.stay, t.row.total) :
        /\ t.op = "create" /\ t.step = "stay" /\ Pending(t.stay) = {}
        /\ gateway[c].session = "none"
        /\ gateway' = [gateway EXCEPT ![c].session = "open"]
        /\ tx' = [tx EXCEPT ![w].step = "session", ![w].checkout = c, ![w].amount = n]
        /\ UNCHANGED <<stay, online, event, seen, job>>
  BY <1>0 DEF OpenSession
<1>2. /\ t \in Requests /\ RequestOK(t) /\ t.event = None /\ t.stay \in Reservations
      /\ t.row = stay[t.stay] /\ n \in Nat /\ n > 0
      /\ gateway \in [Checkouts -> GatewayRows] /\ tx \in [Actors -> Requests]
  <2>1. t \in Requests /\ RequestOK(t)
    BY <1>0, OwnRequest
  <2>2. t.event = None /\ t.stay \in Reservations /\ t.row = stay[t.stay]
    BY <1>1, <2>1 DEF RequestOK, RequestShape, HoldsStay
  <2>3. t.row.total \in Nat
    BY <2>1, PricesAssumption DEF Requests, StayRows
  <2>4. n \in 1 .. t.row.total
    BY DEF Offers
  <2> QED
    BY <2>1, <2>2, <2>3, <2>4 DEF IInv, TypeOK
<1>3. online[c] = NoCheckout /\ online[c].status = "none" /\ gateway[c].refund = "none"
      /\ CheckoutOK(c)
  <2>1. CheckoutOK(c)
    BY DEF IInv
  <2>2. online[c] = NoCheckout
    BY <1>1, <2>1 DEF CheckoutOK
  <2>3. online[c].status = "none"
    BY <2>2 DEF NoCheckout
  <2> QED
    BY <2>1, <2>2, <2>3 DEF IInv, MoneyAccounted
<1> DEFINE g == [gateway[c] EXCEPT !.session = "open"]
           q == [t EXCEPT !.step = "session", !.checkout = c, !.amount = n]
<1>4. /\ g \in GatewayRows /\ g.session = "open"
      /\ g.refund = "none" /\ g.answer = gateway[c].answer
      /\ gateway' = [gateway EXCEPT ![c] = g]
  BY <1>1, <1>2, <1>3 DEF GatewayRows
<1>5. /\ q \in Requests /\ q.op = "create" /\ q.step = "session" /\ q.amount = n
      /\ q.checkout = c /\ q.stay = t.stay /\ q.event = None /\ q.row = t.row
      /\ tx' = [tx EXCEPT ![w] = q]
  BY <1>0, <1>1, <1>2 DEF Requests, Steps
<1> HIDE DEF g, q
<1>6. GatewayOK(c, g)
  BY <1>1, <1>3, <1>4 DEF GatewayOK, CheckoutOK
<1>7. gateway'[c] = g /\ tx'[w] = q /\ \A x \in Actors \ {w} : tx'[x] = tx[x]
  BY <1>2, <1>4, <1>5
<1>8. \A x \in Actors : tx[x].step = "session" => tx[x].op = "create" /\ tx[x].checkout # c
  <2>1. SUFFICES ASSUME NEW x \in Actors, tx[x].step = "session"
                 PROVE  tx[x].op = "create" /\ tx[x].checkout # c
    OBVIOUS
  <2>2. tx[x] \in Requests /\ RequestOK(tx[x])
    BY OwnRequest
  <2>3. tx[x].op = "create"
    BY <2>1, <2>2 DEF RequestOK, RequestShape, Requests, Ops
  <2>4. gateway[tx[x].checkout].session \in {"open", "expired"}
    BY <2>1, <2>2, <2>3 DEF RequestOK
  <2> QED
    BY <1>1, <2>3, <2>4
<1>9. /\ gateway' \in [Checkouts -> GatewayRows] /\ Grows /\ TablesOK'
      /\ \A x \in Actors \ {w} : Keeps(tx[x])
  BY <1>1, <1>4, <1>6, <1>8, GatewayStep, OwnRequest
<1>10. TypeOK' /\ JobOK'
  <2>1. TypeOK /\ UNCHANGED <<stay, online, event, seen, job>>
    BY <1>1 DEF IInv
  <2>2. TypeOK'
    BY <1>5, <1>9, <2>1 DEF TypeOK
  <2> QED
    BY <1>9, <2>1, <2>2, JobKeeps
<1>11. RequestOK(q)'
  <2>1. online'[c] = NoCheckout /\ gateway'[c].session = "open" /\ q.row = stay'[q.stay]
    BY <1>1, <1>2, <1>3, <1>4, <1>5, <1>7
  <2>2. \A v : Pending(v)' = Pending(v)
    BY <1>1 DEF Pending
  <2> QED
    BY <1>1, <1>2, <1>5, <2>1, <2>2 DEF RequestOK, RequestShape, HoldsStay
<1>12. /\ RequestOK(tx[w])' /\ HoldsStay(tx[w]) /\ tx'[w].stay = tx[w].stay
       /\ \A x \in Actors \ {w} : tx[x].step = "session" => tx[x].checkout # tx'[w].checkout
  BY <1>0, <1>1, <1>5, <1>7, <1>8, <1>11 DEF HoldsStay
<1> QED
  BY <1>7, <1>9, <1>10, <1>12, RequestStep

(* create commits the row of its session.                                  *)
LEMMA SaveStep ==
  ASSUME IInv, NEW w \in Actors, SaveCheckout(w)
  PROVE  IInv' /\ Grows
<1>0. PICK c, v, e : c = tx[w].checkout /\ v = tx[w].stay /\ e = tx[w].event
  OBVIOUS
<1> DEFINE r == [NoCheckout EXCEPT !.status = "pending", !.stay = v, !.amount = tx[w].amount]
<1>1. /\ c \in Checkouts /\ v \in Reservations /\ e = None
      /\ online[c] = NoCheckout /\ gateway[c].session \in {"open", "expired"}
      /\ Pending(v) = {} /\ HoldsStay(tx[w]) /\ tx[w].amount \in Nat
      /\ tx[w].step = "session"
  <2>1. tx[w] \in Requests /\ RequestOK(tx[w]) /\ tx[w].op = "create" /\ tx[w].step = "session"
    BY OwnRequest DEF SaveCheckout
  <2> QED
    BY <1>0, <2>1 DEF RequestOK, RequestShape, HoldsStay, Requests
<1>2. /\ r \in CheckoutRows /\ r.status = "pending" /\ r.payment = "none" /\ r.stay = v
      /\ ~r.refund /\ online' = [online EXCEPT ![c] = r] /\ Return(w)
      /\ UNCHANGED <<stay, gateway, event, seen, job>>
  BY <1>0, <1>1 DEF NoCheckout, CheckoutRows, CheckoutStatus, SaveCheckout
<1> HIDE DEF r
<1>3. /\ online' \in [Checkouts -> CheckoutRows] /\ online'[c] = r
      /\ \A d \in Checkouts \ {c} : online'[d] = online[d]
  BY <1>1, <1>2 DEF IInv, TypeOK
<1>4. online[c].status = "none" /\ gateway[c].refund = "none" /\ ~Settled(c) /\ ~Owed(c)
  <2>1. online[c].status = "none"
    BY <1>1 DEF NoCheckout
  <2> QED
    BY <1>1, <2>1 DEF IInv, MoneyAccounted, Settled, Owed
<1>5. Grows
  BY <1>2, <1>3, <1>4 DEF Grows, Settled, Owed
<1>6. Pending(v)' = {c} /\ \A u : u # v => Pending(u)' = Pending(u)
  BY <1>1, <1>2, <1>3, <1>4 DEF Pending
<1>7. TablesOK'
  <2>1. \A d \in Checkouts : CheckoutOK(d)'
    BY <1>1, <1>2, <1>3 DEF IInv, CheckoutOK, Settled
  <2>2. \A d \in event' : EventOK(d)'
    BY <1>2 DEF IInv, EventOK
  <2>3. OnePendingCheckout'
    BY <1>6 DEF IInv, OnePendingCheckout
  <2>4. MoneyAccounted'
    BY <1>2, <1>3, <1>4 DEF IInv, MoneyAccounted
  <2>5. RecordedMeansSettled'
    BY <1>2, <1>3, <1>4 DEF IInv, RecordedMeansSettled, Settled
  <2> QED
    BY <2>1, <2>2, <2>3, <2>4, <2>5 DEF TablesOK
<1>8. \A x \in Actors \ {w} : Keeps(tx[x])
  <2>1. SUFFICES ASSUME NEW x \in Actors \ {w}, NEW t, t = tx[x],
                        t.op = "create", t.step = "session"
                 PROVE  /\ online'[t.checkout] = NoCheckout
                        /\ gateway'[t.checkout].session \in {"open", "expired"}
                        /\ \A d \in Checkouts :
                             online'[d].status = "pending" => online'[d].stay # t.stay
    BY <1>2 DEF Keeps
  <2>2. /\ online[t.checkout] = NoCheckout /\ t.checkout \in Checkouts
        /\ gateway[t.checkout].session \in {"open", "expired"} /\ Pending(t.stay) = {}
    BY <2>1, OwnRequest DEF RequestOK
  <2>3. t.checkout # c /\ t.stay # v
    BY <1>0, <1>1, <2>1 DEF IInv, RequestsApart, HoldsStay
  <2> QED
    BY <1>2, <1>3, <2>2, <2>3 DEF Pending
<1> QED
  BY <1>0, <1>1, <1>2, <1>3, <1>5, <1>7, <1>8, ReturnStep

-----------------------------------------------------------------------------
(* The theorems.                                                           *)

(* Every step keeps the invariant and takes nothing back.                  *)
LEMMA StepIInv ==
  ASSUME IInv, [Next]_vars
  PROVE  IInv' /\ Grows
<1>1. Workers \subseteq Actors
  BY DEF Actors
<1>2. CASE UNCHANGED vars
  <2>1. UNCHANGED <<stay, online, gateway, event, seen, tx, job>>
    BY <1>2 DEF vars
  <2>2. Grows /\ TablesOK' /\ \A x \in Actors : Keeps(tx[x])
    BY <2>1, SameTables, OwnRequest
  <2>3. TypeOK' /\ JobOK'
    BY <2>1, <2>2, JobKeeps DEF IInv, TypeOK
  <2> QED
    BY <2>1, <2>2, <2>3, OutsideStep
<1>3. CASE \E w \in Workers : BeginCreate(w) \/ BeginRefund(w) \/ ReceiveEvent(w)
  <2>1. PICK w \in Workers : BeginCreate(w) \/ BeginRefund(w) \/ ReceiveEvent(w)
    BY <1>3
  <2>2. CASE BeginRefund(w)
    <3>1. PICK c \in Checkouts : RequestRefund(w, c)
      BY <2>2 DEF BeginRefund
    <3>2. UNCHANGED <<stay, gateway, event, seen, job>>
      BY <2>2 DEF BeginRefund
    <3>3. job' \in JobRecords /\ (Grows => JobOK')
      BY <3>2, JobKeeps DEF IInv, TypeOK, JobRecords
    <3> QED
      BY <1>1, <3>1, <3>2, <3>3, RefundRequested
  <2> QED
    BY <2>1, <2>2, BeginSteps
<1>4. CASE \E w \in Actors : Goes(w) \/ Fail(w)
  <2>1. PICK w \in Actors : Goes(w) \/ Fail(w)
    BY <1>4
  <2>2. Goes(w) => \/ LockStay(w) \/ OpenSession(w) \/ SaveCheckout(w) \/ Settle(w)
                   \/ CallRefund(w) \/ SaveRefund(w) \/ Finish(w)
                   \/ HandlePaid(w) \/ HandleRefunded(w) \/ RecordEvent(w) \/ HandleExpired(w)
    BY DEF Goes, Handle
  <2> QED
    BY <2>1, <2>2, LockStep, OpenStep, SaveStep, SettleSteps, CallStep, SaveRefundStep,
       FinishSteps, EventSteps, ExpiredStep, FailStep
<1>5. CASE JobStart \/ JobRefund \/ JobSessions \/ JobEnd
  BY <1>5, JobPhases, JobRefundStep
<1>6. CASE \E c \in Checkouts : \/ JobRetrieve(c) \/ GuestPays(c) \/ SessionExpires(c)
                                \/ RefundSucceeds(c) \/ BecomesDue(c)
  BY <1>6, JobRetrieveStep, OutsideGateway, DueStep
<1>7. CASE \E v \in Reservations : DeskStep(v)
  BY <1>7, DeskSteps
<1> QED
  BY <1>2, <1>3, <1>4, <1>5, <1>6, <1>7 DEF Next

(* Whatever is lost, repeated or reordered, each request in progress knows *)
(* the truth about the rows it is about to write.                          *)
THEOREM Invariant == Spec => []IInv
<1>1. Init => IInv
  BY InitIInv
<1>2. IInv /\ [Next]_vars => IInv'
  BY StepIInv
<1> QED
  BY <1>1, <1>2, PTL DEF Spec

(* The hotel's tables and the gateway agree on where the money is.         *)
THEOREM Accounted == Spec => []MoneyAccounted
<1>1. IInv => MoneyAccounted
  BY DEF IInv
<1> QED
  BY <1>1, Invariant, PTL

(* No reservation ever has two checkouts to pay.                           *)
THEOREM OnePending == Spec => []OnePendingCheckout
<1>1. IInv => OnePendingCheckout
  BY DEF IInv
<1> QED
  BY <1>1, Invariant, PTL

(* A payment whose event is recorded has been settled.                     *)
THEOREM Recorded == Spec => []RecordedMeansSettled
<1>1. IInv => RecordedMeansSettled
  BY DEF IInv
<1> QED
  BY <1>1, Invariant, PTL

-----------------------------------------------------------------------------
(* What a step does to the rows of one checkout.                           *)

(* One checkout at most, at the hotel or at the gateway and not at both.   *)
OneRow ==
  /\ UNCHANGED online \/ UNCHANGED gateway
  /\ \E c : \A d \in Checkouts : d # c => online'[d] = online[d] /\ gateway'[d] = gateway[d]

SamePayments == \A c \in Checkouts : online'[c].payment = online[c].payment

(* Steps that leave the payment of the checkout alone.                     *)
LEMMA StatusSteps ==
  ASSUME IInv, NEW c, UNCHANGED gateway, NEW w \in Actors,
         \/ RequestRefund(w, c) \/ Expire(c) \/ BecomesDue(c)
         \/ (SaveRefund(w) /\ c = tx[w].checkout)
         \/ (SettleLate(w) /\ c = tx[w].checkout)
  PROVE  OneRow /\ SamePayments
<1>1. online \in [Checkouts -> CheckoutRows]
  BY DEF IInv, TypeOK
<1>2. \A d \in Checkouts : online'[d].payment = online[d].payment /\ (d # c => online'[d] = online[d])
  <2>1. CASE RequestRefund(w, c)
    BY <1>1, <2>1 DEF RequestRefund, CheckoutRows
  <2>2. CASE Expire(c)
    BY <1>1, <2>2 DEF Expire, CheckoutRows
  <2>3. CASE BecomesDue(c)
    BY <1>1, <2>3 DEF BecomesDue, CheckoutRows
  <2>4. CASE SaveRefund(w) /\ c = tx[w].checkout
    BY <1>1, <2>4 DEF SaveRefund, CheckoutRows
  <2>5. CASE SettleLate(w) /\ c = tx[w].checkout
    BY <1>1, <2>5 DEF SettleLate, CheckoutRows
  <2> QED
    BY <2>1, <2>2, <2>3, <2>4, <2>5
<1> QED
  BY <1>2 DEF OneRow, SamePayments

(* A booking is the first, of a reservation that is not cancelled.         *)
LEMMA SettleBooks ==
  ASSUME IInv, NEW w \in Actors, SettleBook(w)
  PROVE  OneRow /\ BooksLiveStay
<1>0. PICK c : c = tx[w].checkout
  OBVIOUS
<1>1. /\ c \in Checkouts /\ online[c] \in CheckoutRows /\ online \in [Checkouts -> CheckoutRows]
      /\ online[c].payment = "none" /\ stay[online[c].stay].status # "cancelled"
  <2>1. /\ RequestOK(tx[w]) /\ tx[w].op = "settle" /\ tx[w].step = "stay"
        /\ Unsettled(c) /\ BalanceAllows(tx[w])
    BY <1>0, OwnRequest DEF SettleBook, Settles
  <2>2. c \in Checkouts /\ online[c].stay = tx[w].stay /\ tx[w].row = stay[tx[w].stay]
    BY <1>0, <2>1 DEF RequestOK, HoldsStay
  <2> QED
    BY <2>1, <2>2 DEF IInv, TypeOK, CheckoutOK, Settled, Unsettled, BalanceAllows
<1>2. /\ UNCHANGED gateway /\ online'[c].payment = "completed"
      /\ \A d \in Checkouts : d # c => online'[d] = online[d]
  BY <1>0, <1>1 DEF SettleBook, CheckoutRows
<1> QED
  BY <1>1, <1>2 DEF OneRow, BooksLiveStay

(* A finished refund refunds a completed payment.                          *)
LEMMA FinishRefunds ==
  ASSUME IInv, NEW w \in Actors, FinishRefund(w)
  PROVE  OneRow /\ BooksLiveStay
<1>0. PICK c : c = tx[w].checkout
  OBVIOUS
<1>1. c \in Checkouts /\ online \in [Checkouts -> CheckoutRows]
  BY <1>0, OwnRequest DEF IInv, TypeOK, FinishRefund, Finishes, RequestOK
<1>2. /\ UNCHANGED gateway
      /\ online[c].payment = "completed" => online'[c].payment = "refunded"
      /\ online[c].payment # "completed" => online'[c].payment = online[c].payment
      /\ \A d \in Checkouts : d # c => online'[d] = online[d]
  BY <1>0, <1>1 DEF FinishRefund, CheckoutRows
<1> QED
  BY <1>1, <1>2 DEF OneRow, BooksLiveStay

(* A new checkout has no payment.                                          *)
LEMMA SaveCheckoutRow ==
  ASSUME IInv, NEW w \in Actors, SaveCheckout(w)
  PROVE  OneRow /\ SamePayments
<1>0. PICK c : c = tx[w].checkout
  OBVIOUS
<1>1. c \in Checkouts /\ online \in [Checkouts -> CheckoutRows] /\ online[c] = NoCheckout
  BY <1>0, OwnRequest DEF IInv, TypeOK, SaveCheckout, RequestOK
<1>2. /\ UNCHANGED gateway /\ online'[c].payment = online[c].payment
      /\ \A d \in Checkouts : d # c => online'[d] = online[d]
  BY <1>0, <1>1 DEF SaveCheckout, NoCheckout
<1> QED
  BY <1>1, <1>2 DEF OneRow, SamePayments

(* A step at the gateway changes nothing at the hotel.                     *)
LEMMA GatewayRow ==
  ASSUME IInv, NEW w \in Actors, NEW c,
         \/ OpenSession(w) \/ CallRefund(w)
         \/ GuestPays(c) \/ SessionExpires(c) \/ RefundSucceeds(c)
  PROVE  OneRow /\ SamePayments
<1>1. UNCHANGED online /\ gateway \in [Checkouts -> GatewayRows]
  BY DEF IInv, TypeOK, OpenSession, CallRefund, GuestPays, SessionExpires, RefundSucceeds
<1>2. \E b : \A d \in Checkouts : d # b => gateway'[d] = gateway[d]
  <2>1. CASE OpenSession(w)
    BY <1>1, <2>1 DEF OpenSession
  <2>2. CASE CallRefund(w)
    BY <1>1, <2>2 DEF CallRefund
  <2>3. CASE GuestPays(c) \/ SessionExpires(c) \/ RefundSucceeds(c)
    BY <1>1, <2>3 DEF GuestPays, SessionExpires, RefundSucceeds
  <2> QED
    BY <2>1, <2>2, <2>3
<1> QED
  BY <1>1, <1>2 DEF OneRow, SamePayments

(* Every step changes one checkout on one side, and books as it should.    *)
LEMMA StepOneRow ==
  ASSUME IInv, [Next]_vars
  PROVE  OneRow /\ BooksLiveStay
<1>1. Workers \subseteq Actors /\ Job \in Actors
  BY DEF Actors
<1>2. SamePayments => BooksLiveStay
  BY DEF SamePayments, BooksLiveStay
<1>3. UNCHANGED <<online, gateway>> => OneRow /\ SamePayments
  BY DEF OneRow, SamePayments
<1>4. CASE UNCHANGED vars
  BY <1>2, <1>3, <1>4 DEF vars
<1>5. CASE \E w \in Workers : BeginCreate(w) \/ BeginRefund(w) \/ ReceiveEvent(w)
  <2>1. PICK w \in Workers : BeginCreate(w) \/ BeginRefund(w) \/ ReceiveEvent(w)
    BY <1>5
  <2>2. CASE BeginRefund(w)
    <3>1. UNCHANGED gateway /\ \E c : RequestRefund(w, c)
      BY <2>2 DEF BeginRefund
    <3> QED
      BY <1>1, <1>2, <3>1, StatusSteps
  <2> QED
    BY <1>2, <1>3, <2>1, <2>2 DEF BeginCreate, ReceiveEvent
<1>6. CASE \E w \in Actors : Goes(w) \/ Fail(w)
  <2>1. PICK w \in Actors : Goes(w) \/ Fail(w)
    BY <1>6
  <2>2. CASE LockStay(w) \/ SettleAgain(w) \/ FinishAgain(w) \/ HandlePaid(w)
             \/ HandleRefunded(w) \/ RecordEvent(w) \/ Fail(w)
    BY <1>2, <1>3, <2>2 DEF LockStay, SettleAgain, FinishAgain, HandlePaid, HandleRefunded,
       RecordEvent, Fail
  <2>3. CASE OpenSession(w) \/ CallRefund(w)
    BY <1>2, <2>3, GatewayRow
  <2>4. CASE SaveCheckout(w)
    BY <1>2, <2>4, SaveCheckoutRow
  <2>5. CASE SettleLate(w) \/ SaveRefund(w)
    <3>1. UNCHANGED gateway
      BY <2>5 DEF SettleLate, SaveRefund
    <3> QED
      BY <1>2, <2>5, <3>1, StatusSteps
  <2>6. CASE HandleExpired(w)
    <3>1. UNCHANGED gateway /\ \E c : Expire(c)
      BY <2>6 DEF HandleExpired
    <3> QED
      BY <1>2, <3>1, StatusSteps, <2>1
  <2> QED
    BY <2>1, <2>2, <2>3, <2>4, <2>5, <2>6, SettleBooks, FinishRefunds
    DEF Goes, Handle, Settle, Finish
<1>7. CASE JobStart \/ JobRefund \/ JobSessions \/ JobEnd
  <2>1. CASE JobStart \/ JobSessions \/ JobEnd
    BY <1>2, <1>3, <2>1 DEF JobStart, JobSessions, JobEnd
  <2>2. CASE JobRefund
    <3>1. UNCHANGED gateway /\ (UNCHANGED online \/ \E c : RequestRefund(Job, c))
      BY <2>2 DEF JobRefund
    <3> QED
      BY <1>1, <1>2, <1>3, <3>1, StatusSteps
  <2> QED
    BY <1>7, <2>1, <2>2
<1>8. CASE \E c \in Checkouts : JobRetrieve(c) \/ BecomesDue(c)
  <2>1. UNCHANGED gateway /\ (UNCHANGED online \/ \E c : Expire(c) \/ BecomesDue(c))
    BY <1>8 DEF JobRetrieve, BecomesDue
  <2> QED
    BY <1>1, <1>2, <1>3, <2>1, StatusSteps
<1>9. CASE \E c \in Checkouts : GuestPays(c) \/ SessionExpires(c) \/ RefundSucceeds(c)
  BY <1>1, <1>2, <1>9, GatewayRow
<1>10. CASE \E v \in Reservations : DeskStep(v)
  BY <1>2, <1>3, <1>10 DEF DeskStep
<1> QED
  BY <1>4, <1>5, <1>6, <1>7, <1>8, <1>9, <1>10 DEF Next

(* However often a payment is notified, it is booked once, never on a      *)
(* cancelled reservation, and refunded once.                               *)
THEOREM Booked == Spec => BookedOnce
<1>1. IInv /\ [Next]_vars => [BooksLiveStay]_vars
  BY StepOneRow
<1> QED
  BY <1>1, Invariant, PTL DEF Spec, BookedOnce

(* Where the money is, when the hotel and the gateway agree.               *)
Place(c, p) ==
  /\ gateway[c].refund = "succeeded" => p = "returned"
  /\ gateway[c].refund # "succeeded" =>
       /\ online[c].status = "refund_pending" => p = "owed"
       /\ online[c].status = "paid" => p = "booked"
       /\ online[c].status = "pending" /\ gateway[c].session = "paid" => p = "held"
       /\ online[c].status = "pending" /\ gateway[c].session # "paid" => p = "unpaid"
       /\ online[c].status \in {"none", "expired"} => p = "unpaid"

(* Where the money is, before and after a step.                            *)
LEMMA PlaceNow ==
  /\ \A c \in Checkouts : Place(c, money[c])
  /\ \A c \in Checkouts : Place(c, money[c])'
<1>1. \A c \in Checkouts : Place(c, money[c])
  BY DEF Place, money
<1>2. \A c \in Checkouts : Place(c, money[c])'
  BY DEF Place, money
<1> QED
  BY <1>1, <1>2

(* A step of one checkout moves its money as CardLedger allows.            *)
LEMMA MoneyMoves ==
  ASSUME IInv, IInv', Grows, OneRow, NEW c \in Checkouts,
         NEW p, NEW q, Place(c, p), Place(c, q)'
  PROVE  \/ q = p
         \/ p = "unpaid" /\ q = "held"
         \/ p = "held" /\ q = "booked"
         \/ p \in {"held", "booked"} /\ q = "owed"
         \/ p = "owed" /\ q = "returned"
<1>1. /\ online[c] \in CheckoutRows /\ online'[c] \in CheckoutRows
      /\ MoneyAccounted /\ MoneyAccounted'
      /\ CheckoutOK(c) /\ CheckoutOK(c)'
  BY DEF IInv, TypeOK
<1>2. CASE UNCHANGED gateway
  BY <1>1, <1>2 DEF Place, MoneyAccounted, Grows, CheckoutOK, Settled, Owed, CheckoutRows, CheckoutStatus
<1>3. CASE UNCHANGED online
  BY <1>1, <1>3 DEF Place, MoneyAccounted, Grows, CheckoutOK, Settled, Owed, CheckoutRows, CheckoutStatus
<1> QED
  BY <1>2, <1>3 DEF OneRow

(* OnlinePayments implements the safety part of CardLedger.                *)
THEOREM Refinement == Spec => Card!Ledger
<1>1. Init => Card!Init
  <2>1. SUFFICES ASSUME Init PROVE Card!Init
    OBVIOUS
  <2>2. \A c \in Checkouts : online[c].status = "none" /\ gateway[c].refund = "none"
    BY <2>1 DEF Init, NoCheckout
  <2> QED
    BY <2>2 DEF Card!Init, money
<1>2. ASSUME IInv, [Next]_vars
      PROVE  [Card!Next]_money
  <2>1. IInv' /\ Grows /\ OneRow
    BY <1>2, StepIInv, StepOneRow
  <2>2. PICK c : \A d \in Checkouts : d # c => online'[d] = online[d] /\ gateway'[d] = gateway[d]
    BY <2>1 DEF OneRow
  <2>3. money = [d \in Checkouts |-> money[d]] /\ money' = [d \in Checkouts |-> money'[d]]
    BY DEF money
  <2>4. \A d \in Checkouts : d # c => money'[d] = money[d]
    BY <2>2 DEF money
  <2>5. CASE c \notin Checkouts
    <3>1. money' = money
      BY <2>3, <2>4, <2>5
    <3> QED
      BY <3>1
  <2>6. CASE c \in Checkouts
    <3>1. PICK p, q : p = money[c] /\ q = money'[c]
      OBVIOUS
    <3>2. money' = [money EXCEPT ![c] = q]
      BY <2>3, <2>4, <3>1
    <3>3. Place(c, p) /\ Place(c, q)'
      BY <2>6, <3>1, PlaceNow DEF Place
    <3>4. \/ q = p
          \/ p = "unpaid" /\ q = "held"
          \/ p = "held" /\ q = "booked"
          \/ p \in {"held", "booked"} /\ q = "owed"
          \/ p = "owed" /\ q = "returned"
      BY <1>2, <2>1, <2>6, <3>3, MoneyMoves
    <3>5. CASE q = p
      <4>1. money' = money
        BY <2>3, <3>1, <3>2, <3>5
      <4> QED
        BY <4>1
    <3>6. CASE q # p
      <4>1. Card!Capture(c) \/ Card!Book(c) \/ Card!Owe(c) \/ Card!Return(c)
        BY <3>1, <3>2, <3>4, <3>6 DEF Card!Capture, Card!Book, Card!Owe, Card!Return, Card!Move
      <4> QED
        BY <2>6, <4>1 DEF Card!Next
    <3> QED
      BY <3>5, <3>6
  <2> QED
    BY <2>5, <2>6
<1> QED
  BY <1>1, <1>2, Invariant, PTL DEF Spec, Card!Ledger

-----------------------------------------------------------------------------
(* What has been collected, counted by the cent.                           *)

(* Finitely many checkouts have finitely many cents, whatever the amounts. *)
LEMMA FiniteCents ==
  ASSUME NEW f \in [Checkouts -> Nat], NEW S \in SUBSET Checkouts
  PROVE  IsFiniteSet(UNION {{c} \X (1 .. f[c]) : c \in S})
<1> DEFINE T == {{c} \X (1 .. f[c]) : c \in S}
<1> DEFINE g == [c \in S |-> {c} \X (1 .. f[c])]
<1>1. IsFiniteSet(S)
  BY CheckoutsAssumption, FS_Subset
<1>2. g \in Surjection(S, T)
  BY DEF Surjection
<1>3. IsFiniteSet(T)
  <2> HIDE DEF T, g
  <2> QED
    BY <1>1, <1>2, FS_Surjection
<1>4. ASSUME NEW t \in T PROVE IsFiniteSet(t)
  <2>1. PICK c \in S : t = {c} \X (1 .. f[c])
    OBVIOUS
  <2>2. f[c] \in Int /\ 1 \in Int
    OBVIOUS
  <2>3. IsFiniteSet(1 .. f[c]) /\ IsFiniteSet({c})
    BY <2>2, FS_Interval, FS_Singleton
  <2>4. IsFiniteSet({c} \X (1 .. f[c]))
    BY <2>3, FS_Product
  <2> QED
    BY <2>1, <2>4
<1> HIDE DEF T, g
<1>5. IsFiniteSet(UNION T)
  BY <1>3, <1>4, FS_UNION
<1> QED
  BY <1>5 DEF T

LEMMA CentsAre ==
  ASSUME NEW v, NEW z
  PROVE  /\ (z \in Cents(v)) <=>
              (\E c \in PaidOnline(v) : \E n \in 1 .. online[c].amount : z = <<c, n>>)
         /\ (z \in Cents(v)') <=>
              (\E c \in PaidOnline(v)' : \E n \in 1 .. online'[c].amount : z = <<c, n>>)
BY DEF Cents

LEMMA CentsFinite ==
  ASSUME TypeOK, TypeOK', NEW v
  PROVE  /\ IsFiniteSet(Cents(v)) /\ Cardinality(Cents(v)) \in Nat
         /\ IsFiniteSet(Cents(v)') /\ Cardinality(Cents(v)') \in Nat
<1>1. IsFiniteSet(Cents(v))
  <2> DEFINE f == [c \in Checkouts |-> online[c].amount]
  <2>1. f \in [Checkouts -> Nat] /\ PaidOnline(v) \subseteq Checkouts
    BY DEF TypeOK, CheckoutRows, PaidOnline
  <2>2. IsFiniteSet(UNION {{c} \X (1 .. f[c]) : c \in PaidOnline(v)})
    <3> HIDE DEF f
    <3> QED
      BY <2>1, FiniteCents
  <2>3. UNION {{c} \X (1 .. f[c]) : c \in PaidOnline(v)} = Cents(v)
    BY <2>1 DEF Cents
  <2> QED
    BY <2>2, <2>3
<1>2. IsFiniteSet(Cents(v)')
  <2> DEFINE f == [c \in Checkouts |-> online'[c].amount]
  <2>1. f \in [Checkouts -> Nat] /\ PaidOnline(v)' \subseteq Checkouts
    BY DEF TypeOK, CheckoutRows, PaidOnline
  <2>2. IsFiniteSet(UNION {{c} \X (1 .. f[c]) : c \in PaidOnline(v)'})
    <3> HIDE DEF f
    <3> QED
      BY <2>1, FiniteCents
  <2>3. UNION {{c} \X (1 .. f[c]) : c \in PaidOnline(v)'} = Cents(v)'
    BY <2>1 DEF Cents
  <2> QED
    BY <2>2, <2>3
<1> QED
  BY <1>1, <1>2, FS_CardinalityType

(* Nothing is paid online that was not paid before.                        *)
NothingMore == \A c \in Checkouts : online'[c].payment = "completed" =>
  /\ online[c].payment = "completed"
  /\ online'[c].stay = online[c].stay /\ online'[c].amount = online[c].amount

LEMMA NotMore ==
  ASSUME TypeOK, TypeOK', NothingMore, NEW v
  PROVE  Cardinality(Cents(v)') <= Cardinality(Cents(v))
<1>1. Cents(v)' \subseteq Cents(v)
  <2> SUFFICES ASSUME NEW c \in PaidOnline(v)', NEW n \in 1 .. online'[c].amount
               PROVE  <<c, n>> \in Cents(v)
    BY CentsAre
  <2>1. c \in PaidOnline(v) /\ online'[c].amount = online[c].amount
    BY DEF PaidOnline, NothingMore
  <2> QED
    BY <2>1, CentsAre
<1> QED
  BY <1>1, CentsFinite, FS_Subset

LEMMA NeverMore ==
  ASSUME NeverOvercharged, TypeOK, TypeOK', NothingMore, UNCHANGED stay
  PROVE  NeverOvercharged'
<1> SUFFICES ASSUME NEW v \in Reservations PROVE Collected(v)' <= stay'[v].total
  BY DEF NeverOvercharged
<1>1. stay[v].desk \in Nat /\ stay[v].total \in Nat
  BY PricesAssumption DEF TypeOK, StayRows
<1>2. PICK m, n : m = Cardinality(Cents(v)) /\ n = Cardinality(Cents(v)')
  OBVIOUS
<1>3. m \in Nat /\ n \in Nat /\ n <= m
  BY <1>2, CentsFinite, NotMore
<1>4. stay[v].desk + m <= stay[v].total
  BY <1>2 DEF NeverOvercharged, Collected
<1> QED
  BY <1>1, <1>2, <1>3, <1>4 DEF Collected

-----------------------------------------------------------------------------
(* The two steps that take money: a settlement and the desk.               *)

LEMMA SettleCollects ==
  ASSUME IInv, TypeOK', NeverOvercharged, NEW w \in Actors, SettleBook(w)
  PROVE  NeverOvercharged'
<1>0. PICK c : c = tx[w].checkout
  OBVIOUS
<1>1. PICK v0 : v0 = tx[w].stay
  OBVIOUS
<1>2. /\ TypeOK /\ c \in Checkouts /\ online[c] \in CheckoutRows
      /\ online \in [Checkouts -> CheckoutRows]
      /\ online[c].stay = v0 /\ v0 \in Reservations
      /\ Collected(v0) + online[c].amount <= stay[v0].total
  <2>1. /\ RequestOK(tx[w]) /\ tx[w].op = "settle" /\ tx[w].step = "stay"
        /\ BalanceAllows(tx[w])
    BY OwnRequest DEF SettleBook, Settles
  <2>2. c \in Checkouts /\ online[c].stay = v0 /\ v0 \in Reservations /\ tx[w].row = stay[v0]
    BY <1>0, <1>1, <2>1 DEF RequestOK, HoldsStay
  <2> QED
    BY <1>0, <1>1, <2>1, <2>2 DEF IInv, TypeOK, BalanceAllows
<1>3. /\ UNCHANGED stay
      /\ online'[c].stay = v0 /\ online'[c].amount = online[c].amount
      /\ \A d \in Checkouts : d # c => online'[d] = online[d]
  BY <1>0, <1>2 DEF SettleBook, CheckoutRows
<1> SUFFICES ASSUME NEW v \in Reservations PROVE Collected(v)' <= stay'[v].total
  BY DEF NeverOvercharged
<1>4. stay[v].desk \in Nat /\ stay[v].total \in Nat /\ online[c].amount \in Nat
  BY <1>2, PricesAssumption DEF TypeOK, StayRows, CheckoutRows
<1>5. PICK m, n : m = Cardinality(Cents(v)) /\ n = Cardinality(Cents(v)')
  OBVIOUS
<1>6. m \in Nat /\ n \in Nat
  BY <1>2, <1>5, CentsFinite
<1>7. CASE v # v0
  <2>1. Cents(v)' \subseteq Cents(v)
    <3> SUFFICES ASSUME NEW d \in PaidOnline(v)', NEW k \in 1 .. online'[d].amount
                 PROVE  <<d, k>> \in Cents(v)
      BY CentsAre
    <3>1. d # c /\ d \in Checkouts
      BY <1>3, <1>7 DEF PaidOnline
    <3>2. d \in PaidOnline(v) /\ online'[d] = online[d]
      BY <1>3, <3>1 DEF PaidOnline
    <3> QED
      BY <3>2, CentsAre
  <2>2. n <= m
    BY <1>2, <1>5, <2>1, CentsFinite, FS_Subset
  <2>3. stay[v].desk + m <= stay[v].total
    BY <1>5 DEF NeverOvercharged, Collected
  <2> QED
    BY <1>3, <1>4, <1>5, <1>6, <2>2, <2>3 DEF Collected
<1>8. CASE v = v0
  <2>1. PICK a \in Nat : a = online[c].amount
    BY <1>4
  <2>2. PICK cents : cents = {c} \X (1 .. a)
    OBVIOUS
  <2>3. IsFiniteSet(cents) /\ Cardinality(cents) = a
    <3>1. IsFiniteSet({c}) /\ Cardinality({c}) = 1
      BY FS_Singleton
    <3>2. IsFiniteSet(1 .. a) /\ Cardinality(1 .. a) = a
      BY FS_Interval
    <3>3. IsFiniteSet({c} \X (1 .. a))
      BY <3>1, <3>2, FS_Product
    <3>4. Cardinality({c} \X (1 .. a)) = Cardinality({c}) * Cardinality(1 .. a)
      BY <3>1, <3>2, FS_Product
    <3>5. Cardinality({c} \X (1 .. a)) = 1 * a
      BY <3>1, <3>2, <3>4
    <3> QED
      BY <2>2, <3>3, <3>5
  <2>4. Cents(v)' \subseteq Cents(v) \union cents
    <3> SUFFICES ASSUME NEW d \in PaidOnline(v)', NEW k \in 1 .. online'[d].amount
                 PROVE  <<d, k>> \in Cents(v) \union cents
      BY CentsAre
    <3>1. CASE d = c
      BY <1>3, <2>1, <2>2, <3>1
    <3>2. CASE d # c
      <4>1. d \in PaidOnline(v) /\ online'[d] = online[d]
        BY <1>3, <3>2 DEF PaidOnline
      <4> QED
        BY <4>1, CentsAre
    <3> QED
      BY <3>1, <3>2
  <2>5. /\ IsFiniteSet(Cents(v)) /\ IsFiniteSet(Cents(v)')
    BY <1>2, CentsFinite
  <2>6. /\ IsFiniteSet(Cents(v) \union cents)
        /\ Cardinality(Cents(v) \union cents) = m + a - Cardinality(Cents(v) \cap cents)
    BY <1>5, <2>3, <2>5, FS_Union
  <2>7. Cardinality(Cents(v) \cap cents) \in Nat
    BY <2>5, FS_Intersection, FS_CardinalityType
  <2>8. n <= Cardinality(Cents(v) \union cents)
    BY <1>5, <2>4, <2>6, FS_Subset
  <2>9. n <= m + a
    BY <1>6, <2>6, <2>7, <2>8
  <2>10. stay[v].desk + m + a <= stay[v].total
    BY <1>2, <1>5, <1>8, <2>1 DEF Collected
  <2> QED
    BY <1>3, <1>4, <1>5, <1>6, <2>9, <2>10 DEF Collected
<1> QED
  BY <1>7, <1>8

LEMMA DeskCollectsNoMore ==
  ASSUME TypeOK, TypeOK', NeverOvercharged, NEW v \in Reservations, DeskStep(v)
  PROVE  NeverOvercharged'
<1>1. /\ UNCHANGED online /\ stay \in [Reservations -> StayRows] /\ stay[v] \in StayRows
  BY DEF DeskStep, TypeOK
<1> SUFFICES ASSUME NEW x \in Reservations PROVE Collected(x)' <= stay'[x].total
  BY DEF NeverOvercharged
<1>2. PICK m : m = Cardinality(Cents(x)) /\ m = Cardinality(Cents(x)')
  BY <1>1 DEF Cents, PaidOnline
<1>3. /\ m \in Nat /\ stay[x].desk \in Nat /\ stay[x].total \in Nat
      /\ stay[x].desk + m <= stay[x].total
  BY <1>2, CentsFinite, PricesAssumption DEF TypeOK, StayRows, NeverOvercharged, Collected
<1>4. x # v => stay'[x] = stay[x]
  BY <1>1 DEF DeskStep, DeskCollects, DeskRefunds, SetPrice, CancelStay
<1>5. CASE x # v
  BY <1>2, <1>3, <1>4, <1>5 DEF Collected
<1>6. CASE x = v /\ DeskCollects(v)
  <2>1. PICK n \in 1 .. stay[v].total :
          /\ Collected(v) + n <= stay[v].total
          /\ stay' = [stay EXCEPT ![v].desk = stay[v].desk + n]
    BY <1>6 DEF DeskCollects
  <2>2. stay'[v].desk = stay[v].desk + n /\ stay'[v].total = stay[v].total /\ n \in Nat
    BY <1>1, <1>3, <1>6, <2>1 DEF StayRows
  <2>3. stay[v].desk + m + n <= stay[v].total
    BY <1>2, <1>6, <2>1 DEF Collected
  <2> QED
    BY <1>2, <1>3, <1>6, <2>2, <2>3 DEF Collected
<1>7. CASE x = v /\ DeskRefunds(v)
  <2>1. PICK n \in 1 .. stay[v].desk : stay' = [stay EXCEPT ![v].desk = stay[v].desk - n]
    BY <1>7 DEF DeskRefunds
  <2>2. stay'[v].desk = stay[v].desk - n /\ stay'[v].total = stay[v].total /\ n \in Nat
    BY <1>1, <1>3, <1>7, <2>1 DEF StayRows
  <2> QED
    BY <1>2, <1>3, <1>7, <2>2 DEF Collected
<1>8. CASE x = v /\ SetPrice(v)
  <2>1. PICK n \in Prices : n >= Collected(v) /\ stay' = [stay EXCEPT ![v].total = n]
    BY <1>8 DEF SetPrice
  <2>2. stay'[v].desk = stay[v].desk /\ stay'[v].total = n /\ n \in Nat
    BY <1>1, <2>1, PricesAssumption DEF StayRows
  <2>3. n >= stay[v].desk + m
    BY <1>2, <1>8, <2>1 DEF Collected
  <2> QED
    BY <1>2, <1>3, <1>8, <2>2, <2>3 DEF Collected
<1>9. CASE x = v /\ CancelStay(v)
  <2>1. stay'[v].desk = stay[v].desk /\ stay'[v].total = stay[v].total
    BY <1>1, <1>9 DEF CancelStay, StayRows
  <2> QED
    BY <1>2, <1>3, <1>9, <2>1 DEF Collected
<1> QED
  BY <1>5, <1>6, <1>7, <1>8, <1>9 DEF DeskStep

-----------------------------------------------------------------------------
(* Every other step.                                                       *)

LEMMA StatusesCollectNothing ==
  ASSUME IInv, NEW c, NEW w \in Actors,
         \/ RequestRefund(w, c) \/ Expire(c) \/ BecomesDue(c)
         \/ (SaveRefund(w) /\ c = tx[w].checkout)
         \/ (SettleLate(w) /\ c = tx[w].checkout)
         \/ (FinishRefund(w) /\ c = tx[w].checkout)
  PROVE  NothingMore
<1>1. online \in [Checkouts -> CheckoutRows]
  BY DEF IInv, TypeOK
<1>2. CASE RequestRefund(w, c)
  BY <1>1, <1>2 DEF RequestRefund, CheckoutRows, NothingMore
<1>3. CASE Expire(c)
  BY <1>1, <1>3 DEF Expire, CheckoutRows, NothingMore
<1>4. CASE BecomesDue(c)
  BY <1>1, <1>4 DEF BecomesDue, CheckoutRows, NothingMore
<1>5. CASE SaveRefund(w) /\ c = tx[w].checkout
  BY <1>1, <1>5 DEF SaveRefund, CheckoutRows, NothingMore
<1>6. CASE SettleLate(w) /\ c = tx[w].checkout
  BY <1>1, <1>6 DEF SettleLate, CheckoutRows, NothingMore
<1>7. CASE FinishRefund(w) /\ c = tx[w].checkout
  BY <1>1, <1>7 DEF FinishRefund, CheckoutRows, NothingMore
<1> QED
  BY <1>2, <1>3, <1>4, <1>5, <1>6, <1>7

LEMMA NewCollectsNothing ==
  ASSUME IInv, NEW w \in Actors, SaveCheckout(w)
  PROVE  NothingMore
<1>1. PICK c : c = tx[w].checkout
  OBVIOUS
<1>2. PICK row : row = [NoCheckout EXCEPT !.status = "pending", !.stay = tx[w].stay,
                                          !.amount = tx[w].amount]
  OBVIOUS
<1>3. online \in [Checkouts -> CheckoutRows] /\ online' = [online EXCEPT ![c] = row]
  BY <1>1, <1>2 DEF SaveCheckout, IInv, TypeOK
<1>4. row.payment = "none"
  BY <1>2 DEF NoCheckout
<1> QED
  BY <1>3, <1>4 DEF NothingMore

LEMMA StepCollects ==
  ASSUME IInv, [Next]_vars
  PROVE  \/ UNCHANGED stay /\ NothingMore
         \/ \E w \in Actors : SettleBook(w)
         \/ \E v \in Reservations : DeskStep(v)
<1>1. Workers \subseteq Actors /\ Job \in Actors
  BY DEF Actors
<1>2. UNCHANGED online => NothingMore
  BY DEF NothingMore
<1>3. CASE UNCHANGED vars
  BY <1>2, <1>3 DEF vars
<1>4. CASE \E w \in Workers : BeginCreate(w) \/ BeginRefund(w) \/ ReceiveEvent(w)
  <2>1. PICK w \in Workers : BeginCreate(w) \/ BeginRefund(w) \/ ReceiveEvent(w)
    BY <1>4
  <2>2. UNCHANGED stay /\ (UNCHANGED online \/ \E c : RequestRefund(w, c))
    BY <2>1 DEF BeginCreate, BeginRefund, ReceiveEvent
  <2> QED
    BY <1>1, <1>2, <2>2, StatusesCollectNothing
<1>5. CASE \E w \in Actors : Goes(w) \/ Fail(w)
  <2>1. PICK w \in Actors : Goes(w) \/ Fail(w)
    BY <1>5
  <2>2. CASE LockStay(w) \/ OpenSession(w) \/ CallRefund(w) \/ SettleAgain(w) \/ FinishAgain(w)
             \/ HandlePaid(w) \/ HandleRefunded(w) \/ RecordEvent(w) \/ Fail(w)
    BY <1>2, <2>2 DEF LockStay, OpenSession, CallRefund, SettleAgain, FinishAgain, HandlePaid,
       HandleRefunded, RecordEvent, Fail
  <2>3. CASE SaveCheckout(w)
    <3>1. UNCHANGED stay
      BY <2>3 DEF SaveCheckout
    <3> QED
      BY <2>3, <3>1, NewCollectsNothing
  <2>4. CASE SettleLate(w) \/ SaveRefund(w) \/ FinishRefund(w)
    <3>1. UNCHANGED stay
      BY <2>4 DEF SettleLate, SaveRefund, FinishRefund
    <3> QED
      BY <2>4, <3>1, StatusesCollectNothing
  <2>5. CASE HandleExpired(w)
    <3>1. UNCHANGED stay /\ \E c : Expire(c)
      BY <2>5 DEF HandleExpired
    <3> QED
      BY <3>1, StatusesCollectNothing, <2>1
  <2>6. CASE SettleBook(w)
    BY <2>6
  <2> QED
    BY <2>1, <2>2, <2>3, <2>4, <2>5, <2>6 DEF Goes, Handle, Settle, Finish
<1>6. CASE JobStart \/ JobRefund \/ JobSessions \/ JobEnd
  <2>1. UNCHANGED stay /\ (UNCHANGED online \/ \E c : RequestRefund(Job, c))
    BY <1>6 DEF JobStart, JobRefund, JobSessions, JobEnd
  <2> QED
    BY <1>1, <1>2, <2>1, StatusesCollectNothing
<1>7. CASE \E c \in Checkouts : \/ JobRetrieve(c) \/ GuestPays(c) \/ SessionExpires(c)
                                \/ RefundSucceeds(c) \/ BecomesDue(c)
  <2>1. UNCHANGED stay /\ (UNCHANGED online \/ \E c : Expire(c) \/ BecomesDue(c))
    BY <1>7 DEF JobRetrieve, GuestPays, SessionExpires, RefundSucceeds, BecomesDue
  <2> QED
    BY <1>1, <1>2, <2>1, StatusesCollectNothing
<1>8. CASE \E v \in Reservations : DeskStep(v)
  BY <1>8
<1> QED
  BY <1>3, <1>4, <1>5, <1>6, <1>7, <1>8 DEF Next

LEMMA NextOvercharge ==
  ASSUME IInv, NeverOvercharged, [Next]_vars
  PROVE  NeverOvercharged'
<1>1. TypeOK /\ TypeOK'
  BY StepIInv DEF IInv
<1> QED
  BY <1>1, StepCollects, NeverMore, SettleCollects, DeskCollectsNoMore

LEMMA InitOvercharge == Init => NeverOvercharged
<1> SUFFICES ASSUME Init, NEW v \in Reservations PROVE Collected(v) <= stay[v].total
  BY DEF NeverOvercharged
<1>1. Cents(v) = {}
  BY CentsAre DEF PaidOnline, Init, NoCheckout
<1>2. Cardinality(Cents(v)) = 0
  BY <1>1, FS_EmptySet
<1>3. stay[v].desk = 0 /\ stay[v].total = FirstPrice /\ FirstPrice \in Nat
  BY PricesAssumption DEF Init
<1> QED
  BY <1>2, <1>3 DEF Collected

(* However settlements, refunds, the desk, price changes and cancellations *)
(* interleave, and whatever is lost or repeated, what is collected for a   *)
(* reservation never exceeds its price (settle, under the row lock of the  *)
(* reservation).                                                           *)
THEOREM Overcharge == Spec => []NeverOvercharged
<1>1. IInv /\ NeverOvercharged /\ [Next]_vars => NeverOvercharged'
  BY NextOvercharge
<1> QED
  BY <1>1, InitOvercharge, Invariant, PTL DEF Spec
=============================================================================
