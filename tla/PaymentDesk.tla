----------------------------- MODULE PaymentDesk -----------------------------
(* The page of one payment (/payments/[id]) with the payments store and the  *)
(* API client, in the tab of a manager.  The page shows the store's          *)
(* currentPayment, which a read begun by an earlier page may still replace,  *)
(* and completes or refunds what it shows.  A PATCH whose answer is lost, or *)
(* is a conflict, is sent once more.                                         *)
EXTENDS Integers

CONSTANTS
  Payments,
  None,
  MaxVisits,  \* bound on pages opened
  MaxClicks,  \* bound on clicks on the two buttons
  MaxOthers   \* bound on changes made by other people

Statuses == {"pending", "completed", "refunded"}
Entries == [id : Payments, status : Statuses]

NoneAssumption == None \notin Payments \cup Statuses \cup Entries \cup {"ok", "conflict"}
BoundAssumption == MaxClicks \in Nat

VARIABLES
  page,       \* the payment in the route, None on any other page
  visit,      \* the number of the page opened last
  current,    \* currentPayment of the store
  updating,   \* isUpdating of the page opened last
  reads,      \* GET requests not handled yet
  clicks,     \* PATCH requests not handled yet
  status,     \* the server
  made,       \* history: how often each click changed a payment
  told,       \* history: the clicks that were told as successes
  last,       \* the number of the last click
  others

tab == <<page, visit, current, updating>>
vars == <<tab, reads, clicks, status, made, told, last, others>>

Click == 1 .. MaxClicks
Rank(s) == CASE s = "pending" -> 1 [] s = "completed" -> 2 [] s = "refunded" -> 3

(* The status a change starts from and the one it leads to: the buttons of *)
(* the page and the endpoints agree on them.                               *)
From == [complete |-> "pending", refund |-> "completed"]
To == [complete |-> "completed", refund |-> "refunded"]

Init ==
  /\ page = None /\ visit = 0 /\ current = None /\ updating = FALSE
  /\ reads = {} /\ clicks = {}
  /\ status \in [Payments -> {"pending", "completed"}]
  /\ made = [n \in Click |-> 0] /\ told = {} /\ last = 0 /\ others = 0

-----------------------------------------------------------------------------
(* The page: entering it asks for its payment, leaving it forgets nothing. *)

Open(p) ==
  /\ visit < MaxVisits /\ p # page
  /\ page' = p /\ visit' = visit + 1 /\ updating' = FALSE
  /\ reads' = reads \cup {[visit |-> visit + 1, id |-> p, answer |-> None]}
  /\ UNCHANGED <<current, clicks, status, made, told, last, others>>

Leave ==
  /\ page # None /\ page' = None
  /\ UNCHANGED <<visit, current, updating, reads, clicks, status, made, told, last, others>>

ServeRead(r) ==
  /\ r \in reads /\ r.answer = None
  /\ reads' = (reads \ {r}) \cup {[r EXCEPT !.answer = status[r.id]]}
  /\ UNCHANGED <<tab, clicks, status, made, told, last, others>>

(* The store takes whatever answer comes, of this page or of another.      *)
Read(r) ==
  /\ r \in reads /\ r.answer # None
  /\ reads' = reads \ {r}
  /\ current' = [id |-> r.id, status |-> r.answer]
  /\ UNCHANGED <<page, visit, updating, clicks, status, made, told, last, others>>

ReadFails(r) ==
  /\ r \in reads /\ reads' = reads \ {r}
  /\ UNCHANGED <<tab, clicks, status, made, told, last, others>>

-----------------------------------------------------------------------------
(* The two buttons.  They are there for the status shown.                  *)

Shown == page # None /\ current # None

Offered(op) == Shown /\ current.status = From[op] /\ ~updating

(* completePayment(payment.value.id)                                       *)
Target == current.id

Press(op) ==
  /\ Offered(op) /\ last < MaxClicks
  /\ last' = last + 1 /\ updating' = TRUE
  /\ clicks' = clicks \cup {[n |-> last + 1, op |-> op, id |-> Target, visit |-> visit,
                             saw |-> current, left |-> 1, answer |-> None]}
  /\ UNCHANGED <<page, visit, current, reads, status, made, told, others>>

(* PATCH /payments/:id/complete and /refund: 409 unless the payment is in  *)
(* the status the change starts from.                                      *)
MayChange(c) == status[c.id] = From[c.op]

Serve(c) ==
  /\ c \in clicks /\ c.answer = None
  /\ IF MayChange(c)
     THEN /\ status' = [status EXCEPT ![c.id] = To[c.op]]
          /\ made' = [made EXCEPT ![c.n] = @ + 1]
          /\ clicks' = (clicks \ {c}) \cup {[c EXCEPT !.answer = "ok"]}
     ELSE /\ clicks' = (clicks \ {c}) \cup {[c EXCEPT !.answer = "conflict"]}
          /\ UNCHANGED <<status, made>>
  /\ UNCHANGED <<tab, reads, told, last, others>>

(* No open shift, a charge above the balance or a checkout in progress:    *)
(* the server refuses for reasons that are no business of this page.       *)
Refuse(c) ==
  /\ c \in clicks /\ c.answer = None
  /\ clicks' = (clicks \ {c}) \cup {[c EXCEPT !.answer = "conflict"]}
  /\ UNCHANGED <<tab, reads, status, made, told, last, others>>

Released(c) == updating /\ c.visit # visit

(* uiStore.success: the user is told that it is done.                       *)
Tell(c) == told' = told \cup {c.n}

(* syncPayment: the answer replaces currentPayment only if it is the same. *)
Succeed(c) ==
  /\ c \in clicks /\ c.answer = "ok"
  /\ clicks' = clicks \ {c}
  /\ current' = IF current # None /\ current.id = c.id
                THEN [id |-> c.id, status |-> To[c.op]] ELSE current
  /\ Tell(c)
  /\ updating' = Released(c)
  /\ UNCHANGED <<page, visit, reads, status, made, last, others>>

(* A lost request, a lost answer or a conflict: once more, then told.      *)
Fail(c) ==
  /\ c \in clicks
  /\ IF c.left > 0
     THEN /\ clicks' = (clicks \ {c}) \cup {[c EXCEPT !.left = @ - 1, !.answer = None]}
          /\ UNCHANGED updating
     ELSE clicks' = clicks \ {c} /\ updating' = Released(c)
  /\ UNCHANGED <<page, visit, current, reads, status, made, told, last, others>>

OthersChange(p, op) ==
  /\ others < MaxOthers /\ others' = others + 1
  /\ status[p] = From[op] /\ status' = [status EXCEPT ![p] = To[op]]
  /\ UNCHANGED <<tab, reads, clicks, made, told, last>>

Next ==
  \/ \E p \in Payments : Open(p)
  \/ Leave
  \/ \E r \in reads : ServeRead(r) \/ Read(r) \/ ReadFails(r)
  \/ \E op \in DOMAIN From : Press(op)
  \/ \E c \in clicks : Serve(c) \/ Refuse(c) \/ Succeed(c) \/ Fail(c)
  \/ \E p \in Payments, op \in DOMAIN From : OthersChange(p, op)

Spec == Init /\ [][Next]_vars

-----------------------------------------------------------------------------
(* The spinner of the buttons runs only while this page's own request is   *)
(* under way, and a page has one at a time.                                *)
TypeOK ==
  /\ page \in Payments \cup {None} /\ status \in [Payments -> Statuses]
  /\ current = None \/ current \in Entries
  /\ updating <=> \E c \in clicks : c.visit = visit
  /\ \A c, d \in clicks : c.visit = d.visit => c = d

(* A success is told only for a click that changed the payment, and a      *)
(* click changes it once although its request may be sent twice.           *)
ToldIsDone ==
  /\ \A n \in told : made[n] = 1
  /\ \A n \in Click : made[n] <= 1

(* Whatever page's answer the store shows, what is completed or refunded   *)
(* is the payment that was on the screen, as it was on the screen.         *)
ActsAsShown == \A c \in clicks : c.id = c.saw.id /\ c.saw.status = From[c.op]

(* Answers out of order may show an old status, never one not reached yet. *)
NeverAhead == current # None => Rank(current.status) <= Rank(status[current.id])

(* The buttons come back.                                                  *)
ButtonsReturn == updating ~> ~updating
=============================================================================
