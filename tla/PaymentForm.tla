----------------------------- MODULE PaymentForm -----------------------------
(* The form that records a payment at the desk (FPaymentForm inside the page *)
(* /payments).  Choosing a reservation, and the button that refreshes, read  *)
(* its balance; answers come in any order.  The amount may be typed before   *)
(* or after the balance is known, and an empty one is filled with it.  The   *)
(* payment is posted as pending and does not change the balance yet; the API *)
(* client sends the request once more when its answer is lost.               *)
EXTENDS Integers

CONSTANTS
  Reservations,
  Total,       \* price of a reservation
  None,
  MaxChoices,  \* bound on choices, refreshes and typed amounts
  MaxPosts

Posts == [id : Nat, reservation : Reservations, amount : 0 .. Total, retries : {0, 1},
          result : {None, "created", "conflict"}]

NoneAssumption == None \notin Reservations \cup Posts \cup {"created", "conflict"}
BoundAssumption == Total \in Nat /\ MaxPosts \in Nat

VARIABLES
  reservation, \* reservation_id of the form, or None
  amount,      \* amount of the form, 0 while it is empty
  selected,    \* the reservation whose balance was read, or None
  paid,        \* what was paid of it according to that answer
  optionsLoading, optionsError,
  version,     \* balanceVersion
  requests,
  post,        \* the submission in progress, or None
  completed,   \* the server: completed payments of each reservation
  created,     \* the server: rows each submission inserted
  read,        \* history: balances some answer carried
  choices, posts

form == <<reservation, amount, selected, paid, optionsLoading, optionsError, version>>
server == <<completed, created>>
vars == <<form, requests, post, server, read, choices, posts>>

Init ==
  /\ reservation = None /\ amount = 0
  /\ selected = None /\ paid = 0
  /\ optionsLoading = FALSE /\ optionsError = FALSE /\ version = 1
  /\ requests = {} /\ post = None
  /\ completed \in [Reservations -> 0 .. Total]
  /\ created = [i \in 1 .. MaxPosts |-> 0]
  /\ read = {} /\ choices = 0 /\ posts = 0

Choosing == choices < MaxChoices /\ choices' = choices + 1

balance == IF selected = None THEN 0 ELSE Total - paid

-----------------------------------------------------------------------------
(* refreshBalance().                                                       *)

RefreshBalance(r) ==
  /\ version' = version + 1
  /\ selected' = None /\ paid' = 0
  /\ optionsError' = FALSE /\ optionsLoading' = (r # None)
  /\ requests' = IF r = None THEN requests
                 ELSE requests \cup {[version |-> version + 1, reservation |-> r]}

(* The watcher of the reservation.                                         *)
Choose(r) ==
  /\ Choosing
  /\ r # reservation /\ reservation' = r
  /\ amount' = 0
  /\ RefreshBalance(r)
  /\ UNCHANGED <<post, server, read, posts>>

Refresh ==
  /\ Choosing
  /\ RefreshBalance(reservation)
  /\ UNCHANGED <<reservation, amount, post, server, read, posts>>

TypeAmount(a) ==
  /\ Choosing
  /\ a # amount /\ amount' = a
  /\ UNCHANGED <<reservation, selected, paid, optionsLoading, optionsError, version, requests,
                 post, server, read, posts>>

(* if(version!==balanceVersion)return *)
Current(q) == q.version = version

Read(q) ==
  /\ q \in requests /\ requests' = requests \ {q}
  /\ IF Current(q)
     THEN /\ selected' = q.reservation
          /\ paid' = completed[q.reservation]
          /\ amount' = IF amount = 0 THEN Total - completed[q.reservation] ELSE amount
          /\ optionsLoading' = FALSE
     ELSE UNCHANGED <<selected, paid, amount, optionsLoading>>
  /\ read' = read \cup {<<q.reservation, Total - completed[q.reservation]>>}
  /\ UNCHANGED <<reservation, optionsError, version, post, server, choices, posts>>

NotRead(q) ==
  /\ q \in requests /\ requests' = requests \ {q}
  /\ optionsError' = (optionsError \/ Current(q))
  /\ optionsLoading' = (optionsLoading /\ ~Current(q))
  /\ UNCHANGED <<reservation, amount, selected, paid, version, post, server, read, choices,
                 posts>>

-----------------------------------------------------------------------------
(* The submission and its one repetition.                                  *)

Ready == /\ ~optionsLoading /\ ~optionsError /\ selected # None
         /\ amount > 0 /\ amount <= balance

Submit ==
  /\ post = None /\ posts < MaxPosts /\ posts' = posts + 1
  /\ Ready
  /\ post' = [id |-> posts + 1, reservation |-> reservation, amount |-> amount,
              retries |-> 1, result |-> None]
  /\ UNCHANGED <<form, requests, server, read, choices>>

(* POST /payments: assertBalance, then a pending payment.                  *)
Serve ==
  /\ post # None /\ post.result = None
  /\ IF completed[post.reservation] + post.amount <= Total
     THEN /\ created' = [created EXCEPT ![post.id] = @ + 1]
          /\ post' = [post EXCEPT !.result = "created"]
     ELSE post' = [post EXCEPT !.result = "conflict"] /\ UNCHANGED created
  /\ UNCHANGED <<form, requests, completed, read, choices, posts>>

(* 201: the dialog closes; opened again, the form starts empty.            *)
Created ==
  /\ post # None /\ post.result = "created" /\ post' = None
  /\ reservation' = None /\ amount' = 0
  /\ RefreshBalance(None)
  /\ UNCHANGED <<server, read, choices, posts>>

Repeated(p) == IF p.retries > 0
               THEN [p EXCEPT !.result = None, !.retries = @ - 1]
               ELSE None

(* A conflict, a lost request and a lost answer: once more, then told.     *)
Failed ==
  /\ post # None /\ post' = Repeated(post)
  /\ UNCHANGED <<form, requests, server, read, choices, posts>>

(* Somebody else completes a payment of the reservation.                   *)
OthersPay(r) ==
  /\ Choosing
  /\ completed[r] < Total /\ completed' = [completed EXCEPT ![r] = @ + 1]
  /\ UNCHANGED <<form, requests, post, created, read, posts>>

Next ==
  \/ \E r \in Reservations \cup {None} : Choose(r)
  \/ Refresh
  \/ \E a \in 0 .. Total : TypeAmount(a)
  \/ \E q \in requests : Read(q) \/ NotRead(q)
  \/ Submit \/ Serve \/ Created \/ Failed
  \/ \E r \in Reservations : OthersPay(r)

Spec == Init /\ [][Next]_vars

-----------------------------------------------------------------------------
(* The balance shown is of the reservation in the form, and the spinner    *)
(* runs only while its answer is awaited.                                  *)
TypeOK ==
  /\ reservation \in Reservations \cup {None} /\ amount \in 0 .. Total
  /\ selected \in {None, reservation} /\ paid \in 0 .. Total
  /\ optionsLoading => \E q \in requests : Current(q) /\ q.reservation = reservation

(* A payment is only sent with an amount within a balance the server       *)
(* answered for that very reservation.                                     *)
WithinBalanceRead ==
  post # None => \E b \in 0 .. Total : /\ <<post.reservation, b>> \in read
                                       /\ post.amount <= b

(* A submission whose answers are lost is recorded twice at the most: the  *)
(* client repeats it once and the server has no key to tell it by.         *)
RecordedTwiceAtMost == \A i \in 1 .. MaxPosts : created[i] <= 2
=============================================================================
