------------------------------ MODULE StayDesk ------------------------------
(* The pages that register arrivals and departures, with the reservations   *)
(* store and the API client, in the tab of a receptionist: the page of one  *)
(* reservation, today's arrivals and the departures awaited.  A click is a  *)
(* chain of requests (the change, the first reservations, the rooms and the *)
(* page's own data), told as a failure when any of them fails.  Each of     *)
(* them is repeated once: a read repeated is a read answered later.         *)
EXTENDS Integers

CONSTANTS
  Stays,      \* reservations
  First,      \* the ones among the first ten of the list
  None,
  MaxVisits,  \* bound on pages opened
  MaxClicks,  \* bound on clicks that register an arrival or a departure
  MaxOthers   \* bound on changes made by other people

Statuses == {"confirmed", "checked_in", "checked_out"}
Entries == [id : Stays, status : Statuses]

FirstAssumption == First \subseteq Stays
NoneAssumption == None \notin Stays \cup Entries \cup {"ok", "conflict"}
BoundAssumption == MaxClicks \in Nat

VARIABLES
  page,       \* the page shown: which one, and the id of its route
  visit,      \* the number of the page opened last
  rows,       \* reservations of the store, by id
  current,    \* currentReservation of the store
  awaited,    \* pendingCheckOuts of the departures page
  chosen,     \* selectedCheckIn of the arrivals page
  box,        \* isModalOpen
  busy,       \* isSubmitting of the arrivals, processingId of the departures
  requests,   \* requests not answered yet, with what follows each of them
  status,     \* the server
  made,       \* history: how often each click changed a reservation
  told,       \* history: the clicks that were told as successes
  last,       \* the number of the last click
  others

store == <<rows, current>>
local == <<awaited, chosen, box, busy>>
history == <<made, told, last, others>>
vars == <<page, visit, store, local, requests, status, history>>

Rank(s) == CASE s = "confirmed" -> 1 [] s = "checked_in" -> 2 [] s = "checked_out" -> 3
Click == 1 .. MaxClicks
From == [in |-> "confirmed", out |-> "checked_in"]
To == [in |-> "checked_in", out |-> "checked_out"]

Nowhere == [name |-> "other", id |-> None]
Pages == [name : {"arrivals", "departures"}, id : {None}] \cup [name : {"detail"}, id : Stays]

Only(S) == [s \in S |-> status[s]]

(* What each page asks for when it is entered, and after a change.         *)
Own == [detail |-> "one", arrivals |-> "all", departures |-> "awaited"]

(* checkIn and checkOut of useCheckIn: the change, then the first ten      *)
(* reservations, then the rooms, then what the page asks for again.        *)
After(r) == CASE r.step = "post" -> "first" [] r.step = "first" -> "rooms"
              [] r.step = "rooms" -> Own[r.page] [] OTHER -> "end"

Request(n, op, id, step, name, v) ==
  [n |-> n, op |-> op, id |-> id, step |-> step, page |-> name, visit |-> v,
   left |-> IF step = "post" THEN 1 ELSE 0, answer |-> None, data |-> Only({})]

Init ==
  /\ page = Nowhere /\ visit = 0 /\ rows = Only({}) /\ current = None
  /\ awaited = {} /\ chosen = None /\ box = FALSE /\ busy = None /\ requests = {}
  /\ status \in [Stays -> {"confirmed", "checked_in"}]
  /\ made = [n \in Click |-> 0] /\ told = {} /\ last = 0 /\ others = 0

-----------------------------------------------------------------------------
(* Pages are entered and left; what the store has, and what is under way,  *)
(* stays.                                                                  *)

Open(p) ==
  /\ visit < MaxVisits /\ p # page
  /\ page' = p /\ visit' = visit + 1
  /\ awaited' = {} /\ chosen' = None /\ box' = FALSE /\ busy' = None
  /\ requests' = requests \cup {Request(0, None, p.id, Own[p.name], p.name, visit + 1)}
  /\ UNCHANGED <<store, status, history>>

Leave ==
  /\ page # Nowhere /\ page' = Nowhere
  /\ UNCHANGED <<visit, store, local, requests, status, history>>

(* Actualizar on the arrivals and the departures (a bound: while nothing   *)
(* else was asked by hand).                                                *)
Refresh ==
  /\ page.name \in {"arrivals", "departures"} /\ ~box /\ \A r \in requests : r.n # 0
  /\ requests' = requests \cup {Request(0, None, None, Own[page.name], page.name, visit)}
  /\ requests' # requests
  /\ UNCHANGED <<page, visit, store, local, status, history>>

Send(op, id) ==
  /\ last < MaxClicks /\ last' = last + 1
  /\ requests' = requests \cup {Request(last + 1, op, id, "post", page.name, visit)}
  /\ UNCHANGED <<page, visit, store, status, made, told, others>>

(* What the page of a reservation shows: the one in the store, which until *)
(* its own is read, and again after a late answer, may be another one.     *)
Displayed == IF page.name = "detail" THEN current ELSE None

(* The button is there for the status that is shown, what it sends is the  *)
(* id of the route, and it can be pressed again at once.                   *)
Press(op) ==
  /\ Displayed # None /\ Displayed.status = From[op]
  /\ Send(op, page.id) /\ UNCHANGED local

(* The arrivals: a row opens the box, the box registers the row it shows.  *)
Arriving == {s \in DOMAIN rows : rows[s] = "confirmed"}

Choose(s) ==
  /\ page.name = "arrivals" /\ ~box /\ s \in Arriving /\ busy # s
  /\ chosen' = s /\ box' = TRUE
  /\ UNCHANGED <<page, visit, store, awaited, busy, requests, status, history>>

Cancel ==
  /\ box /\ box' = FALSE
  /\ UNCHANGED <<page, visit, store, awaited, chosen, busy, requests, status, history>>

BoxReady == box /\ busy = None

Confirm ==
  /\ page.name = "arrivals" /\ BoxReady
  /\ Send("in", chosen) /\ busy' = chosen
  /\ UNCHANGED <<awaited, chosen, box>>

(* The departures awaited, overdue or not: a search hides some of them and *)
(* is taken back, the order does not matter.                               *)
Departing == awaited

(* Each row has a button of its own, blocked only while it is the row      *)
(* processed last.                                                         *)
Depart(s) ==
  /\ page.name = "departures" /\ s \in Departing /\ busy # s
  /\ Send("out", s) /\ busy' = s
  /\ UNCHANGED <<awaited, chosen, box>>

-----------------------------------------------------------------------------
(* The server.  A check-in wants a confirmed reservation and a check-out   *)
(* one that is checked in: anything else is a conflict.                    *)

MayChange(r) == status[r.id] = From[r.op]

Post(r) ==
  /\ r \in requests /\ r.step = "post" /\ r.answer = None
  /\ IF MayChange(r)
     THEN /\ status' = [status EXCEPT ![r.id] = To[r.op]]
          /\ made' = [made EXCEPT ![r.n] = @ + 1]
          /\ requests' = (requests \ {r}) \cup {[r EXCEPT !.answer = "ok"]}
     ELSE /\ requests' = (requests \ {r}) \cup {[r EXCEPT !.answer = "conflict"]}
          /\ UNCHANGED <<status, made>>
  /\ UNCHANGED <<page, visit, store, local, told, last, others>>

(* The room is not ready, or the date has not come.                        *)
Refuse(r) ==
  /\ r \in requests /\ r.step = "post" /\ r.answer = None
  /\ requests' = (requests \ {r}) \cup {[r EXCEPT !.answer = "conflict"]}
  /\ UNCHANGED <<page, visit, store, local, status, history>>

Data(r) ==
  CASE r.step = "one" -> Only({r.id}) [] r.step = "all" -> Only(Stays)
    [] r.step = "first" -> Only(First)
    [] r.step = "awaited" -> Only({s \in Stays : status[s] = "checked_in"})

Serve(r) ==
  /\ r \in requests /\ r.step \notin {"post", "rooms"} /\ r.answer = None
  /\ requests' = (requests \ {r}) \cup {[r EXCEPT !.answer = "ok", !.data = Data(r)]}
  /\ UNCHANGED <<page, visit, store, local, status, history>>

-----------------------------------------------------------------------------
(* The answers, in any order.                                              *)

(* The store takes the lists and the reservation whichever page asked; the *)
(* departures belong to the page that did.                                 *)
Store(r) ==
  /\ rows' = IF r.step \in {"first", "all"} THEN r.data ELSE rows
  /\ current' = IF r.step = "one" THEN [id |-> r.id, status |-> r.data[r.id]] ELSE current
  /\ awaited' = IF r.step = "awaited" /\ r.visit = visit THEN DOMAIN r.data ELSE awaited

(* finally: the page's flag is dropped, whichever click it was raised for. *)
Release(r) == IF r.n # 0 /\ r.visit = visit THEN None ELSE busy

(* The box closes once the change and the first lists have succeeded.      *)
BoxAfter(r) == box /\ ~(r.n # 0 /\ r.visit = visit /\ r.step = "rooms")

(* Mutant: a conflict is taken for an answer like any other.               *)
AnyAnswer(r) == r.answer # None \/ r.step = "rooms"

(* Nothing of the rooms is shown on these pages.                           *)
Succeeded(r) == r.answer = "ok" \/ r.step = "rooms"

Continue(r) ==
  /\ r \in requests /\ Succeeded(r)
  /\ Store(r)
  /\ box' = BoxAfter(r)
  /\ told' = IF r.n # 0 /\ r.step = "rooms" THEN told \cup {r.n} ELSE told
  /\ IF r.n = 0 \/ After(r) = "end"
     THEN requests' = requests \ {r} /\ busy' = Release(r)
     ELSE /\ requests' = (requests \ {r}) \cup
               {[r EXCEPT !.step = After(r), !.left = 0, !.answer = None, !.data = Only({})]}
          /\ UNCHANGED busy
  /\ UNCHANGED <<page, visit, chosen, status, made, last, others>>

(* A lost request, a lost answer or a conflict: once more, then the click  *)
(* is told as a failure and what was left of its chain is not done.        *)
Fail(r) ==
  /\ r \in requests
  /\ IF r.left > 0
     THEN /\ requests' = (requests \ {r}) \cup {[r EXCEPT !.left = 0, !.answer = None, !.data = Only({})]}
          /\ UNCHANGED busy
     ELSE requests' = requests \ {r} /\ busy' = Release(r)
  /\ UNCHANGED <<page, visit, store, awaited, chosen, box, status, history>>

OthersChange(s, op) ==
  /\ others < MaxOthers /\ others' = others + 1
  /\ status[s] = From[op] /\ status' = [status EXCEPT ![s] = To[op]]
  /\ UNCHANGED <<page, visit, store, local, requests, made, told, last>>

Next ==
  \/ \E p \in Pages : Open(p)
  \/ Leave \/ Refresh \/ Cancel \/ Confirm
  \/ \E op \in DOMAIN From : Press(op)
  \/ \E s \in Stays : Choose(s) \/ Depart(s)
  \/ \E r \in requests : Post(r) \/ Refuse(r) \/ Serve(r) \/ Continue(r) \/ Fail(r)
  \/ \E s \in Stays, op \in DOMAIN From : OthersChange(s, op)

Spec == Init /\ [][Next]_vars

-----------------------------------------------------------------------------
Mine(r) == r.n # 0 /\ r.visit = visit /\ page.name = r.page

(* The types; the arrivals are blocked exactly while a click of theirs is  *)
(* under way, the departures while one is or has been overtaken.           *)
TypeOK ==
  /\ page \in Pages \cup {Nowhere} /\ status \in [Stays -> Statuses]
  /\ current = None \/ current \in Entries
  /\ awaited \subseteq Stays /\ chosen \in Stays \cup {None} /\ box \in BOOLEAN
  /\ busy # None => \E r \in requests : r.n # 0 /\ r.visit = visit
  /\ page.name = "arrivals" => (busy # None <=> \E r \in requests : Mine(r))

(* A success is told only for a click that changed its reservation, and a  *)
(* click changes it once, although its request may be repeated and the     *)
(* button of the page pressed again.                                       *)
ToldIsDone ==
  /\ \A n \in told : made[n] = 1
  /\ \A n \in Click : made[n] <= 1

(* A guest is registered one at a time from the arrivals, and the one      *)
(* registered is the one in the box.                                       *)
OneArrival ==
  \A r, q \in requests : r.page = "arrivals" /\ q.page = "arrivals" /\ r.n # 0 /\ q.n # 0
                           /\ r.visit = q.visit => r = q

(* Answers out of order may show an old status, never one not reached yet. *)
NeverAhead ==
  /\ \A s \in DOMAIN rows : Rank(rows[s]) <= Rank(status[s])
  /\ current # None => Rank(current.status) <= Rank(status[current.id])
  /\ \A s \in awaited : Rank(status[s]) >= Rank("checked_in")

(* The buttons come back and every click is answered.                      *)
DeskSettles == busy # None ~> busy = None
=============================================================================
