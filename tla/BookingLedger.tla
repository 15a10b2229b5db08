--------------------------- MODULE BookingLedger ---------------------------
(***************************************************************************)
(* What the hotel promises about reservations, with no workers, locks or   *)
(* SQL: a book of stays in which every change happens at once, on the book *)
(* as it is, and no night of a room is ever promised twice.                *)
(***************************************************************************)
EXTENDS Integers

CONSTANTS Rooms, Reservations, NoRoom, MaxDay

VARIABLE book

Nights(i, o) == i .. o - 1

Blank == [status |-> "none", room |-> NoRoom, in |-> 0, out |-> 0]

(* The nights of room r that other stays have been promised.               *)
Taken(r, v) ==
  UNION {Nights(book[x].in, book[x].out) : x \in
    {y \in Reservations \ {v} :
       book[y].room = r /\ book[y].status \notin {"none", "cancelled"}}}

LedgerInit == book = [v \in Reservations |-> Blank]

Promise(v, r, i, o) ==
  /\ book[v] = Blank
  /\ i < o
  /\ book' = [book EXCEPT ![v] =
                [status |-> "confirmed", room |-> r, in |-> i, out |-> o]]
  /\ Nights(i, o) \intersect Taken(r, v) = {}

Move(v, i, o) ==
  /\ book[v].status \in {"confirmed", "checked_in"}
  /\ i < o
  /\ book' = [book EXCEPT ![v].in = i, ![v].out = o]
  /\ Nights(i, o) \intersect Taken(book[v].room, v) = {}

(* A cancelled stay may keep any dates: it no longer takes a night.        *)
Drop(v, i, o) ==
  /\ book[v].status = "confirmed"
  /\ i < o
  /\ book' = [book EXCEPT ![v].status = "cancelled", ![v].in = i, ![v].out = o]

Arrive(v) ==
  /\ book[v].status = "confirmed"
  /\ book' = [book EXCEPT ![v].status = "checked_in"]

Depart(v) ==
  /\ book[v].status = "checked_in"
  /\ book' = [book EXCEPT ![v].status = "checked_out"]

LedgerNext == \E v \in Reservations :
  \/ \E i, o \in 0 .. MaxDay :
       \/ \E r \in Rooms : Promise(v, r, i, o)
       \/ Move(v, i, o)
       \/ Drop(v, i, o)
  \/ Arrive(v) \/ Depart(v)

LedgerSpec == LedgerInit /\ [][LedgerNext]_book

=============================================================================
