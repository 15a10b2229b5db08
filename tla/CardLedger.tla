----------------------------- MODULE CardLedger -----------------------------
(***************************************************************************)
(* What the online payments promise: the money a guest pays through a      *)
(* checkout is at any time in one place.  The hotel keeps it for the       *)
(* reservation or owes it back, and does not leave it undecided; what is   *)
(* owed is returned, once, and what is returned was owed.                  *)
(***************************************************************************)
CONSTANT Checkouts

VARIABLE money   \* where the money of each checkout is

Places == {"unpaid", "held", "booked", "owed", "returned"}

Init == money = [c \in Checkouts |-> "unpaid"]

Move(c, from, to) == money[c] = from /\ money' = [money EXCEPT ![c] = to]

Capture(c) == Move(c, "unpaid", "held")
Book(c) == Move(c, "held", "booked")
Owe(c) == Move(c, "held", "owed") \/ Move(c, "booked", "owed")
Return(c) == Move(c, "owed", "returned")

Next == \E c \in Checkouts : Capture(c) \/ Book(c) \/ Owe(c) \/ Return(c)

Ledger == Init /\ [][Next]_money

(* Keeping the money is for the hotel to decide; leaving it undecided, or  *)
(* owing it for ever, is not.                                              *)
Decide(c) == Book(c) \/ Move(c, "held", "owed")

Spec == Ledger /\ \A c \in Checkouts : WF_money(Decide(c)) /\ WF_money(Return(c))
=============================================================================
