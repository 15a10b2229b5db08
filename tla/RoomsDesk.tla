----------------------------- MODULE RoomsDesk ------------------------------
(* The page of the rooms (/rooms) with its dialog, the rooms store, the     *)
(* list it reads and the endpoints behind it, in the tab of a manager.  A   *)
(* room is edited by its form, which sends number, type and floor, or sent  *)
(* to maintenance by its card, which sends the status alone; the endpoint   *)
(* reads the room, fills in what was not sent and writes all of it.         *)
EXTENDS Integers

CONSTANTS
  Rooms,
  Numbers,    \* numbers a room may have; type and floor go with it
  First,      \* the number each room has at first
  New,        \* the room a form without a room registers
  None,
  MaxTypes,   \* bound on changes of the form
  MaxCalls,   \* bound on clicks that change something
  MaxLoads,   \* bound on lists asked for
  MaxOthers   \* bound on changes made by other people

FirstAssumption ==
  /\ First \in [Rooms -> Numbers] /\ New \notin Rooms
  /\ {None} \cap (Rooms \cup Numbers \cup {New, "ok", "refused"}) = {}
  /\ \A r, s \in Rooms : First[r] = First[s] => r = s
BoundAssumption == MaxCalls \in Nat

VARIABLES
  rows,       \* the list shown: each room as it was, and when that was
  error,      \* the list could not be read
  asked,      \* the number of the last list asked for
  loads,      \* lists asked for and not answered yet
  dialog,     \* the room of the open form, New, or None when it is closed
  form,       \* the number in the form
  baseline,   \* the number the form began with
  saving,     \* isSubmitting
  calls,      \* changes not answered yet
  number, status, clock,  \* the server; clock counts the changes
  made,       \* history: what each click has written last, and when
  told,       \* history: clicks told as successes
  confirmed, typed, last, others

list == <<rows, error, asked, loads>>
box == <<dialog, form, baseline, saving>>
server == <<number, status, clock>>
counts == <<typed, last, others>>
vars == <<list, box, calls, server, made, told, confirmed, counts>>

Statuses == {"available", "occupied", "maintenance"}
Everyone == Rooms \cup {New}
Click == 1 .. MaxCalls

Init ==
  /\ number = [r \in Everyone |-> IF r = New THEN None ELSE First[r]]
  /\ status = [r \in Everyone |-> "available"] /\ clock = 0
  /\ rows = [at |-> 0, number |-> number, status |-> status] /\ error = FALSE
  /\ asked = 0 /\ loads = {}
  /\ dialog = None /\ form = None /\ baseline = None /\ saving = FALSE
  /\ calls = {} /\ made = [n \in Click |-> 0] /\ told = {}
  /\ confirmed = 0 /\ typed = 0 /\ last = 0 /\ others = 0

-----------------------------------------------------------------------------
(* The list: the filters, the page and every change ask for it again.      *)

Ask(saver) ==
  /\ asked' = asked + 1 /\ error' = FALSE
  /\ loads' = loads \cup {[n |-> asked + 1, saver |-> saver, answer |-> None]}

Filter ==
  /\ dialog = None /\ asked < MaxLoads /\ Ask(FALSE)
  /\ UNCHANGED <<rows, box, calls, server, made, told, confirmed, counts>>

ServeLoad(l) ==
  /\ l \in loads /\ l.answer = None
  /\ loads' = (loads \ {l}) \cup
       {[l EXCEPT !.answer = [at |-> clock, number |-> number, status |-> status]]}
  /\ UNCHANGED <<rows, error, asked, box, calls, server, made, told, confirmed, counts>>

Newest(l) == l.n = asked

Show(l) ==
  /\ l \in loads /\ l.answer # None /\ loads' = loads \ {l}
  /\ IF Newest(l) THEN rows' = l.answer /\ error' = FALSE ELSE UNCHANGED <<rows, error>>
  /\ saving' = (saving /\ ~l.saver)
  /\ UNCHANGED <<asked, dialog, form, baseline, calls, server, made, told, confirmed, counts>>

LoadFails(l) ==
  /\ l \in loads /\ loads' = loads \ {l}
  /\ error' = (error \/ Newest(l))
  /\ saving' = (saving /\ ~l.saver)
  /\ UNCHANGED <<rows, asked, dialog, form, baseline, calls, server, made, told, confirmed,
                 counts>>

-----------------------------------------------------------------------------
(* The dialog and its form.                                                *)

(* The cards are hidden while the list is read and when that has failed.   *)
Listed(r) ==
  /\ rows.number[r] # None
  /\ ~error /\ \A l \in loads : l.n # asked

(* Nueva, or Editar on a card: the form begins with the row's data.        *)
OpenForm(r) ==
  /\ dialog = None /\ (r = New \/ Listed(r))
  /\ dialog' = r
  /\ form' = (IF r = New THEN None ELSE rows.number[r]) /\ baseline' = form'
  /\ UNCHANGED <<list, saving, calls, server, made, told, confirmed, counts>>

Type(d) ==
  /\ dialog # None /\ typed < MaxTypes /\ typed' = typed + 1
  /\ d # form /\ form' = d
  /\ UNCHANGED <<list, dialog, baseline, saving, calls, server, made, told, confirmed,
                 last, others>>

Dirty == dialog # None /\ form # baseline

(* requestDiscard: never while saving; with changes, if the user agrees.   *)
Discard == ~saving /\ confirmed' = confirmed + IF Dirty THEN 1 ELSE 0

Shut == dialog' = None /\ form' = None /\ baseline' = None

CloseForm ==
  /\ dialog # None /\ Discard /\ Shut
  /\ UNCHANGED <<list, saving, calls, server, made, told, counts>>

-----------------------------------------------------------------------------
(* The changes.                                                            *)

Send(op, r, d) ==
  /\ last < MaxCalls /\ last' = last + 1
  /\ calls' = calls \cup {[n |-> last + 1, op |-> op, room |-> r, number |-> d,
                           left |-> 1, answer |-> None, read |-> None]}
  /\ UNCHANGED <<list, dialog, form, baseline, server, made, told, confirmed, typed, others>>

Save ==
  /\ dialog # None /\ form # None /\ ~saving /\ saving' = TRUE
  /\ Send(IF dialog = New THEN "create" ELSE "edit", dialog, form)

Maintain(r) ==
  /\ dialog = None /\ Listed(r) /\ rows.status[r] # "maintenance"
  /\ Send("maintain", r, None) /\ UNCHANGED saving

With(c, d) == calls' = (calls \ {c}) \cup {d}

Written(c) == made' = [made EXCEPT ![c.n] = clock + 1] /\ clock' = clock + 1

Free(c) == \A r \in Everyone \ {c.room} : number[r] # c.number

(* POST /rooms: the number must be free, the unique index sees to it.      *)
Create(c) ==
  /\ c.op = "create" /\ c.answer = None
  /\ IF Free(c) /\ number[New] = None
     THEN /\ number' = [number EXCEPT ![New] = c.number] /\ Written(c)
          /\ With(c, [c EXCEPT !.answer = "ok"])
          /\ UNCHANGED status
     ELSE With(c, [c EXCEPT !.answer = "refused"]) /\ UNCHANGED <<server, made>>

(* PUT /rooms/:id reads the room, which may go to maintenance from any     *)
(* status ...                                                              *)
Look(c) ==
  /\ c.op # "create" /\ c.answer = None /\ c.read = None
  /\ With(c, [c EXCEPT !.read = [number |-> number[c.room], status |-> status[c.room]]])
  /\ UNCHANGED <<server, made>>

(* ... and then writes what was sent, and what it has read for the rest.   *)
Write(c) ==
  /\ c.op # "create" /\ c.answer = None /\ c.read # None
  /\ LET to == IF c.op = "edit" THEN c.number ELSE c.read.number
     IN  IF \A r \in Everyone \ {c.room} : number[r] # to
         THEN /\ number' = [number EXCEPT ![c.room] = to]
              /\ status' = [status EXCEPT ![c.room] =
                              IF c.op = "maintain" THEN "maintenance" ELSE c.read.status]
              /\ Written(c) /\ With(c, [c EXCEPT !.answer = "ok"])
         ELSE With(c, [c EXCEPT !.answer = "refused"]) /\ UNCHANGED <<server, made>>

Serve(c) ==
  /\ c \in calls
  /\ Create(c) \/ Look(c) \/ Write(c)
  /\ UNCHANGED <<list, box, told, confirmed, counts>>

(* uiStore.success: the user is told that it is done.                       *)
Tell(c) == told' = told \cup {c.n}

(* A success closes the dialog and asks for the list; a form stays blocked *)
(* until that list has come.                                               *)
Succeed(c) ==
  /\ c \in calls /\ c.answer = "ok" /\ calls' = calls \ {c}
  /\ Tell(c)
  /\ IF c.op = "maintain" THEN UNCHANGED box ELSE Shut /\ UNCHANGED saving
  /\ Ask(c.op # "maintain")
  /\ UNCHANGED <<rows, server, made, confirmed, counts>>

(* A lost request, a lost answer, a conflict or a fault: once more, then   *)
(* told; the form keeps what was typed.                                    *)
Fail(c) ==
  /\ c \in calls /\ (c.read = None \/ c.answer # None)
  /\ IF c.left > 0
     THEN /\ With(c, [c EXCEPT !.left = @ - 1, !.answer = None, !.read = None])
          /\ UNCHANGED saving
     ELSE /\ calls' = calls \ {c}
          /\ saving' = (saving /\ c.op = "maintain")
  /\ UNCHANGED <<list, dialog, form, baseline, server, made, told, confirmed, counts>>

(* Colleagues renumber a room, or a guest arrives.                         *)
OthersChange(r, d) ==
  /\ others < MaxOthers /\ others' = others + 1 /\ clock' = clock + 1
  /\ \/ /\ \A s \in Everyone : number[s] # d
        /\ number' = [number EXCEPT ![r] = d] /\ UNCHANGED status
     \/ status[r] = "available" /\ status' = [status EXCEPT ![r] = "occupied"] /\ UNCHANGED number
  /\ UNCHANGED <<list, box, calls, made, told, confirmed, typed, last>>

Next ==
  \/ Filter \/ CloseForm \/ Save
  \/ \E l \in loads : ServeLoad(l) \/ Show(l) \/ LoadFails(l)
  \/ \E r \in Everyone : OpenForm(r)
  \/ \E r \in Rooms : Maintain(r)
  \/ \E d \in Numbers : Type(d)
  \/ \E c \in calls : Serve(c) \/ Succeed(c) \/ Fail(c)
  \/ \E r \in Rooms, d \in Numbers : OthersChange(r, d)

Spec == Init /\ [][Next]_vars

-----------------------------------------------------------------------------
TypeOK ==
  /\ dialog \in Everyone \cup {None} /\ form \in Numbers \cup {None}
  /\ status \in [Everyone -> Statuses]
  /\ saving <=> (\E c \in calls : c.op # "maintain") \/ (\E l \in loads : l.saver)

(* A success is told only for what was written, and once the list is read  *)
(* again it is no older than any change told on this page.                 *)
ToldIsDone ==
  /\ \A n \in told : made[n] > 0
  /\ loads = {} /\ ~error => \A n \in told : rows.at >= made[n]

(* What the form saves goes to the room it was opened for, and only one    *)
(* form is saved at a time.                                                *)
ActsAsShown == \A c \in calls : c.op # "maintain" => dialog = c.room

(* What was typed goes only when the user agrees, types it back, or it was *)
(* saved.                                                                  *)
DraftsKept == Dirty /\ ~Dirty' => confirmed' > confirmed \/ typed' > typed \/ told' # told

(* The form is unblocked again.                                            *)
FormReturns == saving ~> ~saving
=============================================================================
