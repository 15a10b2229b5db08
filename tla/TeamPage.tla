------------------------------ MODULE TeamPage -------------------------------
(* The team's tab of the settings (/admin/settings?tab=users): the list of  *)
(* users, the dialog that edits one or invites somebody, and the question   *)
(* asked before an access is opened or closed.  The dialog is one object,   *)
(* closed by whatever save ends; the question stays until its own change is *)
(* in the list.                                                             *)
EXTENDS Integers

CONSTANTS
  Users,
  Me,         \* the administrator at the page
  New,        \* the dialog of an invitation
  None,
  MaxCalls,   \* bound on clicks that change something
  MaxLoads,   \* bound on lists asked for by the filters
  MaxOthers   \* bound on changes made by other administrators

Click == 1 .. MaxCalls
Forms == [user : Users \cup {New}, active : BOOLEAN]
Changes == [n : Click, op : {"invite", "edit", "toggle"}, user : Users \cup {New}, to : BOOLEAN,
            saw : Forms, left : {0, 1}, answer : {None, "ok", "conflict"}]

MeAssumption ==
  /\ Me \in Users /\ New \notin Users
  /\ None \notin Users \cup Changes \cup {New, "ok", "conflict"}
BoundAssumption == MaxCalls \in Nat

VARIABLES
  rows,       \* the list: whether each user is active, and when that was
  error,      \* usersError
  asked,      \* the number of the last list asked for
  loads,      \* lists not answered yet, each with the click that waits for it
  dialog,     \* userForm of an open dialog, None when it is closed
  saving,     \* isSavingUser
  question,   \* selectedAccessUser, the row as it was
  changing,   \* changingUserId
  calls,      \* changes not answered yet
  active, clock,  \* the server; clock counts the changes
  made,       \* history: when each click changed the server, 0 if never
  told,       \* history: clicks told as successes
  last, others

list == <<rows, error, asked, loads>>
boxes == <<dialog, saving, question, changing>>
server == <<active, clock>>
history == <<made, told, last, others>>
vars == <<list, boxes, calls, server, history>>

Init ==
  /\ active = [u \in Users |-> TRUE] /\ clock = 0
  /\ rows = [at |-> 0, active |-> active] /\ error = FALSE /\ asked = 0 /\ loads = {}
  /\ dialog = None /\ saving = FALSE /\ question = None /\ changing = None
  /\ calls = {} /\ made = [n \in Click |-> 0] /\ told = {} /\ last = 0 /\ others = 0

-----------------------------------------------------------------------------
(* The list (useTableList): only the answer to the last question is shown. *)

Ask(c) ==
  /\ asked' = asked + 1 /\ error' = FALSE
  /\ loads' = loads \cup {[n |-> asked + 1, call |-> c, answer |-> None]}

Filter ==
  /\ dialog = None /\ question = None /\ asked < MaxLoads /\ Ask(None)
  /\ UNCHANGED <<rows, boxes, calls, server, history>>

ServeLoad(l) ==
  /\ l \in loads /\ l.answer = None
  /\ loads' = (loads \ {l}) \cup {[l EXCEPT !.answer = [at |-> clock, active |-> active]]}
  /\ UNCHANGED <<rows, error, asked, boxes, calls, server, history>>

(* What follows the list in the handler that waits for it: the dialog, or  *)
(* the question, is closed and the success is told.                        *)
After(c) ==
  IF c = None THEN UNCHANGED <<boxes, told>>
  ELSE /\ told' = told \cup {c.n}
       /\ IF c.op = "toggle"
          THEN question' = None /\ changing' = None /\ UNCHANGED <<dialog, saving>>
          ELSE dialog' = None /\ saving' = FALSE /\ UNCHANGED <<question, changing>>

Show(l) ==
  /\ l \in loads /\ l.answer # None /\ loads' = loads \ {l}
  /\ IF l.n = asked THEN rows' = l.answer /\ error' = FALSE ELSE UNCHANGED <<rows, error>>
  /\ After(l.call)
  /\ UNCHANGED <<asked, calls, server, made, last, others>>

(* A list that fails is told on the page, not to the handler.              *)
LoadFails(l) ==
  /\ l \in loads /\ loads' = loads \ {l}
  /\ error' = (error \/ l.n = asked)
  /\ After(l.call)
  /\ UNCHANGED <<rows, asked, calls, server, made, last, others>>

-----------------------------------------------------------------------------
(* The dialog: it may be closed, and opened for somebody else, at any time.*)

OpenDialog(u) ==
  /\ dialog = None /\ question = None
  /\ dialog' = [user |-> u, active |-> IF u = New THEN TRUE ELSE rows.active[u]]
  /\ UNCHANGED <<list, saving, question, changing, calls, server, history>>

CloseDialog ==
  /\ dialog # None /\ dialog' = None
  /\ UNCHANGED <<list, saving, question, changing, calls, server, history>>

Send(c) ==
  /\ last < MaxCalls /\ last' = last + 1 /\ calls' = calls \cup {c}
  /\ UNCHANGED <<list, dialog, question, server, made, told, others>>

(* saveUser: an invitation is asked for once, an edit is repeated once.    *)
Save ==
  /\ dialog # None /\ ~saving /\ saving' = TRUE /\ UNCHANGED changing
  /\ Send([n |-> last + 1, op |-> IF dialog.user = New THEN "invite" ELSE "edit",
           user |-> dialog.user, to |-> dialog.active, saw |-> dialog,
           left |-> IF dialog.user = New THEN 0 ELSE 1, answer |-> None])

-----------------------------------------------------------------------------
(* The question.                                                           *)

AskAccess(u) ==
  /\ dialog = None /\ question = None
  /\ u # Me /\ changing = None /\ ~saving
  /\ question' = [user |-> u, active |-> rows.active[u]]
  /\ UNCHANGED <<list, dialog, saving, changing, calls, server, history>>

Dismissable == question # None /\ changing = None

Dismiss ==
  /\ Dismissable /\ question' = None
  /\ UNCHANGED <<list, dialog, saving, changing, calls, server, history>>

(* toggleUserActive                                                        *)
Toggle ==
  /\ question # None /\ changing = None /\ changing' = question.user /\ UNCHANGED saving
  /\ Send([n |-> last + 1, op |-> "toggle", user |-> question.user, to |-> ~question.active,
           saw |-> question, left |-> 1, answer |-> None])

-----------------------------------------------------------------------------
(* PUT /users/:id, PATCH /users/:id/(de)activate, POST /users/invitations. *)

(* The last active administrator, who may be somebody else by now, keeps   *)
(* access; here no user at all may lose it when only one has it.           *)
Granted(c) == c.op = "invite" \/ c.to \/ \E u \in Users \ {c.user} : active[u]

Serve(c) ==
  /\ c \in calls /\ c.answer = None
  /\ IF Granted(c)
     THEN /\ active' = IF c.op = "invite" THEN active ELSE [active EXCEPT ![c.user] = c.to]
          /\ clock' = clock + 1 /\ made' = [made EXCEPT ![c.n] = clock + 1]
          /\ calls' = (calls \ {c}) \cup {[c EXCEPT !.answer = "ok"]}
     ELSE /\ calls' = (calls \ {c}) \cup {[c EXCEPT !.answer = "conflict"]}
          /\ UNCHANGED <<server, made>>
  /\ UNCHANGED <<list, boxes, told, last, others>>

(* A success asks for the list and waits for it.                           *)
Succeed(c) ==
  /\ c \in calls /\ c.answer = "ok" /\ calls' = calls \ {c}
  /\ Ask(c)
  /\ UNCHANGED <<rows, boxes, server, history>>

(* Lost, or refused: once more if it may be, then told; box and question   *)
(* stay open.                                                              *)
Fail(c) ==
  /\ c \in calls
  /\ IF c.left > 0
     THEN /\ calls' = (calls \ {c}) \cup {[c EXCEPT !.left = @ - 1, !.answer = None]}
          /\ UNCHANGED <<saving, changing>>
     ELSE /\ calls' = calls \ {c}
          /\ saving' = (saving /\ c.op = "toggle")
          /\ changing' = IF c.op = "toggle" THEN None ELSE changing
  /\ UNCHANGED <<list, dialog, question, server, history>>

OthersChange(u) ==
  /\ others < MaxOthers /\ others' = others + 1 /\ clock' = clock + 1
  /\ active' = [active EXCEPT ![u] = ~@]
  /\ UNCHANGED <<list, boxes, calls, made, told, last>>

Next ==
  \/ Filter \/ CloseDialog \/ Save \/ Dismiss \/ Toggle
  \/ \E l \in loads : ServeLoad(l) \/ Show(l) \/ LoadFails(l)
  \/ \E u \in Users \cup {New} : OpenDialog(u)
  \/ \E u \in Users : AskAccess(u) \/ OthersChange(u)
  \/ \E c \in calls : Serve(c) \/ Succeed(c) \/ Fail(c)

Spec == Init /\ [][Next]_vars

-----------------------------------------------------------------------------
(* What is under way: a call, or the list its handler waits for.           *)
Pending == calls \cup {l.call : l \in {k \in loads : k.call # None}}

(* One save and one change of access at a time, each shown as such.        *)
TypeOK ==
  /\ dialog \in Forms \cup {None} /\ question \in Forms \cup {None}
  /\ active \in [Users -> BOOLEAN]
  /\ saving <=> \E c \in Pending : c.op # "toggle"
  /\ changing # None <=> \E c \in Pending : c.op = "toggle"
  /\ \A c, d \in Pending : (c.op = "toggle") = (d.op = "toggle") => c = d

(* A success is told only for what was changed, and when the list is read  *)
(* after that it is no older than any change told.                         *)
ToldIsDone ==
  /\ \A n \in told : made[n] > 0
  /\ loads = {} /\ ~error => \A n \in told : rows.at >= made[n]

(* While an access is being changed the question on the screen is the one  *)
(* that was answered, and the change is the one it asked about.            *)
ActsAsShown ==
  \A c \in Pending : c.op = "toggle" => question = c.saw /\ c.to = ~c.saw.active /\ c.user # Me

(* Both end.                                                               *)
TeamSettles == (saving ~> ~saving) /\ (changing # None ~> changing = None)
=============================================================================
