----------------------------- MODULE RequestsDesk ----------------------------
(* The page /operations/requests: the staff read what guests ask for and      *)
(* decide.  One flag, busy, guards every control of the page, because the     *)
(* helper behind it (useOperations.run) is no lock: it would let two loads    *)
(* overlap.  The decision, the agreed total and the answer of each request    *)
(* are kept while the page lives.  The server is GuestRequests seen from      *)
(* here; others of the staff work on the same requests.                       *)
EXTENDS Integers, FiniteSets

CONSTANTS
  Requests,
  Prices,       \* totals of a stay
  None,
  MaxActs,      \* bound on what the user does
  MaxOthers     \* bound on what others do

Decisions == {"approved", "rejected"}
Reviews == [decision : Decisions, total : Prices \cup {None}]

NoneAssumption == None \notin Reviews

VARIABLES
  filter,       \* the state asked for: "pending" or "reviewed"
  rows,         \* the list: what is known of each request on it
  selected,     \* the row in the dialog, or None
  decisions, totals,   \* the fields of each request's form
  busy,         \* what runs, or None
  error, notice,
  review,       \* the server: how each request was decided, or None
  price,        \* the server: the total of each stay
  told,         \* history: what the notice is about, or None
  acts, others

list == <<filter, rows>>
form == <<selected, decisions, totals>>
server == <<review, price>>
vars == <<list, form, busy, error, notice, server, told, acts, others>>

Listing == [step |-> "list"]

Init ==
  /\ filter = "pending" /\ rows = {}
  /\ selected = None
  /\ decisions = [r \in Requests |-> None] /\ totals = [r \in Requests |-> None]
  /\ busy = Listing /\ error = FALSE /\ notice = FALSE
  /\ review = [r \in Requests |-> None] /\ price \in [Requests -> Prices]
  /\ told = None /\ acts = 0 /\ others = 0

Act == acts < MaxActs /\ acts' = acts + 1

-----------------------------------------------------------------------------
(* :disabled="busy", :loading="busy", if(!busy.value).                       *)
Idle == busy = None

(* run(): the error goes when something begins.                              *)
Run(op) == busy' = op /\ error' = FALSE

(* The filter and Actualizar.                                                *)
Load(f) ==
  /\ Idle /\ Act /\ selected = None
  /\ filter' = f /\ Run(Listing)
  /\ UNCHANGED <<rows, form, notice, server, told, others>>

Open(row) ==
  /\ Idle /\ Act /\ selected = None
  /\ selected' = row /\ error' = FALSE /\ notice' = FALSE
  /\ UNCHANGED <<list, decisions, totals, busy, server, told, others>>

CanClose == Idle

Close ==
  /\ selected # None /\ CanClose /\ Act
  /\ selected' = None /\ error' = FALSE
  /\ UNCHANGED <<list, decisions, totals, busy, notice, server, told, others>>

(* The form is there while the row says pending.                             *)
Decidable == selected # None /\ selected.status = "pending"

Choose(d) ==
  /\ Decidable /\ Idle /\ Act
  /\ d # decisions[selected.id] /\ decisions' = [decisions EXCEPT ![selected.id] = d]
  /\ UNCHANGED <<list, selected, totals, busy, error, notice, server, told, others>>

Agree(p) ==
  /\ Decidable /\ decisions[selected.id] = "approved" /\ Idle /\ Act
  /\ p # totals[selected.id] /\ totals' = [totals EXCEPT ![selected.id] = p]
  /\ UNCHANGED <<list, selected, decisions, busy, error, notice, server, told, others>>

Submit ==
  /\ Decidable /\ Idle /\ Act
  /\ LET r == selected.id
     IN  Run([step |-> "sent", id |-> r, decision |-> decisions[r], again |-> FALSE,
              total |-> IF decisions[r] = "approved" THEN totals[r] ELSE None])
  /\ UNCHANGED <<list, form, notice, server, told, others>>

-----------------------------------------------------------------------------
At(step) == busy # None /\ busy.step = step

(* The review: refused when it was decided before, or by what else the       *)
(* server checks.                                                            *)
Serve ==
  /\ At("sent")
  /\ \/ /\ review[busy.id] = None
        /\ review' = [review EXCEPT ![busy.id] =
                        [decision |-> busy.decision, total |-> busy.total]]
        /\ price' = IF busy.decision = "approved"
                    THEN [price EXCEPT ![busy.id] = busy.total] ELSE price
        /\ busy' = [busy EXCEPT !.step = "saved"]
     \/ /\ busy' = [busy EXCEPT !.step = "refused"]
        /\ UNCHANGED server
  /\ UNCHANGED <<list, form, error, notice, told, acts, others>>

(* The answer was lost: the browser asks once more.                          *)
Repeat ==
  /\ busy # None /\ busy.step \in {"sent", "saved"} /\ ~busy.again
  /\ busy' = [busy EXCEPT !.step = "sent", !.again = TRUE]
  /\ UNCHANGED <<list, form, error, notice, server, told, acts, others>>

Decided ==
  /\ At("saved")
  /\ selected' = None /\ notice' = TRUE
  /\ told' = [id |-> busy.id, decision |-> busy.decision, total |-> busy.total]
  /\ busy' = Listing
  /\ UNCHANGED <<list, decisions, totals, error, server, acts, others>>

Status(r) == IF review[r] = None THEN "pending" ELSE "reviewed"
Default(field, r, value) == IF field[r] = None THEN value ELSE field[r]

(* The fields are filled the first time a request is listed.                 *)
Listed ==
  /\ At("list")
  /\ LET found == {r \in Requests : Status(r) = filter}
     IN  /\ rows' = {[id |-> r, status |-> filter] : r \in found}
         /\ decisions' = [r \in Requests |-> IF r \in found THEN Default(decisions, r, "approved")
                                             ELSE decisions[r]]
         /\ totals' = [r \in Requests |-> IF r \in found THEN Default(totals, r, price[r])
                                          ELSE totals[r]]
  /\ busy' = None
  /\ UNCHANGED <<filter, selected, error, notice, server, told, acts, others>>

Fail ==
  /\ \/ At("list") \/ At("refused")
     \/ busy # None /\ busy.step \in {"sent", "saved"} /\ busy.again
  /\ busy' = None /\ error' = TRUE
  /\ UNCHANGED <<list, form, notice, server, told, acts, others>>

-----------------------------------------------------------------------------
Other == others < MaxOthers /\ others' = others + 1

OthersReview(r, d) ==
  /\ Other /\ review[r] = None
  /\ review' = [review EXCEPT ![r] = [decision |-> d, total |-> None]]
  /\ UNCHANGED <<list, form, busy, error, notice, price, told, acts>>

OthersReprice(r, p) ==
  /\ Other /\ p # price[r] /\ price' = [price EXCEPT ![r] = p]
  /\ UNCHANGED <<list, form, busy, error, notice, review, told, acts>>

Next ==
  \/ \E f \in {"pending", "reviewed"} : Load(f)
  \/ \E row \in rows : Open(row)
  \/ Close \/ \E d \in Decisions : Choose(d)
  \/ \E p \in Prices : Agree(p)
  \/ Submit \/ Serve \/ Repeat \/ Decided \/ Listed \/ Fail
  \/ \E r \in Requests, d \in Decisions : OthersReview(r, d)
  \/ \E r \in Requests, p \in Prices : OthersReprice(r, p)

Spec == Init /\ [][Next]_vars

(* The browser settles every request.                                        *)
FairSpec == Spec /\ WF_vars(Serve \/ Decided \/ Listed \/ Fail)

-----------------------------------------------------------------------------
TypeOK ==
  /\ \A row \in rows : row.id \in Requests
  /\ decisions \in [Requests -> Decisions \cup {None}]
  /\ totals \in [Requests -> Prices \cup {None}]
  /\ price \in [Requests -> Prices]

(* A decision is sent, and stays on the screen until it is answered, with    *)
(* the request, the choice and the total that its form shows: nothing the    *)
(* user does meanwhile closes it or changes it.                              *)
ActsAsShown == busy # None /\ busy.step # "list" =>
  /\ selected # None /\ selected.id = busy.id
  /\ decisions[busy.id] = busy.decision
  /\ busy.decision = "approved" => totals[busy.id] = busy.total

(* The notice appears only for a decision that the server keeps exactly so,  *)
(* even when others decided the same request or its answer was lost.         *)
ToldIsDone == notice =>
  review[told.id] = [decision |-> told.decision, total |-> told.total]

(* The page can always be used again.                                        *)
RunEnds == busy # None ~> busy = None
=============================================================================
