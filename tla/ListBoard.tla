------------------------------ MODULE ListBoard ------------------------------
(* The pages /reservations and /payments: a list (TableList) with a dialog   *)
(* that saves a record and then loads the list again.  The list goes on      *)
(* loading behind the dialog, the dialog may be opened again while the list  *)
(* is loaded after a save, and the page may be left in between.              *)
(*                                                                           *)
(* A row is abstracted to how many saves had been committed when the list    *)
(* was read; the list has one page, and the forms' fields are left out.      *)
EXTENDS Integers

CONSTANTS
  Filters, MaxEvents,   \* of the list
  Records,     \* reservations that can be edited; {} on /payments
  New,         \* the dialog of a new record
  None,
  MaxOpens,    \* bound on the dialogs opened
  MaxSaves     \* bound on the saves committed

Targets == Records \cup {New}
Posts == [target : Targets, step : {"sent", "saved", "refused", "loading"}, at : Nat,
          again : BOOLEAN]

NoneAssumption == New \notin Records /\ None \notin Targets \cup Posts
BoundAssumption == MaxSaves \in Nat

VARIABLES
  mount, filters, page, rows, totalPages, loading, error, version, timer,
  requests, pages, events,        \* of the list
  reads,       \* what the answer of each load carries, by version
  shown,       \* what the rows on the screen carry
  dialog,      \* the dialog open, or None
  submitting,  \* isSubmitting
  post,        \* handleSubmit running, or None
  saved,       \* the server: saves committed
  told,        \* history: the last save of this page told as a success
  opens

L == INSTANCE TableList WITH MaxPages <- 0

table == <<mount, filters, page, rows, totalPages, loading, error, version, timer,
           requests, pages, events>>
board == <<dialog, submitting, post, told, opens>>
vars == <<table, reads, shown, board, saved>>

Init ==
  /\ L!Init
  /\ reads = <<>> /\ shown = 0
  /\ dialog = None /\ submitting = FALSE /\ post = None
  /\ saved = 0 /\ told = 0 /\ opens = 0

-----------------------------------------------------------------------------
(* The list.  A dialog is modal: what is behind it cannot be reached.        *)

(* The server reads the rows of a load; the answer may arrive much later.    *)
ReadRows(r) ==
  /\ r \in requests /\ r.version \notin DOMAIN reads
  /\ reads' = [v \in DOMAIN reads \cup {r.version} |->
                 IF v = r.version THEN saved ELSE reads[v]]
  /\ UNCHANGED <<table, shown, board, saved>>

Forget(r) == [v \in DOMAIN reads \ {r.version} |-> reads[v]]

Answer(r) ==
  /\ r.version \in DOMAIN reads
  /\ L!Answer(r)
  /\ shown' = IF L!Current(r) THEN reads[r.version] ELSE shown
  /\ reads' = Forget(r)
  /\ UNCHANGED <<board, saved>>

Fail(r) ==
  /\ L!Fail(r)
  /\ reads' = Forget(r)
  /\ UNCHANGED <<shown, board, saved>>

(* A form with something typed in it keeps the user on the page while it is  *)
(* being saved; one that was opened and not changed does not.                *)
Leave ==
  /\ dialog = New => ~submitting
  /\ L!Unmount
  /\ dialog' = None
  /\ UNCHANGED <<reads, shown, submitting, post, told, opens, saved>>

ListAlone ==
  /\ \/ L!Mount \/ L!Debounced
     \/ dialog = None /\ error /\ L!Refresh
     \/ dialog = None /\ \E f \in Filters : L!SetFilters(f)
  /\ UNCHANGED <<reads, shown, board, saved>>

-----------------------------------------------------------------------------
(* The dialog.                                                               *)

OpenDialog(t) ==
  /\ mount = "mounted" /\ dialog = None
  /\ opens < MaxOpens /\ opens' = opens + 1
  /\ dialog' = t
  /\ UNCHANGED <<table, reads, shown, submitting, post, told, saved>>

openAddModal == OpenDialog(New)

(* A row's button: the table is only there once it is loaded.                *)
editReservation(r) == ~loading /\ ~error /\ OpenDialog(r)

(* requestClose and requestDiscard: a form that is being saved is busy.      *)
NotBusy == ~submitting

closeModal ==
  /\ dialog # None /\ NotBusy
  /\ dialog' = None
  /\ UNCHANGED <<table, reads, shown, submitting, post, told, opens, saved>>

(* handleSubmit().                                                           *)
Submit ==
  /\ dialog # None /\ ~submitting
  /\ submitting' = TRUE
  /\ post' = [target |-> dialog, step |-> "sent", at |-> 0, again |-> FALSE]
  /\ UNCHANGED <<table, reads, shown, dialog, told, opens, saved>>

Posted(step) == post # None /\ post.step = step

(* The server saves, or refuses: a room that was taken, another state.       *)
Serve ==
  /\ Posted("sent")
  /\ \/ /\ saved < MaxSaves /\ saved' = saved + 1
        /\ post' = [post EXCEPT !.step = "saved", !.at = saved + 1]
     \/ post' = [post EXCEPT !.step = "refused"] /\ UNCHANGED saved
  /\ UNCHANGED <<table, reads, shown, dialog, submitting, told, opens>>

(* The API client sends a request again, once, when its answer is lost.      *)
Repeat ==
  /\ Posted("sent") \/ Posted("saved")
  /\ ~post.again
  /\ post' = [post EXCEPT !.step = "sent", !.again = TRUE]
  /\ UNCHANGED <<table, reads, shown, dialog, submitting, told, opens, saved>>

(* load(): it runs although the page may be gone.                            *)
Reload == L!Load(page)

(* A success closes the dialog and loads the list.                           *)
Succeed ==
  /\ Posted("saved")
  /\ told' = post.at
  /\ dialog' = None
  /\ Reload
  /\ post' = [post EXCEPT !.step = "loading", !.at = version + 1]
  /\ UNCHANGED <<mount, filters, rows, totalPages, timer, pages, events, reads, shown,
                 submitting, opens, saved>>

(* finally: once the load has been answered or has failed.                   *)
Loaded ==
  /\ Posted("loading")
  /\ \A r \in requests : r.version # post.at
  /\ submitting' = FALSE /\ post' = None
  /\ UNCHANGED <<table, reads, shown, dialog, told, opens, saved>>

(* A refusal or a lost answer: the dialog stays, with what was typed.        *)
Failed ==
  /\ \/ Posted("refused")
     \/ post # None /\ post.step \in {"sent", "saved"} /\ post.again
  /\ submitting' = FALSE /\ post' = None
  /\ UNCHANGED <<table, reads, shown, dialog, told, opens, saved>>

Next ==
  \/ ListAlone \/ Leave
  \/ \E r \in requests : ReadRows(r) \/ Answer(r) \/ Fail(r)
  \/ openAddModal \/ \E r \in Records : editReservation(r)
  \/ closeModal \/ Submit \/ Serve \/ Repeat \/ Succeed \/ Loaded \/ Failed

Spec == Init /\ [][Next]_vars

(* The browser settles the requests of the list and of the dialog.           *)
FairSpec ==
  /\ Spec
  /\ WF_vars(\E r \in requests : ReadRows(r) \/ Answer(r) \/ Fail(r))
  /\ WF_vars(Serve \/ Succeed \/ Loaded \/ Failed)

-----------------------------------------------------------------------------
TypeOK ==
  /\ dialog \in Targets \cup {None}
  /\ submitting <=> post # None
  /\ saved \in 0 .. MaxSaves /\ told \in 0 .. saved /\ shown \in 0 .. saved
  /\ DOMAIN reads \subseteq 1 .. version

(* A save the user was told of is in the list that rests on the screen,      *)
(* whatever loads were under way and however their answers were ordered.     *)
ShowsWhatWasSaved == mount = "mounted" /\ ~loading /\ ~error => shown >= told

(* The dialog on the screen stays the one whose record is being saved, so    *)
(* that a success closes no other and a failure still has its text.          *)
SavesWhatIsOpen ==
  mount = "mounted" /\ post # None /\ post.step # "loading" => dialog = post.target

(* A dialog can always be used again.                                        *)
SubmissionEnds == submitting ~> ~submitting
=============================================================================
