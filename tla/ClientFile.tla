----------------------------- MODULE ClientFile ------------------------------
(* The file of a guest (/clients/[id]), the page that registers one          *)
(* (/clients/create), the clients store and the endpoints behind them.  The  *)
(* page shows the store's currentClient, its dialog edits a copy of it, and  *)
(* both its changes go to the guest of the route.  The form, its guard       *)
(* against losing what was typed and the dialogs are those of FClientForm,   *)
(* useUnsavedChanges, MClientModal and MConfirmModal.  The update the form   *)
(* sends names the document, which the endpoint's schema does not know.  The *)
(* page of a guest also collects the reservations of this guest, page after  *)
(* page of the server's list, while reservations are made and moved.         *)
EXTENDS Integers, Sequences, SequencesExt, FiniteSetsExt

CONSTANTS
  Guests,
  Drafts,     \* contents a user may type into the form
  New,        \* the page of a new guest, whose document is always the same
  None,
  MaxVisits,  \* bound on changes of the page
  MaxTypes,   \* bound on changes of the form
  MaxCalls,   \* bound on requests that change something
  MaxOthers,  \* bound on changes made by other people
  Days,       \* days of arrival of reservations
  Prices,     \* their prices
  PageSize,   \* reservations of a page of the server, 100 in the code
  Lines,      \* reservations of a page of the table, 10 in the code
  MaxBooked   \* bound on reservations; with 0 no page collects any

Answers == {"ok", "conflict", "invalid", "found", "missing"}

NoneAssumption ==
  /\ New \notin Guests /\ None \notin Guests \cup Drafts \cup {New} \cup Answers
  /\ Guests \cap Drafts = {}

BoundAssumption == MaxCalls \in Nat

PageSizeAssumption == PageSize \in Nat \ {0} /\ Lines \in Nat \ {0}

VARIABLES
  page,       \* the guest in the route, New, or None on any other page
  visit,      \* the number of the page opened last
  current,    \* currentClient of the store
  form,       \* what the form holds: a guest's data, a draft, or None (blank)
  baseline,   \* the form as it was last loaded or saved
  editing,    \* isEditModalOpen; TRUE on the page of a new guest
  asking,     \* isDeleteModalOpen
  saving,     \* isSubmitting (loading of the new guest) of the page opened last
  deleting,   \* isDeleting of the page opened last
  reads,      \* GET requests not handled yet
  calls,      \* POST, PUT and DELETE requests not handled yet
  file,       \* the server: the data of each guest, None when inactive
  registered, \* the server: an active guest has the new document
  made,       \* history: how often each call changed the server
  told,       \* history: calls told as successes
  confirmed,  \* history: how often the user agreed to lose changes
  typed, last, others,
  bookings,   \* the server: each reservation, by id
  trail,      \* the reservations this page has collected so far, or None
  history,    \* reservationHistory, by id
  historyPage, historyError,
  past,       \* history: the reservations of the guest when the page was opened
  moved       \* history: those moved to other days since

tab == <<page, visit, current, form, baseline, editing, asking, saving, deleting>>
server == <<file, registered>>
shown == <<trail, history, historyPage, historyError, past, moved>>
story == <<bookings, shown>>
vars == <<tab, reads, calls, server, made, told, confirmed, typed, last, others, story>>

Pages == Guests \cup {New, None}
Call == 1 .. MaxCalls
Booking == [guest : Guests, day : Days, price : Prices]

Init ==
  /\ page = None /\ visit = 0 /\ current = None /\ form = None /\ baseline = None
  /\ editing = FALSE /\ asking = FALSE /\ saving = FALSE /\ deleting = FALSE
  /\ reads = {} /\ calls = {}
  /\ file = [g \in Guests |-> g] /\ registered = FALSE
  /\ made = [n \in Call |-> 0] /\ told = {}
  /\ confirmed = 0 /\ typed = 0 /\ last = 0 /\ others = 0
  /\ \E n \in 0 .. MaxBooked : bookings \in [1 .. n -> Booking]
  /\ trail = None /\ history = <<>> /\ historyPage = 1 /\ historyError = FALSE
  /\ past = {} /\ moved = {}

-----------------------------------------------------------------------------
(* The form and its guard (useUnsavedChanges).                             *)

Dirty == form # baseline

(* Mutant: nobody is asked. *)
DiscardUnasked == UNCHANGED confirmed

(* requestDiscard: never while saving; with changes, if the user agrees.   *)
Discard == ~saving /\ confirmed' = confirmed + IF Dirty THEN 1 ELSE 0

(* onBeforeRouteLeave: without changes the page may be left at any time.   *)
Leave == IF Dirty THEN Discard ELSE UNCHANGED confirmed

(* What a guest's page shows of the store, and gives to its form.          *)
Displayed(p, r) == IF p \in Guests /\ r # None THEN r.data ELSE None

(* The form's watcher: every new record is copied over what is there.      *)
Load(d) == form' = d /\ baseline' = d

Type(d) ==
  /\ editing /\ typed < MaxTypes /\ typed' = typed + 1
  /\ d # form /\ form' = d
  /\ UNCHANGED <<page, visit, current, baseline, editing, asking, saving, deleting, reads, calls,
                 server, made, told, confirmed, last, others, story>>

-----------------------------------------------------------------------------
(* The reservations of the guest.                                          *)

OfGuest(g) == {i \in DOMAIN bookings : bookings[i].guest = g}

(* ORDER BY r.check_in DESC, r.id DESC                                      *)
Before(i, j) == bookings[i].day > bookings[j].day \/ (bookings[i].day = bookings[j].day /\ i > j)

(* One page of GET /reservations?clientId, whatever became of the guest.   *)
PageOf(g, p) ==
  LET all == SetToSortSeq(OfGuest(g), Before)
  IN  SubSeq(all, (p - 1) * PageSize + 1, Min({p * PageSize, Len(all)}))

TotalPages(g) == (Cardinality(OfGuest(g)) + PageSize - 1) \div PageSize

Start == IF MaxBooked = 0 THEN None ELSE [page |-> 1, pages |-> 1, rows |-> <<>>]

(* The page that asked for this guest is still the one that is shown.      *)
Shown(r) == r.visit = visit /\ page \in Guests

-----------------------------------------------------------------------------
(* Pages and dialogs.                                                      *)

Mount(p) ==
  /\ page' = p /\ Load(Displayed(p, current'))
  /\ editing' = (p = New) /\ asking' = FALSE /\ saving' = FALSE /\ deleting' = FALSE
  /\ trail' = None /\ history' = <<>> /\ historyPage' = 1 /\ historyError' = FALSE

Open(p) ==
  /\ visit < MaxVisits /\ visit' = visit + 1
  /\ p # page /\ Leave
  /\ UNCHANGED <<current, calls, server, made, told, typed, last, others, bookings>>
  /\ Mount(p)
  /\ past' = OfGuest(p) /\ moved' = {}
  /\ reads' = IF p \in Guests
              THEN reads \cup {[visit |-> visit + 1, id |-> p, answer |-> None]} ELSE reads

Edit ==
  /\ page \in Guests /\ ~editing /\ ~asking /\ editing' = TRUE
  /\ UNCHANGED <<page, visit, current, form, baseline, asking, saving, deleting, reads, calls,
                 server, made, told, confirmed, typed, last, others, story>>

(* Cancelar and the cross of the dialog, which both ask.  What the form     *)
(* holds stays there: Cancelar takes it for saved, the cross does not.     *)
Close ==
  /\ page \in Guests /\ editing /\ editing' = FALSE
  /\ \/ Discard /\ baseline' = form
     \/ ~saving /\ UNCHANGED <<baseline, confirmed>>
  /\ UNCHANGED <<page, visit, current, form, asking, saving, deleting, reads, calls, server,
                 made, told, typed, last, others, story>>

(* Eliminar, and Cancelar in the question it asks, even while deleting.    *)
Ask ==
  /\ page \in Guests /\ ~editing /\ asking' = ~asking
  /\ UNCHANGED <<page, visit, current, form, baseline, editing, saving, deleting, reads, calls,
                 server, made, told, confirmed, typed, last, others, story>>

-----------------------------------------------------------------------------
(* GET /clients/:id, of an active guest; the store takes every answer.     *)

ServeRead(r) ==
  /\ r \in reads /\ r.answer = None /\ file[r.id] # None
  /\ reads' = (reads \ {r}) \cup {[r EXCEPT !.answer = file[r.id]]}
  /\ UNCHANGED <<tab, calls, server, made, told, confirmed, typed, last, others, story>>

Read(r) ==
  /\ r \in reads /\ r.answer # None /\ reads' = reads \ {r}
  /\ current' = [id |-> r.id, data |-> r.answer]
  /\ IF page \in Guests THEN Load(r.answer) ELSE UNCHANGED <<form, baseline>>
  /\ trail' = IF Shown(r) THEN Start ELSE trail
  /\ UNCHANGED <<page, visit, editing, asking, saving, deleting, calls, server, made, told,
                 confirmed, typed, last, others, bookings, history, historyPage,
                 historyError, past, moved>>

ReadFails(r) ==
  /\ r \in reads /\ reads' = reads \ {r}
  /\ historyError' = (historyError \/ Shown(r))
  /\ UNCHANGED <<tab, calls, server, made, told, confirmed, typed, last, others, bookings, trail, history,
                 historyPage, past, moved>>

-----------------------------------------------------------------------------
(* The changes and their handlers.                                         *)

Request(op) ==
  /\ last < MaxCalls /\ last' = last + 1
  /\ calls' = calls \cup {[n |-> last + 1, op |-> op, id |-> page, visit |-> visit,
                           left |-> 1, answer |-> None]}
  /\ UNCHANGED <<page, visit, current, form, baseline, editing, asking, reads, server,
                 made, told, confirmed, typed, others, story>>

(* A blank form does not pass its own validation.                          *)
Save ==
  /\ editing /\ form # None /\ ~saving
  /\ saving' = TRUE /\ UNCHANGED deleting
  /\ Request(IF page = New THEN "create" ELSE "update")

Delete ==
  /\ asking /\ ~deleting
  /\ deleting' = TRUE /\ UNCHANGED saving
  /\ Request("delete")

Here(c) == page # None /\ c.visit = visit

With(c, a) == calls' = (calls \ {c}) \cup {[c EXCEPT !.answer = a]}

Changed(c) == With(c, "ok") /\ made' = [made EXCEPT ![c.n] = @ + 1]

(* An active guest has the document, or the unique index refuses it.       *)
Taken(c) == registered

(* POST /clients                                                           *)
Create(c) ==
  /\ c.op = "create" /\ c.answer = None
  /\ IF Taken(c) THEN With(c, "conflict") /\ UNCHANGED made ELSE Changed(c)
  /\ registered' = TRUE /\ UNCHANGED file

(* PUT /clients/:id: the document in it is not allowed.                    *)
Update(c) ==
  /\ c.op = "update" /\ c.answer = None
  /\ With(c, "invalid") /\ UNCHANGED <<server, made>>

(* DELETE /clients/:id looks for the active guest ...                      *)
Look(c) ==
  /\ c.op = "delete" /\ c.answer = None
  /\ With(c, IF file[c.id] # None THEN "found" ELSE "missing")
  /\ UNCHANGED <<server, made>>

(* ... and then makes it inactive.                                         *)
Deactivate(c) ==
  /\ c.op = "delete" /\ c.answer = "found" /\ Changed(c)
  /\ file' = [file EXCEPT ![c.id] = None] /\ UNCHANGED registered

Serve(c) ==
  /\ c \in calls
  /\ Create(c) \/ Update(c) \/ Look(c) \/ Deactivate(c)
  /\ UNCHANGED <<tab, reads, told, confirmed, typed, last, others, story>>

(* Mutant: the spinner is not stopped on a failure. *)
ReleaseNever(c) == UNCHANGED <<saving, deleting, asking>>

(* The finally of a handler, which belongs to its own page.                *)
Release(c) ==
  /\ saving' = (saving /\ (Here(c) => c.op = "delete"))
  /\ deleting' = (deleting /\ (Here(c) => c.op # "delete"))
  /\ asking' = (asking /\ (Here(c) => c.op # "delete"))

(* uiStore.success: the user is told that it is done.                       *)
Tell(c) == told' = told \cup {c.n}

(* A success goes to the list of guests, from wherever the user is by then *)
(* and past that page's guard: a new guest's own form has been marked as   *)
(* saved, and a form loses its record with the one deleted.                *)
Succeed(c) ==
  /\ c \in calls /\ c.answer = "ok" /\ calls' = calls \ {c}
  /\ Tell(c)
  /\ LET drops == c.op = "delete" /\ current # None /\ current.id = c.id
         clean == (drops /\ page \in Guests) \/ (c.op = "create" /\ Here(c))
     IN  /\ current' = IF drops THEN None ELSE current
         /\ \/ /\ IF clean THEN UNCHANGED confirmed ELSE Leave
               /\ Mount(None) /\ past' = {} /\ moved' = {}
            \/ /\ Dirty /\ ~clean /\ Release(c)
               /\ UNCHANGED <<page, form, baseline, editing, confirmed, shown>>
  /\ UNCHANGED <<visit, reads, server, made, typed, last, others, bookings>>

Again == {None, "ok", "conflict"}

(* A lost request, a lost answer or a conflict: once more, then told; not  *)
(* found and not valid are told at once.                                   *)
Fail(c) ==
  /\ c \in calls /\ c.answer # "found"
  /\ IF c.answer \in Again /\ c.left > 0
     THEN /\ calls' = (calls \ {c}) \cup {[c EXCEPT !.left = @ - 1, !.answer = None]}
          /\ UNCHANGED <<saving, deleting, asking>>
     ELSE calls' = calls \ {c} /\ Release(c)
  /\ UNCHANGED <<page, visit, current, form, baseline, editing, reads, server, made, told,
                 confirmed, typed, last, others, story>>

(* Colleagues register the same guest, edit a file or delete it.           *)
OthersChange(g, d) ==
  /\ others < MaxOthers /\ others' = others + 1
  /\ \/ registered' = TRUE /\ UNCHANGED file
     \/ file[g] # None /\ file' = [file EXCEPT ![g] = d] /\ UNCHANGED registered
  /\ UNCHANGED <<tab, reads, calls, made, told, confirmed, typed, last, story>>

-----------------------------------------------------------------------------
(* The page collects the reservations when it has the guest.               *)

(* do { ... } while: the number of pages is that of the latest answer.     *)
ReadPage ==
  /\ trail # None /\ trail.page <= trail.pages
  /\ trail' = [page |-> trail.page + 1, pages |-> TotalPages(page),
               rows |-> trail.rows \o PageOf(page, trail.page)]
  /\ UNCHANGED <<tab, reads, calls, server, made, told, confirmed, typed, last, others,
                 bookings, history, historyPage, historyError, past, moved>>

ShowHistory ==
  /\ trail # None /\ trail.page > trail.pages
  /\ history' = trail.rows /\ trail' = None
  /\ UNCHANGED <<tab, reads, calls, server, made, told, confirmed, typed, last, others,
                 bookings, historyPage, historyError, past, moved>>

(* One page could not be had: the others are not shown either.             *)
HistoryFails ==
  /\ trail # None /\ trail' = None /\ historyError' = TRUE
  /\ UNCHANGED <<tab, reads, calls, server, made, told, confirmed, typed, last, others,
                 bookings, history, historyPage, past, moved>>

(* historyPagination, visibleHistory and totalSpent                        *)
HistoryPages == (Len(history) + Lines - 1) \div Lines
Visible(p) == SubSeq(history, (p - 1) * Lines + 1, Min({p * Lines, Len(history)}))
Spent == MapThenSumSet(LAMBDA k : bookings[history[k]].price, DOMAIN history)

(* Anterior, Siguiente                                                     *)
Turn(p) ==
  /\ p \in {historyPage - 1, historyPage + 1} \cap (1 .. HistoryPages)
  /\ historyPage' = p
  /\ UNCHANGED <<tab, reads, calls, server, made, told, confirmed, typed, last, others,
                 bookings, trail, history, historyError, past, moved>>

(* A reservation is made, or moved to another day.                         *)
Book(b) ==
  /\ Len(bookings) < MaxBooked /\ bookings' = Append(bookings, b)
  /\ UNCHANGED <<tab, reads, calls, server, made, told, confirmed, typed, last, others, shown>>

Move(i, d) ==
  /\ others < MaxOthers /\ others' = others + 1
  /\ d # bookings[i].day /\ bookings' = [bookings EXCEPT ![i].day = d]
  /\ moved' = moved \cup {i}
  /\ UNCHANGED <<tab, reads, calls, server, made, told, confirmed, typed, last,
                 trail, history, historyPage, historyError, past>>

Next ==
  \/ \E p \in Pages : Open(p)
  \/ Edit \/ Close \/ Ask \/ Save \/ Delete
  \/ \E d \in Drafts : Type(d)
  \/ \E r \in reads : ServeRead(r) \/ Read(r) \/ ReadFails(r)
  \/ \E c \in calls : Serve(c) \/ Succeed(c) \/ Fail(c)
  \/ \E g \in Guests, d \in Drafts \cup {None} : OthersChange(g, d)
  \/ ReadPage \/ ShowHistory \/ HistoryFails
  \/ \E p \in 1 .. MaxBooked : Turn(p)
  \/ \E r \in Booking : Book(r)
  \/ \E d \in Days : \E i \in DOMAIN bookings : Move(i, d)

Spec == Init /\ [][Next]_vars

-----------------------------------------------------------------------------
(* The spinner runs only while a request of this page is under way, and    *)
(* what was typed on another page is gone.                                 *)
TypeOK ==
  /\ page \in Pages
  /\ form \in Guests \cup Drafts \cup {None} /\ baseline \in Guests \cup Drafts \cup {None}
  /\ saving <=> \E c \in calls : Here(c) /\ c.op # "delete"
  /\ deleting <=> \E c \in calls : Here(c) /\ c.op = "delete"
  /\ Dirty => page # None

(* A guest is told to be registered or deleted only when this very call    *)
(* did it, and it does it once although it may be sent twice.              *)
ToldIsDone == \A n \in Call : made[n] <= 1 /\ (n \in told => made[n] = 1)

(* What was typed goes only when the user agrees or types it back, when it *)
(* is saved, or when the page's record is replaced under the form.         *)
DraftsKept ==
  Dirty /\ ~Dirty' =>
    \/ confirmed' > confirmed \/ typed' > typed
    \/ page = New /\ told' # told
    \/ page \in Guests /\ (reads' # reads \/ current' # current)

(* The reservations shown are all of the guest of the page, and leave out   *)
(* none that there was when the page was opened, although they come page    *)
(* after page while others are made and the user goes on: or else the page  *)
(* tells that it is not complete.  One that is moved meanwhile can make     *)
(* another one be skipped.  What the guest spent is the price of them all,  *)
(* if there are no others by now.                                           *)
Collected == page \in Guests /\ trail = None /\ ~historyError /\ ~\E r \in reads : Shown(r)

HistoryWhole ==
  /\ ToSet(history) \subseteq OfGuest(page)
  /\ Collected /\ moved = {} =>
       \A i \in past : \E p \in 1 .. HistoryPages : i \in ToSet(Visible(p))
  /\ Collected /\ moved = {} /\ past = OfGuest(page) =>
       Spent = MapThenSumSet(LAMBDA i : bookings[i].price, past)

(* The spinners end.                                                       *)
SpinnersEnd == (saving ~> ~saving) /\ (deleting ~> ~deleting)
=============================================================================
