------------------------------ MODULE TableList ------------------------------
(* The paged list behind most staff pages: the composable useTableList.      *)
(* Every load carries the version it started with; a change of the filters,  *)
(* of the page or the end of the component raises the version, so that only  *)
(* the newest load may touch what is shown.  Answers come back in any order, *)
(* and the number of pages of a filter changes on the server meanwhile.      *)
(*                                                                           *)
(* A watcher's callback runs in the flush that follows the change, before    *)
(* the browser handles anything else: the change and its callback are one    *)
(* action.                                                                   *)
EXTENDS Integers

CONSTANTS
    Filters,     \* what the filters of the page can select
    MaxPages,    \* bound on the pages of a filter
    MaxEvents    \* bound on the user's changes, refreshes and server changes

PagesAssumption == MaxPages \in Nat

VARIABLES
    mount,       \* "created", "mounted" or "gone": the component
    filters, page,
    rows,        \* what is shown: the filters and page it was asked for
    totalPages, loading, error,
    version,
    timer,       \* the 250 ms debounce is running
    requests,    \* loads whose answer has not been handled
    pages,       \* the server: pages of each filter
    events

list == <<filters, page, rows, totalPages, loading, error, version, timer>>
vars == <<mount, list, requests, pages, events>>

Nothing == [filters |-> "none", page |-> 0]

AtLeastOne(n) == IF n < 1 THEN 1 ELSE n

Init ==
    /\ mount = "created"
    /\ filters \in Filters /\ page = 1
    /\ rows = Nothing /\ totalPages = 0
    /\ loading = TRUE /\ error = FALSE
    /\ version = 0 /\ timer = FALSE
    /\ requests = {}
    /\ pages \in [Filters -> 0..MaxPages]
    /\ events = 0

User == mount = "mounted" /\ events < MaxEvents /\ events' = events + 1

(* load(): a new version, the request for the filters and page of now.       *)
Load(p) ==
    /\ page' = p
    /\ version' = version + 1
    /\ loading' = TRUE /\ error' = FALSE
    /\ requests' = requests \cup
           {[version |-> version + 1, filters |-> filters, page |-> p]}

Mount ==
    /\ mount = "created" /\ mount' = "mounted"
    /\ Load(page)
    /\ UNCHANGED <<filters, rows, totalPages, timer, pages, events>>

(* A page calls load again after one of its actions.                         *)
Refresh ==
    /\ User
    /\ Load(page)
    /\ UNCHANGED <<mount, filters, rows, totalPages, timer, pages>>

(* watch(filters): the running answer is already out of date.                *)
SetFilters(f) ==
    /\ User
    /\ f # filters /\ filters' = f
    /\ version' = version + 1
    /\ loading' = TRUE
    /\ timer' = TRUE
    /\ UNCHANGED <<mount, page, rows, totalPages, error, requests, pages>>

(* The debounce: page 1 is loaded, through watch(page) when it was another.  *)
Debounced ==
    /\ timer /\ timer' = FALSE
    /\ Load(1)
    /\ UNCHANGED <<mount, filters, rows, totalPages, pages, events>>

(* The pager is disabled while loading and at either end.                    *)
SetPage(p) ==
    /\ User
    /\ ~loading /\ p # page /\ p \in 1..AtLeastOne(totalPages)
    /\ Load(p)
    /\ UNCHANGED <<mount, filters, rows, totalPages, timer, pages>>

(* Mutant: whatever arrives is shown. *)
AnyAnswer(r) == r.version <= version

(* if(current!==version)return *)
Current(r) == r.version = version

Clamped(p, last) == IF p > AtLeastOne(last) THEN AtLeastOne(last) ELSE p

(* The server answers with the pages it has now.  A page past the last one   *)
(* is replaced by the last one, which loads again.                           *)
Answer(r) ==
    /\ r \in requests
    /\ IF ~Current(r)
       THEN requests' = requests \ {r} /\ UNCHANGED list
       ELSE LET n == pages[r.filters]
                p == Clamped(page, n)
                again == {[version |-> version + 1, filters |-> filters, page |-> p]}
            IN  /\ rows' = [filters |-> r.filters, page |-> r.page]
                /\ totalPages' = n
                /\ page' = p
                /\ loading' = (p # page)
                /\ version' = IF p # page THEN version + 1 ELSE version
                /\ requests' = (requests \ {r}) \cup (IF p # page THEN again ELSE {})
                /\ UNCHANGED <<filters, error, timer>>
    /\ UNCHANGED <<mount, pages, events>>

(* Mutant: the spinner is only ended by an answer. *)
FailWithoutEnd(r) ==
    /\ r \in requests
    /\ requests' = requests \ {r}
    /\ error' = (error \/ Current(r))
    /\ UNCHANGED <<mount, filters, page, rows, totalPages, loading, version, timer, pages, events>>

Fail(r) ==
    /\ r \in requests
    /\ requests' = requests \ {r}
    /\ error' = (error \/ Current(r))
    /\ loading' = (loading /\ ~Current(r))
    /\ UNCHANGED <<mount, filters, page, rows, totalPages, version, timer, pages, events>>

Unmount ==
    /\ mount = "mounted" /\ mount' = "gone"
    /\ version' = version + 1
    /\ timer' = FALSE
    /\ UNCHANGED <<filters, page, rows, totalPages, loading, error, requests, pages, events>>

(* Rows are added and removed on the server by other people.                 *)
ServerChanges ==
    /\ events < MaxEvents /\ events' = events + 1
    /\ \E f \in Filters, n \in 0..MaxPages : n # pages[f] /\ pages' = [pages EXCEPT ![f] = n]
    /\ UNCHANGED <<mount, list, requests>>

Done == mount = "gone" /\ requests = {} /\ UNCHANGED vars

Next ==
    \/ Mount \/ Refresh \/ Debounced \/ Unmount \/ ServerChanges
    \/ \E f \in Filters : SetFilters(f)
    \/ \E p \in 1..MaxPages : SetPage(p)
    \/ \E r \in requests : Answer(r) \/ Fail(r)
    \/ Done

Spec == Init /\ [][Next]_vars

(* The framework mounts the component, the timer fires and the browser       *)
(* settles every request, with an answer or with an error.                   *)
FairSpec ==
    /\ Spec
    /\ WF_vars(Mount) /\ WF_vars(Debounced)
    /\ WF_vars(\E r \in requests : Answer(r) \/ Fail(r))

------------------------------------------------------------------------------
(* The list shows a spinner exactly while something will still change it:    *)
(* a load of the present version, the debounce or the mount.                 *)
TypeOK ==
    /\ mount \in {"created", "mounted", "gone"}
    /\ filters \in Filters /\ page \in 1..AtLeastOne(MaxPages)
    /\ version \in Nat /\ timer \in BOOLEAN
    /\ \A r \in requests : r.version <= version
    /\ mount = "mounted" =>
           (loading => timer \/ \E r \in requests : r.version = version)

(* Once the spinner is gone and no error is shown, the rows are those of the *)
(* filters and the page the controls show, however the answers were ordered. *)
ShowsWhatIsAsked ==
    mount = "mounted" /\ ~loading /\ ~error =>
        rows = [filters |-> filters, page |-> page]

(* A list whose last pages were removed never rests on a page that is not    *)
(* there any more.                                                           *)
RestsOnAPage == mount = "mounted" /\ ~loading /\ ~error => page <= AtLeastOne(totalPages)

(* A component that is gone is not written to by answers that come later.    *)
NothingAfterUnmount == mount = "gone" => UNCHANGED list

(* The spinner always ends while the component is there.                     *)
SpinnerEnds == []<>(mount = "gone" \/ ~loading)
==============================================================================
