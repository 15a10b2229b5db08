------------------------------- MODULE Reports -------------------------------
(* The payments report (/reports): the list of payments of the server, read  *)
(* by one transaction that counts and then selects; the screen, which asks   *)
(* three questions at once - that list, the income by day and the income by  *)
(* method - and shows them together; and the export, which walks through     *)
(* every page while payments are recorded and changed.  Every amount is one, *)
(* so that an income is a number of payments, and all are of one day.        *)
EXTENDS Integers, Sequences, FiniteSets, SequencesExt

CONSTANTS
  Methods,      \* methods of payment
  All,          \* the filter that selects every method
  Invalid,      \* a period that ends before it begins
  None,
  PageSize,
  MaxPayments,  \* bound on the payments of the period
  MaxEvents     \* bound on changes of payments and of the controls

PageSizeAssumption == PageSize \in Nat \ {0}

VARIABLES
  payments,     \* the server: method and completed, in the order of the ids
  queries,      \* list transactions and other reads in progress or answered
  filter, page, shown, loading, error, version,   \* the screen
  export,       \* the export: is one in progress, and what it has so far
  file,         \* the last file, and the ids there were when it was begun
  events

screen == <<filter, page, shown, loading, error, version>>
vars == <<payments, queries, screen, export, file, events>>

Selections == Methods \cup {All, Invalid}
NoExport == [exporting |-> FALSE, filter |-> All, current |-> 1, data |-> <<>>, had |-> {}]

Init ==
  /\ payments \in [1 .. PageSize -> [method : Methods, completed : BOOLEAN]]
  /\ queries = {}
  /\ filter = All /\ page = 1 /\ shown = None
  /\ loading = TRUE /\ error = FALSE /\ version = 0
  /\ export = NoExport /\ file = None /\ events = 0

Event == events < MaxEvents /\ events' = events + 1

-----------------------------------------------------------------------------
(* The server.                                                             *)

(* WHERE and ORDER BY created_at DESC, id DESC.                            *)
Matching(ps, f) ==
  LET ids == {i \in DOMAIN ps : f = All \/ ps[i].method = f}
  IN  SetToSortSeq(ids, LAMBDA a, b : a > b)

(* LIMIT and OFFSET.                                                       *)
PageOf(s, p) == SubSeq(s, (p - 1) * PageSize + 1,
                       IF p * PageSize < Len(s) THEN p * PageSize ELSE Len(s))

PagesOf(total) == (total + PageSize - 1) \div PageSize

(* status = 'completed' *)
Completed(ps, f) == {i \in DOMAIN ps : ps[i].completed /\ (f = All \/ ps[i].method = f)}

(* The first query of the transaction takes the snapshot: the totals, how  *)
(* many payments match and the income of those that are completed.         *)
Count(q) ==
  /\ q \in queries /\ q.step = "asked"
  /\ queries' = (queries \ {q}) \cup
       {[q EXCEPT !.step = "counted", !.snapshot = payments,
                  !.total = Len(Matching(payments, q.filter)),
                  !.completed = Cardinality(Completed(payments, q.filter))]}
  /\ UNCHANGED <<payments, screen, export, file, events>>

(* Mutant: READ COMMITTED, where each query sees what is committed by then. *)
SnapshotNow(q) == payments

Snapshot(q) == q.snapshot

(* The second query, in the same snapshot.                                 *)
Select(q) ==
  /\ q \in queries /\ q.step = "counted"
  /\ queries' = (queries \ {q}) \cup
       {[q EXCEPT !.step = "answered", !.snapshot = <<>>,
                  !.rows = PageOf(Matching(Snapshot(q), q.filter), q.page)]}
  /\ UNCHANGED <<payments, screen, export, file, events>>

(* GROUP BY DATE(p.created_at), a statement of its own.                     *)
ReadPeriod(q) ==
  /\ q \in queries /\ q.who = "screen" /\ q.daily = None
  /\ queries' = (queries \ {q}) \cup
       {[q EXCEPT !.daily = Cardinality(Completed(payments, q.filter))]}
  /\ UNCHANGED <<payments, screen, export, file, events>>

(* GROUP BY method, one more: a method without a completed payment has no  *)
(* row.                                                                    *)
ReadMethods(q) ==
  LET done == Completed(payments, q.filter)
      found == {payments[i].method : i \in done}
  IN  /\ q \in queries /\ q.who = "screen" /\ q.methods = None
      /\ queries' = (queries \ {q}) \cup
           {[q EXCEPT !.methods = [m \in found |->
               Cardinality({i \in done : payments[i].method = m})]]}
      /\ UNCHANGED <<payments, screen, export, file, events>>

(* History: the payments have changed while a load was on its way.         *)
Disturbed == {[q EXCEPT !.still = FALSE] : q \in queries}

Record(m) ==
  /\ Event
  /\ Len(payments) < MaxPayments
  /\ payments' = Append(payments, [method |-> m, completed |-> FALSE])
  /\ queries' = Disturbed
  /\ UNCHANGED <<screen, export, file>>

Complete(i) ==
  /\ Event
  /\ ~payments[i].completed
  /\ payments' = [payments EXCEPT ![i].completed = TRUE]
  /\ queries' = Disturbed
  /\ UNCHANGED <<screen, export, file>>

(* PUT /payments/:id may change the method of a pending payment.           *)
EditMethod(i, m) ==
  /\ Event
  /\ ~payments[i].completed /\ payments[i].method # m
  /\ payments' = [payments EXCEPT ![i].method = m]
  /\ queries' = Disturbed
  /\ UNCHANGED <<screen, export, file>>

Asking(who, v, f, p) ==
  [who |-> who, version |-> v, filter |-> f, page |-> p, step |-> "asked",
   snapshot |-> <<>>, total |-> 0, completed |-> 0, rows |-> <<>>,
   daily |-> None, methods |-> None, still |-> who = "screen"]

-----------------------------------------------------------------------------
(* The screen.                                                             *)

(* loadReport(): a period the wrong way round asks for nothing, and the    *)
(* answers that are still on their way are of an older version.            *)
Load(f, p) ==
  /\ version' = version + 1
  /\ filter' = f /\ page' = p
  /\ loading' = (f # Invalid)
  /\ error' = (f = Invalid)
  /\ queries' = IF f = Invalid THEN queries
                ELSE queries \cup {Asking("screen", version + 1, f, p)}

Mount ==
  /\ version = 0
  /\ Load(filter, page)
  /\ UNCHANGED <<payments, shown, export, file, events>>

(* The watchers: another period or method begins at page 1 again.          *)
SetFilter(f) ==
  /\ version > 0 /\ Event
  /\ f # filter
  /\ Load(f, 1)
  /\ UNCHANGED <<payments, shown, export, file>>

(* The pager goes by the answer that is shown, and is there beside an      *)
(* error too; the page that could not be loaded is then not asked for      *)
(* again, since nothing changes.                                           *)
SetPage(p) ==
  /\ Event
  /\ ~loading /\ shown # None /\ shown.total > 0
  /\ p \in {shown.page - 1, shown.page + 1} \cap (1 .. PagesOf(shown.total))
  /\ p # page
  /\ Load(filter, p)
  /\ UNCHANGED <<payments, shown, export, file>>

(* Reintentar, beside the error.                                           *)
Retry ==
  /\ Event
  /\ error /\ version > 0
  /\ Load(filter, page)
  /\ UNCHANGED <<payments, shown, export, file>>

(* if(version!==reportVersion)return *)
Current(q) == q.version = version

(* Promise.all: all three have answered.                                   *)
Answered(q) == q.step = "answered" /\ q.daily # None /\ q.methods # None

(* What the cards, the columns and the table are made of.                  *)
Report(q) ==
  [filter |-> q.filter, page |-> q.page, total |-> q.total, rows |-> q.rows,
   completed |-> q.completed, daily |-> q.daily, methods |-> q.methods, still |-> q.still]

Show(q) ==
  /\ q \in queries /\ q.who = "screen" /\ Answered(q)
  /\ queries' = queries \ {q}
  /\ IF Current(q)
     THEN /\ shown' = Report(q)
          /\ loading' = FALSE
     ELSE UNCHANGED <<shown, loading>>
  /\ UNCHANGED <<payments, filter, page, error, version, export, file, events>>

(* One of the three requests of a load fails, and with it the load.        *)
FailToLoad(q) ==
  /\ q \in queries /\ q.who = "screen"
  /\ queries' = queries \ {q}
  /\ error' = (error \/ Current(q))
  /\ loading' = (loading /\ ~Current(q))
  /\ UNCHANGED <<payments, filter, page, shown, version, export, file, events>>

-----------------------------------------------------------------------------
(* The export.                                                             *)

(* The button waits for a report that is shown and has rows.               *)
BeginExport ==
  /\ Event
  /\ ~export.exporting /\ ~loading /\ ~error /\ shown # None /\ shown.total > 0
  /\ export' = [exporting |-> TRUE, filter |-> filter, current |-> 1, data |-> <<>>,
                had |-> DOMAIN payments]
  /\ queries' = queries \cup {Asking("export", 0, filter, 1)}
  /\ UNCHANGED <<payments, screen, file>>

More(p, pages) == p <= pages

(* do { ... } while (current <= totalPages), with the pages of the answer. *)
Collect(q) ==
  LET next == export.current + 1
      data == export.data \o q.rows
  IN  /\ q \in queries /\ q.who = "export" /\ q.step = "answered"
      /\ IF More(next, PagesOf(q.total))
         THEN /\ export' = [export EXCEPT !.current = next, !.data = data]
              /\ queries' = (queries \ {q}) \cup {Asking("export", 0, export.filter, next)}
              /\ UNCHANGED file
         ELSE /\ file' = [filter |-> export.filter, rows |-> data, had |-> export.had]
              /\ export' = NoExport
              /\ queries' = queries \ {q}
      /\ UNCHANGED <<payments, screen, events>>

FailToExport(q) ==
  /\ q \in queries /\ q.who = "export"
  /\ queries' = queries \ {q}
  /\ export' = NoExport
  /\ error' = TRUE
  /\ UNCHANGED <<payments, filter, page, shown, loading, version, file, events>>

Next ==
  \/ Mount \/ Retry \/ BeginExport
  \/ \E f \in Selections : SetFilter(f)
  \/ \E p \in 1 .. PagesOf(MaxPayments) : SetPage(p)
  \/ \E q \in queries : \/ Count(q) \/ Select(q) \/ ReadPeriod(q) \/ ReadMethods(q)
                        \/ Show(q) \/ FailToLoad(q)
                        \/ Collect(q) \/ FailToExport(q)
  \/ \E m \in Methods : Record(m)
  \/ \E i \in DOMAIN payments : Complete(i) \/ \E m \in Methods : EditMethod(i, m)

Spec == Init /\ [][Next]_vars

-----------------------------------------------------------------------------
(* The spinner runs only while the answer of the present load is awaited,  *)
(* and exactly one page is on its way while there is an export.            *)
TypeOK ==
  /\ filter \in Selections /\ page \in Nat \ {0}
  /\ \A q \in queries : q.version <= version
  /\ version > 0 /\ loading => \E q \in queries : q.who = "screen" /\ q.version = version
  /\ export.exporting <=> \E q \in queries : q.who = "export"
  /\ \A q, r \in queries : q.who = "export" /\ r.who = "export" => q = r

(* What rests on the screen without an error is the report of the period,  *)
(* method and page the controls show.                                      *)
ShowsWhatIsAsked ==
  version > 0 /\ ~loading /\ ~error => shown.filter = filter /\ shown.page = page

(* The rows of an answer are as many as its total says the page has: the   *)
(* summary counts the rows that are listed, however payments change        *)
(* between the two queries of the list.                                    *)
Coherent ==
  \A q \in queries : q.step = "answered" =>
    LET left == q.total - (q.page - 1) * PageSize
    IN  Len(q.rows) = IF left < 0 THEN 0 ELSE IF left > PageSize THEN PageSize ELSE left

(* The three answers are of three moments, but where no payment was        *)
(* recorded or changed meanwhile the cards, the columns of the days and    *)
(* those of the methods tell the same income, whatever the filter.         *)
FiguresAgree ==
  version > 0 /\ ~loading /\ ~error /\ shown.still =>
    /\ shown.daily = shown.completed
    /\ shown.completed = MapThenSumSet(LAMBDA m : shown.methods[m], DOMAIN shown.methods)

(* docs/tablas-ux.md: an export has all pages.  Of every method it has     *)
(* every payment there was when it was begun, although its pages are read  *)
(* one after the other while new payments push the older ones down.        *)
NothingSkipped ==
  file # None /\ file.filter = All => file.had \subseteq ToSet(file.rows)
=============================================================================
