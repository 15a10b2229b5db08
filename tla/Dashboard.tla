------------------------------ MODULE Dashboard ------------------------------
(* The page /dashboard: five loads are started together and awaited together  *)
(* (Promise.allSettled).  Four of them fill stores that outlive the page, so  *)
(* that the answers of an earlier visit may still arrive; the fifth, the      *)
(* pending departures, belongs to the visit.                                  *)
EXTENDS Integers, FiniteSets

CONSTANTS
  None,
  Shared,       \* the parts kept in stores: rooms, reservations, upcoming, payments
  Own,          \* the part kept in the page
  MaxLoads,     \* bound on the loads begun
  MaxNow        \* bound on the changes of the hotel

PartsAssumption == Own \notin Shared
NoneAssumption == None \notin Nat

VARIABLES
  mount,        \* "open" or "away"
  isLoading, hasLoadError,
  waiting,      \* the parts of the latest load that have not settled
  rejected,     \* one of them was rejected
  requests,     \* loads of parts under way, of every visit
  store,        \* what each part shows: the time it was read at, or None
  now,          \* the server: how often the hotel has changed
  begun,        \* history: the time the latest load was begun
  alone,        \* history: nothing was under way when it was begun
  loads         \* loads begun

vars == <<mount, isLoading, hasLoadError, waiting, rejected, requests, store, now,
          begun, alone, loads>>

Parts == Shared \cup {Own}

Ask(n) == [part : Parts, load : {n}, read : {None}]

Init ==
  /\ mount = "open" /\ isLoading = TRUE /\ hasLoadError = FALSE
  /\ waiting = Parts /\ rejected = FALSE /\ requests = Ask(1)
  /\ store = [p \in Parts |-> None]
  /\ now = 0 /\ begun = 0 /\ alone = TRUE /\ loads = 1

-----------------------------------------------------------------------------
loadDashboard ==
  /\ loads < MaxLoads /\ loads' = loads + 1
  /\ isLoading' = TRUE /\ hasLoadError' = FALSE
  /\ waiting' = Parts /\ rejected' = FALSE
  /\ requests' = requests \cup Ask(loads')
  /\ begun' = now /\ alone' = (requests = {})

Open ==
  /\ mount = "away" /\ mount' = "open"
  /\ loadDashboard
  /\ store' = [store EXCEPT ![Own] = None]
  /\ UNCHANGED now

(* Volver a intentar, beside the error.                                      *)
Retry ==
  /\ mount = "open" /\ hasLoadError
  /\ loadDashboard
  /\ UNCHANGED <<mount, store, now>>

(* The requests of the page go on without it.                                *)
Leave ==
  /\ mount = "open" /\ mount' = "away"
  /\ UNCHANGED <<isLoading, hasLoadError, waiting, rejected, requests, store, now,
                 begun, alone, loads>>

Hotel ==
  /\ now < MaxNow /\ now' = now + 1
  /\ UNCHANGED <<mount, isLoading, hasLoadError, waiting, rejected, requests, store,
                 begun, alone, loads>>

(* The server reads the part.                                                *)
Serve(r) ==
  /\ r.read = None
  /\ requests' = (requests \ {r}) \cup {[r EXCEPT !.read = now]}
  /\ UNCHANGED <<mount, isLoading, hasLoadError, waiting, rejected, store, now,
                 begun, alone, loads>>

Settled(r) ==
  /\ requests' = requests \ {r}
  /\ waiting' = IF r.load = loads THEN waiting \ {r.part} ELSE waiting

(* The stores take every answer; the page's own part takes its own.          *)
Answer(r) ==
  /\ r.read # None /\ Settled(r)
  /\ store' = IF r.part \in Shared \/ r.load = loads
              THEN [store EXCEPT ![r.part] = r.read] ELSE store
  /\ UNCHANGED <<mount, isLoading, hasLoadError, rejected, now, begun, alone, loads>>

(* The stores and the composables rethrow.                                   *)
Rejects(r) == rejected \/ r.load = loads

Fail(r) ==
  /\ Settled(r) /\ rejected' = Rejects(r)
  /\ UNCHANGED <<mount, isLoading, hasLoadError, store, now, begun, alone, loads>>

AllSettled ==
  /\ isLoading /\ waiting = {}
  /\ hasLoadError' = rejected /\ isLoading' = FALSE
  /\ UNCHANGED <<mount, waiting, rejected, requests, store, now, begun, alone, loads>>

(* The cards and lists are there once the load is over, whatever failed of *)
(* it; the error stands above them.                                        *)
Figure(p) == IF isLoading THEN None ELSE store[p]

Next ==
  \/ Open \/ Retry \/ Leave \/ Hotel \/ AllSettled
  \/ \E r \in requests : Serve(r) \/ Answer(r) \/ Fail(r)

Spec == Init /\ [][Next]_vars

(* The browser settles every request.                                        *)
FairSpec ==
  /\ Spec
  /\ WF_vars(AllSettled) /\ WF_vars(\E r \in requests : Serve(r) \/ Answer(r) \/ Fail(r))

-----------------------------------------------------------------------------
TypeOK ==
  /\ store \in [Parts -> 0 .. now \cup {None}]
  /\ waiting = {r.part : r \in {q \in requests : q.load = loads}}
  /\ hasLoadError => ~isLoading

(* Without a spinner and an error every figure is there, and none is older   *)
(* than this load, unless answers of an earlier visit were still on their    *)
(* way when it was begun.                                                    *)
FiguresOfThisVisit == mount = "open" /\ ~isLoading /\ ~hasLoadError =>
  \A p \in Parts : Figure(p) # None /\ (alone => Figure(p) >= begun)

(* The spinner ends.                                                         *)
LoadEnds == isLoading ~> ~isLoading
=============================================================================
