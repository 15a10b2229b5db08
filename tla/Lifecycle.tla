----------------------------- MODULE Lifecycle -----------------------------
(***************************************************************************)
(* The life of an API process: server.js, utils/periodicWorker.js and      *)
(* utils/shutdown.js.                                                      *)
(*                                                                         *)
(* It starts the jobs after the server listens.  A job runs once at a      *)
(* time; stopping it prevents the next run and waits for the present one.  *)
(* On a signal the server stops accepting, its connections and the jobs    *)
(* are waited for, the pool is closed and the process exits with 0; a      *)
(* timeout, or an error on the way, exits with 1.                          *)
(*                                                                         *)
(* The server waits for connections, not for handlers: that of a request   *)
(* whose client has hung up goes on, and may find the pool closing.        *)
(*                                                                         *)
(* A tick schedules the work and the work begins a moment later (the       *)
(* promise's callback), where a stop may come in between.                  *)
(***************************************************************************)
EXTENDS Integers, FiniteSets

CONSTANTS
  Requests,  \* HTTP requests in progress
  Jobs       \* mail, payments, retention

VARIABLES
  server,   \* "off", "listening", "closing", "closed"
  request,  \* each request's connection, and its handler: "using" a client of the pool
  job,      \* each job: stopped, and pending "none", "scheduled", "working"
  pool,     \* the connections to PostgreSQL: "open", "ending", "closed"
  closing,  \* the shutdown: "no", "draining", "pool"
  exit      \* "none", 0, 1

vars == <<server, request, job, pool, closing, exit>>

Up == exit = "none"

Free == [open |-> FALSE, handler |-> "none"]

TypeOK ==
  /\ server \in {"off", "listening", "closing", "closed"}
  /\ request \in [Requests -> [open : BOOLEAN, handler : {"none", "running", "using"}]]
  /\ job \in [Jobs -> [started : BOOLEAN, stopped : BOOLEAN,
                       pending : {"none", "scheduled", "working"}]]
  /\ pool \in {"open", "ending", "closed"}
  /\ closing \in {"no", "draining", "pool"}
  /\ exit \in {"none", "ok", "error"}
  \* nothing runs before it is started, and the server ends with its connections
  /\ \A j \in Jobs : job[j].pending # "none" => job[j].started
  /\ \A q \in Requests : request[q].open => server \in {"listening", "closing"}

Init ==
  /\ server = "off"
  /\ request = [q \in Requests |-> Free]
  /\ job = [j \in Jobs |-> [started |-> FALSE, stopped |-> FALSE, pending |-> "none"]]
  /\ pool = "open"
  /\ closing = "no"
  /\ exit = "none"

-----------------------------------------------------------------------------
(* server.js                                                               *)

Listen ==
  /\ Up /\ server = "off" /\ pool = "open"
  /\ server' = "listening"
  /\ UNCHANGED <<request, job, pool, closing, exit>>

(* PostgreSQL is not available, or the port is taken.                      *)
StartFails ==
  /\ Up /\ server = "off"
  /\ pool' = "closed" /\ exit' = "error"
  /\ UNCHANGED <<server, request, job, closing>>

(* Jobs are started in one go, with a first tick.                          *)
StartJobs ==
  /\ Up /\ server = "listening" /\ \A j \in Jobs : ~job[j].started
  /\ job' = [j \in Jobs |-> [started |-> TRUE, stopped |-> FALSE, pending |-> "scheduled"]]
  /\ UNCHANGED <<server, request, pool, closing, exit>>

Accepting(q) == server = "listening"

Arrive(q) ==
  /\ Up /\ Accepting(q) /\ request[q] = Free
  /\ request' = [request EXCEPT ![q] = [open |-> TRUE, handler |-> "running"]]
  /\ UNCHANGED <<server, job, pool, closing, exit>>

(* query and transaction: a pool that is ending has no client to give, and *)
(* the handler ends with that error.                                       *)
TakeClient(q) ==
  /\ Up /\ request[q].handler = "running"
  /\ pool = "open"
  /\ request' = [request EXCEPT ![q].handler = "using"]
  /\ UNCHANGED <<server, job, pool, closing, exit>>

ReleaseClient(q) ==
  /\ Up /\ request[q].handler = "using"
  /\ request' = [request EXCEPT ![q].handler = "running"]
  /\ UNCHANGED <<server, job, pool, closing, exit>>

(* The handler ends, well or badly; who still waits is answered.           *)
Respond(q) ==
  /\ Up /\ request[q].handler = "running"
  /\ request' = [request EXCEPT ![q] = Free]
  /\ UNCHANGED <<server, job, pool, closing, exit>>

HangUp(q) ==
  /\ Up /\ request[q].open
  /\ request' = [request EXCEPT ![q].open = FALSE]
  /\ UNCHANGED <<server, job, pool, closing, exit>>

-----------------------------------------------------------------------------
(* periodicWorker                                                          *)

Resting(j) == ~job[j].stopped /\ job[j].pending = "none"

Tick(j) ==
  /\ Up /\ job[j].started
  /\ Resting(j)
  /\ job' = [job EXCEPT ![j].pending = "scheduled"]
  /\ UNCHANGED <<server, request, pool, closing, exit>>

Scheduled(j) == IF job[j].stopped THEN "none" ELSE "working"

Begin(j) ==
  /\ Up /\ job[j].pending = "scheduled"
  /\ job' = [job EXCEPT ![j].pending = Scheduled(j)]
  /\ UNCHANGED <<server, request, pool, closing, exit>>

(* The work ends, also with an error.                                      *)
End(j) ==
  /\ Up /\ job[j].pending = "working"
  /\ job' = [job EXCEPT ![j].pending = "none"]
  /\ UNCHANGED <<server, request, pool, closing, exit>>

-----------------------------------------------------------------------------
(* shutdown, on SIGTERM, SIGINT or an error of the server.                 *)

Signal ==
  /\ Up /\ closing = "no" /\ \A j \in Jobs : job[j].started
  /\ closing' = "draining"
  /\ server' = "closing"
  /\ job' = [j \in Jobs |-> [job[j] EXCEPT !.stopped = TRUE]]
  /\ UNCHANGED <<request, pool, exit>>

(* The callback of server.close: no connection is left.                    *)
ServerClosed ==
  /\ Up /\ server = "closing"
  /\ \A q \in Requests : ~request[q].open
  /\ server' = "closed"
  /\ UNCHANGED <<request, job, pool, closing, exit>>

(* Mutant: the jobs are stopped but not waited for. *)
ServerDrained == server = "closed"

Drained == server = "closed" /\ \A j \in Jobs : job[j].pending = "none"

ClosePool ==
  /\ Up /\ closing = "draining"
  /\ Drained
  /\ pool' = "ending" /\ closing' = "pool"
  /\ UNCHANGED <<server, request, job, exit>>

(* pool.end waits for the clients in use.                                  *)
PoolEnded ==
  /\ Up /\ pool = "ending"
  /\ \A q \in Requests : request[q].handler # "using"
  /\ pool' = "closed"
  /\ UNCHANGED <<server, request, job, closing, exit>>

Exit ==
  /\ Up /\ closing = "pool" /\ pool = "closed"
  /\ exit' = "ok"
  /\ UNCHANGED <<server, request, job, pool, closing>>

(* closeDatabase or server.close reports an error.                         *)
CloseFails ==
  /\ Up /\ closing # "no" /\ server = "closed"
  /\ exit' = "error"
  /\ UNCHANGED <<server, request, job, pool, closing>>

Late == closing # "no"

Timeout ==
  /\ Up /\ Late
  /\ exit' = "error"
  /\ UNCHANGED <<server, request, job, pool, closing>>

Next ==
  \/ Listen \/ StartFails \/ StartJobs
  \/ \E q \in Requests : \/ Arrive(q) \/ Respond(q) \/ HangUp(q)
                         \/ TakeClient(q) \/ ReleaseClient(q)
  \/ \E j \in Jobs : Tick(j) \/ Begin(j) \/ End(j)
  \/ Signal \/ ServerClosed \/ ClosePool \/ PoolEnded \/ Exit \/ CloseFails \/ Timeout

Spec == Init /\ [][Next]_vars

(* The timer fires; neither requests nor the work of a job need ever end.  *)
FairSpec == Spec /\ WF_vars(Timeout)

-----------------------------------------------------------------------------
(* Properties.                                                             *)

(* The pool closes neither under a job, nor under a request whose client   *)
(* waits for the answer, and an orderly exit cuts no transaction short,    *)
(* not even of a request whose client has gone.                            *)
PoolOutlivesUse ==
  /\ pool # "open" => /\ \A q \in Requests : ~request[q].open
                      /\ \A j \in Jobs : job[j].pending # "working"
  /\ exit = "ok" => \A q \in Requests : request[q].handler # "using"

(* A stopped job begins no other run, and no job runs twice at once.       *)
StoppedStaysStopped == \A j \in Jobs :
  job'[j].pending # job[j].pending =>
    /\ job'[j].pending = "working" => ~job[j].stopped
    /\ job'[j].pending = "scheduled" => job[j].pending = "none"

(* After the signal the process exits, even if a request or a job hangs.   *)
SignalEnds == closing # "no" ~> exit # "none"
=============================================================================
