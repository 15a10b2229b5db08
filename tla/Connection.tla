----------------------------- MODULE Connection -----------------------------
(***************************************************************************)
(* What an API process believes of PostgreSQL (config/database.js).        *)
(*                                                                         *)
(* The flag isConnected decides whether a query is tried at all.  It is    *)
(* written by testConnection, which /health calls and which concurrent     *)
(* probes share (app.js), and by the periodic SELECT 1, which uses the     *)
(* pool's own query because the exported one is refused while the flag is  *)
(* down.  A check learns the state of the database when the database       *)
(* answers, and writes the flag later.                                     *)
(*                                                                         *)
(* A query or transaction holds one of the pool's clients until it ends,   *)
(* whatever its outcome; the others wait for one, at most for the          *)
(* connection timeout.  A check needs a client too: with all of them in    *)
(* use it may time out and lower the flag although the database answers,   *)
(* and then new queries fail at once.  The client of a check is given back *)
(* in the step that takes it.                                              *)
(***************************************************************************)
EXTENDS Integers, FiniteSets

CONSTANTS
  Probes,    \* callers of /health
  Requests,  \* the work that needs the database
  PoolMax,   \* DB_POOL_MAX, the clients of the pool
  MaxFlips   \* bound on the outages

FlipAssumption == MaxFlips \in Nat
PoolAssumption == PoolMax \in Nat \ {0}   \* runtimeSettings.js

VARIABLES
  up,         \* the database answers
  connected,  \* isConnected
  probe,      \* each caller of /health
  health,     \* testConnection behind healthPending
  periodic,   \* the periodic check
  work,       \* each query or transaction
  flips

vars == <<up, connected, probe, health, periodic, work, flips>>

Checks == {"none", "asked", "up", "down"}

TypeOK ==
  /\ {up, connected} \subseteq BOOLEAN
  /\ probe \in [Probes -> {"none", "waiting", "ok", "unavailable"}]
  /\ health \in Checks /\ periodic \in Checks
  /\ work \in [Requests -> {"none", "waiting", "running"}]
  /\ Cardinality({r \in Requests : work[r] = "running"}) <= PoolMax
  /\ flips \in 0 .. MaxFlips
  \* whoever waits has a check to wait for
  /\ (\E p \in Probes : probe[p] = "waiting") => health # "none"

(* server.js starts only after a successful testConnection.                *)
Init ==
  /\ up = TRUE /\ connected = TRUE
  /\ probe = [p \in Probes |-> "none"]
  /\ health = "none" /\ periodic = "none"
  /\ work = [r \in Requests |-> "none"]
  /\ flips = 0

(* A client of the pool nobody holds, and what a check learns: with none   *)
(* free it times out, or gets one later.                                   *)
Spare == Cardinality({r \in Requests : work[r] = "running"}) < PoolMax
Answer == IF up /\ Spare THEN "up" ELSE "down"

Flip ==
  /\ flips < MaxFlips
  /\ up' = ~up /\ flips' = flips + 1
  /\ UNCHANGED <<connected, probe, health, periodic, work>>

-----------------------------------------------------------------------------
(* GET /health                                                             *)

Shared == IF health = "none" THEN "asked" ELSE health

Probe(p) ==
  /\ probe[p] # "waiting"
  /\ probe' = [probe EXCEPT ![p] = "waiting"]
  /\ health' = Shared
  /\ UNCHANGED <<up, connected, periodic, work, flips>>

HealthAnswer ==
  /\ health = "asked"
  /\ health' = Answer
  /\ UNCHANGED <<up, connected, probe, periodic, work, flips>>

(* testConnection writes the flag, and everyone who waits is answered.     *)

Told == {p \in Probes : probe[p] = "waiting"}

HealthEnd ==
  /\ health \in {"up", "down"}
  /\ connected' = (health = "up")
  /\ probe' = [p \in Probes |-> IF p \notin Told THEN probe[p]
                                ELSE IF health = "up" THEN "ok" ELSE "unavailable"]
  /\ health' = "none"
  /\ UNCHANGED <<up, periodic, work, flips>>

-----------------------------------------------------------------------------
(* startHealthCheck                                                        *)

(* Mutant: the exported query, which is refused while the flag is down. *)
AskGuarded == connected

Ask == TRUE

PeriodicAsk ==
  /\ periodic = "none"
  /\ Ask
  /\ periodic' = "asked"
  /\ UNCHANGED <<up, connected, probe, health, work, flips>>

PeriodicAnswer ==
  /\ periodic = "asked"
  /\ periodic' = Answer
  /\ UNCHANGED <<up, connected, probe, health, work, flips>>

PeriodicEnd ==
  /\ periodic \in {"up", "down"}
  /\ connected' = (periodic = "up")
  /\ periodic' = "none"
  /\ UNCHANGED <<up, probe, health, work, flips>>

-----------------------------------------------------------------------------
(* query and transaction                                                   *)

(* While the flag is down the work fails at once, and nothing changes.     *)
Accepted == connected

Begin(r) ==
  /\ work[r] = "none" /\ Accepted
  /\ work' = [work EXCEPT ![r] = "waiting"]
  /\ UNCHANGED <<up, connected, probe, health, periodic, flips>>

(* pool.connect: a client, or the connection timeout.                      *)
Connect(r) ==
  /\ work[r] = "waiting"
  /\ work' = [work EXCEPT ![r] = IF up /\ Spare THEN "running" ELSE "none"]
  /\ UNCHANGED <<up, connected, probe, health, periodic, flips>>

(* COMMIT or ROLLBACK, and client.release() after either.                  *)
Release(r) ==
  /\ work[r] = "running"
  /\ work' = [work EXCEPT ![r] = "none"]
  /\ UNCHANGED <<up, connected, probe, health, periodic, flips>>

Work(r) == Connect(r) \/ Release(r)

Health == HealthAnswer \/ HealthEnd
Periodic == PeriodicAsk \/ PeriodicAnswer \/ PeriodicEnd

Next == Flip \/ (\E p \in Probes : Probe(p)) \/ Health \/ Periodic
        \/ \E r \in Requests : Begin(r) \/ Work(r)

Spec == Init /\ [][Next]_vars

(* The interval goes on, a connection that gets no answer times out, and   *)
(* statements end.                                                         *)
FairSpec ==
  /\ Spec
  /\ WF_vars(Health) /\ WF_vars(Periodic)
  /\ \A r \in Requests : WF_vars(Work(r))

-----------------------------------------------------------------------------
(* Properties.                                                             *)

(* However many probes arrive at once, the database is asked once for all  *)
(* of them, and the answer of a check under way is not asked for again.    *)
OneCheckAtATime == health # "none" /\ health' = "asked" => health = "asked"

(* Once the database stays reachable the API finds out again and again,    *)
(* however busy the pool is: refusing the work empties it.                 *)
Recovers == <>[]up => []<>connected

(* With clients to spare the API stays available, whatever late answers    *)
(* from the outage still arrive.                                           *)
StaysAvailable == <>[](up /\ Spare) => <>[]connected

(* Every probe is answered.                                                *)
ProbesAnswered == \A p \in Probes : probe[p] = "waiting" ~> probe[p] # "waiting"

(* Work that waits for a client or holds one ends.                         *)
WorkEnds == \A r \in Requests : work[r] # "none" ~> work[r] = "none"
=============================================================================
