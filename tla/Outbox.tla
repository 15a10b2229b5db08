------------------------------- MODULE Outbox -------------------------------
(***************************************************************************)
(* The mail queue: email_outbox, the worker of every API process that      *)
(* delivers it, the administrator's retry and the retention of links.      *)
(*                                                                         *)
(* A worker locks the first mail that is due (FOR UPDATE SKIP LOCKED),     *)
(* hands it to SMTP while the transaction is open, and records the outcome *)
(* in the same transaction.  A crash, or a commit that fails, forgets the  *)
(* outcome; SMTP may also accept a mail and lose the answer.  These faults *)
(* are counted in the ghost "faults", and "copies" counts the deliveries.  *)
(*                                                                         *)
(* Left out: the limit of 20 mails a run (the next tick goes on), the      *)
(* texts, and who is told of what.  A link ends when it is used, replaced  *)
(* or expires (modules Invitations and PasswordResets).                    *)
(***************************************************************************)
EXTENDS Integers, FiniteSets

CONSTANTS
  Workers,      \* API processes
  Mails,        \* ids of email_outbox, a set 1 .. n
  Broken,       \* mails no server accepts
  MaxAttempts,  \* 8 in the code
  MaxFaults,    \* bound on faults
  MaxRetries,   \* bound on the administrator's retries
  None

MailAssumption == Mails = 1 .. Cardinality(Mails) /\ Broken \subseteq Mails
BoundAssumption == {MaxAttempts, MaxFaults, MaxRetries} \subseteq Nat

VARIABLES
  mail,     \* table email_outbox
  worker,   \* each process's job
  copies,   \* deliveries of each mail
  faults,   \* outcomes that were lost, for each mail
  retries   \* manual retries of each mail

vars == <<mail, worker, copies, faults, retries>>

Kinds == {"notice", "reset", "invite"}
Rows == [kind : Kinds, body : {"text", "sent", "expired"}, attempts : 0 .. MaxAttempts,
         due : BOOLEAN, sent : BOOLEAN, live : BOOLEAN, old : BOOLEAN]
NoneAssumption == None \notin Mails /\ None \notin Rows /\ None \notin {"accepted", "error"}

Row(kind) == [kind |-> kind, body |-> "text", attempts |-> 0, due |-> TRUE, sent |-> FALSE,
              live |-> TRUE, old |-> FALSE]
Quiet == [running |-> FALSE, id |-> None, outcome |-> None]

Queued(i) == mail[i] # None
IsLink(i) == mail[i].kind \in {"reset", "invite"}
Locked(i) == \E w \in Workers : worker[w].id = i

TypeOK ==
  /\ mail \in [Mails -> Rows \union {None}]
  /\ \A w \in Workers : /\ worker[w].running \in BOOLEAN
                        /\ worker[w].id \in Mails \union {None}
                        /\ worker[w].outcome \in {None, "accepted", "error"}
                        /\ worker[w].id # None => worker[w].running
  /\ \A v, w \in Workers : v # w /\ worker[v].id # None => worker[v].id # worker[w].id

Init ==
  /\ mail = [i \in Mails |-> None]
  /\ worker = [w \in Workers |-> Quiet]
  /\ copies = [i \in Mails |-> 0]
  /\ faults = [i \in Mails |-> 0]
  /\ retries = [i \in Mails |-> 0]

AllFaults == faults[1] + IF 2 \in Mails THEN faults[2] ELSE 0

-----------------------------------------------------------------------------
(* The business transactions append to the queue.                          *)

Enqueue(kind) ==
  /\ \E i \in Mails : /\ ~Queued(i) /\ \A j \in 1 .. i - 1 : Queued(j)
                      /\ mail' = [mail EXCEPT ![i] = Row(kind)]
  /\ UNCHANGED <<worker, copies, faults, retries>>

-----------------------------------------------------------------------------
(* processQueue, one run at a time in a process.                           *)

Start(w) ==
  /\ ~worker[w].running
  /\ worker' = [worker EXCEPT ![w].running = TRUE]
  /\ UNCHANGED <<mail, copies, faults, retries>>

Sendable(i) == /\ Queued(i) /\ ~mail[i].sent
               /\ mail[i].attempts < MaxAttempts /\ mail[i].due

Candidates(w) == {i \in Mails : Sendable(i) /\ ~Locked(i)}

Take(w) ==
  /\ worker[w].running /\ worker[w].id = None
  /\ \E i \in Candidates(w) :
       /\ \A j \in Candidates(w) : i <= j
       /\ worker' = [worker EXCEPT ![w].id = i]
  /\ UNCHANGED <<mail, copies, faults, retries>>

Ended(w) == [worker EXCEPT ![w] = Quiet]

NothingToSend(w) ==
  /\ worker[w].running /\ worker[w].id = None
  /\ Candidates(w) = {}
  /\ worker' = Ended(w)
  /\ UNCHANGED <<mail, copies, faults, retries>>

Accepted(w) ==
  LET i == worker[w].id IN
  /\ i # None /\ worker[w].outcome = None /\ i \notin Broken
  /\ copies' = [copies EXCEPT ![i] = @ + 1]
  /\ worker' = [worker EXCEPT ![w].outcome = "accepted"]
  /\ UNCHANGED <<mail, faults, retries>>

Rejected(w) ==
  LET i == worker[w].id IN
  /\ i # None /\ worker[w].outcome = None
  /\ i \in Broken \/ AllFaults < MaxFaults
  /\ faults' = [faults EXCEPT ![i] = IF i \in Broken THEN @ ELSE @ + 1]
  /\ worker' = [worker EXCEPT ![w].outcome = "error"]
  /\ UNCHANGED <<mail, copies, retries>>

(* SMTP accepts and the answer is lost.                                    *)
AnswerLost(w) ==
  LET i == worker[w].id IN
  /\ i # None /\ worker[w].outcome = None /\ i \notin Broken /\ AllFaults < MaxFaults
  /\ copies' = [copies EXCEPT ![i] = @ + 1]
  /\ faults' = [faults EXCEPT ![i] = @ + 1]
  /\ worker' = [worker EXCEPT ![w].outcome = "error"]
  /\ UNCHANGED <<mail, retries>>

(* Mutant: sent_at is forgotten. *)
MarkUnsent(i) == [mail[i] EXCEPT !.body = IF IsLink(i) THEN "sent" ELSE @]

MarkSent(i) == [mail[i] EXCEPT !.sent = TRUE, !.body = IF IsLink(i) THEN "sent" ELSE @]

(* Mutant: a failure is not counted. *)
MarkFailedUncounted(i) == [mail[i] EXCEPT !.due = FALSE]

MarkFailed(i) == [mail[i] EXCEPT !.attempts = @ + 1, !.due = FALSE]

Record(w) ==
  LET i == worker[w].id IN
  /\ worker[w].outcome # None
  /\ mail' = [mail EXCEPT ![i] = IF worker[w].outcome = "accepted" THEN MarkSent(i)
                                 ELSE MarkFailed(i)]
  /\ worker' = [worker EXCEPT ![w].id = None, ![w].outcome = None]
  /\ UNCHANGED <<copies, faults, retries>>

(* The transaction fails and the run ends (finally), or the process dies   *)
(* and starts again (between two mails it leaves nothing behind): the mail *)
(* is as it was.                                                           *)

Rollback(w) ==
  LET i == worker[w].id IN
  /\ i # None /\ AllFaults < MaxFaults
  /\ faults' = [faults EXCEPT ![i] = @ + 1]
  /\ worker' = Ended(w)
  /\ UNCHANGED <<mail, copies, retries>>

Crash(w) ==
  LET i == worker[w].id IN
  /\ i # None /\ AllFaults < MaxFaults
  /\ faults' = [faults EXCEPT ![i] = @ + 1]
  /\ worker' = Ended(w)
  /\ UNCHANGED <<mail, copies, retries>>

(* The wait after a failure, a power of two of minutes, is over.           *)
BecomeDue(i) ==
  /\ Queued(i) /\ ~mail[i].due
  /\ mail' = [mail EXCEPT ![i].due = TRUE]
  /\ UNCHANGED <<worker, copies, faults, retries>>

-----------------------------------------------------------------------------
(* POST /email-status/:id/retry: attempts start again.                     *)

Retry(i) ==
  /\ Queued(i) /\ ~mail[i].sent /\ ~Locked(i)
  /\ retries[i] < MaxRetries
  /\ mail' = [mail EXCEPT ![i].attempts = 0, ![i].due = TRUE]
  /\ retries' = [retries EXCEPT ![i] = @ + 1]
  /\ UNCHANGED <<worker, copies, faults>>

(* The link is used, replaced or expires, and later it is old.             *)
LinkEnds(i) ==
  /\ Queued(i) /\ IsLink(i) /\ mail[i].live
  /\ mail' = [mail EXCEPT ![i].live = FALSE]
  /\ UNCHANGED <<worker, copies, faults, retries>>

GrowOld(i) ==
  /\ Queued(i) /\ IsLink(i) /\ ~mail[i].old
  /\ mail[i].kind = "reset" => ~mail[i].live
  /\ mail' = [mail EXCEPT ![i].old = TRUE]
  /\ UNCHANGED <<worker, copies, faults, retries>>

(* securityRetentionService, one row of its UPDATE at a time.              *)
Expired(i) == /\ Queued(i) /\ IsLink(i) /\ mail[i].old /\ mail[i].body = "text"
              /\ mail[i].kind = "reset" \/ ~mail[i].live

Redacted(i) == [mail[i] EXCEPT !.body = "expired", !.attempts = MaxAttempts]

Retain(i) ==
  /\ Expired(i) /\ ~Locked(i)
  /\ mail' = [mail EXCEPT ![i] = Redacted(i)]
  /\ UNCHANGED <<worker, copies, faults, retries>>

Deliver(w) == Start(w) \/ Take(w) \/ Accepted(w) \/ Rejected(w) \/ Record(w) \/ NothingToSend(w)

Next ==
  \/ \E kind \in Kinds : Enqueue(kind)
  \/ \E w \in Workers : Deliver(w) \/ AnswerLost(w) \/ Rollback(w) \/ Crash(w)
  \/ \E i \in Mails : BecomeDue(i) \/ Retry(i) \/ LinkEnds(i) \/ GrowOld(i) \/ Retain(i)

Spec == Init /\ [][Next]_vars

(* The interval calls the job every 15 seconds, SMTP answers or times out, *)
(* waits pass.                                                             *)
FairSpec == /\ Spec
            /\ \A w \in Workers : WF_vars(Deliver(w))
            /\ \A i \in Mails : WF_vars(BecomeDue(i))

-----------------------------------------------------------------------------
(* Properties.                                                             *)

(* A mail is delivered twice only if an outcome was lost, whatever workers *)
(* and retries do (docs/servicios-huesped.md:19).                          *)
DuplicatesExplained == \A i \in Mails : copies[i] <= 1 + faults[i]

(* A mail recorded as sent was delivered, and no link outlives it in the   *)
(* queue.                                                                  *)
SentMeansDelivered == \A i \in Mails : Queued(i) /\ mail[i].sent =>
  copies[i] >= 1 /\ (IsLink(i) => mail[i].body # "text")

(* Retention never redacts a mail that is being sent, nor an invitation    *)
(* that can still be accepted, and the redacted text is not delivered      *)
(* unless an administrator asks for it by hand.                            *)
RedactedStays == \A i \in Mails : Queued(i) =>
  /\ mail[i].body = "text" /\ mail'[i].body = "expired" => ~Locked(i) /\ ~mail[i].live
  /\ copies'[i] > copies[i] /\ mail[i].body = "expired" => retries[i] > 0

(* Every mail is settled: sent, or out of attempts and shown as failed.    *)
(* Mails that always fail do not hold back the others, nor do runs that    *)
(* end in an error.                                                        *)
Settled(i) == Queued(i) /\ (mail[i].sent \/ mail[i].attempts = MaxAttempts)
MailsSettle == \A i \in Mails : Queued(i) ~> Settled(i)
=============================================================================
