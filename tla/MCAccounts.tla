----------------------------- MODULE MCAccounts -----------------------------
(* Small instances of the components that open accounts and let people in, *)
(* and of those that must come to an end: requests that take their locks   *)
(* in opposite orders, mails that fail, the shutdown, the loss of the      *)
(* database.  Each runs by itself: a behaviour begins with the choice of   *)
(* one of them and changes only its variables.  The variables of the       *)
(* others stay None.                                                       *)
EXTENDS Integers, FiniteSets, TLC

CONSTANTS
  Browsers, Users, SessionIds, Scripts, Passwords, MaxVersion,      \* Sessions
  Challenges, PerChallenge, InTotal, MaxPending, Window,
  MaxSecret, MaxFactor, MaxTime,                 \* Mfa, with Browsers
  Requests, Addresses, Guests, MaxInvitations,   \* Invitations
  Owners, MaxLinks, MaxUses,                     \* PasswordResets, with Requests
  Workers, Mails, Broken, MaxAttempts, MaxFaults, MaxRetries,       \* Outbox
  Jobs,                                          \* Lifecycle, with Requests
  Probes, PoolMax, MaxFlips,                     \* Connection, with Requests
  None

VARIABLES
  part,  \* the component of this behaviour
  user, session, cookie, http, script,
  version, factor, challenge, sessions, login, secrets, time, used,
  account, invitation, active, call,
  enabled, reset, uses, post,
  mail, worker, copies, faults, retries,
  server, serving, job, pool, closing, exit,
  up, connected, probe, health, periodic, work, flips

S == INSTANCE Sessions WITH req <- http
ASSUME SessionsAssumption == S!VersionAssumption /\ S!NoneAssumption
SVars == <<user, session, cookie, http, script>>
SOff == user = None /\ session = None /\ cookie = None /\ http = None /\
        script = None

M == INSTANCE Mfa WITH MaxVersion <- MaxFactor, req <- login
ASSUME MfaAssumption == M!BudgetAssumption /\ M!BoundAssumption /\ M!NoneAssumption
MVars == <<version, factor, challenge, sessions, login, secrets, time, used>>
MOff == version = None /\ factor = None /\ challenge = None /\
        sessions = None /\ login = None /\ secrets = None /\ time = None /\
        used = None

I == INSTANCE Invitations WITH req <- call
ASSUME InvitationsAssumption == I!BoundAssumption /\ I!NoneAssumption
IVars == <<account, invitation, active, call>>
IOff == account = None /\ invitation = None /\ active = None /\ call = None

P == INSTANCE PasswordResets WITH Users <- Owners, req <- post, active <- enabled
ASSUME ResetsAssumption == P!BoundAssumption /\ P!NoneAssumption
PVars == <<enabled, reset, uses, post>>
POff == enabled = None /\ reset = None /\ uses = None /\ post = None

O == INSTANCE Outbox
ASSUME MailAssumption == O!MailAssumption /\ O!BoundAssumption /\ O!NoneAssumption
OVars == <<mail, worker, copies, faults, retries>>
OOff == mail = None /\ worker = None /\ copies = None /\ faults = None /\
        retries = None

L == INSTANCE Lifecycle WITH request <- serving
LVars == <<server, serving, job, pool, closing, exit>>
LOff == server = None /\ serving = None /\ job = None /\ pool = None /\
        closing = None /\ exit = None

C == INSTANCE Connection
ASSUME ConnectionAssumption == C!FlipAssumption /\ C!PoolAssumption
CVars == <<up, connected, probe, health, periodic, work, flips>>
COff == up = None /\ connected = None /\ probe = None /\ health = None /\
        periodic = None /\ work = None /\ flips = None

-----------------------------------------------------------------------------
(* Sessions are explored three times: two accounts, two passwords of one   *)
(* account, and create-admin.                                              *)
Accounts == {"accounts", "passwords", "first"}

(* Second factors twice: several challenges with one secret, and one at a  *)
(* time with two (enrolment, replacement, removal).                        *)
Logins == {"codes", "factors"}

all == <<part, SVars, MVars, IVars, PVars, OVars, LVars, CVars>>

Init ==
  \/ part \in Accounts /\ S!Init
     /\ MOff /\ IOff /\ POff /\ OOff /\ LOff /\ COff
  \/ part \in Logins /\ M!Init
     /\ SOff /\ IOff /\ POff /\ OOff /\ LOff /\ COff
  \/ part = "invitations" /\ I!Init
     /\ SOff /\ MOff /\ POff /\ OOff /\ LOff /\ COff
  \/ part = "resets" /\ P!Init
     /\ SOff /\ MOff /\ IOff /\ OOff /\ LOff /\ COff

EndsInit ==
  \/ part = "invitations" /\ I!Init
     /\ SOff /\ MOff /\ POff /\ OOff /\ LOff /\ COff
  \/ part = "resets" /\ P!Init
     /\ SOff /\ MOff /\ IOff /\ OOff /\ LOff /\ COff
  \/ part = "mail" /\ O!Init
     /\ SOff /\ MOff /\ IOff /\ POff /\ LOff /\ COff
  \/ part = "shutdown" /\ L!Init
     /\ SOff /\ MOff /\ IOff /\ POff /\ OOff /\ COff
  \/ part = "connection" /\ C!Init
     /\ SOff /\ MOff /\ IOff /\ POff /\ OOff /\ LOff

SOnly == part \in Accounts /\ UNCHANGED <<part, MVars, IVars, PVars, OVars, LVars, CVars>>
MOnly == part \in Logins /\ UNCHANGED <<part, SVars, IVars, PVars, OVars, LVars, CVars>>
IOnly == part = "invitations" /\ UNCHANGED <<part, SVars, MVars, PVars, OVars, LVars, CVars>>
POnly == part = "resets" /\ UNCHANGED <<part, SVars, MVars, IVars, OVars, LVars, CVars>>
OOnly == part = "mail" /\ UNCHANGED <<part, SVars, MVars, IVars, PVars, LVars, CVars>>
LOnly == part = "shutdown" /\ UNCHANGED <<part, SVars, MVars, IVars, PVars, OVars, CVars>>
COnly == part = "connection" /\ UNCHANGED <<part, SVars, MVars, IVars, PVars, OVars, LVars>>

Next ==
  \/ SOnly /\ S!Next
  \/ MOnly /\ M!Next
  \/ IOnly /\ I!Next
  \/ POnly /\ P!Next
  \/ OOnly /\ O!Next
  \/ LOnly /\ L!Next
  \/ COnly /\ C!Next

Spec == Init /\ [][Next]_all

Fairness ==
  /\ \A r \in Requests : SF_all(IOnly /\ I!Step(r)) /\ WF_all(IOnly /\ I!Abort(r))
  /\ \A r \in Requests : SF_all(POnly /\ P!Step(r))
  /\ \A w \in Workers : WF_all(OOnly /\ O!Deliver(w))
  /\ \A i \in Mails : WF_all(OOnly /\ O!BecomeDue(i))
  /\ WF_all(LOnly /\ L!Timeout)
  /\ WF_all(COnly /\ C!Health) /\ WF_all(COnly /\ C!Periodic)
  /\ \A r \in Requests : WF_all(COnly /\ C!Work(r))

(* The fairness of the components' FairSpec.                               *)
FairSpec == EndsInit /\ [][Next]_all /\ Fairness

Symmetry == Permutations(Browsers) \union Permutations(Users) \union Permutations(Scripts)

AtMostOne(set) == \A s, t \in set : s = t

(* TLC's bound: two accounts changed once, one of them with two passwords, *)
(* or three with one session and one request at a time.                    *)
Narrow ==
  LET known == {u \in Users : user[u] # None}
      busy == {b \in Browsers : http[b] # S!Idle \/ cookie[b] # None}
      begun == {k \in Scripts : script[k] # "begun"}
      once == \A u \in known : user[u].version <= 1 /\ user[u].password = 1
  IN /\ part = "accounts" => Cardinality(known) <= 2 /\ AtMostOne(begun) /\ once
     /\ part = "passwords" => AtMostOne(known) /\ AtMostOne(begun)
     /\ part = "first" => /\ AtMostOne(busy) /\ once
                         /\ AtMostOne({s \in SessionIds : session[s] # None})
     /\ part = "codes" => secrets <= 1 /\ version <= 1 /\ time = 0
     /\ part = "factors" => /\ AtMostOne({c \in Challenges : challenge[c] # None})
                           /\ \A c \in Challenges : challenge[c] # None => challenge[c].attempts = 0
                           /\ \A b \in Browsers : login[b].code # None => login[b].code.n = time

(* Sessions: one that is accepted has the present password and role of its *)
(* account, and create-admin makes one account, run twice at once.         *)
SessionsCurrent ==
  part \in Accounts => S!TypeOK /\ S!AcceptedSessionIsCurrent /\ S!FirstAdministratorOnce

(* Accounts: an active administrator always remains, and nothing accepted  *)
(* before a deactivation is accepted after it.                             *)
AdministratorRemains == [][
  (part \in Accounts) => S!AdministratorRemains /\ S!DeactivationEndsSessions
  ]_all

(* MFA: the budgets hold over all the challenges of an account, and while  *)
(* a factor is enrolled every session has passed it.                       *)
BudgetKept ==
  part \in Logins => M!TypeOK /\ M!BudgetKept /\ M!EnrolledMeansVerified

(* MFA: no code is accepted twice, and a factor changes only by a request  *)
(* that proved it.                                                         *)
CodeOnce == [][
  (part \in Logins) => M!CodeOnce /\ M!ChangeNeedsProof
  ]_all

(* Links: one opens one account or sets one password, and an account gets  *)
(* at most one link a minute.                                              *)
LinksWorkOnce ==
  /\ part = "invitations" => I!TypeOK /\ I!LinkOpensOne
  /\ part = "resets" => P!TypeOK /\ P!LinkUsedOnce /\ P!OneLinkAMinute

(* Links: one that was replaced or revoked does nothing any more, and no   *)
(* account is opened for a guest who is inactive.                          *)
OnlyNewestLink == [][
  /\ part = "invitations" => I!OnlyNewestLink /\ I!NoAccountForInactive
  /\ part = "resets" => P!OnlyNewestResets
  ]_all

(* Links: every request ends.  Asking for a reset and using one never wait *)
(* for each other, by the order of their locks; of those about invitations *)
(* only a creation and an acceptance of one address may, which PostgreSQL  *)
(* resolves (routes/passwordRecovery.js, routes/invitations.js).           *)
RequestsEnd ==
  /\ \A r \in Requests : (part = "invitations" /\ call[r].kind # "none")
                         ~> (part = "invitations" => call[r].kind = "none")
  /\ \A r \in Requests : (part = "resets" /\ post[r].kind # "none")
                         ~> (part = "resets" => post[r].kind = "none")

(* Mail: every mail is sent, or out of attempts and shown as failed.       *)
MailsSettle == \A i \in Mails :
  (part = "mail" /\ O!Queued(i)) ~> (part = "mail" => O!Settled(i))

(* Shutdown: after the signal the process exits; the pool closes under no  *)
(* job, no transaction and no request whose client waits, and a stopped    *)
(* job begins no other run.                                                *)
ShutdownEnds ==
  /\ (part = "shutdown" /\ closing # "no") ~> (part = "shutdown" => exit # "none")
  /\ [][part = "shutdown" => L!StoppedStaysStopped /\ L!PoolOutlivesUse /\ L!TypeOK]_all

(* Connection: once the database stays reachable the API becomes available *)
(* again, and with clients to spare it stays so; every probe and request   *)
(* ends, and the database is asked once for all probes.                    *)
ConnectionRecovers ==
  /\ <>[](part = "connection" => up) => []<>(part = "connection" => connected)
  /\ <>[](part = "connection" => up /\ C!Spare) => <>[](part = "connection" => connected)
  /\ \A p \in Probes : (part = "connection" /\ probe[p] = "waiting")
                         ~> (part = "connection" => probe[p] # "waiting")
  /\ \A r \in Requests : (part = "connection" /\ work[r] # "none")
                         ~> (part = "connection" => work[r] = "none")
  /\ [][part = "connection" => C!OneCheckAtATime /\ C!TypeOK]_all
=============================================================================
