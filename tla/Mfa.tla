-------------------------------- MODULE Mfa --------------------------------
(***************************************************************************)
(* The second factor of one account: challenges with budgets of attempts,  *)
(* enrolment, use, replacement and removal of the factor, and the sessions *)
(* that come out of them.  Accounts do not touch each other.               *)
(*                                                                         *)
(* Opening a challenge and trying a code are each one transaction under    *)
(* the lock of the account, split between its checks and its COMMIT;       *)
(* enroll, disable and any change of password or role are one step.  What  *)
(* a request does between its transactions interleaves with the others.    *)
(*                                                                         *)
(* A code is [secret, kind, n]: kind "time" is the code of 30-second step  *)
(* n, kind "recovery" the recovery code of the secret.  Ghosts: used, the  *)
(* codes accepted so far, and proof, the secret proved before a challenge  *)
(* to replace it was opened.  Left out: encryption, who may ask (Sessions).*)
(***************************************************************************)
EXTENDS Integers, FiniteSets

CONSTANTS
  Browsers,     \* each with one request at a time
  Challenges,   \* ids of mfa_challenge
  PerChallenge, \* attempts of one challenge (5)
  InTotal,      \* attempts of the account's live challenges (10)
  MaxPending,   \* live challenges (5)
  Window,       \* steps a code may be early or late (1)
  MaxSecret, MaxVersion, MaxTime,  \* bounds
  None

BudgetAssumption == {PerChallenge, InTotal, MaxPending} \subseteq Nat \ {0}
BoundAssumption == {MaxSecret, MaxVersion, MaxTime, Window} \subseteq Nat
                   /\ IsFiniteSet(Challenges)

VARIABLES
  version,    \* auth_version of the account
  factor,     \* row of user_mfa with its unused recovery code
  challenge,  \* mfa_challenge
  sessions,   \* web_session of the account
  req,        \* the request each browser makes
  secrets,    \* secrets generated so far
  time,       \* 30-second steps
  used

vars == <<version, factor, challenge, sessions, req, secrets, time, used>>

Secrets == 1 .. MaxSecret
Codes == [secret : Secrets, kind : {"time"}, n : 0 .. MaxTime + Window]
           \union [secret : Secrets, kind : {"recovery"}, n : {0}]
Factors == [secret : Secrets, last : -1 .. MaxTime + Window, recovery : BOOLEAN]
ChallengeRows == [version : 0 .. MaxVersion, attempts : 0 .. PerChallenge, replace : BOOLEAN,
                  pending : Secrets \union {None}, proof : Secrets \union {None}]
NoneAssumption ==
  None \notin Challenges \union Secrets \union Codes \union Factors \union ChallengeRows

Goals == {"login", "enable", "renew", "replace", "disable"}
Idle == [step |-> "idle", goal |-> "login", version |-> 0, ch |-> None, code |-> None,
         confirm |-> FALSE, proof |-> None]

TypeOK ==
  /\ version \in 0 .. MaxVersion
  /\ factor \in Factors \union {None}
  /\ challenge \in [Challenges -> ChallengeRows \union {None}]
  /\ sessions \subseteq [version : 0 .. MaxVersion, verified : BOOLEAN]
  /\ req \in [Browsers -> [step : {"idle", "password", "opening", "opened", "trying", "proven",
                                   "issue", "plain"},
                           goal : Goals, version : 0 .. MaxVersion,
                           ch : Challenges \union {None}, code : Codes \union {None},
                           confirm : BOOLEAN, proof : Secrets \union {None}]]
  /\ secrets \in 0 .. MaxSecret
  /\ time \in 0 .. MaxTime
  /\ used \subseteq Codes

Init ==
  /\ version = 0
  /\ factor = None
  /\ challenge = [c \in Challenges |-> None]
  /\ sessions = {}
  /\ req = [b \in Browsers |-> Idle]
  /\ secrets = 0
  /\ time = 0
  /\ used = {}

-----------------------------------------------------------------------------
(* The account's lock, and its budgets.                                    *)

(* Mutant: a challenge is opened without FOR UPDATE on the account. *)
OpeningNotLocked == \A b \in Browsers : req[b].step # "trying"

AccountFree == \A b \in Browsers : req[b].step \notin {"opening", "trying"}

LiveOf(v) == {c \in Challenges : challenge[c] # None /\ challenge[c].version = v}
AttemptsOf(v) == {t \in LiveOf(v) \X (1 .. PerChallenge) : t[2] <= challenge[t[1]].attempts}
Attempts(v) == Cardinality(AttemptsOf(v))
Pending(v) == Cardinality(LiveOf(v))

Go(b, r) == req' = [req EXCEPT ![b] = r]

(* The account's row as the request saw it when it checked the password.   *)
Password(b, goal) ==
  /\ req[b] = Idle
  /\ goal = "login" \/ \E s \in sessions : s.version = version
  /\ goal = "enable" => factor = None
  /\ Go(b, [Idle EXCEPT !.goal = goal, !.version = version,
              !.step = IF goal = "login" /\ factor = None THEN "plain" ELSE "password"])
  /\ UNCHANGED <<version, factor, challenge, sessions, secrets, time, used>>

-----------------------------------------------------------------------------
(* mfaService.challenge                                                    *)

OpenCheck(b) ==
  /\ req[b].step = "password"
  /\ AccountFree
  /\ Attempts(req[b].version) < InTotal
  /\ Pending(req[b].version) < MaxPending
  /\ req' = [req EXCEPT ![b].step = "opening"]
  /\ UNCHANGED <<version, factor, challenge, sessions, secrets, time, used>>

(* renew and disable go on with the challenge; the others answer with it.  *)
OpenCommit(b) ==
  /\ req[b].step = "opening"
  /\ \E c \in Challenges :
       /\ challenge[c] = None
       /\ challenge' = [challenge EXCEPT ![c] =
            [version |-> req[b].version, attempts |-> 0, replace |-> req[b].goal = "replace",
             pending |-> None, proof |-> req[b].proof]]
       /\ Go(b, IF req[b].goal \in {"renew", "disable"}
                THEN [req[b] EXCEPT !.step = "opened", !.ch = c] ELSE Idle)
  /\ UNCHANGED <<version, factor, sessions, secrets, time, used>>

Expire(c) ==
  /\ challenge[c] # None
  /\ \A b \in Browsers : req[b].ch = c => req[b].step # "trying"
  /\ challenge' = [challenge EXCEPT ![c] = None]
  /\ UNCHANGED <<version, factor, sessions, req, secrets, time, used>>

-----------------------------------------------------------------------------
(* mfaService.locked and enroll                                            *)

Usable(c) ==
  /\ challenge[c] # None
  /\ challenge[c].version = version
  /\ challenge[c].attempts < PerChallenge
  /\ Attempts(version) < InTotal

Enroll(c) ==
  /\ AccountFree
  /\ Usable(c)
  /\ challenge[c].replace \/ factor = None
  /\ secrets < MaxSecret
  /\ secrets' = secrets + 1
  /\ challenge' = [challenge EXCEPT ![c].pending = secrets']
  /\ UNCHANGED <<version, factor, sessions, req, time, used>>

-----------------------------------------------------------------------------
(* mfaService.verify: a code is presented, under the lock it is compared   *)
(* with the factor, or with the pending secret of an enrolment.  None      *)
(* stands for every code of another secret.                                *)

Try(b, c) ==
  /\ \/ req[b] = Idle
     \/ req[b].step = "opened" /\ req[b].ch = c
  /\ AccountFree
  /\ Usable(c)
  /\ \E code \in Codes \union {None}, confirm \in BOOLEAN :
       /\ req[b].step = "opened" => ~confirm
       /\ code # None => code.secret = IF confirm THEN challenge[c].pending
                                       ELSE IF factor = None THEN None ELSE factor.secret
       /\ Go(b, [req[b] EXCEPT !.step = "trying", !.ch = c, !.code = code,
                               !.confirm = confirm])
  /\ UNCHANGED <<version, factor, challenge, sessions, secrets, time, used>>

(* Mutant: an old step is accepted again. *)
LaterOrSame(n, last) == n >= last

Later(n, last) == n > last

InWindow(code) == code.kind = "time" /\ code.n \in time - Window .. time + Window

Accepts(b) ==
  LET code == req[b].code  row == challenge[req[b].ch] IN
  /\ code # None
  /\ IF req[b].confirm
     THEN /\ row.pending = code.secret /\ InWindow(code)
          /\ factor # None => row.replace
     ELSE /\ factor # None /\ factor.secret = code.secret
          /\ \/ InWindow(code) /\ Later(code.n, factor.last)
             \/ code.kind = "recovery" /\ factor.recovery

Enrol(b) ==
  /\ version < MaxVersion
  /\ factor' = [secret |-> req[b].code.secret, last |-> req[b].code.n, recovery |-> TRUE]
  /\ version' = version + 1
  /\ sessions' = {}

Use(b) ==
  /\ factor' = IF req[b].code.kind = "time" THEN [factor EXCEPT !.last = req[b].code.n]
               ELSE [factor EXCEPT !.recovery = FALSE]
  /\ UNCHANGED <<version, sessions>>

Accept(b) ==
  /\ req[b].step = "trying" /\ Accepts(b)
  /\ IF req[b].confirm THEN Enrol(b) ELSE Use(b)
  /\ challenge' = [challenge EXCEPT ![req[b].ch] = None]
  /\ used' = used \union {req[b].code}
  /\ Go(b, [req[b] EXCEPT !.step = IF @ = "trying" /\ req[b].goal \in {"renew", "disable"}
                                   THEN "proven" ELSE "issue",
                          !.version = version', !.proof = req[b].code.secret, !.ch = None])
  /\ UNCHANGED <<secrets, time>>

(* The failed attempt is committed too. *)
Reject(b) ==
  /\ req[b].step = "trying" /\ ~Accepts(b)
  /\ challenge' = [challenge EXCEPT ![req[b].ch].attempts = @ + 1]
  /\ Go(b, Idle)
  /\ UNCHANGED <<version, factor, sessions, secrets, time, used>>

-----------------------------------------------------------------------------
(* What follows a code that was accepted.                                  *)

Renew(b) ==
  /\ req[b].step = "proven" /\ req[b].goal = "renew"
  /\ req' = [req EXCEPT ![b].step = "password", ![b].goal = "replace"]
  /\ UNCHANGED <<version, factor, challenge, sessions, secrets, time, used>>

SameVersion(b) == req[b].version = version

Disable(b) ==
  /\ req[b].step = "proven" /\ req[b].goal = "disable"
  /\ AccountFree /\ SameVersion(b) /\ version < MaxVersion
  /\ factor' = None
  /\ challenge' = [c \in Challenges |-> None]
  /\ sessions' = {}
  /\ version' = version + 1
  /\ req' = [req EXCEPT ![b].step = "plain", ![b].version = version']
  /\ UNCHANGED <<secrets, time, used>>

(* issue, and the end of a login without a factor.                         *)
Issue(b) ==
  /\ req[b].step \in {"issue", "plain"}
  /\ req[b].step = "issue" \/ req[b].goal = "disable" => SameVersion(b)
  /\ sessions' = sessions \union {[version |-> req[b].version,
                                   verified |-> req[b].step = "issue"]}
  /\ Go(b, Idle)
  /\ UNCHANGED <<version, factor, challenge, secrets, time, used>>

(* A request refused or broken off outside a transaction.                  *)
Fail(b) ==
  /\ req[b].step \in {"password", "opened", "proven", "issue", "plain"}
  /\ Go(b, Idle)
  /\ UNCHANGED <<version, factor, challenge, sessions, secrets, time, used>>

(* A change of password, role or activation.                               *)
Change ==
  /\ AccountFree
  /\ version < MaxVersion
  /\ version' = version + 1
  /\ UNCHANGED <<factor, challenge, sessions, req, secrets, time, used>>

Tick ==
  /\ time < MaxTime
  /\ time' = time + 1
  /\ UNCHANGED <<version, factor, challenge, sessions, req, secrets, used>>

Next ==
  \/ \E b \in Browsers :
       \/ \E goal \in Goals \ {"replace"} : Password(b, goal)
       \/ OpenCheck(b) \/ OpenCommit(b)
       \/ \E c \in Challenges : Try(b, c)
       \/ Accept(b) \/ Reject(b) \/ Renew(b) \/ Disable(b) \/ Issue(b) \/ Fail(b)
  \/ \E c \in Challenges : Expire(c) \/ Enroll(c)
  \/ Change \/ Tick

Spec == Init /\ [][Next]_vars

-----------------------------------------------------------------------------
(* Properties.                                                             *)

(* The budgets hold over all the live challenges of an account, however    *)
(* many logins and tries are under way at once.                            *)
BudgetKept == \A v \in 0 .. MaxVersion : Attempts(v) <= InTotal /\ Pending(v) <= MaxPending

(* No code, of a step or of recovery, is accepted twice: not by two        *)
(* challenges at once, nor by the enrolment and then a login.              *)
CodeOnce == \A b \in Browsers :
  req[b].step = "trying" /\ req'[b].step \in {"proven", "issue"} => req[b].code \notin used

(* While a factor is enrolled, every session of the present version passed *)
(* it, although a login decides whether to ask long before it inserts.     *)
EnrolledMeansVerified == factor # None =>
  \A s \in sessions : s.version = version => s.verified

Proves(b) == \/ req[b].step = "proven" /\ req[b].proof = factor.secret
             \/ req[b].step = "trying" /\ challenge[req[b].ch].proof = factor.secret

(* A factor is replaced or removed only by a request that proved that very *)
(* factor, though other requests may replace it between proof and change.  *)
ChangeNeedsProof ==
  factor # None /\ (factor' = None \/ factor'.secret # factor.secret) =>
       \E b \in Browsers : req'[b] # req[b] /\ Proves(b)
=============================================================================
