--------------------------- MODULE PasswordResets ---------------------------
(***************************************************************************)
(* Recovering a password through a mailed link.                            *)
(*                                                                         *)
(* Asking for a link locks the account, looks for a link younger than a    *)
(* minute, consumes the older ones and inserts the new.  Using a link      *)
(* reads it, locks the account, then the link itself (the same order), and *)
(* consumes every link of the account.  now() is the time the transaction  *)
(* began, so a request judges ages as they were then.                      *)
(*                                                                         *)
(* Ghost: "uses" counts the passwords set through each link.  Left out:    *)
(* the mail (module Outbox), the rate limits, and the answer, which is the *)
(* same whether the account exists or not.                                 *)
(***************************************************************************)
EXTENDS Integers, FiniteSets

CONSTANTS
  Requests,  \* HTTP requests
  Users,     \* accounts
  MaxLinks,  \* bound on the serial of password_reset
  MaxUses,   \* bound on "uses", above what the properties allow
  None

BoundAssumption == MaxLinks \in Nat /\ MaxUses \in Nat \ {0, 1} /\ IsFiniteSet(Requests)

VARIABLES
  active,  \* user.is_active
  reset,   \* table password_reset
  uses,
  req

vars == <<active, reset, uses, req>>

Ids == 1 .. MaxLinks
Ages == {"fresh", "valid", "expired"}  \* within a minute, within 30, after
Links == [user : Users, used : BOOLEAN, age : Ages]
NoneAssumption == None \notin Users \union Links
Idle == [kind |-> "none", step |-> "idle", user |-> None, id |-> 0, old |-> {}, late |-> {}]

Issued == {i \in Ids : reset[i] # None}
Unissued == Ids \ Issued
NextId == CHOOSE i \in Unissued : \A j \in Unissued : i <= j
Of(u) == {i \in Issued : reset[i].user = u}
Open(u) == {i \in Of(u) : ~reset[i].used}

TypeOK ==
  /\ active \in [Users -> BOOLEAN]
  /\ reset \in [Ids -> Links \union {None}]
  /\ uses \in [Ids -> 0 .. MaxUses]
  /\ \A r \in Requests : /\ req[r].kind \in {"none", "forgot", "reset"}
                         /\ req[r].step \in {"idle", "begun", "one", "both"}
                         /\ req[r].id \in Ids \union {0}
  \* an account has at most one open link
  /\ \A u \in Users : Cardinality(Open(u)) <= 1

Init ==
  /\ active = [u \in Users |-> TRUE]
  /\ reset = [i \in Ids |-> None]
  /\ uses = [i \in Ids |-> 0]
  /\ req = [r \in Requests |-> Idle]

-----------------------------------------------------------------------------
(* Locks, in the order each kind of request takes them.                    *)

(* Mutant: using a link locks it before its account. *)
LinkFirst(kind) == IF kind = "reset" THEN <<"link", "account">> ELSE <<"account", "link">>

LockOrder(kind) == <<"account", "link">>

Holds(r, what) ==
  \/ req[r].step = "both"
  \/ req[r].step = "one" /\ LockOrder(req[r].kind)[1] = what

HoldsAccount(r, u) == req[r].user = u /\ Holds(r, "account")
HoldsLink(r, i) == /\ req[r].kind # "none" /\ Holds(r, "link")
                   /\ \/ req[r].id = i
                      \/ req[r].kind = "forgot" /\ req[r].step = "both" /\ i \in Open(req[r].user)

AccountFree(u) == \A r \in Requests : ~HoldsAccount(r, u)
LinksFree(links) == \A r \in Requests, i \in links : ~HoldsLink(r, i)

(* What a request still has to lock next.                                  *)
Wanted(r) == IF req[r].kind = "forgot" THEN Open(req[r].user) ELSE {req[r].id}
CanLock(r, n) == IF LockOrder(req[r].kind)[n] = "account"
                 THEN AccountFree(req[r].user) ELSE LinksFree(Wanted(r))

Go(r, step) == req' = [req EXCEPT ![r].step = step]
Finish(r) == req' = [req EXCEPT ![r] = Idle]

-----------------------------------------------------------------------------
(* POST /forgot-password.                                                  *)

BeginForgot(r, u) ==
  /\ req[r] = Idle
  /\ active[u]
  /\ Cardinality({x \in Requests : req[x].kind = "forgot"}) < Cardinality(Unissued)
  /\ req' = [req EXCEPT ![r] = [Idle EXCEPT !.kind = "forgot", !.step = "begun", !.user = u,
                                  !.old = {i \in Issued : reset[i].age # "fresh"}]]
  /\ UNCHANGED <<active, reset, uses>>

Recent(r) == Of(req[r].user) \ req[r].old

ForgotLock(r) ==
  /\ req[r].kind = "forgot" /\ req[r].step = "begun"
  /\ CanLock(r, 1)
  /\ active[req[r].user] /\ Recent(r) = {}
  /\ Go(r, "one")
  /\ UNCHANGED <<active, reset, uses>>

ForgotConsume(r) ==
  /\ req[r].kind = "forgot" /\ req[r].step = "one"
  /\ CanLock(r, 2)
  /\ Go(r, "both")
  /\ UNCHANGED <<active, reset, uses>>

Consumed(u) == Open(u)

Issue(r) ==
  LET u == req[r].user IN
  /\ req[r].kind = "forgot" /\ req[r].step = "both"
  /\ reset' = [i \in Ids |->
       IF i = NextId THEN [user |-> u, used |-> FALSE, age |-> "fresh"]
       ELSE IF i \in Consumed(u) THEN [reset[i] EXCEPT !.used = TRUE] ELSE reset[i]]
  /\ Finish(r)
  /\ UNCHANGED <<active, uses>>

-----------------------------------------------------------------------------
(* POST /reset-password.                                                   *)

BeginReset(r, i) ==
  /\ req[r] = Idle
  /\ i \in Issued
  /\ req' = [req EXCEPT ![r] = [Idle EXCEPT !.kind = "reset", !.step = "begun", !.id = i,
       !.user = reset[i].user, !.late = {j \in Issued : reset[j].age = "expired"}]]
  /\ UNCHANGED <<active, reset, uses>>

ResetLock(r) ==
  /\ req[r].kind = "reset" /\ req[r].step = "begun"
  /\ CanLock(r, 1)
  /\ Go(r, "one")
  /\ UNCHANGED <<active, reset, uses>>

(* Mutant: the link is judged as it was before the lock. *)
UsableUnseen(r) == req[r].id \notin req[r].late

Usable(r) == ~reset[req[r].id].used /\ req[r].id \notin req[r].late

ResetCheck(r) ==
  /\ req[r].kind = "reset" /\ req[r].step = "one"
  /\ CanLock(r, 2)
  /\ Usable(r)
  /\ Go(r, "both")
  /\ UNCHANGED <<active, reset, uses>>

(* The password of an account that was deactivated meanwhile stays, but    *)
(* the links are consumed.                                                 *)
Reset(r) ==
  LET i == req[r].id  u == req[r].user IN
  /\ req[r].kind = "reset" /\ req[r].step = "both"
  /\ uses[i] < MaxUses
  /\ uses' = [uses EXCEPT ![i] = IF active[u] THEN @ + 1 ELSE @]
  /\ reset' = [j \in Ids |-> IF j \in Open(u) THEN [reset[j] EXCEPT !.used = TRUE] ELSE reset[j]]
  /\ Finish(r)
  /\ UNCHANGED active

-----------------------------------------------------------------------------
(* A statement that finds nothing to do ends its request.                  *)

Refuse(r) ==
  /\ \/ req[r].kind = "forgot" /\ req[r].step = "begun" /\ CanLock(r, 1)
          /\ (~active[req[r].user] \/ Recent(r) # {})
     \/ req[r].kind = "reset" /\ req[r].step = "one" /\ CanLock(r, 2) /\ ~Usable(r)
  /\ Finish(r)
  /\ UNCHANGED <<active, reset, uses>>

Fail(r) ==
  /\ req[r] # Idle
  /\ Finish(r)
  /\ UNCHANGED <<active, reset, uses>>

(* The account is edited (its row is locked meanwhile); time passes.       *)
SetActive(u) ==
  /\ AccountFree(u)
  /\ active' = [active EXCEPT ![u] = ~@]
  /\ UNCHANGED <<reset, uses, req>>

Older(age) == IF age = "fresh" THEN "valid" ELSE "expired"

Age(i) ==
  /\ reset[i] # None /\ reset[i].age # "expired"
  /\ reset' = [reset EXCEPT ![i].age = Older(@)]
  /\ UNCHANGED <<active, uses, req>>

Step(r) == \/ ForgotLock(r) \/ ForgotConsume(r) \/ Issue(r)
           \/ ResetLock(r) \/ ResetCheck(r) \/ Reset(r) \/ Refuse(r)

Next ==
  \/ \E r \in Requests :
       \/ Step(r) \/ Fail(r)
       \/ \E u \in Users : BeginForgot(r, u)
       \/ \E i \in Ids : BeginReset(r, i)
  \/ \E u \in Users : SetActive(u)
  \/ \E i \in Ids : Age(i)

Spec == Init /\ [][Next]_vars

(* PostgreSQL serves the requests waiting for a lock in their order.       *)
FairSpec == Spec /\ \A r \in Requests : SF_vars(Step(r))

-----------------------------------------------------------------------------
(* Properties.                                                             *)

(* A link sets one password, however often it is sent at the same time.    *)
LinkUsedOnce == \A i \in Ids : uses[i] <= 1

(* A link sets no password once a newer one was mailed, also when both     *)
(* were in use at the same time.                                           *)
OnlyNewestResets == \A i \in Ids :
  uses'[i] > uses[i] => \A j \in Of(reset[i].user) : j <= i

(* An account gets at most one link a minute, however many requests ask.   *)
OneLinkAMinute == \A u \in Users : Cardinality({i \in Of(u) : reset[i].age = "fresh"}) <= 1

(* Asking and using never wait for each other: the account is locked       *)
(* before its links by both (routes/passwordRecovery.js).  No detection of *)
(* deadlocks is needed, and none is modelled.                              *)
RequestsEnd == \A r \in Requests : req[r].kind # "none" ~> req[r].kind = "none"
=============================================================================
