------------------------------ MODULE Sessions ------------------------------
(***************************************************************************)
(* Accounts, the sessions opened with them, and their administration.      *)
(*                                                                         *)
(* A login reads the account, compares the password and only then, in a    *)
(* transaction of its own, inserts the session with the auth_version it    *)
(* read.  Every request resolves its session, reads the account again and  *)
(* compares the versions; what it does follows later.  Changes of role and *)
(* activation take the advisory lock 724001 first; a change of password is *)
(* one UPDATE; create-admin locks the table.                               *)
(*                                                                         *)
(* Ghost: a session remembers the password and the role it was opened      *)
(* with.  Left out: the second factor (module Mfa), the guest's own record,*)
(* expiry (a session that ends is Logout), and the tokens of /login, which *)
(* carry the same version and meet the same comparison.                    *)
(***************************************************************************)
EXTENDS Integers, FiniteSets

CONSTANTS
  Browsers,    \* each with one request at a time and one cookie
  Users,       \* ids of accounts
  SessionIds,
  Scripts,     \* runs of create-admin
  Passwords,
  MaxVersion,  \* bound on auth_version
  None

VersionAssumption == MaxVersion \in Nat

VARIABLES
  user,     \* table "user"
  session,  \* table web_session
  cookie,   \* the session each browser sends
  req,      \* the request each browser makes
  script    \* create-admin

vars == <<user, session, cookie, req, script>>

Roles == {"admin", "staff", "customer"}
Accounts == [role : Roles, active : BOOLEAN, version : 0 .. MaxVersion, password : Passwords,
             by : {"script", "admin"}]
SessionRows == [user : Users, version : 0 .. MaxVersion, password : Passwords, role : Roles]
NoneAssumption == None \notin Users \union SessionIds \union Accounts \union SessionRows

Active(u) == user[u] # None /\ user[u].active
ActiveAdmins == {u \in Users : Active(u) /\ user[u].role = "admin"}

Idle == [step |-> "idle", user |-> None, row |-> None, target |-> None, to |-> None]

TypeOK ==
  /\ user \in [Users -> Accounts \union {None}]
  /\ session \in [SessionIds -> SessionRows \union {None}]
  /\ cookie \in [Browsers -> SessionIds \union {None}]
  /\ \A b \in Browsers :
       /\ req[b].step \in {"idle", "verified", "resolved", "granted", "locked", "checked",
                           "changing"}
       /\ req[b].user \in Users \union {None}
       /\ req[b].step # "idle" => user[req[b].user] # None
  /\ script \in [Scripts -> {"begun", "locked", "done"}]

Account(role, password, by) ==
  [role |-> role, active |-> TRUE, version |-> 0, password |-> password, by |-> by]

(* A new installation, or one with administrators.                         *)
Init ==
  /\ \E admins \in SUBSET Users, p \in Passwords :
       user = [u \in Users |-> IF u \in admins THEN Account("admin", p, "admin") ELSE None]
  /\ session = [s \in SessionIds |-> None]
  /\ cookie = [b \in Browsers |-> None]
  /\ req = [b \in Browsers |-> Idle]
  /\ script = [k \in Scripts |-> "begun"]

-----------------------------------------------------------------------------
(* Locks: 724001, the row of the account being edited, and LOCK TABLE,     *)
(* which excludes every writer of the table.                               *)

(* Mutant: no advisory lock. *)
EditNotExcluded(b) == TRUE

NoOtherEdit(b) == \A x \in Browsers \ {b} : req[x].step \notin {"locked", "checked"}
RowFree(u) == \A x \in Browsers : req[x].step = "checked" => req[x].target # u
TableFree == \A k \in Scripts : script[k] # "locked"
Alone(k) == /\ \A j \in Scripts \ {k} : script[j] # "locked"
            /\ \A b \in Browsers : req[b].step # "checked"

Go(b, r) == req' = [req EXCEPT ![b] = r]
Finish(b) == Go(b, Idle)

-----------------------------------------------------------------------------
(* Logging in and out.                                                     *)

(* verifyPassword: one read gives the password and the version.            *)
LoginRead(b, u) ==
  /\ req[b] = Idle
  /\ Active(u)
  /\ Go(b, [Idle EXCEPT !.step = "verified", !.user = u, !.row = user[u]])
  /\ UNCHANGED <<user, session, cookie, script>>

(* Mutant: the version is read again when the session is inserted. *)
RowNow(b) == [req[b].row EXCEPT !.version = user[req[b].user].version]

RowRead(b) == req[b].row

(* sessionService.create replaces the session of the cookie.               *)
LoginInsert(b) ==
  /\ req[b].step = "verified"
  /\ \E s \in SessionIds :
       /\ session[s] = None
       /\ session' = [x \in SessionIds |->
            IF x = s THEN [user |-> req[b].user, version |-> RowRead(b).version,
                           password |-> RowRead(b).password, role |-> RowRead(b).role]
            ELSE IF x = cookie[b] THEN None ELSE session[x]]
       /\ cookie' = [cookie EXCEPT ![b] = s]
  /\ Finish(b)
  /\ UNCHANGED <<user, script>>

Fail(b) ==
  /\ req[b] # Idle
  /\ Finish(b)
  /\ UNCHANGED <<user, session, cookie, script>>

-----------------------------------------------------------------------------
(* middleware/auth: resolve the session, then read the account.            *)

Resolve(b) ==
  /\ req[b] = Idle
  /\ cookie[b] # None
  /\ session[cookie[b]] # None
  /\ Go(b, [Idle EXCEPT !.step = "resolved", !.user = session[cookie[b]].user,
                        !.row = session[cookie[b]]])
  /\ UNCHANGED <<user, session, cookie, script>>

Grants(b) == /\ Active(req[b].user)
             /\ req[b].row.version = user[req[b].user].version

Authenticate(b) ==
  /\ req[b].step = "resolved"
  /\ Grants(b)
  /\ req' = [req EXCEPT ![b].step = "granted", ![b].row = user[req[b].user]]
  /\ UNCHANGED <<user, session, cookie, script>>

(* sessionService.destroy and revoke: the cookie may stay behind.          *)
Logout(b) ==
  /\ req[b].step = "granted"
  /\ \E s \in SessionIds :
       /\ session[s] # None /\ session[s].user = req[b].user
       /\ session' = [session EXCEPT ![s] = None]
       /\ cookie' = [cookie EXCEPT ![b] = IF @ = s THEN None ELSE @]
  /\ Finish(b)
  /\ UNCHANGED <<user, script>>

-----------------------------------------------------------------------------
(* userController.changePassword: verify, then one UPDATE.                 *)

VerifyOld(b) ==
  /\ req[b].step = "granted"
  /\ req' = [req EXCEPT ![b].step = "changing"]
  /\ UNCHANGED <<user, session, cookie, script>>

UpdatePassword(u, p) ==
  user' = [user EXCEPT ![u].password = p, ![u].version = @ + 1]

ChangePassword(b) ==
  /\ req[b].step = "changing"
  /\ RowFree(req[b].user) /\ TableFree
  /\ user[req[b].user].version < MaxVersion
  /\ \E p \in Passwords : UpdatePassword(req[b].user, p)
  /\ Finish(b)
  /\ UNCHANGED <<session, cookie, script>>

-----------------------------------------------------------------------------
(* Administration: the role is that of the authentication.                 *)

BeginEdit(b, u) ==
  /\ req[b].step = "granted" /\ req[b].row.role = "admin"
  /\ NoOtherEdit(b)
  /\ user[u] # None /\ user[u].role # "customer"
  /\ \E role \in {"admin", "staff"}, active \in BOOLEAN :
       req' = [req EXCEPT ![b].step = "locked", ![b].target = u,
                          ![b].to = [role |-> role, active |-> active]]
  /\ UNCHANGED <<user, session, cookie, script>>

AnotherAdmin(u) == Cardinality(ActiveAdmins) > 1
Bumps(b) == \/ user[req[b].target].role # req[b].to.role
            \/ user[req[b].target].active # req[b].to.active

CheckEdit(b) ==
  LET u == req[b].target  to == req[b].to IN
  /\ req[b].step = "locked"
  /\ TableFree
  /\ RowFree(u)
  /\ u \in ActiveAdmins /\ (to.role # "admin" \/ ~to.active) => AnotherAdmin(u)
  /\ req' = [req EXCEPT ![b].step = "checked"]
  /\ UNCHANGED <<user, session, cookie, script>>

CommitEdit(b) ==
  LET u == req[b].target  to == req[b].to IN
  /\ req[b].step = "checked"
  /\ Bumps(b) => user[u].version < MaxVersion
  /\ user' = [user EXCEPT ![u].role = to.role, ![u].active = to.active,
                          ![u].version = IF Bumps(b) THEN @ + 1 ELSE @]
  /\ Finish(b)
  /\ UNCHANGED <<session, cookie, script>>

(* register, and customerAccountService.createAccount.                     *)
Register(b, u) ==
  /\ req[b].step = "granted" /\ req[b].row.role = "admin"
  /\ user[u] = None /\ TableFree
  /\ \E role \in Roles, p \in Passwords :
       user' = [user EXCEPT ![u] = Account(role, p, "admin")]
  /\ Finish(b)
  /\ UNCHANGED <<session, cookie, script>>

(* customerAccountService.changeAccess, one transaction.                   *)
ChangeAccess(b, u) ==
  /\ req[b].step = "granted" /\ req[b].row.role = "admin"
  /\ user[u] # None /\ user[u].role = "customer" /\ TableFree
  /\ user[u].version < MaxVersion
  /\ \E active \in BOOLEAN :
       user' = [user EXCEPT ![u].active = active, ![u].version = @ + 1]
  /\ session' = [s \in SessionIds |->
       IF session[s] # None /\ session[s].user = u THEN None ELSE session[s]]
  /\ Finish(b)
  /\ UNCHANGED <<cookie, script>>

-----------------------------------------------------------------------------
(* scripts/create-admin.                                                   *)

ScriptLock(k) ==
  /\ script[k] = "begun"
  /\ Alone(k)
  /\ \A u \in Users : user[u] # None => user[u].role # "admin"
  /\ script' = [script EXCEPT ![k] = "locked"]
  /\ UNCHANGED <<user, session, cookie, req>>

ScriptInsert(k) ==
  /\ script[k] = "locked"
  /\ \E u \in Users, p \in Passwords :
       user[u] = None /\ user' = [user EXCEPT ![u] = Account("admin", p, "script")]
  /\ script' = [script EXCEPT ![k] = "done"]
  /\ UNCHANGED <<session, cookie, req>>

Next ==
  \/ \E b \in Browsers :
       \/ LoginInsert(b) \/ Fail(b) \/ Resolve(b) \/ Authenticate(b) \/ Logout(b)
       \/ VerifyOld(b) \/ ChangePassword(b) \/ CheckEdit(b) \/ CommitEdit(b)
       \/ \E u \in Users :
            LoginRead(b, u) \/ BeginEdit(b, u) \/ Register(b, u) \/ ChangeAccess(b, u)
  \/ \E k \in Scripts : ScriptLock(k) \/ ScriptInsert(k)

Spec == Init /\ [][Next]_vars

-----------------------------------------------------------------------------
(* Properties.                                                             *)

(* A session the middleware would still accept was opened with the         *)
(* account's present password and for its present role, although the login *)
(* inserts it after, and outside, the read that verified the password.     *)
AcceptedSessionIsCurrent == \A s \in SessionIds :
  session[s] # None =>
    LET account == user[session[s].user] IN
    account.active /\ session[s].version = account.version =>
      session[s].password = account.password /\ session[s].role = account.role

(* Administrators may demote and deactivate each other, and themselves, at *)
(* the same time: one active administrator always remains.                 *)
AdministratorRemains == ActiveAdmins # {} => ActiveAdmins' # {}

(* However often create-admin is run at once, it makes one account.        *)
FirstAdministratorOnce ==
  Cardinality({u \in Users : user[u] # None /\ user[u].by = "script"}) <= 1

(* An account that was deactivated and activated again needs a new login:  *)
(* nothing accepted before is accepted after.                              *)
DeactivationEndsSessions == \A s \in SessionIds :
  session[s] # None /\ session'[s] = session[s]
    /\ ~user[session[s].user].active /\ user'[session[s].user].active =>
         session[s].version # user'[session[s].user].version
=============================================================================
