---------------------------- MODULE Invitations ----------------------------
(***************************************************************************)
(* Invitations to open an account, and the other ways accounts are made.   *)
(*                                                                         *)
(* Creating an invitation takes the advisory lock of the address, then the *)
(* guest's record, then the older invitation it revokes.  Accepting takes  *)
(* the invitation first, then the address, then the guest: the orders      *)
(* cross, and PostgreSQL ends the deadlock by aborting one.  Revoking is   *)
(* one UPDATE.  POST /users and createAccount insert accounts without the  *)
(* advisory lock.                                                          *)
(*                                                                         *)
(* An address is compared in lower case by the code and as written by the  *)
(* UNIQUE constraint, so an account keeps its spelling; an invitation's is *)
(* always lower case.  Ghost: "by", the invitation an account came from.   *)
(* Left out: name, role, the mail (module Outbox) and the creator's check, *)
(* which reads a row it does not lock.                                     *)
(***************************************************************************)
EXTENDS Integers, FiniteSets

CONSTANTS
  Requests,        \* HTTP requests
  Addresses,       \* e-mail addresses, in lower case
  Guests,          \* ids of table client
  MaxInvitations,  \* bound on the serial of user_invitation
  None

BoundAssumption == MaxInvitations \in Nat /\ IsFiniteSet(Requests)

VARIABLES
  account,     \* table "user"
  invitation,  \* table user_invitation
  active,      \* client.is_active
  req

vars == <<account, invitation, active, req>>

Ids == 1 .. MaxInvitations
Spellings == {"lower", "mixed"}
AccountRows == [address : Addresses, spelling : Spellings, guest : Guests \union {None},
                by : Ids \union {None}]
InvitationRows == [address : Addresses, guest : Guests \union {None},
                   used : BOOLEAN, expired : BOOLEAN]
NoneAssumption == None \notin Addresses \union Guests \union Ids \union InvitationRows

Idle == [kind |-> "none", step |-> "idle", address |-> None, spelling |-> None,
         guest |-> None, id |-> None]

Pending(i) == invitation[i] # None /\ ~invitation[i].used

TypeOK ==
  /\ account \subseteq AccountRows
  /\ invitation \in [Ids -> InvitationRows \union {None}]
  /\ active \in [Guests -> BOOLEAN]
  /\ \A r \in Requests : /\ req[r].kind \in {"none", "create", "accept", "account"}
                         /\ req[r].step \in {"idle", "begun", "row", "address", "guest"}
  \* the UNIQUE constraints, and the index invitation_pending_email
  /\ \A a, b \in account : a # b =>
       /\ <<a.address, a.spelling>> # <<b.address, b.spelling>>
       /\ a.guest = b.guest => a.guest = None
  /\ \A i, j \in Ids : i # j /\ Pending(i) /\ Pending(j) =>
       invitation[i].address # invitation[j].address

Init ==
  /\ account = {}
  /\ invitation = [i \in Ids |-> None]
  /\ active = [g \in Guests |-> TRUE]
  /\ req = [r \in Requests |-> Idle]

-----------------------------------------------------------------------------
(* Locks: what each transaction holds follows from its step.               *)

HoldsRow(r, i) == req[r].kind = "accept" /\ req[r].id = i /\ req[r].step # "begun"
HoldsAddress(r, a) == /\ req[r].kind \in {"create", "accept"} /\ req[r].address = a
                      /\ req[r].step \in {"address", "guest"}
HoldsGuest(r, g) == g # None /\ req[r].guest = g /\ req[r].step = "guest"

(* Mutant: a row read without FOR UPDATE. *)
AlwaysFree(x) == TRUE

RowFree(i) == \A r \in Requests : ~HoldsRow(r, i)
AddressFree(a) == \A r \in Requests : ~HoldsAddress(r, a)
GuestFree(g) == \A r \in Requests : ~HoldsGuest(r, g)

HasAccount(a) == \E x \in account : x.address = a
GuestHasAccount(g) == g # None /\ \E x \in account : x.guest = g
Taken(a, spelling, g) ==
  GuestHasAccount(g) \/ \E x \in account : x.address = a /\ x.spelling = spelling

Go(r, step) == req' = [req EXCEPT ![r].step = step]
Finish(r) == req' = [req EXCEPT ![r] = Idle]

(* An error, a refusal or a lost client: the transaction is rolled back.   *)
Fail(r) ==
  /\ req[r] # Idle
  /\ Finish(r)
  /\ UNCHANGED <<account, invitation, active>>

-----------------------------------------------------------------------------
(* POST /invitations.                                                      *)

Unissued == {i \in Ids : invitation[i] = None}
NextId == CHOOSE i \in Unissued : \A j \in Unissued : i <= j

BeginCreate(r, a, g) ==
  /\ req[r] = Idle
  /\ Cardinality({x \in Requests : req[x].kind = "create"}) < Cardinality(Unissued)
  /\ req' = [req EXCEPT ![r] =
       [Idle EXCEPT !.kind = "create", !.step = "begun", !.address = a, !.guest = g]]
  /\ UNCHANGED <<account, invitation, active>>

CreateAddress(r) ==
  /\ req[r].kind = "create" /\ req[r].step = "begun"
  /\ AddressFree(req[r].address)
  /\ ~HasAccount(req[r].address)
  /\ Go(r, "address")
  /\ UNCHANGED <<account, invitation, active>>

(* The guest's record, of both transactions.                               *)
LockGuest(r) ==
  LET g == req[r].guest IN
  /\ req[r].kind \in {"create", "accept"} /\ req[r].step = "address"
  /\ g # None => GuestFree(g) /\ active[g] /\ ~GuestHasAccount(g)
  /\ Go(r, "guest")
  /\ UNCHANGED <<account, invitation, active>>

Older(a) == {i \in Ids : Pending(i) /\ invitation[i].address = a}

Revoked(a) == Older(a)

Create(r) ==
  LET addr == req[r].address IN
  /\ req[r].kind = "create" /\ req[r].step = "guest"
  /\ \A i \in Older(addr) : RowFree(i)
  /\ invitation' = [i \in Ids |->
       IF i = NextId
       THEN [address |-> addr, guest |-> req[r].guest, used |-> FALSE, expired |-> FALSE]
       ELSE IF i \in Revoked(addr) THEN [invitation[i] EXCEPT !.used = TRUE]
       ELSE invitation[i]]
  /\ Finish(r)
  /\ UNCHANGED <<account, active>>

(* DELETE /invitations/:id, and 48 hours.                                  *)
Delete(i) ==
  /\ Pending(i) /\ RowFree(i)
  /\ invitation' = [invitation EXCEPT ![i].used = TRUE]
  /\ UNCHANGED <<account, active, req>>

Expire(i) ==
  /\ Pending(i) /\ ~invitation[i].expired
  /\ invitation' = [invitation EXCEPT ![i].expired = TRUE]
  /\ UNCHANGED <<account, active, req>>

-----------------------------------------------------------------------------
(* POST /accept-invitation: anyone who holds a link.                       *)

BeginAccept(r, i) ==
  /\ req[r] = Idle
  /\ invitation[i] # None
  /\ req' = [req EXCEPT ![r] = [Idle EXCEPT !.kind = "accept", !.step = "begun", !.id = i,
       !.address = invitation[i].address, !.spelling = "lower", !.guest = invitation[i].guest]]
  /\ UNCHANGED <<account, invitation, active>>

AcceptRow(r) ==
  LET i == req[r].id IN
  /\ req[r].kind = "accept" /\ req[r].step = "begun"
  /\ RowFree(i) /\ Pending(i) /\ ~invitation[i].expired
  /\ Go(r, "row")
  /\ UNCHANGED <<account, invitation, active>>

AcceptAddress(r) ==
  /\ req[r].kind = "accept" /\ req[r].step = "row"
  /\ AddressFree(req[r].address)
  /\ ~HasAccount(req[r].address)
  /\ Go(r, "address")
  /\ UNCHANGED <<account, invitation, active>>

Insert(r) ==
  /\ ~Taken(req[r].address, req[r].spelling, req[r].guest)
  /\ account' = account \union {[address |-> req[r].address, spelling |-> req[r].spelling,
                                 guest |-> req[r].guest, by |-> req[r].id]}

MarkUsed(i) == invitation' = [invitation EXCEPT ![i].used = TRUE]

Accept(r) ==
  /\ req[r].kind = "accept" /\ req[r].step = "guest"
  /\ Insert(r)
  /\ MarkUsed(req[r].id)
  /\ Finish(r)
  /\ UNCHANGED active

-----------------------------------------------------------------------------
(* Other writers.                                                          *)

(* POST /users: findByEmail compares the spelling, as the constraint does. *)
Register(a, spelling) ==
  /\ ~Taken(a, spelling, None)
  /\ account' = account \union {[address |-> a, spelling |-> spelling, guest |-> None,
                                 by |-> None]}
  /\ UNCHANGED <<invitation, active, req>>

(* PUT /users/:id may change the address of an employee's account.         *)
ChangeEmail(x, a, spelling) ==
  /\ x.guest = None
  /\ ~Taken(a, spelling, None)
  /\ account' = (account \ {x}) \union {[x EXCEPT !.address = a, !.spelling = spelling]}
  /\ UNCHANGED <<invitation, active, req>>

(* customerAccountService.createAccount.                                   *)
BeginAccount(r, g, a, spelling) ==
  /\ req[r] = Idle
  /\ GuestFree(g) /\ active[g] /\ ~GuestHasAccount(g) /\ ~HasAccount(a)
  /\ req' = [req EXCEPT ![r] = [Idle EXCEPT !.kind = "account", !.step = "guest",
               !.address = a, !.spelling = spelling, !.guest = g]]
  /\ UNCHANGED <<account, invitation, active>>

CreateAccount(r) ==
  /\ req[r].kind = "account"
  /\ Insert(r)
  /\ Finish(r)
  /\ UNCHANGED <<invitation, active>>

(* PUT /clients/:id and PATCH: is_active, one UPDATE of the row.           *)
SetActive(g) ==
  /\ GuestFree(g)
  /\ active' = [active EXCEPT ![g] = ~@]
  /\ UNCHANGED <<account, invitation, req>>

-----------------------------------------------------------------------------
(* A creation and an acceptance that wait for each other: PostgreSQL       *)
(* aborts one of them after deadlock_timeout.                              *)

WaitsForRow(r, x) == /\ req[r].kind = "create" /\ req[r].step = "guest"
                     /\ \E i \in Older(req[r].address) : HoldsRow(x, i)
WaitsForAddress(r, x) == /\ req[r].kind = "accept" /\ req[r].step = "row"
                         /\ HoldsAddress(x, req[r].address)

Deadlocked(r) == \E x \in Requests : \/ WaitsForRow(r, x) /\ WaitsForAddress(x, r)
                                     \/ WaitsForRow(x, r) /\ WaitsForAddress(r, x)

Abort(r) ==
  /\ Deadlocked(r)
  /\ Finish(r)
  /\ UNCHANGED <<account, invitation, active>>

(* A refusal, as opposed to a wait: the statement runs and the check fails.*)
Refused(r) ==
  LET addr == req[r].address  g == req[r].guest  i == req[r].id  s == req[r].step IN
  \/ s = "begun" /\ req[r].kind = "create" /\ AddressFree(addr) /\ HasAccount(addr)
  \/ s = "begun" /\ req[r].kind = "accept" /\ RowFree(i) /\ (~Pending(i) \/ invitation[i].expired)
  \/ s = "row" /\ AddressFree(addr) /\ HasAccount(addr)
  \/ s = "address" /\ g # None /\ GuestFree(g) /\ (~active[g] \/ GuestHasAccount(g))
  \/ s = "guest" /\ req[r].kind # "create" /\ Taken(addr, req[r].spelling, g)

Refuse(r) ==
  /\ Refused(r)
  /\ Finish(r)
  /\ UNCHANGED <<account, invitation, active>>

Step(r) == \/ CreateAddress(r) \/ LockGuest(r) \/ Create(r)
           \/ AcceptRow(r) \/ AcceptAddress(r) \/ Accept(r) \/ CreateAccount(r)
           \/ Refuse(r)

Next ==
  \/ \E r \in Requests :
       \/ Step(r) \/ Abort(r) \/ Fail(r)
       \/ \E a \in Addresses, g \in Guests \union {None} : BeginCreate(r, a, g)
       \/ \E i \in Ids : BeginAccept(r, i)
       \/ \E g \in Guests, a \in Addresses, s \in Spellings : BeginAccount(r, g, a, s)
  \/ \E i \in Ids : Delete(i) \/ Expire(i)
  \/ \E a \in Addresses, s \in Spellings :
       Register(a, s) \/ \E x \in account : ChangeEmail(x, a, s)
  \/ \E g \in Guests : SetActive(g)

Spec == Init /\ [][Next]_vars

(* PostgreSQL serves the requests waiting for a lock in their order, hence *)
(* SF; a deadlock is detected after deadlock_timeout.                      *)
FairSpec == Spec /\ \A r \in Requests : SF_vars(Step(r)) /\ WF_vars(Abort(r))

-----------------------------------------------------------------------------
(* Properties.                                                             *)

(* The account a step opens; an edit opens none. *)
Opened == IF Cardinality(account') > Cardinality(account) THEN account' \ account ELSE {}

(* A link opens one account, however many times and however concurrently   *)
(* it is used.                                                             *)
LinkOpensOne == \A i \in Ids : Cardinality({x \in account : x.by = i}) <= 1

(* A link that was replaced by a newer one or revoked opens nothing, even  *)
(* when it is being accepted while it is replaced.                         *)
OnlyNewestLink == \A x \in Opened :
  x.by # None =>
    /\ Pending(x.by)
    /\ \A j \in Ids : invitation[j] # None /\ invitation[j].address = x.address => j <= x.by

(* No account is opened for a guest whose record is being deactivated.     *)
NoAccountForInactive == \A x \in Opened :
  x.guest # None => active[x.guest]

(* Every request ends, although creations and acceptances take their locks *)
(* in opposite orders.                                                     *)
RequestsEnd == \A r \in Requests : req[r].kind # "none" ~> req[r].kind = "none"
=============================================================================
