--------------------------- MODULE AccountsProofs ---------------------------
(* Proofs about PasswordResets, Invitations, Sessions and Mfa, as          *)
(* MCAccounts composes them, for any values of its constants.              *)
EXTENDS MCAccounts, FiniteSetTheorems, WellFoundedInduction, TLAPS

-----------------------------------------------------------------------------
(* Sets of at most one element, and the least of a set of numbers.         *)

LEMMA FewElements ==
  ASSUME NEW set, \A s, t \in set : s = t
  PROVE  IsFiniteSet(set) /\ Cardinality(set) \in Nat /\ Cardinality(set) <= 1
<1>1. CASE set = {}
  BY <1>1, FS_EmptySet
<1>2. CASE set # {}
  <2>1. PICK s \in set : TRUE
    BY <1>2
  <2>2. set = {s}
    BY <2>1
  <2>3. IsFiniteSet({s}) /\ Cardinality({s}) = 1
    BY FS_Singleton, Zenon
  <2> QED
    BY <2>2, <2>3
<1> QED
  BY <1>1, <1>2

LEMMA LeastExists ==
  ASSUME NEW set, set \subseteq Nat, set # {}
  PROVE  \E i \in set : \A j \in set : i <= j
<1>1. PICK i \in set : \A j \in set : ~ (<<j, i>> \in OpToRel(<, Nat))
  BY NatLessThanWellFounded, WFMin
<1>2. ASSUME NEW j \in set PROVE i <= j
  <2>1. ~ (<<j, i>> \in OpToRel(<, Nat))
    BY <1>1
  <2>2. ~ (j < i)
    BY <2>1 DEF OpToRel
  <2> QED
    BY <2>2
<1> QED
  BY <1>2

(* While requests that need an id are not more than the ids left, there is *)
(* a least one.                                                            *)
LEMMA LeastLeft ==
  ASSUME NEW n \in Nat, NEW left \in SUBSET (1 .. n), IsFiniteSet(Requests),
         NEW asking \in SUBSET Requests, NEW r \in asking,
         Cardinality(asking) <= Cardinality(left)
  PROVE  \E i \in left : \A j \in left : i <= j
<1>1. left \subseteq Nat /\ IsFiniteSet(left)
  <2>1. IsFiniteSet(1 .. n) /\ left \in SUBSET (1 .. n)
    BY FS_Interval
  <2>2. IsFiniteSet(left)
    BY <2>1, FS_Subset, Zenon
  <2> QED
    BY <2>2
<1>2. IsFiniteSet(asking)
  BY FS_Subset, Zenon
<1>3. Cardinality(asking) # 0 /\ Cardinality(asking) \in Nat
  BY <1>2, FS_EmptySet, FS_CardinalityType
<1>4. Cardinality(left) \in Nat
  BY <1>1, FS_CardinalityType
<1>5. Cardinality(left) # 0
  BY <1>3, <1>4
<1>6. left # {}
  BY <1>5, FS_EmptySet
<1> QED
  BY <1>1, <1>6, LeastExists

(* The instances have the same notions of finite sets as this module.      *)
LEMMA Finite ==
  ASSUME NEW set
  PROVE  /\ P!IsFiniteSet(set) <=> IsFiniteSet(set)
         /\ I!IsFiniteSet(set) <=> IsFiniteSet(set)
         /\ M!IsFiniteSet(set) <=> IsFiniteSet(set)
BY DEF P!IsFiniteSet, I!IsFiniteSet, M!IsFiniteSet, IsFiniteSet

LEMMA Counted ==
  ASSUME NEW set
  PROVE  /\ P!Cardinality(set) = Cardinality(set)
         /\ I!Cardinality(set) = Cardinality(set)
         /\ S!Cardinality(set) = Cardinality(set)
         /\ M!Cardinality(set) = Cardinality(set)
BY DEF P!Cardinality, I!Cardinality, S!Cardinality, M!Cardinality, Cardinality

-----------------------------------------------------------------------------
(* PasswordResets.                                                         *)

Kind(r, kind) == post[r].kind = kind
OnAccount(r) == post[r].step \in {"one", "both"}

PostRows == [kind : {"none", "forgot", "reset"}, step : {"idle", "begun", "one", "both"},
             user : Owners \union {None}, id : P!Ids \union {0},
             old : SUBSET P!Ids, late : SUBSET P!Ids]

(* A request is about an account; a reset, about a link of that account.   *)
PostKnown == \A r \in Requests :
  /\ Kind(r, "none") => post[r].step = "idle"
  /\ ~Kind(r, "none") => post[r].user \in Owners /\ post[r].step # "idle"
  /\ Kind(r, "reset") => post[r].id \in P!Of(post[r].user)

(* The lock of an account is exclusive.                                    *)
AccountAlone == \A r, x \in Requests :
  r # x /\ OnAccount(r) /\ OnAccount(x) => post[r].user # post[x].user

(* The open link of an account is its newest.                              *)
OpenNewest == \A u \in Owners : \A i \in P!Open(u) : \A j \in P!Of(u) : j <= i

(* Ids are issued in order, and enough are left for those who ask.         *)
IssuedInOrder == \A i \in P!Issued, j \in P!Ids : j < i => j \in P!Issued
Asking == {r \in Requests : Kind(r, "forgot")}
EnoughIds == Cardinality(Asking) <= Cardinality(P!Unissued)

(* A link that set a password is used.                                     *)
UsesKnown == \A i \in P!Ids :
  uses[i] > 0 => uses[i] = 1 /\ i \in P!Issued /\ reset[i].used

(* What a request found under the lock of the account is still so.         *)
ResetConclusive == \A r \in Requests :
  Kind(r, "reset") /\ post[r].step = "both" => ~reset[post[r].id].used
ForgotConclusive == \A r \in Requests : Kind(r, "forgot") =>
  /\ \A i \in post[r].old : i \in P!Issued /\ reset[i].age # "fresh"
  /\ OnAccount(r) => \A i \in P!Of(post[r].user) : reset[i].age # "fresh"

FreshAlone == \A u \in Owners : \A i, j \in P!Of(u) :
  reset[i].age = "fresh" /\ reset[j].age = "fresh" => i = j

PTyped ==
  /\ enabled \in [Owners -> BOOLEAN]
  /\ reset \in [P!Ids -> P!Links \union {None}]
  /\ uses \in [P!Ids -> 0 .. MaxUses]
  /\ post \in [Requests -> PostRows]

PInv ==
  /\ PTyped
  /\ PostKnown
  /\ AccountAlone
  /\ OpenNewest
  /\ IssuedInOrder
  /\ EnoughIds
  /\ UsesKnown
  /\ ResetConclusive
  /\ ForgotConclusive
  /\ FreshAlone

LEMMA ResetsInit == P!Init => PInv
<1> SUFFICES ASSUME P!Init PROVE PInv
  OBVIOUS
<1> USE ResetsAssumption DEF P!BoundAssumption, P!NoneAssumption
<1>1. PTyped
  BY DEF P!Init, PTyped, P!Idle, PostRows
<1>2. P!Issued = {} /\ Asking = {}
  BY DEF P!Init, P!Idle, P!Issued, Asking, Kind
<1>3. \A u : P!Of(u) = {} /\ P!Open(u) = {}
  BY <1>2 DEF P!Of, P!Open
<1>4. PostKnown /\ AccountAlone /\ ResetConclusive /\ ForgotConclusive /\ UsesKnown
  BY DEF P!Init, P!Idle, PostKnown, AccountAlone, ResetConclusive, ForgotConclusive, Kind,
         OnAccount, UsesKnown
<1>5. OpenNewest /\ FreshAlone /\ IssuedInOrder
  BY <1>2, <1>3 DEF OpenNewest, FreshAlone, IssuedInOrder
<1>6. EnoughIds
  <2>1. P!Unissued \in SUBSET P!Ids /\ IsFiniteSet(P!Ids)
    BY FS_Interval DEF P!Unissued, P!Ids
  <2>2. Cardinality(P!Unissued) \in Nat
    BY <2>1, FS_Subset, FS_CardinalityType
  <2> QED
    BY <1>2, <2>2, FS_EmptySet DEF EnoughIds
<1> QED
  BY <1>1, <1>4, <1>5, <1>6 DEF PInv

(* The least id that is left is above every id that was issued.            *)
LEMMA NextLink ==
  ASSUME PInv, NEW r \in Requests, Kind(r, "forgot")
  PROVE  /\ P!NextId \in P!Unissued
         /\ \A i \in P!Issued : i < P!NextId
         /\ \A i \in P!Ids : i < P!NextId => i \in P!Issued
<1> USE ResetsAssumption DEF P!BoundAssumption
<1>4. \E i \in P!Unissued : \A j \in P!Unissued : i <= j
  <2>1. P!Unissued \in SUBSET (1 .. MaxLinks) /\ Asking \in SUBSET Requests /\ r \in Asking
    BY DEF P!Unissued, P!Ids, Asking
  <2>2. IsFiniteSet(Requests) /\ MaxLinks \in Nat
    BY Finite
  <2>3. Cardinality(Asking) <= Cardinality(P!Unissued)
    BY DEF PInv, EnoughIds
  <2> QED
    BY <2>1, <2>2, <2>3, LeastLeft
<1>5. P!NextId \in P!Unissued /\ \A j \in P!Unissued : P!NextId <= j
  BY <1>4 DEF P!NextId
<1>6. \A i \in P!Ids : i \in P!Issued \/ i \in P!Unissued
  BY DEF P!Unissued
<1>7. P!NextId \in P!Ids /\ P!NextId \notin P!Issued
  BY <1>5 DEF P!Unissued
<1>8. \A i \in P!Ids : i \in Int
  BY DEF P!Ids
<1>9. \A i \in P!Issued : i \in P!Ids
  BY DEF P!Issued
<1> QED
  BY <1>5, <1>6, <1>7, <1>8, <1>9 DEF PInv, IssuedInOrder

(* A step that writes no link: what the row of its request has to satisfy. *)
LEMMA RequestGoesOn ==
  ASSUME PInv, PTyped', UNCHANGED <<reset, uses>>,
         NEW r \in Requests, NEW row \in PostRows, post' = [post EXCEPT ![r] = row],
         row.kind = "none" => row.step = "idle",
         row.kind # "none" => row.user \in Owners /\ row.step # "idle",
         row.kind = "reset" => row.id \in P!Of(row.user),
         row.kind = "reset" /\ row.step = "both" => ~reset[row.id].used,
         row.step \in {"one", "both"} => \A x \in Requests :
           x # r /\ OnAccount(x) => post[x].user # row.user,
         row.kind = "forgot" =>
           /\ Kind(r, "forgot") \/ Cardinality(Asking) < Cardinality(P!Unissued)
           /\ \A i \in row.old : i \in P!Issued /\ reset[i].age # "fresh"
           /\ row.step \in {"one", "both"} => \A i \in P!Of(row.user) : reset[i].age # "fresh"
  PROVE  PInv'
<1>1. /\ P!Issued' = P!Issued /\ P!Unissued' = P!Unissued
      /\ \A u : P!Of(u)' = P!Of(u) /\ P!Open(u)' = P!Open(u)
  BY DEF P!Issued, P!Unissued, P!Of, P!Open
<1>2. /\ post'[r] = row
      /\ \A x \in Requests : x # r => post'[x] = post[x]
  BY DEF PInv, PTyped
<1>3. PostKnown'
  BY <1>1, <1>2 DEF PInv, PostKnown, Kind
<1>4. AccountAlone'
  BY <1>2 DEF PInv, AccountAlone, OnAccount
<1>5. OpenNewest' /\ IssuedInOrder'
  BY <1>1 DEF PInv, OpenNewest, IssuedInOrder
<1>6. FreshAlone' /\ UsesKnown'
  BY <1>1 DEF PInv, FreshAlone, UsesKnown
<1>7. ResetConclusive'
  BY <1>2 DEF PInv, ResetConclusive, Kind
<1>8. ForgotConclusive'
  BY <1>1, <1>2 DEF PInv, ForgotConclusive, Kind, OnAccount
<1>9. EnoughIds'
  <2>1. IsFiniteSet(Asking) /\ Cardinality(Asking) \in Nat
    <3>1. Asking \in SUBSET Requests /\ IsFiniteSet(Requests)
      BY ResetsAssumption, Finite DEF P!BoundAssumption, Asking
    <3> QED
      BY <3>1, FS_Subset, FS_CardinalityType, Zenon
  <2>2. Cardinality(P!Unissued) \in Nat
    <3>1. P!Unissued \in SUBSET P!Ids /\ IsFiniteSet(P!Ids)
      BY ResetsAssumption, FS_Interval DEF P!BoundAssumption, P!Unissued, P!Ids
    <3> QED
      BY <3>1, FS_Subset, FS_CardinalityType, Zenon
  <2>3. CASE row.kind = "forgot"
    <3>1. Asking' = Asking \union {r}
      BY <1>2, <2>3 DEF Asking, Kind
    <3>2. Cardinality(Asking') = IF r \in Asking THEN Cardinality(Asking) ELSE
            Cardinality(Asking) + 1
      BY <2>1, <3>1, FS_AddElement
    <3>3. Kind(r, "forgot") <=> r \in Asking
      BY DEF Asking
    <3> QED
      BY <1>1, <2>1, <2>2, <2>3, <3>2, <3>3 DEF PInv, EnoughIds
  <2>4. CASE row.kind # "forgot"
    <3>1. Asking' \in SUBSET Asking
      BY <1>2, <2>4 DEF Asking, Kind
    <3>2. Cardinality(Asking') <= Cardinality(Asking) /\ Cardinality(Asking') \in Nat
      BY <2>1, <3>1, FS_Subset, FS_CardinalityType
    <3> QED
      BY <1>1, <2>1, <2>2, <3>2 DEF PInv, EnoughIds
  <2> QED
    BY <2>3, <2>4
<1> QED
  BY <1>3, <1>4, <1>5, <1>6, <1>7, <1>8, <1>9 DEF PInv

LEMMA AccountIsFree ==
  \A u \in Owners : P!AccountFree(u) =>
    \A x \in Requests : OnAccount(x) => post[x].user # u
BY DEF P!AccountFree, P!HoldsAccount, P!Holds, P!LockOrder, OnAccount

LEMMA FirstLock ==
  ASSUME PInv, NEW r \in Requests, ~Kind(r, "none"), P!CanLock(r, 1)
  PROVE  \A x \in Requests : OnAccount(x) => post[x].user # post[r].user
<1>1. P!LockOrder(post[r].kind)[1] = "account"
  BY DEF P!LockOrder
<1>2. P!AccountFree(post[r].user) /\ post[r].user \in Owners
  BY <1>1 DEF P!CanLock, PInv, PostKnown
<1> QED
  BY <1>2, AccountIsFree

LEMMA IdlePost == P!Idle \in PostRows /\ P!Idle.kind = "none" /\ P!Idle.step = "idle"
BY DEF P!Idle, PostRows

LEMMA RequestFinishes ==
  ASSUME PInv, UNCHANGED <<enabled, reset, uses>>, NEW r \in Requests,
         post' = [post EXCEPT ![r] = P!Idle]
  PROVE  PInv'
<1>1. PTyped'
  BY IdlePost DEF PInv, PTyped
<1> QED
  BY <1>1, IdlePost, RequestGoesOn

LEMMA AskingSteps ==
  ASSUME PInv, NEW r \in Requests
  PROVE  /\ \A u \in Owners : P!BeginForgot(r, u) => PInv'
         /\ P!ForgotLock(r) => PInv'
         /\ P!ForgotConsume(r) => PInv'
<1> USE ResetsAssumption DEF P!BoundAssumption
<1>1. ASSUME NEW u \in Owners, P!BeginForgot(r, u) PROVE PInv'
  <2> DEFINE row == [P!Idle EXCEPT !.kind = "forgot", !.step = "begun", !.user = u,
                       !.old = {i \in P!Issued : reset[i].age # "fresh"}]
  <2>1. row \in PostRows
    BY IdlePost DEF PostRows, P!Issued
  <2>2. post' = [post EXCEPT ![r] = row] /\ UNCHANGED <<enabled, reset, uses>>
    BY <1>1 DEF P!BeginForgot
  <2>3. PTyped'
    BY <2>1, <2>2 DEF PInv, PTyped
  <2>4. Cardinality(Asking) < Cardinality(P!Unissued)
    BY <1>1, Counted DEF P!BeginForgot, Asking, Kind
  <2>5. \A i \in row.old : i \in P!Issued /\ reset[i].age # "fresh"
    BY DEF P!Idle
  <2>6. row.kind = "forgot" /\ row.step = "begun" /\ row.user = u
    BY DEF P!Idle
  <2> HIDE DEF row
  <2> QED
    BY <2>1, <2>2, <2>3, <2>4, <2>5, <2>6, RequestGoesOn
<1>2. ASSUME P!ForgotLock(r) PROVE PInv'
  <2> DEFINE row == [post[r] EXCEPT !.step = "one"]
  <2>1. post[r] \in PostRows /\ Kind(r, "forgot") /\ post[r].user \in Owners
    BY <1>2 DEF PInv, PTyped, P!ForgotLock, Kind, PostKnown
  <2>2. row \in PostRows
    BY <2>1 DEF PostRows
  <2>3. post' = [post EXCEPT ![r] = row] /\ UNCHANGED <<enabled, reset, uses>>
    BY <1>2, <2>1 DEF P!ForgotLock, P!Go, PInv, PTyped, PostRows
  <2>4. PTyped'
    BY <2>2, <2>3 DEF PInv, PTyped
  <2>5. \A x \in Requests : OnAccount(x) => post[x].user # post[r].user
    BY <1>2, <2>1, FirstLock DEF P!ForgotLock, Kind
  <2>6. \A i \in P!Of(post[r].user) : reset[i].age # "fresh"
    <3>1. P!Of(post[r].user) \subseteq post[r].old
      BY <1>2 DEF P!ForgotLock, P!Recent
    <3> QED
      BY <2>1, <3>1 DEF PInv, ForgotConclusive
  <2>7. \A i \in post[r].old : i \in P!Issued /\ reset[i].age # "fresh"
    BY <2>1 DEF PInv, ForgotConclusive
  <2>8. row.kind = "forgot" /\ row.step = "one" /\ row.user = post[r].user /\ row.old = post[r].old
    BY <2>1 DEF Kind, PostRows
  <2> HIDE DEF row
  <2> QED
    BY <2>1, <2>2, <2>3, <2>4, <2>5, <2>6, <2>7, <2>8, RequestGoesOn
<1>3. ASSUME P!ForgotConsume(r) PROVE PInv'
  <2> DEFINE row == [post[r] EXCEPT !.step = "both"]
  <2>1. post[r] \in PostRows /\ Kind(r, "forgot") /\ post[r].user \in Owners /\ OnAccount(r)
    BY <1>3 DEF PInv, PTyped, P!ForgotConsume, Kind, PostKnown, OnAccount
  <2>2. row \in PostRows
    BY <2>1 DEF PostRows
  <2>3. post' = [post EXCEPT ![r] = row] /\ UNCHANGED <<enabled, reset, uses>>
    BY <1>3, <2>1 DEF P!ForgotConsume, P!Go, PInv, PTyped, PostRows
  <2>4. PTyped'
    BY <2>2, <2>3 DEF PInv, PTyped
  <2>5. \A x \in Requests : x # r /\ OnAccount(x) => post[x].user # post[r].user
    BY <2>1 DEF PInv, AccountAlone
  <2>6. /\ \A i \in P!Of(post[r].user) : reset[i].age # "fresh"
        /\ \A i \in post[r].old : i \in P!Issued /\ reset[i].age # "fresh"
    BY <2>1 DEF PInv, ForgotConclusive
  <2>8. row.kind = "forgot" /\ row.step = "both" /\ row.user = post[r].user /\ row.old = post[r].old
    BY <2>1 DEF Kind, PostRows
  <2> HIDE DEF row
  <2> QED
    BY <2>1, <2>2, <2>3, <2>4, <2>5, <2>6, <2>8, RequestGoesOn
<1> QED
  BY <1>1, <1>2, <1>3

LEMMA ResettingSteps ==
  ASSUME PInv, NEW r \in Requests
  PROVE  /\ \A i \in P!Ids : P!BeginReset(r, i) => PInv'
         /\ P!ResetLock(r) => PInv'
         /\ P!ResetCheck(r) => PInv'
<1> USE ResetsAssumption DEF P!BoundAssumption
<1>1. ASSUME NEW i \in P!Ids, P!BeginReset(r, i) PROVE PInv'
  <2> DEFINE row == [P!Idle EXCEPT !.kind = "reset", !.step = "begun", !.id = i,
                       !.user = reset[i].user, !.late = {j \in P!Issued : reset[j].age = "expired"}]
  <2>1. i \in P!Issued /\ reset[i] \in P!Links
    BY <1>1 DEF P!BeginReset, P!Issued, PInv, PTyped
  <2>2. reset[i].user \in Owners /\ i \in P!Of(reset[i].user)
    BY <2>1 DEF P!Links, P!Of
  <2>3. row \in PostRows
    BY <2>2, IdlePost DEF PostRows, P!Issued
  <2>4. post' = [post EXCEPT ![r] = row] /\ UNCHANGED <<enabled, reset, uses>>
    BY <1>1 DEF P!BeginReset
  <2>5. PTyped'
    BY <2>3, <2>4 DEF PInv, PTyped
  <2>6. row.kind = "reset" /\ row.step = "begun" /\ row.user = reset[i].user /\ row.id = i
    BY DEF P!Idle
  <2> HIDE DEF row
  <2> QED
    BY <2>2, <2>3, <2>4, <2>5, <2>6, RequestGoesOn
<1>2. ASSUME P!ResetLock(r) PROVE PInv'
  <2> DEFINE row == [post[r] EXCEPT !.step = "one"]
  <2>1. /\ post[r] \in PostRows /\ Kind(r, "reset") /\ post[r].user \in Owners
        /\ post[r].id \in P!Of(post[r].user)
    BY <1>2 DEF PInv, PTyped, P!ResetLock, Kind, PostKnown
  <2>2. row \in PostRows
    BY <2>1 DEF PostRows
  <2>3. post' = [post EXCEPT ![r] = row] /\ UNCHANGED <<enabled, reset, uses>>
    BY <1>2, <2>1 DEF P!ResetLock, P!Go, PInv, PTyped, PostRows
  <2>4. PTyped'
    BY <2>2, <2>3 DEF PInv, PTyped
  <2>5. \A x \in Requests : OnAccount(x) => post[x].user # post[r].user
    BY <1>2, <2>1, FirstLock DEF P!ResetLock, Kind
  <2>6. row.kind = "reset" /\ row.step = "one" /\ row.user = post[r].user /\ row.id = post[r].id
    BY <2>1 DEF Kind, PostRows
  <2> HIDE DEF row
  <2> QED
    BY <2>1, <2>2, <2>3, <2>4, <2>5, <2>6, RequestGoesOn
<1>3. ASSUME P!ResetCheck(r) PROVE PInv'
  <2> DEFINE row == [post[r] EXCEPT !.step = "both"]
  <2>1. /\ post[r] \in PostRows /\ Kind(r, "reset") /\ post[r].user \in Owners
        /\ post[r].id \in P!Of(post[r].user) /\ OnAccount(r)
    BY <1>3 DEF PInv, PTyped, P!ResetCheck, Kind, PostKnown, OnAccount
  <2>2. row \in PostRows
    BY <2>1 DEF PostRows
  <2>3. post' = [post EXCEPT ![r] = row] /\ UNCHANGED <<enabled, reset, uses>>
    BY <1>3, <2>1 DEF P!ResetCheck, P!Go, PInv, PTyped, PostRows
  <2>4. PTyped'
    BY <2>2, <2>3 DEF PInv, PTyped
  <2>5. \A x \in Requests : x # r /\ OnAccount(x) => post[x].user # post[r].user
    BY <2>1 DEF PInv, AccountAlone
  <2>6. ~reset[post[r].id].used
    BY <1>3 DEF P!ResetCheck, P!Usable
  <2>7. row.kind = "reset" /\ row.step = "both" /\ row.user = post[r].user /\ row.id = post[r].id
    BY <2>1 DEF Kind, PostRows
  <2> HIDE DEF row
  <2> QED
    BY <2>1, <2>2, <2>3, <2>4, <2>5, <2>6, <2>7, RequestGoesOn
<1> QED
  BY <1>1, <1>2, <1>3

(* Finishing the request that holds an account, with its links consumed.   *)
LEMMA IssueStep == ASSUME PInv, NEW r \in Requests, P!Issue(r) PROVE PInv'
<1> USE ResetsAssumption DEF P!BoundAssumption
<1> DEFINE u == post[r].user  n == P!NextId
<1>1. /\ Kind(r, "forgot") /\ OnAccount(r) /\ u \in Owners
      /\ n \in P!Ids /\ n \in P!Unissued /\ n \notin P!Issued
  <2>1. Kind(r, "forgot") /\ OnAccount(r)
    BY DEF P!Issue, Kind, OnAccount
  <2>2. u \in Owners
    BY <2>1 DEF PInv, PostKnown, Kind
  <2>3. n \in P!Unissued
    BY <2>1, NextLink
  <2> QED
    BY <2>1, <2>2, <2>3 DEF P!Unissued
<1>2. /\ post' = [post EXCEPT ![r] = P!Idle] /\ UNCHANGED <<enabled, uses>>
      /\ reset' = [i \in P!Ids |->
           IF i = n THEN [user |-> u, used |-> FALSE, age |-> "fresh"]
           ELSE IF i \in P!Open(u) THEN [reset[i] EXCEPT !.used = TRUE] ELSE reset[i]]
  BY DEF P!Issue, P!Finish, P!Consumed
<1>3. reset \in [P!Ids -> P!Links \union {None}] /\ P!Issued \subseteq P!Ids
  BY DEF PInv, PTyped, P!Issued
<1>4. /\ reset'[n] = [user |-> u, used |-> FALSE, age |-> "fresh"]
      /\ reset'[n] \in P!Links /\ reset'[n] # None
  <2>1. reset'[n] = [user |-> u, used |-> FALSE, age |-> "fresh"]
    BY <1>1, <1>2
  <2>2. [user |-> u, used |-> FALSE, age |-> "fresh"] \in P!Links
    BY <1>1 DEF P!Links, P!Ages
  <2>3. None \notin P!Links
    BY DEF P!NoneAssumption
  <2> QED
    BY <2>1, <2>2, <2>3
<1>5. \A i \in P!Issued :
        /\ reset[i] \in P!Links /\ reset'[i] \in P!Links /\ reset'[i] # None
        /\ reset'[i].user = reset[i].user /\ reset'[i].age = reset[i].age
        /\ reset'[i].used = (reset[i].used \/ i \in P!Open(u))
  <2> SUFFICES ASSUME NEW i \in P!Issued
      PROVE  /\ reset[i] \in P!Links /\ reset'[i] \in P!Links /\ reset'[i] # None
             /\ reset'[i].user = reset[i].user /\ reset'[i].age = reset[i].age
             /\ reset'[i].used = (reset[i].used \/ i \in P!Open(u))
    OBVIOUS
  <2>1. reset[i] \in P!Links /\ i # n /\ i \in P!Ids
    BY <1>1, <1>3 DEF P!Issued
  <2>2. CASE i \in P!Open(u)
    <3>1. reset'[i] = [reset[i] EXCEPT !.used = TRUE]
      BY <1>2, <2>1, <2>2
    <3> QED
      BY <2>1, <2>2, <3>1 DEF P!Links, P!NoneAssumption
  <2>3. CASE i \notin P!Open(u)
    <3>1. reset'[i] = reset[i]
      BY <1>2, <2>1, <2>3
    <3> QED
      BY <2>1, <2>3, <3>1 DEF P!Links, P!Issued
  <2> QED
    BY <2>2, <2>3
<1>6. \A i \in P!Unissued : i # n => reset'[i] = None
  BY <1>2 DEF P!Unissued, P!Issued, P!Open, P!Of
<1>7. P!Issued' = P!Issued \union {n} /\ P!Unissued' = P!Unissued \ {n}
  <2>1. P!Issued' = P!Issued \union {n}
    BY <1>1, <1>3, <1>4, <1>5, <1>6 DEF P!Issued, P!Unissued
  <2> QED
    BY <2>1 DEF P!Unissued
<1>8. \A v \in Owners :
        P!Of(v)' = IF v = u THEN P!Of(v) \union {n} ELSE P!Of(v)
  BY <1>1, <1>4, <1>5, <1>7 DEF P!Of
<1>9. \A v \in Owners : P!Open(v)' = IF v = u THEN {n} ELSE P!Open(v)
  <2>1. P!Of(u) \subseteq P!Issued /\ ~reset'[n].used
    BY <1>4 DEF P!Of
  <2>2. \A i \in P!Of(u) : reset'[i].used
    BY <1>5, <2>1 DEF P!Open
  <2>3. ASSUME NEW v \in Owners, v = u PROVE P!Open(v)' = {n}
    <3>1. P!Of(v)' = P!Of(v) \union {n} /\ \A i \in P!Of(v) : reset'[i].used
      BY <1>8, <2>2, <2>3
    <3> QED
      BY <2>1, <3>1 DEF P!Open
  <2>4. ASSUME NEW v \in Owners, v # u PROVE P!Open(v)' = P!Open(v)
    <3>1. P!Of(v)' = P!Of(v) /\ P!Of(v) \subseteq P!Issued
      BY <1>8, <2>4 DEF P!Of
    <3>2. \A i \in P!Of(v) : i \notin P!Open(u)
      BY <2>4 DEF P!Open, P!Of
    <3>3. \A i \in P!Of(v) : reset'[i].used = reset[i].used
      BY <1>5, <3>1, <3>2 DEF P!Links
    <3> QED
      BY <3>1, <3>3 DEF P!Open
  <2> QED
    BY <2>3, <2>4
<1>10. post'[r] = P!Idle /\ \A x \in Requests : x # r => post'[x] = post[x]
  BY <1>2 DEF PInv, PTyped
<1>11. \A x \in Requests : x # r /\ OnAccount(x) => post[x].user # u
  BY <1>1 DEF PInv, AccountAlone
<1> HIDE DEF u, n
<1>12. PTyped'
  <2>1. reset' \in [P!Ids -> P!Links \union {None}]
    <3>1. reset' = [i \in P!Ids |-> reset'[i]]
      BY <1>2
    <3>2. \A i \in P!Ids : reset'[i] \in P!Links \union {None}
      BY <1>4, <1>5, <1>6 DEF P!Unissued
    <3> QED
      BY <3>1, <3>2
  <2> QED
    BY <1>2, <2>1, IdlePost DEF PInv, PTyped
<1>13. PostKnown'
  BY <1>7, <1>8, <1>10, IdlePost DEF PInv, PostKnown, Kind
<1>14. AccountAlone'
  BY <1>10, IdlePost DEF PInv, AccountAlone, OnAccount
<1>15. OpenNewest'
  <2>1. \A i \in P!Issued : i < n
    BY <1>1, NextLink DEF n
  <2>2. \A v \in Owners : P!Of(v) \subseteq P!Issued
    BY DEF P!Of
  <2>3. n \in Int /\ \A i \in P!Issued : i \in Int
    BY <1>1, <1>3 DEF P!Ids
  <2> QED
    BY <1>8, <1>9, <2>1, <2>2, <2>3 DEF PInv, OpenNewest
<1>16. IssuedInOrder'
  <2>1. \A i \in P!Ids : i < n => i \in P!Issued
    BY <1>1, NextLink DEF n
  <2> QED
    BY <1>7, <2>1 DEF PInv, IssuedInOrder
<1>17. EnoughIds'
  <2>1. Asking' = Asking \ {r} /\ r \in Asking
    BY <1>1, <1>10, IdlePost DEF Asking, Kind
  <2>2. IsFiniteSet(Asking) /\ IsFiniteSet(P!Unissued)
    <3>1. Asking \in SUBSET Requests /\ IsFiniteSet(Requests)
      BY Finite DEF Asking
    <3>2. P!Unissued \in SUBSET P!Ids /\ IsFiniteSet(P!Ids)
      BY FS_Interval DEF P!Unissued, P!Ids
    <3> QED
      BY <3>1, <3>2, FS_Subset, Zenon
  <2>3. /\ Cardinality(Asking \ {r}) = Cardinality(Asking) - 1
        /\ Cardinality(P!Unissued \ {n}) = Cardinality(P!Unissued) - 1
    BY <1>1, <2>1, <2>2, FS_RemoveElement
  <2>4. Cardinality(Asking) \in Nat /\ Cardinality(P!Unissued) \in Nat
    BY <2>2, FS_CardinalityType
  <2> QED
    BY <1>7, <2>1, <2>3, <2>4 DEF PInv, EnoughIds
<1>18. UsesKnown'
  BY <1>2, <1>5, <1>7 DEF PInv, UsesKnown
<1>19. ResetConclusive'
  <2> SUFFICES ASSUME NEW x \in Requests, Kind(x, "reset")', post'[x].step = "both"
      PROVE  ~reset'[post'[x].id].used
    BY DEF ResetConclusive
  <2>1. x # r /\ post'[x] = post[x]
    BY <1>10, IdlePost DEF Kind
  <2>2. Kind(x, "reset") /\ OnAccount(x) /\ ~reset[post[x].id].used
    BY <2>1 DEF Kind, OnAccount, PInv, ResetConclusive
  <2>3. post[x].id \in P!Of(post[x].user) /\ post[x].user # u
    BY <1>11, <2>1, <2>2 DEF PInv, PostKnown
  <2>4. post[x].id \in P!Issued /\ post[x].id \notin P!Open(u)
    BY <2>3 DEF P!Of, P!Open
  <2> QED
    BY <1>5, <2>1, <2>2, <2>4
<1>20. ForgotConclusive'
  <2> SUFFICES ASSUME NEW x \in Requests, Kind(x, "forgot")'
      PROVE  /\ \A i \in post'[x].old : i \in P!Issued' /\ reset'[i].age # "fresh"
             /\ OnAccount(x)' => \A i \in P!Of(post[x].user)' : reset'[i].age # "fresh"
    BY DEF ForgotConclusive
  <2>1. x # r /\ post'[x] = post[x] /\ Kind(x, "forgot")
    BY <1>10, IdlePost DEF Kind
  <2>2. \A i \in post[x].old : i \in P!Issued /\ reset[i].age # "fresh"
    BY <2>1 DEF PInv, ForgotConclusive
  <2>3. post[x].user \in Owners
    BY <2>1 DEF PInv, PostKnown, Kind
  <2>4. ASSUME OnAccount(x) PROVE \A i \in P!Of(post[x].user)' : reset'[i].age # "fresh"
    <3>0. P!Of(post[x].user)' = {i \in P!Issued' : reset'[i].user = post[x].user}
      BY <2>1 DEF P!Of
    <3>1. post[x].user # u /\ \A i \in P!Of(post[x].user) : reset[i].age # "fresh"
      BY <1>11, <2>1, <2>4 DEF PInv, ForgotConclusive
    <3>2. P!Of(post[x].user)' = P!Of(post[x].user)
      BY <1>8, <2>1, <2>3, <3>1
    <3> QED
      BY <1>5, <3>1, <3>2 DEF P!Of
  <2> QED
    BY <1>5, <1>7, <2>1, <2>2, <2>4 DEF OnAccount
<1>21. FreshAlone'
  <2>1. \A i \in P!Of(u) : reset[i].age # "fresh"
    BY <1>1 DEF PInv, ForgotConclusive, u
  <2>2. \A v \in Owners : P!Of(v) \subseteq P!Issued
    BY DEF P!Of
  <2> QED
    BY <1>5, <1>8, <2>1, <2>2 DEF PInv, FreshAlone
<1> QED
  BY <1>12, <1>13, <1>14, <1>15, <1>16, <1>17, <1>18, <1>19, <1>20, <1>21 DEF PInv

LEMMA ResetStep == ASSUME PInv, NEW r \in Requests, P!Reset(r) PROVE PInv'
<1> USE ResetsAssumption DEF P!BoundAssumption
<1>1. PICK u \in Owners : u = post[r].user
  BY DEF P!Reset, PInv, PostKnown, Kind
<1>2. PICK n \in P!Ids : n = post[r].id /\ n \in P!Of(u) /\ n \in P!Open(u)
  <2>1. post[r].id \in P!Of(u) /\ ~reset[post[r].id].used
    BY <1>1 DEF P!Reset, PInv, PostKnown, ResetConclusive, Kind
  <2> QED
    BY <2>1 DEF P!Of, P!Open, P!Issued
<1>3. OnAccount(r)
  BY DEF P!Reset, OnAccount
<1>4. /\ post' = [post EXCEPT ![r] = P!Idle] /\ enabled' = enabled
      /\ uses' = [uses EXCEPT ![n] = IF enabled[u] THEN @ + 1 ELSE @] /\ uses[n] < MaxUses
      /\ reset' = [j \in P!Ids |->
           IF j \in P!Open(u) THEN [reset[j] EXCEPT !.used = TRUE] ELSE reset[j]]
  BY <1>1, <1>2 DEF P!Reset, P!Finish
<1>5. \A i \in P!Issued :
        /\ reset[i] \in P!Links /\ reset'[i] \in P!Links /\ reset'[i] # None
        /\ reset'[i].user = reset[i].user /\ reset'[i].age = reset[i].age
        /\ reset'[i].used = (reset[i].used \/ i \in P!Open(u))
  <2> SUFFICES ASSUME NEW i \in P!Issued
      PROVE  /\ reset[i] \in P!Links /\ reset'[i] \in P!Links /\ reset'[i] # None
             /\ reset'[i].user = reset[i].user /\ reset'[i].age = reset[i].age
             /\ reset'[i].used = (reset[i].used \/ i \in P!Open(u))
    OBVIOUS
  <2>1. reset[i] \in P!Links /\ i \in P!Ids
    BY DEF P!Issued, PInv, PTyped
  <2>2. CASE i \in P!Open(u)
    <3>1. reset'[i] = [reset[i] EXCEPT !.used = TRUE]
      BY <1>4, <2>1, <2>2
    <3> QED
      BY <2>1, <2>2, <3>1 DEF P!Links, P!NoneAssumption
  <2>3. CASE i \notin P!Open(u)
    <3>1. reset'[i] = reset[i]
      BY <1>4, <2>1, <2>3
    <3> QED
      BY <2>1, <2>3, <3>1 DEF P!Links, P!Issued
  <2> QED
    BY <2>2, <2>3
<1>6. \A i \in P!Unissued : reset'[i] = None
  BY <1>4 DEF P!Unissued, P!Issued, P!Open, P!Of
<1>7. P!Issued' = P!Issued /\ P!Unissued' = P!Unissued
  BY <1>5, <1>6 DEF P!Issued, P!Unissued
<1>8. \A v \in Owners : P!Of(v)' = P!Of(v)
  BY <1>5, <1>7 DEF P!Of
<1>9. \A v \in Owners : P!Open(v)' = IF v = u THEN {} ELSE P!Open(v)
  <2>1. ASSUME NEW v \in Owners, v = u PROVE P!Open(v)' = {}
    <3>1. \A i \in P!Of(v) : i \in P!Issued /\ reset'[i].used
      BY <1>5, <2>1 DEF P!Open, P!Of
    <3> QED
      BY <1>8, <3>1 DEF P!Open
  <2>2. ASSUME NEW v \in Owners, v # u PROVE P!Open(v)' = P!Open(v)
    <3>1. \A i \in P!Of(v) : i \in P!Issued /\ i \notin P!Open(u)
      BY <2>2 DEF P!Open, P!Of
    <3>2. \A i \in P!Of(v) : reset'[i].used = reset[i].used
      BY <1>5, <3>1 DEF P!Links
    <3> QED
      BY <1>8, <3>2 DEF P!Open
  <2> QED
    BY <2>1, <2>2
<1>10. post'[r] = P!Idle /\ \A x \in Requests : x # r => post'[x] = post[x]
  BY <1>4 DEF PInv, PTyped
<1>11. \A x \in Requests : x # r /\ OnAccount(x) => post[x].user # u
  BY <1>1, <1>3 DEF PInv, AccountAlone
<1>12. uses[n] = 0 /\ \A i \in P!Ids : i # n => uses'[i] = uses[i]
  BY <1>2, <1>4 DEF P!Open, PInv, UsesKnown, PTyped
<1>13. uses'[n] \in {0, 1}
  BY <1>4, <1>12 DEF PInv, PTyped
<1>14. PTyped'
  <2>1. reset' \in [P!Ids -> P!Links \union {None}]
    <3>1. reset' = [i \in P!Ids |-> reset'[i]]
      BY <1>4
    <3>2. \A i \in P!Ids : reset'[i] \in P!Links \union {None}
      BY <1>5, <1>6 DEF P!Unissued
    <3> QED
      BY <3>1, <3>2
  <2>2. uses' \in [P!Ids -> 0 .. MaxUses]
    <3>1. uses' = [uses EXCEPT ![n] = uses'[n]]
      BY <1>4 DEF PInv, PTyped
    <3>2. uses'[n] \in 0 .. MaxUses
      BY <1>13
    <3> QED
      BY <3>1, <3>2 DEF PInv, PTyped
  <2> QED
    BY <1>4, <2>1, <2>2, IdlePost DEF PInv, PTyped
<1>15. PostKnown'
  <2>1. \A x \in Requests : Kind(x, "reset")' => post[x].id \in P!Of(post[x].user)
          /\ post'[x] = post[x]
    BY <1>10, IdlePost DEF PInv, PostKnown, Kind
  <2>2. \A x \in Requests : Kind(x, "reset")' => post[x].user \in Owners
    BY <1>10, IdlePost DEF PInv, PostKnown, Kind
  <2> QED
    BY <1>8, <1>10, <2>1, <2>2, IdlePost DEF PInv, PostKnown, Kind
<1>16. AccountAlone'
  BY <1>10, IdlePost DEF PInv, AccountAlone, OnAccount
<1>17. OpenNewest' /\ IssuedInOrder'
  BY <1>7, <1>8, <1>9 DEF PInv, OpenNewest, IssuedInOrder
<1>18. EnoughIds'
  <2>1. Asking' = Asking
    BY <1>10, IdlePost DEF Asking, Kind, P!Reset
  <2> QED
    BY <1>7, <2>1 DEF PInv, EnoughIds
<1>19. UsesKnown'
  <2> SUFFICES ASSUME NEW i \in P!Ids, uses'[i] > 0
      PROVE  uses'[i] = 1 /\ i \in P!Issued' /\ reset'[i].used
    BY DEF UsesKnown
  <2>1. CASE i = n
    <3>1. n \in P!Issued /\ n \in P!Open(u)
      BY <1>2 DEF P!Of
    <3>2. reset'[n].used = TRUE
      BY <1>5, <3>1
    <3> QED
      BY <1>7, <1>13, <2>1, <3>1, <3>2
  <2>2. CASE i # n
    BY <1>5, <1>7, <1>12, <2>2 DEF PInv, UsesKnown
  <2> QED
    BY <2>1, <2>2
<1>20. ResetConclusive'
  <2> SUFFICES ASSUME NEW x \in Requests, Kind(x, "reset")', post'[x].step = "both"
      PROVE  ~reset'[post'[x].id].used
    BY DEF ResetConclusive
  <2>1. x # r /\ post'[x] = post[x]
    BY <1>10, IdlePost DEF Kind
  <2>2. Kind(x, "reset") /\ OnAccount(x) /\ ~reset[post[x].id].used
    BY <2>1 DEF Kind, OnAccount, PInv, ResetConclusive
  <2>3. post[x].id \in P!Of(post[x].user) /\ post[x].user # u
    BY <1>11, <2>1, <2>2 DEF PInv, PostKnown
  <2>4. post[x].id \in P!Issued /\ post[x].id \notin P!Open(u)
    BY <2>3 DEF P!Of, P!Open
  <2> QED
    BY <1>5, <2>1, <2>2, <2>4
<1>21. ForgotConclusive'
  <2>1. \A x \in Requests : Kind(x, "forgot")' =>
          post'[x] = post[x] /\ Kind(x, "forgot") /\ post[x].user \in Owners
    BY <1>10, IdlePost DEF Kind, PInv, PostKnown
  <2>2. \A v \in Owners : \A i \in P!Of(v)' : i \in P!Of(v) /\ reset'[i].age = reset[i].age
    BY <1>5, <1>8 DEF P!Of
  <2> QED
    BY <1>5, <1>7, <2>1, <2>2 DEF PInv, ForgotConclusive, OnAccount
<1>22. FreshAlone'
  <2>1. \A v \in Owners : P!Of(v) \subseteq P!Issued
    BY DEF P!Of
  <2> QED
    BY <1>5, <1>8, <2>1 DEF PInv, FreshAlone
<1> QED
  BY <1>14, <1>15, <1>16, <1>17, <1>18, <1>19, <1>20, <1>21, <1>22 DEF PInv

LEMMA AgeStep == ASSUME PInv, NEW n \in P!Ids, P!Age(n) PROVE PInv'
<1> USE ResetsAssumption DEF P!BoundAssumption
<1>1. /\ reset' = [reset EXCEPT ![n].age = P!Older(@)] /\ UNCHANGED <<enabled, uses, post>>
      /\ n \in P!Issued /\ reset[n] \in P!Links
  BY DEF P!Age, P!Issued, PInv, PTyped
<1>2. P!Older(reset[n].age) \in P!Ages /\ P!Older(reset[n].age) # "fresh"
  BY <1>1 DEF P!Older, P!Ages, P!Links
<1>3. /\ reset'[n] = [reset[n] EXCEPT !.age = P!Older(reset[n].age)]
      /\ \A i \in P!Ids : i # n => reset'[i] = reset[i]
  BY <1>1 DEF PInv, PTyped
<1>4. reset'[n] \in P!Links /\ reset'[n] # None
  BY <1>1, <1>2, <1>3 DEF P!Links, P!NoneAssumption
<1>5. /\ reset'[n].user = reset[n].user /\ reset'[n].used = reset[n].used
      /\ reset'[n].age # "fresh"
  BY <1>1, <1>2, <1>3 DEF P!Links
<1>6. P!Issued' = P!Issued /\ P!Unissued' = P!Unissued
  BY <1>1, <1>3, <1>4 DEF P!Issued, P!Unissued
<1>7. \A v : P!Of(v)' = P!Of(v) /\ P!Of(v) \subseteq P!Ids
  BY <1>3, <1>5, <1>6 DEF P!Of, P!Issued
<1>8. \A v : P!Open(v)' = P!Open(v)
  BY <1>3, <1>5, <1>7 DEF P!Open
<1>9. \A i \in P!Ids : reset'[i].age = "fresh" => reset[i].age = "fresh"
  BY <1>3, <1>5
<1>10. \A i \in P!Ids : reset'[i].used = reset[i].used
  BY <1>3, <1>5
<1>11. PTyped'
  <2>1. reset' = [reset EXCEPT ![n] = reset'[n]]
    BY <1>1, <1>3 DEF PInv, PTyped
  <2> QED
    BY <1>1, <1>4, <2>1 DEF PInv, PTyped
<1>12. PostKnown' /\ AccountAlone'
  BY <1>1, <1>7 DEF PInv, PostKnown, AccountAlone, Kind, OnAccount
<1>13. OpenNewest' /\ IssuedInOrder'
  BY <1>6, <1>7, <1>8 DEF PInv, OpenNewest, IssuedInOrder
<1>14. EnoughIds'
  BY <1>1, <1>6 DEF PInv, EnoughIds, Asking, Kind
<1>15. UsesKnown'
  BY <1>1, <1>6, <1>10 DEF PInv, UsesKnown
<1>16. ResetConclusive'
  <2>1. \A x \in Requests : Kind(x, "reset") => post[x].id \in P!Ids
    BY <1>7 DEF PInv, PostKnown
  <2> QED
    BY <1>1, <1>10, <2>1 DEF PInv, ResetConclusive, Kind
<1>17. ForgotConclusive'
  BY <1>1, <1>6, <1>7, <1>9 DEF PInv, ForgotConclusive, Kind, OnAccount, P!Issued
<1>18. FreshAlone'
  BY <1>7, <1>9 DEF PInv, FreshAlone
<1> QED
  BY <1>11, <1>12, <1>13, <1>14, <1>15, <1>16, <1>17, <1>18 DEF PInv

LEMMA ResetsStep == PInv /\ [P!Next]_PVars => PInv'
<1> SUFFICES ASSUME PInv, [P!Next]_PVars PROVE PInv'
  OBVIOUS
<1>1. CASE UNCHANGED PVars
  BY <1>1 DEF PVars, PInv, PTyped, PostKnown, AccountAlone, OpenNewest, IssuedInOrder, EnoughIds,
       UsesKnown, ResetConclusive, ForgotConclusive, FreshAlone, P!Of, P!Open, P!Issued,
       P!Unissued, Asking, Kind, OnAccount
<1>2. ASSUME NEW r \in Requests, P!Refuse(r) \/ P!Fail(r) PROVE PInv'
  <2>1. post' = [post EXCEPT ![r] = P!Idle] /\ UNCHANGED <<enabled, reset, uses>>
    BY <1>2 DEF P!Refuse, P!Fail, P!Finish
  <2> QED
    BY <2>1, RequestFinishes
<1>3. ASSUME NEW u \in Owners, P!SetActive(u) PROVE PInv'
  <2>1. UNCHANGED <<reset, uses, post>> /\ enabled' \in [Owners -> BOOLEAN]
    BY <1>3 DEF P!SetActive, PInv, PTyped
  <2> QED
    BY <2>1 DEF PInv, PTyped, PostKnown, AccountAlone, OpenNewest, IssuedInOrder, EnoughIds,
       UsesKnown, ResetConclusive, ForgotConclusive, FreshAlone, P!Of, P!Open, P!Issued,
       P!Unissued, Asking, Kind, OnAccount
<1>4. CASE P!Next
  BY <1>2, <1>3, <1>4, AskingSteps, ResettingSteps, IssueStep, ResetStep, AgeStep
     DEF P!Next, P!Step
<1> QED
  BY <1>1, <1>4

LEMMA ResetsHolds == PInv => P!TypeOK /\ P!LinkUsedOnce /\ P!OneLinkAMinute
<1> SUFFICES ASSUME PInv PROVE P!TypeOK /\ P!LinkUsedOnce /\ P!OneLinkAMinute
  OBVIOUS
<1> USE ResetsAssumption DEF P!BoundAssumption
<1>1. P!LinkUsedOnce
  BY DEF PInv, PTyped, UsesKnown, P!LinkUsedOnce
<1>2. P!OneLinkAMinute
  <2> SUFFICES ASSUME NEW u \in Owners
      PROVE  Cardinality({i \in P!Of(u) : reset[i].age = "fresh"}) <= 1
    BY Counted DEF P!OneLinkAMinute
  <2> DEFINE fresh == {i \in P!Of(u) : reset[i].age = "fresh"}
  <2>1. \A i, j \in fresh : i = j
    BY DEF PInv, FreshAlone
  <2> HIDE DEF fresh
  <2>2. Cardinality(fresh) <= 1
    BY <2>1, FewElements
  <2> QED
    BY <2>2 DEF fresh
<1>3. ASSUME NEW u \in Owners PROVE P!Cardinality(P!Open(u)) <= 1
  <2>1. \A i, j \in P!Open(u) : i = j
    <3>1. P!Open(u) \subseteq P!Of(u) /\ \A i \in P!Of(u) : i \in Int
      BY DEF P!Open, P!Of, P!Issued, P!Ids
    <3> QED
      BY <3>1 DEF PInv, OpenNewest
  <2> QED
    BY <2>1, FewElements, Counted
<1>4. P!TypeOK
  BY <1>3 DEF PInv, PTyped, PostRows, P!TypeOK
<1> QED
  BY <1>1, <1>2, <1>4

(* Recovering a password: a link sets one password however often it is     *)
(* sent, an account gets one link a minute and has one that is open.       *)
THEOREM ResetsHold == P!Spec => [](P!TypeOK /\ P!LinkUsedOnce /\ P!OneLinkAMinute)
<1>1. PInv /\ [P!Next]_P!vars => PInv'
  BY ResetsStep DEF P!vars, PVars
<1> QED
  BY <1>1, ResetsInit, ResetsHolds, PTL DEF P!Spec

LEMMA NewestResets == PInv /\ [P!Next]_PVars => (P!OnlyNewestResets \/ UNCHANGED PVars)
<1> SUFFICES ASSUME PInv, P!Next, NEW i \in P!Ids, uses'[i] > uses[i], NEW j \in P!Of(reset[i].user)
    PROVE  j <= i
  BY DEF P!OnlyNewestResets
<1> USE ResetsAssumption DEF P!BoundAssumption
<1>1. PICK r \in Requests : P!Reset(r)
  <2>1. uses' # uses
    BY DEF PInv, PTyped
  <2> QED
    BY <2>1 DEF P!Next, P!Step, P!ForgotLock, P!ForgotConsume, P!Issue, P!ResetLock, P!ResetCheck,
         P!Refuse, P!Fail, P!BeginForgot, P!BeginReset, P!SetActive, P!Age
<1>2. i = post[r].id
  BY <1>1 DEF P!Reset, PInv, PTyped
<1>3. post[r].user \in Owners /\ i \in P!Of(post[r].user) /\ ~reset[i].used
  BY <1>1, <1>2 DEF P!Reset, PInv, PostKnown, ResetConclusive, Kind
<1>4. i \in P!Open(post[r].user) /\ reset[i].user = post[r].user
  BY <1>3 DEF P!Open, P!Of
<1> QED
  BY <1>3, <1>4 DEF PInv, OpenNewest

(* Recovering a password: a link sets none once a newer one was mailed,    *)
(* also when both were in use at the same time.                            *)
THEOREM ResetsNewest == P!Spec => [][P!OnlyNewestResets]_P!vars
<1>1. PInv /\ [P!Next]_P!vars => PInv'
  BY ResetsStep DEF P!vars, PVars
<1>2. PInv /\ [P!Next]_P!vars => [P!OnlyNewestResets]_P!vars
  BY NewestResets DEF P!vars, PVars
<1> QED
  BY <1>1, <1>2, ResetsInit, PTL DEF P!Spec

-----------------------------------------------------------------------------
(* Invitations.                                                            *)

Calls(r, kind) == call[r].kind = kind
Linked == {i \in I!Ids : invitation[i] # None}

CallRows == [kind : {"none", "create", "accept", "account"},
             step : {"idle", "begun", "row", "address", "guest"},
             address : Addresses \union {None}, spelling : I!Spellings \union {None},
             guest : Guests \union {None}, id : I!Ids \union {None}]

(* What each kind of request carries; an acceptance, what its link says.   *)
CallKnown == \A r \in Requests :
  /\ Calls(r, "none") => call[r].step = "idle"
  /\ ~Calls(r, "none") => call[r].address \in Addresses /\ call[r].step # "idle"
  /\ Calls(r, "create") => call[r].step # "row"
  /\ Calls(r, "account") => /\ call[r].guest \in Guests /\ call[r].spelling \in I!Spellings
                            /\ call[r].step = "guest" /\ call[r].id = None
  /\ Calls(r, "accept") =>
       /\ call[r].id \in Linked /\ call[r].spelling \in I!Spellings
       /\ invitation[call[r].id].address = call[r].address

(* The row of a link is locked by one, and is pending meanwhile.           *)
RowAlone == \A r, x \in Requests : \A i \in I!Ids :
  I!HoldsRow(r, i) /\ I!HoldsRow(x, i) => r = x
RowConclusive == \A r \in Requests : \A i \in I!Ids : I!HoldsRow(r, i) => I!Pending(i)

(* The record of a guest is active while it is locked.                     *)
GuestConclusive == \A r \in Requests : \A g \in Guests : I!HoldsGuest(r, g) => active[g]

(* The pending link of an address is its newest.                           *)
PendingNewest == \A i, j \in Linked :
  I!Pending(i) /\ invitation[i].address = invitation[j].address => j <= i

LinksInOrder == \A i \in Linked, j \in I!Ids : j < i => j \in Linked
Creating == {r \in Requests : Calls(r, "create")}
EnoughLinks == Cardinality(Creating) <= Cardinality(I!Unissued)

(* A link that opened an account is used, and opened no other.             *)
OpenedOnce == \A a \in account : a.by # None =>
  /\ a.by \in Linked /\ ~I!Pending(a.by)
  /\ \A b \in account : a.by = b.by => a = b

(* The UNIQUE constraints of the table.                                    *)
AccountsDiffer == \A a, b \in account : a # b =>
  /\ <<a.address, a.spelling>> # <<b.address, b.spelling>>
  /\ a.guest = b.guest => a.guest = None

ITyped ==
  /\ account \in SUBSET I!AccountRows /\ IsFiniteSet(account)
  /\ invitation \in [I!Ids -> I!InvitationRows \union {None}]
  /\ active \in [Guests -> BOOLEAN]
  /\ call \in [Requests -> CallRows]

IInv ==
  /\ ITyped
  /\ CallKnown
  /\ RowAlone
  /\ RowConclusive
  /\ GuestConclusive
  /\ PendingNewest
  /\ LinksInOrder
  /\ EnoughLinks
  /\ OpenedOnce
  /\ AccountsDiffer

LEMMA IdleCall ==
  I!Idle \in CallRows /\ I!Idle.kind = "none" /\ I!Idle.step = "idle"
BY DEF I!Idle, CallRows

LEMMA InvitationsInit == I!Init => IInv
<1> SUFFICES ASSUME I!Init PROVE IInv
  OBVIOUS
<1> USE InvitationsAssumption DEF I!BoundAssumption, I!NoneAssumption
<1>1. ITyped
  BY IdleCall, FS_EmptySet DEF I!Init, ITyped
<1>2. Linked = {} /\ Creating = {} /\ account = {}
  BY IdleCall DEF I!Init, Linked, Creating, Calls
<1>3. CallKnown /\ RowAlone /\ RowConclusive /\ GuestConclusive
  BY IdleCall DEF I!Init, CallKnown, Calls, RowAlone, RowConclusive, GuestConclusive, I!HoldsRow,
     I!HoldsGuest
<1>4. PendingNewest /\ LinksInOrder /\ OpenedOnce /\ AccountsDiffer
  BY <1>2 DEF PendingNewest, LinksInOrder, OpenedOnce, AccountsDiffer
<1>5. EnoughLinks
  <2>1. I!Unissued \in SUBSET I!Ids /\ IsFiniteSet(I!Ids)
    BY FS_Interval DEF I!Unissued, I!Ids
  <2>2. Cardinality(I!Unissued) \in Nat
    BY <2>1, FS_Subset, FS_CardinalityType
  <2> QED
    BY <1>2, <2>2, FS_EmptySet DEF EnoughLinks
<1> QED
  BY <1>1, <1>3, <1>4, <1>5 DEF IInv

(* The least id that is left is above every id that was issued.            *)
LEMMA NextInvitation ==
  ASSUME IInv, NEW r \in Requests, Calls(r, "create")
  PROVE  /\ I!NextId \in I!Unissued
         /\ \A i \in Linked : i < I!NextId
         /\ \A i \in I!Ids : i < I!NextId => i \in Linked
<1> USE InvitationsAssumption DEF I!BoundAssumption
<1>1. \E i \in I!Unissued : \A j \in I!Unissued : i <= j
  <2>1. I!Unissued \in SUBSET (1 .. MaxInvitations) /\ Creating \in SUBSET Requests
          /\ r \in Creating
    BY DEF I!Unissued, I!Ids, Creating
  <2>2. IsFiniteSet(Requests) /\ MaxInvitations \in Nat
    BY Finite
  <2>3. Cardinality(Creating) <= Cardinality(I!Unissued)
    BY DEF IInv, EnoughLinks
  <2> QED
    BY <2>1, <2>2, <2>3, LeastLeft
<1>2. I!NextId \in I!Unissued /\ \A j \in I!Unissued : I!NextId <= j
  BY <1>1 DEF I!NextId
<1>3. \A i \in I!Ids : i \in Linked \/ i \in I!Unissued
  BY DEF I!Unissued, Linked
<1>4. I!NextId \in I!Ids /\ I!NextId \notin Linked
  BY <1>2 DEF I!Unissued, Linked
<1>5. \A i \in I!Ids : i \in Int
  BY DEF I!Ids
<1>6. \A i \in Linked : i \in I!Ids
  BY DEF Linked
<1> QED
  BY <1>2, <1>3, <1>4, <1>5, <1>6 DEF IInv, LinksInOrder

(* A step that writes no other table than its request's row.               *)
LEMMA CallGoesOn ==
  ASSUME IInv, UNCHANGED <<account, invitation, active>>,
         NEW r \in Requests, NEW row \in CallRows, call' = [call EXCEPT ![r] = row],
         row.kind = "none" => row.step = "idle",
         row.kind # "none" => row.address \in Addresses /\ row.step # "idle",
         row.kind = "create" =>
           /\ row.step # "row"
           /\ Calls(r, "create") \/ Cardinality(Creating) < Cardinality(I!Unissued),
         row.kind = "account" => /\ row.guest \in Guests /\ row.spelling \in I!Spellings
                                 /\ row.step = "guest" /\ row.id = None,
         row.kind = "accept" =>
           /\ row.id \in Linked /\ row.spelling \in I!Spellings
           /\ invitation[row.id].address = row.address,
         row.kind = "accept" /\ row.step # "begun" =>
           /\ I!Pending(row.id)
           /\ \A x \in Requests : x # r => ~I!HoldsRow(x, row.id),
         row.step = "guest" /\ row.guest # None => active[row.guest]
  PROVE  IInv'
<1>1. /\ I!Unissued' = I!Unissued /\ Linked' = Linked
      /\ \A i : I!Pending(i)' = I!Pending(i)
  BY DEF I!Unissued, Linked, I!Pending
<1>2. /\ call'[r] = row
      /\ \A x \in Requests : x # r => call'[x] = call[x]
  BY DEF IInv, ITyped
<1>3. ITyped' /\ CallKnown'
  BY <1>1, <1>2 DEF IInv, ITyped, CallKnown, Calls
<1>4. \A i \in I!Ids :
        /\ \A x \in Requests : x # r => (I!HoldsRow(x, i)' <=> I!HoldsRow(x, i))
        /\ I!HoldsRow(r, i)' => /\ I!Pending(i)
                                /\ \A x \in Requests : x # r => ~I!HoldsRow(x, i)
  BY <1>2 DEF I!HoldsRow
<1>5. RowAlone'
  <2> SUFFICES ASSUME NEW x \in Requests, NEW y \in Requests, NEW i \in I!Ids,
                      I!HoldsRow(x, i)', I!HoldsRow(y, i)', x # y
      PROVE  FALSE
    BY Zenon DEF RowAlone
  <2> QED
    BY <1>4 DEF IInv, RowAlone
<1>6. RowConclusive'
  <2> SUFFICES ASSUME NEW x \in Requests, NEW i \in I!Ids, I!HoldsRow(x, i)'
      PROVE  I!Pending(i)'
    BY Zenon DEF RowConclusive
  <2> QED
    BY <1>1, <1>4 DEF IInv, RowConclusive
<1>7. GuestConclusive'
  BY <1>2 DEF IInv, GuestConclusive, I!HoldsGuest
<1>8. PendingNewest' /\ LinksInOrder'
  BY <1>1 DEF IInv, PendingNewest, LinksInOrder
<1>9. OpenedOnce' /\ AccountsDiffer'
  BY <1>1 DEF IInv, OpenedOnce, AccountsDiffer
<1>10. EnoughLinks'
  <2>1. IsFiniteSet(Creating) /\ Cardinality(Creating) \in Nat
    <3>1. Creating \in SUBSET Requests /\ IsFiniteSet(Requests)
      BY InvitationsAssumption, Finite DEF I!BoundAssumption, Creating
    <3> QED
      BY <3>1, FS_Subset, FS_CardinalityType, Zenon
  <2>2. Cardinality(I!Unissued) \in Nat
    <3>1. I!Unissued \in SUBSET I!Ids /\ IsFiniteSet(I!Ids)
      BY InvitationsAssumption, FS_Interval DEF I!BoundAssumption, I!Unissued, I!Ids
    <3> QED
      BY <3>1, FS_Subset, FS_CardinalityType, Zenon
  <2>3. CASE row.kind = "create"
    <3>1. Creating' = Creating \union {r}
      BY <1>2, <2>3 DEF Creating, Calls
    <3>2. Cardinality(Creating') = IF r \in Creating THEN Cardinality(Creating)
                                   ELSE Cardinality(Creating) + 1
      BY <2>1, <3>1, FS_AddElement
    <3>3. Calls(r, "create") <=> r \in Creating
      BY DEF Creating
    <3> QED
      BY <1>1, <2>1, <2>2, <2>3, <3>2, <3>3 DEF IInv, EnoughLinks
  <2>4. CASE row.kind # "create"
    <3>1. Creating' \in SUBSET Creating
      BY <1>2, <2>4 DEF Creating, Calls
    <3>2. Cardinality(Creating') <= Cardinality(Creating) /\ Cardinality(Creating') \in Nat
      BY <2>1, <3>1, FS_Subset, FS_CardinalityType
    <3> QED
      BY <1>1, <2>1, <2>2, <3>2 DEF IInv, EnoughLinks
  <2> QED
    BY <2>3, <2>4
<1> QED
  BY <1>3, <1>5, <1>6, <1>7, <1>8, <1>9, <1>10 DEF IInv

LEMMA CallFinishes ==
  ASSUME IInv, UNCHANGED <<account, invitation, active>>, NEW r \in Requests,
         call' = [call EXCEPT ![r] = I!Idle]
  PROVE  IInv'
BY IdleCall, CallGoesOn

(* The next lock.                                                          *)
LEMMA CallLocks ==
  ASSUME IInv, UNCHANGED <<account, invitation, active>>,
         NEW r \in Requests, Calls(r, "create") \/ Calls(r, "accept"),
         NEW step \in {"row", "address", "guest"}, call' = [call EXCEPT ![r].step = step],
         step = "row" => Calls(r, "accept"),
         Calls(r, "accept") /\ call[r].step = "begun" =>
           I!Pending(call[r].id) /\ I!RowFree(call[r].id),
         step = "guest" /\ call[r].guest # None => active[call[r].guest]
  PROVE  IInv'
<1> DEFINE row == [call[r] EXCEPT !.step = step]
<1>1. call[r] \in CallRows /\ ~Calls(r, "none") /\ ~Calls(r, "account")
  BY DEF IInv, ITyped, Calls
<1>2. row \in CallRows
  BY <1>1 DEF CallRows
<1>3. call' = [call EXCEPT ![r] = row]
  BY <1>1 DEF IInv, ITyped, CallRows
<1>4. /\ row.kind = call[r].kind /\ row.step = step /\ row.address = call[r].address
      /\ row.guest = call[r].guest /\ row.id = call[r].id /\ row.spelling = call[r].spelling
  BY <1>1 DEF CallRows
<1>5. /\ row.kind # "none" /\ row.kind # "account" /\ row.address \in Addresses
      /\ row.kind = "create" => Calls(r, "create")
      /\ row.kind = "accept" => Calls(r, "accept")
  BY <1>1, <1>4 DEF IInv, CallKnown, Calls
<1>6. row.kind = "accept" =>
        /\ row.id \in Linked /\ row.spelling \in I!Spellings
        /\ invitation[row.id].address = row.address
  BY <1>4, <1>5 DEF IInv, CallKnown
<1>7. row.kind = "accept" =>
        /\ I!Pending(row.id)
        /\ \A x \in Requests : x # r => ~I!HoldsRow(x, row.id)
  <2> SUFFICES ASSUME row.kind = "accept"
      PROVE  /\ I!Pending(call[r].id)
             /\ \A x \in Requests : x # r => ~I!HoldsRow(x, call[r].id)
    BY <1>4
  <2>1. Calls(r, "accept") /\ call[r].id \in I!Ids
    BY <1>4, <1>5, <1>6 DEF Linked
  <2>2. CASE call[r].step = "begun"
    BY <2>1, <2>2 DEF I!RowFree
  <2>3. CASE call[r].step # "begun"
    <3>1. I!HoldsRow(r, call[r].id)
      BY <2>1, <2>3 DEF I!HoldsRow, Calls
    <3> QED
      BY <2>1, <3>1 DEF IInv, RowAlone, RowConclusive
  <2> QED
    BY <2>2, <2>3
<1>8. row.kind = "create" => row.step # "row" /\ Calls(r, "create")
  BY <1>4, <1>5 DEF Calls
<1>9. row.kind = "none" => row.step = "idle"
  BY <1>5
<1> HIDE DEF row
<1> QED
  BY <1>2, <1>3, <1>4, <1>5, <1>6, <1>7, <1>8, <1>9, CallGoesOn

LEMMA CallSteps ==
  ASSUME IInv, NEW r \in Requests
  PROVE  /\ I!CreateAddress(r) => IInv'
         /\ I!LockGuest(r) => IInv'
         /\ I!AcceptRow(r) => IInv'
         /\ I!AcceptAddress(r) => IInv'
<1>1. ASSUME I!CreateAddress(r) PROVE IInv'
  BY <1>1, CallLocks DEF I!CreateAddress, I!Go, Calls
<1>2. ASSUME I!LockGuest(r) PROVE IInv'
  BY <1>2, CallLocks DEF I!LockGuest, I!Go, Calls
<1>3. ASSUME I!AcceptRow(r) PROVE IInv'
  BY <1>3, CallLocks DEF I!AcceptRow, I!Go, Calls
<1>4. ASSUME I!AcceptAddress(r) PROVE IInv'
  BY <1>4, CallLocks DEF I!AcceptAddress, I!Go, Calls
<1> QED
  BY <1>1, <1>2, <1>3, <1>4

LEMMA CallBegins ==
  ASSUME IInv, NEW r \in Requests
  PROVE  /\ \A a \in Addresses, g \in Guests \union {None} : I!BeginCreate(r, a, g) => IInv'
         /\ \A i \in I!Ids : I!BeginAccept(r, i) => IInv'
         /\ \A g \in Guests, a \in Addresses, s \in I!Spellings :
              I!BeginAccount(r, g, a, s) => IInv'
<1> USE InvitationsAssumption DEF I!BoundAssumption, I!NoneAssumption
<1>1. ASSUME NEW a \in Addresses, NEW g \in Guests \union {None}, I!BeginCreate(r, a, g)
      PROVE  IInv'
  <2> DEFINE row == [I!Idle EXCEPT !.kind = "create", !.step = "begun", !.address = a, !.guest = g]
  <2>1. row \in CallRows
    BY IdleCall DEF CallRows
  <2>2. call' = [call EXCEPT ![r] = row] /\ UNCHANGED <<account, invitation, active>>
    BY <1>1 DEF I!BeginCreate
  <2>3. row.kind = "create" /\ row.step = "begun" /\ row.address = a
    BY DEF I!Idle
  <2>4. Cardinality(Creating) < Cardinality(I!Unissued)
    BY <1>1, Counted DEF I!BeginCreate, Creating, Calls
  <2> HIDE DEF row
  <2> QED
    BY <2>1, <2>2, <2>3, <2>4, CallGoesOn
<1>2. ASSUME NEW i \in I!Ids, I!BeginAccept(r, i) PROVE IInv'
  <2> DEFINE row == [I!Idle EXCEPT !.kind = "accept", !.step = "begun", !.id = i,
                       !.address = invitation[i].address, !.spelling = "lower",
                       !.guest = invitation[i].guest]
  <2>1. i \in Linked /\ invitation[i] \in I!InvitationRows
    BY <1>2 DEF I!BeginAccept, Linked, IInv, ITyped
  <2>2. invitation[i].address \in Addresses /\ invitation[i].guest \in Guests \union {None}
    BY <2>1 DEF I!InvitationRows
  <2>3. row \in CallRows
    BY <2>2, IdleCall DEF CallRows, I!Spellings
  <2>4. call' = [call EXCEPT ![r] = row] /\ UNCHANGED <<account, invitation, active>>
    BY <1>2 DEF I!BeginAccept
  <2>5. /\ row.kind = "accept" /\ row.step = "begun" /\ row.address = invitation[i].address
        /\ row.id = i /\ row.spelling = "lower"
    BY DEF I!Idle
  <2>6. row.spelling \in I!Spellings
    BY <2>5 DEF I!Spellings
  <2> HIDE DEF row
  <2> QED
    BY <2>1, <2>2, <2>3, <2>4, <2>5, <2>6, CallGoesOn
<1>3. ASSUME NEW g \in Guests, NEW a \in Addresses, NEW s \in I!Spellings,
             I!BeginAccount(r, g, a, s)
      PROVE  IInv'
  <2> DEFINE row == [I!Idle EXCEPT !.kind = "account", !.step = "guest",
                       !.address = a, !.spelling = s, !.guest = g]
  <2>1. row \in CallRows
    BY IdleCall DEF CallRows
  <2>2. call' = [call EXCEPT ![r] = row] /\ UNCHANGED <<account, invitation, active>> /\ active[g]
    BY <1>3 DEF I!BeginAccount
  <2>3. /\ row.kind = "account" /\ row.step = "guest" /\ row.address = a
        /\ row.guest = g /\ row.spelling = s /\ row.id = None
    BY DEF I!Idle
  <2> HIDE DEF row
  <2> QED
    BY <2>1, <2>2, <2>3, CallGoesOn
<1> QED
  BY <1>1, <1>2, <1>3

(* A row that the checks of its address and guest let in.                  *)
LEMMA Inserted ==
  ASSUME IInv, NEW a \in Addresses, NEW s \in I!Spellings, NEW g \in Guests \union {None},
         NEW by \in I!Ids \union {None}, ~I!Taken(a, s, g),
         account' = account \union {[address |-> a, spelling |-> s, guest |-> g, by |-> by]}
  PROVE  /\ account' \in SUBSET I!AccountRows /\ IsFiniteSet(account')
         /\ AccountsDiffer'
<1> DEFINE x == [address |-> a, spelling |-> s, guest |-> g, by |-> by]
<1>1. x \in I!AccountRows /\ account \in SUBSET I!AccountRows /\ IsFiniteSet(account)
  BY DEF I!AccountRows, IInv, ITyped
<1>2. /\ x.address = a /\ x.spelling = s /\ x.guest = g
      /\ account' = account \union {x}
  OBVIOUS
<1> HIDE DEF x
<1>3. IsFiniteSet(account \union {x})
  BY <1>1, FS_AddElement
<1>4. \A y \in account : /\ y.address = a => y.spelling # s
                         /\ y.guest = g => g = None
  BY DEF I!Taken, I!GuestHasAccount
<1>5. AccountsDiffer'
  <2> SUFFICES ASSUME NEW y \in account', NEW z \in account', y # z
      PROVE  /\ <<y.address, y.spelling>> # <<z.address, z.spelling>>
             /\ y.guest = z.guest => y.guest = None
    BY DEF AccountsDiffer
  <2>1. CASE y \in account /\ z \in account
    BY <2>1 DEF IInv, AccountsDiffer
  <2>2. CASE y = x /\ z \in account
    <3>1. /\ ~(y.address = z.address /\ y.spelling = z.spelling)
          /\ y.guest = z.guest => y.guest = None
      <4>1. /\ y.address = a /\ y.spelling = s /\ y.guest = g
        BY <1>2, <2>2
      <4>2. z.address = a => z.spelling # s
        BY <1>4, <2>2
      <4>3. z.guest = g => g = None
        BY <1>4, <2>2
      <4> QED
        BY <4>1, <4>2, <4>3, Zenon
    <3> QED
      BY <3>1
  <2>3. CASE y \in account /\ z = x
    <3>1. /\ ~(y.address = z.address /\ y.spelling = z.spelling)
          /\ y.guest = z.guest => y.guest = None
      <4>1. /\ z.address = a /\ z.spelling = s /\ z.guest = g
        BY <1>2, <2>3
      <4>2. y.address = a => y.spelling # s
        BY <1>4, <2>3
      <4>3. y.guest = g => g = None
        BY <1>4, <2>3
      <4> QED
        BY <4>1, <4>2, <4>3, Zenon
    <3> QED
      BY <3>1
  <2> QED
    BY <1>2, <2>1, <2>2, <2>3
<1> QED
  BY <1>1, <1>2, <1>3, <1>5

(* Links whose address stays, and of which none becomes pending.           *)
LEMMA LinksEnd ==
  ASSUME IInv, Linked' = Linked,
         \A i \in Linked : /\ invitation'[i].address = invitation[i].address
                           /\ I!Pending(i)' => I!Pending(i)
  PROVE  PendingNewest' /\ LinksInOrder'
<1>1. PendingNewest'
  <2> SUFFICES ASSUME NEW i \in Linked, NEW j \in Linked, I!Pending(i)',
                      invitation'[i].address = invitation'[j].address
      PROVE  j <= i
    BY DEF PendingNewest
  <2> QED
    BY DEF IInv, PendingNewest
<1>2. LinksInOrder'
  BY DEF IInv, LinksInOrder
<1> QED
  BY <1>1, <1>2

LEMMA MarkedUsed ==
  ASSUME IInv, NEW n \in Linked, I!MarkUsed(n)
  PROVE  /\ invitation' \in [I!Ids -> I!InvitationRows \union {None}]
         /\ Linked' = Linked /\ I!Unissued' = I!Unissued
         /\ \A i \in Linked : /\ invitation'[i].address = invitation[i].address
                              /\ (I!Pending(i)' <=> (I!Pending(i) /\ i # n))
<1> USE InvitationsAssumption DEF I!NoneAssumption
<1>1. n \in I!Ids /\ invitation[n] \in I!InvitationRows
  BY DEF Linked, IInv, ITyped
<1>2. /\ invitation'[n] = [invitation[n] EXCEPT !.used = TRUE]
      /\ \A i \in I!Ids : i # n => invitation'[i] = invitation[i]
      /\ invitation' = [invitation EXCEPT ![n] = invitation'[n]]
  BY <1>1 DEF I!MarkUsed, IInv, ITyped
<1>3. /\ invitation'[n] \in I!InvitationRows /\ invitation'[n] # None /\ invitation'[n].used
      /\ invitation'[n].address = invitation[n].address
  BY <1>1, <1>2 DEF I!InvitationRows
<1>4. invitation' \in [I!Ids -> I!InvitationRows \union {None}]
  BY <1>1, <1>2, <1>3 DEF IInv, ITyped
<1>5. Linked' = Linked /\ I!Unissued' = I!Unissued
  BY <1>1, <1>2, <1>3 DEF Linked, I!Unissued
<1>6. \A i \in Linked : /\ invitation'[i].address = invitation[i].address
                        /\ (I!Pending(i)' <=> (I!Pending(i) /\ i # n))
  BY <1>1, <1>2, <1>3 DEF Linked, I!Pending
<1> QED
  BY <1>4, <1>5, <1>6

LEMMA AcceptStep == ASSUME IInv, NEW r \in Requests, I!Accept(r) PROVE IInv'
<1> USE InvitationsAssumption DEF I!BoundAssumption, I!NoneAssumption
<1>1. PICK n \in Linked : n = call[r].id
  BY DEF I!Accept, IInv, CallKnown, Calls
<1>2. /\ Calls(r, "accept") /\ call[r] \in CallRows /\ call[r].address \in Addresses
      /\ call[r].spelling \in I!Spellings /\ call[r].step = "guest"
      /\ invitation[n].address = call[r].address
  BY <1>1 DEF I!Accept, IInv, ITyped, CallKnown, Calls
<1>3. n \in I!Ids /\ n # None /\ I!HoldsRow(r, n) /\ I!Pending(n)
  BY <1>1, <1>2 DEF Linked, I!HoldsRow, Calls, IInv, RowConclusive
<1>4. /\ call' = [call EXCEPT ![r] = I!Idle] /\ active' = active /\ I!MarkUsed(n)
      /\ ~I!Taken(call[r].address, call[r].spelling, call[r].guest)
      /\ account' = account \union {[address |-> call[r].address, spelling |-> call[r].spelling,
                                    guest |-> call[r].guest, by |-> n]}
  BY <1>1 DEF I!Accept, I!Finish, I!Insert
<1>5. call[r].guest \in Guests \union {None}
  BY <1>2 DEF CallRows
<1>6. /\ account' \in SUBSET I!AccountRows /\ IsFiniteSet(account')
      /\ AccountsDiffer'
  BY <1>2, <1>3, <1>4, <1>5, Inserted
<1>7. /\ invitation' \in [I!Ids -> I!InvitationRows \union {None}]
      /\ Linked' = Linked /\ I!Unissued' = I!Unissued
      /\ \A i \in Linked : /\ invitation'[i].address = invitation[i].address
                           /\ (I!Pending(i)' <=> (I!Pending(i) /\ i # n))
  BY <1>4, MarkedUsed
<1>8. call'[r] = I!Idle /\ \A x \in Requests : x # r => call'[x] = call[x]
  BY <1>4 DEF IInv, ITyped
<1>9. ITyped'
  BY <1>4, <1>6, <1>7, IdleCall DEF IInv, ITyped
<1>10. CallKnown'
  BY <1>7, <1>8, IdleCall DEF IInv, CallKnown, Calls
<1>11. \A x \in Requests : \A i \in I!Ids : I!HoldsRow(x, i)' => x # r /\ I!HoldsRow(x, i)
  BY <1>8, IdleCall DEF I!HoldsRow
<1>12. RowAlone'
  BY <1>11 DEF IInv, RowAlone
<1>13. RowConclusive'
  <2> SUFFICES ASSUME NEW x \in Requests, NEW i \in I!Ids, I!HoldsRow(x, i)'
      PROVE  I!Pending(i)'
    BY Zenon DEF RowConclusive
  <2>1. x # r /\ I!HoldsRow(x, i) /\ I!Pending(i) /\ i \in Linked
    BY <1>11 DEF IInv, RowConclusive, I!Pending, Linked
  <2>2. i # n
    BY <1>3, <2>1 DEF IInv, RowAlone
  <2> QED
    BY <1>7, <2>1, <2>2
<1>14. GuestConclusive'
  BY <1>4, <1>8, IdleCall DEF IInv, GuestConclusive, I!HoldsGuest
<1>15. PendingNewest' /\ LinksInOrder'
  BY <1>7, LinksEnd
<1>16. EnoughLinks'
  <2>1. Creating' = Creating
    BY <1>2, <1>8, IdleCall DEF Creating, Calls
  <2> QED
    BY <1>7, <2>1 DEF IInv, EnoughLinks
<1>17. OpenedOnce'
  <2> SUFFICES ASSUME NEW a \in account', a.by # None
      PROVE  /\ a.by \in Linked' /\ ~I!Pending(a.by)'
             /\ \A b \in account' : a.by = b.by => a = b
    BY DEF OpenedOnce
  <2>1. \A b \in account : b.by # None => /\ b.by \in Linked /\ b.by # n
                                          /\ ~I!Pending(b.by)
                                          /\ \A c \in account : b.by = c.by => b = c
    BY <1>3 DEF IInv, OpenedOnce
  <2>2. CASE a \in account
    BY <1>4, <1>7, <2>1, <2>2
  <2>3. CASE a \notin account
    <3>1. a.by = n /\ \A b \in account' : b.by = n => b = a
      BY <1>3, <1>4, <2>1, <2>3
    <3> QED
      BY <1>7, <3>1
  <2> QED
    BY <2>2, <2>3
<1> QED
  BY <1>6, <1>9, <1>10, <1>12, <1>13, <1>14, <1>15, <1>16, <1>17 DEF IInv

LEMMA CreateStep == ASSUME IInv, NEW r \in Requests, I!Create(r) PROVE IInv'
<1> USE InvitationsAssumption DEF I!BoundAssumption, I!NoneAssumption
<1>1. PICK n \in I!Ids : n = I!NextId /\ n \in I!Unissued
  BY NextInvitation DEF I!Create, Calls, I!Unissued
<1>2. PICK a \in Addresses : a = call[r].address
  BY DEF I!Create, IInv, CallKnown, Calls
<1>3. /\ Calls(r, "create") /\ call[r].guest \in Guests \union {None}
      /\ \A i \in Linked : i < n
      /\ \A i \in I!Ids : i < n => i \in Linked
  BY <1>1, NextInvitation DEF I!Create, Calls, CallRows, IInv, ITyped
<1>4. /\ call' = [call EXCEPT ![r] = I!Idle] /\ UNCHANGED <<account, active>>
      /\ \A i \in I!Older(a) : I!RowFree(i)
      /\ invitation' = [i \in I!Ids |->
           IF i = n
           THEN [address |-> a, guest |-> call[r].guest, used |-> FALSE, expired |-> FALSE]
           ELSE IF i \in I!Older(a) THEN [invitation[i] EXCEPT !.used = TRUE]
           ELSE invitation[i]]
  BY <1>1, <1>2 DEF I!Create, I!Finish, I!Revoked
<1>5. /\ invitation'[n] \in I!InvitationRows /\ invitation'[n] # None
      /\ invitation'[n].address = a /\ n \notin Linked
  <2>1. [address |-> a, guest |-> call[r].guest, used |-> FALSE, expired |-> FALSE]
          \in I!InvitationRows
    BY <1>3 DEF I!InvitationRows
  <2> QED
    BY <1>1, <1>4, <2>1 DEF Linked, I!Unissued
<1>6. \A i \in Linked :
        /\ invitation'[i] \in I!InvitationRows /\ invitation'[i] # None
        /\ invitation'[i].address = invitation[i].address
        /\ (I!Pending(i)' <=> (I!Pending(i) /\ invitation[i].address # a))
  <2> SUFFICES ASSUME NEW i \in Linked
      PROVE  /\ invitation'[i] \in I!InvitationRows /\ invitation'[i] # None
             /\ invitation'[i].address = invitation[i].address
             /\ (I!Pending(i)' <=> (I!Pending(i) /\ invitation[i].address # a))
    OBVIOUS
  <2>1. i \in I!Ids /\ invitation[i] \in I!InvitationRows /\ i # n /\ invitation[i] # None
    BY <1>5 DEF Linked, IInv, ITyped
  <2>2. CASE i \in I!Older(a)
    <3>1. /\ invitation'[i] = [invitation[i] EXCEPT !.used = TRUE]
          /\ I!Pending(i) /\ invitation[i].address = a
      BY <1>4, <2>1, <2>2 DEF I!Older
    <3> QED
      BY <2>1, <3>1 DEF I!InvitationRows, I!Pending
  <2>3. CASE i \notin I!Older(a)
    <3>1. invitation'[i] = invitation[i] /\ ~(I!Pending(i) /\ invitation[i].address = a)
      BY <1>4, <2>1, <2>3 DEF I!Older
    <3> QED
      BY <2>1, <3>1 DEF I!Pending
  <2> QED
    BY <2>2, <2>3
<1>7. \A i \in I!Unissued : i # n => invitation'[i] = None
  BY <1>4 DEF I!Unissued, I!Older, I!Pending
<1>8. Linked' = Linked \union {n} /\ I!Unissued' = I!Unissued \ {n}
  <2>1. Linked' = Linked \union {n}
    BY <1>1, <1>5, <1>6, <1>7 DEF Linked, I!Unissued
  <2>2. \A i \in I!Ids : (i \in I!Unissued <=> i \notin Linked)
                       /\ (i \in I!Unissued' <=> i \notin Linked')
    BY DEF I!Unissued, Linked
  <2>3. I!Unissued \subseteq I!Ids /\ I!Unissued' \subseteq I!Ids
    BY DEF I!Unissued
  <2> QED
    BY <2>1, <2>2, <2>3
<1>9. call'[r] = I!Idle /\ \A x \in Requests : x # r => call'[x] = call[x]
  BY <1>4 DEF IInv, ITyped
<1>10. ITyped'
  <2>1. invitation' \in [I!Ids -> I!InvitationRows \union {None}]
    <3>1. invitation' = [i \in I!Ids |-> invitation'[i]]
      BY <1>4
    <3>2. \A i \in I!Ids : invitation'[i] \in I!InvitationRows \union {None}
      BY <1>5, <1>6, <1>7 DEF I!Unissued, Linked
    <3> QED
      BY <3>1, <3>2
  <2> QED
    BY <1>4, <2>1, IdleCall DEF IInv, ITyped
<1>11. CallKnown'
  <2>1. \A x \in Requests : Calls(x, "accept")' => /\ call[x].id \in Linked /\ call'[x] = call[x]
                                                 /\ Calls(x, "accept")
    BY <1>9, IdleCall DEF IInv, CallKnown, Calls
  <2> QED
    BY <1>6, <1>8, <1>9, <2>1, IdleCall DEF IInv, CallKnown, Calls
<1>12. \A x \in Requests : \A i \in I!Ids : I!HoldsRow(x, i)' => x # r /\ I!HoldsRow(x, i)
  BY <1>9, IdleCall DEF I!HoldsRow
<1>13. RowAlone'
  BY <1>12 DEF IInv, RowAlone
<1>14. RowConclusive'
  <2> SUFFICES ASSUME NEW x \in Requests, NEW i \in I!Ids, I!HoldsRow(x, i)'
      PROVE  I!Pending(i)'
    BY Zenon DEF RowConclusive
  <2>1. I!HoldsRow(x, i) /\ I!Pending(i) /\ i \in Linked
    BY <1>12 DEF IInv, RowConclusive, I!Pending, Linked
  <2>2. i \notin I!Older(a)
    BY <1>4, <2>1 DEF I!RowFree
  <2> QED
    BY <1>6, <2>1, <2>2 DEF I!Older
<1>15. GuestConclusive'
  BY <1>4, <1>9, IdleCall DEF IInv, GuestConclusive, I!HoldsGuest
<1>16. PendingNewest'
  <2> SUFFICES ASSUME NEW i \in Linked \union {n}, NEW j \in Linked \union {n}, I!Pending(i)',
                      invitation'[i].address = invitation'[j].address
      PROVE  j <= i
    BY <1>8 DEF PendingNewest
  <2>1. n \in Int /\ \A k \in Linked : k \in Int
    BY DEF Linked, I!Ids
  <2>2. CASE i = n
    BY <1>3, <2>1, <2>2
  <2>3. CASE i \in Linked
    BY <1>5, <1>6, <2>3 DEF IInv, PendingNewest
  <2> QED
    BY <2>2, <2>3
<1>17. LinksInOrder'
  BY <1>3, <1>8 DEF IInv, LinksInOrder
<1>18. EnoughLinks'
  <2>1. Creating' = Creating \ {r} /\ r \in Creating
    BY <1>3, <1>9, IdleCall DEF Creating, Calls
  <2>2. IsFiniteSet(Creating) /\ IsFiniteSet(I!Unissued)
    <3>1. Creating \in SUBSET Requests /\ IsFiniteSet(Requests)
      BY Finite DEF Creating
    <3>2. I!Unissued \in SUBSET I!Ids /\ IsFiniteSet(I!Ids)
      BY FS_Interval DEF I!Unissued, I!Ids
    <3> QED
      BY <3>1, <3>2, FS_Subset, Zenon
  <2>3. /\ Cardinality(Creating \ {r}) = Cardinality(Creating) - 1
        /\ Cardinality(I!Unissued \ {n}) = Cardinality(I!Unissued) - 1
    BY <1>1, <2>1, <2>2, FS_RemoveElement
  <2>4. Cardinality(Creating) \in Nat /\ Cardinality(I!Unissued) \in Nat
    BY <2>2, FS_CardinalityType
  <2> QED
    BY <1>8, <2>1, <2>3, <2>4 DEF IInv, EnoughLinks
<1>19. OpenedOnce' /\ AccountsDiffer'
  <2>1. OpenedOnce'
    BY <1>4, <1>6, <1>8 DEF IInv, OpenedOnce
  <2> QED
    BY <1>4, <2>1 DEF IInv, AccountsDiffer
<1> QED
  BY <1>10, <1>11, <1>13, <1>14, <1>15, <1>16, <1>17, <1>18, <1>19 DEF IInv

(* A link that is revoked, and 48 hours.                                   *)
LEMMA LinkSteps ==
  ASSUME IInv, NEW n \in I!Ids
  PROVE  /\ I!Delete(n) => IInv'
         /\ I!Expire(n) => IInv'
<1> USE InvitationsAssumption DEF I!BoundAssumption, I!NoneAssumption
<1>1. ASSUME /\ UNCHANGED <<account, active, call>>
             /\ invitation' \in [I!Ids -> I!InvitationRows \union {None}]
             /\ Linked' = Linked /\ I!Unissued' = I!Unissued
             /\ \A i \in Linked : /\ invitation'[i].address = invitation[i].address
                                  /\ I!Pending(i)' => I!Pending(i)
                                  /\ I!Pending(i) /\ ~I!Pending(i)' => I!RowFree(i)
      PROVE  IInv'
  <2>1. ITyped' /\ CallKnown' /\ GuestConclusive' /\ AccountsDiffer'
    BY <1>1 DEF IInv, ITyped, CallKnown, Calls, GuestConclusive, I!HoldsGuest, AccountsDiffer
  <2>2. \A x \in Requests : \A i \in I!Ids : I!HoldsRow(x, i)' <=> I!HoldsRow(x, i)
    BY <1>1 DEF I!HoldsRow
  <2>3. RowAlone'
    BY <2>2 DEF IInv, RowAlone
  <2>4. RowConclusive'
    <3> SUFFICES ASSUME NEW x \in Requests, NEW i \in I!Ids, I!HoldsRow(x, i)'
        PROVE  I!Pending(i)'
      BY Zenon DEF RowConclusive
    <3>1. I!HoldsRow(x, i) /\ I!Pending(i) /\ i \in Linked
      BY <2>2 DEF IInv, RowConclusive, I!Pending, Linked
    <3>2. ~I!RowFree(i)
      BY <3>1 DEF I!RowFree
    <3> QED
      BY <1>1, <3>1, <3>2
  <2>5. PendingNewest' /\ LinksInOrder'
    BY <1>1, LinksEnd
  <2>6. EnoughLinks'
    BY <1>1 DEF IInv, EnoughLinks, Creating, Calls
  <2>7. OpenedOnce'
    BY <1>1 DEF IInv, OpenedOnce
  <2> QED
    BY <2>1, <2>3, <2>4, <2>5, <2>6, <2>7 DEF IInv
<1>2. ASSUME I!Delete(n) PROVE IInv'
  <2>1. n \in Linked /\ I!MarkUsed(n) /\ I!RowFree(n) /\ UNCHANGED <<account, active, call>>
    BY <1>2 DEF I!Delete, I!MarkUsed, I!Pending, Linked
  <2>2. /\ invitation' \in [I!Ids -> I!InvitationRows \union {None}]
        /\ Linked' = Linked /\ I!Unissued' = I!Unissued
        /\ \A i \in Linked : /\ invitation'[i].address = invitation[i].address
                             /\ (I!Pending(i)' <=> (I!Pending(i) /\ i # n))
    BY <2>1, MarkedUsed
  <2> QED
    BY <1>1, <2>1, <2>2
<1>3. ASSUME I!Expire(n) PROVE IInv'
  <2>1. /\ n \in Linked /\ invitation[n] \in I!InvitationRows
        /\ invitation' = [invitation EXCEPT ![n].expired = TRUE]
                /\ UNCHANGED <<account, active, call>>
    BY <1>3 DEF I!Expire, I!Pending, Linked, IInv, ITyped
  <2>2. /\ invitation'[n] = [invitation[n] EXCEPT !.expired = TRUE]
        /\ \A i \in I!Ids : i # n => invitation'[i] = invitation[i]
        /\ invitation' = [invitation EXCEPT ![n] = invitation'[n]]
    BY <2>1 DEF IInv, ITyped
  <2>3. /\ invitation'[n] \in I!InvitationRows /\ invitation'[n] # None
        /\ invitation'[n].used = invitation[n].used
        /\ invitation'[n].address = invitation[n].address
    <3>1. [invitation[n] EXCEPT !.expired = TRUE] \in I!InvitationRows
      BY <2>1 DEF I!InvitationRows
    <3>2. None \notin I!InvitationRows
      OBVIOUS
    <3>3. /\ invitation'[n].used = invitation[n].used
          /\ invitation'[n].address = invitation[n].address
      BY <2>1, <2>2 DEF I!InvitationRows
    <3> QED
      BY <2>2, <3>1, <3>2, <3>3
  <2>4. invitation' \in [I!Ids -> I!InvitationRows \union {None}]
    BY <2>2, <2>3 DEF IInv, ITyped
  <2>5. Linked' = Linked /\ I!Unissued' = I!Unissued
    BY <2>1, <2>2, <2>3 DEF Linked, I!Unissued
  <2>6. \A i \in Linked : /\ invitation'[i].address = invitation[i].address
                          /\ (I!Pending(i)' <=> I!Pending(i))
    BY <2>1, <2>2, <2>3 DEF Linked, I!Pending
  <2> QED
    BY <1>1, <2>1, <2>4, <2>5, <2>6
<1> QED
  BY <1>2, <1>3

(* A step that writes no link and begins no request.                       *)
LEMMA AccountsWritten ==
  ASSUME IInv, invitation' = invitation, active' = active,
         call' \in [Requests -> CallRows],
         \A r \in Requests : call'[r] = call[r] \/ (~Calls(r, "create") /\ call'[r] = I!Idle),
         account' \in SUBSET I!AccountRows, IsFiniteSet(account'),
         AccountsDiffer', OpenedOnce'
  PROVE  IInv'
<1>1. ITyped' /\ CallKnown'
  BY IdleCall DEF IInv, ITyped, CallKnown, Calls, Linked
<1>2. \A x \in Requests : \A i \in I!Ids : I!HoldsRow(x, i)' => I!HoldsRow(x, i)
  BY IdleCall DEF I!HoldsRow
<1>3. RowAlone'
  BY <1>2 DEF IInv, RowAlone
<1>4. RowConclusive'
  BY <1>2 DEF IInv, RowConclusive, I!Pending
<1>5. GuestConclusive'
  BY IdleCall DEF IInv, GuestConclusive, I!HoldsGuest
<1>6. PendingNewest' /\ LinksInOrder'
  BY DEF IInv, PendingNewest, LinksInOrder, Linked, I!Pending
<1>7. EnoughLinks'
  <2>1. Creating' = Creating /\ I!Unissued' = I!Unissued
    BY IdleCall DEF Creating, Calls, I!Unissued
  <2> QED
    BY <2>1 DEF IInv, EnoughLinks
<1> QED
  BY <1>1, <1>3, <1>4, <1>5, <1>6, <1>7 DEF IInv

LEMMA OpenedWithoutLink ==
  ASSUME IInv, UNCHANGED invitation, NEW x, x.by = None, account' = account \union {x}
  PROVE  OpenedOnce'
<1>1. \A a \in account' : a.by # None => a \in account
  OBVIOUS
<1>2. Linked' = Linked /\ \A i : I!Pending(i)' <=> I!Pending(i)
  BY DEF Linked, I!Pending
<1> QED
  BY <1>1, <1>2 DEF IInv, OpenedOnce

LEMMA CreateAccountStep == ASSUME IInv, NEW r \in Requests, I!CreateAccount(r) PROVE IInv'
<1> USE InvitationsAssumption DEF I!NoneAssumption
<1>1. /\ Calls(r, "account") /\ call[r].address \in Addresses /\ call[r].guest \in Guests
      /\ call[r].spelling \in I!Spellings /\ call[r].id = None
  BY DEF I!CreateAccount, IInv, CallKnown, Calls
<1>2. /\ call' = [call EXCEPT ![r] = I!Idle] /\ UNCHANGED <<invitation, active>>
      /\ ~I!Taken(call[r].address, call[r].spelling, call[r].guest)
      /\ account' = account \union {[address |-> call[r].address, spelling |-> call[r].spelling,
                                    guest |-> call[r].guest, by |-> None]}
  BY <1>1 DEF I!CreateAccount, I!Finish, I!Insert
<1>3. /\ account' \in SUBSET I!AccountRows /\ IsFiniteSet(account')
      /\ AccountsDiffer'
  BY <1>1, <1>2, Inserted
<1>4. OpenedOnce'
  BY <1>2, OpenedWithoutLink
<1>5. /\ call' \in [Requests -> CallRows]
      /\ \A x \in Requests : call'[x] = call[x] \/ (~Calls(x, "create") /\ call'[x] = I!Idle)
  BY <1>1, <1>2, IdleCall DEF IInv, ITyped, Calls
<1> QED
  BY <1>2, <1>3, <1>4, <1>5, AccountsWritten

LEMMA RegisterStep ==
  ASSUME IInv, NEW a \in Addresses, NEW s \in I!Spellings, I!Register(a, s)
  PROVE  IInv'
<1>1. /\ UNCHANGED <<invitation, active, call>> /\ ~I!Taken(a, s, None)
      /\ account' = account \union {[address |-> a, spelling |-> s, guest |-> None, by |-> None]}
  BY DEF I!Register
<1>2. /\ account' \in SUBSET I!AccountRows /\ IsFiniteSet(account')
      /\ AccountsDiffer'
  BY <1>1, Inserted
<1>3. OpenedOnce'
  BY <1>1, OpenedWithoutLink
<1>4. call' \in [Requests -> CallRows] /\ \A x \in Requests : call'[x] = call[x]
  BY <1>1 DEF IInv, ITyped
<1> QED
  BY <1>1, <1>2, <1>3, <1>4, AccountsWritten

LEMMA ChangeEmailStep ==
  ASSUME IInv, NEW a \in Addresses, NEW s \in I!Spellings, NEW x \in account,
         I!ChangeEmail(x, a, s)
  PROVE  IInv' /\ Cardinality(account') <= Cardinality(account)
<1> DEFINE row == [x EXCEPT !.address = a, !.spelling = s]
<1>1. /\ UNCHANGED <<invitation, active, call>> /\ ~I!Taken(a, s, None) /\ x.guest = None
      /\ account' = (account \ {x}) \union {row}
  BY DEF I!ChangeEmail
<1>2. x \in I!AccountRows /\ account \in SUBSET I!AccountRows /\ IsFiniteSet(account)
  BY DEF IInv, ITyped
<1>3. /\ row \in I!AccountRows
      /\ row.address = a /\ row.spelling = s /\ row.guest = None /\ row.by = x.by
  BY <1>1, <1>2 DEF I!AccountRows
<1> HIDE DEF row
<1>4. account' \in SUBSET I!AccountRows
  BY <1>1, <1>2, <1>3
<1>5. /\ IsFiniteSet(account') /\ Cardinality(account') <= Cardinality(account)
  <2>1. IsFiniteSet(account \ {x}) /\ Cardinality(account \ {x}) = Cardinality(account) - 1
    BY <1>2, FS_RemoveElement
  <2>2. /\ IsFiniteSet((account \ {x}) \union {row})
        /\ Cardinality((account \ {x}) \union {row}) =
             IF row \in account \ {x} THEN Cardinality(account \ {x})
             ELSE Cardinality(account \ {x}) + 1
    BY <2>1, FS_AddElement, Zenon
  <2>3. Cardinality(account) \in Nat
    BY <1>2, FS_CardinalityType
  <2> QED
    BY <1>1, <2>1, <2>2, <2>3
<1>6. \A y \in account : y.address = a => y.spelling # s
  BY <1>1 DEF I!Taken
<1>7. AccountsDiffer'
  <2> SUFFICES ASSUME NEW y \in account', NEW z \in account', y # z
      PROVE  /\ <<y.address, y.spelling>> # <<z.address, z.spelling>>
             /\ y.guest = z.guest => y.guest = None
    BY DEF AccountsDiffer
  <2>1. CASE y \in account /\ z \in account
    BY <2>1 DEF IInv, AccountsDiffer
  <2>2. CASE y = row /\ z \in account
    <3>1. y.address = a /\ y.spelling = s /\ y.guest = None
      BY <1>3, <2>2
    <3>2. z.address = a => z.spelling # s
      BY <1>6, <2>2
    <3>3. ~(y.address = z.address /\ y.spelling = z.spelling)
      BY <3>1, <3>2, Zenon
    <3> QED
      BY <3>1, <3>3
  <2>3. CASE y \in account /\ z = row
    <3>1. z.address = a /\ z.spelling = s /\ z.guest = None
      BY <1>3, <2>3
    <3>2. y.address = a => y.spelling # s
      BY <1>6, <2>3
    <3>3. ~(y.address = z.address /\ y.spelling = z.spelling)
      BY <3>1, <3>2, Zenon
    <3> QED
      BY <3>1, <3>3
  <2> QED
    BY <1>1, <2>1, <2>2, <2>3
<1>8. OpenedOnce'
  <2>1. Linked' = Linked /\ \A i : I!Pending(i)' <=> I!Pending(i)
    BY <1>1 DEF Linked, I!Pending
  <2>2. \A y \in account : y.by = x.by /\ x.by # None => y = x
    BY DEF IInv, OpenedOnce
  <2>3. ASSUME NEW y \in account', y.by # None
        PROVE  /\ y.by \in Linked /\ ~I!Pending(y.by)
               /\ \A z \in account' : y.by = z.by => y = z
    <3>1. CASE y = row
      BY <1>1, <1>3, <2>2, <2>3, <3>1 DEF IInv, OpenedOnce
    <3>2. CASE y \in account /\ y # x
      BY <1>1, <1>3, <2>2, <2>3, <3>2 DEF IInv, OpenedOnce
    <3> QED
      BY <1>1, <3>1, <3>2
  <2> QED
    BY <2>1, <2>3 DEF OpenedOnce
<1>9. call' \in [Requests -> CallRows] /\ \A r \in Requests : call'[r] = call[r]
  BY <1>1 DEF IInv, ITyped
<1> QED
  BY <1>1, <1>4, <1>5, <1>7, <1>8, <1>9, AccountsWritten

LEMMA InvitationsStep == IInv /\ [I!Next]_IVars => IInv'
<1> SUFFICES ASSUME IInv, [I!Next]_IVars PROVE IInv'
  OBVIOUS
<1>1. CASE UNCHANGED IVars
  BY <1>1 DEF IVars, IInv, ITyped, CallKnown, RowAlone, RowConclusive, GuestConclusive,
       PendingNewest, LinksInOrder, EnoughLinks, OpenedOnce, AccountsDiffer, Linked, Creating,
       Calls, I!HoldsRow, I!HoldsGuest, I!Pending, I!Unissued
<1>2. ASSUME NEW r \in Requests, I!Refuse(r) \/ I!Abort(r) \/ I!Fail(r) PROVE IInv'
  <2>1. call' = [call EXCEPT ![r] = I!Idle] /\ UNCHANGED <<account, invitation, active>>
    BY <1>2 DEF I!Refuse, I!Abort, I!Fail, I!Finish
  <2> QED
    BY <2>1, CallFinishes
<1>3. ASSUME NEW g \in Guests, I!SetActive(g) PROVE IInv'
  <2>1. /\ UNCHANGED <<account, invitation, call>> /\ active' \in [Guests -> BOOLEAN]
        /\ I!GuestFree(g) /\ \A h \in Guests : h # g => active'[h] = active[h]
    BY <1>3 DEF I!SetActive, IInv, ITyped
  <2>2. \A r \in Requests : \A h \in Guests : I!HoldsGuest(r, h)' => h # g /\ I!HoldsGuest(r, h)
    BY <2>1 DEF I!HoldsGuest, I!GuestFree
  <2>3. GuestConclusive'
    BY <2>1, <2>2 DEF IInv, GuestConclusive
  <2> QED
    BY <2>1, <2>3 DEF IInv, ITyped, CallKnown, RowAlone, RowConclusive,
       PendingNewest, LinksInOrder, EnoughLinks, OpenedOnce, AccountsDiffer, Linked, Creating,
       Calls, I!HoldsRow, I!Pending, I!Unissued
<1>4. CASE I!Next
  BY <1>2, <1>3, <1>4, CallSteps, CallBegins, CreateStep, AcceptStep, LinkSteps, RegisterStep,
     ChangeEmailStep, CreateAccountStep
     DEF I!Next, I!Step
<1> QED
  BY <1>1, <1>4

LEMMA InvitationsHold == IInv => I!TypeOK /\ I!LinkOpensOne
<1> SUFFICES ASSUME IInv PROVE I!TypeOK /\ I!LinkOpensOne
  OBVIOUS
<1> USE InvitationsAssumption DEF I!NoneAssumption
<1>1. I!LinkOpensOne
  <2> SUFFICES ASSUME NEW i \in I!Ids PROVE Cardinality({x \in account : x.by = i}) <= 1
    BY Counted DEF I!LinkOpensOne
  <2>1. \A x, y \in {z \in account : z.by = i} : x = y
    BY DEF IInv, OpenedOnce
  <2> QED
    BY <2>1, FewElements
<1>2. \A i, j \in I!Ids : i # j /\ I!Pending(i) /\ I!Pending(j) =>
        invitation[i].address # invitation[j].address
  <2>1. \A i \in I!Ids : I!Pending(i) => i \in Linked
    BY DEF I!Pending, Linked
  <2>2. \A i \in I!Ids : i \in Int
    BY InvitationsAssumption DEF I!BoundAssumption, I!Ids
  <2> QED
    BY <2>1, <2>2 DEF IInv, PendingNewest
<1>3. I!TypeOK
  BY <1>2 DEF IInv, ITyped, CallRows, AccountsDiffer, I!TypeOK
<1> QED
  BY <1>1, <1>3

(* Invitations: a link opens one account however often and concurrently it *)
(* is used, an address has one pending link, and the accounts keep the     *)
(* UNIQUE constraints of the table.                                        *)
THEOREM InvitedOnce == I!Spec => [](I!TypeOK /\ I!LinkOpensOne)
<1>1. IInv /\ [I!Next]_I!vars => IInv'
  BY InvitationsStep DEF I!vars, IVars
<1> QED
  BY <1>1, InvitationsInit, InvitationsHold, PTL DEF I!Spec

(* What an account opened by a step stands for.                            *)
LEMMA OpenedBy ==
  ASSUME IInv, I!Next, NEW x \in I!Opened
  PROVE  /\ x.by # None => /\ x.by \in Linked /\ I!Pending(x.by)
                           /\ invitation[x.by].address = x.address
         /\ x.guest # None => active[x.guest]
<1> USE InvitationsAssumption DEF I!NoneAssumption
<1>1. account' # account /\ Cardinality(account') > Cardinality(account) /\ x \in account' \ account
  BY Counted DEF I!Opened
<1>2. CASE \E r \in Requests : I!Accept(r)
  <2>1. PICK r \in Requests : I!Accept(r)
    BY <1>2
  <2>2. /\ Calls(r, "accept") /\ call[r] \in CallRows /\ call[r].id \in Linked
        /\ call[r].step = "guest" /\ invitation[call[r].id].address = call[r].address
    BY <2>1 DEF I!Accept, Calls, IInv, ITyped, CallKnown
  <2>3. call[r].id \in I!Ids /\ I!HoldsRow(r, call[r].id)
    BY <2>2 DEF Linked, I!HoldsRow, Calls
  <2>4. I!Pending(call[r].id)
    BY <2>3 DEF IInv, RowConclusive
  <2>5. /\ x.by = call[r].id /\ x.address = call[r].address /\ x.guest = call[r].guest
    BY <1>1, <2>1 DEF I!Accept, I!Insert
  <2>6. call[r].guest # None => active[call[r].guest]
    <3>1. call[r].guest # None => call[r].guest \in Guests /\ I!HoldsGuest(r, call[r].guest)
      BY <2>2 DEF CallRows, I!HoldsGuest
    <3> QED
      BY <3>1 DEF IInv, GuestConclusive
  <2> QED
    BY <2>2, <2>4, <2>5, <2>6
<1>3. CASE \E r \in Requests : I!CreateAccount(r)
  <2>1. PICK r \in Requests : I!CreateAccount(r)
    BY <1>3
  <2>2. call[r].guest \in Guests /\ call[r].step = "guest" /\ call[r].id = None
    BY <2>1 DEF I!CreateAccount, Calls, IInv, CallKnown
  <2>3. x.by = None /\ x.guest = call[r].guest
    BY <1>1, <2>1, <2>2 DEF I!CreateAccount, I!Insert
  <2>4. I!HoldsGuest(r, call[r].guest)
    BY <2>2 DEF I!HoldsGuest
  <2> QED
    BY <2>2, <2>3, <2>4 DEF IInv, GuestConclusive
<1>4. CASE \E a \in Addresses, s \in I!Spellings : I!Register(a, s)
  BY <1>1, <1>4 DEF I!Register
<1>5. CASE \E a \in Addresses, s \in I!Spellings : \E y \in account : I!ChangeEmail(y, a, s)
  <2>1. Cardinality(account') <= Cardinality(account)
    BY <1>5, ChangeEmailStep
  <2>2. IsFiniteSet(account) /\ IsFiniteSet(account')
    BY <1>5, ChangeEmailStep DEF IInv, ITyped
  <2>3. Cardinality(account) \in Nat /\ Cardinality(account') \in Nat
    BY <2>2, FS_CardinalityType
  <2> QED
    BY <1>1, <2>1, <2>3
<1> QED
  BY <1>1, <1>2, <1>3, <1>4, <1>5
     DEF I!Next, I!Step, I!CreateAddress, I!LockGuest, I!Create, I!AcceptRow, I!AcceptAddress,
         I!Refuse, I!Abort, I!Fail, I!BeginCreate, I!BeginAccept, I!BeginAccount, I!Delete,
         I!Expire, I!SetActive

LEMMA OpensCurrent ==
  IInv /\ [I!Next]_IVars => (I!OnlyNewestLink /\ I!NoAccountForInactive) \/ UNCHANGED IVars
<1> SUFFICES ASSUME IInv, I!Next PROVE I!OnlyNewestLink /\ I!NoAccountForInactive
  OBVIOUS
<1>1. I!NoAccountForInactive
  BY OpenedBy DEF I!NoAccountForInactive
<1>2. I!OnlyNewestLink
  <2> SUFFICES ASSUME NEW x \in I!Opened, x.by # None
      PROVE  /\ I!Pending(x.by)
             /\ \A j \in I!Ids : invitation[j] # None /\ invitation[j].address = x.address
                  => j <= x.by
    BY DEF I!OnlyNewestLink
  <2>1. x.by \in Linked /\ I!Pending(x.by) /\ invitation[x.by].address = x.address
    BY OpenedBy
  <2> QED
    BY <2>1 DEF IInv, PendingNewest, Linked
<1> QED
  BY <1>1, <1>2

(* Invitations: a link that was replaced or revoked opens no account, also *)
(* when it is accepted meanwhile, and none is opened for a guest whose     *)
(* record is inactive.                                                     *)
THEOREM InvitedCurrently == I!Spec => [][I!OnlyNewestLink /\ I!NoAccountForInactive]_I!vars
<1>1. IInv /\ [I!Next]_I!vars => IInv'
  BY InvitationsStep DEF I!vars, IVars
<1>2. IInv /\ [I!Next]_I!vars => [I!OnlyNewestLink /\ I!NoAccountForInactive]_I!vars
  BY OpensCurrent DEF I!vars, IVars
<1> QED
  BY <1>1, <1>2, InvitationsInit, PTL DEF I!Spec

-----------------------------------------------------------------------------
(* Sessions.                                                               *)

At(b, steps) == http[b].step \in steps
Known(u) == user[u] # None
Edits == [role : {"admin", "staff"}, active : BOOLEAN]

HttpRows == [step : {"idle", "verified", "resolved", "granted", "locked", "checked", "changing"},
             user : Users \union {None}, row : S!Accounts \union S!SessionRows \union {None},
             target : Users \union {None}, to : Edits \union {None}]

(* What was read of an account: the version says whether it is still so.   *)
Seen(row, u) ==
  /\ u \in Users /\ Known(u)
  /\ row.version <= user[u].version
  /\ row.version = user[u].version => /\ row.password = user[u].password
                                     /\ row.role = user[u].role

SessionsSeen == \A s \in SessionIds : session[s] # None => Seen(session[s], session[s].user)

RequestsKnown == \A b \in Browsers :
  /\ ~At(b, {"idle"}) => http[b].user \in Users /\ Known(http[b].user)
  /\ At(b, {"verified"}) => http[b].row \in S!Accounts /\ Seen(http[b].row, http[b].user)
  /\ At(b, {"locked", "checked"}) => /\ http[b].target \in Users /\ Known(http[b].target)
                                    /\ http[b].to \in Edits

(* The advisory lock: one account is edited at a time.                     *)
EditAlone == \A b, x \in Browsers :
  At(b, {"locked", "checked"}) /\ At(x, {"locked", "checked"}) => b = x

(* While an edit that takes an administrator away is pending, there is     *)
(* another one.                                                            *)
Demotes(b) == /\ http[b].target \in S!ActiveAdmins
              /\ http[b].to.role # "admin" \/ ~http[b].to.active
CheckConclusive == \A b \in Browsers :
  At(b, {"checked"}) /\ Demotes(b) => \E u \in S!ActiveAdmins : u # http[b].target

(* LOCK TABLE: while create-admin holds it there is no administrator, and  *)
(* nobody else writes.                                                     *)
Locks(k) == script[k] = "locked"
ScriptAlone == \A k \in Scripts : Locks(k) =>
  /\ \A j \in Scripts : Locks(j) => j = k
  /\ \A b \in Browsers : ~At(b, {"checked"})
  /\ \A u \in Users : Known(u) => user[u].role # "admin"

(* create-admin made an account only when there was no administrator.      *)
Made == {u \in Users : Known(u) /\ user[u].by = "script"}
MadeOnce == /\ \A u, v \in Made : u = v
            /\ Made # {} => S!ActiveAdmins # {}

UTyped ==
  /\ user \in [Users -> S!Accounts \union {None}]
  /\ session \in [SessionIds -> S!SessionRows \union {None}]
  /\ cookie \in [Browsers -> SessionIds \union {None}]
  /\ http \in [Browsers -> HttpRows]
  /\ script \in [Scripts -> {"begun", "locked", "done"}]

UInv ==
  /\ UTyped
  /\ SessionsSeen
  /\ RequestsKnown
  /\ EditAlone
  /\ CheckConclusive
  /\ ScriptAlone
  /\ MadeOnce

LEMMA IdleHttp == S!Idle \in HttpRows /\ S!Idle.step = "idle"
BY DEF S!Idle, HttpRows

LEMMA NewAccount ==
  ASSUME NEW role \in S!Roles, NEW p \in Passwords, NEW by \in {"script", "admin"}
  PROVE  /\ S!Account(role, p, by) \in S!Accounts
         /\ S!Account(role, p, by) # None
         /\ S!Account(role, p, by).by = by
         /\ S!Account(role, p, by).role = role
         /\ S!Account(role, p, by).active
<1> USE SessionsAssumption DEF S!VersionAssumption, S!NoneAssumption
<1>1. S!Account(role, p, by) \in S!Accounts
  BY DEF S!Account, S!Accounts
<1> QED
  BY <1>1 DEF S!Account

LEMMA SessionsInit == S!Init => UInv
<1> SUFFICES ASSUME S!Init PROVE UInv
  OBVIOUS
<1> USE SessionsAssumption DEF S!VersionAssumption, S!NoneAssumption
<1>1. PICK admins \in SUBSET Users, p \in Passwords :
        user = [u \in Users |-> IF u \in admins THEN S!Account("admin", p, "admin") ELSE None]
  BY DEF S!Init
<1>2. /\ S!Account("admin", p, "admin") \in S!Accounts
      /\ S!Account("admin", p, "admin").by = "admin"
  BY NewAccount DEF S!Roles
<1>3. user \in [Users -> S!Accounts \union {None}] /\ Made = {}
  BY <1>1, <1>2 DEF Made, Known
<1>4. UTyped
  BY <1>3, IdleHttp DEF S!Init, UTyped
<1>5. SessionsSeen /\ RequestsKnown /\ EditAlone /\ CheckConclusive
  BY IdleHttp DEF S!Init, SessionsSeen, RequestsKnown, EditAlone, CheckConclusive, At
<1>6. ScriptAlone /\ MadeOnce
  BY <1>3 DEF S!Init, ScriptAlone, MadeOnce, Locks
<1> QED
  BY <1>4, <1>5, <1>6 DEF UInv

(* A step of a request that writes no account.                             *)
LEMMA HttpGoesOn ==
  ASSUME UInv, UNCHANGED <<user, script>>,
         NEW b \in Browsers, NEW row \in HttpRows, http' = [http EXCEPT ![b] = row],
         session' \in [SessionIds -> S!SessionRows \union {None}],
         cookie' \in [Browsers -> SessionIds \union {None}],
         \A s \in SessionIds : session'[s] # None /\ session'[s] # session[s] =>
           Seen(session'[s], session'[s].user),
         row.step # "idle" => row.user \in Users /\ Known(row.user),
         row.step = "verified" => row.row \in S!Accounts /\ Seen(row.row, row.user),
         row.step \in {"locked", "checked"} =>
           /\ row.target \in Users /\ Known(row.target) /\ row.to \in Edits
           /\ \A x \in Browsers : x # b => ~At(x, {"locked", "checked"}),
         row.step = "checked" =>
           /\ \A k \in Scripts : ~Locks(k)
           /\ row.target \in S!ActiveAdmins /\ (row.to.role # "admin" \/ ~row.to.active) =>
                \E u \in S!ActiveAdmins : u # row.target
  PROVE  UInv'
<1>1. http'[b] = row /\ \A x \in Browsers : x # b => http'[x] = http[x]
  BY DEF UInv, UTyped
<1>2. /\ S!ActiveAdmins' = S!ActiveAdmins /\ Made' = Made
      /\ \A u : (Known(u)' <=> Known(u)) /\ \A r : (Seen(r, u)' <=> Seen(r, u))
  BY DEF S!ActiveAdmins, S!Active, Made, Known, Seen
<1>3. UTyped'
  BY DEF UInv, UTyped
<1>4. SessionsSeen'
  BY <1>2 DEF UInv, SessionsSeen, Seen, Known
<1>5. RequestsKnown'
  <2> SUFFICES ASSUME NEW x \in Browsers
      PROVE  /\ ~At(x, {"idle"})' => http'[x].user \in Users /\ user[http'[x].user] # None
             /\ At(x, {"verified"})' => /\ http'[x].row \in S!Accounts
                                       /\ Seen(http[x].row, http[x].user)'
             /\ At(x, {"locked", "checked"})' => /\ http'[x].target \in Users
                                                /\ user[http'[x].target] # None
                                                /\ http'[x].to \in Edits
    BY DEF RequestsKnown, Known
  <2>1. CASE x = b
    BY <1>1, <2>1 DEF At, Seen, Known
  <2>2. CASE x # b
    BY <1>1, <2>2 DEF UInv, RequestsKnown, At, Seen, Known
  <2> QED
    BY <2>1, <2>2
<1>6. EditAlone'
  BY <1>1 DEF UInv, EditAlone, At
<1>7. CheckConclusive'
  BY <1>1, <1>2 DEF UInv, CheckConclusive, Demotes, At
<1>8. ScriptAlone'
  BY <1>1, <1>2 DEF UInv, ScriptAlone, Locks, At, Known
<1>9. MadeOnce'
  BY <1>2 DEF UInv, MadeOnce
<1> QED
  BY <1>3, <1>4, <1>5, <1>6, <1>7, <1>8, <1>9 DEF UInv

LEMMA HttpFinishes ==
  ASSUME UInv, UNCHANGED <<user, script>>, NEW b \in Browsers,
         http' = [http EXCEPT ![b] = S!Idle],
         session' \in [SessionIds -> S!SessionRows \union {None}],
         cookie' \in [Browsers -> SessionIds \union {None}],
         \A s \in SessionIds : session'[s] # None /\ session'[s] # session[s] =>
           Seen(session'[s], session'[s].user)
  PROVE  UInv'
BY IdleHttp, HttpGoesOn

LEMMA LoginSteps ==
  ASSUME UInv, NEW b \in Browsers
  PROVE  /\ \A u \in Users : S!LoginRead(b, u) => UInv'
         /\ S!LoginInsert(b) => UInv'
         /\ S!Fail(b) => UInv'
         /\ S!Logout(b) => UInv'
<1> USE SessionsAssumption DEF S!VersionAssumption, S!NoneAssumption
<1>1. ASSUME NEW u \in Users, S!LoginRead(b, u) PROVE UInv'
  <2> DEFINE row == [S!Idle EXCEPT !.step = "verified", !.user = u, !.row = user[u]]
  <2>1. user[u] \in S!Accounts /\ Known(u)
    BY <1>1 DEF S!LoginRead, S!Active, Known, UInv, UTyped
  <2>2. row \in HttpRows
    BY <2>1, IdleHttp DEF HttpRows
  <2>3. http' = [http EXCEPT ![b] = row] /\ UNCHANGED <<user, session, cookie, script>>
    BY <1>1 DEF S!LoginRead, S!Go
  <2>4. row.step = "verified" /\ row.user = u /\ row.row = user[u]
    BY DEF S!Idle
  <2>5. Seen(user[u], u)
    BY <2>1 DEF Seen, S!Accounts
  <2>6. session' \in [SessionIds -> S!SessionRows \union {None}]
        /\ cookie' \in [Browsers -> SessionIds \union {None}]
    BY <2>3 DEF UInv, UTyped
  <2> HIDE DEF row
  <2> QED
    BY <2>1, <2>2, <2>3, <2>4, <2>5, <2>6, HttpGoesOn
<1>2. ASSUME S!LoginInsert(b) PROVE UInv'
  <2> DEFINE new == [user |-> http[b].user, version |-> S!RowRead(b).version,
                     password |-> S!RowRead(b).password, role |-> S!RowRead(b).role]
  <2>1. /\ http[b].user \in Users /\ http[b].row \in S!Accounts
        /\ Seen(http[b].row, http[b].user)
    BY <1>2 DEF S!LoginInsert, UInv, RequestsKnown, At
  <2>2. PICK s \in SessionIds :
          /\ session' = [x \in SessionIds |->
               IF x = s THEN new ELSE IF x = cookie[b] THEN None ELSE session[x]]
          /\ cookie' = [cookie EXCEPT ![b] = s]
    BY <1>2 DEF S!LoginInsert
  <2>3. new \in S!SessionRows
    BY <2>1 DEF S!SessionRows, S!Accounts, S!RowRead
  <2>4. Seen(new, new.user)
    BY <2>1 DEF Seen, S!RowRead
  <2> HIDE DEF new
  <2>5. \A x \in SessionIds : session'[x] = new \/ session'[x] = None \/ session'[x] = session[x]
    BY <2>2
  <2>6. session' \in [SessionIds -> S!SessionRows \union {None}]
    BY <2>2, <2>3 DEF UInv, UTyped
  <2>7. cookie' \in [Browsers -> SessionIds \union {None}]
    BY <2>2 DEF UInv, UTyped
  <2>8. http' = [http EXCEPT ![b] = S!Idle] /\ UNCHANGED <<user, script>>
    BY <1>2 DEF S!LoginInsert, S!Finish, S!Go
  <2> QED
    BY <2>4, <2>5, <2>6, <2>7, <2>8, HttpFinishes
<1>3. ASSUME S!Fail(b) PROVE UInv'
  <2>1. http' = [http EXCEPT ![b] = S!Idle] /\ UNCHANGED <<user, session, cookie, script>>
    BY <1>3 DEF S!Fail, S!Finish, S!Go
  <2>2. session' \in [SessionIds -> S!SessionRows \union {None}]
        /\ cookie' \in [Browsers -> SessionIds \union {None}]
    BY <2>1 DEF UInv, UTyped
  <2> QED
    BY <2>1, <2>2, HttpFinishes
<1>4. ASSUME S!Logout(b) PROVE UInv'
  <2>1. PICK s \in SessionIds :
          /\ session' = [session EXCEPT ![s] = None]
          /\ cookie' = [cookie EXCEPT ![b] = IF @ = s THEN None ELSE @]
    BY <1>4 DEF S!Logout
  <2>2. http' = [http EXCEPT ![b] = S!Idle] /\ UNCHANGED <<user, script>>
    BY <1>4 DEF S!Logout, S!Finish, S!Go
  <2>3. session' \in [SessionIds -> S!SessionRows \union {None}]
        /\ cookie' \in [Browsers -> SessionIds \union {None}]
    BY <2>1 DEF UInv, UTyped
  <2>4. \A x \in SessionIds : session'[x] = None \/ session'[x] = session[x]
    BY <2>1 DEF UInv, UTyped
  <2> QED
    BY <2>2, <2>3, <2>4, HttpFinishes
<1> QED
  BY <1>1, <1>2, <1>3, <1>4

LEMMA RequestSteps ==
  ASSUME UInv, NEW b \in Browsers
  PROVE  /\ S!Resolve(b) => UInv'
         /\ S!Authenticate(b) => UInv'
         /\ S!VerifyOld(b) => UInv'
         /\ \A u \in Users : S!BeginEdit(b, u) => UInv'
         /\ S!CheckEdit(b) => UInv'
<1> USE SessionsAssumption DEF S!VersionAssumption, S!NoneAssumption
<1>0. http[b] \in HttpRows
  BY DEF UInv, UTyped
<1>1. ASSUME S!Resolve(b) PROVE UInv'
  <2> DEFINE s == session[cookie[b]]
             row == [S!Idle EXCEPT !.step = "resolved", !.user = s.user, !.row = s]
  <2>1. s \in S!SessionRows /\ s.user \in Users /\ Known(s.user)
    BY <1>1 DEF S!Resolve, UInv, UTyped, SessionsSeen, Seen
  <2>2. row \in HttpRows
    BY <2>1, IdleHttp DEF HttpRows
  <2>3. http' = [http EXCEPT ![b] = row] /\ UNCHANGED <<user, session, cookie, script>>
    BY <1>1 DEF S!Resolve, S!Go
  <2>4. row.step = "resolved" /\ row.user = s.user
    BY DEF S!Idle
  <2>5. session' \in [SessionIds -> S!SessionRows \union {None}]
        /\ cookie' \in [Browsers -> SessionIds \union {None}]
    BY <2>3 DEF UInv, UTyped
  <2> HIDE DEF row, s
  <2> QED
    BY <2>1, <2>2, <2>3, <2>4, <2>5, HttpGoesOn
<1>2. ASSUME S!Authenticate(b) PROVE UInv'
  <2> DEFINE row == [http[b] EXCEPT !.step = "granted", !.row = user[http[b].user]]
  <2>1. http[b].user \in Users /\ Known(http[b].user)
    BY <1>2 DEF S!Authenticate, UInv, RequestsKnown, At
  <2>2. user[http[b].user] \in S!Accounts
    BY <2>1 DEF UInv, UTyped, Known
  <2>3. row \in HttpRows
    BY <1>0, <2>2 DEF HttpRows
  <2>4. http' = [http EXCEPT ![b].step = "granted", ![b].row = user[http[b].user]]
        /\ UNCHANGED <<user, session, cookie, script>>
    BY <1>2 DEF S!Authenticate
  <2>5. http' = [http EXCEPT ![b] = row]
    BY <1>0, <2>4 DEF UInv, UTyped, HttpRows
  <2>6. row.step = "granted" /\ row.user = http[b].user
    BY <1>0 DEF HttpRows
  <2>7. session' \in [SessionIds -> S!SessionRows \union {None}]
        /\ cookie' \in [Browsers -> SessionIds \union {None}]
    BY <2>4 DEF UInv, UTyped
  <2> HIDE DEF row
  <2> QED
    BY <2>1, <2>3, <2>4, <2>5, <2>6, <2>7, HttpGoesOn
<1>3. ASSUME S!VerifyOld(b) PROVE UInv'
  <2> DEFINE row == [http[b] EXCEPT !.step = "changing"]
  <2>1. http[b].user \in Users /\ Known(http[b].user)
    BY <1>3 DEF S!VerifyOld, UInv, RequestsKnown, At
  <2>2. row \in HttpRows /\ row.step = "changing" /\ row.user = http[b].user
    BY <1>0 DEF HttpRows
  <2>3. http' = [http EXCEPT ![b] = row] /\ UNCHANGED <<user, session, cookie, script>>
    BY <1>0, <1>3 DEF S!VerifyOld, UInv, UTyped, HttpRows
  <2>4. session' \in [SessionIds -> S!SessionRows \union {None}]
        /\ cookie' \in [Browsers -> SessionIds \union {None}]
    BY <2>3 DEF UInv, UTyped
  <2> HIDE DEF row
  <2> QED
    BY <2>1, <2>2, <2>3, <2>4, HttpGoesOn
<1>4. ASSUME NEW u \in Users, S!BeginEdit(b, u) PROVE UInv'
  <2>1. PICK role \in {"admin", "staff"}, act \in BOOLEAN :
          http' = [http EXCEPT ![b].step = "locked", ![b].target = u,
                               ![b].to = [role |-> role, active |-> act]]
    BY <1>4 DEF S!BeginEdit
  <2> DEFINE to == [role |-> role, active |-> act]
             row == [http[b] EXCEPT !.step = "locked", !.target = u, !.to = to]
  <2>2. /\ http[b].user \in Users /\ Known(http[b].user) /\ Known(u) /\ to \in Edits
        /\ UNCHANGED <<user, session, cookie, script>>
    BY <1>4 DEF S!BeginEdit, UInv, RequestsKnown, At, Known, Edits
  <2> HIDE DEF to
  <2>3. /\ row \in HttpRows /\ row.step = "locked" /\ row.user = http[b].user
        /\ row.target = u /\ row.to = to
    BY <1>0, <2>2 DEF HttpRows
  <2>4. http' = [http EXCEPT ![b] = row]
    <3>1. http' = [http EXCEPT ![b].step = "locked", ![b].target = u, ![b].to = to]
      BY <2>1 DEF to
    <3> QED
      BY <1>0, <3>1 DEF UInv, UTyped, HttpRows
  <2>5. \A x \in Browsers : x # b => ~At(x, {"locked", "checked"})
    BY <1>4 DEF S!BeginEdit, S!NoOtherEdit, At
  <2>6. session' \in [SessionIds -> S!SessionRows \union {None}]
        /\ cookie' \in [Browsers -> SessionIds \union {None}]
    BY <2>2 DEF UInv, UTyped
  <2> HIDE DEF row
  <2> QED
    BY <2>2, <2>3, <2>4, <2>5, <2>6, HttpGoesOn
<1>5. ASSUME S!CheckEdit(b) PROVE UInv'
  <2> DEFINE row == [http[b] EXCEPT !.step = "checked"]
             u == http[b].target  to == http[b].to
  <2>1. /\ At(b, {"locked"}) /\ http[b].user \in Users /\ Known(http[b].user)
        /\ u \in Users /\ Known(u) /\ to \in Edits
    BY <1>5 DEF S!CheckEdit, UInv, RequestsKnown, At
  <2>2. /\ row \in HttpRows /\ row.step = "checked" /\ row.user = http[b].user
        /\ row.target = u /\ row.to = to
    BY <1>0 DEF HttpRows
  <2>3. http' = [http EXCEPT ![b] = row] /\ UNCHANGED <<user, session, cookie, script>>
    BY <1>0, <1>5 DEF S!CheckEdit, UInv, UTyped, HttpRows
  <2>4. \A x \in Browsers : x # b => ~At(x, {"locked", "checked"})
    BY <2>1 DEF UInv, EditAlone, At
  <2>5. \A k \in Scripts : ~Locks(k)
    BY <1>5 DEF S!CheckEdit, S!TableFree, Locks
  <2>6. u \in S!ActiveAdmins /\ (to.role # "admin" \/ ~to.active) =>
          \E v \in S!ActiveAdmins : v # u
    <3> SUFFICES ASSUME u \in S!ActiveAdmins, to.role # "admin" \/ ~to.active,
                        \A v \in S!ActiveAdmins : v = u
        PROVE  FALSE
      OBVIOUS
    <3>1. Cardinality(S!ActiveAdmins) > 1
      BY <1>5, Counted DEF S!CheckEdit, S!AnotherAdmin
    <3>2. S!ActiveAdmins = {u}
      OBVIOUS
    <3>3. Cardinality({u}) = 1
      BY FS_Singleton, Zenon
    <3> QED
      BY <3>1, <3>2, <3>3
  <2>7. session' \in [SessionIds -> S!SessionRows \union {None}]
        /\ cookie' \in [Browsers -> SessionIds \union {None}]
    BY <2>3 DEF UInv, UTyped
  <2> HIDE DEF row, u, to
  <2> QED
    BY <2>1, <2>2, <2>3, <2>4, <2>5, <2>6, <2>7, HttpGoesOn
<1> QED
  BY <1>1, <1>2, <1>3, <1>4, <1>5

(* A write of accounts: the version changes with what the login checked,   *)
(* and a pending edit stays the only one.                                  *)
Grows == \A u \in Users : Known(u) =>
  /\ user'[u] # None /\ user'[u].by = user[u].by
  /\ user[u].version <= user'[u].version
  /\ user[u].version = user'[u].version => /\ user'[u].password = user[u].password
                                          /\ user'[u].role = user[u].role

LEMMA SeenStays ==
  ASSUME Grows, user' \in [Users -> S!Accounts \union {None}], UInv
  PROVE  /\ \A u \in Users : Known(u) => Known(u)'
         /\ \A u \in Users, row \in S!Accounts \union S!SessionRows :
              Seen(row, u) => Seen(row, u)'
<1> USE SessionsAssumption DEF S!VersionAssumption
<1>1. \A u \in Users : Known(u) => Known(u)'
  BY DEF Grows, Known
<1>2. ASSUME NEW u \in Users, NEW row \in S!Accounts \union S!SessionRows, Seen(row, u)
      PROVE  Seen(row, u)'
  <2>1. user[u] \in S!Accounts /\ user'[u] \in S!Accounts
    BY <1>2 DEF Seen, Known, Grows, UInv, UTyped
  <2>2. row.version \in Nat /\ user[u].version \in Nat /\ user'[u].version \in Nat
    BY <1>2, <2>1 DEF S!Accounts, S!SessionRows
  <2> QED
    BY <1>2, <2>1, <2>2 DEF Seen, Known, Grows
<1> QED
  BY <1>1, <1>2

LEMMA UsersWritten ==
  ASSUME UInv, Grows, user' \in [Users -> S!Accounts \union {None}],
         NEW b \in Browsers, http' = [http EXCEPT ![b] = S!Idle], UNCHANGED <<cookie, script>>,
         \A s \in SessionIds : session'[s] = None \/ session'[s] = session[s],
         session' \in [SessionIds -> S!SessionRows \union {None}],
         \A k \in Scripts : ~Locks(k),
         \A u \in Users : Known(u)' /\ user'[u].by = "script" => Known(u),
         S!ActiveAdmins # {} => S!ActiveAdmins' # {},
         \/ At(b, {"checked"})
         \/ \A u \in Users : Known(u) => (u \in S!ActiveAdmins' <=> u \in S!ActiveAdmins)
  PROVE  UInv'
<1>1. http'[b] = S!Idle /\ \A x \in Browsers : x # b => http'[x] = http[x]
  BY DEF UInv, UTyped
<1>2. UTyped'
  BY IdleHttp DEF UInv, UTyped
<1>3. /\ \A u \in Users : Known(u) => Known(u)'
      /\ \A u \in Users, row \in S!Accounts \union S!SessionRows : Seen(row, u) => Seen(row, u)'
  BY SeenStays
<1>4. SessionsSeen'
  <2> SUFFICES ASSUME NEW s \in SessionIds, session'[s] # None
      PROVE  /\ session'[s].user \in Users
             /\ user'[session'[s].user] # None
             /\ session'[s].version <= user'[session'[s].user].version
             /\ session'[s].version = user'[session'[s].user].version =>
                  /\ session'[s].password = user'[session'[s].user].password
                  /\ session'[s].role = user'[session'[s].user].role
    BY DEF SessionsSeen, Seen, Known
  <2>1. session'[s] = session[s] /\ Seen(session[s], session[s].user)
          /\ session[s] \in S!SessionRows
    BY DEF UInv, UTyped, SessionsSeen
  <2>2. session[s].user \in Users
    BY <2>1 DEF Seen
  <2>3. PICK r \in S!SessionRows, v \in Users : r = session[s] /\ v = session[s].user
    BY <2>1, <2>2
  <2>4. Seen(r, v)'
    BY <1>3, <2>1, <2>3
  <2> QED
    BY <2>1, <2>3, <2>4 DEF Seen, Known
<1>5. RequestsKnown'
  <2> SUFFICES ASSUME NEW x \in Browsers, x # b
      PROVE  /\ ~At(x, {"idle"}) => http[x].user \in Users /\ user'[http[x].user] # None
             /\ At(x, {"verified"}) =>
                  /\ http[x].row \in S!Accounts
                  /\ user'[http[x].user] # None
                  /\ http[x].row.version <= user'[http[x].user].version
                  /\ http[x].row.version = user'[http[x].user].version =>
                       /\ http[x].row.password = user'[http[x].user].password
                       /\ http[x].row.role = user'[http[x].user].role
             /\ At(x, {"locked", "checked"}) => /\ http[x].target \in Users
                                               /\ user'[http[x].target] # None
                                               /\ http[x].to \in Edits
    BY <1>1, IdleHttp DEF RequestsKnown, At, Known, Seen
  <2>1. ~At(x, {"idle"}) => http[x].user \in Users /\ user'[http[x].user] # None
    BY <1>3 DEF UInv, RequestsKnown, Known
  <2>2. ASSUME At(x, {"verified"})
        PROVE  /\ http[x].row \in S!Accounts
               /\ user'[http[x].user] # None
               /\ http[x].row.version <= user'[http[x].user].version
               /\ http[x].row.version = user'[http[x].user].version =>
                    /\ http[x].row.password = user'[http[x].user].password
                    /\ http[x].row.role = user'[http[x].user].role
    <3>1. http[x].row \in S!Accounts /\ Seen(http[x].row, http[x].user)
      BY <2>2 DEF UInv, RequestsKnown
    <3>2. http[x].user \in Users
      BY <3>1 DEF Seen
    <3>3. PICK r \in S!Accounts, v \in Users : r = http[x].row /\ v = http[x].user
      BY <3>1, <3>2
    <3>4. Seen(r, v)'
      BY <1>3, <3>1, <3>3
    <3> QED
      BY <3>3, <3>4 DEF Seen, Known
  <2>3. At(x, {"locked", "checked"}) => /\ http[x].target \in Users
                                       /\ user'[http[x].target] # None
                                       /\ http[x].to \in Edits
    BY <1>3 DEF UInv, RequestsKnown, Known
  <2> QED
    BY <2>1, <2>2, <2>3
<1>6. EditAlone'
  BY <1>1, IdleHttp DEF UInv, EditAlone, At
<1>7. CheckConclusive'
  <2> SUFFICES ASSUME NEW x \in Browsers, At(x, {"checked"})', Demotes(x)'
      PROVE  \E u \in S!ActiveAdmins' : u # http'[x].target
    BY DEF CheckConclusive
  <2>1. x # b /\ http'[x] = http[x] /\ At(x, {"checked"})
    BY <1>1, IdleHttp DEF At
  <2>2. ~At(b, {"checked"})
    BY <2>1 DEF UInv, EditAlone, At
  <2>3. http[x].target \in Users /\ Known(http[x].target)
    BY <2>1 DEF UInv, RequestsKnown, At
  <2>4. Demotes(x)
    BY <2>1, <2>2, <2>3 DEF Demotes
  <2>5. PICK u \in S!ActiveAdmins : u # http[x].target
    BY <2>1, <2>4 DEF UInv, CheckConclusive
  <2>6. u \in Users /\ Known(u)
    BY DEF S!ActiveAdmins, S!Active, Known
  <2> QED
    BY <2>1, <2>2, <2>5, <2>6
<1>8. ScriptAlone'
  BY DEF ScriptAlone, Locks
<1>9. MadeOnce'
  <2>1. Made' = Made
    <3>1. \A u \in Users : Known(u) => Known(u)' /\ user'[u].by = user[u].by
      BY <1>3 DEF Grows
    <3> QED
      BY <3>1 DEF Made
  <2> QED
    BY <2>1 DEF UInv, MadeOnce
<1> QED
  BY <1>2, <1>4, <1>5, <1>6, <1>7, <1>8, <1>9 DEF UInv

(* One account is written; "same" says that its administration is not.     *)
LEMMA OneWritten ==
  ASSUME UInv, NEW u \in Users, Known(u), NEW row \in S!Accounts,
         user' = [user EXCEPT ![u] = row], row.by = user[u].by,
         row.version = user[u].version \/ row.version = user[u].version + 1,
         row.version = user[u].version => row.password = user[u].password /\ row.role = user[u].role
  PROVE  /\ Grows /\ user' \in [Users -> S!Accounts \union {None}]
         /\ user'[u] = row /\ row # None
         /\ \A v \in Users : v # u => user'[v] = user[v]
         /\ \A v \in Users : Known(v)' /\ user'[v].by = "script" => Known(v)
<1> USE SessionsAssumption DEF S!VersionAssumption, S!NoneAssumption
<1>1. user'[u] = row /\ row # None /\ \A v \in Users : v # u => user'[v] = user[v]
  BY DEF UInv, UTyped
<1>2. user' \in [Users -> S!Accounts \union {None}]
  BY DEF UInv, UTyped
<1>3. \A v \in Users : Known(v) => user[v] \in S!Accounts /\ user[v].version \in Nat
  BY DEF UInv, UTyped, Known, S!Accounts
<1>4. Grows
  BY <1>1, <1>3 DEF Grows, Known
<1> QED
  BY <1>1, <1>2, <1>4 DEF Known

LEMMA ChangePasswordStep ==
  ASSUME UInv, NEW b \in Browsers, S!ChangePassword(b)
  PROVE  UInv' /\ S!ActiveAdmins' = S!ActiveAdmins
<1> USE SessionsAssumption DEF S!VersionAssumption, S!NoneAssumption
<1>1. PICK u \in Users : u = http[b].user /\ Known(u) /\ user[u].version < MaxVersion
  BY DEF S!ChangePassword, UInv, RequestsKnown, At
<1>2. PICK p \in Passwords : user' = [user EXCEPT ![u].password = p, ![u].version = @ + 1]
  BY <1>1 DEF S!ChangePassword, S!UpdatePassword
<1> DEFINE row == [user[u] EXCEPT !.password = p, !.version = @ + 1]
<1>3. user[u] \in S!Accounts
  BY <1>1 DEF UInv, UTyped, Known
<1>4. /\ row \in S!Accounts /\ row.by = user[u].by /\ row.version = user[u].version + 1
      /\ row.role = user[u].role /\ row.active = user[u].active /\ user[u].version \in Nat
  <2>1. user[u].version \in Nat /\ user[u].version + 1 \in 0 .. MaxVersion
    BY <1>1, <1>3 DEF S!Accounts
  <2> QED
    BY <1>3, <2>1 DEF S!Accounts
<1>5. user' = [user EXCEPT ![u] = row]
  BY <1>2, <1>3 DEF UInv, UTyped, S!Accounts
<1>6. row.version = user[u].version => row.password = user[u].password /\ row.role = user[u].role
  BY <1>4
<1> HIDE DEF row
<1>7. /\ Grows /\ user' \in [Users -> S!Accounts \union {None}]
      /\ user'[u] = row /\ row # None
      /\ \A v \in Users : v # u => user'[v] = user[v]
      /\ \A v \in Users : Known(v)' /\ user'[v].by = "script" => Known(v)
  BY <1>1, <1>4, <1>5, <1>6, OneWritten
<1>8. S!ActiveAdmins' = S!ActiveAdmins
  BY <1>1, <1>4, <1>7 DEF S!ActiveAdmins, S!Active, Known
<1>9. /\ http' = [http EXCEPT ![b] = S!Idle] /\ UNCHANGED <<session, cookie, script>>
      /\ \A k \in Scripts : ~Locks(k)
  BY DEF S!ChangePassword, S!Finish, S!Go, S!TableFree, Locks
<1>10. session' \in [SessionIds -> S!SessionRows \union {None}]
  BY <1>9 DEF UInv, UTyped
<1> QED
  BY <1>7, <1>8, <1>9, <1>10, UsersWritten

LEMMA CommitEditStep ==
  ASSUME UInv, NEW b \in Browsers, S!CommitEdit(b)
  PROVE  UInv' /\ (S!ActiveAdmins # {} => S!ActiveAdmins' # {})
<1> USE SessionsAssumption DEF S!VersionAssumption, S!NoneAssumption
<1>1. PICK u \in Users, to \in Edits :
        u = http[b].target /\ to = http[b].to /\ Known(u) /\ At(b, {"checked"})
  BY DEF S!CommitEdit, UInv, RequestsKnown, At
<1> DEFINE bumps == S!Bumps(b)
           next == IF bumps THEN user[u].version + 1 ELSE user[u].version
           row == [user[u] EXCEPT !.role = to.role, !.active = to.active, !.version = next]
<1>2. /\ bumps <=> (user[u].role # to.role \/ user[u].active # to.active)
      /\ bumps => user[u].version < MaxVersion
  BY <1>1 DEF S!CommitEdit, S!Bumps
<1>3. user[u] \in S!Accounts /\ to.role \in S!Roles /\ to.active \in BOOLEAN
  BY <1>1 DEF UInv, UTyped, Known, Edits, S!Roles
<1>4. user' = [user EXCEPT ![u].role = to.role, ![u].active = to.active,
                           ![u].version = IF bumps THEN @ + 1 ELSE @]
  BY <1>1 DEF S!CommitEdit
<1>5. next \in 0 .. MaxVersion /\ user[u].version \in Nat
  BY <1>2, <1>3 DEF S!Accounts
<1>6. user' = [user EXCEPT ![u] = row]
  BY <1>3, <1>4 DEF UInv, UTyped, S!Accounts
<1> HIDE DEF bumps
<1>7. /\ row \in S!Accounts /\ row.by = user[u].by /\ row.version = next
      /\ row.role = to.role /\ row.active = to.active /\ row.password = user[u].password
  BY <1>3, <1>5 DEF S!Accounts
<1>8. /\ row.version = user[u].version \/ row.version = user[u].version + 1
      /\ row.version = user[u].version => row.password = user[u].password /\ row.role = user[u].role
  BY <1>2, <1>5, <1>7
<1> HIDE DEF row, next
<1>9. /\ Grows /\ user' \in [Users -> S!Accounts \union {None}]
      /\ user'[u] = row /\ row # None
      /\ \A v \in Users : v # u => user'[v] = user[v]
      /\ \A v \in Users : Known(v)' /\ user'[v].by = "script" => Known(v)
  BY <1>1, <1>6, <1>7, <1>8, OneWritten
<1>10. S!ActiveAdmins # {} => S!ActiveAdmins' # {}
  <2> SUFFICES ASSUME NEW a \in S!ActiveAdmins PROVE S!ActiveAdmins' # {}
    OBVIOUS
  <2>1. \A v \in S!ActiveAdmins : v # u => v \in S!ActiveAdmins'
    BY <1>9 DEF S!ActiveAdmins, S!Active
  <2>2. CASE a # u
    BY <2>1, <2>2
  <2>3. CASE a = u /\ to.role = "admin" /\ to.active
    BY <1>7, <1>9, <2>3 DEF S!ActiveAdmins, S!Active
  <2>4. CASE a = u /\ (to.role # "admin" \/ ~to.active)
    <3>1. \E v \in S!ActiveAdmins : v # u
      BY <1>1, <2>4 DEF UInv, CheckConclusive, Demotes
    <3> QED
      BY <2>1, <3>1
  <2> QED
    BY <2>2, <2>3, <2>4
<1>11. http' = [http EXCEPT ![b] = S!Idle] /\ UNCHANGED <<session, cookie, script>>
  BY DEF S!CommitEdit, S!Finish, S!Go
<1>12. \A k \in Scripts : ~Locks(k)
  BY <1>1 DEF UInv, ScriptAlone
<1>13. session' \in [SessionIds -> S!SessionRows \union {None}]
  BY <1>11 DEF UInv, UTyped
<1> QED
  BY <1>1, <1>9, <1>10, <1>11, <1>12, <1>13, UsersWritten

LEMMA RegisterAccountStep ==
  ASSUME UInv, NEW b \in Browsers, NEW u \in Users, S!Register(b, u)
  PROVE  UInv' /\ (S!ActiveAdmins # {} => S!ActiveAdmins' # {})
<1> USE SessionsAssumption DEF S!VersionAssumption, S!NoneAssumption
<1>1. PICK role \in S!Roles, p \in Passwords :
        user' = [user EXCEPT ![u] = S!Account(role, p, "admin")]
  BY DEF S!Register
<1>2. PICK row \in S!Accounts :
        row = S!Account(role, p, "admin") /\ row # None /\ row.by = "admin"
  BY NewAccount
<1>3. /\ user'[u] = row /\ ~Known(u) /\ \A v \in Users : v # u => user'[v] = user[v]
      /\ user' \in [Users -> S!Accounts \union {None}]
  BY <1>1, <1>2 DEF S!Register, UInv, UTyped, Known
<1>4. \A v \in Users : Known(v) => v # u /\ user[v] \in S!Accounts /\ user[v].version \in Nat
  BY <1>3 DEF UInv, UTyped, Known, S!Accounts
<1>5. Grows
  BY <1>3, <1>4 DEF Grows, Known
<1>6. \A v \in Users : Known(v)' /\ user'[v].by = "script" => Known(v)
  BY <1>2, <1>3 DEF Known
<1>7. \A v \in Users : Known(v) => (v \in S!ActiveAdmins' <=> v \in S!ActiveAdmins)
  BY <1>3, <1>4 DEF S!ActiveAdmins, S!Active
<1>8. S!ActiveAdmins # {} => S!ActiveAdmins' # {}
  <2>1. \A v \in S!ActiveAdmins : v \in Users /\ Known(v)
    BY DEF S!ActiveAdmins, S!Active, Known
  <2> QED
    BY <1>7, <2>1
<1>9. /\ http' = [http EXCEPT ![b] = S!Idle] /\ UNCHANGED <<session, cookie, script>>
      /\ \A k \in Scripts : ~Locks(k)
  BY DEF S!Register, S!Finish, S!Go, S!TableFree, Locks
<1>10. session' \in [SessionIds -> S!SessionRows \union {None}]
  BY <1>9 DEF UInv, UTyped
<1> QED
  BY <1>3, <1>5, <1>6, <1>7, <1>8, <1>9, <1>10, UsersWritten

LEMMA ChangeAccessStep ==
  ASSUME UInv, NEW b \in Browsers, NEW u \in Users, S!ChangeAccess(b, u)
  PROVE  UInv' /\ (S!ActiveAdmins # {} => S!ActiveAdmins' # {})
<1> USE SessionsAssumption DEF S!VersionAssumption, S!NoneAssumption
<1>1. PICK act \in BOOLEAN : user' = [user EXCEPT ![u].active = act, ![u].version = @ + 1]
  BY DEF S!ChangeAccess
<1> DEFINE row == [user[u] EXCEPT !.active = act, !.version = @ + 1]
<1>2. Known(u) /\ user[u] \in S!Accounts /\ user[u].role = "customer"
  BY DEF S!ChangeAccess, UInv, UTyped, Known
<1>3. /\ row \in S!Accounts /\ row.by = user[u].by /\ row.version = user[u].version + 1
      /\ row.role = "customer" /\ user[u].version \in Nat
  <2>1. user[u].version \in Nat /\ user[u].version + 1 \in 0 .. MaxVersion
    BY <1>2 DEF S!Accounts, S!ChangeAccess
  <2> QED
    BY <1>2, <2>1 DEF S!Accounts
<1>4. user' = [user EXCEPT ![u] = row]
  BY <1>1, <1>2 DEF UInv, UTyped, S!Accounts
<1>5. row.version = user[u].version => row.password = user[u].password /\ row.role = user[u].role
  BY <1>3
<1> HIDE DEF row
<1>6. /\ Grows /\ user' \in [Users -> S!Accounts \union {None}]
      /\ user'[u] = row /\ row # None
      /\ \A v \in Users : v # u => user'[v] = user[v]
      /\ \A v \in Users : Known(v)' /\ user'[v].by = "script" => Known(v)
  BY <1>2, <1>3, <1>4, <1>5, OneWritten
<1>7. S!ActiveAdmins' = S!ActiveAdmins
  BY <1>2, <1>3, <1>6 DEF S!ActiveAdmins, S!Active
<1>8. /\ http' = [http EXCEPT ![b] = S!Idle] /\ UNCHANGED <<cookie, script>>
      /\ session' = [s \in SessionIds |->
           IF session[s] # None /\ session[s].user = u THEN None ELSE session[s]]
      /\ \A k \in Scripts : ~Locks(k)
  BY DEF S!ChangeAccess, S!Finish, S!Go, S!TableFree, Locks
<1>9. /\ session' \in [SessionIds -> S!SessionRows \union {None}]
      /\ \A s \in SessionIds : session'[s] = None \/ session'[s] = session[s]
  BY <1>8 DEF UInv, UTyped
<1> QED
  BY <1>6, <1>7, <1>8, <1>9, UsersWritten

LEMMA ScriptSteps ==
  ASSUME UInv, NEW k \in Scripts
  PROVE  /\ S!ScriptLock(k) => UInv'
         /\ S!ScriptInsert(k) => UInv' /\ S!ActiveAdmins' # {}
<1> USE SessionsAssumption DEF S!VersionAssumption, S!NoneAssumption
<1>1. ASSUME S!ScriptLock(k) PROVE UInv'
  <2>1. /\ UNCHANGED <<user, session, cookie, http>> /\ script' = [script EXCEPT ![k] = "locked"]
        /\ S!Alone(k) /\ \A u \in Users : Known(u) => user[u].role # "admin"
    BY <1>1 DEF S!ScriptLock, Known
  <2>2. UTyped'
    BY <2>1 DEF UInv, UTyped
  <2>3. \A j \in Scripts : Locks(j)' => j = k
    BY <2>1 DEF S!Alone, Locks, UInv, UTyped
  <2>4. ScriptAlone'
    BY <2>1, <2>3 DEF S!Alone, ScriptAlone, At, Known
  <2> QED
    BY <2>1, <2>2, <2>4 DEF UInv, SessionsSeen, Seen, RequestsKnown, EditAlone, CheckConclusive,
       Demotes, MadeOnce, Made, Known, At, S!ActiveAdmins, S!Active
<1>2. ASSUME S!ScriptInsert(k) PROVE UInv' /\ S!ActiveAdmins' # {}
  <2>1. PICK u \in Users, p \in Passwords :
          ~Known(u) /\ user' = [user EXCEPT ![u] = S!Account("admin", p, "script")]
    BY <1>2 DEF S!ScriptInsert, Known
  <2>2. /\ UNCHANGED <<session, cookie, http>> /\ script' = [script EXCEPT ![k] = "done"]
        /\ Locks(k)
    BY <1>2 DEF S!ScriptInsert, Locks
  <2>3. PICK row \in S!Accounts :
          /\ row = S!Account("admin", p, "script") /\ row # None /\ row.by = "script"
          /\ row.role = "admin" /\ row.active
    BY NewAccount DEF S!Roles
  <2>4. /\ user'[u] = row /\ \A v \in Users : v # u => user'[v] = user[v]
        /\ user' \in [Users -> S!Accounts \union {None}]
    BY <2>1, <2>3 DEF UInv, UTyped
  <2>5. \A v \in Users : Known(v) => v # u /\ user[v] \in S!Accounts /\ user[v].version \in Nat
    BY <2>1 DEF UInv, UTyped, Known, S!Accounts
  <2>6. /\ \A v \in Users : Known(v) => Known(v)' /\ user'[v] = user[v]
        /\ S!ActiveAdmins = {} /\ u \in S!ActiveAdmins'
    <3>1. \A v \in Users : Known(v) => user[v].role # "admin"
      BY <2>2 DEF UInv, ScriptAlone
    <3>2. S!ActiveAdmins = {}
      BY <3>1 DEF S!ActiveAdmins, S!Active, Known
    <3>3. u \in S!ActiveAdmins'
      BY <2>3, <2>4 DEF S!ActiveAdmins, S!Active
    <3> QED
      BY <2>4, <2>5, <3>2, <3>3 DEF Known
  <2>7. /\ \A b \in Browsers : ~At(b, {"checked"})
        /\ \A j \in Scripts : ~Locks(j)'
    BY <2>2 DEF UInv, UTyped, ScriptAlone, Locks
  <2>8. UTyped'
    BY <2>2, <2>4 DEF UInv, UTyped
  <2>9. SessionsSeen'
    BY <2>2, <2>6 DEF UInv, SessionsSeen, Seen, Known
  <2>10. RequestsKnown'
    BY <2>2, <2>6 DEF UInv, RequestsKnown, Seen, Known, At
  <2>11. EditAlone' /\ CheckConclusive' /\ ScriptAlone'
    BY <2>2, <2>7 DEF UInv, EditAlone, CheckConclusive, ScriptAlone, At
  <2>12. MadeOnce'
    <3>1. Made = {}
      BY <2>6 DEF UInv, MadeOnce
    <3>2. Made' \subseteq {u}
      BY <2>4, <3>1 DEF Made, Known
    <3> QED
      BY <2>6, <3>2 DEF MadeOnce
  <2> QED
    BY <2>6, <2>8, <2>9, <2>10, <2>11, <2>12 DEF UInv
<1> QED
  BY <1>1, <1>2

LEMMA SessionsStep == UInv /\ [S!Next]_SVars => UInv'
<1> SUFFICES ASSUME UInv, [S!Next]_SVars PROVE UInv'
  OBVIOUS
<1>1. CASE UNCHANGED SVars
  BY <1>1 DEF SVars, UInv, UTyped, SessionsSeen, Seen, RequestsKnown, EditAlone, CheckConclusive,
     Demotes, ScriptAlone, MadeOnce, Made, Known, At, Locks, S!ActiveAdmins, S!Active
<1>2. CASE S!Next
  BY <1>2, LoginSteps, RequestSteps, ChangePasswordStep, CommitEditStep, RegisterAccountStep,
     ChangeAccessStep, ScriptSteps
     DEF S!Next
<1> QED
  BY <1>1, <1>2

LEMMA SessionsHold ==
  UInv => S!TypeOK /\ S!AcceptedSessionIsCurrent /\ S!FirstAdministratorOnce
<1> SUFFICES ASSUME UInv
    PROVE  S!TypeOK /\ S!AcceptedSessionIsCurrent /\ S!FirstAdministratorOnce
  OBVIOUS
<1>1. S!TypeOK
  BY DEF UInv, UTyped, HttpRows, RequestsKnown, At, Known, S!TypeOK
<1>2. S!AcceptedSessionIsCurrent
  BY DEF UInv, SessionsSeen, Seen, S!AcceptedSessionIsCurrent
<1>3. S!FirstAdministratorOnce
  <2>1. Cardinality(Made) <= 1
    BY FewElements DEF UInv, MadeOnce
  <2> QED
    BY <2>1, Counted DEF S!FirstAdministratorOnce, Made, Known
<1> QED
  BY <1>1, <1>2, <1>3

LEMMA AdministratorsStay ==
  UInv /\ [S!Next]_SVars =>
    (S!AdministratorRemains /\ S!DeactivationEndsSessions) \/ UNCHANGED SVars
<1> SUFFICES ASSUME UInv, S!Next PROVE S!AdministratorRemains /\ S!DeactivationEndsSessions
  OBVIOUS
<1> USE SessionsAssumption DEF S!VersionAssumption, S!NoneAssumption
<1>1. S!AdministratorRemains
  <2>1. ASSUME UNCHANGED user PROVE S!AdministratorRemains
    BY <2>1 DEF S!AdministratorRemains, S!ActiveAdmins, S!Active
  <2> QED
    BY <2>1, ChangePasswordStep, CommitEditStep, RegisterAccountStep, ChangeAccessStep, ScriptSteps
       DEF S!AdministratorRemains, S!Next, S!LoginInsert, S!Fail, S!Resolve, S!Authenticate,
           S!Logout, S!VerifyOld, S!CheckEdit, S!LoginRead, S!BeginEdit, S!ScriptLock
<1>2. S!DeactivationEndsSessions
  <2> SUFFICES ASSUME NEW s \in SessionIds, session[s] # None, session'[s] = session[s],
                      ~user[session[s].user].active, user'[session[s].user].active,
                      session[s].version = user'[session[s].user].version
      PROVE  FALSE
    BY DEF S!DeactivationEndsSessions
  <2>1. /\ session[s] \in S!SessionRows /\ session[s].user \in Users
        /\ Known(session[s].user) /\ session[s].version <= user[session[s].user].version
    BY DEF UInv, UTyped, SessionsSeen, Seen
  <2>2. PICK u \in Users : u = session[s].user
    BY <2>1
  <2>3. /\ Known(u) /\ user[u] \in S!Accounts /\ user[u].version \in Nat
        /\ user'[u].version <= user[u].version /\ user'[u].active # user[u].active
    BY <2>1, <2>2 DEF UInv, UTyped, Known, S!Accounts
  <2>4. CASE \E b \in Browsers : S!ChangePassword(b)
    <3>1. PICK b \in Browsers, p \in Passwords :
            user' = [user EXCEPT ![http[b].user].password = p, ![http[b].user].version = @ + 1]
      BY <2>4 DEF S!ChangePassword, S!UpdatePassword
    <3>2. user'[u].active = user[u].active
      BY <2>3, <3>1 DEF UInv, UTyped, S!Accounts
    <3> QED
      BY <2>3, <3>2
  <2>5. CASE \E b \in Browsers : S!CommitEdit(b)
    <3>1. PICK b \in Browsers : S!CommitEdit(b)
      BY <2>5
    <3>2. user' = [user EXCEPT ![http[b].target].role = http[b].to.role,
                               ![http[b].target].active = http[b].to.active,
                               ![http[b].target].version = IF S!Bumps(b) THEN @ + 1 ELSE @]
      BY <3>1 DEF S!CommitEdit
    <3>3. http[b].target = u
      BY <2>3, <3>2 DEF UInv, UTyped
    <3>4. user'[u].active = http[b].to.active
      BY <2>3, <3>2, <3>3 DEF UInv, UTyped, S!Accounts
    <3>5. S!Bumps(b)
      BY <2>3, <3>3, <3>4 DEF S!Bumps
    <3>6. user'[u].version = user[u].version + 1
      BY <2>3, <3>2, <3>3, <3>5 DEF UInv, UTyped, S!Accounts
    <3> QED
      BY <2>3, <3>6
  <2>6. CASE \E b \in Browsers, v \in Users : S!Register(b, v)
    BY <2>3, <2>6 DEF S!Register, Known, UInv, UTyped
  <2>7. CASE \E b \in Browsers, v \in Users : S!ChangeAccess(b, v)
    <3>1. PICK b \in Browsers, v \in Users, act \in BOOLEAN :
            user' = [user EXCEPT ![v].active = act, ![v].version = @ + 1]
      BY <2>7 DEF S!ChangeAccess
    <3>2. v = u
      BY <2>3, <3>1 DEF UInv, UTyped
    <3>3. user'[u].version = user[u].version + 1
      BY <2>3, <3>1, <3>2 DEF UInv, UTyped, S!Accounts
    <3> QED
      BY <2>3, <3>3
  <2>8. CASE \E k \in Scripts : S!ScriptInsert(k)
    BY <2>3, <2>8 DEF S!ScriptInsert, Known, UInv, UTyped
  <2> QED
    BY <2>3, <2>4, <2>5, <2>6, <2>7, <2>8
       DEF S!Next, S!LoginInsert, S!Fail, S!Resolve, S!Authenticate,
           S!Logout, S!VerifyOld, S!CheckEdit, S!LoginRead, S!BeginEdit, S!ScriptLock
<1> QED
  BY <1>1, <1>2

(* Sessions: one that the middleware accepts was opened with the present   *)
(* password and for the present role of its account, and create-admin,     *)
(* run any number of times at once, makes one account.                     *)
THEOREM SessionsAreCurrent ==
  S!Spec => [](S!TypeOK /\ S!AcceptedSessionIsCurrent /\ S!FirstAdministratorOnce)
<1>1. UInv /\ [S!Next]_S!vars => UInv'
  BY SessionsStep DEF S!vars, SVars
<1> QED
  BY <1>1, SessionsInit, SessionsHold, PTL DEF S!Spec

(* The same in the composition.                                            *)
THEOREM Current == Spec => []SessionsCurrent
<1> DEFINE Inv == part \in Accounts => UInv
<1>1. Init => Inv
  BY SessionsInit DEF Init, Accounts, Logins
<1>2. Inv /\ [Next]_all => Inv'
  <2> SUFFICES ASSUME Inv, [Next]_all, part' \in Accounts PROVE UInv'
    OBVIOUS
  <2>1. part \in Accounts /\ [S!Next]_SVars
    BY DEF Next, all, SOnly, MOnly, IOnly, POnly, OOnly, LOnly, COnly, Accounts, Logins
  <2> QED
    BY <2>1, SessionsStep
<1>3. Inv => SessionsCurrent
  BY SessionsHold DEF SessionsCurrent
<1> QED
  BY <1>1, <1>2, <1>3, PTL DEF Spec

(* Accounts: however administrators demote and deactivate each other at    *)
(* the same time one of them remains active, and a session from before a   *)
(* deactivation is not accepted after it.                                  *)
THEOREM Administrators == Spec => AdministratorRemains
<1> DEFINE Inv == part \in Accounts => UInv
<1>1. Init => Inv
  BY SessionsInit DEF Init, Accounts, Logins
<1>2. Inv /\ [Next]_all => Inv'
  <2> SUFFICES ASSUME Inv, [Next]_all, part' \in Accounts PROVE UInv'
    OBVIOUS
  <2>1. part \in Accounts /\ [S!Next]_SVars
    BY DEF Next, all, SOnly, MOnly, IOnly, POnly, OOnly, LOnly, COnly, Accounts, Logins
  <2> QED
    BY <2>1, SessionsStep
<1>3. Inv /\ [Next]_all =>
        [(part \in Accounts) => S!AdministratorRemains /\ S!DeactivationEndsSessions]_all
  BY AdministratorsStay DEF all, SVars, Next, SOnly, MOnly, IOnly, POnly, OOnly, LOnly,
     COnly, Accounts, Logins
<1> QED
  BY <1>1, <1>2, <1>3, PTL DEF Spec, AdministratorRemains

-----------------------------------------------------------------------------
(* Both kinds of links, as MCAccounts runs them.                           *)

LinksInv ==
  /\ part = "invitations" => IInv
  /\ part = "resets" => PInv

LEMMA LinksInit == Init => LinksInv
BY InvitationsInit, ResetsInit DEF Init, LinksInv, Accounts, Logins

LEMMA LinksStep ==
  LinksInv /\ [Next]_all =>
    /\ LinksInv'
    /\ part = "invitations" => [I!Next]_IVars
    /\ part = "resets" => [P!Next]_PVars
<1> SUFFICES ASSUME LinksInv, [Next]_all
    PROVE  /\ LinksInv'
           /\ part = "invitations" => [I!Next]_IVars
           /\ part = "resets" => [P!Next]_PVars
  OBVIOUS
<1>1. /\ part' = part
      /\ part = "invitations" => [I!Next]_IVars
      /\ part = "resets" => [P!Next]_PVars
  BY DEF Next, all, SOnly, MOnly, IOnly, POnly, OOnly, LOnly, COnly, Accounts, Logins
<1> QED
  BY <1>1, InvitationsStep, ResetsStep DEF LinksInv

(* A link opens one account or sets one password, however often and        *)
(* concurrently it is used, and an account gets one link a minute.         *)
THEOREM Links == Spec => []LinksWorkOnce
<1>1. LinksInv => LinksWorkOnce
  BY InvitationsHold, ResetsHolds DEF LinksInv, LinksWorkOnce
<1> QED
  BY <1>1, LinksInit, LinksStep, PTL DEF Spec

(* A link that was replaced or revoked does nothing any more, and no       *)
(* account is opened for a guest who is inactive.                          *)
THEOREM NewestLinks == Spec => OnlyNewestLink
<1>1. LinksInv /\ [Next]_all => [
        /\ part = "invitations" => I!OnlyNewestLink /\ I!NoAccountForInactive
        /\ part = "resets" => P!OnlyNewestResets
        ]_all
  BY LinksStep, OpensCurrent, NewestResets DEF LinksInv, all, IVars, PVars, Next, SOnly, MOnly,
     IOnly, POnly, OOnly, LOnly, COnly, Accounts, Logins
<1> QED
  BY <1>1, LinksInit, LinksStep, PTL DEF Spec, OnlyNewestLink

-----------------------------------------------------------------------------
(* Mfa.  The account's lock is held by one request (LoginAlone).  What a  *)
(* request has proved, or found, holds of the factor as long as the        *)
(* version of the account is the one it saw (LoginHolds); so does what an  *)
(* enrolment to replace the factor was opened with (ChallengeHolds).  A    *)
(* pending secret is of one challenge and of no code used before, so the   *)
(* codes used of the factor's secret are those its row remembers.          *)

LoginRows == [step : {"idle", "password", "opening", "opened", "trying", "proven", "issue",
                      "plain"},
              goal : M!Goals, version : 0 .. MaxFactor,
              ch : Challenges \union {None}, code : M!Codes \union {None},
              confirm : BOOLEAN, proof : M!Secrets \union {None}]

Locking == {"opening", "trying"}

LoginAlone == \A a, b \in Browsers :
  login[a].step \in Locking /\ login[b].step \in Locking => a = b

LoginHolds(row) ==
  /\ row \in LoginRows
  /\ row.version <= version
  /\ row.step = "opening" => M!Pending(row.version) < MaxPending
  /\ row.step = "trying" =>
       /\ row.ch \in Challenges /\ challenge[row.ch] # None
       /\ challenge[row.ch].version = version
       /\ challenge[row.ch].attempts < PerChallenge
       /\ M!Attempts(version) < InTotal
  /\ (row.goal = "replace" \/ row.step = "proven") /\ row.version = version =>
       factor # None /\ factor.secret = row.proof
  /\ row.step = "plain" /\ row.version = version => factor = None

ChallengeHolds(row) ==
  /\ row.version <= version
  /\ row.replace /\ row.version = version => factor # None /\ factor.secret = row.proof
  /\ row.pending # None =>
       /\ row.pending <= secrets
       /\ factor # None => factor.secret # row.pending
       /\ \A u \in used : u.secret # row.pending

PendingOnce == \A c, d \in Challenges :
  /\ challenge[c] # None /\ challenge[c].pending # None
  /\ challenge[d] # None /\ challenge[d].pending = challenge[c].pending
  => c = d

FactorHolds == factor # None =>
  /\ factor.secret <= secrets
  /\ \A u \in used : u.secret = factor.secret =>
       /\ u.kind = "time" => u.n <= factor.last
       /\ u.kind = "recovery" => ~factor.recovery

SessionsHeld == \A s \in sessions :
  /\ s.version <= version
  /\ factor # None /\ s.version = version => s.verified

MTyped ==
  /\ version \in 0 .. MaxFactor
  /\ factor \in M!Factors \union {None}
  /\ challenge \in [Challenges -> M!ChallengeRows \union {None}]
  /\ sessions \subseteq [version : 0 .. MaxFactor, verified : BOOLEAN]
  /\ DOMAIN login = Browsers /\ login = [b \in Browsers |-> login[b]]
  /\ secrets \in 0 .. MaxSecret
  /\ time \in 0 .. MaxTime
  /\ used \subseteq M!Codes /\ \A u \in used : u.secret <= secrets

MInv ==
  /\ MTyped
  /\ LoginAlone
  /\ \A b \in Browsers : LoginHolds(login[b])
  /\ \A c \in Challenges : challenge[c] # None => ChallengeHolds(challenge[c])
  /\ PendingOnce
  /\ FactorHolds
  /\ SessionsHeld
  /\ M!BudgetKept

LEMMA MfaHolds == MInv => M!TypeOK /\ M!BudgetKept /\ M!EnrolledMeansVerified
<1> SUFFICES ASSUME MInv PROVE M!TypeOK /\ M!BudgetKept /\ M!EnrolledMeansVerified
  OBVIOUS
<1>1. login \in [Browsers -> LoginRows]
  BY DEF MInv, MTyped, LoginHolds
<1>2. M!TypeOK
  BY <1>1 DEF MInv, MTyped, M!TypeOK, LoginRows
<1> QED
  BY <1>2 DEF MInv, SessionsHeld, M!EnrolledMeansVerified

LEMMA IdleLogin ==
  /\ M!Idle \in LoginRows
  /\ M!Idle.step = "idle" /\ M!Idle.version = 0 /\ M!Idle.goal = "login"
BY MfaAssumption DEF M!Idle, LoginRows, M!BoundAssumption, M!Goals

(* A request between its steps, and one that is done.                      *)
LEMMA IdleHolds == ASSUME MTyped PROVE LoginHolds(M!Idle)
BY IdleLogin DEF LoginHolds, MTyped

-----------------------------------------------------------------------------
(* The budgets count finite sets.                                          *)

LEMMA Budgets ==
  ASSUME NEW v
  PROVE  /\ IsFiniteSet(M!LiveOf(v)) /\ IsFiniteSet(M!AttemptsOf(v))
         /\ M!Pending(v) = Cardinality(M!LiveOf(v)) /\ M!Pending(v) \in Nat
         /\ M!Attempts(v) = Cardinality(M!AttemptsOf(v)) /\ M!Attempts(v) \in Nat
<1>1. IsFiniteSet(Challenges) /\ PerChallenge \in Nat
  BY Finite, MfaAssumption DEF M!BoundAssumption, M!BudgetAssumption
<1>2. M!LiveOf(v) \subseteq Challenges
  BY DEF M!LiveOf
<1>3. IsFiniteSet(M!LiveOf(v))
  BY <1>1, <1>2, FS_Subset, Zenon
<1>4. IsFiniteSet(1 .. PerChallenge)
  BY <1>1, FS_Interval
<1>5. IsFiniteSet(M!LiveOf(v) \X (1 .. PerChallenge))
  BY <1>3, <1>4, FS_Product, Zenon
<1>6. M!AttemptsOf(v) \subseteq M!LiveOf(v) \X (1 .. PerChallenge)
  BY DEF M!AttemptsOf
<1>7. IsFiniteSet(M!AttemptsOf(v))
  BY <1>5, <1>6, FS_Subset, Zenon
<1>8. Cardinality(M!LiveOf(v)) \in Nat /\ Cardinality(M!AttemptsOf(v)) \in Nat
  BY <1>3, <1>7, FS_CardinalityType, Zenon
<1> QED
  BY <1>3, <1>7, <1>8, Counted DEF M!Pending, M!Attempts

LEMMA BudgetsLess ==
  ASSUME NEW v, M!LiveOf(v)' \subseteq M!LiveOf(v), M!AttemptsOf(v)' \subseteq M!AttemptsOf(v)
  PROVE  M!Pending(v)' <= M!Pending(v) /\ M!Attempts(v)' <= M!Attempts(v)
<1>1. Cardinality(M!LiveOf(v)') <= Cardinality(M!LiveOf(v))
  BY Budgets, FS_Subset, Zenon
<1>2. Cardinality(M!AttemptsOf(v)') <= Cardinality(M!AttemptsOf(v))
  BY Budgets, FS_Subset, Zenon
<1>3. M!Pending(v)' = Cardinality(M!LiveOf(v)') /\ M!Attempts(v)' = Cardinality(M!AttemptsOf(v)')
  BY Counted DEF M!Pending, M!Attempts
<1> QED
  BY <1>1, <1>2, <1>3, Budgets

(* Challenges that end, or keep their version and attempts, cost nothing.  *)
LEMMA BudgetsStay ==
  ASSUME M!BudgetKept,
         \A c \in Challenges : challenge'[c] # None =>
           /\ challenge[c] # None
           /\ challenge'[c].version = challenge[c].version
           /\ challenge'[c].attempts = challenge[c].attempts
  PROVE  /\ M!BudgetKept'
         /\ \A v : /\ M!Pending(v) \in Nat /\ M!Pending(v)' \in 0 .. M!Pending(v)
                   /\ M!Attempts(v) \in Nat /\ M!Attempts(v)' \in 0 .. M!Attempts(v)
<1>1. ASSUME NEW v
      PROVE  M!LiveOf(v)' \subseteq M!LiveOf(v) /\ M!AttemptsOf(v)' \subseteq M!AttemptsOf(v)
  BY DEF M!LiveOf, M!AttemptsOf
<1>2. ASSUME NEW v PROVE M!Pending(v)' <= M!Pending(v) /\ M!Attempts(v)' <= M!Attempts(v)
  BY <1>1, BudgetsLess
<1>3. InTotal \in Nat /\ MaxPending \in Nat
  BY MfaAssumption DEF M!BudgetAssumption
<1>4. ASSUME NEW v
      PROVE  /\ M!Pending(v)' \in Nat /\ M!Attempts(v)' \in Nat
             /\ M!Pending(v) \in Nat /\ M!Attempts(v) \in Nat
  <2>1. /\ IsFiniteSet(M!LiveOf(v)') /\ IsFiniteSet(M!AttemptsOf(v)')
    BY <1>1, Budgets, FS_Subset, Zenon
  <2>2. Cardinality(M!LiveOf(v)') \in Nat /\ Cardinality(M!AttemptsOf(v)') \in Nat
    BY <2>1, FS_CardinalityType, Zenon
  <2> QED
    BY <2>2, Counted, Budgets DEF M!Pending, M!Attempts
<1>5. M!BudgetKept'
  <2> SUFFICES ASSUME NEW v \in 0 .. MaxFactor
               PROVE  M!Attempts(v)' <= InTotal /\ M!Pending(v)' <= MaxPending
    BY DEF M!BudgetKept
  <2>1. M!Attempts(v) <= InTotal /\ M!Pending(v) <= MaxPending
    BY DEF M!BudgetKept
  <2> QED
    BY <2>1, <1>2, <1>3, <1>4
<1> QED
  BY <1>2, <1>4, <1>5

-----------------------------------------------------------------------------
(* Steps of one request that write nothing else.                           *)

LEMMA MfaInit == M!Init => MInv
<1> SUFFICES ASSUME M!Init PROVE MInv
  OBVIOUS
<1>1. MTyped
  BY MfaAssumption DEF M!Init, MTyped, M!BoundAssumption
<1>2. \A b \in Browsers : LoginHolds(login[b])
  BY <1>1, IdleHolds DEF M!Init
<1>3. LoginAlone
  BY IdleLogin DEF M!Init, LoginAlone, Locking
<1>4. M!BudgetKept
  <2> SUFFICES ASSUME NEW v \in 0 .. MaxFactor
               PROVE  M!Attempts(v) <= InTotal /\ M!Pending(v) <= MaxPending
    BY DEF M!BudgetKept
  <2>1. M!LiveOf(v) = {} /\ M!AttemptsOf(v) = {}
    BY DEF M!Init, M!LiveOf, M!AttemptsOf
  <2>2. M!Attempts(v) = 0 /\ M!Pending(v) = 0
    BY <2>1, Budgets, FS_EmptySet
  <2> QED
    BY <2>2, MfaAssumption DEF M!BudgetAssumption
<1> QED
  BY <1>1, <1>2, <1>3, <1>4 DEF M!Init, MInv, PendingOnce, FactorHolds, SessionsHeld

LEMMA LoginStays ==
  ASSUME NEW row, LoginHolds(row), UNCHANGED <<version, factor, challenge>>
  PROVE  LoginHolds(row)'
<1>1. ASSUME NEW v PROVE M!Pending(v)' = M!Pending(v) /\ M!Attempts(v)' = M!Attempts(v)
  BY DEF M!Pending, M!Attempts, M!LiveOf, M!AttemptsOf
<1>2. M!Attempts(version)' = M!Attempts(version)
  BY <1>1
<1>3. M!Pending(row.version)' = M!Pending(row.version)
  BY <1>1
<1> QED
  BY <1>2, <1>3 DEF LoginHolds

LEMMA LoginGoesOn ==
  ASSUME MInv, NEW b \in Browsers, NEW row, LoginHolds(row),
         row.step \in Locking => \A x \in Browsers \ {b} : login[x].step \notin Locking,
         login' = [login EXCEPT ![b] = row],
         UNCHANGED <<version, factor, challenge, secrets, used>>,
         \/ sessions' = sessions
         \/ SessionsHeld' /\ sessions' \subseteq [version : 0 .. MaxFactor, verified : BOOLEAN],
         time' \in 0 .. MaxTime
  PROVE  MInv'
<1>1. \A x \in Browsers : login'[x] = IF x = b THEN row ELSE login[x]
  BY DEF MInv, MTyped
<1>2. MTyped'
  BY DEF MInv, MTyped
<1>3. LoginAlone'
  BY <1>1 DEF MInv, LoginAlone
<1>4. ASSUME NEW x \in Browsers PROVE LoginHolds(login[x])'
  <2> DEFINE now == IF x = b THEN row ELSE login[x]
  <2>1. LoginHolds(now)
    BY DEF MInv
  <2>2. PICK r : r = now
    OBVIOUS
  <2>3. LoginHolds(r)'
    BY <2>1, <2>2, LoginStays
  <2> QED
    BY <1>1, <2>2, <2>3
<1>5. M!BudgetKept'
  <2>1. \A v : M!Pending(v)' = M!Pending(v) /\ M!Attempts(v)' = M!Attempts(v)
    BY DEF M!Pending, M!Attempts, M!LiveOf, M!AttemptsOf
  <2> QED
    BY <2>1 DEF MInv, M!BudgetKept
<1>6. PendingOnce' /\ FactorHolds' /\ SessionsHeld'
  BY DEF MInv, PendingOnce, FactorHolds, SessionsHeld
<1>7. \A c \in Challenges : challenge'[c] # None => ChallengeHolds(challenge[c])'
  BY DEF MInv, ChallengeHolds
<1> QED
  BY <1>2, <1>3, <1>4, <1>5, <1>6, <1>7 DEF MInv

LEMMA PasswordStep ==
  ASSUME MInv, NEW b \in Browsers, NEW goal \in M!Goals \ {"replace"}, M!Password(b, goal)
  PROVE  MInv'
<1> DEFINE row == [M!Idle EXCEPT !.goal = goal, !.version = version,
                     !.step = IF goal = "login" /\ factor = None THEN "plain" ELSE "password"]
<1>1. row \in LoginRows
  BY IdleLogin DEF LoginRows, M!Goals, MInv, MTyped
<1>2. /\ row.goal = goal /\ row.version = version
      /\ row.step = IF goal = "login" /\ factor = None THEN "plain" ELSE "password"
  BY DEF M!Idle
<1>3. login' = [login EXCEPT ![b] = row]
  BY DEF M!Password, M!Go
<1> HIDE DEF row
<1>4. LoginHolds(row)
  BY <1>1, <1>2 DEF LoginHolds, MInv, MTyped
<1> QED
  BY <1>2, <1>3, <1>4, LoginGoesOn DEF M!Password, Locking, MInv, MTyped

LEMMA OpenCheckStep == ASSUME MInv, NEW b \in Browsers, M!OpenCheck(b) PROVE MInv'
<1> DEFINE row == [login[b] EXCEPT !.step = "opening"]
<1>1. LoginHolds(login[b]) /\ login[b] \in LoginRows
  BY DEF MInv, LoginHolds
<1>2. row \in LoginRows /\ row.step = "opening"
      /\ row.goal = login[b].goal /\ row.version = login[b].version /\ row.proof = login[b].proof
  BY <1>1 DEF LoginRows
<1>3. login' = [login EXCEPT ![b] = row]
  BY DEF M!OpenCheck
<1> HIDE DEF row
<1>4. LoginHolds(row)
  BY <1>1, <1>2 DEF LoginHolds, M!OpenCheck
<1> QED
  BY <1>2, <1>3, <1>4, LoginGoesOn DEF M!OpenCheck, M!AccountFree, Locking, MInv, MTyped

LEMMA TryStep ==
  ASSUME MInv, NEW b \in Browsers, NEW c \in Challenges, M!Try(b, c)
  PROVE  MInv'
<1>1. PICK code \in M!Codes \union {None}, confirm \in BOOLEAN :
        login' = [login EXCEPT ![b] = [login[b] EXCEPT !.step = "trying", !.ch = c,
                                         !.code = code, !.confirm = confirm]]
  BY DEF M!Try, M!Go
<1> DEFINE row == [login[b] EXCEPT !.step = "trying", !.ch = c, !.code = code,
                                   !.confirm = confirm]
<1>2. LoginHolds(login[b]) /\ login[b] \in LoginRows
  BY DEF MInv, LoginHolds
<1>3. row \in LoginRows /\ row.step = "trying" /\ row.ch = c
      /\ row.goal = login[b].goal /\ row.version = login[b].version /\ row.proof = login[b].proof
  BY <1>2 DEF LoginRows
<1>4. login' = [login EXCEPT ![b] = row]
  BY <1>1
<1> HIDE DEF row
<1>5. LoginHolds(row)
  BY <1>2, <1>3 DEF LoginHolds, M!Try, M!Usable
<1> QED
  BY <1>3, <1>4, <1>5, LoginGoesOn DEF M!Try, M!AccountFree, Locking, MInv, MTyped

LEMMA RenewStep == ASSUME MInv, NEW b \in Browsers, M!Renew(b) PROVE MInv'
<1> DEFINE row == [login[b] EXCEPT !.step = "password", !.goal = "replace"]
<1>1. LoginHolds(login[b]) /\ login[b] \in LoginRows
  BY DEF MInv, LoginHolds
<1>2. row \in LoginRows /\ row.step = "password" /\ row.goal = "replace"
      /\ row.version = login[b].version /\ row.proof = login[b].proof
  BY <1>1 DEF LoginRows, M!Goals
<1>3. login' = [login EXCEPT ![b] = row]
  BY <1>1 DEF M!Renew, MInv, MTyped
<1> HIDE DEF row
<1>4. LoginHolds(row)
  BY <1>1, <1>2 DEF LoginHolds, M!Renew
<1> QED
  BY <1>2, <1>3, <1>4, LoginGoesOn DEF M!Renew, Locking, MInv, MTyped

LEMMA FailStep == ASSUME MInv, NEW b \in Browsers, M!Fail(b) PROVE MInv'
<1>1. LoginHolds(M!Idle)
  BY IdleHolds DEF MInv
<1> QED
  BY <1>1, IdleLogin, LoginGoesOn DEF M!Fail, M!Go, Locking, MInv, MTyped

LEMMA TimeGoesOn ==
  ASSUME MInv, UNCHANGED <<version, factor, challenge, sessions, login, secrets, used>>,
         time' \in 0 .. MaxTime
  PROVE  MInv'
<1>1. ASSUME NEW b \in Browsers PROVE LoginHolds(login[b])'
  <2>1. PICK row : row = login[b]
    OBVIOUS
  <2>2. LoginHolds(row)
    BY <2>1 DEF MInv
  <2>3. LoginHolds(row)'
    BY <2>2, LoginStays
  <2> QED
    BY <2>1, <2>3
<1>2. M!BudgetKept'
  <2>1. \A v : M!Pending(v)' = M!Pending(v) /\ M!Attempts(v)' = M!Attempts(v)
    BY DEF M!Pending, M!Attempts, M!LiveOf, M!AttemptsOf
  <2> QED
    BY <2>1 DEF MInv, M!BudgetKept
<1>3. MTyped' /\ LoginAlone' /\ PendingOnce' /\ FactorHolds' /\ SessionsHeld'
  BY DEF MInv, MTyped, LoginAlone, PendingOnce, FactorHolds, SessionsHeld
<1>4. \A c \in Challenges : challenge'[c] # None => ChallengeHolds(challenge[c])'
  BY DEF MInv, ChallengeHolds
<1> QED
  BY <1>1, <1>2, <1>3, <1>4 DEF MInv

-----------------------------------------------------------------------------
(* Steps that write a challenge, the factor, the version or the sessions.  *)

(* The same version, and the same factor or none.                          *)
SameFactor ==
  /\ version' = version
  /\ factor' = None <=> factor = None
  /\ factor # None => factor'.secret = factor.secret

(* No request that holds the lock: the budgets do not matter to the rows.  *)
LEMMA LoginWaits ==
  ASSUME NEW row, LoginHolds(row), row.step \notin Locking, SameFactor
  PROVE  LoginHolds(row)'
BY DEF LoginHolds, Locking, SameFactor

(* What a request or a challenge saw of an earlier version matters no more. *)
LEMMA LoginOutdated ==
  ASSUME NEW row, LoginHolds(row), row.step \notin Locking,
         version \in Nat, version' = version + 1
  PROVE  LoginHolds(row)'
<1>1. row.version <= version /\ row.version \in Nat /\ row \in LoginRows
  BY DEF LoginHolds, LoginRows
<1>2. row.version # version' /\ row.version <= version'
  BY <1>1
<1>3. row.step # "opening" /\ row.step # "trying"
  BY DEF Locking
<1> QED
  BY <1>1, <1>2, <1>3 DEF LoginHolds

LEMMA RowOf ==
  ASSUME MInv, NEW c \in Challenges, challenge[c] # None
  PROVE  /\ challenge[c] \in M!ChallengeRows /\ ChallengeHolds(challenge[c])
         /\ challenge[c].version \in 0 .. MaxFactor /\ challenge[c].attempts \in 0 .. PerChallenge
BY DEF MInv, MTyped, M!ChallengeRows

LEMMA ExpireStep == ASSUME MInv, NEW c \in Challenges, M!Expire(c) PROVE MInv'
<1>1. /\ challenge' = [challenge EXCEPT ![c] = None]
      /\ UNCHANGED <<version, factor, sessions, login, secrets, time, used>>
      /\ \A b \in Browsers : login[b].ch = c => login[b].step # "trying"
  BY DEF M!Expire
<1>2. \A d \in Challenges : challenge'[d] = IF d = c THEN None ELSE challenge[d]
  BY <1>1 DEF MInv, MTyped
<1>3. /\ M!BudgetKept'
      /\ \A v : /\ M!Pending(v) \in Nat /\ M!Pending(v)' \in 0 .. M!Pending(v)
                /\ M!Attempts(v) \in Nat /\ M!Attempts(v)' \in 0 .. M!Attempts(v)
  BY <1>2, BudgetsStay DEF MInv
<1>4. MTyped' /\ LoginAlone' /\ PendingOnce' /\ FactorHolds' /\ SessionsHeld'
  <2>1. challenge' \in [Challenges -> M!ChallengeRows \union {None}]
    BY <1>1 DEF MInv, MTyped
  <2> QED
    BY <1>1, <1>2, <2>1 DEF MInv, MTyped, LoginAlone, PendingOnce, FactorHolds, SessionsHeld
<1>5. ASSUME NEW d \in Challenges, challenge'[d] # None PROVE ChallengeHolds(challenge[d])'
  <2>1. challenge[d] # None /\ challenge'[d] = challenge[d]
    BY <1>2, <1>5
  <2>2. ChallengeHolds(challenge[d])
    BY <2>1 DEF MInv
  <2> QED
    BY <1>1, <2>1, <2>2 DEF ChallengeHolds
<1>6. ASSUME NEW b \in Browsers PROVE LoginHolds(login[b])'
  <2>1. LoginHolds(login[b])
    BY DEF MInv
  <2>2. PICK row : row = login[b]
    OBVIOUS
  <2>3. M!Pending(row.version) \in Nat /\ M!Pending(row.version)' \in 0 .. M!Pending(row.version)
    BY <1>3
  <2>4. PICK v : v = version
    OBVIOUS
  <2>5. M!Attempts(v) \in Nat /\ M!Attempts(v)' \in 0 .. M!Attempts(v)
    BY <1>3
  <2>6. MaxPending \in Nat /\ InTotal \in Nat
    BY MfaAssumption DEF M!BudgetAssumption
  <2> QED
    BY <1>1, <1>2, <2>1, <2>2, <2>3, <2>4, <2>5, <2>6 DEF LoginHolds
<1> QED
  BY <1>3, <1>4, <1>5, <1>6 DEF MInv

(* The others do not hold the lock, and b's row is written.                *)
LEMMA OthersWait ==
  ASSUME MInv, NEW b \in Browsers, NEW row, LoginHolds(row)',
         login[b].step \in Locking \/ M!AccountFree,
         row.step \notin Locking, login' = [login EXCEPT ![b] = row],
         SameFactor \/ version' = version + 1
  PROVE  /\ \A x \in Browsers : LoginHolds(login[x])'
         /\ LoginAlone'
         /\ DOMAIN login' = Browsers /\ login' = [x \in Browsers |-> login'[x]]
<1>1. \A x \in Browsers : login'[x] = IF x = b THEN row ELSE login[x]
  BY DEF MInv, MTyped
<1>2. ASSUME NEW x \in Browsers PROVE LoginHolds(login[x])'
  <2>1. CASE x = b
    BY <1>1, <2>1
  <2>2. CASE x # b
    <3>1. PICK r : r = login[x]
      OBVIOUS
    <3>2. LoginHolds(r) /\ r.step \notin Locking /\ version \in Nat
      BY <2>2, <3>1 DEF MInv, LoginAlone, MTyped, M!AccountFree, Locking
    <3>3. LoginHolds(r)'
      BY <3>2, LoginWaits, LoginOutdated
    <3> QED
      BY <1>1, <2>2, <3>1, <3>3
  <2> QED
    BY <2>1, <2>2
<1>3. LoginAlone'
  BY <1>1 DEF MInv, LoginAlone, M!AccountFree, Locking
<1> QED
  BY <1>2, <1>3 DEF MInv, MTyped

LEMMA OpenCommitStep == ASSUME MInv, NEW b \in Browsers, M!OpenCommit(b) PROVE MInv'
<1> DEFINE held == login[b]
<1>1. PICK c \in Challenges :
        /\ challenge[c] = None
        /\ challenge' = [challenge EXCEPT ![c] =
             [version |-> held.version, attempts |-> 0, replace |-> held.goal = "replace",
              pending |-> None, proof |-> held.proof]]
        /\ login' = [login EXCEPT ![b] = IF held.goal \in {"renew", "disable"}
                       THEN [held EXCEPT !.step = "opened", !.ch = c] ELSE M!Idle]
  BY DEF M!OpenCommit, M!Go
<1> DEFINE made == [version |-> held.version, attempts |-> 0, replace |-> held.goal = "replace",
                    pending |-> None, proof |-> held.proof]
<1>2. LoginHolds(held) /\ held \in LoginRows /\ held.step = "opening"
  BY DEF MInv, LoginHolds, M!OpenCommit
<1>3. UNCHANGED <<version, factor, sessions, secrets, time, used>>
  BY DEF M!OpenCommit
<1>4. made \in M!ChallengeRows
  BY <1>2, MfaAssumption DEF LoginRows, M!ChallengeRows, M!BudgetAssumption
<1>5. made # None
  BY <1>4, MfaAssumption DEF M!NoneAssumption
<1>6. \A d \in Challenges : challenge'[d] = IF d = c THEN made ELSE challenge[d]
  BY <1>1 DEF MInv, MTyped
<1>7. PICK row : row = IF held.goal \in {"renew", "disable"}
                       THEN [held EXCEPT !.step = "opened", !.ch = c] ELSE M!Idle
  OBVIOUS
<1>8. /\ row \in LoginRows /\ row.step \in {"opened", "idle"}
      /\ row.goal # "replace"
      /\ row.version <= version
  BY <1>2, <1>7, IdleHolds, IdleLogin DEF LoginRows, LoginHolds, MInv
<1>9. LoginHolds(row)'
  BY <1>3, <1>8 DEF LoginHolds
<1>10. /\ \A x \in Browsers : LoginHolds(login[x])'
       /\ LoginAlone'
       /\ DOMAIN login' = Browsers /\ login' = [x \in Browsers |-> login'[x]]
  <2>1. login' = [login EXCEPT ![b] = row]
    BY <1>1, <1>7
  <2> QED
    BY <1>2, <1>3, <1>8, <1>9, <2>1, OthersWait DEF Locking, SameFactor
<1>11. challenge' \in [Challenges -> M!ChallengeRows \union {None}]
  <2> HIDE DEF made
  <2> QED
    BY <1>1, <1>4, <1>6 DEF MInv, MTyped
<1>12. made.pending = None /\ made.version = held.version /\ made.attempts = 0
  OBVIOUS
<1>13. MTyped' /\ PendingOnce' /\ FactorHolds' /\ SessionsHeld'
  <2> HIDE DEF made
  <2>1. PendingOnce'
    BY <1>6, <1>12 DEF MInv, PendingOnce
  <2> QED
    BY <1>3, <1>10, <1>11, <2>1 DEF MInv, MTyped, FactorHolds, SessionsHeld
<1>14. ASSUME NEW d \in Challenges, challenge'[d] # None PROVE ChallengeHolds(challenge[d])'
  <2>1. CASE d = c
    <3>1. made.version <= version
      BY <1>2 DEF LoginHolds
    <3>2. made.replace /\ made.version = version => factor # None /\ factor.secret = made.proof
      BY <1>2 DEF LoginHolds
    <3> HIDE DEF made
    <3>3. challenge'[d] = made
      BY <1>6, <2>1
    <3> QED
      BY <1>3, <1>12, <3>1, <3>2, <3>3 DEF ChallengeHolds
  <2>2. CASE d # c
    <3>1. challenge'[d] = challenge[d] /\ ChallengeHolds(challenge[d])
      BY <1>6, <1>14, <2>2 DEF MInv
    <3> QED
      BY <1>3, <3>1 DEF ChallengeHolds
  <2> QED
    BY <2>1, <2>2
<1>15. M!BudgetKept'
  <2> HIDE DEF made
  <2> SUFFICES ASSUME NEW v \in 0 .. MaxFactor
               PROVE  M!Attempts(v)' <= InTotal /\ M!Pending(v)' <= MaxPending
    BY DEF M!BudgetKept
  <2>1. M!Attempts(v) <= InTotal /\ M!Pending(v) <= MaxPending
    BY DEF MInv, M!BudgetKept
  <2>2. M!AttemptsOf(v)' = M!AttemptsOf(v)
    BY <1>1, <1>5, <1>6, <1>12 DEF M!AttemptsOf, M!LiveOf
  <2>3. M!Attempts(v)' = M!Attempts(v)
    BY <2>2 DEF M!Attempts
  <2>4. CASE v # held.version
    <3>1. M!LiveOf(v)' = M!LiveOf(v)
      BY <1>1, <1>5, <1>6, <1>12, <2>4 DEF M!LiveOf
    <3>2. M!Pending(v)' = M!Pending(v)
      BY <3>1 DEF M!Pending
    <3> QED
      BY <2>1, <2>3, <3>2
  <2>5. CASE v = held.version
    <3>1. M!LiveOf(v)' = M!LiveOf(v) \union {c} /\ c \notin M!LiveOf(v)
      BY <1>1, <1>5, <1>6, <1>12, <2>5 DEF M!LiveOf
    <3>2. Cardinality(M!LiveOf(v)') = Cardinality(M!LiveOf(v)) + 1
      BY <3>1, Budgets, FS_AddElement, Zenon
    <3>3. M!Pending(v)' = Cardinality(M!LiveOf(v)')
      BY Counted DEF M!Pending
    <3>4. M!Pending(v) < MaxPending /\ MaxPending \in Nat
      BY <1>2, <2>5, MfaAssumption DEF LoginHolds, M!BudgetAssumption
    <3> QED
      BY <2>1, <2>3, <3>2, <3>3, <3>4, Budgets
  <2> QED
    BY <2>4, <2>5
<1> QED
  BY <1>10, <1>13, <1>14, <1>15 DEF MInv

LEMMA AllWait ==
  ASSUME MInv, M!AccountFree, login' = login, SameFactor \/ version' = version + 1
  PROVE  /\ \A x \in Browsers : LoginHolds(login[x])'
         /\ LoginAlone'
         /\ DOMAIN login' = Browsers /\ login' = [x \in Browsers |-> login'[x]]
<1>1. ASSUME NEW x \in Browsers PROVE LoginHolds(login[x])'
  <2>1. PICK r : r = login[x]
    OBVIOUS
  <2>2. LoginHolds(r) /\ r.step \notin Locking /\ version \in Nat
    BY <2>1 DEF MInv, MTyped, M!AccountFree, Locking
  <2>3. LoginHolds(r)'
    BY <2>2, LoginWaits, LoginOutdated
  <2> QED
    BY <2>1, <2>3
<1> QED
  BY <1>1 DEF MInv, MTyped, LoginAlone

LEMMA EnrollStep == ASSUME MInv, NEW c \in Challenges, M!Enroll(c) PROVE MInv'
<1> DEFINE row == [challenge[c] EXCEPT !.pending = secrets']
<1>1. /\ M!AccountFree /\ challenge[c] # None
      /\ secrets' = secrets + 1 /\ secrets' \in 0 .. MaxSecret /\ secrets' \in M!Secrets
      /\ UNCHANGED <<version, factor, sessions, login, time, used>>
  BY MfaAssumption DEF M!Enroll, M!Usable, MInv, MTyped, M!Secrets, M!BoundAssumption
<1>2. /\ challenge[c] \in M!ChallengeRows /\ ChallengeHolds(challenge[c])
  BY <1>1, RowOf
<1>3. /\ row \in M!ChallengeRows /\ row.pending = secrets'
      /\ row.version = challenge[c].version /\ row.attempts = challenge[c].attempts
      /\ row.replace = challenge[c].replace /\ row.proof = challenge[c].proof
  BY <1>1, <1>2 DEF M!ChallengeRows
<1>4. challenge' = [challenge EXCEPT ![c] = row]
  BY DEF M!Enroll
<1> HIDE DEF row
<1>5. \A d \in Challenges : challenge'[d] = IF d = c THEN row ELSE challenge[d]
  BY <1>4 DEF MInv, MTyped
<1>6. challenge' \in [Challenges -> M!ChallengeRows \union {None}]
  BY <1>3, <1>4 DEF MInv, MTyped
<1>7. secrets \in Nat /\ (factor # None => factor.secret <= secrets /\ factor.secret \in Nat)
      /\ \A u \in used : u.secret <= secrets /\ u.secret \in Nat
  BY DEF MInv, MTyped, FactorHolds, M!Factors, M!Codes, M!Secrets
<1>8. \A d \in Challenges : challenge[d] # None /\ challenge[d].pending # None =>
        challenge[d].pending <= secrets /\ challenge[d].pending \in Nat
  BY RowOf, MfaAssumption DEF M!ChallengeRows, M!Secrets, ChallengeHolds
<1>9. PendingOnce'
  BY <1>1, <1>3, <1>5, <1>7, <1>8 DEF MInv, PendingOnce
<1>10. MTyped' /\ FactorHolds' /\ SessionsHeld'
  BY <1>1, <1>6, <1>7 DEF MInv, MTyped, FactorHolds, SessionsHeld
<1>11. ASSUME NEW d \in Challenges, challenge'[d] # None PROVE ChallengeHolds(challenge[d])'
  <2>1. CASE d = c
    BY <1>1, <1>2, <1>3, <1>5, <1>7, <2>1 DEF ChallengeHolds
  <2>2. CASE d # c
    <3>1. challenge'[d] = challenge[d] /\ ChallengeHolds(challenge[d])
      BY <1>5, <1>11, <2>2 DEF MInv
    <3> QED
      BY <1>1, <1>7, <1>8, <1>11, <3>1 DEF ChallengeHolds
  <2> QED
    BY <2>1, <2>2
<1>12. M!BudgetKept'
  BY <1>1, <1>3, <1>5, BudgetsStay DEF MInv
<1>13. /\ \A x \in Browsers : LoginHolds(login[x])'
       /\ LoginAlone'
  BY <1>1, AllWait DEF SameFactor
<1> QED
  BY <1>9, <1>10, <1>11, <1>12, <1>13 DEF MInv

LEMMA RejectStep == ASSUME MInv, NEW b \in Browsers, M!Reject(b) PROVE MInv'
<1>1. PICK c : c = login[b].ch
  OBVIOUS
<1> DEFINE row == [challenge[c] EXCEPT !.attempts = @ + 1]
<1>2. /\ login[b].step = "trying" /\ c \in Challenges /\ challenge[c] # None
      /\ challenge[c].version = version /\ challenge[c].attempts < PerChallenge
      /\ M!Attempts(version) < InTotal
  BY <1>1 DEF MInv, LoginHolds, M!Reject
<1>3. /\ UNCHANGED <<version, factor, sessions, secrets, time, used>>
      /\ login' = [login EXCEPT ![b] = M!Idle]
  BY DEF M!Reject, M!Go
<1>4. /\ challenge[c] \in M!ChallengeRows /\ ChallengeHolds(challenge[c])
      /\ challenge[c].attempts \in Nat /\ challenge[c].attempts + 1 \in 1 .. PerChallenge
  BY <1>2, RowOf, MfaAssumption DEF M!BudgetAssumption
<1>5. /\ row \in M!ChallengeRows /\ row.attempts = challenge[c].attempts + 1
      /\ row.version = challenge[c].version /\ row.pending = challenge[c].pending
      /\ row.replace = challenge[c].replace /\ row.proof = challenge[c].proof
  BY <1>4, MfaAssumption DEF M!ChallengeRows, M!BudgetAssumption
<1>6. challenge' = [challenge EXCEPT ![c] = row]
  BY <1>1 DEF M!Reject
<1> HIDE DEF row
<1>7. \A d \in Challenges : challenge'[d] = IF d = c THEN row ELSE challenge[d]
  BY <1>6 DEF MInv, MTyped
<1>8. challenge' \in [Challenges -> M!ChallengeRows \union {None}]
  BY <1>5, <1>6 DEF MInv, MTyped
<1>9. row # None
  BY <1>5, MfaAssumption DEF M!NoneAssumption
<1>10. MTyped' /\ PendingOnce' /\ FactorHolds' /\ SessionsHeld'
  <2>1. PendingOnce'
    BY <1>2, <1>5, <1>7 DEF MInv, PendingOnce
  <2>2. DOMAIN login' = Browsers /\ login' = [x \in Browsers |-> login'[x]]
    BY <1>3 DEF MInv, MTyped
  <2> QED
    BY <1>3, <1>8, <2>1, <2>2 DEF MInv, MTyped, FactorHolds, SessionsHeld
<1>11. ASSUME NEW d \in Challenges, challenge'[d] # None PROVE ChallengeHolds(challenge[d])'
  <2>1. CASE d = c
    BY <1>3, <1>4, <1>5, <1>7, <2>1 DEF ChallengeHolds
  <2>2. CASE d # c
    <3>1. challenge'[d] = challenge[d] /\ ChallengeHolds(challenge[d])
      BY <1>7, <1>11, <2>2 DEF MInv
    <3> QED
      BY <1>3, <3>1 DEF ChallengeHolds
  <2> QED
    BY <2>1, <2>2
<1>12. M!BudgetKept'
  <2> SUFFICES ASSUME NEW v \in 0 .. MaxFactor
               PROVE  M!Attempts(v)' <= InTotal /\ M!Pending(v)' <= MaxPending
    BY DEF M!BudgetKept
  <2>1. M!Attempts(v) <= InTotal /\ M!Pending(v) <= MaxPending
    BY DEF MInv, M!BudgetKept
  <2>2. M!LiveOf(v)' = M!LiveOf(v)
    BY <1>2, <1>5, <1>7, <1>9 DEF M!LiveOf
  <2>3. M!Pending(v)' = M!Pending(v)
    BY <2>2 DEF M!Pending
  <2>4. CASE v # version
    <3>1. \A d \in M!LiveOf(v) : d \in Challenges /\ challenge'[d] = challenge[d]
      BY <1>2, <1>7, <2>4 DEF M!LiveOf
    <3>2. M!AttemptsOf(v)' = M!AttemptsOf(v)
      BY <2>2, <3>1 DEF M!AttemptsOf
    <3> QED
      BY <2>1, <2>3, <3>2 DEF M!Attempts
  <2>5. CASE v = version
    <3> DEFINE attempt == <<c, challenge[c].attempts + 1>>
    <3>1. c \in M!LiveOf(v) /\ M!LiveOf(v) \subseteq Challenges
      BY <1>2, <2>5 DEF M!LiveOf
    <3>2. attempt \notin M!AttemptsOf(v)
      BY <1>4 DEF M!AttemptsOf
    <3>3. M!AttemptsOf(v)' = M!AttemptsOf(v) \union {attempt}
      <4>1. ASSUME NEW t \in M!LiveOf(v) \X (1 .. PerChallenge)
            PROVE  t \in M!AttemptsOf(v)' <=> t \in M!AttemptsOf(v) \union {attempt}
        <5>1. t = <<t[1], t[2]>> /\ t[1] \in M!LiveOf(v) /\ t[2] \in Nat /\ t[1] \in Challenges
          BY <3>1
        <5>2. CASE t[1] = c
          BY <1>4, <1>5, <1>7, <2>2, <5>1, <5>2 DEF M!AttemptsOf
        <5>3. CASE t[1] # c
          BY <1>7, <2>2, <5>1, <5>3 DEF M!AttemptsOf
        <5> QED
          BY <5>2, <5>3
      <4>2. attempt \in M!LiveOf(v) \X (1 .. PerChallenge)
        BY <1>4, <3>1
      <4>3. /\ M!AttemptsOf(v) \subseteq M!LiveOf(v) \X (1 .. PerChallenge)
            /\ M!AttemptsOf(v)' \subseteq M!LiveOf(v) \X (1 .. PerChallenge)
        BY <2>2 DEF M!AttemptsOf
      <4> HIDE DEF attempt
      <4> QED
        BY <4>1, <4>2, <4>3
    <3>4. Cardinality(M!AttemptsOf(v)') = Cardinality(M!AttemptsOf(v)) + 1
      BY <3>2, <3>3, Budgets, FS_AddElement, Zenon
    <3>5. M!Attempts(v)' = Cardinality(M!AttemptsOf(v)')
      BY Counted DEF M!Attempts
    <3>6. M!Attempts(v) < InTotal /\ InTotal \in Nat
      BY <1>2, <2>5, MfaAssumption DEF M!BudgetAssumption
    <3> QED
      BY <2>1, <2>3, <3>4, <3>5, <3>6, Budgets
  <2> QED
    BY <2>4, <2>5
<1>13. /\ \A x \in Browsers : LoginHolds(login[x])'
       /\ LoginAlone'
  <2>1. PICK r : r = M!Idle
    OBVIOUS
  <2>2. LoginHolds(r)'
    BY <1>3, <2>1, IdleLogin DEF LoginHolds, MInv, MTyped
  <2> QED
    BY <1>2, <1>3, <2>1, <2>2, IdleLogin, OthersWait DEF Locking, SameFactor
<1> QED
  BY <1>10, <1>11, <1>12, <1>13 DEF MInv

(* A code that is accepted was not used, and its secret is the factor's    *)
(* from now on.                                                            *)
LEMMA AcceptedCode ==
  ASSUME MInv, NEW b \in Browsers, M!Accept(b)
  PROVE  LET code == login[b].code  c == login[b].ch IN
         /\ c \in Challenges /\ challenge[c] # None /\ challenge[c].version = version
         /\ code \in M!Codes /\ code \notin used /\ code.secret <= secrets
         /\ code.kind = "time" => code.n \in 0 .. MaxTime + Window
         /\ ~login[b].confirm =>
              /\ factor # None /\ factor.secret = code.secret
              /\ \/ code.kind = "time" /\ code.n > factor.last
                 \/ code.kind = "recovery" /\ factor.recovery
         /\ login[b].confirm =>
              /\ challenge[c].pending = code.secret /\ code.kind = "time"
              /\ factor # None => challenge[c].replace
<1> DEFINE code == login[b].code
           c == login[b].ch
<1>1. /\ c \in Challenges /\ challenge[c] # None /\ challenge[c].version = version
      /\ code \in M!Codes \union {None} /\ login[b].confirm \in BOOLEAN
  BY DEF MInv, LoginHolds, LoginRows, M!Accept
<1>2. /\ code \in M!Codes
      /\ ~login[b].confirm =>
           /\ factor # None /\ factor.secret = code.secret
           /\ \/ code.kind = "time" /\ code.n > factor.last
              \/ code.kind = "recovery" /\ factor.recovery
      /\ login[b].confirm =>
           /\ challenge[c].pending = code.secret /\ code.kind = "time"
           /\ factor # None => challenge[c].replace
  BY <1>1 DEF M!Accept, M!Accepts, M!InWindow, M!Later
<1>3. /\ code.kind \in {"time", "recovery"} /\ code.secret \in M!Secrets
      /\ code.kind = "time" => code.n \in 0 .. MaxTime + Window
  BY <1>2 DEF M!Codes
<1>4. code.secret # None
  BY <1>3, MfaAssumption DEF M!NoneAssumption
<1>5. CASE login[b].confirm
  <2>1. ChallengeHolds(challenge[c]) /\ challenge[c].pending = code.secret
    BY <1>1, <1>2, <1>5, RowOf
  <2> QED
    BY <1>1, <1>2, <1>3, <1>4, <1>5, <2>1 DEF ChallengeHolds
<1>6. CASE ~login[b].confirm
  <2>1. FactorHolds /\ factor \in M!Factors
    BY <1>2, <1>6 DEF MInv, MTyped
  <2>2. code \notin used
    <3>1. CASE code.kind = "time"
      <4>1. code.n > factor.last /\ code.n \in Int /\ factor.last \in Int
        BY <1>2, <1>3, <1>6, <2>1, <3>1, MfaAssumption DEF M!Factors, M!BoundAssumption
      <4> QED
        BY <1>2, <1>6, <2>1, <3>1, <4>1 DEF FactorHolds
    <3>2. CASE code.kind = "recovery"
      BY <1>2, <1>6, <2>1, <3>2 DEF FactorHolds
    <3> QED
      BY <1>3, <3>1, <3>2
  <2> QED
    BY <1>1, <1>2, <1>3, <1>6, <2>1, <2>2 DEF FactorHolds
<1> QED
  BY <1>1, <1>5, <1>6

LEMMA CodeAcceptStep == ASSUME MInv, NEW b \in Browsers, M!Accept(b) PROVE MInv'
<1> DEFINE held == login[b]
<1>1. PICK code, c : code = held.code /\ c = held.ch
  OBVIOUS
<1>2. /\ c \in Challenges /\ challenge[c] # None /\ challenge[c].version = version
      /\ code \in M!Codes /\ code \notin used /\ code.secret <= secrets
      /\ code.kind = "time" => code.n \in 0 .. MaxTime + Window
      /\ ~held.confirm =>
           /\ factor # None /\ factor.secret = code.secret
           /\ \/ code.kind = "time" /\ code.n > factor.last
              \/ code.kind = "recovery" /\ factor.recovery
      /\ held.confirm =>
           /\ challenge[c].pending = code.secret /\ code.kind = "time"
           /\ factor # None => challenge[c].replace
  BY <1>1, AcceptedCode
<1>3. /\ challenge' = [challenge EXCEPT ![c] = None] /\ used' = used \union {code}
      /\ UNCHANGED <<secrets, time>> /\ held.step = "trying"
  BY <1>1 DEF M!Accept
<1>4. code.secret \in M!Secrets /\ code.secret # None
      /\ code.kind \in {"time", "recovery"}
  BY <1>2, MfaAssumption DEF M!Codes, M!NoneAssumption
<1>5. \A d \in Challenges : challenge'[d] = IF d = c THEN None ELSE challenge[d]
  BY <1>3 DEF MInv, MTyped
<1>6. PICK row : row = [held EXCEPT
        !.step = IF @ = "trying" /\ held.goal \in {"renew", "disable"} THEN "proven" ELSE "issue",
        !.version = version', !.proof = code.secret, !.ch = None]
  OBVIOUS
<1>7. login' = [login EXCEPT ![b] = row]
  BY <1>1, <1>6 DEF M!Accept, M!Go
<1>8. version' \in 0 .. MaxFactor /\ version \in 0 .. MaxFactor
  BY MfaAssumption DEF M!Accept, M!Enrol, M!Use, MInv, MTyped, M!BoundAssumption
<1>9. /\ row \in LoginRows /\ row.step \in {"proven", "issue"}
      /\ row.version = version' /\ row.proof = code.secret
  BY <1>4, <1>6, <1>8 DEF MInv, LoginHolds, LoginRows
<1>10. M!BudgetKept' /\ PendingOnce'
  <2>1. PendingOnce'
    BY <1>5 DEF MInv, PendingOnce
  <2> QED
    BY <1>5, <2>1, BudgetsStay DEF MInv
<1>11. /\ challenge' \in [Challenges -> M!ChallengeRows \union {None}]
       /\ used' \subseteq M!Codes /\ \A u \in used' : u.secret <= secrets'
       /\ secrets' \in 0 .. MaxSecret /\ time' \in 0 .. MaxTime
  BY <1>2, <1>3 DEF MInv, MTyped
<1>12. CASE held.confirm
  <2>1. /\ version' = version + 1 /\ sessions' = {}
        /\ factor' = [secret |-> code.secret, last |-> code.n, recovery |-> TRUE]
    BY <1>1, <1>12 DEF M!Accept, M!Enrol
  <2>2. factor' \in M!Factors /\ factor'.secret = code.secret /\ factor'.last = code.n
    BY <1>2, <1>4, <1>12, <2>1, MfaAssumption DEF M!Factors, M!BoundAssumption
  <2>3. factor' # None
    BY <2>2, MfaAssumption DEF M!NoneAssumption
  <2>4. LoginHolds(row)'
    BY <1>8, <1>9, <2>2, <2>3 DEF LoginHolds
  <2>5. /\ \A x \in Browsers : LoginHolds(login[x])'
        /\ LoginAlone'
        /\ DOMAIN login' = Browsers /\ login' = [x \in Browsers |-> login'[x]]
    BY <1>3, <1>7, <1>9, <2>1, <2>4, OthersWait DEF Locking
  <2>6. \A u \in used : u.secret # code.secret
    BY <1>2, <1>4, <1>12, RowOf DEF ChallengeHolds
  <2>7. FactorHolds'
    BY <1>2, <1>3, <1>4, <1>12, <2>2, <2>6, MfaAssumption DEF FactorHolds, M!BoundAssumption
  <2>8. ASSUME NEW d \in Challenges, challenge'[d] # None PROVE ChallengeHolds(challenge[d])'
    <3>1. challenge'[d] = challenge[d] /\ d # c /\ challenge[d] # None
      BY <1>5, <2>8
    <3>2. ChallengeHolds(challenge[d]) /\ challenge[d].version \in Nat
      BY <3>1, RowOf
    <3>3. challenge[d].pending # None => challenge[d].pending # code.secret
      BY <1>2, <1>4, <1>12, <3>1 DEF MInv, PendingOnce
    <3>4. challenge[d].version <= version' /\ challenge[d].version # version'
      BY <1>8, <2>1, <3>2 DEF ChallengeHolds
    <3> QED
      BY <1>3, <2>2, <3>1, <3>2, <3>3, <3>4 DEF ChallengeHolds
  <2>9. MTyped' /\ SessionsHeld'
    BY <1>8, <1>11, <2>1, <2>2, <2>5 DEF MTyped, SessionsHeld
  <2> QED
    BY <1>10, <2>5, <2>7, <2>8, <2>9 DEF MInv
<1>13. CASE ~held.confirm
  <2>1. /\ version' = version /\ sessions' = sessions
        /\ factor' = IF code.kind = "time" THEN [factor EXCEPT !.last = code.n]
                     ELSE [factor EXCEPT !.recovery = FALSE]
    BY <1>1, <1>13 DEF M!Accept, M!Use
  <2>2. factor \in M!Factors /\ factor # None /\ factor.secret = code.secret
    BY <1>2, <1>13 DEF MInv, MTyped
  <2>3. /\ factor' \in M!Factors /\ factor'.secret = factor.secret
        /\ code.kind = "time" => factor'.last = code.n /\ factor'.recovery = factor.recovery
        /\ code.kind = "recovery" => factor'.last = factor.last /\ ~factor'.recovery
    <3>1. CASE code.kind = "time"
      <4>1. code.n \in -1 .. MaxTime + Window
        BY <1>2, <3>1, MfaAssumption DEF M!BoundAssumption
      <4> QED
        BY <2>1, <2>2, <3>1, <4>1 DEF M!Factors
    <3>2. CASE code.kind = "recovery"
      BY <2>1, <2>2, <3>2 DEF M!Factors
    <3> QED
      BY <1>4, <3>1, <3>2
  <2>4. factor' # None
    BY <2>3, MfaAssumption DEF M!NoneAssumption
  <2>5. LoginHolds(row)'
    BY <1>8, <1>9, <2>1, <2>2, <2>3, <2>4 DEF LoginHolds
  <2>6. /\ \A x \in Browsers : LoginHolds(login[x])'
        /\ LoginAlone'
        /\ DOMAIN login' = Browsers /\ login' = [x \in Browsers |-> login'[x]]
    BY <1>3, <1>7, <1>9, <2>1, <2>2, <2>3, <2>4, <2>5, OthersWait DEF Locking, SameFactor
  <2>7. FactorHolds'
    <3> SUFFICES ASSUME NEW u \in used', u.secret = factor'.secret
                 PROVE  /\ u.kind = "time" => u.n <= factor'.last
                        /\ u.kind = "recovery" => ~factor'.recovery
      BY <1>2, <1>3, <2>2, <2>3 DEF FactorHolds
    <3>1. CASE u = code
      BY <1>2, <1>4, <2>3, <3>1, MfaAssumption DEF M!BoundAssumption
    <3>2. CASE u \in used
      <4>1. /\ u.kind = "time" => u.n <= factor.last
            /\ u.kind = "recovery" => ~factor.recovery
        BY <2>2, <2>3, <3>2 DEF MInv, FactorHolds
      <4>2. factor.last \in Int /\ (u.kind = "time" => u.n \in Int)
            /\ (code.kind = "time" => code.n \in Int)
        BY <1>2, <2>2, <3>2, MfaAssumption
        DEF MInv, MTyped, M!Factors, M!Codes, M!BoundAssumption
      <4> QED
        BY <1>2, <1>4, <1>13, <2>3, <4>1, <4>2
    <3> QED
      BY <1>3, <3>1, <3>2
  <2>8. ASSUME NEW d \in Challenges, challenge'[d] # None PROVE ChallengeHolds(challenge[d])'
    <3>1. challenge'[d] = challenge[d] /\ challenge[d] # None
      BY <1>5, <2>8
    <3>2. ChallengeHolds(challenge[d])
      BY <3>1, RowOf
    <3> QED
      BY <1>3, <2>1, <2>2, <2>3, <2>4, <3>1, <3>2 DEF ChallengeHolds
  <2>9. MTyped' /\ SessionsHeld'
    BY <1>8, <1>11, <2>1, <2>2, <2>3, <2>6 DEF MInv, MTyped, SessionsHeld
  <2> QED
    BY <1>10, <2>6, <2>7, <2>8, <2>9 DEF MInv
<1> QED
  BY <1>12, <1>13

LEMMA DisableStep == ASSUME MInv, NEW b \in Browsers, M!Disable(b) PROVE MInv'
<1>1. /\ M!AccountFree /\ login[b].step = "proven" /\ login[b].goal = "disable"
      /\ factor' = None /\ challenge' = [c \in Challenges |-> None] /\ sessions' = {}
      /\ version' = version + 1
      /\ UNCHANGED <<secrets, time, used>>
  BY DEF M!Disable
<1>2. version' \in 0 .. MaxFactor /\ version \in 0 .. MaxFactor
  BY MfaAssumption DEF M!Disable, MInv, MTyped, M!BoundAssumption
<1>3. PICK row : row = [login[b] EXCEPT !.step = "plain", !.version = version']
  OBVIOUS
<1>4. row \in LoginRows /\ row.step = "plain" /\ row.goal = "disable" /\ row.version = version'
  BY <1>1, <1>2, <1>3 DEF MInv, LoginHolds, LoginRows
<1>5. LoginHolds(row)'
  BY <1>1, <1>2, <1>4 DEF LoginHolds
<1>6. login' = [login EXCEPT ![b] = row]
  BY <1>3 DEF M!Disable, MInv, MTyped
<1>7. /\ \A x \in Browsers : LoginHolds(login[x])'
      /\ LoginAlone'
      /\ DOMAIN login' = Browsers /\ login' = [x \in Browsers |-> login'[x]]
  BY <1>1, <1>4, <1>5, <1>6, OthersWait DEF Locking
<1>8. M!BudgetKept'
  BY <1>1, BudgetsStay DEF MInv
<1>9. MTyped' /\ PendingOnce' /\ FactorHolds' /\ SessionsHeld'
  BY <1>1, <1>2, <1>7 DEF MInv, MTyped, PendingOnce, FactorHolds, SessionsHeld
<1> QED
  BY <1>1, <1>7, <1>8, <1>9 DEF MInv

LEMMA IssueStepHolds == ASSUME MInv, NEW b \in Browsers, M!Issue(b) PROVE MInv'
<1>1. PICK s : s = [version |-> login[b].version, verified |-> login[b].step = "issue"]
  OBVIOUS
<1>2. LoginHolds(login[b]) /\ login[b] \in LoginRows
  BY DEF MInv, LoginHolds
<1>3. /\ s \in [version : 0 .. MaxFactor, verified : BOOLEAN]
      /\ s.version <= version
      /\ factor # None /\ s.version = version => s.verified
  BY <1>1, <1>2 DEF LoginRows, LoginHolds, M!Issue
<1>4. /\ sessions' = sessions \union {s} /\ login' = [login EXCEPT ![b] = M!Idle]
      /\ UNCHANGED <<version, factor, challenge, secrets, time, used>>
  BY <1>1 DEF M!Issue, M!Go
<1>5. SessionsHeld' /\ sessions' \subseteq [version : 0 .. MaxFactor, verified : BOOLEAN]
  BY <1>3, <1>4 DEF MInv, MTyped, SessionsHeld
<1>6. LoginHolds(M!Idle)
  BY IdleHolds DEF MInv
<1> QED
  BY <1>4, <1>5, <1>6, IdleLogin, LoginGoesOn DEF Locking, MInv, MTyped

LEMMA ChangeStep == ASSUME MInv, M!Change PROVE MInv'
<1>1. /\ M!AccountFree /\ version' = version + 1
      /\ UNCHANGED <<factor, challenge, sessions, login, secrets, time, used>>
  BY DEF M!Change
<1>2. version' \in 0 .. MaxFactor /\ version \in 0 .. MaxFactor
  BY MfaAssumption DEF M!Change, MInv, MTyped, M!BoundAssumption
<1>3. /\ \A x \in Browsers : LoginHolds(login[x])'
      /\ LoginAlone'
      /\ DOMAIN login' = Browsers /\ login' = [x \in Browsers |-> login'[x]]
  BY <1>1, AllWait
<1>4. M!BudgetKept'
  BY <1>1, BudgetsStay DEF MInv
<1>5. SessionsHeld'
  <2> SUFFICES ASSUME NEW s \in sessions PROVE s.version <= version' /\ s.version # version'
    BY <1>1 DEF SessionsHeld
  <2>1. s.version \in Nat /\ s.version <= version
    BY DEF MInv, MTyped, SessionsHeld
  <2> QED
    BY <1>1, <1>2, <2>1
<1>6. ASSUME NEW c \in Challenges, challenge'[c] # None PROVE ChallengeHolds(challenge[c])'
  <2>1. ChallengeHolds(challenge[c]) /\ challenge[c].version \in Nat
    BY <1>1, <1>6, RowOf
  <2>2. challenge[c].version <= version' /\ challenge[c].version # version'
    BY <1>1, <1>2, <2>1 DEF ChallengeHolds
  <2> QED
    BY <1>1, <2>1, <2>2 DEF ChallengeHolds
<1>7. MTyped' /\ PendingOnce' /\ FactorHolds'
  BY <1>1, <1>2, <1>3 DEF MInv, MTyped, PendingOnce, FactorHolds
<1> QED
  BY <1>3, <1>4, <1>5, <1>6, <1>7 DEF MInv

LEMMA MfaStep == MInv /\ [M!Next]_MVars => MInv'
<1> SUFFICES ASSUME MInv, [M!Next]_MVars PROVE MInv'
  OBVIOUS
<1>1. ASSUME NEW b \in Browsers,
             \/ \E goal \in M!Goals \ {"replace"} : M!Password(b, goal)
             \/ M!OpenCheck(b) \/ M!OpenCommit(b)
             \/ \E c \in Challenges : M!Try(b, c)
             \/ M!Accept(b) \/ M!Reject(b) \/ M!Renew(b) \/ M!Disable(b) \/ M!Issue(b)
             \/ M!Fail(b)
      PROVE  MInv'
  BY <1>1, PasswordStep, OpenCheckStep, OpenCommitStep, TryStep, CodeAcceptStep, RejectStep,
          RenewStep,
     DisableStep, IssueStepHolds, FailStep
<1>2. ASSUME NEW c \in Challenges, M!Expire(c) \/ M!Enroll(c) PROVE MInv'
  BY <1>2, ExpireStep, EnrollStep
<1>3. CASE M!Change
  BY <1>3, ChangeStep
<1>4. CASE M!Tick
  <2>1. time' \in 0 .. MaxTime
    BY <1>4, MfaAssumption DEF M!Tick, MInv, MTyped, M!BoundAssumption
  <2> QED
    BY <1>4, <2>1, TimeGoesOn DEF M!Tick
<1>5. CASE UNCHANGED MVars
  BY <1>5, TimeGoesOn DEF MVars, MInv, MTyped
<1> QED
  BY <1>1, <1>2, <1>3, <1>4, <1>5 DEF M!Next

(* Only a code that is accepted ends a try in a proof or in a session, and *)
(* besides it only Disable writes the factor.                              *)
LEMMA AcceptsOnly ==
  ASSUME MInv, [M!Next]_MVars
  PROVE  \/ \E b \in Browsers : M!Accept(b)
         \/ /\ \A b \in Browsers :
                 login[b].step = "trying" => login'[b].step \notin {"proven", "issue"}
            /\ factor' = factor \/ \E b \in Browsers : M!Disable(b)
<1> DEFINE Quiet == \A b \in Browsers :
                 login[b].step = "trying" => login'[b].step \notin {"proven", "issue"}
<1>1. ASSUME NEW x \in Browsers, NEW row, login' = [login EXCEPT ![x] = row],
             login[x].step = "trying" => row.step \notin {"proven", "issue"}
      PROVE  Quiet
  BY <1>1 DEF MInv, MTyped
<1>2. ASSUME login' = login PROVE Quiet
  BY <1>2
<1>3. ASSUME NEW b \in Browsers, NEW c \in Challenges, M!Try(b, c) PROVE Quiet /\ factor' = factor
  BY <1>3, <1>1 DEF M!Try, M!Go
<1>4. ASSUME NEW b \in Browsers, NEW goal \in M!Goals, M!Password(b, goal)
      PROVE  Quiet /\ factor' = factor
  <2>1. login[b].step # "trying"
    BY <1>4, IdleLogin DEF M!Password
  <2>2. PICK row : login' = [login EXCEPT ![b] = row]
    BY <1>4 DEF M!Password, M!Go
  <2> QED
    BY <1>1, <1>4, <2>1, <2>2 DEF M!Password
<1>5. ASSUME NEW b \in Browsers,
             M!OpenCheck(b) \/ M!OpenCommit(b) \/ M!Renew(b) \/ M!Disable(b) \/ M!Issue(b)
               \/ M!Fail(b)
      PROVE  Quiet /\ (factor' = factor \/ M!Disable(b))
  <2>1. login[b].step # "trying"
    BY <1>5 DEF M!OpenCheck, M!OpenCommit, M!Renew, M!Disable, M!Issue, M!Fail
  <2>2. PICK row : login' = [login EXCEPT ![b] = row]
    <3>1. CASE M!OpenCheck(b)
      BY <3>1 DEF M!OpenCheck
    <3>2. CASE M!OpenCommit(b)
      BY <3>2 DEF M!OpenCommit, M!Go
    <3>3. CASE M!Renew(b)
      <4>1. login' = [login EXCEPT ![b] = [login[b] EXCEPT !.step = "password", !.goal = "replace"]]
        BY <3>3 DEF M!Renew, MInv, MTyped
      <4> QED
        BY <4>1
    <3>4. CASE M!Disable(b)
      <4>1. login' = [login EXCEPT ![b] = [login[b] EXCEPT !.step = "plain", !.version = version']]
        BY <3>4 DEF M!Disable, MInv, MTyped
      <4> QED
        BY <4>1
    <3>5. CASE M!Issue(b) \/ M!Fail(b)
      BY <3>5 DEF M!Issue, M!Fail, M!Go
    <3> QED
      BY <1>5, <3>1, <3>2, <3>3, <3>4, <3>5
  <2>3. Quiet
    BY <1>1, <2>1, <2>2
  <2> QED
    BY <1>5, <2>3 DEF M!OpenCheck, M!OpenCommit, M!Renew, M!Issue, M!Fail
<1>6. ASSUME NEW b \in Browsers, M!Reject(b) PROVE Quiet /\ factor' = factor
  BY <1>1, <1>6, IdleLogin DEF M!Reject, M!Go
<1>7. ASSUME NEW c \in Challenges, M!Expire(c) \/ M!Enroll(c) PROVE Quiet /\ factor' = factor
  BY <1>2, <1>7 DEF M!Expire, M!Enroll
<1>8. M!Change \/ M!Tick \/ UNCHANGED MVars => Quiet /\ factor' = factor
  BY <1>2 DEF M!Change, M!Tick, MVars
<1> HIDE DEF Quiet
<1>9. (\E b \in Browsers : M!Accept(b)) \/ (Quiet /\ (factor' = factor \/
         \E b \in Browsers : M!Disable(b)))
  <2>1. ASSUME NEW b \in Browsers,
               \/ \E goal \in M!Goals \ {"replace"} : M!Password(b, goal)
               \/ M!OpenCheck(b) \/ M!OpenCommit(b)
               \/ \E c \in Challenges : M!Try(b, c)
               \/ M!Accept(b) \/ M!Reject(b) \/ M!Renew(b) \/ M!Disable(b) \/ M!Issue(b)
               \/ M!Fail(b)
        PROVE  \/ M!Accept(b)
               \/ Quiet /\ (factor' = factor \/ M!Disable(b))
    BY <1>3, <1>4, <1>5, <1>6, <2>1
  <2>2. ASSUME NEW c \in Challenges, M!Expire(c) \/ M!Enroll(c) PROVE Quiet /\ factor' = factor
    BY <1>7, <2>2
  <2> QED
    BY <1>8, <2>1, <2>2 DEF M!Next
<1> QED
  BY <1>9 DEF Quiet

LEMMA CodesSpent ==
  ASSUME MInv, [M!Next]_MVars
  PROVE  M!CodeOnce /\ M!ChangeNeedsProof
<1>1. ASSUME NEW b \in Browsers, M!Accept(b)
      PROVE  M!CodeOnce /\ M!ChangeNeedsProof
  <2>1. /\ login[b].step = "trying" /\ login'[b].step # "trying"
        /\ \A x \in Browsers \ {b} : login'[x] = login[x]
    <3>1. PICK row : row = [login[b] EXCEPT
            !.step = IF @ = "trying" /\ login[b].goal \in {"renew", "disable"} THEN "proven"
                     ELSE "issue",
            !.version = version', !.proof = login[b].code.secret, !.ch = None]
      OBVIOUS
    <3>2. login' = [login EXCEPT ![b] = row] /\ login[b].step = "trying"
      BY <1>1, <3>1 DEF M!Accept, M!Go
    <3>3. row.step # "trying"
      BY <3>1 DEF MInv, LoginHolds, LoginRows
    <3> QED
      BY <3>2, <3>3 DEF MInv, MTyped
  <2>2. login[b].code \notin used
    BY <1>1, AcceptedCode
  <2>3. M!CodeOnce
    <3> SUFFICES ASSUME NEW x \in Browsers, login[x].step = "trying",
                        login'[x].step \in {"proven", "issue"}
                 PROVE  login[x].code \notin used
      BY DEF M!CodeOnce
    <3>1. x = b
      BY <2>1
    <3> QED
      BY <2>2, <3>1
  <2>4. ASSUME factor # None, factor' = None \/ factor'.secret # factor.secret
        PROVE  \E x \in Browsers : login'[x] # login[x] /\ M!Proves(x)
    <3>1. CASE login[b].confirm
      <4>1. /\ challenge[login[b].ch] # None /\ login[b].ch \in Challenges
            /\ challenge[login[b].ch].version = version /\ challenge[login[b].ch].replace
        BY <1>1, <2>4, <3>1, AcceptedCode
      <4>2. challenge[login[b].ch].proof = factor.secret
        BY <4>1, RowOf DEF ChallengeHolds
      <4> QED
        BY <2>1, <4>2 DEF M!Proves
    <3>2. CASE ~login[b].confirm
      <4>1. /\ factor \in M!Factors /\ login[b].code.kind \in {"time", "recovery"}
            /\ login[b].code.kind = "time" => login[b].code.n \in 0 .. MaxTime + Window
        BY <1>1, <2>4, AcceptedCode DEF MInv, MTyped, M!Codes
      <4>2. factor' = IF login[b].code.kind = "time" THEN [factor EXCEPT !.last = login[b].code.n]
                      ELSE [factor EXCEPT !.recovery = FALSE]
        BY <1>1, <3>2 DEF M!Accept, M!Use
      <4>3. factor' \in M!Factors /\ factor'.secret = factor.secret
        <5>1. CASE login[b].code.kind = "time"
          <6>1. login[b].code.n \in -1 .. MaxTime + Window
            BY <4>1, <5>1, MfaAssumption DEF M!BoundAssumption
          <6> QED
            BY <4>1, <4>2, <5>1, <6>1 DEF M!Factors
        <5>2. CASE login[b].code.kind # "time"
          BY <4>1, <4>2, <5>2 DEF M!Factors
        <5> QED
          BY <5>1, <5>2
      <4>4. factor' # None
        BY <4>3, MfaAssumption DEF M!NoneAssumption
      <4> QED
        BY <2>4, <4>3, <4>4
    <3> QED
      BY <3>1, <3>2
  <2> QED
    BY <2>3, <2>4 DEF M!ChangeNeedsProof
<1>2. ASSUME NEW b \in Browsers, M!Disable(b), factor # None
      PROVE  \E x \in Browsers : login'[x] # login[x] /\ M!Proves(x)
  <2>1. login[b].step = "proven" /\ login[b].version = version /\ LoginHolds(login[b])
    BY <1>2 DEF M!Disable, M!SameVersion, MInv
  <2>2. login[b].proof = factor.secret
    BY <2>1 DEF LoginHolds
  <2>3. login'[b].step = "plain"
    <3>1. login' = [login EXCEPT ![b] = [login[b] EXCEPT !.step = "plain", !.version = version']]
      BY <1>2 DEF M!Disable, MInv, MTyped
    <3> QED
      BY <2>1, <3>1 DEF MInv, MTyped, LoginHolds, LoginRows
  <2> QED
    BY <2>1, <2>2, <2>3 DEF M!Proves
<1> QED
  BY <1>1, <1>2, AcceptsOnly DEF M!CodeOnce, M!ChangeNeedsProof

(* The budgets of attempts and of challenges hold over all the live        *)
(* challenges of an account, and every session of the present version has  *)
(* passed the factor, whatever the number of logins under way              *)
(* (mfaService.challenge, verify, and issue).                              *)
THEOREM Verified ==
  M!Spec => [](M!TypeOK /\ M!BudgetKept /\ M!EnrolledMeansVerified)
<1>1. MInv /\ [M!Next]_M!vars => MInv'
  BY MfaStep DEF M!vars, MVars
<1> QED
  BY <1>1, MfaInit, MfaHolds, PTL DEF M!Spec

LEMMA LoginsInit == Init => (part \in Logins => MInv)
BY MfaInit DEF Init, Logins, Accounts

LEMMA LoginsStep ==
  ASSUME part \in Logins => MInv, [Next]_all, part' \in Logins
  PROVE  part \in Logins /\ [M!Next]_MVars /\ MInv'
<1>1. part \in Logins /\ [M!Next]_MVars
  BY DEF Next, all, SOnly, MOnly, IOnly, POnly, OOnly, LOnly, COnly, Logins
<1> QED
  BY <1>1, MfaStep

(* The same in the composition.                                            *)
THEOREM Budget == Spec => []BudgetKept
<1> DEFINE Inv == part \in Logins => MInv
<1>1. Inv /\ [Next]_all => Inv'
  BY LoginsStep
<1>2. Inv => BudgetKept
  BY MfaHolds DEF BudgetKept
<1> QED
  BY <1>1, <1>2, LoginsInit, PTL DEF Spec

(* MFA: no code of a factor is accepted twice, and a factor is replaced or *)
(* removed only by a request that proved it, however many try at once.     *)
THEOREM Codes == Spec => CodeOnce
<1> DEFINE Inv == part \in Logins => MInv
<1>1. Inv /\ [Next]_all => Inv'
  BY LoginsStep
<1>2. Inv /\ [Next]_all =>
        [(part \in Logins) => M!CodeOnce /\ M!ChangeNeedsProof]_all
  <2> SUFFICES ASSUME Inv, [Next]_all, part \in Logins, ~UNCHANGED all
               PROVE  M!CodeOnce /\ M!ChangeNeedsProof
    OBVIOUS
  <2>1. [M!Next]_MVars
    BY DEF Next, all, SOnly, MOnly, IOnly, POnly, OOnly, LOnly, COnly, Logins
  <2> QED
    BY <2>1, CodesSpent
<1> QED
  BY <1>1, <1>2, LoginsInit, PTL DEF Spec, CodeOnce
=============================================================================
