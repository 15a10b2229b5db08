----------------------------- MODULE PagesProofs ----------------------------
(* The pages of the staff that change something: for each of them an       *)
(* inductive invariant, which every step of the page keeps and which       *)
(* implies what the page promises.                                         *)
EXTENDS MCDesks, TLAPS

-----------------------------------------------------------------------------
(* The page of a payment (PaymentDesk).                                    *)

PayReads == [visit : Nat, id : Payments, answer : P!Statuses \cup {None}]

PayClicks == [n : P!Click, op : {"complete", "refund"}, id : Payments, visit : Nat,
              saw : P!Entries, left : {0, 1}, answer : {None, "ok", "conflict"}]

PayTypes ==
  /\ visit \in Nat /\ updating \in BOOLEAN /\ last \in 0 .. MaxClicks
  /\ made \in [P!Click -> Nat] /\ told \subseteq 1 .. last
  /\ reads \subseteq PayReads /\ clicks \subseteq PayClicks
  /\ P!TypeOK

(* What an answer says has been reached, and is not taken back.            *)
PaySeen ==
  /\ P!NeverAhead
  /\ \A r \in reads : r.answer # None => P!Rank(r.answer) <= P!Rank(status[r.id])

(* A click that has changed its payment finds it changed when it is sent   *)
(* again.                                                                  *)
PayDone ==
  /\ \A c \in clicks :
       /\ c.n <= last /\ c.n \notin told /\ c.visit <= visit
       /\ c.answer = "ok" => made[c.n] = 1
       /\ made[c.n] >= 1 => P!Rank(status[c.id]) >= P!Rank(P!To[c.op])
  /\ \A c, d \in clicks : c.n = d.n => c = d
  /\ \A n \in P!Click : n > last => made[n] = 0
  /\ P!ToldIsDone

PayInv == PayTypes /\ PaySeen /\ PayDone /\ P!ActsAsShown

(* The order of a payment's statuses.                                      *)
LEMMA PayRanks ==
  /\ \A s \in P!Statuses : P!Rank(s) \in 1 .. 3
  /\ \A op \in {"complete", "refund"} : /\ P!From[op] \in P!Statuses /\ P!To[op] \in P!Statuses
                                        /\ P!Rank(P!To[op]) = P!Rank(P!From[op]) + 1
  /\ DOMAIN P!From = {"complete", "refund"}
BY DEF P!Statuses, P!Rank, P!From, P!To

(* The page of a payment begins well.                                      *)
LEMMA PayInit == P!Init => PayInv
<1> SUFFICES ASSUME P!Init PROVE PayInv
  OBVIOUS
<1>1. MaxClicks \in Nat
  BY PaymentAssumption DEF P!BoundAssumption
<1>2. status \in [Payments -> P!Statuses]
  BY DEF P!Init, P!Statuses
<1>3. /\ page = None /\ visit = 0 /\ current = None /\ updating = FALSE
      /\ reads = {} /\ clicks = {} /\ told = {} /\ last = 0 /\ made = [n \in P!Click |-> 0]
  BY DEF P!Init
<1>4. PayTypes
  <2>1. P!TypeOK
    BY <1>2, <1>3 DEF P!TypeOK
  <2>2. made \in [P!Click -> Nat]
    BY <1>3
  <2>4. updating \in BOOLEAN
    BY <1>3
  <2>3. /\ last \in 0 .. MaxClicks /\ told \subseteq 1 .. last
        /\ reads \subseteq PayReads /\ clicks \subseteq PayClicks /\ visit \in Nat
    BY <1>1, <1>3
  <2> QED
    BY <2>1, <2>2, <2>3, <2>4 DEF PayTypes
<1>5. PayDone
  BY <1>3 DEF PayDone, P!ToldIsDone
<1>6. PaySeen /\ P!ActsAsShown
  BY <1>3 DEF PaySeen, P!NeverAhead, P!ActsAsShown
<1> QED
  BY <1>4, <1>5, <1>6 DEF PayInv

(* No step takes a status back.                                            *)
LEMMA PayOnwards ==
  ASSUME PayInv, [P!Next]_PVars
  PROVE  /\ status' \in [Payments -> P!Statuses]
         /\ \A p \in Payments : P!Rank(status[p]) <= P!Rank(status'[p])
<1>1. status \in [Payments -> P!Statuses]
  BY DEF PayInv, PayTypes, P!TypeOK
<1>2. CASE UNCHANGED status
  BY <1>1, <1>2, PayRanks
<1>3. ASSUME NEW p \in Payments, NEW op \in {"complete", "refund"}, status[p] = P!From[op],
             status' = [status EXCEPT ![p] = P!To[op]]
      PROVE  /\ status' \in [Payments -> P!Statuses]
             /\ \A q \in Payments : P!Rank(status[q]) <= P!Rank(status'[q])
  BY <1>1, <1>3, PayRanks
<1>4. ASSUME NEW c \in clicks, P!Serve(c) PROVE UNCHANGED status \/ (P!MayChange(c) /\
              status' = [status EXCEPT ![c.id] = P!To[c.op]])
  BY <1>4 DEF P!Serve
<1>5. \A c \in clicks : c.id \in Payments /\ c.op \in {"complete", "refund"}
  BY DEF PayInv, PayTypes, PayClicks
<1>6. ASSUME NEW c \in clicks, P!Serve(c)
      PROVE  /\ status' \in [Payments -> P!Statuses]
             /\ \A q \in Payments : P!Rank(status[q]) <= P!Rank(status'[q])
  BY <1>2, <1>3, <1>4, <1>5, <1>6 DEF P!MayChange
<1>7. ASSUME NEW p \in Payments, NEW op \in DOMAIN P!From, P!OthersChange(p, op)
      PROVE  /\ status' \in [Payments -> P!Statuses]
             /\ \A q \in Payments : P!Rank(status[q]) <= P!Rank(status'[q])
  BY <1>3, <1>7, PayRanks DEF P!OthersChange
<1>8. CASE ~ \/ \E c \in clicks : P!Serve(c)
             \/ \E p \in Payments, op \in DOMAIN P!From : P!OthersChange(p, op)
  <2>1. UNCHANGED status
    BY <1>8 DEF P!Next, P!Open, P!Leave, P!ServeRead, P!Read, P!ReadFails, P!Press, P!Refuse,
       P!Succeed, P!Fail, PVars
  <2> QED
    BY <1>2, <2>1
<1> QED
  BY <1>6, <1>7, <1>8

(* What the page and its reads know.                                       *)
LEMMA PaySeenStep == ASSUME PayInv, [P!Next]_PVars PROVE PaySeen' /\ reads' \subseteq PayReads
                       /\ (current' = None \/ current' \in P!Entries)
<1> DEFINE Kept == /\ \A r \in reads' : r \in reads
                   /\ UNCHANGED current
           Goal == /\ PaySeen' /\ reads' \subseteq PayReads
                   /\ (current' = None \/ current' \in P!Entries)
<1>1. /\ status \in [Payments -> P!Statuses] /\ (current = None \/ current \in P!Entries)
      /\ current # None => P!Rank(current.status) <= P!Rank(status[current.id])
      /\ \A r \in reads : r \in PayReads
      /\ \A r \in reads : r.answer # None => P!Rank(r.answer) <= P!Rank(status[r.id])
      /\ visit \in Nat /\ None \notin P!Entries /\ None \notin P!Statuses
  BY PaymentAssumption DEF PayInv, PayTypes, PaySeen, P!TypeOK, P!NeverAhead, P!NoneAssumption
<1>2. /\ status' \in [Payments -> P!Statuses]
      /\ \A p \in Payments : P!Rank(status[p]) <= P!Rank(status'[p])
      /\ \A p \in Payments : P!Rank(status[p]) \in 1 .. 3 /\ P!Rank(status'[p]) \in 1 .. 3
  BY <1>1, PayOnwards, PayRanks
<1>3. current # None => /\ current.id \in Payments /\ P!Rank(current.status) \in 1 .. 3
                        /\ P!Rank(current.status) <= P!Rank(status'[current.id])
  BY <1>1, <1>2, PayRanks DEF P!Entries
<1>4. \A r \in reads : /\ r.id \in Payments
                       /\ r.answer # None => /\ r.answer \in P!Statuses
                                             /\ P!Rank(r.answer) <= P!Rank(status'[r.id])
  BY <1>1, <1>2, PayRanks DEF PayReads
<1>5. ASSUME Kept PROVE Goal
  BY <1>1, <1>3, <1>4, <1>5 DEF PaySeen, P!NeverAhead
<1>6. ASSUME NEW p \in Payments, P!Open(p) PROVE Goal
  <2> DEFINE q == [visit |-> visit + 1, id |-> p, answer |-> None]
  <2>1. q \in PayReads /\ q.answer = None /\ reads' = reads \cup {q} /\ UNCHANGED current
    BY <1>1, <1>6 DEF P!Open, PayReads
  <2> HIDE DEF q
  <2> QED
    BY <1>1, <1>3, <1>4, <2>1 DEF PaySeen, P!NeverAhead
<1>7. ASSUME NEW r \in reads, P!ServeRead(r) PROVE Goal
  <2> DEFINE q == [r EXCEPT !.answer = status[r.id]]
  <2>1. /\ r \in PayReads /\ reads' = (reads \ {r}) \cup {q} /\ UNCHANGED <<current, status>>
    BY <1>1, <1>7 DEF P!ServeRead, P!tab
  <2>2. q \in PayReads /\ q.answer = status[r.id] /\ q.id = r.id
    BY <1>1, <1>4, <2>1 DEF PayReads
  <2> HIDE DEF q
  <2>3. P!Rank(q.answer) <= P!Rank(status'[q.id])
    BY <1>2, <1>4, <2>1, <2>2
  <2> QED
    BY <1>1, <1>3, <1>4, <2>1, <2>2, <2>3 DEF PaySeen, P!NeverAhead
<1>8. ASSUME NEW r \in reads, P!Read(r) PROVE Goal
  <2>1. /\ r.answer # None /\ reads' \subseteq reads
        /\ current' = [id |-> r.id, status |-> r.answer]
    BY <1>8 DEF P!Read
  <2>2. current' \in P!Entries /\ current'.id = r.id /\ current'.status = r.answer
    BY <1>4, <2>1 DEF P!Entries
  <2> QED
    BY <1>1, <1>4, <2>1, <2>2 DEF PaySeen, P!NeverAhead
<1>9. ASSUME NEW c \in clicks, P!Succeed(c) PROVE Goal
  <2>1. c \in PayClicks /\ c.answer = "ok" /\ UNCHANGED <<reads, status>>
    BY <1>9 DEF P!Succeed, PayInv, PayTypes
  <2>2. made[c.n] = 1 /\ P!Rank(P!To[c.op]) <= P!Rank(status[c.id])
    BY <2>1 DEF PayInv, PayDone
  <2>3. /\ [id |-> c.id, status |-> P!To[c.op]] \in P!Entries
    BY <2>1, PayRanks DEF P!Entries, PayClicks
  <2>4. \/ UNCHANGED current
        \/ current' = [id |-> c.id, status |-> P!To[c.op]]
    BY <1>9 DEF P!Succeed
  <2>5. CASE current' = [id |-> c.id, status |-> P!To[c.op]]
    <3>1. current'.id = c.id /\ current'.status = P!To[c.op] /\ current' \in P!Entries
      BY <2>3, <2>5
    <3> QED
      BY <1>1, <1>4, <2>1, <2>2, <3>1 DEF PaySeen, P!NeverAhead
  <2> QED
    BY <1>5, <2>1, <2>4, <2>5
<1>10. CASE \/ P!Leave \/ \E r \in reads : P!ReadFails(r)
            \/ \E op \in DOMAIN P!From : P!Press(op)
            \/ \E c \in clicks : P!Serve(c) \/ P!Refuse(c) \/ P!Fail(c)
            \/ \E p \in Payments, op \in DOMAIN P!From : P!OthersChange(p, op)
            \/ UNCHANGED PVars
  <2>1. Kept
    BY <1>10 DEF P!Leave, P!ReadFails, P!Press, P!Serve, P!Refuse, P!Fail, P!OthersChange, P!tab,
       PVars
  <2> QED
    BY <1>5, <2>1
<1> QED
  BY <1>6, <1>7, <1>8, <1>9, <1>10 DEF P!Next

(* A click that is sent, answered or repeated.                             *)
PayKept ==
  /\ visit \in Nat /\ updating \in BOOLEAN /\ last \in 0 .. MaxClicks
  /\ made \in [P!Click -> Nat] /\ told \subseteq 1 .. last
  /\ clicks \subseteq PayClicks
  /\ updating <=> \E c \in clicks : c.visit = visit
  /\ \A c, d \in clicks : c.visit = d.visit => c = d
  /\ PayDone /\ P!ActsAsShown

(* An answer put into a request of the page disturbs nothing else.         *)
LEMMA PayReplaced ==
  ASSUME PayInv, NEW c \in clicks, NEW d \in PayClicks,
         clicks' = (clicks \ {c}) \cup {d},
         d.n = c.n, d.op = c.op, d.id = c.id, d.visit = c.visit, d.saw = c.saw,
         UNCHANGED <<visit, updating, last, told>>,
         status' \in [Payments -> P!Statuses],
         \A p \in Payments : P!Rank(status[p]) <= P!Rank(status'[p]),
         made' \in [P!Click -> Nat], made'[c.n] \in {0, 1},
         \A n \in P!Click : n # c.n => made'[n] = made[n],
         d.answer = "ok" => made'[c.n] = 1,
         made'[c.n] = 1 => P!Rank(status'[c.id]) >= P!Rank(P!To[c.op])
  PROVE  PayKept'
<1>1. /\ \A k \in clicks : k \in PayClicks
      /\ c \in PayClicks /\ status \in [Payments -> P!Statuses] /\ MaxClicks \in Nat
      /\ visit \in Nat /\ updating \in BOOLEAN /\ last \in 0 .. MaxClicks
      /\ told \subseteq 1 .. last
  BY PaymentAssumption DEF PayInv, PayTypes, PayDone, PayClicks, P!TypeOK, P!BoundAssumption
<1>2. \A k \in clicks' : k = d \/ (k \in clicks /\ k # c)
  OBVIOUS
<1>3. \A k \in clicks \ {c} : /\ k.n # c.n /\ k \in PayClicks /\ k.id \in Payments
                              /\ k.n \in P!Click /\ k.op \in {"complete", "refund"}
  BY <1>1 DEF PayInv, PayDone, PayClicks
<1>4. \A k \in clicks \ {c} : made'[k.n] = made[k.n]
  BY <1>3
<1>5. \A k \in clicks \ {c} : made'[k.n] >= 1 =>
        P!Rank(status'[k.id]) >= P!Rank(P!To[k.op])
  <2> TAKE k \in clicks \ {c}
  <2>1. made[k.n] >= 1 => P!Rank(status[k.id]) >= P!Rank(P!To[k.op])
    BY DEF PayInv, PayDone
  <2>2. /\ P!Rank(status[k.id]) \in 1 .. 3 /\ P!Rank(status'[k.id]) \in 1 .. 3
        /\ P!Rank(P!To[k.op]) \in 1 .. 3 /\ P!Rank(status[k.id]) <= P!Rank(status'[k.id])
    BY <1>1, <1>3, PayRanks
  <2> QED
    BY <1>4, <2>1, <2>2
<1>6. PayDone'
  <2>1. \A k \in clicks' :
          /\ k.n <= last /\ k.n \notin told /\ k.visit <= visit
          /\ k.answer = "ok" => made'[k.n] = 1
          /\ made'[k.n] >= 1 => P!Rank(status'[k.id]) >= P!Rank(P!To[k.op])
    BY <1>1, <1>2, <1>4, <1>5 DEF PayInv, PayDone
  <2>2. \A k, j \in clicks' : k.n = j.n => k = j
    BY <1>2, <1>3 DEF PayInv, PayDone
  <2>3. c.n <= last /\ c.n \notin told /\ c.n \in P!Click
    BY <1>1 DEF PayInv, PayDone, PayClicks
  <2>4. \A n \in P!Click : n > last => made'[n] = 0
    <3> TAKE n \in P!Click
    <3>1. n > last => n # c.n
      BY <2>3, <1>1 DEF P!Click
    <3> QED
      BY <3>1 DEF PayInv, PayDone
  <2>5. P!ToldIsDone'
    <3>1. \A n \in told : made'[n] = 1
      <4>1. \A n \in told : n \in P!Click /\ n # c.n
        BY <1>1, <2>3 DEF P!Click
      <4> QED
        BY <4>1 DEF PayInv, PayDone, P!ToldIsDone
    <3>2. \A n \in P!Click : made'[n] <= 1
      BY DEF PayInv, PayDone, P!ToldIsDone
    <3> QED
      BY <3>1, <3>2 DEF P!ToldIsDone
  <2> QED
    BY <2>1, <2>2, <2>4, <2>5 DEF PayDone, P!Click
<1>7. /\ \A k, j \in clicks' : k.visit = j.visit => k = j
      /\ updating <=> \E k \in clicks' : k.visit = visit
  BY <1>2 DEF PayInv, PayTypes, P!TypeOK
<1>8. P!ActsAsShown'
  BY <1>2 DEF PayInv, P!ActsAsShown
<1>9. clicks' \subseteq PayClicks
  BY <1>1, <1>2
<1> QED
  BY <1>1, <1>6, <1>7, <1>8, <1>9 DEF PayKept

(* A request that is over disturbs nothing else.                           *)
LEMMA PayRemoved ==
  ASSUME PayInv, NEW c \in clicks, clicks' = clicks \ {c}, updating' = P!Released(c),
         told' = told \/ (c.answer = "ok" /\ told' = told \cup {c.n}),
         UNCHANGED <<visit, last, made, status>>
  PROVE  PayKept'
<1>1. /\ c.n \in 1 .. last /\ last \in 0 .. MaxClicks
      /\ c.answer = "ok" => made[c.n] = 1
  BY DEF PayInv, PayTypes, PayDone, PayClicks, P!Click
<1>2. \A n \in told' : n \in told \/ (n = c.n /\ c.answer = "ok")
  OBVIOUS
<1>3. /\ updating' \in BOOLEAN
      /\ updating' <=> \E k \in clicks' : k.visit = visit'
      /\ \A k, j \in clicks' : k.visit = j.visit => k = j
  BY DEF PayInv, PayTypes, P!TypeOK, P!Released
<1>4. PayDone'
  <2>1. \A k \in clicks' : k.n \notin told'
    BY <1>2 DEF PayInv, PayDone
  <2>2. P!ToldIsDone'
    BY <1>1, <1>2 DEF PayInv, PayDone, P!ToldIsDone, P!Click
  <2> QED
    BY <2>1, <2>2 DEF PayInv, PayDone, P!Click
<1>5. P!ActsAsShown'
  BY DEF PayInv, P!ActsAsShown
<1>6. told' \subseteq 1 .. last
  BY <1>1, <1>2 DEF PayInv, PayTypes
<1> QED
  BY <1>3, <1>4, <1>5, <1>6 DEF PayKept, PayInv, PayTypes

(* A click is of the payment on the screen.                                *)
LEMMA PayPressed == ASSUME PayInv, NEW op \in DOMAIN P!From, P!Press(op) PROVE PayKept'
<1> DEFINE c == [n |-> last + 1, op |-> op, id |-> P!Target, visit |-> visit,
                 saw |-> current, left |-> 1, answer |-> None]
<1>1. /\ last < MaxClicks /\ last' = last + 1 /\ updating' = TRUE /\ ~updating
      /\ clicks' = clicks \cup {c} /\ UNCHANGED <<visit, status, made, told>>
      /\ current # None /\ current.status = P!From[op]
  BY DEF P!Press, P!Offered, P!Shown
<1>2. /\ last \in Nat /\ MaxClicks \in Nat /\ visit \in Nat /\ current \in P!Entries
      /\ op \in {"complete", "refund"} /\ told \subseteq 1 .. last
      /\ made \in [P!Click -> Nat]
  BY <1>1, PaymentAssumption, PayRanks DEF PayInv, PayTypes, P!TypeOK, P!BoundAssumption
<1>3. /\ c \in PayClicks /\ c.n = last + 1 /\ c.op = op /\ c.id = current.id /\ c.visit = visit
      /\ c.saw = current /\ c.answer = None /\ last + 1 \in P!Click
  BY <1>1, <1>2 DEF PayClicks, P!Click, P!Target, P!Entries
<1> HIDE DEF c
<1>4. \A k \in clicks' : k = c \/ (k \in clicks /\ k.n <= last /\ k.visit # visit)
  BY <1>1 DEF PayInv, PayTypes, PayDone, P!TypeOK
<1>5. \A k \in clicks : k.n \in Int
  BY DEF PayInv, PayTypes, PayClicks, P!Click
<1>6. made[last + 1] = 0 /\ None # "ok"
  BY <1>2, <1>3, PaymentAssumption DEF PayInv, PayDone, P!NoneAssumption
<1>7. PayDone'
  <2>1. \A k \in clicks' :
          /\ k.n <= last' /\ k.n \notin told' /\ k.visit <= visit
          /\ k.answer = "ok" => made[k.n] = 1
          /\ made[k.n] >= 1 => P!Rank(status[k.id]) >= P!Rank(P!To[k.op])
    BY <1>1, <1>2, <1>3, <1>4, <1>5, <1>6 DEF PayInv, PayDone
  <2>2. \A k, j \in clicks' : k.n = j.n => k = j
    BY <1>2, <1>3, <1>4, <1>5 DEF PayInv, PayDone
  <2>3. \A n \in P!Click : n > last' => made[n] = 0
    BY <1>1, <1>2 DEF PayInv, PayDone, P!Click
  <2>4. P!ToldIsDone'
    BY <1>1 DEF PayInv, PayDone, P!ToldIsDone
  <2> QED
    BY <1>1, <2>1, <2>2, <2>3, <2>4 DEF PayDone, P!Click
<1>8. /\ \A k, j \in clicks' : k.visit = j.visit => k = j
      /\ updating' <=> \E k \in clicks' : k.visit = visit
  BY <1>1, <1>3, <1>4 DEF PayInv, PayTypes, P!TypeOK
<1>9. P!ActsAsShown'
  BY <1>1, <1>3, <1>4 DEF PayInv, P!ActsAsShown
<1>10. clicks' \subseteq PayClicks /\ last' \in 0 .. MaxClicks /\ told' \subseteq 1 .. last'
  BY <1>1, <1>2, <1>3 DEF PayInv, PayTypes
<1> QED
  BY <1>1, <1>2, <1>7, <1>8, <1>9, <1>10 DEF PayKept

(* Every step keeps what the clicks have done and been told.               *)
LEMMA PayClickStep == ASSUME PayInv, [P!Next]_PVars PROVE PayKept'
<1>1. /\ status' \in [Payments -> P!Statuses] /\ status \in [Payments -> P!Statuses]
      /\ \A p \in Payments : P!Rank(status[p]) <= P!Rank(status'[p])
  BY PayOnwards DEF PayInv, PayTypes, P!TypeOK
<1>2. \A c \in clicks :
        /\ c \in PayClicks /\ c.n \in P!Click /\ c.id \in Payments /\ c.left \in {0, 1}
        /\ c.op \in {"complete", "refund"} /\ made[c.n] \in {0, 1} /\ c.visit <= visit
        /\ c.visit \in Nat
        /\ made[c.n] = 1 => P!Rank(status[c.id]) >= P!Rank(P!To[c.op])
        /\ made[c.n] = 1 => P!Rank(status'[c.id]) >= P!Rank(P!To[c.op])
  <2> TAKE c \in clicks
  <2>1. /\ c \in PayClicks /\ c.n \in P!Click /\ c.id \in Payments /\ c.left \in {0, 1}
        /\ c.op \in {"complete", "refund"} /\ c.visit \in Nat
    BY DEF PayInv, PayTypes, PayClicks
  <2>2. made[c.n] \in {0, 1}
    BY <2>1 DEF PayInv, PayTypes, PayDone, P!ToldIsDone
  <2>3. c.visit <= visit /\ (made[c.n] = 1 => P!Rank(status[c.id]) >= P!Rank(P!To[c.op]))
    BY DEF PayInv, PayDone
  <2>4. /\ P!Rank(status[c.id]) \in 1 .. 3 /\ P!Rank(status'[c.id]) \in 1 .. 3
        /\ P!Rank(P!To[c.op]) \in 1 .. 3 /\ P!Rank(status[c.id]) <= P!Rank(status'[c.id])
    BY <1>1, <2>1, PayRanks
  <2> QED
    BY <2>1, <2>2, <2>3, <2>4
<1>3. made \in [P!Click -> Nat] /\ visit \in Nat
  BY DEF PayInv, PayTypes
<1>4. ASSUME NEW c \in clicks, P!Serve(c) PROVE PayKept'
  <2>1. CASE P!MayChange(c)
    <3> DEFINE d == [c EXCEPT !.answer = "ok"]
    <3>1. /\ status' = [status EXCEPT ![c.id] = P!To[c.op]]
          /\ made' = [made EXCEPT ![c.n] = @ + 1] /\ clicks' = (clicks \ {c}) \cup {d}
          /\ UNCHANGED <<visit, updating, last, told>>
      BY <1>4, <2>1 DEF P!Serve, P!tab
    <3>2. d \in PayClicks /\ d.n = c.n /\ d.op = c.op /\ d.id = c.id /\ d.visit = c.visit
          /\ d.saw = c.saw
      BY <1>2 DEF PayClicks
    <3>3. made[c.n] = 0
      BY <1>2, <2>1, PayRanks DEF P!MayChange
    <3>4. made' = [made EXCEPT ![c.n] = 1]
      BY <3>1, <3>3
    <3>5. /\ made' \in [P!Click -> Nat] /\ made'[c.n] = 1
          /\ \A n \in P!Click : n # c.n => made'[n] = made[n]
      BY <1>2, <1>3, <3>4
    <3>6. P!Rank(status'[c.id]) >= P!Rank(P!To[c.op])
      BY <1>1, <1>2, <3>1, PayRanks
    <3> HIDE DEF d
    <3> QED
      BY <1>1, <3>1, <3>2, <3>5, <3>6, PayReplaced
  <2>2. CASE ~P!MayChange(c)
    <3> DEFINE d == [c EXCEPT !.answer = "conflict"]
    <3>1. /\ UNCHANGED <<status, made>> /\ clicks' = (clicks \ {c}) \cup {d}
          /\ UNCHANGED <<visit, updating, last, told>>
      BY <1>4, <2>2 DEF P!Serve, P!tab
    <3>2. d \in PayClicks /\ d.n = c.n /\ d.op = c.op /\ d.id = c.id /\ d.visit = c.visit
          /\ d.saw = c.saw /\ d.answer # "ok"
      BY <1>2 DEF PayClicks
    <3> HIDE DEF d
    <3> QED
      BY <1>1, <1>2, <1>3, <3>1, <3>2, PayReplaced
  <2> QED
    BY <2>1, <2>2
<1>5. ASSUME NEW c \in clicks, P!Refuse(c) PROVE PayKept'
  <2> DEFINE d == [c EXCEPT !.answer = "conflict"]
  <2>1. /\ UNCHANGED <<status, made>> /\ clicks' = (clicks \ {c}) \cup {d}
        /\ UNCHANGED <<visit, updating, last, told>>
    BY <1>5 DEF P!Refuse, P!tab
  <2>2. d \in PayClicks /\ d.n = c.n /\ d.op = c.op /\ d.id = c.id /\ d.visit = c.visit
        /\ d.saw = c.saw /\ d.answer # "ok"
    BY <1>2 DEF PayClicks
  <2> HIDE DEF d
  <2> QED
    BY <1>1, <1>2, <1>3, <2>1, <2>2, PayReplaced
<1>6. ASSUME NEW c \in clicks, P!Fail(c) PROVE PayKept'
  <2>1. CASE c.left > 0
    <3> DEFINE d == [c EXCEPT !.left = 0, !.answer = None]
    <3>1. c.left - 1 = 0
      BY <1>2, <2>1
    <3>2. /\ UNCHANGED <<status, made>> /\ clicks' = (clicks \ {c}) \cup {d}
          /\ UNCHANGED <<visit, updating, last, told>>
      BY <1>6, <2>1, <3>1 DEF P!Fail
    <3>3. d \in PayClicks /\ d.n = c.n /\ d.op = c.op /\ d.id = c.id /\ d.visit = c.visit
          /\ d.saw = c.saw /\ d.answer # "ok"
      BY <1>2, PaymentAssumption DEF PayClicks, P!NoneAssumption
    <3> HIDE DEF d
    <3> QED
      BY <1>1, <1>2, <1>3, <3>2, <3>3, PayReplaced
  <2>2. CASE ~(c.left > 0)
    BY <1>6, <2>2, PayRemoved DEF P!Fail
  <2> QED
    BY <2>1, <2>2
<1>7. ASSUME NEW c \in clicks, P!Succeed(c) PROVE PayKept'
  BY <1>7, PayRemoved DEF P!Succeed, P!Tell
<1>8. ASSUME NEW p \in Payments, P!Open(p) PROVE PayKept'
  <2>1. /\ visit' = visit + 1 /\ updating' = FALSE
        /\ UNCHANGED <<clicks, status, made, told, last>>
    BY <1>8 DEF P!Open
  <2>2. \A c \in clicks : c.visit # visit + 1 /\ c.visit <= visit + 1
    BY <1>2, <1>3
  <2>3. PayDone' /\ P!ActsAsShown'
    BY <2>1, <2>2 DEF PayInv, PayDone, P!ToldIsDone, P!ActsAsShown
  <2>4. /\ visit' \in Nat /\ updating' \in BOOLEAN
        /\ updating' <=> \E c \in clicks' : c.visit = visit'
        /\ \A c, d \in clicks' : c.visit = d.visit => c = d
    <3>1. \A c, d \in clicks : c.visit = d.visit => c = d
      BY DEF PayInv, PayTypes, P!TypeOK
    <3>2. updating' \in BOOLEAN /\ ~updating'
      BY <2>1
    <3>3. visit' \in Nat /\ \A c \in clicks' : c.visit # visit'
      BY <1>3, <2>1, <2>2
    <3> QED
      BY <2>1, <3>1, <3>2, <3>3
  <2> QED
    BY <2>1, <2>3, <2>4 DEF PayKept, PayInv, PayTypes
<1>9. CASE \/ P!Leave \/ \E r \in reads : P!ServeRead(r) \/ P!Read(r) \/ P!ReadFails(r)
           \/ \E p \in Payments, op \in DOMAIN P!From : P!OthersChange(p, op)
           \/ UNCHANGED PVars
  <2>1. UNCHANGED <<visit, updating, clicks, made, told, last>>
    BY <1>9 DEF P!Leave, P!ServeRead, P!Read, P!ReadFails, P!OthersChange, P!tab, PVars
  <2>2. \A c \in clicks : made[c.n] >= 1 => P!Rank(status'[c.id]) >= P!Rank(P!To[c.op])
    BY <1>2
  <2>3. PayDone' /\ P!ActsAsShown'
    BY <2>1, <2>2 DEF PayInv, PayDone, P!ToldIsDone, P!ActsAsShown
  <2> QED
    BY <2>1, <2>3 DEF PayKept, PayInv, PayTypes, P!TypeOK
<1> QED
  BY <1>4, <1>5, <1>6, <1>7, <1>8, <1>9, PayPressed DEF P!Next

(* Every step of the page of a payment keeps its invariant.                *)
LEMMA PayStep == PayInv /\ [P!Next]_PVars => PayInv'
<1> SUFFICES ASSUME PayInv, [P!Next]_PVars PROVE PayInv'
  OBVIOUS
<1>1. page' \in Payments \cup {None}
  BY DEF PayInv, PayTypes, P!TypeOK, P!Next, P!Open, P!Leave, P!ServeRead, P!Read, P!ReadFails,
    P!Press,
     P!Serve, P!Refuse, P!Succeed, P!Fail, P!OthersChange, P!tab, PVars
<1>2. P!TypeOK'
  BY <1>1, PaySeenStep, PayOnwards, PayClickStep DEF P!TypeOK, PayKept
<1> QED
  BY <1>2, PaySeenStep, PayClickStep DEF PayInv, PayTypes, PayKept

-----------------------------------------------------------------------------
(* The arrivals and departures (StayDesk).                                 *)

Snapshots == UNION {[D -> S!Statuses] : D \in SUBSET Stays}
Desks == {"detail", "arrivals", "departures"}
Steps == {"post", "first", "rooms", "one", "all", "awaited"}

DeskRequests ==
  [n : 0 .. MaxClicks, op : {None, "in", "out"}, id : Stays \cup {None}, step : Steps,
   page : Desks, visit : Nat, left : {0, 1}, answer : {None, "ok", "conflict"},
   data : Snapshots]

DeskTypes ==
  /\ stayPage \in S!Pages \cup {S!Nowhere} /\ stayStatus \in [Stays -> S!Statuses]
  /\ stayCurrent = None \/ stayCurrent \in S!Entries
  /\ rows \in Snapshots /\ awaited \subseteq Stays
  /\ chosen \in Stays \cup {None} /\ box \in BOOLEAN /\ busy \in Stays \cup {None}
  /\ box => chosen # None
  /\ stayVisit \in Nat /\ stayLast \in 0 .. MaxClicks /\ stayMade \in [S!Click -> Nat]
  /\ requests \subseteq DeskRequests

(* Whose a request is.                                                     *)
DeskKnown == \A r \in requests :
  /\ r.n <= stayLast /\ r.visit <= stayVisit
  /\ r.n = 0 => r.step \notin {"post", "first", "rooms"}
  /\ r.n # 0 => r.id \in Stays /\ r.op \in {"in", "out"}
  /\ r.step = "one" => r.id \in Stays
  /\ r.n # 0 /\ r.visit = stayVisit => stayPage.name \in {r.page, "other"}

(* The flag of a page and what it stands for.                              *)
DeskFlags ==
  /\ \A r, q \in requests : r.n = q.n /\ r.n # 0 => r = q
  /\ busy # None => \E r \in requests : r.n # 0 /\ r.visit = stayVisit
  /\ stayPage.name = "arrivals" => \A r \in requests : S!Mine(r) => busy # None
  /\ S!OneArrival

(* A click that has changed its reservation finds it changed when it is    *)
(* sent again, and goes on only after it has.                              *)
DeskDone ==
  /\ \A r \in requests : r.n # 0 =>
       /\ r.step # "post" \/ r.answer = "ok" => stayMade[r.n] = 1
       /\ stayMade[r.n] >= 1 => S!Rank(stayStatus[r.id]) >= S!Rank(S!To[r.op])
  /\ \A n \in S!Click : n > stayLast => stayMade[n] = 0
  /\ stayTold \subseteq 1 .. stayLast
  /\ S!ToldIsDone

(* What an answer says has been reached.                                   *)
DeskSeen ==
  /\ S!NeverAhead
  /\ \A r \in requests : \A s \in DOMAIN r.data :
       /\ S!Rank(r.data[s]) <= S!Rank(stayStatus[s])
       /\ r.step = "awaited" => S!Rank(stayStatus[s]) >= 2
  /\ \A r \in requests : r.step = "one" /\ r.answer = "ok" => r.id \in DOMAIN r.data

StayInv == DeskTypes /\ DeskKnown /\ DeskFlags /\ DeskDone /\ DeskSeen

(* The order of a stay's statuses.                                         *)
LEMMA StayRanks ==
  /\ \A s \in S!Statuses : S!Rank(s) \in 1 .. 3
  /\ \A op \in {"in", "out"} : /\ S!From[op] \in S!Statuses /\ S!To[op] \in S!Statuses
                               /\ S!Rank(S!To[op]) = S!Rank(S!From[op]) + 1
  /\ DOMAIN S!From = {"in", "out"} /\ S!Rank("checked_in") = 2
BY DEF S!Statuses, S!Rank, S!From, S!To

(* What a read answers gives some of the stays their status.               *)
LEMMA SnapshotOK ==
  /\ \A d \in Snapshots : DOMAIN d \subseteq Stays /\ \A s \in DOMAIN d : d[s] \in S!Statuses
  /\ stayStatus \in [Stays -> S!Statuses] => \A D \in SUBSET Stays :
       /\ S!Only(D) \in Snapshots /\ DOMAIN S!Only(D) = D
       /\ \A s \in D : S!Only(D)[s] = stayStatus[s]
  /\ S!Only({}) \in Snapshots /\ DOMAIN S!Only({}) = {}
<1>1. \A d \in Snapshots : DOMAIN d \subseteq Stays /\ \A s \in DOMAIN d : d[s] \in S!Statuses
  BY DEF Snapshots
<1>2. ASSUME stayStatus \in [Stays -> S!Statuses], NEW D \in SUBSET Stays
      PROVE  /\ S!Only(D) \in Snapshots /\ DOMAIN S!Only(D) = D
             /\ \A s \in D : S!Only(D)[s] = stayStatus[s]
  <2>1. S!Only(D) \in [D -> S!Statuses]
    BY <1>2 DEF S!Only
  <2>2. S!Only(D) \in Snapshots
    BY <2>1 DEF Snapshots
  <2> QED
    BY <2>2 DEF S!Only
<1>3. S!Only({}) \in Snapshots /\ DOMAIN S!Only({}) = {}
  <2>1. S!Only({}) \in [{} -> S!Statuses]
    BY DEF S!Only
  <2>2. {} \in SUBSET Stays
    OBVIOUS
  <2> QED
    BY <2>1, <2>2 DEF S!Only, Snapshots
<1> QED
  BY <1>1, <1>2, <1>3

(* The arrivals and departures begin well.                                 *)
LEMMA StayInit == S!Init => StayInv
<1> SUFFICES ASSUME S!Init PROVE StayInv
  OBVIOUS
<1>1. MaxClicks \in Nat
  BY StayAssumption DEF S!BoundAssumption
<1>2. stayStatus \in [Stays -> S!Statuses]
  BY DEF S!Init, S!Statuses
<1>3. /\ stayPage = S!Nowhere /\ stayVisit = 0 /\ rows = S!Only({}) /\ stayCurrent = None
      /\ awaited = {} /\ chosen = None /\ box = FALSE /\ busy = None /\ requests = {}
      /\ stayTold = {} /\ stayLast = 0 /\ stayMade = [n \in S!Click |-> 0]
  BY DEF S!Init
<1>4. DeskTypes
  <2>1. box \in BOOLEAN /\ (box => chosen # None)
    BY <1>3
  <2>2. stayMade \in [S!Click -> Nat]
    BY <1>3
  <2> QED
    BY <1>1, <1>2, <1>3, <2>1, <2>2, SnapshotOK DEF DeskTypes
<1>5. DeskKnown /\ DeskFlags
  BY <1>3 DEF DeskKnown, DeskFlags, S!OneArrival
<1>6. DeskDone
  BY <1>3 DEF DeskDone, S!ToldIsDone
<1>7. DeskSeen
  BY <1>3, SnapshotOK DEF DeskSeen, S!NeverAhead
<1> QED
  BY <1>4, <1>5, <1>6, <1>7 DEF StayInv

(* Their invariant implies what they promise.                              *)
LEMMA StayHolds == StayInv => S!TypeOK /\ S!ToldIsDone /\ S!OneArrival /\ S!NeverAhead
<1> SUFFICES ASSUME StayInv PROVE S!TypeOK /\ S!ToldIsDone /\ S!OneArrival /\ S!NeverAhead
  OBVIOUS
<1>1. stayPage.name = "arrivals" => (busy # None <=> \E r \in requests : S!Mine(r))
  BY DEF StayInv, DeskFlags, DeskKnown, S!Mine
<1> QED
  BY <1>1 DEF StayInv, DeskTypes, DeskFlags, DeskDone, DeskSeen, S!TypeOK

(* No step takes a status back.                                            *)
StayOnwards ==
  /\ stayStatus' \in [Stays -> S!Statuses]
  /\ \A s \in Stays : S!Rank(stayStatus[s]) <= S!Rank(stayStatus'[s])

(* A stay that only goes forward is no older than it was.                  *)
LEMMA StayChanged ==
  ASSUME stayStatus \in [Stays -> S!Statuses],
         \/ UNCHANGED stayStatus
         \/ \E s \in Stays, op \in {"in", "out"} :
              stayStatus[s] = S!From[op] /\ stayStatus' = [stayStatus EXCEPT ![s] = S!To[op]]
  PROVE  StayOnwards
BY StayRanks DEF StayOnwards

(* A stay only goes forward.                                               *)
LEMMA StayStatusStep == ASSUME StayInv, [S!Next]_SVars PROVE StayOnwards
<1>1. stayStatus \in [Stays -> S!Statuses]
  BY DEF StayInv, DeskTypes
<1>2. ASSUME NEW r \in requests, S!Post(r) PROVE StayOnwards
  <2>1. r.n # 0 /\ r.id \in Stays /\ r.op \in {"in", "out"}
    BY <1>2 DEF S!Post, StayInv, DeskKnown
  <2> QED
    BY <1>1, <1>2, <2>1, StayChanged DEF S!Post, S!MayChange
<1>3. ASSUME NEW s \in Stays, NEW op \in DOMAIN S!From, S!OthersChange(s, op) PROVE StayOnwards
  BY <1>1, <1>3, StayChanged, StayRanks DEF S!OthersChange
<1>4. CASE ~ \/ \E r \in requests : S!Post(r)
             \/ \E s \in Stays, op \in DOMAIN S!From : S!OthersChange(s, op)
  <2>1. UNCHANGED stayStatus
    BY <1>4 DEF S!Next, S!Open, S!Leave, S!Refresh, S!Cancel, S!Confirm, S!Press, S!Choose,
       S!Depart, S!Send, S!Refuse, S!Serve, S!Continue, S!Fail, S!history, SVars
  <2> QED
    BY <1>1, <2>1, StayChanged
<1> QED
  BY <1>2, <1>3, <1>4

(* What a request that is answered, repeated or goes on leaves as it was.  *)
Carried(d, r) == d.n = r.n /\ d.op = r.op /\ d.id = r.id /\ d.page = r.page /\ d.visit = r.visit

DeskKept == DeskKnown /\ DeskFlags /\ DeskDone /\ requests \subseteq DeskRequests

(* What the invariant says of the requests on their way.                   *)
LEMMA DeskFacts ==
  ASSUME StayInv, NEW r \in requests
  PROVE  /\ r \in DeskRequests /\ r.n \in 0 .. stayLast /\ stayLast \in 0 .. MaxClicks
         /\ stayLast \in Nat /\ MaxClicks \in Nat
         /\ r.n # 0 => r.n \in S!Click /\ stayMade[r.n] \in {0, 1}
         /\ r.visit \in 0 .. stayVisit /\ stayVisit \in Nat /\ r.left \in {0, 1}
         /\ r.data \in Snapshots
<1>1. /\ r \in DeskRequests /\ r.n \in Nat /\ r.n <= MaxClicks /\ r.n <= stayLast
      /\ r.visit \in Nat /\ r.visit <= stayVisit /\ stayLast \in 0 .. MaxClicks
      /\ stayVisit \in Nat /\ MaxClicks \in Nat /\ r.left \in {0, 1} /\ r.data \in Snapshots
  BY StayAssumption DEF StayInv, DeskTypes, DeskKnown, DeskRequests, S!BoundAssumption
<1>2. r.n # 0 => r.n \in S!Click
  BY <1>1 DEF S!Click
<1>3. stayMade \in [S!Click -> Nat] /\ \A n \in S!Click : stayMade[n] <= 1
  BY DEF StayInv, DeskTypes, DeskDone, S!ToldIsDone
<1> QED
  BY <1>1, <1>2, <1>3

(* What was done stays so while clicks and stays only go forward.          *)
LEMMA DeskDoneKept ==
  ASSUME StayInv, StayOnwards, NEW r \in requests,
         \A k \in requests' : k \in requests \/
           (k.n = r.n /\ k.op = r.op /\ k.id = r.id /\
            (r.n # 0 /\ (k.step # "post" \/ k.answer = "ok") => stayMade'[r.n] = 1)),
         UNCHANGED stayLast, stayMade' \in [S!Click -> Nat],
         \A n \in S!Click : n # r.n => stayMade'[n] = stayMade[n],
         r.n # 0 => /\ stayMade'[r.n] \in {0, 1} /\ stayMade'[r.n] >= stayMade[r.n]
                    /\ stayMade'[r.n] = 1 =>
                         S!Rank(stayStatus'[r.id]) >= S!Rank(S!To[r.op]),
         \A n \in stayTold' : n \in stayTold \/ (n = r.n /\ n # 0 /\ stayMade'[n] = 1)
  PROVE  DeskDone'
<1>1. /\ r.n \in 0 .. stayLast /\ stayLast \in 0 .. MaxClicks /\ stayLast \in Nat
      /\ MaxClicks \in Nat /\ (r.n # 0 => r.n \in S!Click /\ stayMade[r.n] \in {0, 1})
  BY DeskFacts
<1>2. ASSUME NEW k \in requests', k.n # 0
      PROVE  /\ k.step # "post" \/ k.answer = "ok" => stayMade'[k.n] = 1
             /\ stayMade'[k.n] >= 1 => S!Rank(stayStatus'[k.id]) >= S!Rank(S!To[k.op])
  <2>1. CASE k.n = r.n
    <3>1. r.n # 0 /\ k.n \in S!Click /\ stayMade[r.n] \in {0, 1} /\ stayMade'[r.n] \in {0, 1}
      BY <1>1, <1>2, <2>1
    <3>2. CASE k \in requests
      <4>1. k = r
        BY <1>2, <2>1, <3>2 DEF StayInv, DeskFlags
      <4> QED
        BY <3>1, <4>1 DEF StayInv, DeskDone
    <3>3. CASE k \notin requests
      BY <1>2, <2>1, <3>1, <3>3
    <3> QED
      BY <3>2, <3>3
  <2>2. CASE k.n # r.n
    <3>1. k \in requests
      BY <2>2
    <3>2. k.n \in S!Click /\ k.id \in Stays /\ k.op \in {"in", "out"}
      BY <1>2, <3>1, DeskFacts DEF StayInv, DeskKnown
    <3>3. stayMade'[k.n] = stayMade[k.n]
      BY <2>2, <3>2
    <3>4. /\ S!Rank(stayStatus[k.id]) \in 1 .. 3 /\ S!Rank(stayStatus'[k.id]) \in 1 .. 3
          /\ S!Rank(S!To[k.op]) \in 1 .. 3
          /\ S!Rank(stayStatus[k.id]) <= S!Rank(stayStatus'[k.id])
      BY <3>2, StayRanks DEF StayOnwards, StayInv, DeskTypes
    <3>5. /\ k.step # "post" \/ k.answer = "ok" => stayMade[k.n] = 1
          /\ stayMade[k.n] >= 1 => S!Rank(stayStatus[k.id]) >= S!Rank(S!To[k.op])
      BY <1>2, <3>1 DEF StayInv, DeskDone
    <3> QED
      BY <3>3, <3>4, <3>5
  <2> QED
    BY <2>1, <2>2
<1>3. \A n \in S!Click : n > stayLast => stayMade'[n] = 0
  <2> TAKE n \in S!Click
  <2>1. n > stayLast => n # r.n
    BY <1>1 DEF S!Click
  <2> QED
    BY <2>1 DEF StayInv, DeskDone
<1>4. \A n \in stayTold' : n \in 1 .. stayLast /\ stayMade'[n] = 1
  <2> TAKE n \in stayTold'
  <2>1. n \in 1 .. stayLast
    <3>1. n \in stayTold => n \in 1 .. stayLast
      BY DEF StayInv, DeskDone
    <3>2. n = r.n /\ n # 0 => n \in 1 .. stayLast
      BY <1>1
    <3> QED
      BY <3>1, <3>2
  <2>2. n \in S!Click
    BY <1>1, <2>1 DEF S!Click
  <2>3. n \in stayTold => stayMade[n] = 1
    BY DEF StayInv, DeskDone, S!ToldIsDone
  <2> QED
    BY <1>1, <2>1, <2>2, <2>3
<1>5. \A n \in S!Click : stayMade'[n] <= 1
  <2> TAKE n \in S!Click
  <2>1. n = r.n => n # 0
    BY DEF S!Click
  <2>2. stayMade[n] <= 1
    BY DEF StayInv, DeskDone, S!ToldIsDone
  <2> QED
    BY <2>1, <2>2
<1> QED
  BY <1>2, <1>3, <1>4, <1>5 DEF DeskDone, S!ToldIsDone

(* A request that has its answer disturbs no other.                        *)
LEMMA DeskReplaced ==
  ASSUME StayInv, NEW r \in requests, NEW d \in DeskRequests, Carried(d, r),
         requests' = (requests \ {r}) \cup {d},
         d.n = 0 => d.step \notin {"post", "first", "rooms"},
         d.step = "one" => d.id \in Stays,
         UNCHANGED <<stayPage, stayVisit, stayLast, busy>>
  PROVE  DeskKnown' /\ DeskFlags' /\ requests' \subseteq DeskRequests
<1>1. \A k \in requests' : k = d \/ (k \in requests /\ k # r)
  OBVIOUS
<1>2. DeskKnown'
  BY <1>1 DEF Carried, StayInv, DeskKnown
<1>3. \A k, q \in requests' : k.n = q.n /\ k.n # 0 => k = q
  BY <1>1 DEF Carried, StayInv, DeskFlags
<1>4. busy' # None => \E k \in requests' : k.n # 0 /\ k.visit = stayVisit'
  BY <1>1 DEF Carried, StayInv, DeskFlags
<1>5. stayPage'.name = "arrivals" => \A k \in requests' : S!Mine(k)' => busy' # None
  BY <1>1 DEF Carried, StayInv, DeskFlags, S!Mine
<1>6. S!OneArrival'
  BY <1>1 DEF Carried, StayInv, DeskFlags, S!OneArrival
<1>7. requests' \subseteq DeskRequests
  BY <1>1 DEF StayInv, DeskTypes
<1> QED
  BY <1>2, <1>3, <1>4, <1>5, <1>6, <1>7 DEF DeskFlags

(* A request that is over disturbs no other.                               *)
LEMMA DeskRemoved ==
  ASSUME StayInv, NEW r \in requests, requests' = requests \ {r}, busy' = S!Release(r),
         UNCHANGED <<stayPage, stayVisit, stayLast>>
  PROVE  DeskKnown' /\ DeskFlags' /\ requests' \subseteq DeskRequests
<1>1. DeskKnown'
  BY DEF StayInv, DeskKnown
<1>2. \A k, q \in requests' : k.n = q.n /\ k.n # 0 => k = q
  BY DEF StayInv, DeskFlags
<1>3. busy' # None => \E k \in requests' : k.n # 0 /\ k.visit = stayVisit'
  BY DEF StayInv, DeskFlags, S!Release
<1>4. stayPage'.name = "arrivals" => \A k \in requests' : S!Mine(k)' => busy' # None
  BY DEF StayInv, DeskKnown, DeskFlags, S!Mine, S!OneArrival, S!Release
<1>5. S!OneArrival'
  BY DEF StayInv, DeskFlags, S!OneArrival
<1> QED
  BY <1>1, <1>2, <1>3, <1>4, <1>5 DEF DeskFlags, StayInv, DeskTypes

(* A click on one of the three pages.                                      *)
LEMMA DeskSent ==
  ASSUME StayInv, NEW op \in {"in", "out"}, NEW id \in Stays, S!Send(op, id),
         stayPage \in S!Pages,
         stayPage.name = "arrivals" => busy = None /\ busy' # None
  PROVE  DeskKept'
<1> DEFINE c == S!Request(stayLast + 1, op, id, "post", stayPage.name, stayVisit)
<1>1. /\ stayLast < MaxClicks /\ stayLast' = stayLast + 1 /\ requests' = requests \cup {c}
      /\ UNCHANGED <<stayPage, stayVisit, stayStatus, stayMade, stayTold>>
  BY DEF S!Send
<1>2. /\ stayLast \in Nat /\ MaxClicks \in Nat /\ stayVisit \in Nat /\ None # "ok"
      /\ stayMade \in [S!Click -> Nat] /\ stayTold \subseteq 1 .. stayLast
      /\ stayLast + 1 \in S!Click /\ stayPage.name \in Desks
  BY <1>1, StayAssumption DEF StayInv, DeskTypes, DeskDone, S!BoundAssumption, S!NoneAssumption,
     S!Click, S!Pages, Desks
<1>3. /\ c \in DeskRequests /\ c.n = stayLast + 1 /\ c.op = op /\ c.id = id /\ c.step = "post"
      /\ c.page = stayPage.name /\ c.visit = stayVisit /\ c.answer = None
  BY <1>1, <1>2, SnapshotOK DEF DeskRequests, S!Request, Steps
<1> HIDE DEF c
<1>4. \A k \in requests' : k = c \/ (k \in requests /\ k.n \in 0 .. stayLast)
  BY <1>1, DeskFacts
<1>5. DeskKnown'
  BY <1>1, <1>2, <1>3, <1>4 DEF StayInv, DeskKnown
<1>6. DeskFlags'
  <2>1. \A k, q \in requests' : k.n = q.n /\ k.n # 0 => k = q
    BY <1>2, <1>3, <1>4 DEF StayInv, DeskFlags
  <2>2. \E k \in requests' : k.n # 0 /\ k.visit = stayVisit'
    BY <1>1, <1>2, <1>3
  <2>3. stayPage.name = "arrivals" => \A k \in requests : k.n # 0 /\ k.page = "arrivals" =>
          k.visit # stayVisit
    BY DEF StayInv, DeskFlags, S!Mine
  <2>4. S!OneArrival'
    BY <1>1, <1>3, <1>4, <2>3 DEF StayInv, DeskFlags, S!OneArrival
  <2> QED
    BY <1>1, <2>1, <2>2, <2>4 DEF DeskFlags
<1>7. DeskDone'
  <2>1. stayMade[stayLast + 1] = 0
    BY <1>2 DEF StayInv, DeskDone
  <2>2. \A n \in S!Click : n > stayLast' => stayMade[n] = 0
    BY <1>1, <1>2 DEF StayInv, DeskDone, S!Click
  <2>3. stayTold' \subseteq 1 .. stayLast'
    BY <1>1, <1>2
  <2>4. \A k \in requests' : k.n # 0 =>
          /\ k.step # "post" \/ k.answer = "ok" => stayMade[k.n] = 1
          /\ stayMade[k.n] >= 1 => S!Rank(stayStatus[k.id]) >= S!Rank(S!To[k.op])
    BY <1>2, <1>3, <1>4, <2>1 DEF StayInv, DeskDone
  <2> QED
    BY <1>1, <2>2, <2>3, <2>4 DEF StayInv, DeskDone, S!ToldIsDone
<1>8. requests' \subseteq DeskRequests
  BY <1>1, <1>3 DEF StayInv, DeskTypes
<1> QED
  BY <1>5, <1>6, <1>7, <1>8 DEF DeskKept

(* A list or a page that is asked for.                                     *)
LEMMA DeskAsked ==
  ASSUME StayInv, NEW c \in DeskRequests, requests' = requests \cup {c}, c.n = 0,
         c.step \in {"one", "all", "awaited"}, c.step = "one" => c.id \in Stays,
         c.visit <= stayVisit',
         \/ UNCHANGED <<stayPage, stayVisit, busy>>
         \/ stayVisit' = stayVisit + 1 /\ busy' = None,
         UNCHANGED <<stayLast, stayMade, stayTold, stayStatus>>
  PROVE  DeskKept'
<1>1. \A k \in requests : /\ k.visit \in Int /\ k.visit <= stayVisit /\ stayVisit \in Int
                          /\ k.visit <= stayVisit' /\ k.visit # stayVisit + 1
  BY DeskFacts
<1>2. \A k \in requests' : k = c \/ k \in requests
  OBVIOUS
<1>3. DeskKnown'
  <2> SUFFICES ASSUME NEW k \in requests'
               PROVE  /\ k.n <= stayLast' /\ k.visit <= stayVisit'
                      /\ k.n = 0 => k.step \notin {"post", "first", "rooms"}
                      /\ k.n # 0 => k.id \in Stays /\ k.op \in {"in", "out"}
                      /\ k.step = "one" => k.id \in Stays
                      /\ k.n # 0 /\ k.visit = stayVisit' => stayPage'.name \in {k.page, "other"}
    BY DEF DeskKnown
  <2>1. stayLast \in Nat
    BY StayAssumption DEF StayInv, DeskTypes, S!BoundAssumption
  <2>2. CASE k = c
    BY <2>1, <2>2
  <2>3. CASE k \in requests
    BY <1>1, <2>3 DEF StayInv, DeskKnown
  <2> QED
    BY <1>2, <2>2, <2>3
<1>4. DeskFlags'
  <2>1. \A k, q \in requests' : k.n = q.n /\ k.n # 0 => k = q
    BY <1>2 DEF StayInv, DeskFlags
  <2>2. S!OneArrival'
    BY <1>2 DEF StayInv, DeskFlags, S!OneArrival
  <2>3. busy' # None => \E k \in requests' : k.n # 0 /\ k.visit = stayVisit'
    BY DEF StayInv, DeskFlags
  <2>4. stayPage'.name = "arrivals" => \A k \in requests' : S!Mine(k)' => busy' # None
    BY <1>1, <1>2 DEF StayInv, DeskFlags, S!Mine
  <2> QED
    BY <2>1, <2>2, <2>3, <2>4 DEF DeskFlags
<1>5. DeskDone'
  BY <1>2 DEF StayInv, DeskDone, S!ToldIsDone
<1> QED
  BY <1>2, <1>3, <1>4, <1>5 DEF DeskKept, StayInv, DeskTypes

(* A step that sends and answers nothing keeps the requests well.          *)
LEMMA DeskStill ==
  ASSUME StayInv, StayOnwards, UNCHANGED <<requests, stayVisit, stayLast, stayMade, stayTold,
         busy>>,
         stayPage' = stayPage \/ stayPage' = S!Nowhere
  PROVE  DeskKept'
<1>1. DeskKnown'
  BY DEF StayInv, DeskKnown, S!Nowhere
<1>2. DeskFlags'
  BY DEF StayInv, DeskFlags, S!OneArrival, S!Mine, S!Nowhere
<1>3. ASSUME requests = {} PROVE DeskDone'
  <2>1. S!ToldIsDone'
    BY DEF StayInv, DeskDone, S!ToldIsDone
  <2> QED
    BY <1>3, <2>1 DEF StayInv, DeskDone
<1>4. ASSUME NEW r \in requests PROVE DeskDone'
  <2>1. r.n # 0 => /\ stayMade[r.n] \in {0, 1} /\ r.n \in S!Click /\ r.id \in Stays
                   /\ r.op \in {"in", "out"}
    BY DeskFacts DEF StayInv, DeskKnown
  <2>2. r.n # 0 /\ stayMade[r.n] = 1 => S!Rank(stayStatus'[r.id]) >= S!Rank(S!To[r.op])
    <3>1. r.n # 0 => /\ S!Rank(stayStatus[r.id]) \in 1 .. 3
                     /\ S!Rank(stayStatus'[r.id]) \in 1 .. 3 /\ S!Rank(S!To[r.op]) \in 1 .. 3
                     /\ S!Rank(stayStatus[r.id]) <= S!Rank(stayStatus'[r.id])
      BY <2>1, StayRanks DEF StayOnwards, StayInv, DeskTypes
    <3> QED
      BY <3>1 DEF StayInv, DeskDone
  <2>3. stayMade' \in [S!Click -> Nat]
    BY DEF StayInv, DeskTypes
  <2> QED
    BY <2>1, <2>2, <2>3, DeskDoneKept
<1> QED
  BY <1>1, <1>2, <1>3, <1>4 DEF DeskKept, StayInv, DeskTypes

(* Every step keeps what the requests are about.                           *)
LEMMA StayRequestStep == ASSUME StayInv, [S!Next]_SVars PROVE DeskKept'
<1>1. StayOnwards /\ stayMade \in [S!Click -> Nat] /\ stayStatus \in [Stays -> S!Statuses]
  BY StayStatusStep DEF StayInv, DeskTypes
<1>2. \A r \in requests : r.n # 0 =>
        /\ r.n \in S!Click /\ stayMade[r.n] \in {0, 1} /\ r.id \in Stays /\ r.op \in {"in", "out"}
        /\ stayMade[r.n] = 1 => S!Rank(stayStatus'[r.id]) >= S!Rank(S!To[r.op])
  <2> SUFFICES ASSUME NEW r \in requests, r.n # 0
               PROVE  /\ r.n \in S!Click /\ stayMade[r.n] \in {0, 1} /\ r.id \in Stays
                      /\ r.op \in {"in", "out"}
                      /\ stayMade[r.n] = 1 =>
                           S!Rank(stayStatus'[r.id]) >= S!Rank(S!To[r.op])
    OBVIOUS
  <2>1. /\ r.n \in S!Click /\ stayMade[r.n] \in {0, 1} /\ r.id \in Stays /\ r.op \in {"in", "out"}
    BY DeskFacts DEF StayInv, DeskKnown
  <2>2. /\ S!Rank(stayStatus[r.id]) \in 1 .. 3
        /\ S!Rank(stayStatus'[r.id]) \in 1 .. 3 /\ S!Rank(S!To[r.op]) \in 1 .. 3
        /\ S!Rank(stayStatus[r.id]) <= S!Rank(stayStatus'[r.id])
    BY <1>1, <2>1, StayRanks DEF StayOnwards
  <2>3. stayMade[r.n] >= 1 => S!Rank(stayStatus[r.id]) >= S!Rank(S!To[r.op])
    BY DEF StayInv, DeskDone
  <2> QED
    BY <2>1, <2>2, <2>3
<1>3. ASSUME NEW r \in requests, NEW d \in DeskRequests, Carried(d, r),
             requests' = (requests \ {r}) \cup {d}, d.answer # "ok", d.step = r.step,
             UNCHANGED <<stayPage, stayVisit, stayLast, stayTold, stayMade, busy>>
      PROVE  DeskKept'
  <2>1. /\ d.n = 0 => d.step \notin {"post", "first", "rooms"}
        /\ d.step = "one" => d.id \in Stays
    BY <1>3 DEF Carried, StayInv, DeskKnown
  <2>2. DeskKnown' /\ DeskFlags' /\ requests' \subseteq DeskRequests
    BY <1>3, <2>1, DeskReplaced
  <2>3. DeskDone'
    <3>1. r.n # 0 /\ r.step # "post" => stayMade[r.n] = 1
      BY DEF StayInv, DeskDone
    <3> QED
      BY <1>1, <1>2, <1>3, <3>1, DeskDoneKept DEF Carried
  <2> QED
    BY <2>2, <2>3 DEF DeskKept
<1>4. ASSUME NEW r \in requests, S!Post(r) PROVE DeskKept'
  <2>1. /\ r.step = "post" /\ r.n # 0 /\ r \in DeskRequests /\ r.n \in S!Click
        /\ UNCHANGED <<stayPage, stayVisit, stayLast, stayTold, busy>>
    BY <1>2, <1>4, DeskFacts DEF S!Post, S!local, StayInv, DeskKnown
  <2>2. CASE S!MayChange(r)
    <3> DEFINE d == [r EXCEPT !.answer = "ok"]
    <3>1. /\ stayStatus' = [stayStatus EXCEPT ![r.id] = S!To[r.op]]
          /\ stayMade' = [stayMade EXCEPT ![r.n] = @ + 1]
          /\ requests' = (requests \ {r}) \cup {d}
      BY <1>4, <2>2 DEF S!Post
    <3>2. d \in DeskRequests /\ Carried(d, r) /\ d.step = "post"
      BY <2>1 DEF DeskRequests, Carried
    <3>3. stayMade[r.n] = 0
      <4>1. ~(S!Rank(stayStatus[r.id]) >= S!Rank(S!To[r.op]))
        BY <1>2, <2>1, <2>2, StayRanks DEF S!MayChange
      <4> QED
        BY <1>2, <2>1, <4>1 DEF StayInv, DeskDone
    <3>4. stayMade' = [stayMade EXCEPT ![r.n] = 1]
      BY <3>1, <3>3
    <3>5. /\ stayMade' \in [S!Click -> Nat] /\ stayMade'[r.n] = 1
          /\ \A n \in S!Click : n # r.n => stayMade'[n] = stayMade[n]
      BY <1>1, <2>1, <3>4
    <3>6. S!Rank(stayStatus'[r.id]) >= S!Rank(S!To[r.op])
      BY <1>1, <1>2, <2>1, <3>1, StayRanks
    <3> HIDE DEF d
    <3>7. DeskKnown' /\ DeskFlags' /\ requests' \subseteq DeskRequests
      BY <2>1, <3>1, <3>2, DeskReplaced DEF Carried
    <3>8. DeskDone'
      BY <1>1, <2>1, <3>1, <3>2, <3>3, <3>5, <3>6, DeskDoneKept DEF Carried
    <3> QED
      BY <3>7, <3>8 DEF DeskKept
  <2>3. CASE ~S!MayChange(r)
    <3> DEFINE d == [r EXCEPT !.answer = "conflict"]
    <3>1. d \in DeskRequests /\ Carried(d, r) /\ d.step = r.step /\ d.answer # "ok"
      BY <2>1 DEF DeskRequests, Carried
    <3>2. requests' = (requests \ {r}) \cup {d} /\ UNCHANGED stayMade
      BY <1>4, <2>3 DEF S!Post
    <3> HIDE DEF d
    <3> QED
      BY <1>3, <2>1, <3>1, <3>2
  <2> QED
    BY <2>2, <2>3
<1>5. ASSUME NEW r \in requests, S!Refuse(r) PROVE DeskKept'
  <2> DEFINE d == [r EXCEPT !.answer = "conflict"]
  <2>1. d \in DeskRequests /\ Carried(d, r) /\ d.step = r.step /\ d.answer # "ok"
    BY DeskFacts DEF DeskRequests, Carried
  <2>2. /\ requests' = (requests \ {r}) \cup {d}
        /\ UNCHANGED <<stayPage, stayVisit, stayLast, stayTold, stayMade, busy>>
    BY <1>5 DEF S!Refuse, S!local, S!history
  <2> HIDE DEF d
  <2> QED
    BY <1>3, <2>1, <2>2
<1>6. ASSUME NEW r \in requests, S!Fail(r) PROVE DeskKept'
  <2>1. UNCHANGED <<stayPage, stayVisit, stayLast, stayTold, stayMade>>
    BY <1>6 DEF S!Fail, S!history
  <2>2. CASE r.left > 0
    <3> DEFINE d == [r EXCEPT !.left = 0, !.answer = None, !.data = S!Only({})]
    <3>1. d \in DeskRequests /\ Carried(d, r) /\ d.step = r.step /\ d.answer # "ok"
      BY DeskFacts, SnapshotOK, StayAssumption DEF DeskRequests, Carried, S!NoneAssumption
    <3>2. requests' = (requests \ {r}) \cup {d} /\ UNCHANGED busy
      BY <1>6, <2>2 DEF S!Fail
    <3> HIDE DEF d
    <3> QED
      BY <1>3, <2>1, <3>1, <3>2
  <2>3. CASE ~(r.left > 0)
    <3>1. requests' = requests \ {r} /\ busy' = S!Release(r)
      BY <1>6, <2>3 DEF S!Fail
    <3>2. DeskDone'
      BY <1>1, <1>2, <2>1, <3>1, DeskDoneKept
    <3> QED
      BY <2>1, <3>1, <3>2, DeskRemoved DEF DeskKept
  <2> QED
    BY <2>2, <2>3
<1>7. ASSUME NEW r \in requests, S!Serve(r) PROVE DeskKept'
  <2> DEFINE d == [r EXCEPT !.answer = "ok", !.data = S!Data(r)]
  <2>1. /\ r \in DeskRequests /\ r.step \in {"one", "all", "first", "awaited"}
        /\ r.step = "one" => r.id \in Stays
    BY <1>7, DeskFacts DEF S!Serve, DeskRequests, Steps, StayInv, DeskKnown
  <2>2. S!Data(r) \in Snapshots
    <3>1. {s \in Stays : stayStatus[s] = "checked_in"} \in SUBSET Stays /\ Stays \in SUBSET Stays
          /\ FirstStays \in SUBSET Stays
      BY StayAssumption DEF S!FirstAssumption
    <3> QED
      BY <1>1, <2>1, <3>1, SnapshotOK DEF S!Data
  <2>3. d \in DeskRequests /\ Carried(d, r) /\ d.step = r.step
    BY <2>1, <2>2 DEF DeskRequests, Carried
  <2>4. /\ requests' = (requests \ {r}) \cup {d}
        /\ UNCHANGED <<stayPage, stayVisit, stayLast, stayTold, stayMade, busy>>
    BY <1>7 DEF S!Serve, S!local, S!history
  <2> HIDE DEF d
  <2>5. /\ r.n # 0 => r.step # "post" /\ stayMade[r.n] = 1
        /\ r.n = 0 => r.step \notin {"post", "first", "rooms"}
    BY <2>1 DEF StayInv, DeskDone, DeskKnown
  <2>6. DeskKnown' /\ DeskFlags' /\ requests' \subseteq DeskRequests
    BY <2>1, <2>3, <2>4, <2>5, DeskReplaced DEF Carried
  <2>7. DeskDone'
    BY <1>1, <1>2, <2>3, <2>4, <2>5, DeskDoneKept DEF Carried
  <2> QED
    BY <2>6, <2>7 DEF DeskKept
<1>8. ASSUME NEW r \in requests, S!Continue(r) PROVE DeskKept'
  <2>1. /\ r \in DeskRequests /\ r.step \in Steps /\ r.page \in Desks
        /\ r.answer = "ok" \/ r.step = "rooms"
        /\ UNCHANGED <<stayPage, stayVisit, stayLast, stayMade>>
        /\ stayTold' = IF r.n # 0 /\ r.step = "rooms" THEN stayTold \cup {r.n} ELSE stayTold
    BY <1>8, DeskFacts DEF S!Continue, S!Succeeded, DeskRequests
  <2>2. /\ r.n # 0 => stayMade[r.n] = 1 /\ r.id \in Stays
        /\ r.n = 0 => r.step \notin {"post", "first", "rooms"}
    BY <2>1 DEF StayInv, DeskDone, DeskKnown
  <2>3. \A n \in stayTold' : n \in stayTold \/ (n = r.n /\ n # 0 /\ stayMade'[n] = 1)
    BY <2>1, <2>2
  <2>4. CASE r.n = 0 \/ S!After(r) = "end"
    <3>1. requests' = requests \ {r} /\ busy' = S!Release(r)
      BY <1>8, <2>4 DEF S!Continue
    <3>2. DeskDone'
      BY <1>1, <1>2, <2>1, <2>3, <3>1, DeskDoneKept
    <3> QED
      BY <2>1, <3>1, <3>2, DeskRemoved DEF DeskKept
  <2>5. CASE ~(r.n = 0 \/ S!After(r) = "end")
    <3> DEFINE d == [r EXCEPT !.step = S!After(r), !.left = 0, !.answer = None,
                              !.data = S!Only({})]
    <3>1. requests' = (requests \ {r}) \cup {d} /\ UNCHANGED busy
      BY <1>8, <2>5 DEF S!Continue
    <3>2. S!After(r) \in {"first", "rooms", "one", "all", "awaited"}
      BY <2>1, <2>5 DEF S!After, S!Own, Steps, Desks
    <3>3. d \in DeskRequests /\ Carried(d, r)
      BY <2>1, <3>2, SnapshotOK DEF DeskRequests, Carried, Steps
    <3> HIDE DEF d
    <3>4. DeskKnown' /\ DeskFlags' /\ requests' \subseteq DeskRequests
      BY <2>1, <2>2, <2>5, <3>1, <3>3, DeskReplaced DEF Carried
    <3>5. DeskDone'
      BY <1>1, <1>2, <2>1, <2>2, <2>3, <2>5, <3>1, <3>3, DeskDoneKept DEF Carried
    <3> QED
      BY <3>4, <3>5 DEF DeskKept
  <2> QED
    BY <2>4, <2>5
<1>9. ASSUME NEW p \in S!Pages, S!Open(p) PROVE DeskKept'
  <2> DEFINE c == S!Request(0, None, p.id, S!Own[p.name], p.name, stayVisit + 1)
  <2>1. /\ requests' = requests \cup {c} /\ stayVisit' = stayVisit + 1 /\ busy' = None
        /\ UNCHANGED <<stayLast, stayMade, stayTold, stayStatus>> /\ stayVisit \in Nat
        /\ MaxClicks \in Nat
    BY <1>9, StayAssumption DEF S!Open, S!history, StayInv, DeskTypes, S!BoundAssumption
  <2>2. /\ p.name \in Desks /\ p.id \in Stays \cup {None}
        /\ S!Own[p.name] \in {"one", "all", "awaited"} /\ (S!Own[p.name] = "one" => p.id \in Stays)
    BY DEF S!Pages, Desks, S!Own
  <2>3. /\ c \in DeskRequests /\ c.n = 0 /\ c.step = S!Own[p.name] /\ c.id = p.id
        /\ c.visit = stayVisit + 1
    BY <2>1, <2>2, SnapshotOK DEF S!Request, DeskRequests, Steps
  <2> HIDE DEF c
  <2> QED
    BY <2>1, <2>2, <2>3, DeskAsked
<1>10. CASE S!Refresh
  <2> DEFINE c == S!Request(0, None, None, S!Own[stayPage.name], stayPage.name, stayVisit)
  <2>1. /\ requests' = requests \cup {c} /\ stayVisit \in Nat /\ MaxClicks \in Nat
        /\ stayPage.name \in {"arrivals", "departures"}
        /\ UNCHANGED <<stayPage, stayVisit, busy, stayLast, stayMade, stayTold, stayStatus>>
    BY <1>10, StayAssumption
    DEF S!Refresh, S!history, S!local, StayInv, DeskTypes, S!BoundAssumption
  <2>2. S!Own[stayPage.name] \in {"all", "awaited"} /\ stayPage.name \in Desks
    BY <2>1 DEF S!Own, Desks
  <2>3. /\ c \in DeskRequests /\ c.n = 0 /\ c.step = S!Own[stayPage.name]
        /\ c.visit = stayVisit
    BY <2>1, <2>2, SnapshotOK DEF S!Request, DeskRequests, Steps
  <2> HIDE DEF c
  <2> QED
    BY <2>1, <2>2, <2>3, DeskAsked
<1>11. ASSUME NEW op \in DOMAIN S!From, S!Press(op) PROVE DeskKept'
  <2>1. /\ stayPage.name = "detail" /\ S!Send(op, stayPage.id) /\ op \in {"in", "out"}
        /\ stayPage \in S!Pages \cup {S!Nowhere}
    BY <1>11, StayRanks DEF S!Press, S!Displayed, StayInv, DeskTypes
  <2>2. stayPage \in S!Pages /\ stayPage.id \in Stays
    BY <2>1 DEF S!Pages, S!Nowhere
  <2> QED
    BY <2>1, <2>2, DeskSent
<1>12. CASE S!Confirm
  <2>1. /\ stayPage.name = "arrivals" /\ busy = None /\ chosen \in Stays /\ busy' = chosen
        /\ S!Send("in", chosen) /\ None \notin Stays /\ stayPage \in S!Pages \cup {S!Nowhere}
    BY <1>12, StayAssumption DEF S!Confirm, S!BoxReady, StayInv, DeskTypes, S!NoneAssumption
  <2>2. stayPage \in S!Pages
    BY <2>1 DEF S!Nowhere
  <2> QED
    BY <2>1, <2>2, DeskSent
<1>13. ASSUME NEW s \in Stays, S!Depart(s) PROVE DeskKept'
  <2>1. /\ stayPage.name = "departures" /\ S!Send("out", s)
        /\ stayPage \in S!Pages \cup {S!Nowhere}
    BY <1>13 DEF S!Depart, StayInv, DeskTypes
  <2>2. stayPage \in S!Pages
    BY <2>1 DEF S!Nowhere
  <2> QED
    BY <2>1, <2>2, DeskSent
<1>14. CASE \/ S!Leave \/ S!Cancel \/ \E s \in Stays : S!Choose(s)
            \/ \E s \in Stays, op \in DOMAIN S!From : S!OthersChange(s, op)
            \/ UNCHANGED SVars
  <2>1. /\ UNCHANGED <<requests, stayVisit, stayLast, stayMade, stayTold, busy>>
        /\ stayPage' = stayPage \/ stayPage' = S!Nowhere
    BY <1>14 DEF S!Leave, S!Cancel, S!Choose, S!OthersChange, S!local, S!history, SVars
  <2> QED
    BY <1>1, <2>1, DeskStill
<1> QED
  BY <1>4, <1>5, <1>6, <1>7, <1>8, <1>9, <1>10, <1>11, <1>12, <1>13, <1>14 DEF S!Next

(* What an answer may say.                                                 *)
DeskTrue(k) ==
  /\ \A s \in DOMAIN k.data : /\ S!Rank(k.data[s]) <= S!Rank(stayStatus[s])
                              /\ k.step = "awaited" => S!Rank(stayStatus[s]) >= 2
  /\ k.step = "one" /\ k.answer = "ok" => k.id \in DOMAIN k.data

(* What the page shows stays behind what there is.                         *)
LEMMA DeskSeenKept ==
  ASSUME StayInv, StayOnwards,
         rows' = rows \/ \E r \in requests : rows' = r.data,
         \/ stayCurrent' = stayCurrent
         \/ \E r \in requests : /\ r.step = "one" /\ r.answer = "ok"
                                /\ stayCurrent' = [id |-> r.id, status |-> r.data[r.id]],
         \/ awaited' \subseteq awaited
         \/ \E r \in requests : r.step = "awaited" /\ awaited' = DOMAIN r.data,
         \A k \in requests' : k \in requests \/ DeskTrue(k)'
  PROVE  DeskSeen'
<1>1. \A s \in Stays : /\ S!Rank(stayStatus[s]) \in 1 .. 3 /\ S!Rank(stayStatus'[s]) \in 1 .. 3
                       /\ S!Rank(stayStatus[s]) <= S!Rank(stayStatus'[s])
  BY StayRanks DEF StayInv, DeskTypes, StayOnwards
<1>2. ASSUME NEW r \in requests, NEW s \in DOMAIN r.data
      PROVE  /\ s \in Stays /\ S!Rank(r.data[s]) \in 1 .. 3
             /\ S!Rank(r.data[s]) <= S!Rank(stayStatus'[s])
             /\ r.step = "awaited" => S!Rank(stayStatus'[s]) >= 2
  <2>1. s \in Stays /\ r.data[s] \in S!Statuses
    BY <1>2, DeskFacts, SnapshotOK
  <2>2. S!Rank(r.data[s]) \in 1 .. 3
    BY <2>1, StayRanks
  <2>3. /\ S!Rank(r.data[s]) <= S!Rank(stayStatus[s])
        /\ r.step = "awaited" => S!Rank(stayStatus[s]) >= 2
    BY DEF StayInv, DeskSeen
  <2> QED
    BY <1>1, <2>1, <2>2, <2>3
<1>3. ASSUME NEW k \in requests' PROVE DeskTrue(k)'
  <2>1. CASE k \in requests
    <3>1. k.step = "one" /\ k.answer = "ok" => k.id \in DOMAIN k.data
      BY <2>1 DEF StayInv, DeskSeen
    <3> QED
      BY <1>2, <2>1, <3>1 DEF DeskTrue
  <2> QED
    BY <2>1
<1>4. \A s \in DOMAIN rows' : S!Rank(rows'[s]) <= S!Rank(stayStatus'[s])
  <2>1. CASE rows' = rows
    <3>1. \A s \in DOMAIN rows : s \in Stays /\ rows[s] \in S!Statuses
      BY SnapshotOK DEF StayInv, DeskTypes
    <3>2. \A s \in DOMAIN rows : S!Rank(rows[s]) \in 1 .. 3
      BY <3>1, StayRanks
    <3>3. \A s \in DOMAIN rows : S!Rank(rows[s]) <= S!Rank(stayStatus[s])
      BY DEF StayInv, DeskSeen, S!NeverAhead
    <3> QED
      BY <1>1, <2>1, <3>1, <3>2, <3>3
  <2>2. ASSUME NEW r \in requests, rows' = r.data
        PROVE  \A s \in DOMAIN rows' : S!Rank(rows'[s]) <= S!Rank(stayStatus'[s])
    BY <1>2, <2>2
  <2> QED
    BY <2>1, <2>2
<1>5. stayCurrent' # None =>
        S!Rank(stayCurrent'.status) <= S!Rank(stayStatus'[stayCurrent'.id])
  <2>1. CASE stayCurrent' = stayCurrent /\ stayCurrent # None
    <3>1. stayCurrent.id \in Stays /\ stayCurrent.status \in S!Statuses
      BY <2>1 DEF StayInv, DeskTypes, S!Entries
    <3>2. S!Rank(stayCurrent.status) <= S!Rank(stayStatus[stayCurrent.id])
      BY <2>1 DEF StayInv, DeskSeen, S!NeverAhead
    <3>3. S!Rank(stayCurrent.status) \in 1 .. 3
      BY <3>1, StayRanks
    <3> QED
      BY <1>1, <2>1, <3>1, <3>2, <3>3
  <2>2. ASSUME NEW r \in requests, r.step = "one", r.answer = "ok",
               stayCurrent' = [id |-> r.id, status |-> r.data[r.id]]
        PROVE  S!Rank(stayCurrent'.status) <= S!Rank(stayStatus'[stayCurrent'.id])
    <3>1. r.id \in DOMAIN r.data
      BY <2>2 DEF StayInv, DeskSeen
    <3> QED
      BY <1>2, <2>2, <3>1
  <2> QED
    BY <2>1, <2>2
<1>6. \A s \in awaited' : S!Rank(stayStatus'[s]) >= S!Rank("checked_in")
  <2>1. CASE awaited' \subseteq awaited
    <3>1. \A s \in awaited : s \in Stays /\ S!Rank(stayStatus[s]) >= 2
      BY StayRanks DEF StayInv, DeskTypes, DeskSeen, S!NeverAhead
    <3>2. \A s \in awaited : S!Rank(stayStatus'[s]) >= 2
      BY <1>1, <3>1
    <3> QED
      BY <2>1, <3>2, StayRanks
  <2>2. ASSUME NEW r \in requests, r.step = "awaited", awaited' = DOMAIN r.data
        PROVE  \A s \in awaited' : S!Rank(stayStatus'[s]) >= S!Rank("checked_in")
    BY <1>2, <2>2, StayRanks
  <2> QED
    BY <2>1, <2>2
<1>7. S!NeverAhead'
  BY <1>4, <1>5, <1>6 DEF S!NeverAhead
<1> QED
  BY <1>3, <1>7 DEF DeskSeen, DeskTrue

(* A page takes only what was answered.                                    *)
LEMMA StayShownStep ==
  ASSUME StayInv, [S!Next]_SVars
  PROVE  /\ rows' = rows \/ \E r \in requests : rows' = r.data
         /\ \/ stayCurrent' = stayCurrent
            \/ \E r \in requests : /\ r.step = "one" /\ r.answer = "ok"
                                   /\ stayCurrent' = [id |-> r.id, status |-> r.data[r.id]]
         /\ \/ awaited' \subseteq awaited
            \/ \E r \in requests : r.step = "awaited" /\ awaited' = DOMAIN r.data
<1>1. ASSUME NEW r \in requests, S!Continue(r)
      PROVE  /\ rows' = rows \/ rows' = r.data
             /\ \/ stayCurrent' = stayCurrent
                \/ /\ r.step = "one" /\ r.answer = "ok"
                   /\ stayCurrent' = [id |-> r.id, status |-> r.data[r.id]]
             /\ awaited' \subseteq awaited \/ (r.step = "awaited" /\ awaited' = DOMAIN r.data)
  BY <1>1 DEF S!Continue, S!Store, S!Succeeded
<1>2. CASE ~\E r \in requests : S!Continue(r)
  <2>1. rows' = rows /\ stayCurrent' = stayCurrent /\ (awaited' = awaited \/ awaited' = {})
    BY <1>2 DEF S!Next, S!Open, S!Leave, S!Refresh, S!Cancel, S!Confirm, S!Press, S!Choose,
       S!Depart, S!Send, S!Post, S!Refuse, S!Serve, S!Fail, S!OthersChange, S!local, S!store,
       SVars
  <2> QED
    BY <2>1
<1> QED
  BY <1>1, <1>2

(* So it does in every step.                                               *)
LEMMA StaySeenStep == ASSUME StayInv, [S!Next]_SVars PROVE DeskSeen'
<1>1. StayOnwards /\ stayStatus \in [Stays -> S!Statuses]
  BY StayStatusStep DEF StayInv, DeskTypes
<1>2. ASSUME NEW k, k.data = S!Only({}), k.answer = None PROVE DeskTrue(k)'
  BY <1>2, SnapshotOK, StayAssumption DEF DeskTrue, S!NoneAssumption
<1>3. ASSUME NEW r \in requests PROVE \A s \in DOMAIN r.data :
        /\ S!Rank(r.data[s]) <= S!Rank(stayStatus'[s])
        /\ r.step = "awaited" => S!Rank(stayStatus'[s]) >= 2
  <2> TAKE s \in DOMAIN r.data
  <2>1. s \in Stays /\ r.data[s] \in S!Statuses
    BY DeskFacts, SnapshotOK
  <2>2. /\ S!Rank(r.data[s]) \in 1 .. 3 /\ S!Rank(stayStatus[s]) \in 1 .. 3
        /\ S!Rank(stayStatus'[s]) \in 1 .. 3 /\ S!Rank(stayStatus[s]) <= S!Rank(stayStatus'[s])
    BY <1>1, <2>1, StayRanks DEF StayOnwards
  <2>3. /\ S!Rank(r.data[s]) <= S!Rank(stayStatus[s])
        /\ r.step = "awaited" => S!Rank(stayStatus[s]) >= 2
    BY DEF StayInv, DeskSeen
  <2> QED
    BY <2>2, <2>3
<1>4. ASSUME NEW k \in requests' PROVE k \in requests \/ DeskTrue(k)'
  <2>1. ASSUME NEW r \in requests, NEW v, k = [r EXCEPT !.answer = v], r.step = "post"
        PROVE  DeskTrue(k)'
    <3>1. k.data = r.data /\ k.step = "post"
      BY <2>1, DeskFacts DEF DeskRequests
    <3> QED
      BY <1>3, <3>1 DEF DeskTrue
  <2>2. ASSUME NEW r \in requests, S!Post(r) \/ S!Refuse(r) PROVE k \in requests \/ DeskTrue(k)'
    <3>1. r.step = "post" /\ \/ k \in requests
                             \/ k = [r EXCEPT !.answer = "ok"]
                             \/ k = [r EXCEPT !.answer = "conflict"]
      BY <2>2 DEF S!Post, S!Refuse
    <3> QED
      BY <2>1, <3>1
  <2>3. ASSUME NEW r \in requests, S!Serve(r) PROVE k \in requests \/ DeskTrue(k)'
    <3>1. /\ r \in DeskRequests /\ r.step \in {"one", "all", "first", "awaited"}
          /\ r.step = "one" => r.id \in Stays
          /\ UNCHANGED stayStatus
          /\ k \in requests \/ k = [r EXCEPT !.answer = "ok", !.data = S!Data(r)]
      BY <2>3, DeskFacts DEF S!Serve, DeskRequests, Steps, StayInv, DeskKnown
    <3>2. \E D \in SUBSET Stays :
            /\ S!Data(r) = S!Only(D) /\ (r.step = "one" => r.id \in D)
            /\ r.step = "awaited" => \A s \in D : stayStatus[s] = "checked_in"
      <4>1. FirstStays \in SUBSET Stays
        BY StayAssumption DEF S!FirstAssumption
      <4>2. CASE r.step = "one"
        BY <3>1, <4>2 DEF S!Data
      <4>3. CASE r.step = "all"
        BY <3>1, <4>3 DEF S!Data
      <4>4. CASE r.step = "first"
        BY <3>1, <4>1, <4>4 DEF S!Data
      <4>5. CASE r.step = "awaited"
        BY <3>1, <4>5 DEF S!Data
      <4> QED
        BY <3>1, <4>2, <4>3, <4>4, <4>5
    <3>3. PICK D \in SUBSET Stays :
            /\ S!Data(r) = S!Only(D) /\ (r.step = "one" => r.id \in D)
            /\ r.step = "awaited" => \A s \in D : stayStatus[s] = "checked_in"
      BY <3>2
    <3>4. k \in requests \/ (k.step = r.step /\ k.id = r.id /\ k.data = S!Only(D))
      BY <3>1, <3>3 DEF DeskRequests
    <3>5. DOMAIN S!Only(D) = D /\ \A s \in D : S!Only(D)[s] = stayStatus[s]
      BY <1>1, SnapshotOK
    <3>6. \A s \in D : S!Rank(stayStatus[s]) \in 1 .. 3
      BY <1>1, StayRanks
    <3> QED
      BY <3>1, <3>3, <3>4, <3>5, <3>6, StayRanks DEF DeskTrue
  <2>4. ASSUME NEW r \in requests, S!Continue(r) \/ S!Fail(r) PROVE k \in requests \/ DeskTrue(k)'
    <3>1. \/ k \in requests
          \/ k = [r EXCEPT !.step = S!After(r), !.left = 0, !.answer = None, !.data = S!Only({})]
          \/ k = [r EXCEPT !.left = 0, !.answer = None, !.data = S!Only({})]
      BY <2>4 DEF S!Continue, S!Fail
    <3>2. k \in requests \/ (k.data = S!Only({}) /\ k.answer = None)
      BY <3>1, DeskFacts DEF DeskRequests
    <3> QED
      BY <1>2, <3>2
  <2>5. CASE ~\E r \in requests :
          S!Post(r) \/ S!Refuse(r) \/ S!Serve(r) \/ S!Continue(r) \/ S!Fail(r)
    <3>1. \/ k \in requests
          \/ \E n, op, id, step, name, v : k = S!Request(n, op, id, step, name, v)
      BY <2>5 DEF S!Next, S!Open, S!Leave, S!Refresh, S!Cancel, S!Confirm, S!Press, S!Choose,
         S!Depart, S!Send, S!OthersChange, S!local, S!store, SVars
    <3>2. k \in requests \/ (k.data = S!Only({}) /\ k.answer = None)
      BY <3>1 DEF S!Request
    <3> QED
      BY <1>2, <3>2
  <2> QED
    BY <2>2, <2>3, <2>4, <2>5
<1> QED
  BY <1>1, <1>4, StayShownStep, DeskSeenKept

(* Every step keeps the types.                                             *)
LEMMA StayTypesStep == ASSUME StayInv, [S!Next]_SVars PROVE DeskTypes'
<1>1. /\ stayStatus' \in [Stays -> S!Statuses] /\ requests' \subseteq DeskRequests
  BY StayStatusStep, StayRequestStep DEF StayOnwards, DeskKept
<1>2. rows' \in Snapshots
  <2>1. \A r \in requests : r.data \in Snapshots
    BY DeskFacts
  <2> QED
    BY <2>1, StayShownStep DEF StayInv, DeskTypes
<1>3. awaited' \subseteq Stays
  <2>1. \A r \in requests : DOMAIN r.data \subseteq Stays
    BY DeskFacts, SnapshotOK
  <2> QED
    BY <2>1, StayShownStep DEF StayInv, DeskTypes
<1>4. stayCurrent' = None \/ stayCurrent' \in S!Entries
  <2>1. ASSUME NEW r \in requests, r.step = "one", r.answer = "ok"
        PROVE  r.id \in Stays /\ r.data[r.id] \in S!Statuses
    <3>1. r.id \in DOMAIN r.data
      BY <2>1 DEF StayInv, DeskSeen
    <3> QED
      BY <3>1, DeskFacts, SnapshotOK
  <2> QED
    BY <2>1, StayShownStep DEF StayInv, DeskTypes, S!Entries
<1>5. stayPage' \in S!Pages \cup {S!Nowhere} /\ stayVisit' \in Nat
  <2>1. stayPage \in S!Pages \cup {S!Nowhere} /\ stayVisit \in Nat
    BY DEF StayInv, DeskTypes
  <2>2. ASSUME NEW p \in S!Pages, S!Open(p) PROVE stayPage' = p /\ stayVisit' = stayVisit + 1
    BY <2>2 DEF S!Open
  <2>3. CASE ~\E p \in S!Pages : S!Open(p)
    <3>1. stayVisit' = stayVisit /\ (stayPage' = stayPage \/ stayPage' = S!Nowhere)
      BY <2>3 DEF S!Next, S!Leave, S!Refresh, S!Cancel, S!Confirm, S!Press, S!Choose,
         S!Depart, S!Send, S!Post, S!Refuse, S!Serve, S!Continue, S!Fail, S!OthersChange, SVars
    <3> QED
      BY <2>1, <3>1
  <2> QED
    BY <2>1, <2>2, <2>3
<1>6. /\ chosen' \in Stays \cup {None} /\ box' \in BOOLEAN /\ (box' => chosen' # None)
      /\ busy' \in Stays \cup {None}
  <2>1. /\ chosen \in Stays \cup {None} /\ box \in BOOLEAN /\ (box => chosen # None)
        /\ busy \in Stays \cup {None} /\ None \notin Stays
    BY StayAssumption DEF StayInv, DeskTypes, S!NoneAssumption
  <2>2. ASSUME NEW r \in requests,
               S!Post(r) \/ S!Refuse(r) \/ S!Serve(r) \/ S!Continue(r) \/ S!Fail(r)
        PROVE  chosen' = chosen /\ (busy' = busy \/ busy' = None) /\
               (box' = box \/ box' = S!BoxAfter(r))
    BY <2>2 DEF S!Post, S!Refuse, S!Serve, S!Continue, S!Fail, S!Release, S!local
  <2>3. ASSUME NEW r \in requests PROVE S!BoxAfter(r) \in BOOLEAN /\ (S!BoxAfter(r) => box)
    BY <2>1 DEF S!BoxAfter
  <2>4. CASE \E r \in requests :
               S!Post(r) \/ S!Refuse(r) \/ S!Serve(r) \/ S!Continue(r) \/ S!Fail(r)
    BY <2>1, <2>2, <2>3, <2>4
  <2>5. CASE ~\E r \in requests :
               S!Post(r) \/ S!Refuse(r) \/ S!Serve(r) \/ S!Continue(r) \/ S!Fail(r)
    <3>1. /\ chosen' \in Stays \cup {None} /\ busy' \in Stays \cup {None}
      <4>1. CASE \E p \in S!Pages : S!Open(p)
        BY <4>1 DEF S!Open
      <4>2. CASE S!Leave \/ S!Refresh \/ S!Cancel \/ UNCHANGED SVars
        BY <2>1, <4>2 DEF S!Leave, S!Refresh, S!Cancel, S!local, SVars
      <4>3. CASE S!Confirm
        BY <2>1, <4>3 DEF S!Confirm
      <4>4. CASE \E op \in DOMAIN S!From : S!Press(op)
        BY <2>1, <4>4 DEF S!Press, S!local
      <4>5. CASE \E s \in Stays : S!Choose(s) \/ S!Depart(s)
        BY <2>1, <4>5 DEF S!Choose, S!Depart
      <4>6. CASE \E s \in Stays, op \in DOMAIN S!From : S!OthersChange(s, op)
        BY <2>1, <4>6 DEF S!OthersChange, S!local
      <4> QED
        BY <2>5, <4>1, <4>2, <4>3, <4>4, <4>5, <4>6 DEF S!Next
    <3>2. box' \in BOOLEAN /\ (box' => chosen' # None)
      <4>1. CASE \E p \in S!Pages : S!Open(p)
        BY <4>1 DEF S!Open
      <4>2. CASE S!Cancel
        BY <4>2 DEF S!Cancel
      <4>3. CASE \E s \in Stays : S!Choose(s)
        BY <2>1, <4>3 DEF S!Choose
      <4>4. CASE ~(S!Cancel \/ (\E p \in S!Pages : S!Open(p)) \/ (\E s \in Stays : S!Choose(s)))
        <5>1. chosen' = chosen /\ box' = box
          BY <2>5, <4>4 DEF S!Next, S!Leave, S!Refresh, S!Confirm, S!Press, S!Depart, S!Send,
             S!OthersChange, S!local, SVars
        <5> QED
          BY <2>1, <5>1
      <4> QED
        BY <4>1, <4>2, <4>3, <4>4
    <3> QED
      BY <3>1, <3>2
  <2> QED
    BY <2>4, <2>5
<1>7. stayLast' \in 0 .. MaxClicks /\ stayMade' \in [S!Click -> Nat]
  <2>1. stayLast \in 0 .. MaxClicks /\ stayMade \in [S!Click -> Nat] /\ MaxClicks \in Nat
    BY StayAssumption DEF StayInv, DeskTypes, S!BoundAssumption
  <2>2. ASSUME NEW r \in requests, S!Post(r)
               PROVE stayLast' = stayLast /\ stayMade' \in [S!Click -> Nat]
    BY <2>1, <2>2 DEF S!Post
  <2>3. CASE ~\E r \in requests : S!Post(r)
    <3>1. stayMade' = stayMade /\ (stayLast' = stayLast \/ (stayLast < MaxClicks
          /\ stayLast' = stayLast + 1))
      BY <2>3 DEF S!Next, S!Open, S!Leave, S!Refresh, S!Cancel, S!Confirm, S!Press,
         S!Choose, S!Depart, S!Send, S!Refuse, S!Serve, S!Continue, S!Fail, S!OthersChange,
         S!history, SVars
    <3> QED
      BY <2>1, <3>1
  <2> QED
    BY <2>1, <2>2, <2>3
<1> QED
  BY <1>1, <1>2, <1>3, <1>4, <1>5, <1>6, <1>7 DEF DeskTypes

(* Every step of the desk keeps its invariant.                             *)
LEMMA StayStep == StayInv /\ [S!Next]_SVars => StayInv'
<1> SUFFICES ASSUME StayInv, [S!Next]_SVars PROVE StayInv'
  OBVIOUS
<1> QED
  BY StayTypesStep, StayRequestStep, StaySeenStep DEF StayInv, DeskKept

-----------------------------------------------------------------------------
(* The rooms (RoomsDesk).                                                  *)

RoomNumbers == [R!Everyone -> Numbers \cup {None}]
RoomStatuses == [R!Everyone -> R!Statuses]
RoomLists == [at : Nat, number : RoomNumbers, status : RoomStatuses]
RoomLoads == [n : Nat, saver : BOOLEAN, answer : {None} \cup RoomLists]
RoomReads == [number : Numbers \cup {None}, status : R!Statuses]
RoomCalls ==
  [n : R!Click, op : {"create", "edit", "maintain"}, room : R!Everyone,
   number : Numbers \cup {None}, left : {0, 1}, answer : {None, "ok", "refused"},
   read : {None} \cup RoomReads]

RoomTypes ==
  /\ roomRows \in RoomLists /\ error \in BOOLEAN /\ asked \in Nat /\ loads \subseteq RoomLoads
  /\ dialog \in R!Everyone \cup {None} /\ roomForm \in Numbers \cup {None}
  /\ roomSaving \in BOOLEAN /\ roomCalls \subseteq RoomCalls
  /\ number \in RoomNumbers /\ roomStatus \in RoomStatuses /\ clock \in Nat
  /\ roomMade \in [R!Click -> Nat] /\ roomTold \subseteq 1 .. roomLast
  /\ roomLast \in 0 .. MaxCalls /\ roomConfirmed \in Nat /\ roomTyped \in Nat

(* One form at a time is saved, and then one list is read for it.          *)
RoomOne ==
  /\ \A l \in loads : l.n <= asked
  /\ \A l, m \in loads : l.n = m.n => l = m
  /\ \A c \in roomCalls : c.n <= roomLast
  /\ \A c, d \in roomCalls : c.n = d.n => c = d
  /\ \A c, d \in roomCalls : c.op # "maintain" /\ d.op # "maintain" => c = d
  /\ \A l, m \in loads : l.saver /\ m.saver => l = m
  /\ \A c \in roomCalls, l \in loads : c.op = "maintain" \/ ~l.saver
  /\ (\E c \in roomCalls : c.op # "maintain") \/ (\E l \in loads : l.saver) => roomSaving
  /\ roomSaving => (\E c \in roomCalls : c.op # "maintain") \/ (\E l \in loads : l.saver)
  /\ R!ActsAsShown

RoomDone ==
  /\ \A c \in roomCalls : c.n \notin roomTold /\ (c.answer = "ok" => roomMade[c.n] > 0)
  /\ \A n \in roomTold : roomMade[n] > 0
  /\ \A n \in R!Click : roomMade[n] <= clock

(* The list asked for last is the one that counts.                         *)
RoomFresh == \A n \in roomTold :
  /\ \A l \in loads : l.n = asked /\ l.answer # None => l.answer.at >= roomMade[n]
  /\ ~error /\ (\A l \in loads : l.n # asked) => roomRows.at >= roomMade[n]

RoomInv == RoomTypes /\ RoomOne /\ RoomDone /\ RoomFresh

(* The rooms begin well.                                                   *)
LEMMA RoomInit == R!Init => RoomInv
<1> SUFFICES ASSUME R!Init PROVE RoomInv
  OBVIOUS
<1>1. /\ number \in RoomNumbers /\ roomStatus \in RoomStatuses /\ clock = 0
      /\ roomRows = [at |-> 0, number |-> number, status |-> roomStatus]
  BY RoomAssumption
  DEF R!Init, RoomNumbers, RoomStatuses, R!Everyone, R!Statuses, R!FirstAssumption
<1>2. /\ error = FALSE /\ asked = 0 /\ loads = {} /\ dialog = None /\ roomForm = None
      /\ roomSaving = FALSE /\ roomCalls = {} /\ roomMade = [n \in R!Click |-> 0]
      /\ roomTold = {} /\ roomConfirmed = 0 /\ roomTyped = 0 /\ roomLast = 0
  BY DEF R!Init
<1>3. error \in BOOLEAN /\ roomSaving \in BOOLEAN /\ ~roomSaving
  BY <1>2
<1>4. RoomTypes
  BY <1>1, <1>2, <1>3, RoomAssumption DEF RoomTypes, RoomLists, R!BoundAssumption
<1>5. RoomOne
  BY <1>2, <1>3 DEF RoomOne, R!ActsAsShown
<1>6. RoomDone /\ RoomFresh
  BY <1>1, <1>2 DEF RoomDone, RoomFresh
<1> QED
  BY <1>4, <1>5, <1>6 DEF RoomInv

(* Their invariant implies what they promise.                              *)
LEMMA RoomHolds == RoomInv => R!TypeOK /\ R!ToldIsDone /\ R!ActsAsShown
<1> SUFFICES ASSUME RoomInv PROVE R!TypeOK /\ R!ToldIsDone /\ R!ActsAsShown
  OBVIOUS
<1>1. roomSaving <=> (\E c \in roomCalls : c.op # "maintain") \/ (\E l \in loads : l.saver)
  BY DEF RoomInv, RoomOne
<1>2. R!TypeOK
  BY <1>1 DEF RoomInv, RoomTypes, RoomStatuses, R!TypeOK
<1>3. R!ToldIsDone
  BY DEF RoomInv, RoomDone, RoomFresh, R!ToldIsDone
<1> QED
  BY <1>2, <1>3 DEF RoomInv, RoomOne

(* What the invariant says of the calls on their way.                      *)
LEMMA RoomFacts ==
  ASSUME RoomInv
  PROVE  /\ MaxCalls \in Nat /\ asked \in Nat /\ clock \in Nat /\ roomLast \in 0 .. MaxCalls
         /\ roomMade \in [R!Click -> Nat]
         /\ \A l \in loads : /\ l \in RoomLoads /\ l.n \in Nat /\ l.n <= asked
                             /\ l.saver \in BOOLEAN
                             /\ l.answer # None => l.answer \in RoomLists /\ l.answer.at \in Nat
         /\ \A c \in roomCalls : /\ c \in RoomCalls /\ c.n \in R!Click /\ c.n \in 1 .. roomLast
                                 /\ c.room \in R!Everyone /\ c.answer \in {None, "ok", "refused"}
         /\ \A n \in roomTold : n \in R!Click /\ n \in 1 .. roomLast /\ roomMade[n] \in Nat
<1>1. /\ MaxCalls \in Nat /\ roomLast \in 0 .. MaxCalls
  BY RoomAssumption DEF RoomInv, RoomTypes, R!BoundAssumption
<1>2. ASSUME NEW l \in loads
      PROVE  /\ l \in RoomLoads /\ l.n \in Nat /\ l.n <= asked /\ l.saver \in BOOLEAN
             /\ l.answer # None => l.answer \in RoomLists /\ l.answer.at \in Nat
  BY DEF RoomInv, RoomTypes, RoomOne, RoomLoads, RoomLists
<1>3. ASSUME NEW c \in roomCalls
      PROVE  /\ c \in RoomCalls /\ c.n \in R!Click /\ c.n \in 1 .. roomLast
             /\ c.room \in R!Everyone /\ c.answer \in {None, "ok", "refused"}
  <2>1. c \in RoomCalls /\ c.n <= roomLast
    BY DEF RoomInv, RoomTypes, RoomOne
  <2>2. c.n \in R!Click /\ c.room \in R!Everyone /\ c.answer \in {None, "ok", "refused"}
    BY <2>1 DEF RoomCalls
  <2>3. c.n \in 1 .. roomLast
    BY <1>1, <2>1, <2>2 DEF R!Click
  <2> QED
    BY <2>1, <2>2, <2>3
<1>4. \A n \in roomTold : n \in R!Click /\ n \in 1 .. roomLast /\ roomMade[n] \in Nat
  <2>1. \A n \in roomTold : n \in 1 .. roomLast
    BY DEF RoomInv, RoomTypes
  <2>2. \A n \in roomTold : n \in R!Click
    BY <1>1, <2>1 DEF R!Click
  <2> QED
    BY <2>1, <2>2 DEF RoomInv, RoomTypes
<1> QED
  BY <1>1, <1>2, <1>3, <1>4 DEF RoomInv, RoomTypes

(* A request that goes on is still the one that was sent.                  *)
RoomSame(d, c) == d.n = c.n /\ d.op = c.op /\ d.room = c.room

(* What a step of the server does.                                         *)
LEMMA RoomServes ==
  ASSUME RoomInv, NEW c \in roomCalls, R!Serve(c)
  PROVE  \E d \in RoomCalls :
           /\ RoomSame(d, c) /\ roomCalls' = (roomCalls \ {c}) \cup {d}
           /\ number' \in RoomNumbers /\ roomStatus' \in RoomStatuses
           /\ UNCHANGED <<roomRows, error, asked, loads, dialog, roomForm, roomBaseline,
                          roomSaving, roomTold, roomConfirmed, roomTyped, roomLast>>
           /\ \/ /\ roomMade' = [roomMade EXCEPT ![c.n] = clock + 1] /\ clock' = clock + 1
              \/ UNCHANGED <<roomMade, clock>> /\ d.answer # "ok"
<1>1. /\ c \in RoomCalls /\ c.room \in R!Everyone /\ c.number \in Numbers \cup {None}
      /\ c.read # None => c.read \in RoomReads
      /\ number \in RoomNumbers /\ roomStatus \in RoomStatuses
  BY RoomFacts DEF RoomInv, RoomTypes, RoomCalls
<1>2. UNCHANGED <<roomRows, error, asked, loads, dialog, roomForm, roomBaseline,
                  roomSaving, roomTold, roomConfirmed, roomTyped, roomLast>>
  BY DEF R!Serve, R!list, R!box, R!counts
<1>3. New \in R!Everyone /\ None \notin {"ok", "refused"}
  BY RoomAssumption DEF R!Everyone, R!FirstAssumption
<1>4. CASE roomCalls' = (roomCalls \ {c}) \cup {[c EXCEPT !.answer = "refused"]}
           /\ UNCHANGED <<number, roomStatus, clock, roomMade>>
  <2> DEFINE d == [c EXCEPT !.answer = "refused"]
  <2>1. d \in RoomCalls /\ RoomSame(d, c) /\ d.answer # "ok"
    BY <1>1 DEF RoomCalls, RoomSame
  <2> QED
    BY <1>1, <1>2, <1>4, <2>1
<1>5. CASE R!Create(c)
  <2>1. CASE R!Free(c) /\ number[New] = None
    <3> DEFINE d == [c EXCEPT !.answer = "ok"]
    <3>1. /\ number' = [number EXCEPT ![New] = c.number] /\ UNCHANGED roomStatus
          /\ roomMade' = [roomMade EXCEPT ![c.n] = clock + 1] /\ clock' = clock + 1
          /\ roomCalls' = (roomCalls \ {c}) \cup {d}
      BY <1>5, <2>1 DEF R!Create, R!Written, R!With
    <3>2. d \in RoomCalls /\ RoomSame(d, c)
      BY <1>1 DEF RoomCalls, RoomSame
    <3>3. number' \in RoomNumbers
      BY <1>1, <1>3, <3>1 DEF RoomNumbers
    <3> QED
      BY <1>1, <1>2, <3>1, <3>2, <3>3
  <2>2. CASE ~(R!Free(c) /\ number[New] = None)
    BY <1>4, <1>5, <2>2 DEF R!Create, R!With, R!server
  <2> QED
    BY <2>1, <2>2
<1>6. CASE R!Look(c)
  <2> DEFINE d == [c EXCEPT !.read = [number |-> number[c.room],
                                      status |-> roomStatus[c.room]]]
  <2>1. /\ c.answer = None /\ roomCalls' = (roomCalls \ {c}) \cup {d}
        /\ UNCHANGED <<number, roomStatus, clock, roomMade>>
    BY <1>6 DEF R!Look, R!With, R!server
  <2>2. [number |-> number[c.room], status |-> roomStatus[c.room]] \in RoomReads
    BY <1>1 DEF RoomReads, RoomNumbers, RoomStatuses
  <2>3. d \in RoomCalls /\ RoomSame(d, c) /\ d.answer # "ok"
    BY <1>1, <1>3, <2>1, <2>2 DEF RoomCalls, RoomSame
  <2> QED
    BY <1>1, <1>2, <2>1, <2>3
<1>7. CASE R!Write(c)
  <2> DEFINE to == IF c.op = "edit" THEN c.number ELSE c.read.number
             st == IF c.op = "maintain" THEN "maintenance" ELSE c.read.status
             d == [c EXCEPT !.answer = "ok"]
  <2>1. CASE \A r \in R!Everyone \ {c.room} : number[r] # to
    <3>1. /\ number' = [number EXCEPT ![c.room] = to]
          /\ roomStatus' = [roomStatus EXCEPT ![c.room] = st]
          /\ roomMade' = [roomMade EXCEPT ![c.n] = clock + 1] /\ clock' = clock + 1
          /\ roomCalls' = (roomCalls \ {c}) \cup {d}
      BY <1>7, <2>1 DEF R!Write, R!Written, R!With
    <3>2. d \in RoomCalls /\ RoomSame(d, c)
      BY <1>1 DEF RoomCalls, RoomSame
    <3>3. to \in Numbers \cup {None} /\ st \in R!Statuses
      BY <1>1, <1>7 DEF R!Write, RoomReads, R!Statuses
    <3> HIDE DEF to, st, d
    <3>4. number' \in RoomNumbers /\ roomStatus' \in RoomStatuses
      BY <1>1, <3>1, <3>3 DEF RoomNumbers, RoomStatuses
    <3> QED
      BY <1>2, <3>1, <3>2, <3>4
  <2>2. CASE ~\A r \in R!Everyone \ {c.room} : number[r] # to
    BY <1>4, <1>7, <2>2 DEF R!Write, R!With, R!server
  <2> QED
    BY <2>1, <2>2
<1> QED
  BY <1>5, <1>6, <1>7 DEF R!Serve

(* A request that is served or sent again.                                 *)
LEMMA RoomReplaced ==
  ASSUME RoomInv, NEW c \in roomCalls, NEW d \in RoomCalls, RoomSame(d, c),
         roomCalls' = (roomCalls \ {c}) \cup {d},
         UNCHANGED <<roomRows, error, asked, loads, dialog, roomSaving, roomTold, roomLast>>,
         \/ roomMade' = [roomMade EXCEPT ![c.n] = clock + 1] /\ clock' = clock + 1
         \/ UNCHANGED <<roomMade, clock>> /\ d.answer # "ok"
  PROVE  RoomOne' /\ RoomDone' /\ RoomFresh' /\ roomMade' \in [R!Click -> Nat] /\ clock' \in Nat
<1>1. \A k \in roomCalls' : k = d \/ (k \in roomCalls /\ k # c)
  OBVIOUS
<1>2. RoomOne'
  <2>1. /\ \A k \in roomCalls' : k.n <= roomLast'
        /\ \A k, q \in roomCalls' : k.n = q.n => k = q
        /\ \A k, q \in roomCalls' : k.op # "maintain" /\ q.op # "maintain" => k = q
        /\ \A k \in roomCalls', l \in loads' : k.op = "maintain" \/ ~l.saver
        /\ R!ActsAsShown'
    BY <1>1 DEF RoomSame, RoomInv, RoomOne, R!ActsAsShown
  <2>2. /\ \A l \in loads' : l.n <= asked'
        /\ \A l, m \in loads' : l.n = m.n => l = m
        /\ \A l, m \in loads' : l.saver /\ m.saver => l = m
    BY DEF RoomInv, RoomOne
  <2>3. (\E k \in roomCalls' : k.op # "maintain") <=> (\E k \in roomCalls : k.op # "maintain")
    BY <1>1 DEF RoomSame
  <2>4. (\E k \in roomCalls' : k.op # "maintain") \/ (\E l \in loads' : l.saver) => roomSaving'
    BY <2>3 DEF RoomInv, RoomOne
  <2>5. roomSaving' => (\E k \in roomCalls' : k.op # "maintain") \/ (\E l \in loads' : l.saver)
    BY <2>3 DEF RoomInv, RoomOne
  <2> QED
    BY <2>1, <2>2, <2>4, <2>5 DEF RoomOne
<1>3. /\ c.n \in R!Click /\ clock \in Nat /\ roomMade \in [R!Click -> Nat]
      /\ c.n \notin roomTold /\ d.n = c.n
      /\ \A n \in R!Click : roomMade[n] \in Nat /\ roomMade[n] <= clock
      /\ \A k \in roomCalls : k.n \in R!Click
      /\ \A n \in roomTold : n \in R!Click
  BY RoomFacts DEF RoomInv, RoomDone, RoomSame
<1>4. /\ roomMade' \in [R!Click -> Nat] /\ clock' \in Nat
      /\ \A n \in R!Click : n # c.n => roomMade'[n] = roomMade[n]
      /\ roomMade'[c.n] = clock' \/ roomMade'[c.n] = roomMade[c.n]
      /\ clock' = clock \/ clock' = clock + 1
      /\ d.answer = "ok" => roomMade'[c.n] > 0
  BY <1>3
<1>5. RoomDone'
  <2>1. \A n \in R!Click : roomMade'[n] <= clock'
    <3> TAKE n \in R!Click
    <3>1. n # c.n => roomMade'[n] = roomMade[n]
      BY <1>4
    <3>2. roomMade[n] \in Nat /\ roomMade[n] <= clock
      BY <1>3
    <3> QED
      BY <1>3, <1>4, <3>1, <3>2
  <2>2. \A k \in roomCalls' : k.n \notin roomTold' /\ (k.answer = "ok" => roomMade'[k.n] > 0)
    <3> TAKE k \in roomCalls'
    <3>1. CASE k = d
      BY <1>3, <1>4, <3>1
    <3>2. CASE k \in roomCalls /\ k # c
      <4>1. k.n # c.n /\ k.n \in R!Click
        BY <1>3, <3>2 DEF RoomInv, RoomOne
      <4> QED
        BY <1>4, <3>2, <4>1 DEF RoomInv, RoomDone
    <3> QED
      BY <1>1, <3>1, <3>2
  <2>3. \A n \in roomTold' : roomMade'[n] > 0
    BY <1>3, <1>4 DEF RoomInv, RoomDone
  <2> QED
    BY <2>1, <2>2, <2>3 DEF RoomDone
<1>6. \A n \in roomTold : roomMade'[n] = roomMade[n]
  BY <1>3, <1>4
<1>7. RoomFresh'
  BY <1>6 DEF RoomInv, RoomFresh
<1> QED
  BY <1>2, <1>4, <1>5, <1>7

(* A request that is over, and a click that is told as a failure.          *)
LEMMA RoomGivenUp ==
  ASSUME RoomInv, NEW c \in roomCalls, roomCalls' = roomCalls \ {c},
         roomSaving' = (roomSaving /\ c.op = "maintain"),
         UNCHANGED <<roomRows, error, asked, loads, dialog, roomTold, roomLast, roomMade, clock>>
  PROVE  RoomOne' /\ RoomDone' /\ RoomFresh'
<1>1. RoomOne'
  <2>1. /\ \A l \in loads' : l.n <= asked'
        /\ \A l, m \in loads' : l.n = m.n => l = m
        /\ \A k \in roomCalls' : k.n <= roomLast'
        /\ \A k, q \in roomCalls' : k.n = q.n => k = q
        /\ \A k, q \in roomCalls' : k.op # "maintain" /\ q.op # "maintain" => k = q
        /\ \A l, m \in loads' : l.saver /\ m.saver => l = m
        /\ \A k \in roomCalls', l \in loads' : k.op = "maintain" \/ ~l.saver
        /\ R!ActsAsShown'
    BY DEF RoomInv, RoomOne, R!ActsAsShown
  <2>2. (\E k \in roomCalls' : k.op # "maintain") \/ (\E l \in loads' : l.saver) => roomSaving'
    BY DEF RoomInv, RoomOne
  <2>3. roomSaving' => (\E k \in roomCalls' : k.op # "maintain") \/ (\E l \in loads' : l.saver)
    BY DEF RoomInv, RoomOne
  <2> QED
    BY <2>1, <2>2, <2>3 DEF RoomOne
<1> QED
  BY <1>1 DEF RoomInv, RoomDone, RoomFresh

(* A click.                                                                *)
LEMMA RoomSent ==
  ASSUME RoomInv, NEW op \in {"create", "edit", "maintain"}, NEW r \in R!Everyone,
         NEW d \in Numbers \cup {None}, R!Send(op, r, d),
         \/ op = "maintain" /\ UNCHANGED roomSaving
         \/ op # "maintain" /\ roomSaving = FALSE /\ roomSaving' = TRUE /\ dialog = r
  PROVE  RoomOne' /\ RoomDone' /\ RoomFresh' /\ roomCalls' \subseteq RoomCalls
         /\ roomLast' \in 0 .. MaxCalls
<1> DEFINE c == [n |-> roomLast + 1, op |-> op, room |-> r, number |-> d,
                 left |-> 1, answer |-> None, read |-> None]
<1>1. /\ roomCalls' = roomCalls \cup {c} /\ roomLast' = roomLast + 1 /\ roomLast < MaxCalls
      /\ UNCHANGED <<roomRows, error, asked, loads, dialog, roomTold, roomMade, clock>>
  BY DEF R!Send, R!list, R!server
<1>2. roomLast \in 0 .. MaxCalls /\ MaxCalls \in Nat /\ \A k \in roomCalls : k.n \in 1 .. roomLast
  BY RoomFacts
<1>3. c \in RoomCalls /\ c.n = roomLast + 1 /\ c.op = op /\ c.room = r /\ c.answer = None
  BY <1>1, <1>2 DEF RoomCalls, R!Click
<1> HIDE DEF c
<1>4. c.n \notin roomTold /\ roomLast' \in 0 .. MaxCalls /\ None # "ok"
  BY <1>1, <1>2, <1>3, RoomAssumption DEF RoomInv, RoomTypes, R!FirstAssumption
<1>5. op # "maintain" => /\ \A k \in roomCalls : k.op = "maintain"
                         /\ \A l \in loads : ~l.saver
  BY DEF RoomInv, RoomOne
<1>6. \A k \in roomCalls' : k = c \/ (k \in roomCalls /\ k.n # c.n)
  BY <1>1, <1>2, <1>3
<1>7. RoomOne'
  <2>1. /\ \A l \in loads' : l.n <= asked'
        /\ \A l, m \in loads' : l.n = m.n => l = m
        /\ \A l, m \in loads' : l.saver /\ m.saver => l = m
    BY <1>1 DEF RoomInv, RoomOne
  <2>2. /\ \A k \in roomCalls' : k.n <= roomLast'
        /\ \A k, q \in roomCalls' : k.n = q.n => k = q
    BY <1>1, <1>2, <1>3, <1>6 DEF RoomInv, RoomOne
  <2>3. /\ \A k, q \in roomCalls' : k.op # "maintain" /\ q.op # "maintain" => k = q
        /\ \A k \in roomCalls', l \in loads' : k.op = "maintain" \/ ~l.saver
        /\ R!ActsAsShown'
    BY <1>1, <1>3, <1>5, <1>6 DEF RoomInv, RoomOne, R!ActsAsShown
  <2>4. CASE op = "maintain" /\ UNCHANGED roomSaving
    <3>1. (\E k \in roomCalls' : k.op # "maintain") <=> (\E k \in roomCalls : k.op # "maintain")
      BY <1>1, <1>3, <2>4
    <3>2. (\E k \in roomCalls' : k.op # "maintain") \/ (\E l \in loads' : l.saver) => roomSaving'
      BY <1>1, <2>4, <3>1 DEF RoomInv, RoomOne
    <3>3. roomSaving' => (\E k \in roomCalls' : k.op # "maintain") \/ (\E l \in loads' : l.saver)
      BY <1>1, <2>4, <3>1 DEF RoomInv, RoomOne
    <3> QED
      BY <2>1, <2>2, <2>3, <3>2, <3>3 DEF RoomOne
  <2>5. CASE op # "maintain" /\ roomSaving' = TRUE
    <3>1. \E k \in roomCalls' : k.op # "maintain"
      BY <1>1, <1>3, <2>5
    <3> QED
      BY <2>1, <2>2, <2>3, <2>5, <3>1 DEF RoomOne
  <2> QED
    BY <2>4, <2>5
<1>8. RoomDone' /\ RoomFresh'
  BY <1>1, <1>3, <1>4, <1>6 DEF RoomInv, RoomDone, RoomFresh
<1> QED
  BY <1>1, <1>3, <1>4, <1>7, <1>8 DEF RoomInv, RoomTypes

(* A list that is asked for, after a success that closes the dialog or by  *)
(* hand.                                                                   *)
LEMMA RoomAsked ==
  ASSUME RoomInv, NEW saver \in BOOLEAN, R!Ask(saver),
         UNCHANGED <<roomRows, roomLast, roomMade, clock, roomSaving>>,
         \/ ~saver /\ UNCHANGED <<roomCalls, roomTold, dialog>>
         \/ \E c \in roomCalls :
              /\ roomCalls' = roomCalls \ {c} /\ roomTold' = roomTold \cup {c.n}
              /\ c.answer = "ok" /\ saver = (c.op # "maintain")
              /\ c.op = "maintain" => dialog' = dialog
  PROVE  /\ RoomOne' /\ RoomDone' /\ RoomFresh' /\ error' \in BOOLEAN /\ asked' \in Nat
         /\ loads' \subseteq RoomLoads
<1> DEFINE m == [n |-> asked + 1, saver |-> saver, answer |-> None]
<1>1. asked' = asked + 1 /\ error' = FALSE /\ loads' = loads \cup {m}
  BY DEF R!Ask
<1>2. /\ m \in RoomLoads /\ m.n = asked' /\ m.saver = saver /\ m.answer = None
      /\ asked' \in Nat
      /\ \A l \in loads : l.n \in Nat /\ l.n <= asked /\ l.n <= asked' /\ l.n # asked'
  BY <1>1, RoomFacts DEF RoomLoads
<1> HIDE DEF m
<1>3. \A l \in loads' : l = m \/ l \in loads
  BY <1>1
<1>4. error' \in BOOLEAN /\ loads' \subseteq RoomLoads
  BY <1>1, <1>2 DEF RoomInv, RoomTypes
<1>5. /\ \A l \in loads' : l.n <= asked'
      /\ \A k, l \in loads' : k.n = l.n => k = l
  BY <1>2, <1>3 DEF RoomInv, RoomOne
<1>6. m \in loads' /\ (\E l \in loads' : l.saver) = (saver \/ \E l \in loads : l.saver)
  <2>1. m \in loads'
    BY <1>1
  <2>2. ASSUME saver PROVE \E l \in loads' : l.saver
    BY <1>2, <2>1, <2>2
  <2>3. ASSUME NEW l \in loads, l.saver PROVE \E k \in loads' : k.saver
    BY <1>1, <2>3
  <2>4. ASSUME NEW l \in loads', l.saver PROVE saver \/ \E k \in loads : k.saver
    BY <1>2, <1>3, <2>4
  <2> QED
    BY <2>1, <2>2, <2>3, <2>4
<1>7. CASE ~saver /\ UNCHANGED <<roomCalls, roomTold, dialog>>
  <2>1. /\ \A c \in roomCalls' : c.n <= roomLast'
        /\ \A c, d \in roomCalls' : c.n = d.n => c = d
        /\ \A c, d \in roomCalls' : c.op # "maintain" /\ d.op # "maintain" => c = d
        /\ R!ActsAsShown'
    BY <1>7 DEF RoomInv, RoomOne, R!ActsAsShown
  <2>2. /\ \A k, l \in loads' : k.saver /\ l.saver => k = l
        /\ \A c \in roomCalls', l \in loads' : c.op = "maintain" \/ ~l.saver
    BY <1>2, <1>3, <1>7 DEF RoomInv, RoomOne
  <2>3. (\E l \in loads' : l.saver) <=> (\E l \in loads : l.saver)
    BY <1>6, <1>7
  <2>4. /\ (\E c \in roomCalls' : c.op # "maintain") \/ (\E l \in loads' : l.saver) => roomSaving'
    BY <1>7, <2>3 DEF RoomInv, RoomOne
  <2>5. roomSaving' => (\E c \in roomCalls' : c.op # "maintain") \/ (\E l \in loads' : l.saver)
    BY <1>7, <2>3 DEF RoomInv, RoomOne
  <2>6. RoomOne'
    BY <1>5, <2>1, <2>2, <2>4, <2>5 DEF RoomOne
  <2>7. RoomDone'
    BY <1>7 DEF RoomInv, RoomDone
  <2>8. RoomFresh'
    BY <1>2, <1>3, <1>6 DEF RoomFresh
  <2> QED
    BY <1>2, <1>4, <2>6, <2>7, <2>8
<1>8. ASSUME NEW c \in roomCalls, roomCalls' = roomCalls \ {c}, roomTold' = roomTold \cup {c.n},
             c.answer = "ok", saver = (c.op # "maintain"),
             c.op = "maintain" => dialog' = dialog
      PROVE  RoomOne' /\ RoomDone' /\ RoomFresh'
  <2>1. /\ \A k \in roomCalls' : k.n <= roomLast'
        /\ \A k, d \in roomCalls' : k.n = d.n => k = d
        /\ \A k, d \in roomCalls' : k.op # "maintain" /\ d.op # "maintain" => k = d
        /\ \A k \in roomCalls' : k \in roomCalls /\ k.n # c.n
        /\ saver => \A k \in roomCalls' : k.op = "maintain"
        /\ saver => \A l \in loads : ~l.saver
    BY <1>8 DEF RoomInv, RoomOne
  <2>2. /\ \A k, l \in loads' : k.saver /\ l.saver => k = l
        /\ \A k \in roomCalls', l \in loads' : k.op = "maintain" \/ ~l.saver
    BY <1>2, <1>3, <1>8, <2>1 DEF RoomInv, RoomOne
  <2>3. R!ActsAsShown'
    BY <1>8, <2>1 DEF RoomInv, RoomOne, R!ActsAsShown
  <2>4. (\E k \in roomCalls' : k.op # "maintain") \/ (\E l \in loads' : l.saver) => roomSaving'
    <3>1. c.op # "maintain" => roomSaving'
      BY <1>8 DEF RoomInv, RoomOne
    <3>2. (\E l \in loads : l.saver) => roomSaving'
      BY DEF RoomInv, RoomOne
    <3>3. (\E k \in roomCalls' : k.op # "maintain") => roomSaving'
      BY <2>1 DEF RoomInv, RoomOne
    <3>4. (\E l \in loads' : l.saver) => roomSaving'
      BY <1>6, <1>8, <3>1, <3>2
    <3> QED
      BY <3>3, <3>4
  <2>5. roomSaving' => (\E k \in roomCalls' : k.op # "maintain") \/ (\E l \in loads' : l.saver)
    <3> SUFFICES ASSUME roomSaving', ~\E l \in loads' : l.saver
                 PROVE  \E k \in roomCalls' : k.op # "maintain"
      OBVIOUS
    <3>1. ~saver /\ ~\E l \in loads : l.saver
      BY <1>6
    <3>2. \E k \in roomCalls : k.op # "maintain"
      BY <3>1 DEF RoomInv, RoomOne
    <3> QED
      BY <1>8, <3>1, <3>2
  <2>6. RoomOne'
    BY <1>5, <2>1, <2>2, <2>3, <2>4, <2>5 DEF RoomOne
  <2>7. RoomDone'
    BY <1>8, <2>1 DEF RoomInv, RoomDone
  <2>8. RoomFresh'
    BY <1>2, <1>3, <1>6 DEF RoomFresh
  <2> QED
    BY <2>6, <2>7, <2>8
<1> QED
  BY <1>2, <1>4, <1>7, <1>8

(* A list that comes, or does not.                                         *)
LEMMA RoomRead ==
  ASSUME RoomInv, NEW l \in loads, R!ServeLoad(l) \/ R!Show(l) \/ R!LoadFails(l)
  PROVE  /\ RoomOne' /\ RoomDone' /\ RoomFresh' /\ error' \in BOOLEAN
         /\ loads' \subseteq RoomLoads /\ roomRows' \in RoomLists /\ roomSaving' \in BOOLEAN
<1>1. UNCHANGED <<asked, dialog, roomCalls, roomMade, clock, roomTold, roomLast>>
  BY DEF R!ServeLoad, R!Show, R!LoadFails, R!box, R!server, R!counts
<1>2. /\ l \in RoomLoads /\ l.n \in Nat /\ l.saver \in BOOLEAN /\ asked \in Nat
      /\ l.answer # None => l.answer \in RoomLists
      /\ clock \in Nat /\ roomSaving \in BOOLEAN /\ error \in BOOLEAN /\ roomRows \in RoomLists
      /\ number \in RoomNumbers /\ roomStatus \in RoomStatuses /\ loads \subseteq RoomLoads
  BY RoomFacts DEF RoomInv, RoomTypes
<1>3. /\ \A c \in roomCalls' : c.n <= roomLast'
      /\ \A c, d \in roomCalls' : c.n = d.n => c = d
      /\ \A c, d \in roomCalls' : c.op # "maintain" /\ d.op # "maintain" => c = d
      /\ R!ActsAsShown' /\ RoomDone'
  BY <1>1 DEF RoomInv, RoomOne, RoomDone, R!ActsAsShown
<1>4. ASSUME R!ServeLoad(l) PROVE RoomOne' /\ RoomFresh' /\ loads' \subseteq RoomLoads
                                  /\ UNCHANGED <<roomRows, error, roomSaving>>
  <2> DEFINE a0 == [at |-> clock, number |-> number, status |-> roomStatus]
             m == [l EXCEPT !.answer = a0]
  <2>1. loads' = (loads \ {l}) \cup {m} /\ UNCHANGED <<roomRows, error, roomSaving>>
    BY <1>4 DEF R!ServeLoad, R!box
  <2>2. m \in RoomLoads /\ m.n = l.n /\ m.saver = l.saver /\ m.answer.at = clock
    BY <1>2 DEF RoomLoads, RoomLists
  <2> HIDE DEF a0, m
  <2>3. \A k \in loads' : k = m \/ (k \in loads /\ k # l)
    BY <2>1
  <2>4. (\E k \in loads' : k.saver) <=> (\E k \in loads : k.saver)
    BY <2>1, <2>2
  <2>5. /\ \A k \in loads' : k.n <= asked'
        /\ \A k, q \in loads' : k.n = q.n => k = q
        /\ \A k, q \in loads' : k.saver /\ q.saver => k = q
        /\ \A c \in roomCalls', k \in loads' : c.op = "maintain" \/ ~k.saver
    BY <1>1, <2>2, <2>3 DEF RoomInv, RoomOne
  <2>6. (\E c \in roomCalls' : c.op # "maintain") \/ (\E k \in loads' : k.saver) => roomSaving'
    BY <1>1, <2>1, <2>4 DEF RoomInv, RoomOne
  <2>7. roomSaving' => (\E c \in roomCalls' : c.op # "maintain") \/ (\E k \in loads' : k.saver)
    BY <1>1, <2>1, <2>4 DEF RoomInv, RoomOne
  <2>8. RoomFresh'
    <3> SUFFICES ASSUME NEW n \in roomTold
                 PROVE  /\ \A k \in loads' : k.n = asked /\ k.answer # None =>
                             k.answer.at >= roomMade[n]
                        /\ ~error /\ (\A k \in loads' : k.n # asked) =>
                             roomRows.at >= roomMade[n]
      BY <1>1, <2>1 DEF RoomFresh
    <3>1. clock >= roomMade[n]
      BY RoomFacts DEF RoomInv, RoomDone
    <3>2. (\A k \in loads' : k.n # asked) => (\A k \in loads : k.n # asked)
      BY <2>1, <2>2
    <3> QED
      BY <2>2, <2>3, <3>1, <3>2 DEF RoomInv, RoomFresh
  <2>9. loads' \subseteq RoomLoads
    BY <1>2, <2>2, <2>3
  <2> QED
    BY <1>3, <2>1, <2>5, <2>6, <2>7, <2>8, <2>9 DEF RoomOne
<1>5. ASSUME R!Show(l) \/ R!LoadFails(l)
      PROVE  /\ RoomOne' /\ RoomFresh' /\ error' \in BOOLEAN /\ roomRows' \in RoomLists
             /\ loads' \subseteq RoomLoads /\ roomSaving' \in BOOLEAN
  <2>1. loads' = loads \ {l} /\ roomSaving' = (roomSaving /\ ~l.saver)
    BY <1>5 DEF R!Show, R!LoadFails
  <2>2. roomSaving' \in BOOLEAN /\ (roomSaving' <=> roomSaving /\ ~l.saver)
    BY <2>1
  <2>3. /\ \A k \in loads' : k.n <= asked'
        /\ \A k, q \in loads' : k.n = q.n => k = q
        /\ \A k, q \in loads' : k.saver /\ q.saver => k = q
        /\ \A c \in roomCalls', k \in loads' : c.op = "maintain" \/ ~k.saver
    BY <1>1, <2>1 DEF RoomInv, RoomOne
  <2>4. (\E c \in roomCalls' : c.op # "maintain") \/ (\E k \in loads' : k.saver) => roomSaving'
    BY <1>1, <2>1, <2>2 DEF RoomInv, RoomOne
  <2>5. roomSaving' => (\E c \in roomCalls' : c.op # "maintain") \/ (\E k \in loads' : k.saver)
    BY <1>1, <2>1, <2>2 DEF RoomInv, RoomOne
  <2>6. RoomOne'
    BY <1>3, <2>3, <2>4, <2>5 DEF RoomOne
  <2>7. \/ l.n = asked /\ l.answer # None /\ roomRows' = l.answer /\ error' = FALSE
        \/ l.n # asked /\ roomRows' = roomRows /\ error' = error
        \/ l.n # asked /\ roomRows' = roomRows /\ error' \in BOOLEAN /\ error' = (error \/ FALSE)
        \/ l.n = asked /\ roomRows' = roomRows /\ error' = TRUE
    <3>1. CASE R!Show(l)
      BY <3>1 DEF R!Show, R!Newest
    <3>2. CASE R!LoadFails(l)
      <4>1. roomRows' = roomRows /\ error' = (error \/ l.n = asked)
        BY <3>2 DEF R!LoadFails, R!Newest
      <4>2. CASE l.n = asked
        BY <4>1, <4>2
      <4>3. CASE l.n # asked
        BY <4>1, <4>3
      <4> QED
        BY <4>2, <4>3
    <3> QED
      BY <1>5, <3>1, <3>2
  <2>8. RoomFresh'
    <3> SUFFICES ASSUME NEW n \in roomTold
                 PROVE  /\ \A k \in loads' : k.n = asked /\ k.answer # None =>
                             k.answer.at >= roomMade[n]
                        /\ ~error' /\ (\A k \in loads' : k.n # asked) =>
                             roomRows'.at >= roomMade[n]
      BY <1>1 DEF RoomFresh
    <3>1. \A k \in loads : k.n = asked /\ k.answer # None => k.answer.at >= roomMade[n]
      BY DEF RoomInv, RoomFresh
    <3>2. ~error /\ (\A k \in loads : k.n # asked) => roomRows.at >= roomMade[n]
      BY DEF RoomInv, RoomFresh
    <3>3. CASE l.n = asked
      BY <2>1, <2>7, <3>1, <3>3
    <3>4. CASE l.n # asked
      <4>1. (\A k \in loads' : k.n # asked) => (\A k \in loads : k.n # asked)
        BY <2>1, <3>4
      <4>2. roomRows' = roomRows /\ (~error' => ~error)
        BY <2>7, <3>4
      <4> QED
        BY <2>1, <3>1, <3>2, <4>1, <4>2
    <3> QED
      BY <3>3, <3>4
  <2>9. error' \in BOOLEAN /\ roomRows' \in RoomLists
    BY <1>2, <2>7
  <2> QED
    BY <1>2, <2>1, <2>2, <2>6, <2>8, <2>9
<1> QED
  BY <1>2, <1>3, <1>4, <1>5

(* A step that leaves the list, its loads and the calls alone.             *)
LEMMA RoomStill ==
  ASSUME RoomInv, dialog' = dialog \/ ~roomSaving \/ (roomCalls = {} /\ loads = {}),
         UNCHANGED <<roomRows, error, asked, loads, roomSaving, roomCalls, roomTold, roomMade,
                     roomLast>>,
         clock' = clock \/ clock' = clock + 1
  PROVE  RoomOne' /\ RoomDone' /\ RoomFresh' /\ clock' \in Nat
<1>1. \A c \in roomCalls : c.op # "maintain" => roomSaving
  BY DEF RoomInv, RoomOne
<1>2. R!ActsAsShown'
  BY <1>1 DEF RoomInv, RoomOne, R!ActsAsShown
<1>3. RoomOne'
  BY <1>2 DEF RoomInv, RoomOne
<1>4. clock \in Nat /\ \A n \in R!Click : roomMade[n] \in Nat
  BY RoomFacts
<1>5. RoomDone' /\ RoomFresh'
  BY <1>4 DEF RoomInv, RoomDone, RoomFresh
<1> QED
  BY <1>3, <1>4, <1>5

(* Every step of the rooms keeps their invariant.                          *)
LEMMA RoomStep == RoomInv /\ [R!Next]_RVars => RoomInv'
<1> SUFFICES ASSUME RoomInv, [R!Next]_RVars PROVE RoomInv'
  OBVIOUS
<1>0. RoomTypes /\ New \in R!Everyone /\ Rooms \subseteq R!Everyone /\ None \notin Numbers
      /\ None \notin R!Everyone
  BY RoomAssumption DEF RoomInv, R!Everyone, R!FirstAssumption
<1>1. ASSUME NEW c \in roomCalls, R!Serve(c) PROVE RoomInv'
  <2>1. PICK d \in RoomCalls :
           /\ RoomSame(d, c) /\ roomCalls' = (roomCalls \ {c}) \cup {d}
           /\ number' \in RoomNumbers /\ roomStatus' \in RoomStatuses
           /\ UNCHANGED <<roomRows, error, asked, loads, dialog, roomForm, roomBaseline,
                          roomSaving, roomTold, roomConfirmed, roomTyped, roomLast>>
           /\ \/ /\ roomMade' = [roomMade EXCEPT ![c.n] = clock + 1] /\ clock' = clock + 1
              \/ UNCHANGED <<roomMade, clock>> /\ d.answer # "ok"
    BY <1>1, RoomServes
  <2>2. RoomOne' /\ RoomDone' /\ RoomFresh' /\ roomMade' \in [R!Click -> Nat] /\ clock' \in Nat
    BY <2>1, RoomReplaced
  <2>3. roomCalls' \subseteq RoomCalls
    BY <1>0, <2>1 DEF RoomTypes
  <2> QED
    BY <1>0, <2>1, <2>2, <2>3 DEF RoomTypes, RoomInv
<1>2. ASSUME NEW c \in roomCalls, R!Fail(c) PROVE RoomInv'
  <2>1. UNCHANGED <<roomRows, error, asked, loads, dialog, roomForm, roomBaseline, number,
                    roomStatus, clock, roomMade, roomTold, roomConfirmed, roomTyped, roomLast>>
    BY <1>2 DEF R!Fail, R!list, R!server, R!counts
  <2>2. CASE c.left > 0
    <3> DEFINE d == [c EXCEPT !.left = 0, !.answer = None, !.read = None]
    <3>1. c \in RoomCalls /\ c.left = 1
      BY <2>2, RoomFacts DEF RoomCalls
    <3>2. [c EXCEPT !.left = @ - 1, !.answer = None, !.read = None] = d
      BY <3>1
    <3>3. roomCalls' = (roomCalls \ {c}) \cup {d} /\ UNCHANGED roomSaving
      BY <1>2, <2>2, <3>2 DEF R!Fail, R!With
    <3>4. d \in RoomCalls /\ RoomSame(d, c) /\ d.answer # "ok"
      BY <3>1, RoomAssumption DEF RoomCalls, RoomSame, R!FirstAssumption
    <3> HIDE DEF d
    <3>5. RoomOne' /\ RoomDone' /\ RoomFresh'
      BY <2>1, <3>3, <3>4, RoomReplaced
    <3>6. roomCalls' \subseteq RoomCalls
      BY <1>0, <3>3, <3>4 DEF RoomTypes
    <3> QED
      BY <1>0, <2>1, <3>3, <3>5, <3>6 DEF RoomTypes, RoomInv
  <2>3. CASE ~(c.left > 0)
    <3>1. roomCalls' = roomCalls \ {c} /\ roomSaving' = (roomSaving /\ c.op = "maintain")
      BY <1>2, <2>3 DEF R!Fail
    <3>2. RoomOne' /\ RoomDone' /\ RoomFresh'
      BY <2>1, <3>1, RoomGivenUp
    <3>3. roomSaving' \in BOOLEAN /\ roomCalls' \subseteq RoomCalls
      BY <1>0, <3>1 DEF RoomTypes
    <3> QED
      BY <1>0, <2>1, <3>2, <3>3 DEF RoomTypes, RoomInv
  <2> QED
    BY <2>2, <2>3
<1>3. ASSUME NEW c \in roomCalls, R!Succeed(c) PROVE RoomInv'
  <2>1. /\ roomCalls' = roomCalls \ {c} /\ roomTold' = roomTold \cup {c.n} /\ c.answer = "ok"
        /\ R!Ask(c.op # "maintain")
        /\ UNCHANGED <<roomRows, number, roomStatus, clock, roomMade, roomConfirmed, roomTyped,
                       roomLast, roomSaving>>
        /\ \/ UNCHANGED <<dialog, roomForm>>
           \/ c.op # "maintain" /\ dialog' = None /\ roomForm' = None
        /\ c.op = "maintain" => dialog' = dialog
    BY <1>3 DEF R!Succeed, R!Tell, R!Shut, R!server, R!counts, R!box
  <2>2. (c.op # "maintain") \in BOOLEAN
    OBVIOUS
  <2>3. /\ RoomOne' /\ RoomDone' /\ RoomFresh' /\ error' \in BOOLEAN /\ asked' \in Nat
        /\ loads' \subseteq RoomLoads
    BY <2>1, <2>2, RoomAsked
  <2>4. roomTold' \subseteq 1 .. roomLast' /\ roomCalls' \subseteq RoomCalls
    BY <1>0, <2>1, RoomFacts DEF RoomTypes
  <2>5. dialog' \in R!Everyone \cup {None} /\ roomForm' \in Numbers \cup {None}
    BY <1>0, <2>1 DEF RoomTypes
  <2> QED
    BY <1>0, <2>1, <2>3, <2>4, <2>5 DEF RoomTypes, RoomInv
<1>4. CASE R!Filter
  <2>1. /\ R!Ask(FALSE)
        /\ UNCHANGED <<roomRows, dialog, roomForm, roomCalls, number, roomStatus, clock,
                       roomMade, roomTold, roomConfirmed, roomTyped, roomLast, roomSaving>>
    BY <1>4 DEF R!Filter, R!server, R!counts, R!box
  <2>2. /\ RoomOne' /\ RoomDone' /\ RoomFresh' /\ error' \in BOOLEAN /\ asked' \in Nat
        /\ loads' \subseteq RoomLoads
    BY <2>1, RoomAsked
  <2> QED
    BY <1>0, <2>1, <2>2 DEF RoomTypes, RoomInv
<1>5. ASSUME NEW l \in loads, R!ServeLoad(l) \/ R!Show(l) \/ R!LoadFails(l) PROVE RoomInv'
  <2>1. UNCHANGED <<asked, dialog, roomForm, roomCalls, number, roomStatus, clock,
                    roomMade, roomTold, roomConfirmed, roomTyped, roomLast>>
    BY <1>5 DEF R!ServeLoad, R!Show, R!LoadFails, R!box, R!server, R!counts
  <2>2. /\ RoomOne' /\ RoomDone' /\ RoomFresh' /\ error' \in BOOLEAN
        /\ loads' \subseteq RoomLoads /\ roomRows' \in RoomLists /\ roomSaving' \in BOOLEAN
    BY <1>5, RoomRead
  <2> QED
    BY <1>0, <2>1, <2>2 DEF RoomTypes, RoomInv
<1>6. CASE R!Save
  <2>1. /\ dialog # None /\ roomForm # None /\ ~roomSaving /\ roomSaving' = TRUE
        /\ R!Send(IF dialog = New THEN "create" ELSE "edit", dialog, roomForm)
    BY <1>6 DEF R!Save
  <2>2. dialog \in R!Everyone /\ roomForm \in Numbers \cup {None} /\ roomSaving = FALSE
    BY <1>0, <2>1 DEF RoomTypes
  <2>3. (IF dialog = New THEN "create" ELSE "edit") \in {"create", "edit",
        "maintain"} \ {"maintain"}
    OBVIOUS
  <2>4. /\ RoomOne' /\ RoomDone' /\ RoomFresh' /\ roomCalls' \subseteq RoomCalls
        /\ roomLast' \in 0 .. MaxCalls
    BY <2>1, <2>2, <2>3, RoomSent
  <2>5. /\ UNCHANGED <<roomRows, error, asked, loads, dialog, roomForm, number, roomStatus,
                       clock, roomMade, roomTold, roomConfirmed, roomTyped>>
        /\ roomLast' = roomLast + 1
    BY <2>1 DEF R!Send, R!list, R!server
  <2>6. roomTold' \subseteq 1 .. roomLast'
    BY <1>0, <2>5, RoomFacts DEF RoomTypes
  <2>7. roomSaving' \in BOOLEAN
    BY <2>1
  <2> QED
    BY <1>0, <2>4, <2>5, <2>6, <2>7 DEF RoomTypes, RoomInv
<1>7. ASSUME NEW r \in Rooms, R!Maintain(r) PROVE RoomInv'
  <2>1. R!Send("maintain", r, None) /\ UNCHANGED roomSaving
    BY <1>7 DEF R!Maintain
  <2>2. r \in R!Everyone
    BY <1>0
  <2>4. /\ RoomOne' /\ RoomDone' /\ RoomFresh' /\ roomCalls' \subseteq RoomCalls
        /\ roomLast' \in 0 .. MaxCalls
    BY <2>1, <2>2, RoomSent
  <2>5. /\ UNCHANGED <<roomRows, error, asked, loads, dialog, roomForm, number, roomStatus,
                       clock, roomMade, roomTold, roomConfirmed, roomTyped>>
        /\ roomLast' = roomLast + 1
    BY <2>1 DEF R!Send, R!list, R!server
  <2>6. roomTold' \subseteq 1 .. roomLast'
    BY <1>0, <2>5, RoomFacts DEF RoomTypes
  <2> QED
    BY <1>0, <2>1, <2>4, <2>5, <2>6 DEF RoomTypes, RoomInv
<1>8. ASSUME NEW r \in R!Everyone, R!OpenForm(r) PROVE RoomInv'
  <2>1. /\ dialog = None /\ dialog' = r
        /\ roomForm' = None \/ roomForm' = roomRows.number[r]
        /\ UNCHANGED <<roomRows, error, asked, loads, roomSaving, roomCalls, number, roomStatus,
                       clock, roomMade, roomTold, roomConfirmed, roomTyped, roomLast>>
    BY <1>8 DEF R!OpenForm, R!list, R!server, R!counts
  <2>2. \A c \in roomCalls : c.op = "maintain"
    BY <1>0, <2>1, RoomFacts DEF RoomInv, RoomOne, R!ActsAsShown
  <2>3. R!ActsAsShown'
    BY <2>1, <2>2 DEF R!ActsAsShown
  <2>4. RoomOne' /\ RoomDone' /\ RoomFresh'
    BY <2>1, <2>3 DEF RoomInv, RoomOne, RoomDone, RoomFresh
  <2>5. roomForm' \in Numbers \cup {None}
    BY <1>0, <2>1 DEF RoomTypes, RoomLists, RoomNumbers
  <2> QED
    BY <1>0, <2>1, <2>4, <2>5 DEF RoomTypes, RoomInv
<1>9. ASSUME NEW d \in Numbers, R!Type(d) PROVE RoomInv'
  <2>1. /\ dialog' = dialog /\ roomForm' = d /\ roomTyped' = roomTyped + 1
        /\ UNCHANGED <<roomRows, error, asked, loads, roomSaving, roomCalls, number, roomStatus,
                       clock, roomMade, roomTold, roomConfirmed, roomLast>>
    BY <1>9 DEF R!Type, R!list, R!server
  <2>2. RoomOne' /\ RoomDone' /\ RoomFresh'
    BY <2>1, RoomStill
  <2> QED
    BY <1>0, <2>1, <2>2 DEF RoomTypes, RoomInv
<1>10. CASE R!CloseForm
  <2>1. /\ ~roomSaving /\ dialog' = None /\ roomForm' = None
        /\ roomConfirmed' = roomConfirmed + IF R!Dirty THEN 1 ELSE 0
        /\ UNCHANGED <<roomRows, error, asked, loads, roomSaving, roomCalls, number, roomStatus,
                       clock, roomMade, roomTold, roomTyped, roomLast>>
    BY <1>10 DEF R!CloseForm, R!Discard, R!Shut, R!list, R!server, R!counts
  <2>2. RoomOne' /\ RoomDone' /\ RoomFresh'
    BY <2>1, RoomStill
  <2>3. roomConfirmed' \in Nat
    BY <1>0, <2>1 DEF RoomTypes
  <2> QED
    BY <1>0, <2>1, <2>2, <2>3 DEF RoomTypes, RoomInv
<1>11. ASSUME NEW r \in Rooms, NEW d \in Numbers, R!OthersChange(r, d) PROVE RoomInv'
  <2>1. /\ clock' = clock + 1
        /\ UNCHANGED <<roomRows, error, asked, loads, dialog, roomForm, roomSaving, roomCalls,
                       roomMade, roomTold, roomConfirmed, roomTyped, roomLast>>
    BY <1>11 DEF R!OthersChange, R!list, R!box
  <2>2. RoomOne' /\ RoomDone' /\ RoomFresh' /\ clock' \in Nat
    BY <2>1, RoomStill
  <2>3. number' \in RoomNumbers /\ roomStatus' \in RoomStatuses
    BY <1>0, <1>11
    DEF R!OthersChange, RoomTypes, RoomNumbers, RoomStatuses, R!Statuses
  <2> QED
    BY <1>0, <2>1, <2>2, <2>3 DEF RoomTypes, RoomInv
<1>12. CASE UNCHANGED RVars
  <2>1. /\ UNCHANGED <<roomRows, error, asked, loads, dialog, roomForm, roomSaving, roomCalls,
                       number, roomStatus, clock, roomMade, roomTold, roomConfirmed, roomTyped,
                       roomLast>>
    BY <1>12 DEF RVars
  <2>2. RoomOne' /\ RoomDone' /\ RoomFresh'
    BY <2>1, RoomStill
  <2> QED
    BY <1>0, <2>1, <2>2 DEF RoomTypes, RoomInv
<1> QED
  BY <1>1, <1>2, <1>3, <1>4, <1>5, <1>6, <1>7, <1>8, <1>9, <1>10, <1>11, <1>12 DEF R!Next

(* What was typed.                                                         *)
LEMMA RoomDrafts == RoomInv /\ [R!Next]_RVars => R!DraftsKept
<1> SUFFICES ASSUME RoomInv, [R!Next]_RVars, R!Dirty, ~R!Dirty'
             PROVE  \/ roomConfirmed' > roomConfirmed \/ roomTyped' > roomTyped
                    \/ roomTold' # roomTold
  BY DEF R!DraftsKept
<1>1. roomConfirmed \in Nat /\ roomTyped \in Nat
  BY DEF RoomInv, RoomTypes
<1>2. CASE R!CloseForm
  BY <1>1, <1>2 DEF R!CloseForm, R!Discard
<1>3. CASE \E d \in Numbers : R!Type(d)
  BY <1>1, <1>3 DEF R!Type
<1>4. ASSUME NEW c \in roomCalls, R!Succeed(c) PROVE roomTold' # roomTold
  BY <1>4 DEF R!Succeed, R!Tell, RoomInv, RoomDone
<1>5. CASE ~(R!CloseForm \/ (\E d \in Numbers : R!Type(d)) \/ \E c \in roomCalls : R!Succeed(c))
  <2>1. UNCHANGED <<dialog, roomForm, roomBaseline>>
    BY <1>5 DEF R!Dirty, R!Next, R!Filter, R!Save, R!Send, R!ServeLoad, R!Show, R!LoadFails,
       R!OpenForm, R!Maintain, R!Serve, R!Fail, R!OthersChange, R!box, RVars
  <2> QED
    BY <2>1 DEF R!Dirty
<1> QED
  BY <1>2, <1>3, <1>4, <1>5

-----------------------------------------------------------------------------
(* The team (TeamPage).                                                    *)

TeamLists == [at : Nat, active : [Staff -> BOOLEAN]]
TeamLoads == [n : Nat, call : {None} \cup T!Changes, answer : {None} \cup TeamLists]

TeamTypes ==
  /\ teamRows \in TeamLists /\ teamError \in BOOLEAN /\ teamAsked \in Nat
  /\ teamLoads \subseteq TeamLoads /\ teamCalls \subseteq T!Changes
  /\ teamDialog \in T!Forms \cup {None} /\ teamSaving \in BOOLEAN
  /\ question \in T!Forms \cup {None} /\ changing \in Staff \cup {None}
  /\ question # None => question.user \in Staff \ {Me}
  /\ active \in [Staff -> BOOLEAN] /\ teamClock \in Nat
  /\ teamMade \in [T!Click -> Nat] /\ teamTold \subseteq 1 .. teamLast
  /\ teamLast \in 0 .. TeamCalls

(* The calls whose list is awaited.                                        *)
Settled == {l.call : l \in {k \in teamLoads : k.call # None}}

TeamQueues ==
  /\ \A l \in teamLoads : l.n <= teamAsked
  /\ \A l, m \in teamLoads : l.n = m.n => l = m
  /\ \A l, m \in teamLoads : l.call # None /\ l.call = m.call => l = m
  /\ teamCalls \cap Settled = {}

(* One save and one change of access at a time.                            *)
TeamOne ==
  /\ \A c, d \in T!Pending : (c.op = "toggle") = (d.op = "toggle") => c = d
  /\ \A c, d \in T!Pending : c.n = d.n => c = d
  /\ \A c \in T!Pending : c.n <= teamLast /\ c.n \notin teamTold
  /\ teamSaving => \E c \in T!Pending : c.op # "toggle"
  /\ \A c \in T!Pending : c.op # "toggle" => teamSaving
  /\ changing # None => \E c \in T!Pending : c.op = "toggle"
  /\ \A c \in T!Pending : c.op = "toggle" => changing # None
  /\ T!ActsAsShown

(* What the list says, or will say, of a click that has succeeded.         *)
TeamFine(n) ==
  /\ teamMade[n] > 0
  /\ \A l \in teamLoads : l.n = teamAsked /\ l.answer # None => l.answer.at >= teamMade[n]
  /\ ~teamError /\ (\A l \in teamLoads : l.n # teamAsked) => teamRows.at >= teamMade[n]

TeamDone ==
  /\ \A c \in teamCalls : c.answer = "ok" => teamMade[c.n] > 0
  /\ \A n \in T!Click : teamMade[n] <= teamClock
  /\ \A n \in teamTold : TeamFine(n)
  /\ \A c \in Settled : TeamFine(c.n)

TeamInv == TeamTypes /\ TeamQueues /\ TeamOne /\ TeamDone

(* The team page begins well.                                              *)
LEMMA TeamInit == T!Init => TeamInv
<1> SUFFICES ASSUME T!Init PROVE TeamInv
  OBVIOUS
<1>1. /\ active = [u \in Staff |-> TRUE] /\ teamClock = 0
      /\ teamRows = [at |-> 0, active |-> active] /\ teamError = FALSE /\ teamAsked = 0
      /\ teamLoads = {} /\ teamDialog = None /\ teamSaving = FALSE /\ question = None
      /\ changing = None /\ teamCalls = {} /\ teamMade = [n \in T!Click |-> 0]
      /\ teamTold = {} /\ teamLast = 0
  BY DEF T!Init
<1>2. active \in [Staff -> BOOLEAN] /\ teamError \in BOOLEAN /\ teamSaving \in BOOLEAN
  BY <1>1
<1>3. TeamTypes
  <2>1. teamRows \in TeamLists
    BY <1>1, <1>2 DEF TeamLists
  <2>2. teamLast \in 0 .. TeamCalls /\ teamTold \subseteq 1 .. teamLast
    BY <1>1, TeamAssumption DEF T!BoundAssumption
  <2> QED
    BY <1>1, <1>2, <2>1, <2>2 DEF TeamTypes
<1>4. Settled = {} /\ T!Pending = {}
  BY <1>1 DEF Settled, T!Pending
<1>5. TeamQueues
  BY <1>1, <1>4 DEF TeamQueues
<1>6. TeamOne
  BY <1>1, <1>4 DEF TeamOne, T!ActsAsShown
<1>7. TeamDone
  BY <1>1, <1>4 DEF TeamDone
<1> QED
  BY <1>3, <1>5, <1>6, <1>7 DEF TeamInv

(* Its invariant implies what it promises.                                 *)
LEMMA TeamHolds == TeamInv => T!TypeOK /\ T!ToldIsDone /\ T!ActsAsShown
<1> SUFFICES ASSUME TeamInv PROVE T!TypeOK /\ T!ToldIsDone /\ T!ActsAsShown
  OBVIOUS
<1>1. teamSaving <=> \E c \in T!Pending : c.op # "toggle"
  BY DEF TeamInv, TeamOne
<1>2. changing # None <=> \E c \in T!Pending : c.op = "toggle"
  BY DEF TeamInv, TeamOne
<1>3. \A c, d \in T!Pending : (c.op = "toggle") = (d.op = "toggle") => c = d
  BY DEF TeamInv, TeamOne
<1>4. T!TypeOK
  BY <1>1, <1>2, <1>3 DEF TeamInv, TeamTypes, T!TypeOK
<1>5. T!ToldIsDone
  BY DEF TeamInv, TeamDone, TeamFine, T!ToldIsDone
<1> QED
  BY <1>4, <1>5 DEF TeamInv, TeamOne

(* What the invariant says of the calls on their way.                      *)
LEMMA TeamFacts ==
  ASSUME TeamInv
  PROVE  /\ TeamCalls \in Nat /\ teamLast \in 0 .. TeamCalls /\ teamAsked \in Nat
         /\ teamClock \in Nat /\ teamMade \in [T!Click -> Nat]
         /\ T!Pending = teamCalls \cup Settled /\ teamCalls \cap Settled = {}
         /\ \A c \in T!Pending : /\ c \in T!Changes /\ c.n \in T!Click /\ c.n \in 1 .. teamLast
                                 /\ c # None
         /\ \A n \in teamTold : n \in T!Click /\ n \in 1 .. teamLast
         /\ \A l \in teamLoads :
              /\ l \in TeamLoads /\ l.n \in Nat /\ l.n <= teamAsked
              /\ l.call # None => l.call \in Settled
              /\ l.answer # None => l.answer \in TeamLists /\ l.answer.at \in Nat
<1>1. TeamCalls \in Nat /\ teamLast \in 0 .. TeamCalls
  BY TeamAssumption DEF TeamInv, TeamTypes, T!BoundAssumption
<1>2. T!Pending = teamCalls \cup Settled
  BY DEF T!Pending, Settled
<1>3. ASSUME NEW c \in T!Pending
      PROVE  c \in T!Changes /\ c.n \in T!Click /\ c.n \in 1 .. teamLast /\ c # None
  <2>1. c \in T!Changes
    BY <1>2 DEF Settled, TeamInv, TeamTypes, TeamLoads
  <2>2. c.n \in T!Click /\ c # None
    BY <2>1, TeamAssumption DEF T!Changes, T!MeAssumption
  <2>3. c.n <= teamLast
    BY DEF TeamInv, TeamOne
  <2>4. c.n \in 1 .. teamLast
    BY <1>1, <2>2, <2>3 DEF T!Click
  <2> QED
    BY <2>1, <2>2, <2>4
<1>4. ASSUME NEW n \in teamTold PROVE n \in T!Click /\ n \in 1 .. teamLast
  BY <1>1 DEF TeamInv, TeamTypes, T!Click
<1>5. ASSUME NEW l \in teamLoads
      PROVE  /\ l \in TeamLoads /\ l.n \in Nat /\ l.n <= teamAsked
             /\ l.call # None => l.call \in Settled
             /\ l.answer # None => l.answer \in TeamLists /\ l.answer.at \in Nat
  <2>1. l \in TeamLoads /\ l.n <= teamAsked
    BY DEF TeamInv, TeamTypes, TeamQueues
  <2>2. l.n \in Nat /\ (l.answer # None => l.answer \in TeamLists)
    BY <2>1 DEF TeamLoads
  <2>3. l.answer # None => l.answer.at \in Nat
    BY <2>2 DEF TeamLists
  <2>4. l.call # None => l.call \in Settled
    BY DEF Settled
  <2> QED
    BY <2>1, <2>2, <2>3, <2>4
<1> QED
  BY <1>1, <1>2, <1>3, <1>4, <1>5 DEF TeamInv, TeamTypes, TeamQueues

(* The flags after a call goes on, begins or ends.                         *)
TeamSame(d, c) == d.n = c.n /\ d.op = c.op /\ d.user = c.user /\ d.to = c.to /\ d.saw = c.saw

(* A call that goes on is still the one its dialog waits for.              *)
LEMMA TeamGoesOn ==
  ASSUME TeamInv, NEW c \in T!Pending, NEW d, TeamSame(d, c),
         T!Pending' = (T!Pending \ {c}) \cup {d},
         UNCHANGED <<teamLast, teamTold, teamSaving, changing, question>>
  PROVE  TeamOne'
<1>1. \A k \in T!Pending' : k = d \/ (k \in T!Pending /\ k # c)
  OBVIOUS
<1>2. /\ \A k, q \in T!Pending' : (k.op = "toggle") = (q.op = "toggle") => k = q
      /\ \A k, q \in T!Pending' : k.n = q.n => k = q
      /\ \A k \in T!Pending' : k.n <= teamLast' /\ k.n \notin teamTold'
  BY <1>1 DEF TeamSame, TeamInv, TeamOne
<1>3. teamSaving' => \E k \in T!Pending' : k.op # "toggle"
  BY DEF TeamSame, TeamInv, TeamOne
<1>4. changing' # None => \E k \in T!Pending' : k.op = "toggle"
  BY DEF TeamSame, TeamInv, TeamOne
<1>5. \A k \in T!Pending' : k.op # "toggle" => teamSaving'
  BY <1>1 DEF TeamSame, TeamInv, TeamOne
<1>6. \A k \in T!Pending' : k.op = "toggle" => changing' # None
  BY <1>1 DEF TeamSame, TeamInv, TeamOne
<1>7. T!ActsAsShown'
  <2> SUFFICES ASSUME NEW k \in T!Pending', k.op = "toggle"
               PROVE  question' = k.saw /\ k.to = ~k.saw.active /\ k.user # Me
    BY DEF T!ActsAsShown
  <2>1. \E q \in T!Pending : TeamSame(k, q)
    BY <1>1 DEF TeamSame
  <2> QED
    BY <2>1 DEF TeamSame, TeamInv, TeamOne, T!ActsAsShown
<1> QED
  BY <1>2, <1>3, <1>4, <1>5, <1>6, <1>7 DEF TeamOne

(* A call that is over is no longer waited for.                            *)
LEMMA TeamEnds ==
  ASSUME TeamInv, NEW c \in T!Pending, T!Pending' = T!Pending \ {c}, UNCHANGED teamLast,
         teamTold' \subseteq teamTold \cup {c.n},
         \/ c.op = "toggle" /\ changing' = None /\ UNCHANGED teamSaving
         \/ c.op # "toggle" /\ UNCHANGED <<changing, question>> /\ teamSaving' = FALSE
  PROVE  TeamOne'
<1>1. \A k \in T!Pending' : /\ k \in T!Pending /\ k # c /\ k.n # c.n
                            /\ (k.op = "toggle") # (c.op = "toggle")
  BY DEF TeamInv, TeamOne
<1>2. /\ \A k, q \in T!Pending' : (k.op = "toggle") = (q.op = "toggle") => k = q
      /\ \A k, q \in T!Pending' : k.n = q.n => k = q
      /\ \A k \in T!Pending' : k.n <= teamLast' /\ k.n \notin teamTold'
  BY <1>1 DEF TeamInv, TeamOne
<1>3. CASE c.op = "toggle" /\ changing' = None /\ UNCHANGED teamSaving
  <2>1. teamSaving' => \E k \in T!Pending' : k.op # "toggle"
    BY <1>3 DEF TeamInv, TeamOne
  <2>2. \A k \in T!Pending' : k.op # "toggle" => teamSaving'
    BY <1>1, <1>3 DEF TeamInv, TeamOne
  <2>3. \A k \in T!Pending' : k.op # "toggle"
    BY <1>1, <1>3
  <2> QED
    BY <1>2, <1>3, <2>1, <2>2, <2>3 DEF TeamOne, T!ActsAsShown
<1>4. CASE c.op # "toggle" /\ UNCHANGED <<changing, question>> /\ teamSaving' = FALSE
  <2>1. changing' # None => \E k \in T!Pending' : k.op = "toggle"
    BY <1>4 DEF TeamInv, TeamOne
  <2>2. \A k \in T!Pending' : k.op = "toggle" => changing' # None
    BY <1>1, <1>4 DEF TeamInv, TeamOne
  <2>3. \A k \in T!Pending' : k.op = "toggle"
    BY <1>1, <1>4
  <2>4. T!ActsAsShown'
    BY <1>1, <1>4 DEF TeamInv, TeamOne, T!ActsAsShown
  <2> QED
    BY <1>2, <1>4, <2>1, <2>2, <2>3, <2>4 DEF TeamOne
<1> QED
  BY <1>3, <1>4

(* A call begins with nothing else waiting.                                *)
LEMMA TeamBegins ==
  ASSUME TeamInv, NEW c \in T!Changes, T!Pending' = T!Pending \cup {c},
         c.n = teamLast + 1, teamLast' = teamLast + 1, UNCHANGED <<teamTold, question>>,
         \/ /\ c.op = "toggle" /\ changing = None /\ changing' # None /\ UNCHANGED teamSaving
            /\ question = c.saw /\ c.to = ~c.saw.active /\ c.user # Me
         \/ c.op # "toggle" /\ ~teamSaving /\ teamSaving' = TRUE /\ UNCHANGED changing
  PROVE  TeamOne'
<1>1. /\ \A k \in T!Pending : /\ k.n \in 1 .. teamLast /\ k.n # c.n
                              /\ (k.op = "toggle") # (c.op = "toggle")
      /\ teamLast \in Nat /\ c.n \notin teamTold
  <2>1. /\ \A k \in T!Pending : k.n \in 1 .. teamLast
        /\ teamLast \in 0 .. TeamCalls /\ TeamCalls \in Nat
        /\ \A n \in teamTold : n \in 1 .. teamLast
    BY TeamFacts
  <2>2. \A k \in T!Pending : (k.op = "toggle") # (c.op = "toggle")
    BY DEF TeamInv, TeamOne
  <2> QED
    BY <2>1, <2>2
<1>2. \A k \in T!Pending' : k = c \/ k \in T!Pending
  OBVIOUS
<1>3. /\ \A k, q \in T!Pending' : (k.op = "toggle") = (q.op = "toggle") => k = q
      /\ \A k, q \in T!Pending' : k.n = q.n => k = q
  BY <1>1, <1>2 DEF TeamInv, TeamOne
<1>4. \A k \in T!Pending' : k.n <= teamLast' /\ k.n \notin teamTold'
  BY <1>1, <1>2 DEF TeamInv, TeamOne
<1>5. CASE c.op = "toggle" /\ changing = None /\ changing' # None /\ UNCHANGED teamSaving
           /\ question = c.saw /\ c.to = ~c.saw.active /\ c.user # Me
  <2>1. teamSaving' => \E k \in T!Pending' : k.op # "toggle"
    BY <1>5 DEF TeamInv, TeamOne
  <2>2. \A k \in T!Pending' : k.op # "toggle" => teamSaving'
    BY <1>2, <1>5 DEF TeamInv, TeamOne
  <2>3. \E k \in T!Pending' : k.op = "toggle"
    BY <1>5
  <2>4. \A k \in T!Pending' : k.op = "toggle" => k = c
    BY <1>1, <1>2, <1>5
  <2>5. T!ActsAsShown'
    BY <1>5, <2>4 DEF T!ActsAsShown
  <2> QED
    BY <1>3, <1>4, <1>5, <2>1, <2>2, <2>3, <2>5 DEF TeamOne
<1>6. CASE c.op # "toggle" /\ ~teamSaving /\ teamSaving' = TRUE /\ UNCHANGED changing
  <2>1. changing' # None => \E k \in T!Pending' : k.op = "toggle"
    BY <1>6 DEF TeamInv, TeamOne
  <2>2. \A k \in T!Pending' : k.op = "toggle" => changing' # None
    BY <1>2, <1>6 DEF TeamInv, TeamOne
  <2>3. \E k \in T!Pending' : k.op # "toggle"
    BY <1>6
  <2>4. T!ActsAsShown'
    BY <1>2, <1>6 DEF TeamInv, TeamOne, T!ActsAsShown
  <2> QED
    BY <1>3, <1>4, <1>6, <2>1, <2>2, <2>3, <2>4 DEF TeamOne
<1> QED
  BY <1>5, <1>6

(* The lists asked for.                                                    *)
LEMMA TeamAsked ==
  ASSUME TeamInv, NEW c, T!Ask(c), c = None \/ c \in teamCalls
  PROVE  /\ teamLoads' \subseteq TeamLoads /\ teamAsked' \in Nat /\ teamError' \in BOOLEAN
         /\ Settled' = Settled \cup ({c} \ {None})
         /\ \A l \in teamLoads' : l.n <= teamAsked'
         /\ \A l, m \in teamLoads' : l.n = m.n => l = m
         /\ \A l, m \in teamLoads' : l.call # None /\ l.call = m.call => l = m
         /\ \A n : teamMade[n] > 0 /\ teamMade'[n] = teamMade[n] => TeamFine(n)'
<1> DEFINE m == [n |-> teamAsked + 1, call |-> c, answer |-> None]
<1>1. teamAsked' = teamAsked + 1 /\ teamError' = FALSE /\ teamLoads' = teamLoads \cup {m}
  BY DEF T!Ask
<1>2. /\ teamAsked \in Nat /\ c \in {None} \cup T!Changes /\ teamLoads \subseteq TeamLoads
      /\ \A l \in teamLoads : l.n \in Nat /\ l.n <= teamAsked
           /\ (l.call # None => l.call \in Settled)
      /\ c # None => c \notin Settled
      /\ None \notin Settled
  BY TeamFacts DEF TeamInv, TeamTypes, Settled
<1>3. /\ m \in TeamLoads /\ m.n = teamAsked' /\ m.call = c /\ m.answer = None
      /\ \A l \in teamLoads : l.n <= teamAsked' /\ l.n # teamAsked'
  BY <1>1, <1>2 DEF TeamLoads
<1> HIDE DEF m
<1>4. \A l \in teamLoads' : l = m \/ l \in teamLoads
  BY <1>1
<1>5. Settled' = Settled \cup ({c} \ {None})
  <2>1. Settled' = {l.call : l \in {k \in teamLoads' : k.call # None}}
    BY DEF Settled
  <2>2. ASSUME NEW x1 \in Settled' PROVE x1 \in Settled \cup ({c} \ {None})
    <3>1. PICK l \in teamLoads' : l.call # None /\ x1 = l.call
      BY <2>1, <2>2
    <3> QED
      BY <1>2, <1>3, <1>4, <3>1
  <2>3. ASSUME NEW x1 \in Settled \cup ({c} \ {None}) PROVE x1 \in Settled'
    <3>1. CASE x1 \in Settled
      <4>1. PICK l \in teamLoads : l.call # None /\ x1 = l.call
        BY <3>1 DEF Settled
      <4> QED
        BY <1>1, <2>1, <4>1
    <3>2. CASE x1 = c /\ c # None
      BY <1>1, <1>3, <2>1, <3>2
    <3> QED
      BY <2>3, <3>1, <3>2
  <2> QED
    BY <2>2, <2>3
<1>6. ASSUME NEW n, teamMade[n] > 0, teamMade'[n] = teamMade[n] PROVE TeamFine(n)'
  <2>1. m \in teamLoads'
    BY <1>1
  <2> QED
    BY <1>2, <1>3, <1>4, <1>6, <2>1 DEF TeamFine
<1>7. /\ \A l \in teamLoads' : l.n <= teamAsked'
      /\ \A l, k \in teamLoads' : l.n = k.n => l = k
  BY <1>1, <1>2, <1>3, <1>4 DEF TeamInv, TeamQueues
<1>8. \A l, k \in teamLoads' : l.call # None /\ l.call = k.call => l = k
  <2>1. \A l \in teamLoads : l.call # None => l.call # c
    BY <1>2
  <2> QED
    BY <1>3, <1>4, <2>1 DEF TeamInv, TeamQueues
<1>9. teamLoads' \subseteq TeamLoads /\ teamAsked' \in Nat /\ teamError' \in BOOLEAN
  <2>1. teamLoads' \subseteq TeamLoads
    BY <1>2, <1>3, <1>4
  <2>2. teamAsked' \in Nat
    BY <1>1, <1>2
  <2> QED
    BY <1>1, <2>1, <2>2
<1> QED
  BY <1>5, <1>6, <1>7, <1>8, <1>9

(* A list served undoes nothing that was told.                             *)
LEMMA TeamAnswered ==
  ASSUME TeamInv, NEW l \in teamLoads, T!ServeLoad(l)
  PROVE  /\ teamLoads' \subseteq TeamLoads /\ Settled' = Settled /\ TeamQueues'
         /\ \A n \in T!Click : TeamFine(n) /\ teamMade'[n] = teamMade[n] => TeamFine(n)'
<1> DEFINE a0 == [at |-> teamClock, active |-> active]
           m == [l EXCEPT !.answer = a0]
<1>1. /\ teamLoads' = (teamLoads \ {l}) \cup {m}
      /\ UNCHANGED <<teamRows, teamError, teamAsked, teamCalls>>
  BY DEF T!ServeLoad
<1>2. /\ l \in TeamLoads /\ teamClock \in Nat /\ active \in [Staff -> BOOLEAN]
      /\ teamLoads \subseteq TeamLoads /\ teamMade \in [T!Click -> Nat]
  BY TeamFacts DEF TeamInv, TeamTypes
<1>3. m \in TeamLoads /\ m.n = l.n /\ m.call = l.call /\ m.answer.at = teamClock
  BY <1>2 DEF TeamLoads, TeamLists
<1> HIDE DEF a0, m
<1>4. \A k \in teamLoads' : k = m \/ (k \in teamLoads /\ k # l)
  BY <1>1
<1>5. Settled' = Settled
  <2>1. Settled' = {k.call : k \in {q \in teamLoads' : q.call # None}}
    BY DEF Settled
  <2>2. \A x1 \in Settled' : x1 \in Settled
    BY <1>3, <1>4, <2>1 DEF Settled
  <2>3. ASSUME NEW k \in teamLoads, k.call # None PROVE k.call \in Settled'
    BY <1>1, <1>3, <2>1, <2>3
  <2>4. \A x1 \in Settled : x1 \in Settled'
    BY <2>3 DEF Settled
  <2> QED
    BY <2>2, <2>4
<1>6. TeamQueues'
  BY <1>1, <1>3, <1>4, <1>5 DEF TeamInv, TeamQueues
<1>7. ASSUME NEW n \in T!Click, TeamFine(n), teamMade'[n] = teamMade[n] PROVE TeamFine(n)'
  <2>1. teamMade[n] <= teamClock
    BY DEF TeamInv, TeamDone
  <2>2. teamMade[n] \in Nat
    BY <1>2
  <2>3. \A k \in teamLoads' : k.n = teamAsked' /\ k.answer # None => k.answer.at >= teamMade'[n]
    BY <1>1, <1>2, <1>3, <1>4, <1>7, <2>1, <2>2 DEF TeamFine
  <2>4. (\A k \in teamLoads' : k.n # teamAsked') => (\A k \in teamLoads : k.n # teamAsked)
    BY <1>1, <1>3
  <2>5. ~teamError' /\ (\A k \in teamLoads' : k.n # teamAsked') => teamRows'.at >= teamMade'[n]
    BY <1>1, <1>7, <2>4 DEF TeamFine
  <2> QED
    BY <1>7, <2>3, <2>5 DEF TeamFine
<1>8. teamLoads' \subseteq TeamLoads
  BY <1>2, <1>3, <1>4
<1> QED
  BY <1>5, <1>6, <1>7, <1>8

(* Nor does one that arrives, or fails to.                                 *)
LEMMA TeamListed ==
  ASSUME TeamInv, NEW l \in teamLoads, T!Show(l) \/ T!LoadFails(l)
  PROVE  /\ teamLoads' \subseteq TeamLoads /\ Settled' = Settled \ {l.call} /\ TeamQueues'
         /\ teamRows' \in TeamLists /\ teamError' \in BOOLEAN
         /\ \A n : TeamFine(n) /\ teamMade'[n] = teamMade[n] => TeamFine(n)'
<1>1. /\ teamLoads' = teamLoads \ {l} /\ UNCHANGED <<teamAsked, teamCalls>>
  BY DEF T!Show, T!LoadFails
<1>2. /\ l \in TeamLoads /\ teamRows \in TeamLists /\ teamError \in BOOLEAN
      /\ teamLoads \subseteq TeamLoads /\ (l.answer # None => l.answer \in TeamLists)
  BY TeamFacts DEF TeamInv, TeamTypes
<1>3. \/ l.n = teamAsked /\ l.answer # None /\ teamRows' = l.answer /\ teamError' = FALSE
      \/ l.n # teamAsked /\ teamRows' = teamRows /\ teamError' = teamError
      \/ l.n = teamAsked /\ teamRows' = teamRows /\ teamError' = TRUE
  <2>1. CASE T!Show(l)
    BY <2>1 DEF T!Show
  <2>2. CASE T!LoadFails(l)
    <3>1. teamRows' = teamRows /\ teamError' = (teamError \/ l.n = teamAsked)
      BY <2>2 DEF T!LoadFails
    <3>2. CASE l.n = teamAsked
      BY <3>1, <3>2
    <3>3. CASE l.n # teamAsked
      BY <1>2, <3>1, <3>3
    <3> QED
      BY <3>2, <3>3
  <2> QED
    BY <2>1, <2>2
<1>4. Settled' = Settled \ {l.call}
  <2>1. Settled' = {k.call : k \in {q \in teamLoads' : q.call # None}}
    BY DEF Settled
  <2>2. ASSUME NEW x1 \in Settled' PROVE x1 \in Settled \ {l.call}
    <3>1. PICK k \in teamLoads' : k.call # None /\ x1 = k.call
      BY <2>1, <2>2
    <3> QED
      BY <1>1, <3>1 DEF Settled, TeamInv, TeamQueues
  <2>3. ASSUME NEW x1 \in Settled \ {l.call} PROVE x1 \in Settled'
    <3>1. PICK k \in teamLoads : k.call # None /\ x1 = k.call
      BY <2>3 DEF Settled
    <3> QED
      BY <1>1, <2>1, <2>3, <3>1
  <2> QED
    BY <2>2, <2>3
<1>5. TeamQueues'
  BY <1>1, <1>4 DEF TeamInv, TeamQueues
<1>6. ASSUME NEW n, TeamFine(n), teamMade'[n] = teamMade[n] PROVE TeamFine(n)'
  <2>1. \A k \in teamLoads : k.n = teamAsked /\ k.answer # None => k.answer.at >= teamMade[n]
    BY <1>6 DEF TeamFine
  <2>2. ~teamError' /\ (\A k \in teamLoads' : k.n # teamAsked') => teamRows'.at >= teamMade[n]
    <3>1. CASE l.n = teamAsked
      BY <1>3, <2>1, <3>1
    <3>2. CASE l.n # teamAsked
      <4>1. (\A k \in teamLoads' : k.n # teamAsked') => (\A k \in teamLoads : k.n # teamAsked)
        BY <1>1, <3>2
      <4>2. teamRows' = teamRows /\ (~teamError' => ~teamError)
        BY <1>3, <3>2
      <4> QED
        BY <1>6, <4>1, <4>2 DEF TeamFine
    <3> QED
      BY <3>1, <3>2
  <2> QED
    BY <1>1, <1>6, <2>1, <2>2 DEF TeamFine
<1>7. teamRows' \in TeamLists /\ teamError' \in BOOLEAN
  BY <1>2, <1>3
<1> QED
  BY <1>1, <1>2, <1>4, <1>5, <1>6, <1>7

(* What was told depends on the list and its loads alone.                  *)
LEMMA TeamUnlisted ==
  ASSUME NEW n, TeamFine(n), teamMade'[n] = teamMade[n],
         UNCHANGED <<teamRows, teamError, teamAsked, teamLoads>>
  PROVE  TeamFine(n)'
BY DEF TeamFine

(* What follows a list.                                                    *)
LEMMA TeamShows ==
  ASSUME TeamInv, NEW l \in teamLoads, T!Show(l) \/ T!LoadFails(l)
  PROVE  TeamInv'
<1>1. /\ teamLoads' \subseteq TeamLoads /\ Settled' = Settled \ {l.call} /\ TeamQueues'
      /\ teamRows' \in TeamLists /\ teamError' \in BOOLEAN
      /\ \A n : TeamFine(n) /\ teamMade'[n] = teamMade[n] => TeamFine(n)'
  BY TeamListed
<1>2. /\ T!After(l.call)
      /\ UNCHANGED <<teamAsked, teamCalls, active, teamClock, teamMade, teamLast>>
  BY DEF T!Show, T!LoadFails, T!server
<1>3. T!Pending = teamCalls \cup Settled /\ T!Pending' = teamCalls \cup (Settled \ {l.call})
  BY <1>1, <1>2 DEF T!Pending, Settled
<1>4. teamCalls \cap Settled = {} /\ None \notin Settled /\ TeamTypes
  BY DEF TeamInv, TeamQueues, Settled
<1>5. CASE l.call = None
  <2>1. UNCHANGED <<teamDialog, teamSaving, question, changing, teamTold>>
    BY <1>2, <1>5 DEF T!After, T!boxes
  <2>2. T!Pending' = T!Pending /\ Settled' = Settled
    BY <1>1, <1>3, <1>4, <1>5
  <2>3. TeamOne'
    <3>1. T!ActsAsShown'
      BY <2>1, <2>2 DEF TeamInv, TeamOne, T!ActsAsShown
    <3> QED
      BY <1>2, <2>1, <2>2, <3>1 DEF TeamInv, TeamOne
  <2>4. TeamDone'
    BY <1>1, <1>2, <2>1, <2>2 DEF TeamInv, TeamDone
  <2> QED
    BY <1>1, <1>2, <1>4, <2>1, <2>3, <2>4 DEF TeamTypes, TeamInv
<1>6. CASE l.call # None
  <2> DEFINE c == l.call
  <2>1. c \in Settled /\ c \in T!Pending /\ c.n \in 1 .. teamLast
    BY <1>6, TeamFacts
  <2>2. T!Pending' = T!Pending \ {c}
    BY <1>3, <1>4, <2>1
  <2>3. /\ teamTold' = teamTold \cup {c.n}
        /\ \/ /\ c.op = "toggle" /\ changing' = None /\ question' = None
              /\ UNCHANGED <<teamDialog, teamSaving>>
           \/ /\ c.op # "toggle" /\ teamDialog' = None /\ teamSaving' = FALSE
              /\ UNCHANGED <<question, changing>>
    BY <1>2, <1>6 DEF T!After
  <2> HIDE DEF c
  <2>4. TeamOne'
    BY <1>2, <2>1, <2>2, <2>3, TeamEnds
  <2>5. TeamFine(c.n)
    BY <2>1 DEF TeamInv, TeamDone
  <2>6. TeamDone'
    BY <1>1, <1>2, <2>3, <2>5 DEF TeamInv, TeamDone
  <2>7. teamTold' \subseteq 1 .. teamLast'
    BY <1>2, <1>4, <2>1, <2>3 DEF TeamTypes
  <2>8. /\ teamDialog' \in T!Forms \cup {None} /\ question' \in T!Forms \cup {None}
        /\ changing' \in Staff \cup {None}
        /\ question' # None => question'.user \in Staff \ {Me}
    BY <1>4, <2>3 DEF TeamTypes
  <2>9. teamSaving' \in BOOLEAN
    BY <1>4, <2>3 DEF TeamTypes
  <2> QED
    BY <1>1, <1>2, <1>4, <2>4, <2>6, <2>7, <2>8, <2>9 DEF TeamTypes, TeamInv
<1> QED
  BY <1>5, <1>6

(* The server.                                                             *)
LEMMA TeamServes ==
  ASSUME TeamInv, NEW c \in teamCalls, T!Serve(c)
  PROVE  TeamInv'
<1>1. /\ UNCHANGED <<teamRows, teamError, teamAsked, teamLoads, teamDialog, teamSaving,
                     question, changing, teamTold, teamLast>>
      /\ TeamTypes
  BY DEF T!Serve, T!list, T!boxes, TeamInv
<1>2. /\ c \in T!Changes /\ c.n \in T!Click /\ c \in T!Pending /\ c \notin Settled
      /\ teamMade \in [T!Click -> Nat] /\ teamClock \in Nat
      /\ T!Pending = teamCalls \cup Settled
      /\ teamCalls \subseteq T!Changes
  BY <1>1, TeamFacts DEF TeamTypes
<1>3. Settled' = Settled
  BY <1>1 DEF Settled
<1>4. PICK d \in T!Changes :
        /\ TeamSame(d, c) /\ teamCalls' = (teamCalls \ {c}) \cup {d}
        /\ active' \in [Staff -> BOOLEAN]
        /\ \/ teamMade' = [teamMade EXCEPT ![c.n] = teamClock + 1] /\ teamClock' = teamClock + 1
           \/ UNCHANGED <<teamMade, teamClock>> /\ d.answer # "ok"
  <2>1. CASE T!Granted(c)
    <3> DEFINE d == [c EXCEPT !.answer = "ok"]
    <3>1. /\ active' = IF c.op = "invite" THEN active ELSE [active EXCEPT ![c.user] = c.to]
          /\ teamClock' = teamClock + 1
          /\ teamMade' = [teamMade EXCEPT ![c.n] = teamClock + 1]
          /\ teamCalls' = (teamCalls \ {c}) \cup {d}
      BY <2>1 DEF T!Serve
    <3>2. d \in T!Changes /\ TeamSame(d, c) /\ c.to \in BOOLEAN
      BY <1>2 DEF T!Changes, TeamSame
    <3>3. active' \in [Staff -> BOOLEAN]
      <4>1. active \in [Staff -> BOOLEAN]
        BY <1>1 DEF TeamTypes
      <4>2. CASE c.op = "invite"
        BY <3>1, <4>1, <4>2
      <4>3. CASE c.op # "invite"
        BY <3>1, <3>2, <4>1, <4>3
      <4> QED
        BY <4>2, <4>3
    <3> QED
      BY <3>1, <3>2, <3>3
  <2>2. CASE ~T!Granted(c)
    <3> DEFINE d == [c EXCEPT !.answer = "conflict"]
    <3>1. /\ teamCalls' = (teamCalls \ {c}) \cup {d}
          /\ UNCHANGED <<active, teamClock, teamMade>>
      BY <2>2 DEF T!Serve, T!server
    <3>2. d \in T!Changes /\ TeamSame(d, c) /\ d.answer # "ok"
      BY <1>2 DEF T!Changes, TeamSame
    <3> QED
      BY <1>1, <3>1, <3>2 DEF TeamTypes
  <2> QED
    BY <2>1, <2>2
<1>5. d.n = c.n /\ c.n \notin teamTold /\ \A k \in Settled : k.n \in T!Click /\ k.n # c.n
  BY <1>2, <1>4, TeamFacts DEF TeamSame, TeamInv, TeamOne
<1>6. d \notin Settled /\ \A k \in teamCalls : k # c => k.n # c.n
  BY <1>2, <1>5 DEF TeamInv, TeamOne
<1>7. T!Pending' = (T!Pending \ {c}) \cup {d}
  <2>1. T!Pending' = teamCalls' \cup Settled'
    BY DEF T!Pending, Settled
  <2> QED
    BY <1>2, <1>3, <1>4, <2>1
<1>8. TeamOne'
  BY <1>1, <1>2, <1>4, <1>7, TeamGoesOn
<1>9. /\ teamMade' \in [T!Click -> Nat] /\ teamClock' \in Nat
      /\ \A n \in T!Click : n # c.n => teamMade'[n] = teamMade[n]
      /\ teamMade'[c.n] = teamClock' \/ teamMade'[c.n] = teamMade[c.n]
      /\ teamClock' = teamClock \/ teamClock' = teamClock + 1
      /\ d.answer = "ok" => teamMade'[c.n] > 0
  BY <1>2, <1>4
<1>10. TeamDone'
  <2>1. \A n \in T!Click : teamMade'[n] <= teamClock'
    <3> TAKE n \in T!Click
    <3>1. n # c.n => teamMade'[n] = teamMade[n]
      BY <1>9
    <3>2. teamMade[n] \in Nat /\ teamMade[n] <= teamClock
      BY <1>2 DEF TeamInv, TeamDone
    <3> QED
      BY <1>2, <1>9, <3>1, <3>2
  <2>2. \A n \in T!Click : n # c.n /\ TeamFine(n) => TeamFine(n)'
    BY <1>1, <1>9, TeamUnlisted
  <2>3. \A n \in teamTold : n \in T!Click /\ n # c.n /\ TeamFine(n)
    BY <1>5, TeamFacts DEF TeamInv, TeamDone
  <2>4. \A k \in Settled : k.n \in T!Click /\ k.n # c.n /\ TeamFine(k.n)
    BY <1>5 DEF TeamInv, TeamDone
  <2>5. \A k \in teamCalls' : k.answer = "ok" => teamMade'[k.n] > 0
    <3> TAKE k \in teamCalls'
    <3>1. CASE k = d
      BY <1>5, <1>9, <3>1
    <3>2. CASE k \in teamCalls /\ k # c
      <4>1. k.n \in T!Click /\ k.n # c.n
        BY <1>2, <1>6, <3>2, TeamFacts
      <4> QED
        BY <1>9, <3>2, <4>1 DEF TeamInv, TeamDone
    <3> QED
      BY <1>4, <3>1, <3>2
  <2> QED
    BY <1>1, <1>3, <2>1, <2>2, <2>3, <2>4, <2>5 DEF TeamDone
<1>11. TeamQueues'
  BY <1>1, <1>3, <1>4, <1>6 DEF TeamInv, TeamQueues
<1>12. teamCalls' \subseteq T!Changes
  BY <1>2, <1>4
<1> QED
  BY <1>1, <1>4, <1>8, <1>9, <1>10, <1>11, <1>12 DEF TeamTypes, TeamInv

(* A click.                                                                *)
LEMMA TeamSends ==
  ASSUME TeamInv, NEW c \in T!Changes, T!Send(c), c.n = teamLast + 1, c.answer = None,
         \/ /\ c.op = "toggle" /\ changing = None /\ changing' \in Staff /\ UNCHANGED teamSaving
            /\ question = c.saw /\ c.to = ~c.saw.active /\ c.user # Me
         \/ c.op # "toggle" /\ ~teamSaving /\ teamSaving' = TRUE /\ UNCHANGED changing
  PROVE  TeamInv'
<1>1. /\ teamLast < TeamCalls /\ teamLast' = teamLast + 1 /\ teamCalls' = teamCalls \cup {c}
      /\ UNCHANGED <<teamRows, teamError, teamAsked, teamLoads, teamDialog, question, active,
                     teamClock, teamMade, teamTold>>
      /\ TeamTypes /\ None \notin Staff \cup {"ok"}
  BY TeamAssumption DEF T!Send, T!list, T!server, TeamInv, T!MeAssumption
<1>2. /\ TeamCalls \in Nat /\ teamLast \in 0 .. TeamCalls
      /\ T!Pending = teamCalls \cup Settled /\ \A k \in T!Pending : k.n \in 1 .. teamLast
      /\ \A n \in teamTold : n \in 1 .. teamLast
  BY TeamFacts
<1>3. Settled' = Settled /\ T!Pending' = T!Pending \cup {c}
  <2>1. Settled' = Settled
    BY <1>1 DEF Settled
  <2>2. T!Pending' = teamCalls' \cup Settled'
    BY DEF T!Pending, Settled
  <2> QED
    BY <1>1, <1>2, <2>1, <2>2
<1>4. TeamOne'
  <2>1. changing' \in Staff => changing' # None
    BY <1>1
  <2> QED
    BY <1>1, <1>3, <2>1, TeamBegins
<1>5. c \notin Settled
  BY <1>2
<1>6. TeamQueues'
  BY <1>1, <1>3, <1>5 DEF TeamInv, TeamQueues
<1>7. TeamDone'
  <2>1. \A n : TeamFine(n) => TeamFine(n)'
    BY <1>1, TeamUnlisted
  <2> QED
    BY <1>1, <1>3, <2>1 DEF TeamInv, TeamDone
<1>8. teamLast' \in 0 .. TeamCalls /\ teamTold' \subseteq 1 .. teamLast'
  BY <1>1, <1>2
<1>9. teamSaving' \in BOOLEAN /\ changing' \in Staff \cup {None} /\ teamCalls' \subseteq T!Changes
  BY <1>1 DEF TeamTypes
<1> QED
  BY <1>1, <1>4, <1>6, <1>7, <1>8, <1>9 DEF TeamTypes, TeamInv

(* What changes neither requests nor lists.                                *)
LEMMA TeamStill ==
  ASSUME TeamInv,
         UNCHANGED <<teamRows, teamError, teamAsked, teamLoads, teamSaving, changing, teamCalls,
                     teamMade, teamTold, teamLast>>,
         changing = None \/ UNCHANGED question,
         teamClock' = teamClock \/ teamClock' = teamClock + 1,
         active' \in [Staff -> BOOLEAN], teamDialog' \in T!Forms \cup {None},
         question' \in T!Forms \cup {None},
         question' # None => question'.user \in Staff \ {Me}
  PROVE  TeamInv'
<1>1. Settled' = Settled /\ T!Pending' = T!Pending
  BY DEF Settled, T!Pending
<1>2. T!ActsAsShown'
  BY <1>1 DEF TeamInv, TeamOne, T!ActsAsShown
<1>3. TeamOne' /\ TeamQueues'
  BY <1>1, <1>2 DEF TeamInv, TeamOne, TeamQueues
<1>4. teamClock \in Nat /\ \A n \in T!Click : teamMade[n] \in Nat
  BY TeamFacts
<1>5. TeamDone'
  <2>1. \A n : TeamFine(n) => TeamFine(n)'
    BY TeamUnlisted
  <2> QED
    BY <1>1, <1>4, <2>1 DEF TeamInv, TeamDone
<1> QED
  BY <1>3, <1>4, <1>5 DEF TeamInv, TeamTypes

(* Every step of the team page keeps its invariant.                        *)
LEMMA TeamStep == TeamInv /\ [T!Next]_TVars => TeamInv'
<1> SUFFICES ASSUME TeamInv, [T!Next]_TVars PROVE TeamInv'
  OBVIOUS
<1>0. /\ TeamTypes /\ New \notin Staff /\ TeamCalls \in Nat /\ teamLast \in 0 .. TeamCalls
      /\ teamRows.active \in [Staff -> BOOLEAN]
  BY TeamFacts, TeamAssumption DEF TeamInv, TeamTypes, TeamLists, T!MeAssumption
<1>1. ASSUME NEW c \in teamCalls, T!Serve(c) PROVE TeamInv'
  BY <1>1, TeamServes
<1>2. ASSUME NEW l \in teamLoads, T!Show(l) \/ T!LoadFails(l) PROVE TeamInv'
  BY <1>2, TeamShows
<1>3. ASSUME NEW l \in teamLoads, T!ServeLoad(l) PROVE TeamInv'
  <2>1. UNCHANGED <<teamRows, teamError, teamAsked, teamDialog, teamSaving, question, changing,
                    teamCalls, active, teamClock, teamMade, teamTold, teamLast>>
    BY <1>3 DEF T!ServeLoad, T!boxes, T!server, T!history
  <2>2. /\ teamLoads' \subseteq TeamLoads /\ Settled' = Settled /\ TeamQueues'
        /\ \A n \in T!Click : TeamFine(n) => TeamFine(n)'
    BY <1>3, <2>1, TeamAnswered
  <2>3. T!Pending' = T!Pending
    BY <2>1, <2>2 DEF T!Pending, Settled
  <2>4. TeamOne'
    <3>1. T!ActsAsShown'
      BY <2>1, <2>3 DEF TeamInv, TeamOne, T!ActsAsShown
    <3> QED
      BY <2>1, <2>3, <3>1 DEF TeamInv, TeamOne
  <2>5. TeamDone'
    <3>1. /\ \A n \in teamTold : n \in T!Click
          /\ \A c \in Settled : c.n \in T!Click
      BY TeamFacts
    <3> QED
      BY <2>1, <2>2, <3>1 DEF TeamInv, TeamDone
  <2> QED
    BY <1>0, <2>1, <2>2, <2>4, <2>5 DEF TeamTypes, TeamInv
<1>4. ASSUME NEW c \in teamCalls, T!Succeed(c) PROVE TeamInv'
  <2>1. /\ c.answer = "ok" /\ teamCalls' = teamCalls \ {c} /\ T!Ask(c)
        /\ UNCHANGED <<teamRows, teamDialog, teamSaving, question, changing, active, teamClock,
                       teamMade, teamTold, teamLast>>
    BY <1>4 DEF T!Succeed, T!boxes, T!server, T!history
  <2>2. /\ teamLoads' \subseteq TeamLoads /\ teamAsked' \in Nat /\ teamError' \in BOOLEAN
        /\ Settled' = Settled \cup ({c} \ {None})
        /\ \A l \in teamLoads' : l.n <= teamAsked'
        /\ \A l, m \in teamLoads' : l.n = m.n => l = m
        /\ \A l, m \in teamLoads' : l.call # None /\ l.call = m.call => l = m
        /\ \A n : teamMade[n] > 0 /\ teamMade'[n] = teamMade[n] => TeamFine(n)'
    BY <2>1, TeamAsked
  <2>3. /\ T!Pending = teamCalls \cup Settled /\ teamCalls \cap Settled = {}
        /\ c # None /\ None \notin Settled
    BY TeamFacts DEF Settled
  <2>4. Settled' = Settled \cup {c}
    BY <2>2, <2>3
  <2>5. T!Pending' = T!Pending
    <3>1. T!Pending' = teamCalls' \cup Settled'
      BY DEF T!Pending, Settled
    <3> QED
      BY <2>1, <2>3, <2>4, <3>1
  <2>6. TeamOne'
    <3>1. T!ActsAsShown'
      BY <2>1, <2>5 DEF TeamInv, TeamOne, T!ActsAsShown
    <3> QED
      BY <2>1, <2>5, <3>1 DEF TeamInv, TeamOne
  <2>7. TeamQueues'
    BY <2>1, <2>2, <2>3, <2>4 DEF TeamQueues
  <2>8. TeamDone'
    <3>1. \A n : TeamFine(n) => TeamFine(n)'
      BY <2>1, <2>2 DEF TeamFine
    <3>2. TeamFine(c.n)'
      BY <2>1, <2>2 DEF TeamInv, TeamDone
    <3> QED
      BY <2>1, <2>4, <3>1, <3>2 DEF TeamInv, TeamDone
  <2>9. teamCalls' \subseteq T!Changes
    BY <1>0, <2>1 DEF TeamTypes
  <2> QED
    BY <1>0, <2>1, <2>2, <2>6, <2>7, <2>8, <2>9 DEF TeamTypes, TeamInv
<1>5. CASE T!Filter
  <2>1. /\ T!Ask(None)
        /\ UNCHANGED <<teamRows, teamDialog, teamSaving, question, changing, active, teamClock,
                       teamMade, teamTold, teamLast, teamCalls>>
    BY <1>5 DEF T!Filter, T!boxes, T!server, T!history
  <2>2. /\ teamLoads' \subseteq TeamLoads /\ teamAsked' \in Nat /\ teamError' \in BOOLEAN
        /\ Settled' = Settled \cup ({None} \ {None})
        /\ \A l \in teamLoads' : l.n <= teamAsked'
        /\ \A l, m \in teamLoads' : l.n = m.n => l = m
        /\ \A l, m \in teamLoads' : l.call # None /\ l.call = m.call => l = m
        /\ \A n : teamMade[n] > 0 /\ teamMade'[n] = teamMade[n] => TeamFine(n)'
    BY <2>1, TeamAsked
  <2>3. Settled' = Settled
    BY <2>2 DEF Settled
  <2>4. T!Pending' = T!Pending
    BY <2>1, <2>3 DEF T!Pending, Settled
  <2>5. TeamOne'
    <3>1. T!ActsAsShown'
      BY <2>1, <2>4 DEF TeamInv, TeamOne, T!ActsAsShown
    <3> QED
      BY <2>1, <2>4, <3>1 DEF TeamInv, TeamOne
  <2>6. TeamQueues'
    BY <2>1, <2>2, <2>3 DEF TeamInv, TeamQueues
  <2>7. TeamDone'
    <3>1. \A n : TeamFine(n) => TeamFine(n)'
      BY <2>1, <2>2 DEF TeamFine
    <3> QED
      BY <2>1, <2>3, <3>1 DEF TeamInv, TeamDone
  <2> QED
    BY <1>0, <2>1, <2>2, <2>5, <2>6, <2>7 DEF TeamTypes, TeamInv
<1>6. ASSUME NEW c \in teamCalls, T!Fail(c) PROVE TeamInv'
  <2>1. UNCHANGED <<teamRows, teamError, teamAsked, teamLoads, teamDialog, question, active,
                    teamClock, teamMade, teamTold, teamLast>>
    BY <1>6 DEF T!Fail, T!list, T!server, T!history
  <2>2. /\ Settled' = Settled /\ T!Pending' = teamCalls' \cup Settled
        /\ T!Pending = teamCalls \cup Settled /\ teamCalls \cap Settled = {}
        /\ c \in T!Changes /\ c \in T!Pending
    <3>1. Settled' = Settled
      BY <2>1 DEF Settled
    <3>2. T!Pending' = teamCalls' \cup Settled'
      BY DEF T!Pending, Settled
    <3> QED
      BY <3>1, <3>2, TeamFacts
  <2>3. \A n : TeamFine(n) => TeamFine(n)'
    BY <2>1, TeamUnlisted
  <2>4. CASE c.left > 0
    <3> DEFINE d == [c EXCEPT !.left = 0, !.answer = None]
    <3>1. c.left = 1
      BY <2>2, <2>4 DEF T!Changes
    <3>2. [c EXCEPT !.left = @ - 1, !.answer = None] = d
      BY <3>1
    <3>3. teamCalls' = (teamCalls \ {c}) \cup {d} /\ UNCHANGED <<teamSaving, changing>>
      BY <1>6, <2>4, <3>2 DEF T!Fail
    <3>4. d \in T!Changes /\ TeamSame(d, c) /\ d.answer # "ok"
      BY <2>2, TeamAssumption DEF T!Changes, TeamSame, T!MeAssumption
    <3> HIDE DEF d
    <3>5. T!Pending' = (T!Pending \ {c}) \cup {d}
      BY <2>2, <3>3
    <3>6. TeamOne'
      BY <2>1, <2>2, <3>3, <3>4, <3>5, TeamGoesOn
    <3>7. d \notin Settled
      BY <2>2, <3>4 DEF TeamSame, TeamInv, TeamOne
    <3>8. TeamQueues'
      BY <2>1, <2>2, <3>3, <3>7 DEF TeamInv, TeamQueues
    <3>9. TeamDone'
      BY <2>1, <2>2, <2>3, <3>3, <3>4 DEF TeamInv, TeamDone
    <3>10. teamCalls' \subseteq T!Changes
      BY <1>0, <3>3, <3>4 DEF TeamTypes
    <3> QED
      BY <1>0, <2>1, <3>3, <3>6, <3>8, <3>9, <3>10 DEF TeamTypes, TeamInv
  <2>5. CASE ~(c.left > 0)
    <3>1. /\ teamCalls' = teamCalls \ {c} /\ teamSaving' = (teamSaving /\ c.op = "toggle")
          /\ changing' = IF c.op = "toggle" THEN None ELSE changing
      BY <1>6, <2>5 DEF T!Fail
    <3>2. T!Pending' = T!Pending \ {c}
      BY <2>2, <3>1
    <3>3. teamSaving \in BOOLEAN /\ changing \in Staff \cup {None}
      BY <1>0 DEF TeamTypes
    <3>4. \/ c.op = "toggle" /\ changing' = None /\ UNCHANGED teamSaving
          \/ c.op # "toggle" /\ UNCHANGED <<changing, question>> /\ teamSaving' = FALSE
      <4>1. CASE c.op = "toggle"
        <5>1. teamSaving' = teamSaving
          BY <3>1, <3>3, <4>1
        <5> QED
          BY <3>1, <4>1, <5>1
      <4>2. CASE c.op # "toggle"
        BY <2>1, <3>1, <4>2
      <4> QED
        BY <4>1, <4>2
    <3>5. teamTold' \subseteq teamTold \cup {c.n}
      BY <2>1
    <3>6. TeamOne'
      BY <2>1, <2>2, <3>2, <3>4, <3>5, TeamEnds
    <3>7. TeamQueues' /\ TeamDone'
      BY <2>1, <2>2, <2>3, <3>1 DEF TeamInv, TeamQueues, TeamDone
    <3>8. teamSaving' \in BOOLEAN
      BY <3>1
    <3>9. changing' \in Staff \cup {None} /\ teamCalls' \subseteq T!Changes
      BY <1>0, <3>1 DEF TeamTypes
    <3> QED
      BY <1>0, <2>1, <3>6, <3>7, <3>8, <3>9 DEF TeamTypes, TeamInv
  <2> QED
    BY <2>4, <2>5
<1>7. CASE T!Save
  <2> DEFINE c == [n |-> teamLast + 1,
                   op |-> IF teamDialog.user = New THEN "invite" ELSE "edit",
                   user |-> teamDialog.user, to |-> teamDialog.active, saw |-> teamDialog,
                   left |-> IF teamDialog.user = New THEN 0 ELSE 1, answer |-> None]
  <2>1. /\ teamDialog # None /\ ~teamSaving /\ teamSaving' = TRUE /\ UNCHANGED changing
        /\ T!Send(c)
    BY <1>7 DEF T!Save
  <2>2. teamDialog \in T!Forms /\ teamLast + 1 \in T!Click
    BY <1>0, <2>1 DEF TeamTypes, T!Send, T!Click
  <2>3. /\ c \in T!Changes /\ c.n = teamLast + 1 /\ c.answer = None /\ c.op # "toggle"
    BY <2>2 DEF T!Changes, T!Forms
  <2> HIDE DEF c
  <2> QED
    BY <2>1, <2>3, TeamSends
<1>8. CASE T!Toggle
  <2> DEFINE c == [n |-> teamLast + 1, op |-> "toggle", user |-> question.user,
                   to |-> ~question.active, saw |-> question, left |-> 1, answer |-> None]
  <2>1. /\ question # None /\ changing = None /\ changing' = question.user
        /\ UNCHANGED teamSaving /\ T!Send(c)
    BY <1>8 DEF T!Toggle
  <2>2. question \in T!Forms /\ teamLast + 1 \in T!Click /\ question.user \in Staff \ {Me}
    BY <1>0, <2>1 DEF TeamTypes, T!Send, T!Click
  <2>3. /\ c \in T!Changes /\ c.n = teamLast + 1 /\ c.answer = None /\ c.op = "toggle"
        /\ c.saw = question /\ c.to = ~c.saw.active /\ c.user = question.user
    BY <2>2 DEF T!Changes, T!Forms
  <2> HIDE DEF c
  <2> QED
    BY <2>1, <2>2, <2>3, TeamSends
<1>9. CASE T!CloseDialog
  BY <1>0, <1>9, TeamStill
  DEF T!CloseDialog, T!list, T!server, T!history, TeamTypes
<1>10. ASSUME NEW u \in Staff \cup {New}, T!OpenDialog(u) PROVE TeamInv'
  <2>1. /\ teamDialog' = [user |-> u, active |-> IF u = New THEN TRUE ELSE teamRows.active[u]]
        /\ UNCHANGED <<teamRows, teamError, teamAsked, teamLoads, teamSaving, changing, question,
                       teamCalls, active, teamClock, teamMade, teamTold, teamLast>>
    BY <1>10 DEF T!OpenDialog, T!list, T!server, T!history
  <2>2. (IF u = New THEN TRUE ELSE teamRows.active[u]) \in BOOLEAN
    BY <1>0
  <2>3. teamDialog' \in T!Forms \cup {None}
    BY <2>1, <2>2 DEF T!Forms
  <2> QED
    BY <1>0, <2>1, <2>3, TeamStill DEF TeamTypes
<1>11. ASSUME NEW u \in Staff, T!AskAccess(u) PROVE TeamInv'
  <2>1. /\ question' = [user |-> u, active |-> teamRows.active[u]] /\ changing = None
        /\ UNCHANGED <<teamRows, teamError, teamAsked, teamLoads, teamSaving, changing,
                       teamDialog, teamCalls, active, teamClock, teamMade, teamTold, teamLast>>
    BY <1>11 DEF T!AskAccess, T!list, T!server, T!history
  <2>2. question' \in T!Forms \cup {None} /\ question'.user \in Staff \ {Me}
    BY <1>0, <1>11, <2>1 DEF T!Forms, T!AskAccess
  <2> QED
    BY <1>0, <2>1, <2>2, TeamStill DEF TeamTypes
<1>12. CASE T!Dismiss
  <2>1. /\ question' = None /\ changing = None
        /\ UNCHANGED <<teamRows, teamError, teamAsked, teamLoads, teamSaving, changing,
                       teamDialog, teamCalls, active, teamClock, teamMade, teamTold, teamLast>>
    BY <1>12 DEF T!Dismiss, T!Dismissable, T!list, T!server, T!history
  <2> QED
    BY <1>0, <2>1, TeamStill DEF TeamTypes
<1>13. ASSUME NEW u \in Staff, T!OthersChange(u) PROVE TeamInv'
  <2>1. /\ teamClock' = teamClock + 1 /\ active' = [active EXCEPT ![u] = ~active[u]]
        /\ UNCHANGED <<teamRows, teamError, teamAsked, teamLoads, teamSaving, changing,
                       teamDialog, question, teamCalls, teamMade, teamTold, teamLast>>
    BY <1>13 DEF T!OthersChange, T!list, T!boxes
  <2>2. active' \in [Staff -> BOOLEAN]
    BY <1>0, <2>1 DEF TeamTypes
  <2> QED
    BY <1>0, <2>1, <2>2, TeamStill DEF TeamTypes
<1>14. CASE UNCHANGED TVars
  BY <1>0, <1>14, TeamStill DEF TVars, TeamTypes
<1> QED
  BY <1>1, <1>2, <1>3, <1>4, <1>5, <1>6, <1>7, <1>8, <1>9, <1>10, <1>11, <1>12, <1>13, <1>14
  DEF T!Next

=============================================================================
