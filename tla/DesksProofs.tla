----------------------------- MODULE DesksProofs ----------------------------
(* The requests of guests, the settings, the tabs of a browser and the     *)
(* file of a guest: inductive invariants as in PagesProofs, and from all   *)
(* of them the properties of the composition MCDesks.                      *)
EXTENDS PagesProofs, TLAPS

-----------------------------------------------------------------------------
(* The requests of guests (RequestsDesk).                                  *)

Submitted ==
  [step : {"sent", "saved", "refused"}, id : Requests, decision : Q!Decisions, again : BOOLEAN,
   total : Prices \cup {None}]

RequestTypes ==
  /\ decisions \in [Requests -> Q!Decisions \cup {None}]
  /\ totals \in [Requests -> Prices \cup {None}]
  /\ price \in [Requests -> Prices]
  /\ review \in [Requests -> Q!Reviews \cup {None}]
  /\ requestsBusy \in {None, Q!Listing} \cup Submitted /\ notice \in BOOLEAN

(* A request on the screen has a form that is filled in.                   *)
Filled(r) == r \in Requests /\ decisions[r] \in Q!Decisions /\ totals[r] \in Prices

RequestForms ==
  /\ \A row1 \in requestsRows : Filled(row1.id)
  /\ selected # None => Filled(selected.id)
  /\ requestsBusy # None /\ requestsBusy.step # "list" => Filled(requestsBusy.id)
  /\ Q!ActsAsShown

RequestDone ==
  /\ requestsBusy # None /\ requestsBusy.step = "saved" =>
       review[requestsBusy.id] = [decision |-> requestsBusy.decision,
                                  total |-> requestsBusy.total]
  /\ notice => /\ requestsTold.id \in Requests /\ requestsTold.decision \in Q!Decisions
               /\ requestsTold.total \in Prices \cup {None}
  /\ Q!ToldIsDone

RequestInv == RequestTypes /\ RequestForms /\ RequestDone

(* The page of requests begins well.                                       *)
LEMMA RequestInit == Q!Init => RequestInv
<1> SUFFICES ASSUME Q!Init PROVE RequestInv
  OBVIOUS
<1>1. /\ requestsRows = {} /\ selected = None /\ decisions = [r \in Requests |-> None]
      /\ totals = [r \in Requests |-> None] /\ requestsBusy = Q!Listing /\ notice = FALSE
      /\ review = [r \in Requests |-> None] /\ price \in [Requests -> Prices]
  BY DEF Q!Init
<1>2. notice \in BOOLEAN /\ ~notice
  BY <1>1
<1>3. RequestTypes
  BY <1>1, <1>2 DEF RequestTypes
<1>4. requestsBusy.step = "list"
  BY <1>1 DEF Q!Listing
<1>5. RequestForms
  BY <1>1, <1>4 DEF RequestForms, Q!ActsAsShown
<1>6. RequestDone
  BY <1>2, <1>4 DEF RequestDone, Q!ToldIsDone
<1> QED
  BY <1>3, <1>5, <1>6 DEF RequestInv

(* Its invariant implies what it promises.                                 *)
LEMMA RequestHolds == RequestInv => Q!TypeOK /\ Q!ToldIsDone /\ Q!ActsAsShown
BY DEF RequestInv, RequestTypes, RequestForms, RequestDone, Filled, Q!TypeOK

(* What has been decided is not decided again.                             *)
LEMMA RequestServed == ASSUME RequestInv, Q!Serve PROVE RequestInv'
<1>1. /\ requestsBusy # None /\ requestsBusy.step = "sent"
      /\ requestsBusy \in Submitted /\ requestsBusy.id \in Requests
      /\ requestsBusy.decision \in Q!Decisions /\ requestsBusy.total \in Prices \cup {None}
      /\ Filled(requestsBusy.id)
  <2>1. requestsBusy # None /\ requestsBusy.step = "sent"
    BY DEF Q!Serve, Q!At
  <2>2. requestsBusy \in Submitted
    BY <2>1 DEF RequestInv, RequestTypes, Q!Listing
  <2> QED
    BY <2>1, <2>2 DEF Submitted, RequestInv, RequestForms
<1>2. /\ UNCHANGED <<requestsRows, selected, decisions, totals, notice, requestsTold>>
      /\ RequestTypes /\ Q!ActsAsShown
  BY DEF Q!Serve, Q!list, Q!form, RequestInv, RequestForms
<1>3. \A r : Filled(r) => Filled(r)'
  BY <1>2 DEF Filled
<1>4. ASSUME NEW s \in {"saved", "refused"}, requestsBusy' = [requestsBusy EXCEPT !.step = s]
      PROVE  /\ requestsBusy' \in Submitted /\ RequestForms' /\ requestsBusy'.step = s
             /\ requestsBusy'.id = requestsBusy.id
             /\ requestsBusy'.decision = requestsBusy.decision
             /\ requestsBusy'.total = requestsBusy.total
  <2>1. /\ requestsBusy' \in Submitted /\ requestsBusy'.step = s
        /\ requestsBusy'.id = requestsBusy.id
        /\ requestsBusy'.decision = requestsBusy.decision
        /\ requestsBusy'.total = requestsBusy.total
    BY <1>1, <1>4 DEF Submitted
  <2>2. Q!ActsAsShown'
    BY <1>1, <1>2, <2>1 DEF Q!ActsAsShown
  <2> QED
    BY <1>1, <1>2, <1>3, <2>1, <2>2 DEF RequestForms, RequestInv
<1>5. CASE /\ review[requestsBusy.id] = None
           /\ review' = [review EXCEPT ![requestsBusy.id] =
                           [decision |-> requestsBusy.decision, total |-> requestsBusy.total]]
           /\ price' = IF requestsBusy.decision = "approved"
                       THEN [price EXCEPT ![requestsBusy.id] = requestsBusy.total] ELSE price
           /\ requestsBusy' = [requestsBusy EXCEPT !.step = "saved"]
  <2>1. [decision |-> requestsBusy.decision, total |-> requestsBusy.total] \in Q!Reviews
    BY <1>1 DEF Q!Reviews
  <2>2. review' \in [Requests -> Q!Reviews \cup {None}]
    BY <1>1, <1>2, <1>5, <2>1 DEF RequestTypes
  <2>3. requestsBusy.decision = "approved" => requestsBusy.total \in Prices
    BY <1>1, <1>2 DEF Q!ActsAsShown, Filled
  <2>4. price' \in [Requests -> Prices]
    BY <1>1, <1>2, <1>5, <2>3 DEF RequestTypes
  <2>5. RequestTypes' /\ RequestForms'
    BY <1>2, <1>4, <1>5, <2>2, <2>4 DEF RequestTypes
  <2>6. notice => /\ requestsTold.id \in Requests /\ requestsTold.id # requestsBusy.id
                  /\ review'[requestsTold.id] = review[requestsTold.id]
    <3>1. notice => /\ requestsTold.id \in Requests
                    /\ review[requestsTold.id] = [decision |-> requestsTold.decision,
                                                  total |-> requestsTold.total]
      BY DEF RequestInv, RequestDone, Q!ToldIsDone
    <3>2. notice => review[requestsTold.id] # None
      BY <3>1, RequestAssumption DEF RequestInv, RequestDone, Q!Reviews, Q!NoneAssumption
    <3> QED
      BY <1>1, <1>2, <1>5, <3>1, <3>2 DEF RequestTypes
  <2>7. RequestDone'
    BY <1>1, <1>2, <1>4, <1>5, <2>6 DEF RequestInv, RequestTypes, RequestDone, Q!ToldIsDone
  <2> QED
    BY <2>5, <2>7 DEF RequestInv
<1>6. CASE requestsBusy' = [requestsBusy EXCEPT !.step = "refused"] /\ UNCHANGED <<review, price>>
  BY <1>2, <1>4, <1>6 DEF RequestInv, RequestTypes, RequestDone, Q!ToldIsDone
<1> QED
  BY <1>5, <1>6 DEF Q!Serve, Q!server

(* What goes on without the server.                                        *)
LEMMA RequestStill ==
  ASSUME RequestInv, RequestTypes', UNCHANGED <<review, requestsTold>>,
         \A row1 \in requestsRows' : Filled(row1.id)',
         (selected # None => Filled(selected.id))',
         notice' => notice,
         \/ requestsBusy' = None \/ requestsBusy'.step = "list"
         \/ /\ UNCHANGED <<requestsBusy, selected, decisions, totals>>
            /\ requestsBusy # None
  PROVE  RequestInv'
<1>1. RequestForms'
  <2>1. CASE requestsBusy' = None \/ requestsBusy'.step = "list"
    BY <2>1 DEF RequestForms, Q!ActsAsShown
  <2>2. CASE UNCHANGED <<requestsBusy, selected, decisions, totals>>
    BY <2>2 DEF RequestInv, RequestForms, Filled, Q!ActsAsShown
  <2> QED
    BY <2>1, <2>2
<1>2. RequestDone'
  BY DEF RequestInv, RequestDone, Q!ToldIsDone, Q!Listing
<1> QED
  BY <1>1, <1>2 DEF RequestInv

(* Every step of the page of requests keeps its invariant.                 *)
LEMMA RequestStep == RequestInv /\ [Q!Next]_QVars => RequestInv'
<1> SUFFICES ASSUME RequestInv, [Q!Next]_QVars PROVE RequestInv'
  OBVIOUS
<1>0. RequestTypes /\ RequestForms /\ RequestDone /\ Q!Listing.step = "list"
  BY DEF RequestInv, Q!Listing
<1>1. CASE Q!Serve
  BY <1>1, RequestServed
<1>2. ASSUME NEW f, Q!Load(f) PROVE RequestInv'
  <2>1. /\ requestsBusy' = Q!Listing
        /\ UNCHANGED <<requestsRows, selected, decisions, totals, notice, review, price,
                       requestsTold>>
    BY <1>2 DEF Q!Load, Q!Run, Q!form, Q!server
  <2> QED
    BY <1>0, <2>1, RequestStill DEF RequestTypes, RequestForms, Filled
<1>3. ASSUME NEW row1 \in requestsRows, Q!Open(row1) PROVE RequestInv'
  <2>1. /\ requestsBusy = None /\ selected' = row1 /\ notice' = FALSE
        /\ UNCHANGED <<requestsRows, requestsBusy, decisions, totals, review, price, requestsTold>>
    BY <1>3 DEF Q!Open, Q!Idle, Q!list, Q!server
  <2>2. notice' \in BOOLEAN /\ ~notice'
    BY <2>1
  <2> QED
    BY <1>0, <2>1, <2>2, RequestStill DEF RequestTypes, RequestForms, Filled
<1>4. CASE Q!Close
  <2>1. /\ requestsBusy = None /\ selected' = None
        /\ UNCHANGED <<requestsRows, requestsBusy, decisions, totals, review, price, notice,
                       requestsTold>>
    BY <1>4 DEF Q!Close, Q!CanClose, Q!Idle, Q!list, Q!server
  <2> QED
    BY <1>0, <2>1, RequestStill DEF RequestTypes, RequestForms, Filled
<1>5. ASSUME NEW d \in Q!Decisions, Q!Choose(d) PROVE RequestInv'
  <2>1. /\ requestsBusy = None /\ selected # None
        /\ decisions' = [decisions EXCEPT ![selected.id] = d]
        /\ UNCHANGED <<requestsRows, requestsBusy, selected, totals, review, price, notice,
                       requestsTold>>
    BY <1>5 DEF Q!Choose, Q!Decidable, Q!Idle, Q!list, Q!server
  <2>2. decisions' \in [Requests -> Q!Decisions \cup {None}] /\ \A r : Filled(r) => Filled(r)'
    BY <1>0, <2>1 DEF RequestTypes, RequestForms, Filled
  <2> QED
    BY <1>0, <2>1, <2>2, RequestStill DEF RequestTypes, RequestForms
<1>6. ASSUME NEW p \in Prices, Q!Agree(p) PROVE RequestInv'
  <2>1. /\ requestsBusy = None /\ selected # None
        /\ totals' = [totals EXCEPT ![selected.id] = p]
        /\ UNCHANGED <<requestsRows, requestsBusy, selected, decisions, review, price, notice,
                       requestsTold>>
    BY <1>6 DEF Q!Agree, Q!Decidable, Q!Idle, Q!list, Q!server
  <2>2. totals' \in [Requests -> Prices \cup {None}] /\ \A r : Filled(r) => Filled(r)'
    BY <1>0, <2>1 DEF RequestTypes, RequestForms, Filled
  <2> QED
    BY <1>0, <2>1, <2>2, RequestStill DEF RequestTypes, RequestForms
<1>7. CASE Q!Submit
  <2> DEFINE r == selected.id
             one == [step |-> "sent", id |-> r, decision |-> decisions[r], again |-> FALSE,
                     total |-> IF decisions[r] = "approved" THEN totals[r] ELSE None]
  <2>1. /\ selected # None /\ requestsBusy' = one
        /\ UNCHANGED <<requestsRows, selected, decisions, totals, notice, review, price,
                       requestsTold>>
    BY <1>7 DEF Q!Submit, Q!Decidable, Q!Run, Q!list, Q!form, Q!server
  <2>2. Filled(r)
    BY <1>0, <2>1 DEF RequestForms
  <2>3. /\ one \in Submitted /\ one.step = "sent" /\ one.id = r /\ one.decision = decisions[r]
        /\ one.decision = "approved" => one.total = totals[r]
    BY <2>2 DEF Submitted, Filled
  <2> HIDE DEF r, one
  <2>4. Q!ActsAsShown'
    BY <2>1, <2>3 DEF Q!ActsAsShown, r
  <2>5. RequestForms'
    BY <1>0, <2>1, <2>2, <2>3, <2>4 DEF RequestForms, Filled, r
  <2>6. RequestTypes' /\ RequestDone'
    BY <1>0, <2>1, <2>3 DEF RequestTypes, RequestDone, Q!ToldIsDone
  <2> QED
    BY <2>5, <2>6 DEF RequestInv
<1>8. CASE Q!Repeat
  <2>1. /\ requestsBusy # None /\ requestsBusy.step \in {"sent", "saved"}
        /\ requestsBusy' = [requestsBusy EXCEPT !.step = "sent", !.again = TRUE]
        /\ UNCHANGED <<requestsRows, selected, decisions, totals, notice, review, price,
                       requestsTold>>
    BY <1>8 DEF Q!Repeat, Q!list, Q!form, Q!server
  <2>2. requestsBusy \in Submitted
    BY <1>0, <2>1 DEF RequestTypes
  <2>3. /\ requestsBusy' \in Submitted /\ requestsBusy'.step = "sent"
        /\ requestsBusy'.id = requestsBusy.id /\ requestsBusy'.decision = requestsBusy.decision
        /\ requestsBusy'.total = requestsBusy.total
    BY <2>1, <2>2 DEF Submitted
  <2>4. Q!ActsAsShown'
    BY <1>0, <2>1, <2>3 DEF RequestForms, Q!ActsAsShown
  <2>5. RequestForms'
    BY <1>0, <2>1, <2>3, <2>4 DEF RequestForms, Filled
  <2>6. RequestTypes' /\ RequestDone'
    BY <1>0, <2>1, <2>3 DEF RequestTypes, RequestDone, Q!ToldIsDone
  <2> QED
    BY <2>5, <2>6 DEF RequestInv
<1>9. CASE Q!Decided
  <2>1. /\ requestsBusy # None /\ requestsBusy.step = "saved" /\ selected' = None
        /\ notice' = TRUE /\ requestsBusy' = Q!Listing
        /\ requestsTold' = [id |-> requestsBusy.id, decision |-> requestsBusy.decision,
                            total |-> requestsBusy.total]
        /\ UNCHANGED <<requestsRows, decisions, totals, review, price>>
    BY <1>9 DEF Q!Decided, Q!At, Q!list, Q!server
  <2>2. requestsBusy \in Submitted
    BY <1>0, <2>1 DEF RequestTypes
  <2>3. RequestForms'
    BY <1>0, <2>1 DEF RequestForms, Filled, Q!ActsAsShown
  <2>4. notice' \in BOOLEAN
    BY <2>1
  <2>5. RequestTypes'
    BY <1>0, <2>1, <2>4 DEF RequestTypes
  <2>6. RequestDone'
    BY <1>0, <2>1, <2>2 DEF RequestDone, Q!ToldIsDone, Submitted
  <2> QED
    BY <2>3, <2>5, <2>6 DEF RequestInv
<1>10. CASE Q!Listed
  <2> DEFINE found == {r \in Requests : Q!Status(r) = filter}
  <2>1. /\ requestsRows' = {[id |-> r, status |-> filter] : r \in found}
        /\ decisions' = [r \in Requests |-> IF r \in found THEN Q!Default(decisions, r, "approved")
                                            ELSE decisions[r]]
        /\ totals' = [r \in Requests |-> IF r \in found THEN Q!Default(totals, r, price[r])
                                         ELSE totals[r]]
        /\ requestsBusy' = None
        /\ UNCHANGED <<selected, notice, review, price, requestsTold>>
    BY <1>10 DEF Q!Listed, Q!server
  <2>2. /\ decisions' \in [Requests -> Q!Decisions \cup {None}]
        /\ \A r \in found : decisions'[r] \in Q!Decisions
        /\ \A r \in Requests : decisions[r] \in Q!Decisions => decisions'[r] \in Q!Decisions
    BY <1>0, <2>1 DEF RequestTypes, Q!Default, Q!Decisions
  <2>3. /\ totals' \in [Requests -> Prices \cup {None}]
        /\ \A r \in found : totals'[r] \in Prices
        /\ \A r \in Requests : totals[r] \in Prices => totals'[r] \in Prices
    BY <1>0, <2>1 DEF RequestTypes, Q!Default
  <2>4. \A row1 \in requestsRows' : row1.id \in found
    BY <2>1
  <2>5. found \subseteq Requests
    OBVIOUS
  <2> HIDE DEF found
  <2>6. /\ \A r : Filled(r) => Filled(r)'
        /\ \A r \in found : Filled(r)'
    BY <2>2, <2>3, <2>5 DEF Filled
  <2>7. RequestTypes'
    BY <1>0, <2>1, <2>2, <2>3 DEF RequestTypes
  <2>8. /\ \A row1 \in requestsRows' : Filled(row1.id)'
        /\ (selected # None => Filled(selected.id))'
    BY <1>0, <2>1, <2>4, <2>6 DEF RequestForms
  <2> QED
    BY <2>1, <2>7, <2>8, RequestStill
<1>11. CASE Q!Fail
  <2>1. /\ requestsBusy' = None
        /\ UNCHANGED <<requestsRows, selected, decisions, totals, notice, review, price,
                       requestsTold>>
    BY <1>11 DEF Q!Fail, Q!list, Q!form, Q!server
  <2> QED
    BY <1>0, <2>1, RequestStill DEF RequestTypes, RequestForms, Filled
<1>12. ASSUME NEW r \in Requests, NEW d \in Q!Decisions, Q!OthersReview(r, d) PROVE RequestInv'
  <2>1. /\ review[r] = None /\ review' = [review EXCEPT ![r] = [decision |-> d, total |-> None]]
        /\ UNCHANGED <<requestsRows, selected, decisions, totals, requestsBusy, notice, price,
                       requestsTold>>
    BY <1>12 DEF Q!OthersReview, Q!list, Q!form
  <2>2. [decision |-> d, total |-> None] \in Q!Reviews
    BY DEF Q!Reviews
  <2>3. RequestTypes'
    BY <1>0, <2>1, <2>2 DEF RequestTypes
  <2>4. RequestForms'
    BY <1>0, <2>1 DEF RequestForms, Filled, Q!ActsAsShown
  <2>5. \A q \in Requests : \A v \in Q!Reviews : review[q] = v => review'[q] = v
    BY <1>0, <2>1, RequestAssumption DEF RequestTypes, Q!NoneAssumption
  <2>6. notice =>
          [decision |-> requestsTold.decision, total |-> requestsTold.total] \in Q!Reviews
    BY <1>0 DEF RequestDone, Q!Reviews
  <2>7. requestsBusy # None /\ requestsBusy.step = "saved" =>
          /\ requestsBusy.id \in Requests
          /\ [decision |-> requestsBusy.decision, total |-> requestsBusy.total] \in Q!Reviews
    BY <1>0 DEF RequestTypes, Submitted, Q!Reviews
  <2>8. RequestDone'
    BY <1>0, <2>1, <2>5, <2>6, <2>7 DEF RequestDone, Q!ToldIsDone
  <2> QED
    BY <2>3, <2>4, <2>8 DEF RequestInv
<1>13. ASSUME NEW r \in Requests, NEW p \in Prices, Q!OthersReprice(r, p) PROVE RequestInv'
  <2>1. /\ price' = [price EXCEPT ![r] = p]
        /\ UNCHANGED <<requestsRows, selected, decisions, totals, requestsBusy, notice, review,
                       requestsTold>>
    BY <1>13 DEF Q!OthersReprice, Q!list, Q!form
  <2>2. RequestTypes'
    BY <1>0, <2>1 DEF RequestTypes
  <2> QED
    BY <1>0, <2>1, <2>2
    DEF RequestInv, RequestForms, RequestDone, Filled, Q!ActsAsShown, Q!ToldIsDone
<1>14. CASE UNCHANGED QVars
  BY <1>0, <1>14
  DEF QVars, RequestInv, RequestTypes, RequestForms, RequestDone, Filled, Q!ActsAsShown,
      Q!ToldIsDone
<1> QED
  BY <1>1, <1>2, <1>3, <1>4, <1>5, <1>6, <1>7, <1>8, <1>9, <1>10, <1>11, <1>12, <1>13, <1>14
  DEF Q!Next
-----------------------------------------------------------------------------
(* The settings (SettingsPage).                                            *)

SettingsReads == [visit : Nat, left : {0, 1}, answer : {None} \cup H!Rows]
SettingsSaves == [n : H!Click, form : H!Rows, left : {0, 1}, answer : {None} \cup H!Rows]

SettingsTypes ==
  /\ settingsTab \in H!Tabs \cup {None} /\ settingsVisit \in Nat
  /\ settingsForm \in H!Rows /\ settingsBaseline \in H!Rows /\ shared \in H!Rows /\ row \in H!Rows
  /\ loaded \in BOOLEAN /\ settingsSaving \in BOOLEAN
  /\ settingsLoads \subseteq SettingsReads /\ settingsCalls \subseteq SettingsSaves
  /\ prefs \in Texts \cup {NoText} /\ stored \in Texts \cup {NoText}
  /\ settingsMade \in [H!Click -> Nat] /\ over \in [H!Click -> Nat]
  /\ settingsTold \subseteq 1 .. settingsLast /\ settingsLast \in 0 .. MaxCalls
  /\ settingsConfirmed \in Nat /\ settingsTyped \in Nat

(* One save at a time, and the form is no newer than what all pages share. *)
SettingsFlow ==
  /\ settingsSaving => settingsCalls # {}
  /\ settingsCalls # {} => settingsSaving
  /\ settingsSaving => settingsTab # None
  /\ ~loaded => settingsForm = settingsBaseline
  /\ loaded => settingsForm.version <= shared.version
  /\ \A c, d \in settingsCalls : c = d

SettingsDone ==
  /\ \A c \in settingsCalls :
       /\ c.n <= settingsLast /\ c.n \notin settingsTold
       /\ c.answer \notin {None, H!Refused} => settingsMade[c.n] > 0
  /\ \A n \in H!Click : n > settingsLast => settingsMade[n] = 0
  /\ H!ToldIsDone

SettingsInv == SettingsTypes /\ SettingsFlow /\ SettingsDone

(* The settings begin well.                                                *)
LEMMA SettingsInit == H!Init => SettingsInv
<1> SUFFICES ASSUME H!Init PROVE SettingsInv
  OBVIOUS
<1>1. /\ settingsTab = None /\ settingsVisit = 0 /\ shared = H!Default /\ settingsForm = H!Default
      /\ settingsBaseline = H!Default /\ loaded = FALSE /\ settingsSaving = FALSE
      /\ prefs = NoText /\ stored = NoText /\ settingsLoads = {} /\ settingsCalls = {}
      /\ row \in [text : Texts, version : {1}]
      /\ settingsMade = [n \in H!Click |-> 0] /\ over = [n \in H!Click |-> 0]
      /\ settingsTold = {} /\ settingsConfirmed = 0 /\ settingsTyped = 0 /\ settingsLast = 0
  BY DEF H!Init
<1>2. H!Default \in H!Rows /\ row \in H!Rows
  BY <1>1 DEF H!Default, H!Rows
<1>3. loaded \in BOOLEAN /\ settingsSaving \in BOOLEAN /\ ~loaded /\ ~settingsSaving
  BY <1>1
<1>4. settingsLast \in 0 .. MaxCalls /\ settingsTold \subseteq 1 .. settingsLast
  BY <1>1, SettingsAssumption DEF H!BoundAssumption
<1>5. SettingsTypes
  BY <1>1, <1>2, <1>3, <1>4 DEF SettingsTypes
<1>6. SettingsFlow
  BY <1>1, <1>3 DEF SettingsFlow
<1>7. SettingsDone
  BY <1>1 DEF SettingsDone, H!ToldIsDone
<1> QED
  BY <1>5, <1>6, <1>7 DEF SettingsInv

(* Their invariant implies what they promise.                              *)
LEMMA SettingsHolds == SettingsInv => H!TypeOK /\ H!ToldIsDone
<1> SUFFICES ASSUME SettingsInv PROVE H!TypeOK /\ H!ToldIsDone
  OBVIOUS
<1>1. settingsSaving <=> settingsCalls # {}
  BY DEF SettingsInv, SettingsFlow
<1>2. (settingsSaving => settingsTab # None) /\ (~loaded => ~H!FormDirty)
  BY DEF SettingsInv, SettingsFlow, H!FormDirty
<1> QED
  BY <1>1, <1>2 DEF SettingsInv, SettingsTypes, SettingsDone, H!TypeOK

(* What the invariant says of loads and saves on their way.                *)
LEMMA SettingsFacts ==
  ASSUME SettingsInv
  PROVE  /\ MaxCalls \in Nat /\ settingsLast \in 0 .. MaxCalls
         /\ shared.version \in Nat /\ settingsForm.version \in Nat /\ row.version \in Nat
         /\ \A c \in settingsCalls :
              /\ c \in SettingsSaves /\ c.n \in H!Click /\ c.n \in 1 .. settingsLast
              /\ c.form \in H!Rows /\ c.form.version \in Nat
              /\ c.left \in {0, 1} /\ c.answer \in {None} \cup H!Rows
         /\ \A l \in settingsLoads :
              /\ l \in SettingsReads /\ l.left \in {0, 1} /\ l.answer \in {None} \cup H!Rows
<1>1. MaxCalls \in Nat /\ settingsLast \in 0 .. MaxCalls
  BY SettingsAssumption DEF SettingsInv, SettingsTypes, H!BoundAssumption
<1>2. shared.version \in Nat /\ settingsForm.version \in Nat /\ row.version \in Nat
  BY DEF SettingsInv, SettingsTypes, H!Rows
<1>3. ASSUME NEW c \in settingsCalls
      PROVE  /\ c \in SettingsSaves /\ c.n \in H!Click /\ c.n \in 1 .. settingsLast
             /\ c.form \in H!Rows /\ c.form.version \in Nat
             /\ c.left \in {0, 1} /\ c.answer \in {None} \cup H!Rows
  <2>1. c \in SettingsSaves /\ c.n <= settingsLast
    BY DEF SettingsInv, SettingsTypes, SettingsDone
  <2>2. /\ c.n \in H!Click /\ c.form \in H!Rows /\ c.left \in {0, 1}
        /\ c.answer \in {None} \cup H!Rows
    BY <2>1 DEF SettingsSaves
  <2>3. c.form.version \in Nat /\ c.n \in 1 .. settingsLast
    BY <1>1, <2>1, <2>2 DEF H!Rows, H!Click
  <2> QED
    BY <2>1, <2>2, <2>3
<1>4. ASSUME NEW l \in settingsLoads
      PROVE  l \in SettingsReads /\ l.left \in {0, 1} /\ l.answer \in {None} \cup H!Rows
  BY DEF SettingsInv, SettingsTypes, SettingsReads
<1> QED
  BY <1>1, <1>2, <1>3, <1>4

(* What asks for nothing and answers nothing.                              *)
LEMMA SettingsStill ==
  ASSUME SettingsInv, SettingsTypes',
         UNCHANGED <<settingsSaving, settingsCalls, settingsMade, over, settingsTold,
           settingsLast>>,
         settingsSaving => settingsTab' # None,
         ~loaded' => settingsForm' = settingsBaseline',
         loaded' => settingsForm'.version <= shared'.version
  PROVE  SettingsInv'
<1>1. SettingsFlow'
  BY DEF SettingsInv, SettingsFlow
<1>2. SettingsDone'
  BY DEF SettingsInv, SettingsDone, H!ToldIsDone
<1> QED
  BY <1>1, <1>2 DEF SettingsInv

(* Every step of the settings keeps their invariant.                       *)
LEMMA SettingsStep == SettingsInv /\ [H!Next]_HVars => SettingsInv'
<1> SUFFICES ASSUME SettingsInv, [H!Next]_HVars PROVE SettingsInv'
  OBVIOUS
<1>0. /\ SettingsTypes /\ SettingsFlow /\ SettingsDone /\ None \notin H!Tabs \cup Texts
      /\ shared.version \in Nat /\ settingsForm.version \in Nat /\ row.version \in Nat
      /\ MaxCalls \in Nat /\ settingsLast \in 0 .. MaxCalls
  BY SettingsFacts, SettingsAssumption DEF SettingsInv, H!BlankAssumption, H!Tabs
<1>1. CASE H!Open
  <2>1. /\ settingsTab = None /\ settingsVisit' = settingsVisit + 1 /\ settingsTab' = "general"
        /\ settingsForm' = H!Default /\ settingsBaseline' = H!Default
        /\ loaded' = FALSE /\ settingsSaving' = FALSE /\ prefs' = stored
        /\ UNCHANGED <<shared, stored, settingsCalls, row, settingsMade, over, settingsTold,
                       settingsConfirmed, settingsTyped, settingsLast>>
        /\ settingsLoads' = settingsLoads \cup
             {[visit |-> settingsVisit + 1, left |-> 1, answer |-> None]}
    BY <1>1 DEF H!Open, H!Ask, H!history
  <2>2. H!Default \in H!Rows
    BY DEF H!Default, H!Rows
  <2>3. settingsLoads' \subseteq SettingsReads
    <3>1. [visit |-> settingsVisit + 1, left |-> 1, answer |-> None] \in SettingsReads
      BY <1>0 DEF SettingsReads, SettingsTypes
    <3> QED
      BY <1>0, <2>1, <3>1 DEF SettingsTypes
  <2>4. loaded' \in BOOLEAN /\ ~loaded' /\ settingsSaving' \in BOOLEAN /\ ~settingsSaving'
    BY <2>1
  <2>5. settingsTab' \in H!Tabs \cup {None}
    BY <2>1 DEF H!Tabs
  <2>6. SettingsTypes'
    BY <1>0, <2>1, <2>2, <2>3, <2>4, <2>5 DEF SettingsTypes
  <2>7. ~settingsSaving /\ settingsCalls = {}
    BY <1>0, <2>1 DEF SettingsFlow
  <2>8. SettingsFlow'
    BY <2>1, <2>4, <2>7 DEF SettingsFlow
  <2>9. SettingsDone'
    BY <1>0, <2>1 DEF SettingsDone, H!ToldIsDone
  <2> QED
    BY <2>6, <2>8, <2>9 DEF SettingsInv
<1>2. CASE H!Leave
  <2>1. /\ ~settingsSaving /\ settingsTab' = None
        /\ settingsConfirmed' = settingsConfirmed + IF H!Dirty THEN 1 ELSE 0
        /\ UNCHANGED <<settingsVisit, shared, settingsForm, settingsBaseline, loaded,
             settingsSaving, prefs, stored, settingsLoads, settingsCalls, row, settingsMade, over,
             settingsTold, settingsTyped, settingsLast>>
    BY <1>2 DEF H!Leave, H!LeaveGuard, H!local, H!drafts, H!browser, H!history
  <2>2. settingsConfirmed' \in Nat
    BY <1>0, <2>1 DEF SettingsTypes
  <2>3. SettingsTypes'
    BY <1>0, <2>1, <2>2 DEF SettingsTypes
  <2> QED
    BY <1>0, <2>1, <2>3, SettingsStill DEF SettingsFlow
<1>3. ASSUME NEW t \in H!Tabs, H!SelectTab(t) PROVE SettingsInv'
  <2>1. /\ settingsTab' = t
        /\ UNCHANGED <<settingsVisit, shared, settingsForm, settingsBaseline, loaded,
             settingsSaving, prefs, stored, settingsLoads, settingsCalls, row, settingsMade, over,
             settingsTold, settingsConfirmed, settingsTyped, settingsLast>>
    BY <1>3 DEF H!SelectTab, H!local, H!drafts, H!browser, H!history
  <2>2. SettingsTypes'
    BY <1>0, <2>1 DEF SettingsTypes
  <2> QED
    BY <1>0, <2>1, <2>2, SettingsStill DEF SettingsFlow
<1>4. ASSUME NEW t \in Texts, H!Type(t) PROVE SettingsInv'
  <2>1. /\ loaded /\ settingsForm' = [settingsForm EXCEPT !.text = t]
        /\ settingsTyped' = settingsTyped + 1
        /\ UNCHANGED <<settingsTab, settingsVisit, shared, settingsBaseline, loaded,
             settingsSaving, prefs, stored, settingsLoads, settingsCalls, row, settingsMade, over,
             settingsTold, settingsConfirmed, settingsLast>>
    BY <1>4 DEF H!Type, H!Enabled, H!drafts, H!browser, H!history
  <2>2. settingsForm' \in H!Rows /\ settingsForm'.version = settingsForm.version
    BY <1>0, <2>1 DEF SettingsTypes, H!Rows
  <2>3. settingsTyped' \in Nat
    BY <1>0, <2>1 DEF SettingsTypes
  <2>4. SettingsTypes'
    BY <1>0, <2>1, <2>2, <2>3 DEF SettingsTypes
  <2> QED
    BY <1>0, <2>1, <2>2, <2>4, SettingsStill DEF SettingsFlow
<1>5. CASE H!Reload
  <2>1. /\ settingsLoads' = settingsLoads \cup
             {[visit |-> settingsVisit, left |-> 1, answer |-> None]}
        /\ UNCHANGED <<settingsTab, settingsVisit, shared, settingsForm, settingsBaseline, loaded,
             settingsSaving, prefs, stored, settingsCalls, row, settingsMade, over,
             settingsTold, settingsConfirmed, settingsTyped, settingsLast>>
    BY <1>5 DEF H!Reload, H!Ask, H!local, H!drafts, H!browser, H!history
  <2>2. settingsLoads' \subseteq SettingsReads
    <3>1. [visit |-> settingsVisit, left |-> 1, answer |-> None] \in SettingsReads
      BY <1>0 DEF SettingsReads, SettingsTypes
    <3> QED
      BY <1>0, <2>1, <3>1 DEF SettingsTypes
  <2>3. SettingsTypes'
    BY <1>0, <2>1, <2>2 DEF SettingsTypes
  <2> QED
    BY <1>0, <2>1, <2>3, SettingsStill DEF SettingsFlow
<1>6. CASE H!Save
  <2> DEFINE c == [n |-> settingsLast + 1, form |-> settingsForm, left |-> 1, answer |-> None]
  <2>1. /\ settingsTab = "general" /\ loaded /\ ~settingsSaving /\ settingsLast < MaxCalls
        /\ settingsLast' = settingsLast + 1 /\ settingsSaving' = TRUE
        /\ settingsCalls' = settingsCalls \cup {c}
        /\ UNCHANGED <<settingsTab, settingsVisit, shared, settingsForm, settingsBaseline, loaded,
             prefs, stored, settingsLoads, row, settingsMade, over,
             settingsTold, settingsConfirmed, settingsTyped>>
    BY <1>6 DEF H!Save, H!Enabled, H!drafts, H!browser, H!history
  <2>2. settingsCalls = {} /\ settingsCalls' = {c}
    BY <1>0, <2>1 DEF SettingsFlow
  <2>3. /\ c \in SettingsSaves /\ c.n = settingsLast + 1 /\ c.n \in H!Click /\ c.answer = None
        /\ settingsLast' \in 0 .. MaxCalls /\ settingsLast \in Nat
    BY <1>0, <2>1 DEF SettingsSaves, SettingsTypes, H!Click
  <2> HIDE DEF c
  <2>4. settingsTold' \subseteq 1 .. settingsLast' /\ c.n \notin settingsTold
    BY <1>0, <2>1, <2>3 DEF SettingsTypes
  <2>5. settingsSaving' \in BOOLEAN /\ settingsSaving' /\ settingsTab' # None
    BY <1>0, <2>1 DEF H!Tabs, SettingsTypes
  <2>6. SettingsTypes'
    BY <1>0, <2>1, <2>2, <2>3, <2>4, <2>5 DEF SettingsTypes
  <2>7. SettingsFlow'
    BY <1>0, <2>1, <2>2, <2>5 DEF SettingsFlow
  <2>8. settingsMade[c.n] = 0
    BY <1>0, <2>3 DEF SettingsDone
  <2>9. \A n \in H!Click : n > settingsLast' => settingsMade[n] = 0
    BY <1>0, <2>1, <2>3 DEF SettingsDone, H!Click
  <2>10. SettingsDone'
    BY <1>0, <2>1, <2>2, <2>3, <2>4, <2>8, <2>9 DEF SettingsDone, H!ToldIsDone
  <2> QED
    BY <2>6, <2>7, <2>10 DEF SettingsInv
<1>7. ASSUME NEW l \in settingsLoads, H!ServeLoad(l) \/ H!LoadFails(l) PROVE SettingsInv'
  <2>1. /\ UNCHANGED <<settingsTab, settingsVisit, shared, settingsForm, settingsBaseline, loaded,
             settingsSaving, prefs, stored, settingsCalls, row, settingsMade, over,
             settingsTold, settingsConfirmed, settingsTyped, settingsLast>>
    BY <1>7 DEF H!ServeLoad, H!LoadFails, H!local, H!drafts, H!browser, H!history
  <2>2. settingsLoads' \subseteq SettingsReads
    <3>1. l \in SettingsReads /\ settingsLoads \subseteq SettingsReads /\ row \in H!Rows
      BY <1>0, SettingsFacts DEF SettingsTypes
    <3>2. CASE H!ServeLoad(l)
      <4>1. [l EXCEPT !.answer = row] \in SettingsReads
        BY <3>1 DEF SettingsReads
      <4> QED
        BY <3>1, <3>2, <4>1 DEF H!ServeLoad
    <3>3. CASE H!LoadFails(l)
      <4>1. l.left > 0 => [l EXCEPT !.left = @ - 1, !.answer = None] \in SettingsReads
        <5>1. l.left \in {0, 1}
          BY SettingsFacts
        <5>2. l.left > 0 => l.left - 1 = 0
          BY <5>1
        <5>3. [l EXCEPT !.left = 0, !.answer = None] \in SettingsReads
          BY <3>1 DEF SettingsReads
        <5> QED
          BY <5>2, <5>3
      <4> QED
        BY <3>1, <3>3, <4>1 DEF H!LoadFails
    <3> QED
      BY <1>7, <3>2, <3>3
  <2>3. SettingsTypes'
    BY <1>0, <2>1, <2>2 DEF SettingsTypes
  <2> QED
    BY <1>0, <2>1, <2>3, SettingsStill DEF SettingsFlow
<1>8. ASSUME NEW l \in settingsLoads, H!Loaded(l) PROVE SettingsInv'
  <2>1. /\ l.answer # None /\ settingsLoads' = settingsLoads \ {l} /\ shared' = H!Keep(l.answer)
        /\ \/ settingsForm' = shared' /\ settingsBaseline' = shared' /\ loaded' = TRUE
           \/ UNCHANGED <<settingsForm, settingsBaseline, loaded>>
        /\ UNCHANGED <<settingsTab, settingsVisit, settingsSaving, prefs, stored, settingsCalls,
             row, settingsMade, over, settingsTold, settingsConfirmed, settingsTyped,
             settingsLast>>
    BY <1>8 DEF H!Loaded, H!drafts, H!browser, H!history
  <2>2. l.answer \in H!Rows
    BY <2>1, SettingsFacts
  <2>3. shared' \in H!Rows /\ shared'.version \in Nat /\ shared'.version >= shared.version
    BY <1>0, <2>1, <2>2 DEF H!Keep, H!Rows, SettingsTypes
  <2>4. loaded' \in BOOLEAN
    BY <1>0, <2>1 DEF SettingsTypes
  <2>5. SettingsTypes'
    BY <1>0, <2>1, <2>3, <2>4 DEF SettingsTypes
  <2>6. loaded' => settingsForm'.version <= shared'.version
    <3>1. CASE settingsForm' = shared'
      BY <2>3, <3>1
    <3>2. CASE UNCHANGED <<settingsForm, loaded>>
      BY <1>0, <2>3, <3>2 DEF SettingsFlow
    <3> QED
      BY <2>1, <3>1, <3>2
  <2>7. ~loaded' => settingsForm' = settingsBaseline'
    BY <1>0, <2>1 DEF SettingsFlow
  <2> QED
    BY <1>0, <2>1, <2>5, <2>6, <2>7, SettingsStill DEF SettingsFlow
<1>9. ASSUME NEW c \in settingsCalls, H!ServeSave(c) PROVE SettingsInv'
  <2>1. /\ UNCHANGED <<settingsTab, settingsVisit, shared, settingsForm, settingsBaseline, loaded,
             settingsSaving, prefs, stored, settingsLoads, settingsTold, settingsConfirmed,
             settingsTyped, settingsLast>>
    BY <1>9 DEF H!ServeSave, H!local, H!drafts, H!browser
  <2>2. /\ c \in SettingsSaves /\ c.n \in H!Click /\ c.n \in 1 .. settingsLast
        /\ c.form \in H!Rows /\ c.form.version \in Nat /\ settingsCalls = {c}
        /\ settingsMade \in [H!Click -> Nat] /\ over \in [H!Click -> Nat]
    BY <1>0, SettingsFacts DEF SettingsFlow, SettingsTypes
  <2>3. CASE H!SameVersion(c)
    <3> DEFINE d == [c EXCEPT !.answer = row']
    <3>1. /\ row' = [text |-> c.form.text, version |-> row.version + 1]
          /\ settingsMade' = [settingsMade EXCEPT ![c.n] = row.version + 1]
          /\ over' = [over EXCEPT ![c.n] = row.version] /\ c.form.version = row.version
          /\ settingsCalls' = {d}
      BY <1>9, <2>2, <2>3 DEF H!ServeSave, H!SameVersion
    <3>2. row' \in H!Rows
      BY <1>0, <2>2, <3>1 DEF H!Rows
    <3>3. d \in SettingsSaves /\ d.n = c.n /\ d.form = c.form
      BY <2>2, <3>2 DEF SettingsSaves
    <3> HIDE DEF d
    <3>4. /\ settingsMade' \in [H!Click -> Nat] /\ over' \in [H!Click -> Nat]
          /\ settingsMade'[c.n] > 0 /\ over'[c.n] = c.form.version
          /\ \A n \in H!Click : n # c.n => settingsMade'[n] = settingsMade[n]
      BY <1>0, <2>2, <3>1
    <3>5. SettingsTypes'
      BY <1>0, <2>1, <3>1, <3>2, <3>3, <3>4 DEF SettingsTypes
    <3>6. SettingsFlow'
      BY <1>0, <2>1, <2>2, <3>1 DEF SettingsFlow
    <3>7. /\ \A n \in H!Click : n > settingsLast' => settingsMade'[n] = 0
      BY <1>0, <2>1, <2>2, <3>4 DEF SettingsDone
    <3>8. \A n \in settingsTold' : settingsMade'[n] > 0
      <4>1. \A n \in settingsTold : n \in H!Click /\ n # c.n /\ settingsMade[n] > 0
        <5>1. \A n \in settingsTold : n \in 1 .. settingsLast
          BY <1>0 DEF SettingsTypes
        <5>2. \A n \in 1 .. settingsLast : n \in H!Click
          BY <1>0 DEF H!Click
        <5>3. c.n \notin settingsTold
          BY <1>0 DEF SettingsDone
        <5>4. \A n \in settingsTold : settingsMade[n] > 0
          BY <1>0 DEF SettingsDone, H!ToldIsDone
        <5> QED
          BY <5>1, <5>2, <5>3, <5>4
      <4> QED
        BY <2>1, <3>4, <4>1
    <3>9. SettingsDone'
      BY <1>0, <2>1, <2>2, <3>1, <3>3, <3>4, <3>7, <3>8 DEF SettingsDone, H!ToldIsDone
    <3> QED
      BY <3>5, <3>6, <3>9 DEF SettingsInv
  <2>4. CASE ~H!SameVersion(c)
    <3> DEFINE d == [c EXCEPT !.answer = H!Refused]
    <3>1. settingsCalls' = {d} /\ UNCHANGED <<row, settingsMade, over>>
      BY <1>9, <2>2, <2>4 DEF H!ServeSave
    <3>2. d \in SettingsSaves /\ d.n = c.n /\ d.form = c.form /\ d.answer = H!Refused
      BY <2>2 DEF SettingsSaves, H!Refused, H!Rows
    <3> HIDE DEF d
    <3>3. SettingsTypes'
      BY <1>0, <2>1, <3>1, <3>2 DEF SettingsTypes
    <3>4. SettingsFlow'
      BY <1>0, <2>1, <2>2, <3>1 DEF SettingsFlow
    <3>5. SettingsDone'
      BY <1>0, <2>1, <2>2, <3>1, <3>2 DEF SettingsDone, H!ToldIsDone
    <3> QED
      BY <3>3, <3>4, <3>5 DEF SettingsInv
  <2> QED
    BY <2>3, <2>4
<1>10. ASSUME NEW c \in settingsCalls, H!Saved(c) PROVE SettingsInv'
  <2>1. /\ c.answer \notin {None, H!Refused} /\ settingsCalls' = settingsCalls \ {c}
        /\ shared' = c.answer /\ settingsForm' = c.answer /\ settingsBaseline' = c.answer
        /\ settingsSaving' = FALSE /\ settingsTold' = settingsTold \cup {c.n}
        /\ UNCHANGED <<settingsTab, settingsVisit, loaded, prefs, stored, settingsLoads, row,
                       settingsMade, over, settingsConfirmed, settingsTyped, settingsLast>>
    BY <1>10 DEF H!Saved, H!drafts, H!browser
  <2>2. c.answer \in H!Rows /\ c.n \in 1 .. settingsLast /\ settingsCalls = {c}
        /\ c.answer.version \in Nat
    BY <1>0, <2>1, SettingsFacts DEF SettingsFlow, H!Rows
  <2>3. settingsSaving' \in BOOLEAN /\ ~settingsSaving' /\ settingsCalls' = {}
    BY <2>1, <2>2
  <2>4. settingsTold' \subseteq 1 .. settingsLast'
    BY <1>0, <2>1, <2>2 DEF SettingsTypes
  <2>5. SettingsTypes'
    BY <1>0, <2>1, <2>2, <2>3, <2>4 DEF SettingsTypes
  <2>6. SettingsFlow'
    BY <2>1, <2>2, <2>3 DEF SettingsFlow
  <2>7. SettingsDone'
    BY <1>0, <2>1, <2>3 DEF SettingsDone, H!ToldIsDone
  <2> QED
    BY <2>5, <2>6, <2>7 DEF SettingsInv
<1>11. ASSUME NEW c \in settingsCalls, H!SaveFails(c) PROVE SettingsInv'
  <2>1. UNCHANGED <<settingsTab, settingsVisit, shared, settingsForm, settingsBaseline, loaded,
             prefs, stored, settingsLoads, row, settingsMade, over, settingsTold,
             settingsConfirmed, settingsTyped, settingsLast>>
    BY <1>11 DEF H!SaveFails, H!drafts, H!browser, H!history
  <2>2. c \in SettingsSaves /\ c.left \in {0, 1} /\ settingsCalls = {c}
    BY <1>0, SettingsFacts DEF SettingsFlow
  <2>3. CASE c.left > 0
    <3> DEFINE d == [c EXCEPT !.left = 0, !.answer = None]
    <3>1. c.left = 1
      BY <2>2, <2>3
    <3>2. [c EXCEPT !.left = @ - 1, !.answer = None] = d
      BY <3>1
    <3>3. settingsCalls' = {d} /\ UNCHANGED settingsSaving
      BY <1>11, <2>2, <2>3, <3>2 DEF H!SaveFails
    <3>4. d \in SettingsSaves /\ d.n = c.n /\ d.form = c.form /\ d.answer = None
      BY <2>2 DEF SettingsSaves
    <3> HIDE DEF d
    <3>5. SettingsTypes'
      BY <1>0, <2>1, <3>3, <3>4 DEF SettingsTypes
    <3>6. SettingsFlow'
      BY <1>0, <2>1, <2>2, <3>3 DEF SettingsFlow
    <3>7. SettingsDone'
      BY <1>0, <2>1, <2>2, <3>3, <3>4 DEF SettingsDone, H!ToldIsDone
    <3> QED
      BY <3>5, <3>6, <3>7 DEF SettingsInv
  <2>4. CASE ~(c.left > 0)
    <3>1. settingsCalls' = {} /\ settingsSaving' = FALSE
      BY <1>11, <2>2, <2>4 DEF H!SaveFails
    <3>2. settingsSaving' \in BOOLEAN /\ ~settingsSaving'
      BY <3>1
    <3>3. SettingsTypes'
      BY <1>0, <2>1, <3>1, <3>2 DEF SettingsTypes
    <3>4. SettingsFlow' /\ SettingsDone'
      BY <1>0, <2>1, <3>1, <3>2 DEF SettingsFlow, SettingsDone, H!ToldIsDone
    <3> QED
      BY <3>3, <3>4 DEF SettingsInv
  <2> QED
    BY <2>3, <2>4
<1>12. CASE H!StorePrefs \/ H!ResetPrefs \/ \E t \in Texts : H!Prefer(t)
  <2>1. /\ UNCHANGED <<settingsTab, settingsVisit, shared, settingsForm, settingsBaseline, loaded,
             settingsSaving, settingsLoads, settingsCalls, row, settingsMade, over,
             settingsTold, settingsConfirmed, settingsLast>>
        /\ prefs' \in {prefs, stored} \cup Texts /\ stored' \in {prefs, stored}
        /\ settingsTyped' = settingsTyped \/ settingsTyped' = settingsTyped + 1
    BY <1>12 DEF H!StorePrefs, H!ResetPrefs, H!Prefer, H!local, H!browser, H!history
  <2>2. settingsTyped' \in Nat
    BY <1>0, <2>1 DEF SettingsTypes
  <2>3. SettingsTypes'
    BY <1>0, <2>1, <2>2 DEF SettingsTypes
  <2> QED
    BY <1>0, <2>1, <2>3, SettingsStill DEF SettingsFlow
<1>13. ASSUME NEW t \in Texts, H!OthersChange(t) PROVE SettingsInv'
  <2>1. /\ row' = [text |-> t, version |-> row.version + 1]
        /\ UNCHANGED <<settingsTab, settingsVisit, shared, settingsForm, settingsBaseline, loaded,
             settingsSaving, prefs, stored, settingsLoads, settingsCalls, settingsMade, over,
             settingsTold, settingsConfirmed, settingsTyped, settingsLast>>
    BY <1>13 DEF H!OthersChange, H!local, H!drafts, H!browser, H!history
  <2>2. row' \in H!Rows
    BY <1>0, <2>1 DEF H!Rows
  <2>3. SettingsTypes'
    BY <1>0, <2>1, <2>2 DEF SettingsTypes
  <2> QED
    BY <1>0, <2>1, <2>3, SettingsStill DEF SettingsFlow
<1>14. CASE \/ \E stores \in BOOLEAN : H!Export(stores)
            \/ \E e \in H!Listed : H!Download(e) \/ \E stores \in BOOLEAN : H!Remove(e, stores)
            \/ UNCHANGED HVars
  <2>1. UNCHANGED <<settingsTab, settingsVisit, shared, settingsForm, settingsBaseline, loaded,
             settingsSaving, prefs, stored, settingsLoads, settingsCalls, row, settingsMade, over,
             settingsTold, settingsConfirmed, settingsTyped, settingsLast>>
    BY <1>14 DEF H!Export, H!Download, H!Remove, H!local, H!drafts, H!history, HVars
  <2>2. SettingsTypes'
    BY <1>0, <2>1 DEF SettingsTypes
  <2> QED
    BY <1>0, <2>1, <2>2, SettingsStill DEF SettingsFlow
<1> QED
  BY <1>1, <1>2, <1>3, <1>4, <1>5, <1>6, <1>7, <1>8, <1>9, <1>10, <1>11, <1>12, <1>13, <1>14
  DEF H!Next

(* No step loses a draft or brings older settings back.                    *)
LEMMA SettingsDrafts == SettingsInv /\ [H!Next]_HVars => H!DraftsKept /\ H!NeverBack
<1> SUFFICES ASSUME SettingsInv, [H!Next]_HVars PROVE H!DraftsKept /\ H!NeverBack
  OBVIOUS
<1>0. /\ shared.version \in Nat /\ settingsForm.version \in Nat /\ settingsVisit \in Nat
      /\ settingsConfirmed \in Nat /\ settingsTyped \in Nat
      /\ loaded => settingsForm.version <= shared.version
  BY SettingsFacts DEF SettingsInv, SettingsTypes, SettingsFlow
<1>1. CASE H!Open
  BY <1>0, <1>1 DEF H!Open, H!DraftsKept, H!NeverBack, H!Dirty
<1>2. CASE H!Leave
  BY <1>0, <1>2
  DEF H!Leave, H!LeaveGuard, H!local, H!drafts, H!history, H!DraftsKept, H!NeverBack, H!PrefsDirty
<1>3. ASSUME NEW t \in Texts, H!Type(t) PROVE H!DraftsKept /\ H!NeverBack
  <2>1. /\ settingsTyped' > settingsTyped /\ UNCHANGED <<settingsTab, shared, prefs>>
        /\ settingsForm' = [settingsForm EXCEPT !.text = t]
    BY <1>0, <1>3 DEF H!Type, H!drafts
  <2>2. settingsForm'.version = settingsForm.version
    BY <2>1 DEF SettingsInv, SettingsTypes, H!Rows
  <2> QED
    BY <1>0, <2>1, <2>2 DEF H!DraftsKept, H!NeverBack, H!Dirty
<1>4. ASSUME NEW l \in settingsLoads, H!Loaded(l) PROVE H!DraftsKept /\ H!NeverBack
  <2>1. /\ l.answer # None /\ settingsLoads' # settingsLoads /\ shared' = H!Keep(l.answer)
        /\ settingsForm' = shared' \/ settingsForm' = settingsForm
        /\ UNCHANGED <<settingsTab, prefs>>
    BY <1>4 DEF H!Loaded, H!drafts
  <2>2. l.answer \in H!Rows
    BY <2>1, SettingsFacts
  <2>3. shared'.version \in Nat /\ shared'.version >= shared.version
    BY <1>0, <2>1, <2>2 DEF H!Keep, H!Rows
  <2> QED
    BY <1>0, <2>1, <2>3 DEF H!DraftsKept, H!NeverBack, H!Dirty
<1>5. ASSUME NEW c \in settingsCalls, H!Saved(c) PROVE H!DraftsKept /\ H!NeverBack
  <2>1. settingsTold' # settingsTold /\ UNCHANGED <<settingsTab, prefs>>
    BY <1>5 DEF H!Saved, H!drafts, SettingsInv, SettingsDone
  <2> QED
    BY <2>1 DEF H!DraftsKept, H!NeverBack, H!Dirty
<1>6. ASSUME NEW t \in Texts, H!Prefer(t) PROVE H!DraftsKept /\ H!NeverBack
  BY <1>0, <1>6 DEF H!Prefer, H!local, H!DraftsKept, H!NeverBack, H!Dirty
<1>7. CASE H!ResetPrefs
  BY <1>0, <1>7 DEF H!ResetPrefs, H!local, H!DraftsKept, H!NeverBack, H!Dirty
<1>8. CASE ~ \/ H!Open \/ H!Leave \/ H!ResetPrefs
             \/ \E t \in Texts : H!Type(t) \/ H!Prefer(t)
             \/ \E l \in settingsLoads : H!Loaded(l)
             \/ \E c \in settingsCalls : H!Saved(c)
  <2>1. UNCHANGED <<shared, settingsForm, prefs>> /\ (settingsTab' = None => settingsTab = None)
    <3>1. CASE \E t \in H!Tabs : H!SelectTab(t)
      BY <3>1, SettingsAssumption
      DEF H!SelectTab, H!local, H!drafts, H!BlankAssumption, SettingsInv, SettingsTypes
    <3>2. CASE ~\E t \in H!Tabs : H!SelectTab(t)
      BY <1>8, <3>2 DEF H!Next, H!Reload, H!Save, H!StorePrefs, H!OthersChange, H!Export,
         H!Download, H!Remove, H!ServeLoad, H!LoadFails, H!ServeSave, H!SaveFails, H!local,
         H!drafts, HVars
    <3> QED
      BY <3>1, <3>2
  <2> QED
    BY <1>0, <2>1 DEF H!DraftsKept, H!NeverBack, H!Dirty
<1> QED
  BY <1>1, <1>2, <1>3, <1>4, <1>5, <1>6, <1>7, <1>8

-----------------------------------------------------------------------------
(* The tabs of a browser and their sessions (FrontSession).                *)

TabStates ==
  [user : Users \cup {None}, csrf : SessionIds \cup {None},
   page : F!Pages \cup {"login", "loading"},
   wanted : F!Pages \cup {None}, challenge : Users \cup {None}, loading : BOOLEAN]
Forms == {"login", "verify", "renew"}
TabRequests ==
  [n : Nat, tab : BrowserTabs, op : Forms \cup {"restore", "logout", "act"},
   user : Users \cup {None},
   left : {0, 1}, cookie : SessionIds \cup {None}, csrf : SessionIds \cup {None},
     shown : Users \cup {None},
   answer : SessionIds \cup {None} \cup F!Refusals]

FrontTypes ==
  /\ cookie \in SessionIds \cup {None} /\ owner \in [SessionIds -> Users \cup {None}]
       /\ live \subseteq SessionIds
  /\ tab \in [BrowserTabs -> TabStates] /\ tabCalls \subseteq TabRequests /\ tabLast \in Nat
  /\ tabTold \subseteq SessionIds

(* What a tab shows: a page only of the user of its session, and no        *)
(* challenge but this user's.                                              *)
ShowsOwn(r) ==
  /\ r.user = None <=> r.csrf = None
  /\ r.user # None => owner[r.csrf] = r.user
  /\ r.page \in F!Pages <=> r.user # None
  /\ r.page \in F!Pages => F!MayVisit(r.user, r.page)
  /\ r.page \in F!Pages /\ r.challenge # None => r.challenge = r.user
  /\ r.page = "loading" => r.challenge = None

(* A request: sent by whom its tab showed with a session there has been,   *)
(* from a form that still waits; answered for that session.                *)
SentAs(c) ==
  /\ c.csrf # None => c.shown # None /\ owner[c.csrf] = c.shown
  /\ c.cookie # None => owner[c.cookie] # None
  /\ c.op \in Forms =>
       c.user \in Users /\ tab[c.tab].loading /\ tab[c.tab].user \in {None, c.user}
  /\ c.op = "restore" <=> tab[c.tab].page = "loading"
AnsweredAs(c) ==
  /\ c.op \in {"login", "verify"} /\ c.answer \in SessionIds => owner[c.answer] = c.user
  /\ c.op = "restore" =>
       c.answer \in {None, "401"} \/ (c.answer \in SessionIds /\ owner[c.answer] # None)
  /\ c.op = "logout" /\ c.answer \in {"ok", "401"} => c.cookie \notin live
  /\ c.answer = "challenge" => c.op \in {"login", "renew"}

FrontTabs == \A t \in BrowserTabs : ShowsOwn(tab[t])
FrontCalls == \A c \in tabCalls : SentAs(c) /\ AnsweredAs(c)
FrontAlone ==
  /\ \A c, d \in tabCalls : c.tab = d.tab /\ c.op \in Forms \cup {"restore"} /\
                            d.op \in Forms \cup {"restore"} => c = d
  /\ \A t \in BrowserTabs : tab[t].loading => \E c \in tabCalls : c.tab = t /\ c.op \in Forms
FrontPast ==
  /\ cookie # None => owner[cookie] # None
  /\ \A s \in live : owner[s] # None
  /\ \A s \in tabTold : s \notin live /\ owner[s] # None
  /\ \A d \in done : d.by = d.shown

FrontInv == FrontTypes /\ FrontTabs /\ FrontCalls /\ FrontAlone /\ FrontPast

(* A session keeps its user, and none comes back.                          *)
OwnersKept ==
  /\ \A s \in SessionIds : owner[s] # None => owner'[s] = owner[s]
  /\ \A s \in live' : s \in live \/ (s \in SessionIds /\ owner[s] = None)

(* The guards lead every user to a page of the user's.                     *)
LEMMA LandsWell ==
  ASSUME NEW u \in Users, NEW p
  PROVE  /\ F!Land(u, p) \in F!Pages /\ F!MayVisit(u, F!Land(u, p))
         /\ F!Land(None, p) = "login"
<1>0. u # None /\ Role[u] \in F!Roles
  BY SessionAssumption DEF F!NoneAssumption, F!RoleAssumption
<1>1. F!Home(u) \in F!Pages /\ F!MayVisit(u, F!Home(u))
  BY DEF F!Home, F!Pages, F!MayVisit
<1>2. F!MayVisit(u, p) => p \in F!Pages
  BY DEF F!MayVisit, F!Pages
<1>3. F!Land(None, p) = "login"
  BY DEF F!Land
<1> QED
  BY <1>0, <1>1, <1>2, <1>3 DEF F!Land

(* The menu offers only pages the user may visit.                          *)
LEMMA MenuOffers ==
  ASSUME NEW u \in Users, Role[u] # "customer", NEW p \in F!Menu(u)
  PROVE  F!Land(u, p) = p
<1>0. u # None /\ Role[u] \in F!Roles
  BY SessionAssumption DEF F!NoneAssumption, F!RoleAssumption
<1>1. CASE p = "desk"
  BY <1>0, <1>1 DEF F!Land, F!MayVisit
<1>2. CASE p = "office" /\ Role[u] \in {"admin", "manager"}
  BY <1>0, <1>2 DEF F!Land, F!MayVisit
<1>3. CASE p = "admin" /\ Role[u] = "admin"
  BY <1>0, <1>3 DEF F!Land, F!MayVisit
<1> QED
  BY <1>1, <1>2, <1>3 DEF F!Menu

(* The invariant of the tabs implies what they promise.                    *)
LEMMA FrontHolds == FrontInv => F!TypeOK /\ F!ToldIsDone /\ F!ActsAsShown
<1> SUFFICES ASSUME FrontInv PROVE F!TypeOK /\ F!ToldIsDone /\ F!ActsAsShown
  OBVIOUS
<1>1. F!ActsAsShown
  <2>1. \A t \in BrowserTabs : tab[t].page \in F!Pages =>
          tab[t].user # None /\ F!MayVisit(tab[t].user, tab[t].page)
    BY DEF FrontInv, FrontTabs, ShowsOwn
  <2> QED
    BY <2>1, MenuOffers DEF F!ActsAsShown, FrontInv, FrontPast
<1>2. F!ToldIsDone
  BY DEF F!ToldIsDone, FrontInv, FrontPast
<1>3. F!TypeOK
  <2>1. \A s \in (live \cup {cookie}) \ {None} : owner[s] # None
    BY DEF FrontInv, FrontPast
  <2>2. ASSUME NEW t \in BrowserTabs
        PROVE  /\ (tab[t].user = None) = (tab[t].csrf = None)
               /\ tab[t].user # None => owner[tab[t].csrf] = tab[t].user
    BY DEF FrontInv, FrontTabs, ShowsOwn
  <2>3. ASSUME NEW t \in BrowserTabs, tab[t].loading
        PROVE  \E c \in tabCalls : c.tab = t /\ c.op \in {"login", "verify", "renew"}
    BY <2>3 DEF FrontInv, FrontAlone, Forms
  <2> QED
    BY <2>1, <2>2, <2>3 DEF F!TypeOK
<1> QED
  BY <1>1, <1>2, <1>3

(* The tabs begin well.                                                    *)
LEMMA FrontInit == F!Init => FrontInv
<1> SUFFICES ASSUME F!Init PROVE FrontInv
  OBVIOUS
<1>1. /\ cookie = None /\ owner = [s \in SessionIds |-> None] /\ live = {} /\ tabCalls = {}
      /\ tabLast = 0 /\ done = {} /\ tabTold = {}
      /\ tab = [t \in BrowserTabs |-> [F!Blank EXCEPT !.page = "login"]]
  BY DEF F!Init
<1>2. [F!Blank EXCEPT !.page = "login"] \in TabStates /\ ~[F!Blank EXCEPT !.page = "login"].loading
  BY DEF F!Blank, TabStates
<1>3. FrontTypes
  BY <1>1, <1>2 DEF FrontTypes
<1>4. ShowsOwn([F!Blank EXCEPT !.page = "login"])
  BY DEF ShowsOwn, F!Blank, F!Pages
<1>5. FrontTabs /\ FrontCalls /\ FrontPast
  BY <1>1, <1>4 DEF FrontTabs, FrontCalls, FrontPast
<1>6. FrontAlone
  BY <1>1, <1>2 DEF FrontAlone
<1> QED
  BY <1>3, <1>5, <1>6 DEF FrontInv

(* What an action that keeps the sessions has to look at: a tab, a         *)
(* request.                                                                *)
LEMMA ShownStill ==
  ASSUME FrontInv, OwnersKept, NEW r \in TabStates, ShowsOwn(r)
  PROVE  ShowsOwn(r)'
<1>0. r.user # None => r.csrf \in SessionIds
  BY DEF TabStates, ShowsOwn
<1>1. r.user # None => owner'[r.csrf] = r.user
  BY <1>0 DEF ShowsOwn, OwnersKept
<1> QED
  BY <1>1 DEF ShowsOwn

(* What was sent stays right while sessions keep their users.              *)
LEMMA SentStill ==
  ASSUME FrontInv, OwnersKept, NEW c \in TabRequests, SentAs(c), AnsweredAs(c),
         tab \in [BrowserTabs -> TabStates],
         c.op \in Forms => tab'[c.tab].loading /\ tab'[c.tab].user \in {None, c.user},
         c.op = "restore" <=> tab'[c.tab].page = "loading"
  PROVE  SentAs(c)' /\ AnsweredAs(c)'
<1>0. /\ c.csrf \in SessionIds \cup {None} /\ c.cookie \in SessionIds \cup {None}
      /\ c.user \in Users \cup {None}
      /\ c.shown \in Users \cup {None}
      /\ None \notin Users \cup SessionIds
  BY SessionAssumption DEF TabRequests, F!NoneAssumption
<1>1. c.csrf # None => c.shown # None /\ owner'[c.csrf] = c.shown
  BY <1>0 DEF SentAs, OwnersKept
<1>2. c.cookie # None => owner'[c.cookie] # None
  BY <1>0 DEF SentAs, OwnersKept
<1>3. SentAs(c)'
  BY <1>1, <1>2 DEF SentAs
<1>4. c.op \in {"login", "verify"} /\ c.answer \in SessionIds => owner'[c.answer] = c.user
  <2>1. c.op \in {"login", "verify"} => c.user # None
    BY <1>0 DEF SentAs, Forms
  <2> QED
    BY <2>1 DEF AnsweredAs, OwnersKept
<1>5. c.op = "restore" =>
      c.answer \in {None, "401"} \/ (c.answer \in SessionIds /\ owner'[c.answer] # None)
  BY DEF AnsweredAs, OwnersKept
<1>6. c.op = "logout" /\ c.answer \in {"ok", "401"} => c.cookie \notin live'
  BY <1>0 DEF AnsweredAs, SentAs, OwnersKept, FrontInv, FrontTypes
<1>7. AnsweredAs(c)'
  BY <1>4, <1>5, <1>6 DEF AnsweredAs
<1> QED
  BY <1>3, <1>7

(* What a request is sent with.                                            *)
SentFrom(c) ==
  /\ c.csrf = tab[c.tab].csrf /\ c.cookie = cookie /\ c.shown = tab[c.tab].user
  /\ c.answer = None
  /\ tabCalls' = tabCalls \cup {c} /\ tabLast' = tabLast + 1
  /\ UNCHANGED <<cookie, owner, live, done, tabTold>>

(* What a tab sends is a request of the user and the session it shows.     *)
LEMMA TabSends ==
  ASSUME FrontInv, NEW t \in BrowserTabs, NEW op \in Forms \cup {"restore", "logout", "act"},
         NEW u \in Users \cup {None}, NEW left \in {0, 1}, F!Send(t, op, u, left)
  PROVE  \E c \in TabRequests : c.tab = t /\ c.op = op /\ c.user = u /\ SentFrom(c)
<1>1. PICK c : c = [n |-> tabLast + 1, tab |-> t, op |-> op, user |-> u, left |-> left,
                    cookie |-> cookie, csrf |-> tab[t].csrf, shown |-> tab[t].user,
                    answer |-> None]
  OBVIOUS
<1>2. tab[t] \in TabStates /\ tabLast \in Nat /\ cookie \in SessionIds \cup {None}
  BY DEF FrontInv, FrontTypes
<1>3. /\ c \in TabRequests /\ c.tab = t /\ c.op = op /\ c.user = u /\ c.answer = None
      /\ c.csrf = tab[t].csrf /\ c.cookie = cookie /\ c.shown = tab[t].user
  BY <1>1, <1>2 DEF TabRequests, TabStates
<1> QED
  BY <1>1, <1>3 DEF F!Send, SentFrom

(* A request is sent: the tab may change with it, but no other request of  *)
(* the tab is disturbed.                                                   *)
LEMMA FrontSends ==
  ASSUME FrontInv, NEW c \in TabRequests, NEW r \in TabStates, ShowsOwn(r), SentFrom(c),
         tab' = [tab EXCEPT ![c.tab] = r],
         c.op \in Forms => c.user \in Users /\ r.loading /\ r.user \in {None, c.user},
         c.op = "restore" <=> r.page = "loading",
         r.loading => tab[c.tab].loading \/ c.op \in Forms,
         \A d \in tabCalls : d.tab = c.tab =>
           /\ c.op \notin Forms \cup {"restore"} \/ d.op \notin Forms \cup {"restore"}
           /\ r.user = tab[c.tab].user
           /\ r.loading = tab[c.tab].loading \/ d.op \notin Forms
           /\ r.page = "loading" <=> tab[c.tab].page = "loading"
  PROVE  FrontInv'
<1>t. PICK t \in BrowserTabs : t = c.tab
  BY DEF TabRequests
<1>0. /\ FrontTypes /\ FrontTabs /\ FrontCalls /\ FrontAlone /\ FrontPast
      /\ None \notin Users \cup SessionIds \cup F!Refusals
  BY SessionAssumption DEF FrontInv, F!NoneAssumption
<1>1. /\ tabCalls' = tabCalls \cup {c} /\ tabLast' = tabLast + 1
      /\ UNCHANGED <<cookie, owner, live, done, tabTold>>
  BY DEF SentFrom
<1>2. OwnersKept
  BY <1>0, <1>1 DEF OwnersKept
<1>3. tab[t] \in TabStates /\ tab' \in [BrowserTabs -> TabStates] /\ tab'[t] = r
  BY <1>0, <1>t DEF FrontTypes
<1>4. \A s \in BrowserTabs : s # t => tab'[s] = tab[s]
  BY <1>0, <1>t DEF FrontTypes
<1>5. /\ c \in TabRequests /\ c.tab = t /\ c.answer = None
      /\ c.csrf = tab[t].csrf /\ c.cookie = cookie /\ c.shown = tab[t].user
  BY <1>t DEF SentFrom
<1>6. FrontTypes'
  <2>1. tabCalls' \subseteq TabRequests /\ tabLast' \in Nat
    BY <1>0, <1>1, <1>5 DEF FrontTypes
  <2> QED
    BY <1>0, <1>1, <1>3, <2>1 DEF FrontTypes
<1>7. FrontTabs'
  <2>1. ASSUME NEW s \in BrowserTabs PROVE ShowsOwn(tab[s])'
    <3>1. tab[s] \in TabStates /\ ShowsOwn(tab[s])
      BY <1>0 DEF FrontTypes, FrontTabs
    <3>2. CASE s = t
      BY <1>1, <1>3, <3>2 DEF ShowsOwn
    <3>3. CASE s # t
      BY <1>1, <1>4, <3>1, <3>3 DEF ShowsOwn
    <3> QED
      BY <3>2, <3>3
  <2> QED
    BY <2>1 DEF FrontTabs
<1>8. SentAs(c)' /\ AnsweredAs(c)'
  <2>1. c.csrf # None => c.shown # None /\ owner[c.csrf] = c.shown
    BY <1>0, <1>5 DEF FrontTabs, ShowsOwn
  <2>2. c.cookie # None => owner[c.cookie] # None
    BY <1>0, <1>5 DEF FrontPast
  <2>3. SentAs(c)'
    BY <1>1, <1>3, <1>5, <2>1, <2>2 DEF SentAs
  <2>4. AnsweredAs(c)'
    BY <1>0, <1>5 DEF AnsweredAs, F!Refusals
  <2> QED
    BY <2>3, <2>4
<1>9. ASSUME NEW d \in tabCalls PROVE SentAs(d)' /\ AnsweredAs(d)'
  <2>1. d \in TabRequests /\ SentAs(d) /\ AnsweredAs(d) /\ d.tab \in BrowserTabs
    BY <1>0 DEF FrontTypes, FrontCalls, TabRequests
  <2>2. d.op \in Forms => tab'[d.tab].loading /\ tab'[d.tab].user \in {None, d.user}
    BY <1>3, <1>4, <1>5, <2>1 DEF SentAs
  <2>3. d.op = "restore" <=> tab'[d.tab].page = "loading"
    BY <1>3, <1>4, <1>5, <2>1 DEF SentAs
  <2> QED
    BY <1>0, <1>2, <2>1, <2>2, <2>3, SentStill DEF FrontTypes
<1>10. FrontCalls'
  BY <1>1, <1>8, <1>9 DEF FrontCalls
<1>11. FrontAlone'
  <2>1. ASSUME NEW d \in tabCalls', NEW e \in tabCalls', d.tab = e.tab,
               d.op \in Forms \cup {"restore"}, e.op \in Forms \cup {"restore"}
        PROVE  d = e
    BY <1>0, <1>1, <1>5, <2>1 DEF FrontAlone
  <2>2. ASSUME NEW s \in BrowserTabs, tab'[s].loading
        PROVE  \E d \in tabCalls' : d.tab = s /\ d.op \in Forms
    <3>1. CASE tab[s].loading
      BY <1>0, <1>1, <3>1 DEF FrontAlone
    <3>2. CASE ~tab[s].loading
      BY <1>1, <1>3, <1>4, <1>5, <2>2, <3>2
    <3> QED
      BY <3>1, <3>2
  <2> QED
    BY <2>1, <2>2 DEF FrontAlone
<1>12. FrontPast'
  BY <1>0, <1>1 DEF FrontPast
<1> QED
  BY <1>6, <1>7, <1>10, <1>11, <1>12 DEF FrontInv

(* Only the tab moves: its user, and what it waits for, stay.              *)
LEMMA FrontMoves ==
  ASSUME FrontInv, NEW t \in BrowserTabs, NEW r \in TabStates, ShowsOwn(r),
         tab' = [tab EXCEPT ![t] = r],
         UNCHANGED <<cookie, owner, live, tabCalls, tabLast, done, tabTold>>,
         r.user = tab[t].user, r.loading = tab[t].loading,
         r.page = "loading" <=> tab[t].page = "loading"
  PROVE  FrontInv'
<1>0. FrontTypes /\ FrontTabs /\ FrontCalls /\ FrontAlone /\ FrontPast
  BY DEF FrontInv
<1>1. OwnersKept
  BY <1>0 DEF OwnersKept
<1>2. tab[t] \in TabStates /\ tab' \in [BrowserTabs -> TabStates] /\ tab'[t] = r
  BY <1>0 DEF FrontTypes
<1>3. \A s \in BrowserTabs : s # t => tab'[s] = tab[s]
  BY <1>0 DEF FrontTypes
<1>4. FrontTypes'
  BY <1>0, <1>2 DEF FrontTypes
<1>5. FrontTabs'
  <2>1. ASSUME NEW s \in BrowserTabs PROVE ShowsOwn(tab[s])'
    BY <1>0, <1>2, <1>3 DEF FrontTabs, ShowsOwn
  <2> QED
    BY <2>1 DEF FrontTabs
<1>6. ASSUME NEW d \in tabCalls PROVE SentAs(d)' /\ AnsweredAs(d)'
  <2>1. d \in TabRequests /\ SentAs(d) /\ AnsweredAs(d) /\ d.tab \in BrowserTabs
    BY <1>0 DEF FrontTypes, FrontCalls, TabRequests
  <2>2. /\ tab'[d.tab].loading = tab[d.tab].loading /\ tab'[d.tab].user = tab[d.tab].user
        /\ tab'[d.tab].page = "loading" <=> tab[d.tab].page = "loading"
    BY <1>2, <1>3, <2>1
  <2> QED
    BY <1>0, <1>1, <2>1, <2>2, SentStill DEF FrontTypes, SentAs
<1>7. FrontCalls'
  BY <1>6 DEF FrontCalls
<1>8. FrontAlone'
  <2>1. \A s \in BrowserTabs : tab'[s].loading = tab[s].loading
    BY <1>2, <1>3
  <2> QED
    BY <1>0, <2>1 DEF FrontAlone
<1>9. FrontPast'
  BY <1>0 DEF FrontPast
<1> QED
  BY <1>4, <1>5, <1>7, <1>8, <1>9 DEF FrontInv

(* A request changes and the tab does not: the server serves it, or it is  *)
(* sent again.                                                             *)
LEMMA FrontReplaces ==
  ASSUME FrontInv, OwnersKept, NEW c \in tabCalls, NEW d \in TabRequests,
         tabCalls' = (tabCalls \ {c}) \cup {d}, d.tab = c.tab, d.op = c.op, d.user = c.user,
         UNCHANGED <<cookie, tab, tabLast, tabTold>>,
         owner' \in [SessionIds -> Users \cup {None}], live' \subseteq SessionIds,
         \A s \in live' : owner'[s] # None,
         d.csrf # None => d.shown # None /\ owner'[d.csrf] = d.shown,
         d.cookie # None => owner'[d.cookie] # None,
         AnsweredAs(d)',
         \A e \in done' : e.by = e.shown
  PROVE  FrontInv'
<1>0. FrontTypes /\ FrontTabs /\ FrontCalls /\ FrontAlone /\ FrontPast
  BY DEF FrontInv
<1>1. FrontTypes'
  BY <1>0 DEF FrontTypes
<1>2. FrontTabs'
  <2>1. ASSUME NEW s \in BrowserTabs PROVE ShowsOwn(tab[s])'
    <3>1. tab[s] \in TabStates /\ ShowsOwn(tab[s])
      BY <1>0 DEF FrontTypes, FrontTabs
    <3>2. PICK r \in TabStates : r = tab[s]
      BY <3>1
    <3>3. ShowsOwn(r)'
      BY <3>1, <3>2, ShownStill
    <3> QED
      BY <3>2, <3>3 DEF ShowsOwn
  <2> QED
    BY <2>1 DEF FrontTabs
<1>3. SentAs(d)'
  <2>1. SentAs(c)
    BY <1>0 DEF FrontCalls
  <2>2. /\ d.op \in Forms =>
             d.user \in Users /\ tab'[d.tab].loading /\ tab'[d.tab].user \in {None, d.user}
        /\ d.op = "restore" <=> tab'[d.tab].page = "loading"
    BY <2>1 DEF SentAs
  <2> QED
    BY <2>2 DEF SentAs
<1>4. ASSUME NEW e \in tabCalls PROVE SentAs(e)' /\ AnsweredAs(e)'
  <2>1. e \in TabRequests /\ SentAs(e) /\ AnsweredAs(e) /\ tab \in [BrowserTabs -> TabStates]
    BY <1>0 DEF FrontTypes, FrontCalls
  <2>2. /\ e.op \in Forms => tab'[e.tab].loading /\ tab'[e.tab].user \in {None, e.user}
        /\ e.op = "restore" <=> tab'[e.tab].page = "loading"
    BY <2>1 DEF SentAs
  <2> QED
    BY <2>1, <2>2, SentStill
<1>5. FrontCalls'
  BY <1>3, <1>4 DEF FrontCalls
<1>6. FrontAlone'
  <2>1. ASSUME NEW e \in tabCalls', NEW f \in tabCalls', e.tab = f.tab,
               e.op \in Forms \cup {"restore"}, f.op \in Forms \cup {"restore"}
        PROVE  e = f
    BY <1>0, <2>1 DEF FrontAlone
  <2>2. ASSUME NEW s \in BrowserTabs, tab'[s].loading
        PROVE  \E e \in tabCalls' : e.tab = s /\ e.op \in Forms
    <3>1. PICK e \in tabCalls : e.tab = s /\ e.op \in Forms
      BY <1>0, <2>2 DEF FrontAlone
    <3> QED
      BY <3>1
  <2> QED
    BY <2>1, <2>2 DEF FrontAlone
<1>7. FrontPast'
  <2>1. cookie' # None => owner'[cookie'] # None
    BY <1>0 DEF FrontPast, FrontTypes, OwnersKept
  <2>2. \A s \in tabTold' : s \notin live' /\ owner'[s] # None
    BY <1>0 DEF FrontPast, FrontTypes, OwnersKept
  <2> QED
    BY <2>1, <2>2 DEF FrontPast
<1> QED
  BY <1>1, <1>2, <1>5, <1>6, <1>7 DEF FrontInv

(* An answer is handled: the tab changes, and waits no longer if the       *)
(* request was one it waited for.                                          *)
LEMMA FrontAnswers ==
  ASSUME FrontInv, NEW c \in tabCalls, NEW r \in TabStates, ShowsOwn(r),
         tabCalls' = tabCalls \ {c}, tab' = [tab EXCEPT ![c.tab] = r],
         UNCHANGED <<owner, live, tabLast, done>>,
         r.loading => tab[c.tab].loading /\ c.op \notin Forms,
         c.op \in Forms \/ (r.loading = tab[c.tab].loading /\ r.user \in {None, tab[c.tab].user})
           \/ c.op = "restore",
         r.page # "loading",
         cookie' = None \/ cookie' = cookie \/ (cookie' \in SessionIds /\ owner[cookie'] # None),
         tabTold' = tabTold \/
           (tabTold' = tabTold \cup ({c.cookie} \ {None}) /\ c.cookie \notin live)
  PROVE  FrontInv'
<1>0. /\ FrontTypes /\ FrontTabs /\ FrontCalls /\ FrontAlone /\ FrontPast
      /\ c \in TabRequests /\ c.tab \in BrowserTabs /\ SentAs(c)
  BY DEF FrontInv, FrontTypes, FrontCalls, TabRequests
<1>1. OwnersKept
  BY <1>0 DEF OwnersKept
<1>2. tab' \in [BrowserTabs -> TabStates] /\ tab'[c.tab] = r
      /\ \A s \in BrowserTabs : s # c.tab => tab'[s] = tab[s]
  BY <1>0 DEF FrontTypes
<1>3. FrontTypes'
  <2>1. cookie' \in SessionIds \cup {None} /\ tabTold' \subseteq SessionIds
        /\ tabCalls' \subseteq TabRequests
    BY <1>0 DEF FrontTypes, TabRequests
  <2> QED
    BY <1>0, <1>2, <2>1 DEF FrontTypes
<1>4. FrontTabs'
  <2>1. ASSUME NEW s \in BrowserTabs PROVE ShowsOwn(tab[s])'
    BY <1>0, <1>2 DEF FrontTabs, ShowsOwn
  <2> QED
    BY <2>1 DEF FrontTabs
<1>5. ASSUME NEW d \in tabCalls, d # c PROVE SentAs(d)' /\ AnsweredAs(d)'
  <2>1. d \in TabRequests /\ SentAs(d) /\ AnsweredAs(d) /\ d.tab \in BrowserTabs
    BY <1>0 DEF FrontTypes, FrontCalls, TabRequests
  <2>2. CASE d.tab # c.tab
    BY <1>0, <1>1, <1>2, <2>1, <2>2, SentStill DEF FrontTypes, SentAs
  <2>3. CASE d.tab = c.tab
    <3>1. c.op \in Forms \cup {"restore"} => d.op \notin Forms \cup {"restore"}
      BY <1>0, <1>5, <2>3 DEF FrontAlone
    <3>2. d.op = "restore" => c.op = "restore"
      BY <1>0, <2>1, <2>3 DEF SentAs
    <3>3. c.op = "restore" => d.op = "restore"
      BY <1>0, <2>1, <2>3 DEF SentAs
    <3>4. d.op # "restore" /\ c.op # "restore"
      BY <3>1, <3>2, <3>3
    <3>5. d.op = "restore" <=> tab'[d.tab].page = "loading"
      BY <1>2, <2>3, <3>4
    <3>6. d.op \in Forms => tab'[d.tab].loading /\ tab'[d.tab].user \in {None, d.user}
      BY <1>2, <2>1, <2>3, <3>1, <3>4 DEF SentAs
    <3> QED
      BY <1>0, <1>1, <2>1, <3>5, <3>6, SentStill DEF FrontTypes
  <2> QED
    BY <2>2, <2>3
<1>6. FrontCalls'
  BY <1>5 DEF FrontCalls
<1>7. FrontAlone'
  <2>1. ASSUME NEW s \in BrowserTabs, tab'[s].loading
        PROVE  \E e \in tabCalls' : e.tab = s /\ e.op \in Forms
    <3>1. tab[s].loading /\ (s = c.tab => c.op \notin Forms)
      BY <1>2, <2>1
    <3>2. PICK e \in tabCalls : e.tab = s /\ e.op \in Forms
      BY <1>0, <3>1 DEF FrontAlone
    <3>3. e # c
      BY <3>1, <3>2
    <3> QED
      BY <3>2, <3>3
  <2> QED
    BY <1>0, <2>1 DEF FrontAlone
<1>8. FrontPast'
  <2>1. cookie' # None => owner'[cookie'] # None
    BY <1>0 DEF FrontPast
  <2>2. \A s \in tabTold' : s \notin live' /\ owner'[s] # None
    BY <1>0 DEF FrontPast, SentAs
  <2> QED
    BY <1>0, <2>1, <2>2 DEF FrontPast
<1> QED
  BY <1>3, <1>4, <1>6, <1>7, <1>8 DEF FrontInv

(* Going to a page changes only the page and the challenge.                *)
LEMMA TabAt ==
  ASSUME NEW r \in TabStates, NEW p \in F!Pages \cup {"login", "loading"}
  PROVE  /\ F!At(r, p) \in TabStates /\ F!At(r, p).page = p /\ F!At(r, p).user = r.user
         /\ F!At(r, p).csrf = r.csrf /\ F!At(r, p).loading = r.loading
         /\ F!At(r, p).wanted = r.wanted
         /\ F!At(r, p).challenge \in {None, r.challenge}
         /\ p # r.page => F!At(r, p).challenge = None
BY DEF F!At, TabStates

(* Back at the login page, without a user.                                 *)
LEMMA TabCleared ==
  ASSUME NEW r \in TabStates
  PROVE  /\ F!At(F!Cleared(r), "login") \in TabStates /\ ShowsOwn(F!At(F!Cleared(r), "login"))
         /\ F!At(F!Cleared(r), "login").user = None
         /\ F!At(F!Cleared(r), "login").loading = r.loading
         /\ F!At(F!Cleared(r), "login").page = "login"
<1>1. F!Cleared(r) \in TabStates /\ F!Cleared(r).user = None /\ F!Cleared(r).csrf = None
      /\ F!Cleared(r).loading = r.loading
  BY DEF F!Cleared, TabStates
<1>2. /\ F!At(F!Cleared(r), "login") \in TabStates
      /\ F!At(F!Cleared(r), "login").page = "login"
      /\ F!At(F!Cleared(r), "login").user = None /\ F!At(F!Cleared(r), "login").csrf = None
      /\ F!At(F!Cleared(r), "login").loading = r.loading
  BY <1>1, TabAt
<1>3. ShowsOwn(F!At(F!Cleared(r), "login"))
  BY <1>2 DEF ShowsOwn, F!Pages
<1> QED
  BY <1>2, <1>3

(* A tab that has its answer waits no longer.                              *)
LEMMA TabIdle ==
  ASSUME FrontInv, NEW c \in tabCalls
  PROVE  /\ tab[c.tab] \in TabStates /\ ShowsOwn(tab[c.tab])
         /\ F!Idle(c) \in TabStates /\ ShowsOwn(F!Idle(c)) /\ ~F!Idle(c).loading
         /\ F!Idle(c).user = tab[c.tab].user /\ F!Idle(c).page = tab[c.tab].page
         /\ F!Idle(c).csrf = tab[c.tab].csrf /\ F!Idle(c).challenge = tab[c.tab].challenge
         /\ F!Idle(c).wanted = tab[c.tab].wanted
<1>1. tab[c.tab] \in TabStates /\ ShowsOwn(tab[c.tab])
  BY DEF FrontInv, FrontTypes, FrontTabs, TabRequests
<1>2. /\ F!Idle(c) \in TabStates /\ ~F!Idle(c).loading
      /\ F!Idle(c).user = tab[c.tab].user /\ F!Idle(c).page = tab[c.tab].page
      /\ F!Idle(c).csrf = tab[c.tab].csrf /\ F!Idle(c).challenge = tab[c.tab].challenge
      /\ F!Idle(c).wanted = tab[c.tab].wanted
  BY <1>1 DEF F!Idle, TabStates
<1> QED
  BY <1>1, <1>2 DEF ShowsOwn

(* A user's act in a tab keeps the tabs well.                              *)
LEMMA FrontActs ==
  ASSUME FrontInv, NEW t \in BrowserTabs,
         \/ F!Open(t) \/ F!Renew(t) \/ F!Verify(t) \/ F!Logout(t) \/ F!Act(t)
         \/ \E u \in Users : F!Login(t, u)
  PROVE  FrontInv'
<1>0. /\ FrontTypes /\ FrontTabs /\ FrontCalls /\ FrontAlone /\ FrontPast
      /\ tab[t] \in TabStates /\ ShowsOwn(tab[t]) /\ None \notin Users \cup SessionIds
      /\ tab \in [BrowserTabs -> TabStates]
      /\ \A d \in tabCalls : SentAs(d) /\ AnsweredAs(d) /\ d.tab \in BrowserTabs
  BY SessionAssumption DEF FrontInv, FrontTypes, FrontTabs, FrontCalls, F!NoneAssumption,
    TabRequests
<1>1. CASE F!Open(t)
  <2> DEFINE w == IF tab[t].page \in F!Pages THEN tab[t].page ELSE tab[t].wanted
             r == [F!Blank EXCEPT !.wanted = w]
  <2>1. /\ \A d \in tabCalls : d.tab # t
        /\ tab' = [tab EXCEPT ![t] = r] /\ F!Send(t, "restore", None, 0)
    BY <1>1 DEF F!Open
  <2>2. w \in F!Pages \cup {None}
    BY <1>0 DEF TabStates
  <2>3. r \in TabStates /\ r.page = "loading" /\ ~r.loading /\ r.user = None /\ r.csrf = None
        /\ r.challenge = None
    BY <2>2 DEF F!Blank, TabStates
  <2> HIDE DEF r
  <2>4. ShowsOwn(r)
    BY <2>3 DEF ShowsOwn, F!Pages
  <2>5. PICK c \in TabRequests : c.tab = t /\ c.op = "restore" /\ SentFrom(c)
    BY <2>1, TabSends
  <2> QED
    BY <2>1, <2>3, <2>4, <2>5, FrontSends DEF Forms
<1>2. CASE F!Logout(t) \/ F!Act(t)
  <2>1. PICK op \in {"logout", "act"} :
          /\ tab[t].page \in F!Pages /\ tab' = [tab EXCEPT ![t] = tab[t]]
          /\ \E left \in {0, 1} : F!Send(t, op, None, left)
    BY <1>0, <1>2 DEF F!Logout, F!Act
  <2>2. tab[t].page # "loading"
    BY <2>1 DEF F!Pages
  <2>3. PICK left \in {0, 1} : F!Send(t, op, None, left)
    BY <2>1
  <2>4. PICK c \in TabRequests : c.tab = t /\ c.op = op /\ SentFrom(c)
    BY <2>3, TabSends
  <2> QED
    BY <1>0, <2>1, <2>2, <2>4, FrontSends DEF Forms
<1>3. CASE F!Renew(t) \/ F!Verify(t) \/ \E u \in Users : F!Login(t, u)
  <2>1. PICK op \in Forms, u \in Users \cup {None}, left \in {0, 1} :
          /\ ~tab[t].loading /\ tab' = [tab EXCEPT ![t].loading = TRUE] /\ F!Send(t, op, u, left)
          /\ \/ op = "renew" /\ tab[t].page = "admin" /\ u = tab[t].user
             \/ op = "verify" /\ tab[t].challenge # None /\ u = tab[t].challenge
             \/ op = "login" /\ tab[t].page = "login" /\ u \in Users
    <3>1. CASE F!Renew(t)
      BY <1>0, <3>1 DEF F!Renew, Forms, TabStates
    <3>2. CASE F!Verify(t)
      BY <1>0, <3>2 DEF F!Verify, Forms, TabStates
    <3>3. CASE \E u \in Users : F!Login(t, u)
      BY <1>0, <3>3 DEF F!Login, F!FormReady, Forms
    <3> QED
      BY <1>3, <3>1, <3>2, <3>3
  <2> DEFINE r == [tab[t] EXCEPT !.loading = TRUE]
  <2>2. /\ r \in TabStates /\ r.user = tab[t].user /\ r.page = tab[t].page /\ r.loading
        /\ r.csrf = tab[t].csrf /\ r.challenge = tab[t].challenge
        /\ tab' = [tab EXCEPT ![t] = r]
    BY <1>0, <2>1 DEF TabStates
  <2> HIDE DEF r
  <2>3. ShowsOwn(r)
    BY <1>0, <2>2 DEF ShowsOwn
  <2>4. r.page # "loading"
    <3>1. tab[t].challenge # None => tab[t].page # "loading"
      BY <1>0 DEF ShowsOwn
    <3> QED
      BY <2>1, <2>2, <3>1
  <2>5. u \in Users /\ r.user \in {None, u}
    <3>1. CASE op = "renew" /\ tab[t].page = "admin" /\ u = tab[t].user
      BY <1>0, <2>2, <3>1 DEF ShowsOwn, F!Pages, TabStates
    <3>2. CASE op = "verify" /\ tab[t].challenge # None /\ u = tab[t].challenge
      BY <1>0, <2>2, <3>2 DEF ShowsOwn, TabStates
    <3>3. CASE op = "login" /\ tab[t].page = "login" /\ u \in Users
      BY <1>0, <2>2, <3>3 DEF ShowsOwn, F!Pages
    <3> QED
      BY <2>1, <3>1, <3>2, <3>3
  <2>6. \A d \in tabCalls : d.tab = t => d.op \notin Forms \cup {"restore"}
    BY <1>0, <2>1, <2>2, <2>4 DEF SentAs
  <2>7. PICK c \in TabRequests : c.tab = t /\ c.op = op /\ c.user = u /\ SentFrom(c)
    BY <2>1, TabSends
  <2>8. \A d \in tabCalls : d.tab = t =>
          /\ op \notin Forms \cup {"restore"} \/ d.op \notin Forms \cup {"restore"}
          /\ r.user = tab[t].user
          /\ r.loading = tab[t].loading \/ d.op \notin Forms
          /\ r.page = "loading" <=> tab[t].page = "loading"
    BY <2>2, <2>6
  <2> QED
    BY <2>1, <2>2, <2>3, <2>4, <2>5, <2>7, <2>8, FrontSends DEF Forms
<1> QED
  BY <1>1, <1>2, <1>3

(* So does a visit of a page, or giving up the second factor.              *)
LEMMA FrontGoes ==
  ASSUME FrontInv, NEW t \in BrowserTabs, F!CancelMfa(t) \/ \E p \in F!Pages : F!Go(t, p)
  PROVE  FrontInv'
<1>0. tab[t] \in TabStates /\ ShowsOwn(tab[t]) /\ None \notin Users \cup SessionIds
  BY SessionAssumption DEF FrontInv, FrontTypes, FrontTabs, F!NoneAssumption
<1>1. CASE F!CancelMfa(t)
  <2> DEFINE r == [tab[t] EXCEPT !.challenge = None]
  <2>1. /\ tab' = [tab EXCEPT ![t] = r]
        /\ UNCHANGED <<cookie, owner, live, tabCalls, tabLast, done, tabTold>>
    BY <1>1 DEF F!CancelMfa
  <2>2. /\ r \in TabStates /\ r.user = tab[t].user /\ r.page = tab[t].page
        /\ r.csrf = tab[t].csrf /\ r.challenge = None /\ r.loading = tab[t].loading
    BY <1>0 DEF TabStates
  <2> HIDE DEF r
  <2>3. ShowsOwn(r)
    BY <1>0, <2>2 DEF ShowsOwn
  <2> QED
    BY <2>1, <2>2, <2>3, FrontMoves
<1>2. ASSUME NEW p \in F!Pages, F!Go(t, p) PROVE FrontInv'
  <2> DEFINE q == F!Land(tab[t].user, p)
             s == F!At(tab[t], q)
             w == IF tab[t].user = None THEN p ELSE s.wanted
             r == [s EXCEPT !.wanted = w]
  <2>1. /\ tab[t].page # "loading"
        /\ tab' = [tab EXCEPT ![t] = r]
        /\ UNCHANGED <<cookie, owner, live, tabCalls, tabLast, done, tabTold>>
    BY <1>2 DEF F!Go
  <2>3. /\ tab[t].user = None => q = "login"
        /\ tab[t].user # None => q \in F!Pages /\ F!MayVisit(tab[t].user, q)
    BY <1>0, LandsWell DEF TabStates, F!Land
  <2> HIDE DEF q
  <2>4. /\ s \in TabStates /\ s.page = q /\ s.user = tab[t].user /\ s.csrf = tab[t].csrf
        /\ s.loading = tab[t].loading /\ s.challenge \in {None, tab[t].challenge}
        /\ q # tab[t].page => s.challenge = None
    BY <1>0, <2>3, TabAt
  <2> HIDE DEF s
  <2>5. w \in F!Pages \cup {None}
    BY <2>4 DEF TabStates
  <2>6. /\ r \in TabStates /\ r.page = q /\ r.user = tab[t].user /\ r.csrf = tab[t].csrf
        /\ r.loading = tab[t].loading /\ r.challenge = s.challenge
    BY <2>4, <2>5 DEF TabStates
  <2> HIDE DEF r
  <2>7. q # "loading"
    BY <2>3 DEF F!Pages
  <2>8. ShowsOwn(r)
    <3>1. q \in F!Pages <=> tab[t].user # None
      BY <2>3 DEF F!Pages
    <3>2. q \in F!Pages => F!MayVisit(tab[t].user, q)
      BY <2>3, <3>1
    <3>3. q \in F!Pages /\ r.challenge # None => r.challenge = r.user
      BY <1>0, <2>4, <2>6, <3>1 DEF ShowsOwn
    <3> QED
      BY <1>0, <2>6, <2>7, <3>1, <3>2, <3>3 DEF ShowsOwn
  <2> QED
    BY <2>1, <2>6, <2>7, <2>8, FrontMoves
<1> QED
  BY <1>1, <1>2

(* So does the server's answer to a request.                               *)
LEMMA FrontServes ==
  ASSUME FrontInv, NEW c \in tabCalls, F!Serve(c)
  PROVE  FrontInv'
<1>0. /\ FrontTypes /\ FrontTabs /\ FrontCalls /\ FrontAlone /\ FrontPast
      /\ c \in TabRequests /\ SentAs(c) /\ AnsweredAs(c)
      /\ None \notin Users \cup SessionIds \cup F!Refusals /\ SessionIds \cap F!Refusals = {}
      /\ c.answer = None /\ UNCHANGED <<cookie, tab, tabLast, tabTold>>
  BY SessionAssumption DEF FrontInv, FrontTypes, FrontCalls, F!NoneAssumption, F!Serve
<1>1. /\ owner \in [SessionIds -> Users \cup {None}] /\ live \subseteq SessionIds
      /\ \A s \in live : owner[s] # None
      /\ \A e \in done : e.by = e.shown
  BY <1>0 DEF FrontTypes, FrontPast
<1>2. ASSUME NEW v \in SessionIds \cup {None} \cup F!Refusals
      PROVE  /\ [c EXCEPT !.answer = v] \in TabRequests
             /\ [c EXCEPT !.answer = v].tab = c.tab /\ [c EXCEPT !.answer = v].op = c.op
             /\ [c EXCEPT !.answer = v].user = c.user /\ [c EXCEPT !.answer = v].csrf = c.csrf
             /\ [c EXCEPT !.answer = v].shown = c.shown
             /\ [c EXCEPT !.answer = v].cookie = c.cookie
             /\ [c EXCEPT !.answer = v].answer = v
  BY <1>0 DEF TabRequests
(* The sessions stay: what the answer may be, and what is noted as done.   *)
<1>3. ASSUME NEW v \in SessionIds \cup {None} \cup F!Refusals, F!Reply(c, v), UNCHANGED owner,
             live' \subseteq live, \A e \in done' : e.by = e.shown,
             c.op \in {"login", "verify"} => v \notin SessionIds,
             c.op = "restore" => v \in {None, "401"} \/ (v \in SessionIds /\ owner[v] # None),
             c.op = "logout" /\ v \in {"ok", "401"} => c.cookie \notin live',
             v = "challenge" => c.op \in {"login", "renew"}
      PROVE  FrontInv'
  <2>1. PICK d \in TabRequests : d = [c EXCEPT !.answer = v]
    BY <1>2
  <2>2. /\ d.tab = c.tab /\ d.op = c.op /\ d.user = c.user /\ d.csrf = c.csrf
        /\ d.shown = c.shown /\ d.cookie = c.cookie /\ d.answer = v
    BY <1>2, <2>1
  <2>3. tabCalls' = (tabCalls \ {c}) \cup {d}
    BY <1>3, <2>1 DEF F!Reply
  <2>4. OwnersKept
    BY <1>3 DEF OwnersKept
  <2>5. AnsweredAs(d)'
    BY <1>3, <2>2 DEF AnsweredAs
  <2>6. /\ d.csrf # None => d.shown # None /\ owner'[d.csrf] = d.shown
        /\ d.cookie # None => owner'[d.cookie] # None
    BY <1>0, <1>3, <2>2 DEF SentAs
  <2> QED
    BY <1>0, <1>1, <1>3, <2>2, <2>3, <2>4, <2>5, <2>6, FrontReplaces
<1>4. ASSUME F!Create(c), c.op \in {"login", "verify"} PROVE FrontInv'
  <2>1. PICK s \in F!Fresh : /\ owner' = [owner EXCEPT ![s] = c.user]
                             /\ live' = (live \ {c.cookie}) \cup {s}
                             /\ F!Reply(c, s) /\ UNCHANGED done
    BY <1>4 DEF F!Create
  <2>2. s \in SessionIds /\ owner[s] = None /\ c.user \in Users
    BY <1>0, <1>4, <2>1 DEF F!Fresh, SentAs, Forms
  <2>3. PICK d \in TabRequests : d = [c EXCEPT !.answer = s]
    BY <1>2, <2>2
  <2>4. /\ d.tab = c.tab /\ d.op = c.op /\ d.user = c.user /\ d.csrf = c.csrf
        /\ d.shown = c.shown /\ d.cookie = c.cookie /\ d.answer = s
    BY <1>2, <2>2, <2>3
  <2>5. tabCalls' = (tabCalls \ {c}) \cup {d}
    BY <2>1, <2>3 DEF F!Reply
  <2>6. /\ owner' \in [SessionIds -> Users \cup {None}] /\ live' \subseteq SessionIds
        /\ owner'[s] = c.user /\ \A i \in SessionIds : i # s => owner'[i] = owner[i]
    BY <1>1, <2>1, <2>2
  <2>7. OwnersKept /\ \A i \in live' : owner'[i] # None
    BY <1>0, <1>1, <2>1, <2>2, <2>6 DEF OwnersKept
  <2>8. AnsweredAs(d)'
    <3>1. s \notin F!Refusals /\ d.op # "restore" /\ d.op # "logout"
      BY <1>0, <1>4, <2>2, <2>4
    <3> QED
      BY <2>4, <2>6, <3>1 DEF AnsweredAs, F!Refusals
  <2>9. /\ d.csrf # None => d.shown # None /\ owner'[d.csrf] = d.shown
        /\ d.cookie # None => owner'[d.cookie] # None
    <3>1. c.csrf \in SessionIds \cup {None} /\ c.cookie \in SessionIds \cup {None}
      BY <1>0 DEF TabRequests
    <3> QED
      BY <1>0, <2>2, <2>4, <2>6, <3>1 DEF SentAs
  <2> QED
    BY <1>0, <1>1, <2>1, <2>4, <2>5, <2>6, <2>7, <2>8, <2>9, FrontReplaces
<1>5. "401" \in F!Refusals \ SessionIds /\ "403" \in F!Refusals \ SessionIds
      /\ "ok" \in F!Refusals \ SessionIds
      /\ "refused" \in F!Refusals \ SessionIds /\ "challenge" \in F!Refusals \ SessionIds
  BY <1>0 DEF F!Refusals
<1>6. CASE F!ServeLogin(c)
  <2>1. CASE F!Refused(c, "401") \/ F!Refused(c, "challenge")
    BY <1>1, <1>3, <1>5, <1>6, <2>1 DEF F!ServeLogin, F!Refused
  <2> QED
    BY <1>4, <1>6, <2>1 DEF F!ServeLogin
<1>7. CASE F!ServeVerify(c)
  <2>1. CASE F!Refused(c, "refused")
    BY <1>1, <1>3, <1>5, <1>7, <2>1 DEF F!ServeVerify, F!Refused
  <2> QED
    BY <1>4, <1>7, <2>1 DEF F!ServeVerify
<1>8. CASE F!ServeRestore(c)
  <2>1. CASE F!Owner(c) = None
    BY <1>1, <1>3, <1>5, <1>8, <2>1 DEF F!ServeRestore, F!Refused
  <2>2. CASE F!Owner(c) # None
    <3>1. c.cookie \in SessionIds /\ owner[c.cookie] # None /\ c.cookie # "challenge"
      BY <1>1, <1>5, <2>2 DEF F!Owner
    <3> QED
      BY <1>1, <1>3, <1>5, <1>8, <2>2, <3>1 DEF F!ServeRestore, F!Refused
  <2> QED
    BY <2>1, <2>2
<1>9. CASE F!ServeOther(c)
  <2>0. c.op \in {"logout", "act", "renew"}
    BY <1>9 DEF F!ServeOther
  <2>1. CASE F!Owner(c) = None
    <3>1. c.cookie \notin live
      BY <1>1, <2>1 DEF F!Owner
    <3>2. /\ F!Reply(c, IF c.op = "renew" THEN "refused" ELSE "401")
          /\ UNCHANGED <<owner, live, done>>
      BY <1>9, <2>1 DEF F!ServeOther, F!Refused
    <3> QED
      BY <1>1, <1>3, <1>5, <2>0, <3>1, <3>2
  <2>2. CASE F!Owner(c) # None /\ ~F!ValidCsrf(c)
    <3>1. F!Reply(c, "403") /\ UNCHANGED <<owner, live, done>>
      BY <1>9, <2>2 DEF F!ServeOther, F!Refused
    <3> QED
      BY <1>1, <1>3, <1>5, <2>0, <3>1
  <2>3. CASE F!Owner(c) # None /\ F!ValidCsrf(c)
    <3>1. /\ done' = done \cup {[by |-> F!Owner(c), shown |-> c.shown]}
          /\ F!Reply(c, IF c.op = "renew" THEN "challenge" ELSE "ok")
          /\ live' = IF c.op = "logout" THEN live \ {c.cookie} ELSE live
          /\ UNCHANGED owner
      BY <1>9, <2>3 DEF F!ServeOther
    <3>2. c.cookie \in live /\ F!Owner(c) = owner[c.cookie] /\ c.csrf = c.cookie
      BY <2>3 DEF F!Owner, F!ValidCsrf
    <3>3. F!Owner(c) = c.shown
      BY <1>0, <1>1, <3>2 DEF SentAs
    <3>4. \A e \in done' : e.by = e.shown
      BY <1>1, <3>1, <3>3
    <3> QED
      BY <1>1, <1>3, <1>5, <2>0, <3>1, <3>4
  <2> QED
    BY <2>1, <2>2, <2>3
<1> QED
  BY <1>6, <1>7, <1>8, <1>9 DEF F!Serve

(* The user of a new session is shown: the tab goes on where this user may *)
(* be.                                                                     *)
LEMMA TabEnters ==
  ASSUME FrontInv, NEW r \in TabStates, ~r.loading, NEW u \in Users, NEW s \in SessionIds,
         owner[s] = u,
         r.user = u, r.csrf = s, r.challenge = None, r.page # "loading",
         r.page \in F!Pages => F!MayVisit(u, r.page),
         NEW q \in TabStates, q = IF r.page = "login" THEN F!Redirected(r, u) ELSE r
  PROVE  ShowsOwn(q) /\ ~q.loading /\ q.page # "loading"
<1>0. None \notin Users \cup SessionIds
  BY SessionAssumption DEF F!NoneAssumption
<1>1. CASE r.page # "login"
  <2>1. q = r /\ r.page \in F!Pages
    BY <1>1 DEF TabStates
  <2> QED
    BY <1>0, <2>1 DEF ShowsOwn
<1>2. CASE r.page = "login"
  <2> DEFINE p == F!Land(u, F!PostLogin(u, r.wanted))
  <2>1. p \in F!Pages /\ F!MayVisit(u, p)
    BY LandsWell
  <2>2. q = [F!At(r, p) EXCEPT !.wanted = None]
    BY <1>2 DEF F!Redirected
  <2> HIDE DEF p
  <2>3. /\ F!At(r, p) \in TabStates /\ F!At(r, p).page = p /\ F!At(r, p).user = u
        /\ F!At(r, p).csrf = s /\ ~F!At(r, p).loading
        /\ F!At(r, p).challenge = None
    BY <2>1, TabAt
  <2>4. q.page = p /\ q.user = u /\ q.csrf = s /\ ~q.loading /\ q.challenge = None
    BY <2>2, <2>3 DEF TabStates
  <2>5. p # "loading"
    BY <2>1 DEF F!Pages
  <2> QED
    BY <1>0, <2>1, <2>4, <2>5 DEF ShowsOwn
<1> QED
  BY <1>1, <1>2

(* So does an answer that arrives.                                         *)
LEMMA FrontAnswered ==
  ASSUME FrontInv, NEW c \in tabCalls, F!Answer(c)
  PROVE  FrontInv'
<1>0. /\ c \in TabRequests /\ SentAs(c) /\ AnsweredAs(c) /\ c.tab \in BrowserTabs
      /\ None \notin Users \cup SessionIds \cup F!Refusals /\ SessionIds \cap F!Refusals = {}
      /\ tab[c.tab] \in TabStates /\ ShowsOwn(tab[c.tab])
      /\ c.op = "restore" <=> tab[c.tab].page = "loading"
  BY SessionAssumption DEF FrontInv, FrontTypes, FrontCalls, FrontTabs, F!NoneAssumption,
     TabRequests, SentAs
<1>1. /\ tabCalls' = tabCalls \ {c} /\ UNCHANGED <<owner, live, tabLast, done>>
  BY DEF F!Answer, F!Enter, F!Challenged, F!Restore, F!LoggedOut, F!Unauthorized, F!Settle, F!Took
<1>2. CASE F!Enter(c)
  <2> DEFINE i == F!Idle(c)
             r == [F!SetAuth(i, c.answer, c.user) EXCEPT !.challenge = None]
             q == IF r.page = "login" THEN F!Redirected(r, c.user) ELSE r
  <2>1. /\ c.op \in {"login", "verify"} /\ c.answer \in SessionIds /\ cookie' = c.answer
        /\ UNCHANGED tabTold /\ tab' = [tab EXCEPT ![c.tab] = q]
    BY <1>2 DEF F!Enter, F!Becomes
  <2>2. /\ owner[c.answer] = c.user /\ c.user \in Users /\ tab[c.tab].user \in {None, c.user}
        /\ c.op \in Forms
    BY <1>0, <2>1 DEF SentAs, AnsweredAs, Forms
  <2>3. i \in TabStates /\ ~i.loading /\ i.page = tab[c.tab].page /\ i.wanted = tab[c.tab].wanted
    BY TabIdle
  <2> HIDE DEF i
  <2>4. /\ r \in TabStates /\ ~r.loading /\ r.page = i.page /\ r.wanted = i.wanted
        /\ r.user = c.user /\ r.csrf = c.answer /\ r.challenge = None
    BY <2>1, <2>2, <2>3 DEF F!SetAuth, TabStates
  <2> HIDE DEF r
  <2>5. r.page # "loading"
    BY <1>0, <2>1, <2>3, <2>4
  <2>6. r.page \in F!Pages => F!MayVisit(c.user, r.page)
    <3>1. tab[c.tab].page \in F!Pages => tab[c.tab].user = c.user
      BY <1>0, <2>2 DEF ShowsOwn
    <3> QED
      BY <1>0, <2>3, <2>4, <3>1 DEF ShowsOwn
  <2>7. q \in TabStates
    <3>1. CASE r.page # "login"
      BY <2>4, <3>1
    <3>2. CASE r.page = "login"
      <4> DEFINE p == F!Land(c.user, F!PostLogin(c.user, r.wanted))
      <4>1. p \in F!Pages
        BY <2>2, LandsWell
      <4>2. q = [F!At(r, p) EXCEPT !.wanted = None]
        BY <3>2 DEF F!Redirected
      <4> HIDE DEF p, q
      <4>3. F!At(r, p) \in TabStates
        BY <2>4, <4>1, TabAt
      <4> QED
        BY <4>2, <4>3 DEF TabStates
    <3> QED
      BY <3>1, <3>2
  <2>8. ShowsOwn(q) /\ ~q.loading /\ q.page # "loading"
    BY <2>1, <2>2, <2>4, <2>5, <2>6, <2>7, TabEnters
  <2>9. owner[cookie'] # None
    BY <1>0, <2>1, <2>2
  <2> HIDE DEF q
  <2> QED
    BY <1>1, <2>1, <2>2, <2>7, <2>8, <2>9, FrontAnswers
<1>3. CASE F!Challenged(c)
  <2> DEFINE i == F!Idle(c)
             r == [i EXCEPT !.challenge = c.user]
  <2>1. /\ c.answer = "challenge" /\ UNCHANGED <<cookie, tabTold>>
        /\ tab' = [tab EXCEPT ![c.tab] = r]
    BY <1>3 DEF F!Challenged, F!Becomes
  <2>2. c.op \in {"login", "renew"} /\ c.op \in Forms
    BY <1>0, <2>1 DEF AnsweredAs, Forms
  <2>3. c.user \in Users /\ tab[c.tab].user \in {None, c.user} /\ tab[c.tab].page # "loading"
    BY <1>0, <2>2 DEF SentAs
  <2>4. /\ i \in TabStates /\ ShowsOwn(i) /\ ~i.loading /\ i.page = tab[c.tab].page
        /\ i.user = tab[c.tab].user
    BY TabIdle
  <2> HIDE DEF i
  <2>5. /\ r \in TabStates /\ ~r.loading /\ r.page = i.page /\ r.user = i.user
        /\ r.csrf = i.csrf /\ r.challenge = c.user
    BY <2>3, <2>4 DEF TabStates
  <2> HIDE DEF r
  <2>6. ShowsOwn(r)
    BY <2>3, <2>4, <2>5 DEF ShowsOwn
  <2> QED
    BY <1>1, <2>1, <2>2, <2>3, <2>4, <2>5, <2>6, FrontAnswers
<1>4. CASE F!Restore(c)
  <2> DEFINE r == tab[c.tab]
             u == owner[c.answer]
  <2>1. /\ c.op = "restore" /\ c.answer # None /\ UNCHANGED <<cookie, tabTold>>
        /\ c.answer = "401" => tab' = [tab EXCEPT ![c.tab] = F!At(F!Cleared(r), "login")]
        /\ c.answer # "401" => tab' = [tab EXCEPT ![c.tab] =
             F!At(F!SetAuth(r, c.answer, u), F!Land(u, r.wanted))]
    BY <1>4 DEF F!Restore, F!Becomes
  <2>2. ~r.loading /\ r.page = "loading" /\ r.challenge = None
    <3>1. \A d \in tabCalls : d.tab = c.tab => d.op \notin Forms
      BY <2>1, <1>0 DEF FrontInv, FrontAlone, Forms, FrontCalls, SentAs
    <3>2. r.page = "loading" /\ r.challenge = None
      BY <1>0, <2>1 DEF ShowsOwn
    <3> QED
      BY <1>0, <3>1, <3>2 DEF FrontInv, FrontAlone
  <2>3. CASE c.answer = "401"
    <3>1. PICK q : q = F!At(F!Cleared(r), "login")
      OBVIOUS
    <3>2. q \in TabStates /\ ShowsOwn(q) /\ ~q.loading /\ q.page = "login"
      BY <1>0, <2>2, <3>1, TabCleared
    <3>3. tab' = [tab EXCEPT ![c.tab] = q]
      BY <2>1, <2>3, <3>1
    <3> QED
      BY <1>1, <2>1, <3>2, <3>3, FrontAnswers
  <2>4. CASE c.answer # "401"
    <3>1. c.answer \in SessionIds /\ u \in Users /\ u # None
      BY <1>0, <2>1, <2>4 DEF AnsweredAs, FrontInv, FrontTypes
    <3> DEFINE p == F!Land(u, r.wanted)
               s == F!SetAuth(r, c.answer, u)
    <3>2. p \in F!Pages /\ F!MayVisit(u, p)
      BY <3>1, LandsWell
    <3>3. PICK q : q = F!At(s, p)
      OBVIOUS
    <3>4. tab' = [tab EXCEPT ![c.tab] = q]
      BY <2>1, <2>4, <3>3
    <3>5. /\ s \in TabStates /\ s.user = u /\ s.csrf = c.answer /\ ~s.loading
          /\ s.page = "loading"
      BY <1>0, <2>2, <3>1 DEF F!SetAuth, TabStates
    <3> HIDE DEF s, p
    <3>6. p # "loading"
      BY <3>2 DEF F!Pages
    <3>7. /\ q \in TabStates /\ q.page = p /\ q.user = u /\ q.csrf = c.answer /\ ~q.loading
          /\ q.challenge = None
      BY <3>2, <3>3, <3>5, <3>6, TabAt
    <3>8. ShowsOwn(q)
      BY <1>0, <3>1, <3>2, <3>6, <3>7 DEF ShowsOwn
    <3> QED
      BY <1>1, <2>1, <3>4, <3>6, <3>7, <3>8, FrontAnswers
  <2> QED
    BY <2>3, <2>4
<1>5. CASE F!LoggedOut(c)
  <2>1. PICK q : q = F!At(F!Cleared(tab[c.tab]), "login")
    OBVIOUS
  <2>2. /\ c.op = "logout" /\ c.answer \in {"ok", "401"}
        /\ cookie' = None \/ cookie' = cookie
        /\ tabTold' = tabTold \cup ({c.cookie} \ {None})
        /\ tab' = [tab EXCEPT ![c.tab] = q]
    BY <1>5, <2>1 DEF F!LoggedOut, F!Becomes
  <2>3. q \in TabStates /\ ShowsOwn(q) /\ q.loading = tab[c.tab].loading /\ q.user = None
        /\ q.page # "loading" /\ c.op \notin Forms
    BY <1>0, <2>1, <2>2, TabCleared DEF Forms
  <2>4. c.cookie \notin live
    BY <1>0, <2>2 DEF AnsweredAs
  <2> QED
    BY <1>1, <2>2, <2>3, <2>4, FrontAnswers
<1>6. CASE F!Unauthorized(c)
  <2>1. PICK i : i = IF c.op = "login" THEN F!Idle(c) ELSE tab[c.tab]
    OBVIOUS
  <2>2. i \in TabStates /\ (c.op = "login" => ~i.loading)
        /\ (c.op # "login" => i.loading = tab[c.tab].loading)
    BY <1>0, <2>1, TabIdle
  <2>3. PICK q : q = F!At(F!Cleared(i), "login")
    OBVIOUS
  <2>4. /\ c.op \in {"act", "login"} /\ UNCHANGED <<cookie, tabTold>>
        /\ tab' = [tab EXCEPT ![c.tab] = q]
    BY <1>6, <2>1, <2>3 DEF F!Unauthorized, F!Becomes
  <2>5. q \in TabStates /\ ShowsOwn(q) /\ q.loading = i.loading /\ q.user = None
        /\ q.page # "loading"
    BY <2>2, <2>3, TabCleared
  <2> QED
    BY <1>1, <2>2, <2>4, <2>5, FrontAnswers DEF Forms
<1>7. CASE F!Settle(c)
  <2>1. PICK q : q = IF c.op \in {"renew", "verify"} THEN F!Idle(c) ELSE tab[c.tab]
    OBVIOUS
  <2>2. /\ c.op \in {"act", "logout", "renew", "verify"} /\ UNCHANGED <<cookie, tabTold>>
        /\ tab' = [tab EXCEPT ![c.tab] = q]
    BY <1>7, <2>1 DEF F!Settle, F!Becomes
  <2>3. /\ q \in TabStates /\ ShowsOwn(q) /\ q.page # "loading" /\ q.user = tab[c.tab].user
        /\ (c.op \in {"renew", "verify"} => ~q.loading)
        /\ (c.op \notin {"renew", "verify"} => q.loading = tab[c.tab].loading)
    BY <1>0, <2>1, <2>2, TabIdle
  <2> QED
    BY <1>1, <2>2, <2>3, FrontAnswers DEF Forms
<1> QED
  BY <1>2, <1>3, <1>4, <1>5, <1>6, <1>7 DEF F!Answer

(* So does an answer that is lost.                                         *)
LEMMA FrontLoses ==
  ASSUME FrontInv, NEW c \in tabCalls, F!Lose(c)
  PROVE  FrontInv'
<1>0. /\ FrontTypes /\ FrontPast /\ c \in TabRequests /\ SentAs(c) /\ AnsweredAs(c)
      /\ c.tab \in BrowserTabs /\ c.left \in {0, 1}
      /\ None \notin Users \cup SessionIds \cup F!Refusals /\ SessionIds \cap F!Refusals = {}
      /\ tab[c.tab] \in TabStates /\ ShowsOwn(tab[c.tab])
      /\ UNCHANGED <<cookie, owner, live, tabLast, done, tabTold>>
  BY SessionAssumption DEF FrontInv, FrontTypes, FrontCalls, FrontTabs, F!NoneAssumption,
     TabRequests, F!Lose
<1>1. CASE c.left > 0
  <2>1. PICK d : d = [c EXCEPT !.left = 0, !.answer = None, !.cookie = cookie,
                        !.csrf = tab[c.tab].csrf, !.shown = tab[c.tab].user]
    OBVIOUS
  <2>2. c.left = 1
    BY <1>0, <1>1
  <2>3. tabCalls' = (tabCalls \ {c}) \cup {d} /\ UNCHANGED tab
    BY <1>1, <2>1, <2>2 DEF F!Lose
  <2>4. cookie \in SessionIds \cup {None}
    BY <1>0 DEF FrontTypes
  <2>5. /\ d \in TabRequests /\ d.tab = c.tab /\ d.op = c.op /\ d.user = c.user
        /\ d.cookie = cookie /\ d.csrf = tab[c.tab].csrf /\ d.shown = tab[c.tab].user
        /\ d.answer = None
    BY <1>0, <2>1, <2>4 DEF TabRequests, TabStates
  <2>6. AnsweredAs(d)'
    BY <1>0, <2>5 DEF AnsweredAs, F!Refusals
  <2>7. /\ d.csrf # None => d.shown # None /\ owner'[d.csrf] = d.shown
        /\ d.cookie # None => owner'[d.cookie] # None
    BY <1>0, <2>5 DEF ShowsOwn, FrontPast
  <2>8. OwnersKept
    BY <1>0 DEF OwnersKept
  <2>9. /\ owner' \in [SessionIds -> Users \cup {None}] /\ live' \subseteq SessionIds
        /\ \A s \in live' : owner'[s] # None
        /\ \A e \in done' : e.by = e.shown
    BY <1>0 DEF FrontTypes, FrontPast
  <2> QED
    BY <1>0, <2>3, <2>5, <2>6, <2>7, <2>8, <2>9, FrontReplaces
<1>2. CASE ~(c.left > 0)
  <2>1. PICK q : q = CASE c.op = "restore" -> F!At(tab[c.tab], "login")
                       [] c.op \in {"login", "renew", "verify"} -> F!Idle(c)
                       [] OTHER -> tab[c.tab]
    OBVIOUS
  <2>2. tabCalls' = tabCalls \ {c} /\ tab' = [tab EXCEPT ![c.tab] = q]
    BY <1>2, <2>1 DEF F!Lose, F!Becomes
  <2>3. CASE c.op = "restore"
    <3>1. q = F!At(tab[c.tab], "login")
      BY <2>1, <2>3
    <3>2. /\ tab[c.tab].page = "loading" /\ tab[c.tab].user = None /\ tab[c.tab].csrf = None
          /\ tab[c.tab].challenge = None
      BY <1>0, <2>3 DEF SentAs, ShowsOwn, F!Pages
    <3>3. ~tab[c.tab].loading
      BY <1>0, <2>3 DEF FrontInv, FrontAlone, Forms, FrontCalls, SentAs
    <3>4. /\ q \in TabStates /\ q.page = "login" /\ q.user = None /\ q.csrf = None /\ ~q.loading
      BY <1>0, <3>1, <3>2, <3>3, TabAt
    <3>5. ShowsOwn(q)
      BY <3>4 DEF ShowsOwn, F!Pages
    <3> QED
      BY <1>0, <2>2, <2>3, <3>4, <3>5, FrontAnswers
  <2>4. CASE c.op # "restore"
    <3>1. q = IF c.op \in {"login", "renew", "verify"} THEN F!Idle(c) ELSE tab[c.tab]
      BY <2>1, <2>4
    <3>2. tab[c.tab].page # "loading"
      BY <1>0, <2>4 DEF SentAs
    <3>3. /\ q \in TabStates /\ ShowsOwn(q) /\ q.page # "loading" /\ q.user = tab[c.tab].user
          /\ (c.op \in Forms => ~q.loading)
          /\ (c.op \notin Forms => q.loading = tab[c.tab].loading)
      BY <1>0, <3>1, <3>2, TabIdle DEF Forms
    <3> QED
      BY <1>0, <2>2, <3>3, FrontAnswers
  <2> QED
    BY <2>3, <2>4
<1> QED
  BY <1>1, <1>2

(* Every step of the tabs keeps their invariant.                           *)
LEMMA FrontStep == FrontInv /\ [F!Next]_FVars => FrontInv'
<1> SUFFICES ASSUME FrontInv, [F!Next]_FVars PROVE FrontInv'
  OBVIOUS
<1>1. ASSUME NEW t \in BrowserTabs, \/ F!Open(t) \/ F!Renew(t) \/ F!Verify(t) \/ F!Logout(t)
                             \/ F!Act(t) \/ \E u \in Users : F!Login(t, u)
      PROVE  FrontInv'
  BY <1>1, FrontActs
<1>2. ASSUME NEW t \in BrowserTabs, F!CancelMfa(t) \/ \E p \in F!Pages : F!Go(t, p) PROVE FrontInv'
  BY <1>2, FrontGoes
<1>3. ASSUME NEW c \in tabCalls, F!Serve(c) \/ F!Answer(c) \/ F!Lose(c) PROVE FrontInv'
  BY <1>3, FrontServes, FrontAnswered, FrontLoses
<1>4. ASSUME NEW s \in SessionIds, F!Expire(s) PROVE FrontInv'
  <2>0. FrontTypes /\ FrontTabs /\ FrontCalls /\ FrontAlone /\ FrontPast
    BY DEF FrontInv
  <2>1. live' = live \ {s} /\ UNCHANGED <<cookie, owner, tab, tabCalls, tabLast, done, tabTold>>
    BY <1>4 DEF F!Expire
  <2>2. FrontTypes' /\ FrontAlone' /\ FrontPast'
    BY <2>0, <2>1 DEF FrontTypes, FrontAlone, FrontPast
  <2>3. FrontTabs'
    BY <2>0, <2>1 DEF FrontTabs, ShowsOwn
  <2>4. FrontCalls'
    BY <2>0, <2>1 DEF FrontCalls, SentAs, AnsweredAs
  <2> QED
    BY <2>2, <2>3, <2>4 DEF FrontInv
<1>5. CASE UNCHANGED FVars
  <2>0. FrontTypes /\ FrontTabs /\ FrontCalls /\ FrontAlone /\ FrontPast
    BY DEF FrontInv
  <2>1. UNCHANGED <<cookie, owner, live, tab, tabCalls, tabLast, done, tabTold>>
    BY <1>5 DEF FVars
  <2>2. FrontTypes' /\ FrontAlone' /\ FrontPast'
    BY <2>0, <2>1 DEF FrontTypes, FrontAlone, FrontPast
  <2>3. FrontTabs' /\ FrontCalls'
    BY <2>0, <2>1 DEF FrontTabs, ShowsOwn, FrontCalls, SentAs, AnsweredAs
  <2> QED
    BY <2>2, <2>3 DEF FrontInv
<1> QED
  BY <1>1, <1>2, <1>3, <1>4, <1>5 DEF F!Next

-----------------------------------------------------------------------------
(* The file of a guest (ClientFile).                                       *)

FileData == Guests \cup Drafts \cup {None}
FileReads == [visit : Nat, id : Guests, answer : FileData]
FileCalls ==
  [n : C!Call, op : {"create", "update", "delete"}, id : Guests \cup {New}, visit : Nat,
   left : {0, 1}, answer : {None} \cup C!Answers]

FileTypes ==
  /\ filePage \in C!Pages /\ fileVisit \in Nat
  /\ fileCurrent \in {None} \cup [id : Guests, data : FileData]
  /\ form \in FileData /\ baseline \in FileData
  /\ editing \in BOOLEAN /\ asking \in BOOLEAN /\ saving \in BOOLEAN /\ deleting \in BOOLEAN
  /\ fileReads \subseteq FileReads /\ calls \subseteq FileCalls
  /\ file \in [Guests -> FileData] /\ registered \in BOOLEAN
  /\ fileMade \in [C!Call -> Nat] /\ fileTold \subseteq C!Call
  /\ confirmed \in Nat /\ typed \in Nat /\ fileLast \in 0 .. MaxCalls

(* Every call is of a page that was opened, one of each kind at a time,    *)
(* and the page waits for it while it is shown.                            *)
FileFlow ==
  /\ \A c \in calls : c.n <= fileLast /\ c.visit <= fileVisit /\ (c.op = "create" <=> c.id = New)
  /\ \A c, d \in calls : c.n = d.n => c = d
  /\ \A c, d \in calls : c.visit = d.visit /\ (c.op = "delete" <=> d.op = "delete") => c = d
  /\ \A c \in calls : C!Here(c) => c.id = filePage
  /\ saving <=> \E c \in calls : C!Here(c) /\ c.op # "delete"
  /\ deleting <=> \E c \in calls : C!Here(c) /\ c.op = "delete"
  /\ editing => filePage # None
  /\ asking => filePage \in Guests
  /\ C!Dirty => filePage # None

(* What a call has changed cannot be changed by it again.                  *)
FileDone ==
  /\ \A c \in calls :
       /\ c.n \notin fileTold
       /\ c.answer = "ok" => fileMade[c.n] = 1
       /\ c.answer = "found" => c.op = "delete" /\ fileMade[c.n] = 0
       /\ c.op = "create" /\ fileMade[c.n] > 0 => registered
       /\ c.op = "delete" /\ fileMade[c.n] > 0 => file[c.id] = None
  /\ \A n \in C!Call : n > fileLast => fileMade[n] = 0 /\ n \notin fileTold
  /\ C!ToldIsDone

FileInv == FileTypes /\ FileFlow /\ FileDone

(* What the invariant says of calls and reads on their way.                *)
LEMMA FileFacts ==
  ASSUME FileInv
  PROVE  /\ FileTypes /\ FileFlow /\ FileDone /\ MaxCalls \in Nat /\ fileLast \in Nat
         /\ New \notin Guests /\ None \notin FileData \ {None} /\ None # New
         /\ None \notin C!Answers
         /\ None \notin Guests
         /\ \A c \in calls : /\ c \in FileCalls /\ c.n \in C!Call /\ c.n \in 1 .. fileLast
                             /\ c.id \in Guests \cup {New} /\ c.visit \in Nat /\ c.left \in {0, 1}
                             /\ c.op = "delete" => c.id \in Guests
<1>1. /\ FileTypes /\ FileFlow /\ FileDone /\ MaxCalls \in Nat /\ fileLast \in Nat
      /\ New \notin Guests /\ None \notin FileData \ {None} /\ None # New
      /\ None \notin C!Answers /\ None \notin Guests
  BY FileAssumption
  DEF FileInv, FileTypes, C!NoneAssumption, C!BoundAssumption
<1>2. ASSUME NEW c \in calls
      PROVE  /\ c \in FileCalls /\ c.n \in C!Call /\ c.n \in 1 .. fileLast
             /\ c.id \in Guests \cup {New} /\ c.visit \in Nat /\ c.left \in {0, 1}
             /\ c.op = "delete" => c.id \in Guests
  <2>1. c \in FileCalls /\ c.n <= fileLast /\ (c.op = "create" <=> c.id = New)
    BY <1>1 DEF FileTypes, FileFlow
  <2>2. c.n \in C!Call /\ c.id \in Guests \cup {New} /\ c.visit \in Nat /\ c.left \in {0, 1}
    BY <2>1 DEF FileCalls
  <2>3. c.n \in 1 .. fileLast
    BY <1>1, <2>1, <2>2 DEF C!Call
  <2> QED
    BY <2>1, <2>2, <2>3
<1> QED
  BY <1>1, <1>2

(* The file of a guest begins well.                                        *)
LEMMA FileInit == C!Init => FileInv
<1> SUFFICES ASSUME C!Init PROVE FileInv
  OBVIOUS
<1>1. /\ filePage = None /\ fileVisit = 0 /\ fileCurrent = None /\ form = None /\ baseline = None
      /\ editing = FALSE /\ asking = FALSE /\ saving = FALSE /\ deleting = FALSE
      /\ fileReads = {} /\ calls = {}
      /\ file = [g \in Guests |-> g] /\ registered = FALSE
      /\ fileMade = [n \in C!Call |-> 0] /\ fileTold = {}
      /\ confirmed = 0 /\ typed = 0 /\ fileLast = 0
  BY DEF C!Init
<1>2. ~editing /\ ~asking /\ ~saving /\ ~deleting /\ ~registered /\ ~C!Dirty
  BY <1>1 DEF C!Dirty
<1>3. file \in [Guests -> FileData] /\ fileMade \in [C!Call -> Nat] /\ fileLast \in 0 .. MaxCalls
  BY <1>1, FileAssumption DEF FileData, C!BoundAssumption
<1>4. /\ editing \in BOOLEAN /\ asking \in BOOLEAN /\ saving \in BOOLEAN /\ deleting \in BOOLEAN
      /\ registered \in BOOLEAN
  BY <1>1
<1>5. FileTypes
  BY <1>1, <1>3, <1>4 DEF FileTypes, C!Pages, FileData
<1>6. FileFlow
  BY <1>1, <1>2 DEF FileFlow
<1>7. FileDone
  BY <1>1 DEF FileDone, C!ToldIsDone
<1> QED
  BY <1>5, <1>6, <1>7 DEF FileInv

(* Its invariant implies what it promises.                                 *)
LEMMA FileHolds == FileInv => C!TypeOK /\ C!ToldIsDone
BY DEF FileInv, FileTypes, FileFlow, FileDone, C!TypeOK, FileData

(* What moves neither the page nor the calls.                              *)
LEMMA FileStill ==
  ASSUME FileInv, FileTypes',
         UNCHANGED <<filePage, fileVisit, saving, deleting, calls, fileMade, fileTold, fileLast>>,
         editing' => filePage # None, asking' => filePage \in Guests,
         C!Dirty' => filePage # None,
         registered => registered', \A g \in Guests : file[g] = None => file'[g] = None
  PROVE  FileInv'
<1>1. FileFlow'
  BY DEF FileInv, FileFlow, C!Here
<1>2. FileDone'
  BY FileFacts DEF FileDone, C!ToldIsDone
<1> QED
  BY <1>1, <1>2 DEF FileInv

(* Opening a page, whether from another one or after a success.            *)
LEMMA FileMounts ==
  ASSUME FileInv, NEW p \in C!Pages, C!Mount(p), filePage' = p,
         fileCurrent' \in {None} \cup [id : Guests, data : FileData]
  PROVE  /\ form' \in FileData /\ baseline' \in FileData /\ ~C!Dirty'
         /\ editing' \in BOOLEAN /\ asking' \in BOOLEAN /\ saving' \in BOOLEAN
         /\ deleting' \in BOOLEAN /\ ~asking' /\ ~saving' /\ ~deleting'
         /\ editing' => filePage' # None
<1>1. /\ form' = C!Displayed(p, fileCurrent') /\ baseline' = form'
      /\ editing' = (p = New) /\ asking' = FALSE /\ saving' = FALSE /\ deleting' = FALSE
  BY DEF C!Mount, C!Load
<1>2. C!Displayed(p, fileCurrent') \in FileData
  BY DEF C!Displayed, FileData
<1>3. /\ editing' \in BOOLEAN /\ asking' \in BOOLEAN /\ saving' \in BOOLEAN
      /\ deleting' \in BOOLEAN /\ ~asking' /\ ~saving' /\ ~deleting'
  BY <1>1
<1>4. ~C!Dirty'
  BY <1>1 DEF C!Dirty
<1>5. editing' => filePage' # None
  BY <1>1, FileFacts
<1> QED
  BY <1>1, <1>2, <1>3, <1>4, <1>5

(* A page that opens keeps the file well.                                  *)
LEMMA FileOpens ==
  ASSUME FileInv, NEW p \in C!Pages, C!Open(p)
  PROVE  FileInv'
<1>1. /\ fileVisit' = fileVisit + 1 /\ p # filePage /\ C!Leave /\ C!Mount(p) /\ filePage' = p
      /\ fileReads' = IF p \in Guests
           THEN fileReads \cup {[visit |-> fileVisit + 1, id |-> p, answer |-> None]} ELSE fileReads
      /\ UNCHANGED <<fileCurrent, calls, file, registered, fileMade, fileTold, typed, fileLast>>
  BY DEF C!Open, C!Mount, C!server
<1>2. fileReads' \subseteq FileReads
  <2>1. p \in Guests => [visit |-> fileVisit + 1, id |-> p, answer |-> None] \in FileReads
    BY FileFacts DEF FileReads, FileTypes, FileData
  <2> QED
    BY <1>1, <2>1 DEF FileInv, FileTypes
<1>3. confirmed' \in Nat
  BY <1>1, FileFacts DEF C!Leave, C!Discard, FileTypes
<1>4. /\ form' \in FileData /\ baseline' \in FileData /\ ~C!Dirty'
      /\ editing' \in BOOLEAN /\ asking' \in BOOLEAN /\ saving' \in BOOLEAN
      /\ deleting' \in BOOLEAN /\ ~asking' /\ ~saving' /\ ~deleting'
      /\ editing' => filePage' # None
  BY <1>1, FileFacts, FileMounts DEF FileTypes
<1>5. FileTypes'
  BY <1>1, <1>2, <1>3, <1>4, FileFacts DEF FileTypes
<1>6. \A c \in calls' : ~C!Here(c)'
  BY <1>1, FileFacts DEF C!Here, FileFlow, FileTypes
<1>7. FileFlow'
  <2>1. \A c \in calls' : c.visit <= fileVisit'
    BY <1>1, FileFacts DEF FileFlow, FileTypes
  <2>2. asking' => filePage' \in Guests
    BY <1>4
  <2> QED
    BY <1>1, <1>4, <1>6, <2>1, <2>2, FileFacts DEF FileFlow
<1>8. FileDone'
  BY <1>1, FileFacts DEF FileDone, C!ToldIsDone
<1> QED
  BY <1>5, <1>7, <1>8 DEF FileInv

(* So does an edit of the draft.                                           *)
LEMMA FileEdits ==
  ASSUME FileInv, C!Edit \/ C!Close \/ C!Ask \/ \E d \in Drafts : C!Type(d)
  PROVE  FileInv'
<1>1. /\ UNCHANGED <<filePage, fileVisit, fileCurrent, saving, deleting, fileReads, calls, file,
                     registered, fileMade, fileTold, fileLast>>
  BY DEF C!Edit, C!Close, C!Ask, C!Type, C!server
<1>2. form' \in FileData /\ baseline' \in FileData
  BY FileFacts DEF C!Edit, C!Close, C!Ask, C!Type, FileTypes, FileData
<1>3. editing' \in BOOLEAN /\ (editing' => filePage # None)
  <2>1. CASE C!Edit \/ C!Close
    BY <2>1, FileFacts DEF C!Edit, C!Close
  <2>2. CASE C!Ask \/ \E d \in Drafts : C!Type(d)
    BY <2>2, FileFacts DEF C!Ask, C!Type, FileTypes, FileFlow
  <2> QED
    BY <2>1, <2>2
<1>4. asking' \in BOOLEAN /\ (asking' => filePage \in Guests)
  <2>1. CASE C!Ask
    <3>1. asking' = ~asking /\ filePage \in Guests
      BY <2>1 DEF C!Ask
    <3>2. asking' \in BOOLEAN
      BY <3>1
    <3> QED
      BY <3>1, <3>2
  <2>2. CASE C!Edit \/ C!Close \/ \E d \in Drafts : C!Type(d)
    <3>1. UNCHANGED asking
      BY <2>2 DEF C!Edit, C!Close, C!Type
    <3> QED
      BY <3>1, FileFacts DEF FileTypes, FileFlow
  <2> QED
    BY <2>1, <2>2
<1>5. confirmed' \in Nat /\ typed' \in Nat
  BY FileFacts DEF C!Edit, C!Close, C!Ask, C!Type, C!Discard, FileTypes
<1>6. C!Dirty' => filePage # None
  BY FileFacts DEF C!Edit, C!Close, C!Ask, C!Type, C!Dirty, FileFlow
<1>7. FileTypes'
  BY <1>1, <1>2, <1>3, <1>4, <1>5, FileFacts DEF FileTypes
<1> QED
  BY <1>1, <1>3, <1>4, <1>6, <1>7, FileStill

(* So does a read, served, shown or failing.                               *)
LEMMA FileAnswers ==
  ASSUME FileInv, NEW r \in fileReads, C!ServeRead(r) \/ C!Read(r) \/ C!ReadFails(r)
  PROVE  FileInv'
<1>1. /\ UNCHANGED <<filePage, fileVisit, editing, asking, saving, deleting, calls, file,
                     registered, fileMade, fileTold, confirmed, typed, fileLast>>
  BY DEF C!ServeRead, C!Read, C!ReadFails, C!server, C!tab
<1>2. r \in FileReads /\ r.id \in Guests /\ r.answer \in FileData
  BY FileFacts DEF FileTypes, FileReads
<1>3. fileReads' \subseteq FileReads
  <2>1. [r EXCEPT !.answer = file[r.id]] \in FileReads
    BY <1>2, FileFacts DEF FileTypes, FileReads
  <2> QED
    BY <2>1, FileFacts DEF C!ServeRead, C!Read, C!ReadFails, FileTypes
<1>4. fileCurrent' \in {None} \cup [id : Guests, data : FileData]
  BY <1>2, FileFacts DEF C!ServeRead, C!Read, C!ReadFails, C!tab, FileTypes
<1>5. form' \in FileData /\ baseline' \in FileData
  BY <1>2, FileFacts DEF C!ServeRead, C!Read, C!ReadFails, C!Load, C!tab, FileTypes
<1>6. C!Dirty' => filePage # None
  BY FileFacts DEF C!ServeRead, C!Read, C!ReadFails, C!Load, C!tab, C!Dirty, FileFlow
<1>7. FileTypes'
  BY <1>1, <1>3, <1>4, <1>5, FileFacts DEF FileTypes
<1> QED
  BY <1>1, <1>6, <1>7, FileStill, FileFacts DEF FileFlow

(* So do other people, and the pages of the history.                       *)
LEMMA FileOthers ==
  ASSUME FileInv, \/ \E g \in Guests, d \in Drafts \cup {None} : C!OthersChange(g, d)
                  \/ C!ReadPage \/ C!ShowHistory \/ C!HistoryFails
                  \/ \E p \in 1 .. FileBooked : C!Turn(p)
                  \/ \E r \in C!Booking : C!Book(r)
                  \/ \E d \in Days : \E i \in DOMAIN bookings : C!Move(i, d)
                  \/ UNCHANGED CVars
  PROVE  FileInv'
<1>1. /\ UNCHANGED <<filePage, fileVisit, fileCurrent, form, baseline, editing, asking, saving,
                     deleting, fileReads, calls, fileMade, fileTold, confirmed, typed, fileLast>>
  BY DEF C!OthersChange, C!ReadPage, C!ShowHistory, C!HistoryFails, C!Turn, C!Book, C!Move, CVars,
     C!tab
<1>2. /\ registered' \in BOOLEAN /\ (registered => registered')
      /\ file' \in [Guests -> FileData] /\ \A g \in Guests : file[g] = None => file'[g] = None
  <2>1. CASE UNCHANGED <<file, registered>>
    BY <2>1, FileFacts DEF FileTypes
  <2>2. ASSUME NEW g \in Guests, NEW d \in Drafts \cup {None}, C!OthersChange(g, d)
        PROVE  \/ UNCHANGED <<file, registered>>
               \/ registered' = TRUE /\ UNCHANGED file
               \/ file[g] # None /\ file' = [file EXCEPT ![g] = d] /\ UNCHANGED registered
    BY <2>2 DEF C!OthersChange
  <2>3. CASE registered' = TRUE /\ UNCHANGED file
    <3>1. registered' \in BOOLEAN /\ registered'
      BY <2>3
    <3> QED
      BY <2>3, <3>1, FileFacts DEF FileTypes
  <2>4. ASSUME NEW g \in Guests, NEW d \in Drafts \cup {None}, file[g] # None,
               file' = [file EXCEPT ![g] = d], UNCHANGED registered
        PROVE  /\ registered' \in BOOLEAN /\ (registered => registered')
               /\ file' \in [Guests -> FileData]
               /\ \A h \in Guests : file[h] = None => file'[h] = None
    BY <2>4, FileFacts DEF FileTypes, FileData
  <2>5. CASE ~\E g \in Guests, d \in Drafts \cup {None} : C!OthersChange(g, d)
    <3>1. UNCHANGED <<file, registered>>
      BY <2>5 DEF C!ReadPage, C!ShowHistory, C!HistoryFails, C!Turn, C!Book, C!Move, CVars, C!server
    <3> QED
      BY <2>1, <3>1
  <2> QED
    BY <2>1, <2>2, <2>3, <2>4, <2>5
<1>3. FileTypes'
  BY <1>1, <1>2, FileFacts DEF FileTypes
<1>4. C!Dirty' => filePage # None
  BY <1>1, FileFacts DEF C!Dirty, FileFlow
<1> QED
  BY <1>1, <1>2, <1>3, <1>4, FileStill, FileFacts DEF FileFlow

(* Save and Delete: the page waits for a call it did not wait for before.  *)
LEMMA FileAsks ==
  ASSUME FileInv, C!Save \/ C!Delete
  PROVE  FileInv'
<1>1. PICK op \in {"create", "update", "delete"} :
        /\ C!Request(op) /\ (op = "delete" => asking /\ ~deleting)
        /\ (op # "delete" => editing /\ ~saving /\ (op = "create" <=> filePage = New))
        /\ IF op = "delete" THEN deleting' = TRUE /\ UNCHANGED saving
                            ELSE saving' = TRUE /\ UNCHANGED deleting
  <2>1. CASE C!Save
    <3>1. C!Request("create") \/ C!Request("update")
      BY <2>1 DEF C!Save
    <3>2. CASE filePage = New
      BY <2>1, <3>2 DEF C!Save
    <3>3. CASE filePage # New
      BY <2>1, <3>3 DEF C!Save
    <3> QED
      BY <3>2, <3>3
  <2>2. CASE C!Delete
    BY <2>2 DEF C!Delete
  <2> QED
    BY <2>1, <2>2
<1>2. PICK c : c = [n |-> fileLast + 1, op |-> op, id |-> filePage, visit |-> fileVisit,
                    left |-> 1, answer |-> None]
  OBVIOUS
<1>3. /\ fileLast < MaxCalls /\ fileLast' = fileLast + 1 /\ calls' = calls \cup {c}
      /\ UNCHANGED <<filePage, fileVisit, fileCurrent, form, baseline, editing, asking, fileReads,
                     file, registered, fileMade, fileTold, confirmed, typed>>
  BY <1>1, <1>2 DEF C!Request, C!server
<1>4. filePage # None /\ (op = "delete" => filePage \in Guests) /\ filePage \in Guests \cup {New}
  BY <1>1, FileFacts DEF FileFlow, FileTypes, C!Pages
<1>5. /\ c.n = fileLast + 1 /\ c.op = op /\ c.id = filePage /\ c.visit = fileVisit
      /\ c.answer = None /\ c.left = 1
  BY <1>2
<1>6. c \in FileCalls /\ c.n \in C!Call /\ fileLast' \in 0 .. MaxCalls
  <2>1. fileLast + 1 \in C!Call /\ fileLast' \in 0 .. MaxCalls
    BY <1>3, FileFacts DEF C!Call, FileTypes
  <2> QED
    BY <1>2, <1>4, <2>1, FileFacts DEF FileCalls, FileTypes
<1>7. saving' \in BOOLEAN /\ deleting' \in BOOLEAN
  <2>1. CASE op = "delete"
    <3>1. deleting' = TRUE /\ saving' = saving
      BY <1>1, <2>1
    <3>2. deleting' \in BOOLEAN
      BY <3>1
    <3> QED
      BY <3>1, <3>2, FileFacts DEF FileTypes
  <2>2. CASE op # "delete"
    <3>1. saving' = TRUE /\ deleting' = deleting
      BY <1>1, <2>2
    <3>2. saving' \in BOOLEAN
      BY <3>1
    <3> QED
      BY <3>1, <3>2, FileFacts DEF FileTypes
  <2> QED
    BY <2>1, <2>2
<1>8. FileTypes'
  BY <1>3, <1>6, <1>7, FileFacts DEF FileTypes
<1>9. FileFlow'
  <2>1. \A d \in calls' :
          /\ d.n <= fileLast' /\ d.visit <= fileVisit' /\ (d.op = "create" <=> d.id = New)
    <3>1. c.op = "create" <=> c.id = New
      BY <1>1, <1>4, <1>5, FileFacts
    <3>2. \A d \in calls : d.n <= fileLast + 1 /\ d.n # fileLast + 1
      BY FileFacts
    <3> QED
      BY <1>3, <1>5, <3>1, <3>2, FileFacts DEF FileFlow, FileTypes
  <2>2. \A d, e \in calls' : d.n = e.n => d = e
    <3>1. \A d \in calls : d.n # c.n
      BY <1>5, FileFacts
    <3> QED
      BY <1>3, <3>1, FileFacts DEF FileFlow
  <2>3. \A d \in calls : ~(d.visit = c.visit /\ (d.op = "delete" <=> c.op = "delete"))
    BY <1>1, <1>4, <1>5, FileFacts DEF FileFlow, C!Here
  <2>4. \A d, e \in calls' : d.visit = e.visit /\ (d.op = "delete" <=> e.op = "delete") => d = e
    BY <1>3, <2>3, FileFacts DEF FileFlow
  <2>5. C!Here(c) /\ \A d : C!Here(d)' <=> C!Here(d)
    BY <1>3, <1>4, <1>5 DEF C!Here
  <2>6. \A d \in calls' : C!Here(d)' => d.id = filePage'
    BY <1>3, <1>5, <2>5, FileFacts DEF FileFlow
  <2>7. saving' <=> \E d \in calls' : C!Here(d)' /\ d.op # "delete"
    BY <1>1, <1>3, <1>5, <2>5, FileFacts DEF FileFlow
  <2>8. deleting' <=> \E d \in calls' : C!Here(d)' /\ d.op = "delete"
    BY <1>1, <1>3, <1>5, <2>5, FileFacts DEF FileFlow
  <2>9. (editing' => filePage' # None) /\ (asking' => filePage' \in Guests)
        /\ (C!Dirty' => filePage' # None)
    BY <1>3, <1>4, FileFacts DEF FileFlow
  <2> QED
    BY <2>1, <2>2, <2>4, <2>6, <2>7, <2>8, <2>9 DEF FileFlow
<1>10. FileDone'
  <2>1. fileMade[c.n] = 0 /\ c.n \notin fileTold
    BY <1>5, <1>6, FileFacts DEF FileDone, C!Call
  <2>2. \A n \in C!Call : n > fileLast' => fileMade[n] = 0 /\ n \notin fileTold
    BY <1>3, FileFacts DEF FileDone, C!Call
  <2>3. \A d \in calls' :
          /\ d.n \notin fileTold'
          /\ d.answer = "ok" => fileMade'[d.n] = 1
          /\ d.answer = "found" => d.op = "delete" /\ fileMade'[d.n] = 0
          /\ d.op = "create" /\ fileMade'[d.n] > 0 => registered'
          /\ d.op = "delete" /\ fileMade'[d.n] > 0 => file'[d.id] = None
    <3>1. c.answer # "ok" /\ c.answer # "found"
      BY <1>5, FileFacts DEF C!Answers
    <3> QED
      BY <1>3, <2>1, <3>1, FileFacts DEF FileDone
  <2> QED
    BY <1>3, <2>2, <2>3, FileFacts DEF FileDone, C!ToldIsDone
<1> QED
  BY <1>8, <1>9, <1>10 DEF FileInv

(* A call stays under way: it was served, or it is sent again.             *)
LEMMA FileRetains ==
  ASSUME FileInv, NEW c \in calls, NEW d \in FileCalls, calls' = (calls \ {c}) \cup {d},
         d.n = c.n, d.op = c.op, d.id = c.id, d.visit = c.visit,
         UNCHANGED <<filePage, fileVisit, fileCurrent, form, baseline, editing, asking, saving,
                     deleting, fileReads, confirmed, typed, fileTold, fileLast>>,
         registered' \in BOOLEAN, registered => registered', file' \in [Guests -> FileData],
         \A g \in Guests : file[g] = None => file'[g] = None,
         fileMade' \in [C!Call -> Nat],
         \A n \in C!Call : n # c.n => fileMade'[n] = fileMade[n],
         fileMade'[c.n] <= 1,
         d.answer = "ok" => fileMade'[d.n] = 1,
         d.answer = "found" => d.op = "delete" /\ fileMade'[d.n] = 0,
         d.op = "create" /\ fileMade'[d.n] > 0 => registered',
         d.op = "delete" /\ fileMade'[d.n] > 0 => file'[d.id] = None
  PROVE  FileInv'
<1>1. FileTypes'
  BY FileFacts DEF FileTypes
<1>2. \A e : C!Here(e)' <=> C!Here(e)
  BY DEF C!Here
<1>3. C!Here(d) <=> C!Here(c)
  BY DEF C!Here
<1>4. FileFlow'
  <2>1. \A e \in calls' :
          /\ e.n <= fileLast' /\ e.visit <= fileVisit' /\ (e.op = "create" <=> e.id = New)
    BY FileFacts DEF FileFlow
  <2>2. \A e, f \in calls' : e.n = f.n => e = f
    BY FileFacts DEF FileFlow
  <2>3. \A e, f \in calls' : e.visit = f.visit /\ (e.op = "delete" <=> f.op = "delete") => e = f
    BY FileFacts DEF FileFlow
  <2>4. \A e \in calls' : C!Here(e)' => e.id = filePage'
    BY <1>2, <1>3, FileFacts DEF FileFlow
  <2>5. saving' <=> \E e \in calls' : C!Here(e)' /\ e.op # "delete"
    BY <1>2, <1>3, FileFacts DEF FileFlow
  <2>6. deleting' <=> \E e \in calls' : C!Here(e)' /\ e.op = "delete"
    BY <1>2, <1>3, FileFacts DEF FileFlow
  <2>7. (editing' => filePage' # None) /\ (asking' => filePage' \in Guests)
        /\ (C!Dirty' => filePage' # None)
    BY FileFacts DEF FileFlow, C!Dirty
  <2> QED
    BY <2>1, <2>2, <2>3, <2>4, <2>5, <2>6, <2>7 DEF FileFlow
<1>5. FileDone'
  <2>1. ASSUME NEW e \in calls, e # c
        PROVE  /\ e.n \notin fileTold'
               /\ e.answer = "ok" => fileMade'[e.n] = 1
               /\ e.answer = "found" => e.op = "delete" /\ fileMade'[e.n] = 0
               /\ e.op = "create" /\ fileMade'[e.n] > 0 => registered'
               /\ e.op = "delete" /\ fileMade'[e.n] > 0 => file'[e.id] = None
    <3>1. e.n # c.n /\ fileMade'[e.n] = fileMade[e.n] /\ e.n \notin fileTold
      BY <2>1, FileFacts DEF FileFlow, FileDone
    <3> QED
      BY <3>1, FileFacts DEF FileDone
  <2>2. d.n \notin fileTold'
    BY FileFacts DEF FileDone
  <2>3. \A n \in C!Call : n > fileLast' => fileMade'[n] = 0 /\ n \notin fileTold'
    <3>1. c.n <= fileLast /\ c.n \in Nat
      BY FileFacts DEF FileFlow, C!Call
    <3> QED
      BY <3>1, FileFacts DEF FileDone, C!Call
  <2>4. C!ToldIsDone'
    <3>1. c.n \notin fileTold
      BY FileFacts DEF FileDone
    <3> QED
      BY <3>1, FileFacts DEF FileDone, C!ToldIsDone
  <2> QED
    BY <2>1, <2>2, <2>3, <2>4 DEF FileDone
<1> QED
  BY <1>1, <1>4, <1>5 DEF FileInv

(* So does the server, when it does what a call asks.                      *)
LEMMA FileServes ==
  ASSUME FileInv, NEW c \in calls, C!Serve(c)
  PROVE  FileInv'
<1>1. UNCHANGED <<filePage, fileVisit, fileCurrent, form, baseline, editing, asking, saving,
                  deleting, fileReads, confirmed, typed, fileTold, fileLast>>
  BY DEF C!Serve, C!tab
<1>2. ASSUME NEW v \in {None} \cup C!Answers
      PROVE  /\ [c EXCEPT !.answer = v] \in FileCalls /\ [c EXCEPT !.answer = v].n = c.n
             /\ [c EXCEPT !.answer = v].op = c.op /\ [c EXCEPT !.answer = v].id = c.id
             /\ [c EXCEPT !.answer = v].visit = c.visit /\ [c EXCEPT !.answer = v].answer = v
  <2>1. c \in FileCalls
    BY FileFacts
  <2> QED
    BY <2>1 DEF FileCalls
<1>3. /\ fileMade \in [C!Call -> Nat] /\ c.n \in C!Call /\ fileMade[c.n] \in Nat
      /\ fileMade[c.n] <= 1 /\ file \in [Guests -> FileData] /\ registered \in BOOLEAN
      /\ c.op = "create" /\ fileMade[c.n] > 0 => registered
  BY FileFacts DEF FileTypes, FileDone, C!ToldIsDone
<1>4. c.op = "delete" /\ fileMade[c.n] > 0 => file[c.id] = None
  BY FileFacts DEF FileDone
(* Nothing is changed.                                                     *)
<1>5. ASSUME NEW v \in C!Answers \ {"ok"}, calls' = (calls \ {c}) \cup {[c EXCEPT !.answer = v]},
             UNCHANGED <<file, fileMade>>, registered' \in BOOLEAN, registered => registered',
             v = "found" => c.op = "delete" /\ file[c.id] # None
      PROVE  FileInv'
  <2>1. PICK d \in FileCalls : d = [c EXCEPT !.answer = v]
    BY <1>2
  <2>2. /\ d.n = c.n /\ d.op = c.op /\ d.id = c.id /\ d.visit = c.visit /\ d.answer = v
        /\ calls' = (calls \ {c}) \cup {d}
    BY <1>2, <1>5, <2>1
  <2>3. d.answer = "found" => d.op = "delete" /\ fileMade'[d.n] = 0
    BY <1>3, <1>4, <1>5, <2>2
  <2> QED
    BY <1>1, <1>3, <1>4, <1>5, <2>2, <2>3, FileRetains
(* This call changes the server, for the first time.                       *)
<1>6. ASSUME C!Changed(c), fileMade[c.n] = 0, registered' \in BOOLEAN, registered => registered',
             file' \in [Guests -> FileData], \A g \in Guests : file[g] = None => file'[g] = None,
             c.op = "create" => registered', c.op = "delete" => file'[c.id] = None
      PROVE  FileInv'
  <2>1. PICK d \in FileCalls : d = [c EXCEPT !.answer = "ok"]
    BY <1>2 DEF C!Answers
  <2>2. /\ d.n = c.n /\ d.op = c.op /\ d.id = c.id /\ d.visit = c.visit /\ d.answer = "ok"
        /\ calls' = (calls \ {c}) \cup {d}
        /\ fileMade' = [fileMade EXCEPT ![c.n] = 1]
    BY <1>2, <1>3, <1>6, <2>1 DEF C!Changed, C!With, C!Answers
  <2>3. /\ fileMade' \in [C!Call -> Nat] /\ fileMade'[c.n] = 1
        /\ \A n \in C!Call : n # c.n => fileMade'[n] = fileMade[n]
    BY <1>3, <2>2
  <2> QED
    BY <1>1, <1>6, <2>2, <2>3, FileRetains
<1>7. CASE C!Create(c)
  <2>1. registered' = TRUE /\ UNCHANGED file /\ c.op = "create"
    BY <1>7 DEF C!Create
  <2>2. registered' \in BOOLEAN /\ registered'
    BY <2>1
  <2>3. CASE registered
    <3>1. /\ calls' = (calls \ {c}) \cup {[c EXCEPT !.answer = "conflict"]}
          /\ UNCHANGED fileMade
      BY <1>7, <2>3 DEF C!Create, C!Taken, C!With
    <3> QED
      BY <1>5, <2>1, <2>2, <3>1 DEF C!Answers
  <2>4. CASE ~registered
    <3>1. C!Changed(c) /\ fileMade[c.n] = 0
      BY <1>3, <1>7, <2>1, <2>4 DEF C!Create, C!Taken
    <3> QED
      BY <1>3, <1>6, <2>1, <2>2, <3>1
  <2> QED
    BY <2>3, <2>4
<1>8. CASE C!Update(c)
  <2>1. calls' = (calls \ {c}) \cup {[c EXCEPT !.answer = "invalid"]}
        /\ UNCHANGED <<file, registered, fileMade>>
    BY <1>8 DEF C!Update, C!With, C!server
  <2> QED
    BY <1>3, <1>5, <2>1 DEF C!Answers
<1>9. CASE C!Look(c)
  <2>1. /\ c.op = "delete" /\ UNCHANGED <<file, registered, fileMade>>
        /\ file[c.id] # None => calls' = (calls \ {c}) \cup {[c EXCEPT !.answer = "found"]}
        /\ file[c.id] = None => calls' = (calls \ {c}) \cup {[c EXCEPT !.answer = "missing"]}
    BY <1>9 DEF C!Look, C!With, C!server
  <2> QED
    BY <1>3, <1>5, <2>1 DEF C!Answers
<1>10. CASE C!Deactivate(c)
  <2>1. /\ c.op = "delete" /\ c.answer = "found" /\ C!Changed(c)
        /\ file' = [file EXCEPT ![c.id] = None] /\ UNCHANGED registered
    BY <1>10 DEF C!Deactivate
  <2>2. fileMade[c.n] = 0 /\ c.id \in Guests
    BY <2>1, FileFacts DEF FileDone
  <2>3. /\ file' \in [Guests -> FileData] /\ file'[c.id] = None
        /\ \A g \in Guests : file[g] = None => file'[g] = None
    BY <1>3, <2>1, <2>2 DEF FileData
  <2> QED
    BY <1>3, <1>6, <2>1, <2>2, <2>3
<1> QED
  BY <1>7, <1>8, <1>9, <1>10 DEF C!Serve

(* A call ends on the page that is shown, or behind it.                    *)
LEMMA FileReleases ==
  ASSUME FileInv, NEW c \in calls, calls' = calls \ {c}, C!Release(c),
         UNCHANGED <<filePage, fileVisit, form, baseline, editing, fileReads, file, registered,
                     fileMade, confirmed, typed, fileLast>>,
         fileCurrent' \in {None} \cup [id : Guests, data : FileData],
         fileTold' = fileTold \/ (fileTold' = fileTold \cup {c.n} /\ c.answer = "ok")
  PROVE  FileInv'
<1>1. /\ saving' = (saving /\ (C!Here(c) => c.op = "delete"))
      /\ deleting' = (deleting /\ (C!Here(c) => c.op # "delete"))
      /\ asking' = (asking /\ (C!Here(c) => c.op # "delete"))
  BY DEF C!Release
<1>2. saving' \in BOOLEAN /\ deleting' \in BOOLEAN /\ asking' \in BOOLEAN
  BY <1>1
<1>3. fileTold' \subseteq C!Call
  BY FileFacts DEF FileTypes
<1>4. FileTypes'
  BY <1>2, <1>3, FileFacts DEF FileTypes
<1>5. FileFlow'
  <2>1. \A e : C!Here(e)' <=> C!Here(e)
    BY DEF C!Here
  <2>2. ASSUME NEW e \in calls, C!Here(e), C!Here(c), c.op = "delete" <=> e.op = "delete"
        PROVE  e = c
    BY <2>2, FileFacts DEF FileFlow, C!Here
  <2>3. saving' <=> \E e \in calls' : C!Here(e)' /\ e.op # "delete"
    <3>1. saving' <=> saving /\ (C!Here(c) => c.op = "delete")
      BY <1>1
    <3> QED
      BY <2>1, <2>2, <3>1, FileFacts DEF FileFlow
  <2>4. deleting' <=> \E e \in calls' : C!Here(e)' /\ e.op = "delete"
    <3>1. deleting' <=> deleting /\ (C!Here(c) => c.op # "delete")
      BY <1>1
    <3> QED
      BY <2>1, <2>2, <3>1, FileFacts DEF FileFlow
  <2>5. (editing' => filePage' # None) /\ (asking' => filePage' \in Guests)
        /\ (C!Dirty' => filePage' # None)
    <3>1. asking' => asking
      BY <1>1
    <3> QED
      BY <3>1, FileFacts DEF FileFlow, C!Dirty
  <2>6. /\ \A e \in calls' :
             e.n <= fileLast' /\ e.visit <= fileVisit' /\ (e.op = "create" <=> e.id = New)
        /\ \A e, f \in calls' : e.n = f.n => e = f
        /\ \A e, f \in calls' : e.visit = f.visit /\ (e.op = "delete" <=> f.op = "delete") => e = f
        /\ \A e \in calls' : C!Here(e)' => e.id = filePage'
    BY <2>1, FileFacts DEF FileFlow
  <2> QED
    BY <2>3, <2>4, <2>5, <2>6 DEF FileFlow
<1>6. FileDone'
  <2>1. \A e \in calls' : e.n # c.n
    BY FileFacts DEF FileFlow
  <2>2. c.n \in C!Call /\ c.n <= fileLast /\ (c.answer = "ok" => fileMade[c.n] = 1)
    BY FileFacts DEF FileFlow, FileDone
  <2>3. \A n \in C!Call : n > fileLast => n # c.n
    BY <2>2, FileFacts DEF C!Call
  <2> QED
    BY <2>1, <2>2, <2>3, FileFacts DEF FileDone, C!ToldIsDone
<1> QED
  BY <1>4, <1>5, <1>6 DEF FileInv

(* What Succeed does to the page: it goes to the list of guests, or stays. *)
LEMMA FileSucceeds ==
  ASSUME FileInv, NEW c \in calls, C!Succeed(c)
  PROVE  FileInv'
<1>1. /\ c.answer = "ok" /\ calls' = calls \ {c} /\ fileTold' = fileTold \cup {c.n}
      /\ UNCHANGED <<fileVisit, fileReads, file, registered, fileMade, typed, fileLast>>
      /\ fileCurrent' \in {fileCurrent, None}
      /\ \/ C!Mount(None) /\ (C!Leave \/ UNCHANGED confirmed)
         \/ C!Release(c) /\ UNCHANGED <<filePage, form, baseline, editing, confirmed>>
  BY DEF C!Succeed, C!Tell, C!server
<1>2. fileCurrent' \in {None} \cup [id : Guests, data : FileData]
  BY <1>1, FileFacts DEF FileTypes
<1>3. CASE C!Release(c) /\ UNCHANGED <<filePage, form, baseline, editing, confirmed>>
  BY <1>1, <1>2, <1>3, FileReleases
<1>4. CASE C!Mount(None) /\ (C!Leave \/ UNCHANGED confirmed)
  <2>1. filePage' = None /\ None \in C!Pages /\ confirmed' \in Nat
    BY <1>4, FileFacts DEF C!Mount, C!Pages, C!Leave, C!Discard, FileTypes
  <2>2. /\ form' \in FileData /\ baseline' \in FileData /\ ~C!Dirty'
        /\ editing' \in BOOLEAN /\ asking' \in BOOLEAN /\ saving' \in BOOLEAN
        /\ deleting' \in BOOLEAN /\ ~asking' /\ ~saving' /\ ~deleting'
        /\ (editing' => filePage' # None)
    BY <1>2, <1>4, <2>1, FileMounts
  <2>3. FileTypes'
    BY <1>1, <1>2, <2>1, <2>2, FileFacts DEF FileTypes
  <2>4. \A e : ~C!Here(e)'
    BY <2>1 DEF C!Here
  <2>5. FileFlow'
    BY <1>1, <2>2, <2>4, FileFacts DEF FileFlow
  <2>6. FileDone'
    <3>1. \A e \in calls' : e.n # c.n
      BY <1>1, FileFacts DEF FileFlow
    <3>2. c.n \in C!Call /\ c.n <= fileLast /\ fileMade[c.n] = 1
      BY <1>1, FileFacts DEF FileFlow, FileDone
    <3>3. \A n \in C!Call : n > fileLast => n # c.n
      BY <3>2, FileFacts DEF C!Call
    <3> QED
      BY <1>1, <3>1, <3>2, <3>3, FileFacts DEF FileDone, C!ToldIsDone
  <2> QED
    BY <2>3, <2>5, <2>6 DEF FileInv
<1> QED
  BY <1>1, <1>3, <1>4

(* So does a call that fails.                                              *)
LEMMA FileFails ==
  ASSUME FileInv, NEW c \in calls, C!Fail(c)
  PROVE  FileInv'
<1>1. /\ c.answer # "found"
      /\ UNCHANGED <<filePage, fileVisit, fileCurrent, form, baseline, editing, fileReads, file,
                     registered, fileMade, fileTold, confirmed, typed, fileLast>>
  BY DEF C!Fail, C!server
<1>2. c \in FileCalls /\ c.left \in {0, 1}
  BY FileFacts
<1>3. CASE c.answer \in C!Again /\ c.left > 0
  <2>1. PICK d : d = [c EXCEPT !.left = 0, !.answer = None]
    OBVIOUS
  <2>2. c.left = 1
    BY <1>2, <1>3
  <2>3. calls' = (calls \ {c}) \cup {d} /\ UNCHANGED <<saving, deleting, asking>>
    BY <1>3, <2>1, <2>2 DEF C!Fail
  <2>4. /\ d \in FileCalls /\ d.n = c.n /\ d.op = c.op /\ d.id = c.id /\ d.visit = c.visit
        /\ d.answer = None
    BY <1>2, <2>1 DEF FileCalls
  <2>5. d.answer # "ok" /\ d.answer # "found"
    BY <2>4, FileFacts DEF C!Answers
  <2>6. /\ registered' \in BOOLEAN /\ file' \in [Guests -> FileData]
        /\ fileMade' \in [C!Call -> Nat] /\ fileMade'[c.n] <= 1
    BY <1>1, FileFacts DEF FileTypes, FileDone, C!ToldIsDone
  <2>7. /\ d.op = "create" /\ fileMade'[d.n] > 0 => registered'
    BY <1>1, <2>4, FileFacts DEF FileDone
  <2>8. d.op = "delete" /\ fileMade'[d.n] > 0 => file'[d.id] = None
    BY <1>1, <2>4, FileFacts DEF FileDone
  <2> QED
    BY <1>1, <2>3, <2>4, <2>5, <2>6, <2>7, <2>8, FileRetains
<1>4. CASE ~(c.answer \in C!Again /\ c.left > 0)
  <2>1. calls' = calls \ {c} /\ C!Release(c)
    BY <1>4 DEF C!Fail
  <2>2. fileCurrent' \in {None} \cup [id : Guests, data : FileData]
    BY <1>1, FileFacts DEF FileTypes
  <2> QED
    BY <1>1, <2>1, <2>2, FileReleases
<1> QED
  BY <1>3, <1>4

(* Every step of the file keeps its invariant.                             *)
LEMMA FileStep == FileInv /\ [C!Next]_CVars => FileInv'
BY FileOpens, FileEdits, FileAnswers, FileOthers, FileAsks, FileServes, FileSucceeds, FileFails
DEF C!Next

(* What was typed goes only when the user agrees, types it back or saves   *)
(* it, or when its record is replaced.                                     *)
LEMMA FileDrafts == FileInv /\ [C!Next]_CVars => C!DraftsKept
<1> SUFFICES ASSUME FileInv, [C!Next]_CVars, C!Dirty, ~C!Dirty'
             PROVE  \/ confirmed' > confirmed \/ typed' > typed
                    \/ filePage = New /\ fileTold' # fileTold
                    \/ filePage \in Guests /\ (fileReads' # fileReads \/ fileCurrent' # fileCurrent)
  BY DEF C!DraftsKept
<1>0. confirmed \in Nat /\ typed \in Nat
  BY FileFacts DEF FileTypes
<1>1. ASSUME NEW p \in C!Pages, C!Open(p) PROVE confirmed' > confirmed
  BY <1>0, <1>1 DEF C!Open, C!Leave, C!Discard
<1>2. CASE C!Close
  BY <1>0, <1>2 DEF C!Close, C!Discard, C!Dirty
<1>3. ASSUME NEW d \in Drafts, C!Type(d) PROVE typed' > typed
  BY <1>0, <1>3 DEF C!Type
<1>4. ASSUME NEW r \in fileReads, C!Read(r) PROVE filePage \in Guests /\ fileReads' # fileReads
  BY <1>4 DEF C!Read, C!Dirty
<1>5. ASSUME NEW c \in calls, C!Succeed(c)
      PROVE  \/ confirmed' > confirmed
             \/ filePage = New /\ fileTold' # fileTold
             \/ filePage \in Guests /\ fileCurrent' # fileCurrent
  <2> DEFINE drops == c.op = "delete" /\ fileCurrent # None /\ fileCurrent.id = c.id
             clean == (drops /\ filePage \in Guests) \/ (c.op = "create" /\ C!Here(c))
  <2>1. /\ fileTold' = fileTold \cup {c.n} /\ fileCurrent' = IF drops THEN None ELSE fileCurrent
        /\ \/ (IF clean THEN UNCHANGED confirmed ELSE C!Leave)
           \/ UNCHANGED <<form, baseline>>
    BY <1>5 DEF C!Succeed, C!Tell
  <2>2. ~UNCHANGED <<form, baseline>>
    BY DEF C!Dirty
  <2>3. CASE drops /\ filePage \in Guests
    BY <2>1, <2>3
  <2>4. CASE c.op = "create" /\ C!Here(c)
    <3>1. c.id = New /\ c.id = filePage /\ c.n \notin fileTold
      BY <2>4, FileFacts DEF FileFlow, FileDone
    <3> QED
      BY <2>1, <3>1
  <2>5. CASE ~clean
    BY <1>0, <2>1, <2>2, <2>5 DEF C!Leave, C!Discard
  <2> QED
    BY <2>3, <2>4, <2>5
<1>6. CASE ~ \/ \E p \in C!Pages : C!Open(p)
             \/ C!Close \/ \E d \in Drafts : C!Type(d)
             \/ \E r \in fileReads : C!Read(r)
             \/ \E c \in calls : C!Succeed(c)
  <2>1. UNCHANGED <<form, baseline>>
    BY <1>6 DEF C!Next, C!Edit, C!Ask, C!Save, C!Delete, C!Request, C!ServeRead, C!ReadFails,
       C!Serve, C!Fail, C!OthersChange, C!ReadPage, C!ShowHistory, C!HistoryFails, C!Turn,
       C!Book, C!Move, C!tab, CVars
  <2> QED
    BY <2>1 DEF C!Dirty
<1> QED
  BY <1>1, <1>2, <1>3, <1>4, <1>5, <1>6

-----------------------------------------------------------------------------
(* The composition.                                                        *)

DesksInv ==
  /\ part = "payment" => PayInv
  /\ part = "file" => FileInv
  /\ part = "tabs" => FrontInv
  /\ part = "stays" => StayInv
  /\ part = "rooms" => RoomInv
  /\ part = "settings" => SettingsInv
  /\ part = "team" => TeamInv
  /\ part = "requests" => RequestInv

(* Every part begins well.                                                 *)
LEMMA DesksInit == Init => DesksInv
BY PayInit, FileInit, FrontInit, StayInit, RoomInit, SettingsInit, TeamInit, RequestInit
DEF Init, DesksInv

(* A behaviour stays with the component it began with.                     *)
LEMMA DesksApart ==
  [Next]_all =>
    /\ part' = part
    /\ part = "payment" => [P!Next]_PVars
    /\ part = "file" => [C!Next]_CVars
    /\ part = "tabs" => [F!Next]_FVars
    /\ part = "stays" => [S!Next]_SVars
    /\ part = "rooms" => [R!Next]_RVars
    /\ part = "settings" => [H!Next]_HVars
    /\ part = "team" => [T!Next]_TVars
    /\ part = "requests" => [Q!Next]_QVars
BY DEF Next, all, POnly, PEOnly, COnly, CEOnly, CHOnly, FOnly, MOnly, SOnly, SEOnly, ROnly, HOnly,
   HEOnly, HXOnly, TOnly, TEOnly, QOnly

(* Every step keeps the invariant of its part.                             *)
LEMMA DesksStep == DesksInv /\ [Next]_all => DesksInv'
BY DesksApart, PayStep, FileStep, FrontStep, StayStep, RoomStep, SettingsStep, TeamStep, RequestStep
DEF DesksInv

(* The invariants imply what the parts promise.                            *)
LEMMA DesksHold == DesksInv => ToldIsDone /\ ActsAsShown
<1>1. PayInv => P!TypeOK /\ P!ToldIsDone /\ P!NeverAhead /\ P!ActsAsShown
  BY DEF PayInv, PayTypes, PaySeen, PayDone
<1> QED
  BY <1>1, FileHolds, FrontHolds, StayHolds, RoomHolds, SettingsHolds, TeamHolds, RequestHolds
  DEF DesksInv, ToldIsDone, ActsAsShown

(* A success is told only for what this click changed, once: on every      *)
(* page, for every number of clicks, repeats, lost answers and other       *)
(* people.                                                                 *)
THEOREM Told == Spec => []ToldIsDone
<1>1. DesksInv => ToldIsDone
  BY DesksHold
<1> QED
  BY DesksInit, DesksStep, <1>1, PTL DEF Spec

(* What is changed is what was on the screen, by the user on the screen:   *)
(* for every number of tabs, sessions and users.                           *)
THEOREM Acts == Spec => []ActsAsShown
<1>1. DesksInv => ActsAsShown
  BY DesksHold
<1> QED
  BY DesksInit, DesksStep, <1>1, PTL DEF Spec

(* No step loses what was typed without the user's agreement, and none     *)
(* brings older settings back.                                             *)
THEOREM Typed == Spec => DraftsKept
<1>1. DesksInv /\ [Next]_all =>
        [/\ part = "file" => C!DraftsKept
         /\ part = "rooms" => R!DraftsKept
         /\ part = "settings" => H!DraftsKept /\ H!NeverBack]_all
  BY DesksApart, FileDrafts, RoomDrafts, SettingsDrafts DEF DesksInv
<1> QED
  BY DesksInit, DesksStep, <1>1, PTL DEF Spec, DraftsKept
=============================================================================
