---------------------------- MODULE OfficeProofs ----------------------------
(* Proofs about Settings, GuestRequests, Migrations, Configuration,        *)
(* Outbox, Backups and Catalogue, as MCOffice composes them, for any       *)
(* values of its constants.                                                *)
EXTENDS MCOffice, Sequences, WellFoundedInduction, TLAPS

-----------------------------------------------------------------------------
(* Settings.                                                               *)

SLocked(w, ops) == S!Holds(tx[w], ops)
Locking == {"save", "present", "portal", "checkout"}

(* Whoever writes the row is alone with it.                                *)
WriterAlone == \A w, x \in Workers :
  w # x /\ SLocked(w, S!Writers) => ~SLocked(x, Locking)

(* A version belongs to one content of the row.                            *)
PageKnown == \A w \in Workers :
  /\ page[w].version <= settings.version
  /\ page[w].version = settings.version => page[w] = settings

(* A request is for a row of its kind; a checkout, for a reservation.      *)
SettingsRequests == \A w \in Workers :
  /\ tx[w].op \in {"portal", "staff", "checkout"} => tx[w].id \in Reservations
  /\ tx[w].op = "shift" => tx[w].id \in Employees
  /\ tx[w].op = "checkout" => booking[tx[w].id] # None
CheckoutBooked == \A v \in Reservations : checkout[v] # None => booking[v] # None

(* What a transaction read under its lock is still so.                     *)
SaveConclusive == \A w \in Workers : SLocked(w, {"save"}) =>
  /\ page[w] = settings
  /\ tx[w].currency # settings.currency => \A v \in Reservations :
       checkout[v] = None /\ (booking[v] # None => booking[v].by = "staff")
PricesConclusive == \A w \in Workers :
  SLocked(w, {"portal", "checkout"}) => tx[w].currency = settings.currency

SInv ==
  /\ S!TypeOK
  /\ WriterAlone
  /\ PageKnown
  /\ SettingsRequests
  /\ CheckoutBooked
  /\ SaveConclusive
  /\ PricesConclusive
  /\ S!PortalCurrencyKept
  /\ S!CheckoutInHotelCurrency

LEMMA SettingsInit == S!Init => SInv
<1> SUFFICES ASSUME S!Init PROVE SInv
  OBVIOUS
<1> USE SettingsAssumption DEF S!FirstAssumption, S!VersionAssumption, S!NoneAssumption
<1>1. settings \in S!SettingsRow
  BY DEF S!Init, S!SettingsRow
<1>2. S!TypeOK
  BY <1>1 DEF S!Init, S!TypeOK, S!Idle, S!Ops
<1>3. \A w \in Workers : ~SLocked(w, Locking) /\ tx[w].op = "idle"
  BY DEF S!Init, S!Idle, SLocked, S!Holds
<1>4. WriterAlone /\ SaveConclusive /\ PricesConclusive /\ SettingsRequests
  BY <1>3 DEF WriterAlone, SaveConclusive, PricesConclusive, SettingsRequests, SLocked, S!Holds,
              S!Writers, Locking
<1>5. PageKnown
  BY <1>1 DEF S!Init, PageKnown, S!SettingsRow
<1>6. CheckoutBooked /\ S!PortalCurrencyKept /\ S!CheckoutInHotelCurrency
  BY DEF S!Init, CheckoutBooked, S!PortalCurrencyKept, S!CheckoutInHotelCurrency
<1> QED
  BY <1>2, <1>4, <1>5, <1>6 DEF SInv

LEMMA SettingsIdle == S!Idle \in [op : {"idle"}, step : {"none"}, id : {None},
                                 currency : Currencies, text : Texts]
  BY SettingsAssumption DEF S!Idle, S!FirstAssumption

(* A step that only changes what one browser asks for, and takes no lock.  *)
LEMMA SettingsAsked ==
  ASSUME SInv, NEW w \in Workers, NEW r,
         r \in [op : S!Ops \union {"idle"}, step : {"none", "begun"},
                id : Reservations \union Employees \union {None},
                currency : Currencies, text : Texts],
         r.op = "idle" <=> r.step = "none",
         r.op \in {"portal", "staff", "checkout"} => r.id \in Reservations,
         r.op = "shift" => r.id \in Employees,
         r.op = "checkout" => booking[r.id] # None,
         tx' = [tx EXCEPT ![w] = r],
         UNCHANGED <<settings, booking, shift, checkout>>,
         page' \in [Workers -> S!SettingsRow],
         \A x \in Workers : page'[x] = page[x] \/ page'[x] = settings
  PROVE  SInv'
<1> USE DEF SInv
<1>1. \A x \in Workers : tx'[x] = IF x = w THEN r ELSE tx[x]
  BY DEF S!TypeOK
<1>2. S!TypeOK'
  BY <1>1 DEF S!TypeOK
<1>3. \A ops : \A x \in Workers : SLocked(x, ops)' => x # w /\ SLocked(x, ops)
  BY <1>1 DEF SLocked, S!Holds
<1>4. WriterAlone'
  BY <1>3 DEF WriterAlone
<1>5. PageKnown'
  BY DEF PageKnown, S!TypeOK, S!SettingsRow
<1>6. SettingsRequests' /\ CheckoutBooked'
  BY <1>1 DEF SettingsRequests, CheckoutBooked
<1>7. SaveConclusive' /\ PricesConclusive'
  BY <1>1, <1>3 DEF SaveConclusive, PricesConclusive
<1>8. S!PortalCurrencyKept' /\ S!CheckoutInHotelCurrency'
  BY DEF S!PortalCurrencyKept, S!CheckoutInHotelCurrency
<1> QED
  BY <1>2, <1>4, <1>5, <1>6, <1>7, <1>8

LEMMA SettingsBegin ==
  ASSUME SInv, NEW w \in Workers, S!Load(w) \/ S!Begin(w) \/ S!Rollback(w)
  PROVE  SInv'
<1> USE DEF SInv
<1>1. CASE S!Load(w)
  <2>1. \A x \in Workers : page'[x] = page[x] \/ page'[x] = settings
    BY <1>1 DEF S!Load, S!TypeOK
  <2>2. page' \in [Workers -> S!SettingsRow] /\ tx' = [tx EXCEPT ![w] = S!Idle]
    BY <1>1 DEF S!Load, S!TypeOK
  <2> QED
    BY <1>1, <2>1, <2>2, SettingsIdle, SettingsAsked DEF S!Load
<1>2. CASE S!Rollback(w)
  BY <1>2, SettingsIdle, SettingsAsked DEF S!Rollback, S!Finish, S!TypeOK
<1>3. CASE S!Begin(w)
  <2> DEFINE Asked(r) ==
        /\ r \in [op : S!Ops, step : {"begun"}, id : Reservations \union Employees \union {None},
                 currency : Currencies, text : Texts]
        /\ r.op \in {"portal", "staff", "checkout"} => r.id \in Reservations
        /\ r.op = "shift" => r.id \in Employees
        /\ r.op = "checkout" => booking[r.id] # None
  <2>1. settings.currency \in Currencies /\ page[w].currency \in Currencies /\ FirstText \in Texts
    BY SettingsAssumption DEF S!TypeOK, S!SettingsRow, S!FirstAssumption
  <2>2. PICK r : Asked(r) /\ S!Start(w, r)
    <3>1. \A c \in Currencies, t \in Texts : Asked(S!Request("save", None, c, t))
      BY DEF S!Request, S!Ops
    <3>2. \A t \in Texts : Asked(S!Request("present", None, settings.currency, t))
      BY <2>1 DEF S!Request, S!Ops
    <3>3. \A v \in Reservations :
            /\ Asked(S!Request("portal", v, page[w].currency, FirstText))
            /\ Asked(S!Request("staff", v, settings.currency, FirstText))
      BY <2>1 DEF S!Request, S!Ops
    <3>4. \A v \in Reservations : booking[v] # None =>
            Asked(S!Request("checkout", v, settings.currency, FirstText))
      BY <2>1 DEF S!Request, S!Ops
    <3>5. \A e \in Employees : Asked(S!Request("shift", e, settings.currency, FirstText))
      BY <2>1 DEF S!Request, S!Ops
    <3> HIDE DEF Asked
    <3> QED
      BY <1>3, <3>1, <3>2, <3>3, <3>4, <3>5 DEF S!Begin
  <2>3. r.op # "idle" /\ r.step # "none"
    BY <2>2 DEF S!Ops
  <2> QED
    BY <2>2, <2>3, SettingsAsked DEF S!Start, S!TypeOK
<1> QED
  BY <1>1, <1>2, <1>3

(* A lock of the row is taken.                                             *)
LEMMA SettingsLock ==
  ASSUME SInv, NEW w \in Workers,
         S!LockSave(w) \/ S!LockPresent(w) \/ S!LockPortal(w) \/ S!LockCheckout(w)
  PROVE  SInv'
<1> USE DEF SInv
<1>1. UNCHANGED <<settings, page, booking, shift, checkout>>
  BY DEF S!LockSave, S!LockPresent, S!LockPortal, S!LockCheckout
<1>2. tx[w].op \in Locking /\ tx[w].step = "begun"
  BY DEF S!LockSave, S!LockPresent, S!LockPortal, S!LockCheckout, Locking
<1>3. \E c \in Currencies : tx' = [tx EXCEPT ![w].step = "locked", ![w].currency = c]
  <2>1. \A f : f \in [Workers -> [op : S!Ops \union {"idle"}, step : {"none", "begun", "locked"},
                         id : Reservations \union Employees \union {None},
                         currency : Currencies, text : Texts]] =>
          [f EXCEPT ![w].step = "locked"] = [f EXCEPT ![w].step = "locked",
                  ![w].currency = f[w].currency]
    OBVIOUS
  <2> QED
    BY <2>1 DEF S!LockSave, S!LockPresent, S!LockPortal, S!LockCheckout, S!Step, S!TypeOK,
            S!SettingsRow
<1>4. /\ tx'[w].op = tx[w].op /\ tx'[w].id = tx[w].id /\ tx'[w].step = "locked"
      /\ \A x \in Workers \ {w} : tx'[x] = tx[x]
      /\ S!LockSave(w) \/ S!LockPortal(w) => tx'[w].currency = tx[w].currency
  BY <1>3 DEF S!TypeOK, S!LockSave, S!LockPortal, S!Step
<1>5. S!TypeOK'
  <2>1. tx' \in [Workers -> [op : S!Ops \union {"idle"}, step : {"none", "begun", "locked"},
                            id : Reservations \union Employees \union {None},
                            currency : Currencies, text : Texts]]
    <3>1. PICK c \in Currencies : tx' = [tx EXCEPT ![w].step = "locked", ![w].currency = c]
      BY <1>3
    <3>2. [tx[w] EXCEPT !.step = "locked", !.currency = c] \in
            [op : S!Ops \union {"idle"}, step : {"none", "begun", "locked"},
             id : Reservations \union Employees \union {None},
             currency : Currencies, text : Texts]
      BY DEF S!TypeOK
    <3>3. tx' = [tx EXCEPT ![w] = [tx[w] EXCEPT !.step = "locked", !.currency = c]]
      BY <3>1 DEF S!TypeOK
    <3> QED
      BY <3>2, <3>3 DEF S!TypeOK
  <2>2. \A x \in Workers : tx'[x].op = "idle" <=> tx'[x].step = "none"
    BY <1>2, <1>4 DEF S!TypeOK, Locking
  <2> QED
    BY <1>1, <2>1, <2>2 DEF S!TypeOK
<1>6. \A ops : \A x \in Workers \ {w} : SLocked(x, ops)' <=> SLocked(x, ops)
  BY <1>4 DEF SLocked, S!Holds
<1>7. WriterAlone'
  <2>1. CASE S!LockSave(w) \/ S!LockPresent(w)
    <3>1. \A x \in Workers \ {w} : ~SLocked(x, Locking)
      BY <2>1 DEF S!LockSave, S!LockPresent, S!RowFree, SLocked, S!Holds, S!Writers, Locking
    <3>2. \A x \in Workers \ {w} : ~SLocked(x, Locking) /\ ~SLocked(x, S!Writers)
      BY <3>1 DEF SLocked, S!Holds, S!Writers, Locking
    <3> QED
      BY <1>6, <3>2 DEF WriterAlone
  <2>2. CASE S!LockPortal(w) \/ S!LockCheckout(w)
    <3>1. \A x \in Workers \ {w} : ~SLocked(x, S!Writers)
      BY <2>2 DEF S!LockPortal, S!LockCheckout, S!NoWriter, SLocked
    <3>2. tx'[w].op \notin S!Writers
      BY <1>4, <2>2 DEF S!LockPortal, S!LockCheckout, S!Writers
    <3> QED
      BY <1>6, <3>1, <3>2 DEF WriterAlone, SLocked, S!Holds
  <2> QED
    BY <2>1, <2>2
<1>8. PageKnown' /\ CheckoutBooked' /\ S!PortalCurrencyKept' /\ S!CheckoutInHotelCurrency'
  BY <1>1 DEF PageKnown, CheckoutBooked, S!PortalCurrencyKept, S!CheckoutInHotelCurrency
<1>9. SettingsRequests'
  BY <1>1, <1>4 DEF SettingsRequests
<1>10. SaveConclusive'
  <2>1. S!LockSave(w) => page[w] = settings
    BY DEF S!LockSave, S!SameVersion, PageKnown
  <2>2. S!LockSave(w) /\ tx[w].currency # settings.currency =>
          \A v \in Reservations : checkout[v] = None /\ booking[v] = None
    BY DEF S!LockSave, S!Priced, CheckoutBooked
  <2>3. tx[w].op = "save" => S!LockSave(w)
    BY DEF S!LockPresent, S!LockPortal, S!LockCheckout
  <2> QED
    BY <1>1, <1>4, <1>6, <2>1, <2>2, <2>3 DEF SaveConclusive, SLocked, S!Holds
<1>11. PricesConclusive'
  <2>1. tx[w].op = "portal" => S!LockPortal(w) /\ tx[w].currency = settings.currency
    BY DEF S!LockSave, S!LockPresent, S!LockPortal, S!LockCheckout
  <2>2. tx[w].op = "checkout" => tx'[w].currency = settings.currency
    BY DEF S!LockSave, S!LockPresent, S!LockPortal, S!LockCheckout, S!TypeOK
  <2> QED
    BY <1>1, <1>4, <1>6, <2>1, <2>2 DEF PricesConclusive, SLocked, S!Holds
<1> QED
  BY <1>5, <1>7, <1>8, <1>9, <1>10, <1>11

(* A transaction commits.                                                  *)
LEMMA SettingsDone ==
  ASSUME SInv, NEW w \in Workers, tx' = [tx EXCEPT ![w] = S!Idle]
  PROVE  /\ \A x \in Workers : tx'[x] = IF x = w THEN S!Idle ELSE tx[x]
         /\ tx' \in [Workers -> [op : S!Ops \union {"idle"}, step : {"none", "begun", "locked"},
                                id : Reservations \union Employees \union {None},
                                currency : Currencies, text : Texts]]
         /\ \A x \in Workers : tx'[x].op = "idle" <=> tx'[x].step = "none"
         /\ \A ops : \A x \in Workers :
              SLocked(x, ops)' => x # w /\ SLocked(x, ops) /\ tx'[x] = tx[x]
         /\ WriterAlone'
<1> USE DEF SInv
<1>1. \A x \in Workers : tx'[x] = IF x = w THEN S!Idle ELSE tx[x]
  BY DEF S!TypeOK
<1>2. /\ tx' \in [Workers -> [op : S!Ops \union {"idle"}, step : {"none", "begun", "locked"},
                              id : Reservations \union Employees \union {None},
                              currency : Currencies, text : Texts]]
      /\ \A x \in Workers : tx'[x].op = "idle" <=> tx'[x].step = "none"
  BY <1>1, SettingsIdle DEF S!TypeOK
<1>3. \A ops : \A x \in Workers :
        SLocked(x, ops)' => x # w /\ SLocked(x, ops) /\ tx'[x] = tx[x]
  BY <1>1 DEF SLocked, S!Holds, S!Idle
<1>4. WriterAlone'
  BY <1>3 DEF WriterAlone
<1> QED
  BY <1>1, <1>2, <1>3, <1>4

LEMMA SettingsWritten ==
  ASSUME SInv, NEW w \in Workers, S!CommitSave(w) \/ S!CommitPresent(w)
  PROVE  SInv'
<1> USE DEF SInv
<1>1. tx' = [tx EXCEPT ![w] = S!Idle] /\ UNCHANGED <<booking, shift, checkout>>
  BY DEF S!CommitSave, S!CommitPresent, S!Finish
<1>2. SLocked(w, S!Writers) /\ tx[w] \in [op : S!Ops \union {"idle"}, step : {"none", "begun",
        "locked"},
                                id : Reservations \union Employees \union {None},
                                currency : Currencies, text : Texts]
  BY DEF S!CommitSave, S!CommitPresent, SLocked, S!Holds, S!Writers, S!TypeOK
<1>3. \A x \in Workers : ~SLocked(x, Locking)'
  BY <1>1, <1>2, SettingsDone DEF WriterAlone
<1>4. settings \in S!SettingsRow /\ settings.version < MaxVersion
  BY DEF S!TypeOK, S!CommitSave, S!CommitPresent
<1>5. /\ settings' \in S!SettingsRow
      /\ settings'.version = settings.version + 1
  <2>1. CASE S!CommitSave(w)
    <3>1. settings' = [currency |-> tx[w].currency, text |-> tx[w].text,
                       look |-> settings.look, version |-> settings.version + 1]
      BY <1>4, <2>1 DEF S!CommitSave, S!SettingsRow
    <3> QED
      BY <1>2, <1>4, <3>1, SettingsAssumption DEF S!SettingsRow, S!VersionAssumption
  <2>2. CASE S!CommitPresent(w)
    <3>1. settings' = [currency |-> settings.currency, text |-> settings.text,
                       look |-> tx[w].text, version |-> settings.version + 1]
      BY <1>4, <2>2 DEF S!CommitPresent, S!SettingsRow
    <3> QED
      BY <1>2, <1>4, <3>1, SettingsAssumption DEF S!SettingsRow, S!VersionAssumption
  <2> QED
    BY <2>1, <2>2
<1>6. S!CommitPresent(w) => settings'.currency = settings.currency
  BY <1>4 DEF S!CommitPresent, S!SettingsRow
<1>7. S!CommitSave(w) => settings'.currency = tx[w].currency
  BY <1>4 DEF S!CommitSave, S!SettingsRow
<1>8. /\ page' \in [Workers -> S!SettingsRow]
      /\ \A x \in Workers : page'[x] = page[x] \/ page'[x] = settings'
  BY <1>5 DEF S!CommitSave, S!CommitPresent, S!TypeOK
<1>9. S!TypeOK'
  BY <1>1, <1>5, <1>8, SettingsDone DEF S!TypeOK
<1>10. WriterAlone'
  BY <1>1, SettingsDone
<1>11. PageKnown'
  BY <1>4, <1>5, <1>8 DEF PageKnown, S!TypeOK, S!SettingsRow
<1>12. SettingsRequests' /\ CheckoutBooked'
  BY <1>1, SettingsDone DEF SettingsRequests, CheckoutBooked, S!Idle
<1>13. SaveConclusive' /\ PricesConclusive'
  BY <1>3 DEF SaveConclusive, PricesConclusive, SLocked, S!Holds, Locking
<1>14. settings'.currency # settings.currency =>
         \A v \in Reservations : checkout[v] = None
                 /\ (booking[v] # None => booking[v].by = "staff")
  BY <1>6, <1>7 DEF S!CommitSave, S!CommitPresent, SaveConclusive, SLocked
<1>15. S!PortalCurrencyKept' /\ S!CheckoutInHotelCurrency'
  BY <1>1, <1>14 DEF S!PortalCurrencyKept, S!CheckoutInHotelCurrency
<1> QED
  BY <1>9, <1>10, <1>11, <1>12, <1>13, <1>15

LEMMA SettingsPriced ==
  ASSUME SInv, NEW w \in Workers,
         S!CommitBooking(w) \/ S!CommitShift(w) \/ S!CommitCheckout(w)
  PROVE  SInv'
<1> USE DEF SInv
<1>1. tx' = [tx EXCEPT ![w] = S!Idle] /\ UNCHANGED <<settings, page>>
  BY DEF S!CommitBooking, S!CommitShift, S!CommitCheckout, S!Finish
<1>2. tx[w] \in [op : S!Ops \union {"idle"}, step : {"none", "begun", "locked"},
                id : Reservations \union Employees \union {None},
                currency : Currencies, text : Texts]
  BY DEF S!TypeOK
<1>3. /\ booking' \in [Reservations -> S!BookingRows \union {None}]
      /\ \A v \in Reservations : booking[v] # None => booking'[v] = booking[v]
      /\ \A v \in Reservations : booking'[v] # booking[v] =>
           booking'[v] = [by |-> tx[w].op, currency |-> tx[w].currency]
      /\ booking' # booking => tx[w].op = "staff" \/ SLocked(w, {"portal"})
  <2>1. CASE S!CommitBooking(w)
    <3>1. tx[w].op \in {"staff", "portal"} /\ tx[w].id \in Reservations
      BY <2>1 DEF S!CommitBooking, S!Holds, SettingsRequests
    <3> QED
      BY <1>2, <2>1, <3>1 DEF S!CommitBooking, S!TypeOK, S!BookingRows, SLocked
  <2>2. CASE UNCHANGED booking
    BY <2>2 DEF S!TypeOK
  <2> QED
    BY <2>1, <2>2 DEF S!CommitShift, S!CommitCheckout
<1>4. shift' \in [Employees -> Currencies \union {None}]
  BY <1>2 DEF S!CommitBooking, S!CommitShift, S!CommitCheckout, S!TypeOK
<1>5. /\ checkout' \in [Reservations -> Currencies \union {None}]
      /\ \A v \in Reservations : checkout'[v] # checkout[v] =>
           checkout'[v] = tx[w].currency /\ booking'[v] # None
      /\ checkout' # checkout => SLocked(w, {"checkout"})
  <2>1. CASE S!CommitCheckout(w)
    <3>1. tx[w].op = "checkout" /\ tx[w].id \in Reservations
      BY <2>1 DEF S!CommitCheckout, S!Holds, SettingsRequests
    <3> QED
      BY <1>2, <2>1, <3>1 DEF S!CommitCheckout, S!TypeOK, SLocked, SettingsRequests
  <2>2. CASE UNCHANGED checkout
    BY <2>2 DEF S!TypeOK
  <2> QED
    BY <2>1, <2>2 DEF S!CommitShift, S!CommitBooking
<1>6. S!TypeOK' /\ WriterAlone'
  BY <1>1, <1>3, <1>4, <1>5, SettingsDone DEF S!TypeOK
<1>7. PageKnown'
  BY <1>1 DEF PageKnown
<1>8. SettingsRequests'
  BY <1>1, <1>3, SettingsDone, SettingsAssumption
  DEF SettingsRequests, S!Idle, S!TypeOK, S!BookingRows
<1>9. CheckoutBooked'
  BY <1>3, <1>5 DEF CheckoutBooked
<1>10. \A x \in Workers \ {w} : SLocked(x, {"save"}) => ~SLocked(w, Locking)
  BY DEF WriterAlone, SLocked, S!Holds, S!Writers
<1>11. SaveConclusive'
  <2> SUFFICES ASSUME NEW x \in Workers, SLocked(x, {"save"})'
               PROVE  /\ page[x] = settings
                      /\ tx[x].currency # settings.currency => \A v \in Reservations :
                           checkout'[v] = None /\ (booking'[v] # None => booking'[v].by = "staff")
    BY <1>1, SettingsDone DEF SaveConclusive
  <2>1. x # w /\ SLocked(x, {"save"})
    BY <1>1, SettingsDone
  <2>2. UNCHANGED checkout /\ (booking' # booking => tx[w].op = "staff")
    BY <1>3, <1>5, <1>10, <2>1 DEF SLocked, S!Holds, Locking
  <2> QED
    BY <1>3, <2>1, <2>2 DEF SaveConclusive
<1>12. PricesConclusive'
  BY <1>1, SettingsDone DEF PricesConclusive
<1>13. S!PortalCurrencyKept'
  BY <1>1, <1>3 DEF S!PortalCurrencyKept, PricesConclusive, SLocked, S!Holds
<1>14. S!CheckoutInHotelCurrency'
  BY <1>1, <1>5 DEF S!CheckoutInHotelCurrency, PricesConclusive, SLocked, S!Holds
<1> QED
  BY <1>6, <1>7, <1>8, <1>9, <1>11, <1>12, <1>13, <1>14

LEMMA SettingsStep == SInv /\ S!Next => SInv'
<1> SUFFICES ASSUME SInv, NEW w \in Workers,
                    \/ S!Load(w) \/ S!Begin(w) \/ S!Rollback(w)
                    \/ S!LockSave(w) \/ S!CommitSave(w) \/ S!LockPresent(w) \/ S!CommitPresent(w)
                    \/ S!LockPortal(w) \/ S!LockCheckout(w)
                    \/ S!CommitBooking(w) \/ S!CommitShift(w) \/ S!CommitCheckout(w)
             PROVE  SInv'
  BY DEF S!Next
<1> QED
  BY SettingsBegin, SettingsLock, SettingsWritten, SettingsPriced

LEMMA SettingsStutter == SInv /\ UNCHANGED SVars => SInv'
  BY DEF SVars, SInv, S!TypeOK, WriterAlone, PageKnown, SettingsRequests, CheckoutBooked,
         SaveConclusive, PricesConclusive, SLocked, S!Holds, S!PortalCurrencyKept,
         S!CheckoutInHotelCurrency

(* A save changes the form or the currency only over the row that its page *)
(* shows.                                                                  *)
LEMMA SettingsSaved == SInv /\ S!Next => S!NoLostUpdate
<1> SUFFICES ASSUME SInv, S!Next,
                    settings'.text # settings.text \/ settings'.currency # settings.currency
             PROVE  \E w \in Workers : page[w] = settings /\ tx[w].op = "save" /\ tx'[w] = S!Idle
  BY DEF S!NoLostUpdate
<1> USE DEF SInv
<1>1. settings \in S!SettingsRow
  BY DEF S!TypeOK
<1>2. PICK w \in Workers : S!CommitSave(w)
  BY <1>1 DEF S!Next, S!Load, S!Begin, S!Start, S!Rollback, S!LockSave, S!LockPresent,
              S!CommitPresent, S!LockPortal, S!LockCheckout, S!CommitBooking, S!CommitShift,
              S!CommitCheckout, S!SettingsRow
<1>3. SLocked(w, {"save"}) /\ tx' = [tx EXCEPT ![w] = S!Idle]
  BY <1>2 DEF S!CommitSave, S!Finish, SLocked
<1> QED
  BY <1>3, SettingsDone DEF SaveConclusive, SLocked, S!Holds

(* For any browsers, currencies, reservations and employees: what a guest  *)
(* agreed to pay in the portal and what an online payment asks for is in   *)
(* the hotel's currency, while others change the settings.                 *)
THEOREM SettingsCurrency ==
  S!Spec => [](S!TypeOK /\ S!PortalCurrencyKept /\ S!CheckoutInHotelCurrency)
<1>1. SInv /\ [S!Next]_S!vars => SInv'
  BY SettingsStep, SettingsStutter DEF S!vars, SVars
<1>2. SInv => S!TypeOK /\ S!PortalCurrencyKept /\ S!CheckoutInHotelCurrency
  BY DEF SInv
<1> QED
  BY SettingsInit, <1>1, <1>2, PTL DEF S!Spec

(* Nobody overwrites settings they have not seen.                          *)
THEOREM SettingsSeen == S!Spec => [][S!NoLostUpdate]_S!vars
<1>1. SInv /\ [S!Next]_S!vars => SInv'
  BY SettingsStep, SettingsStutter DEF S!vars, SVars
<1>2. SInv /\ [S!Next]_S!vars => [S!NoLostUpdate]_S!vars
  BY SettingsSaved
<1> QED
  BY SettingsInit, <1>1, <1>2, PTL DEF S!Spec

(* The same in the composition.                                            *)
THEOREM Currency == Spec => []CurrencyKept
<1> DEFINE Inv == part = "settings" => SInv
<1>1. Init => Inv
  BY SettingsInit DEF Init, Requests
<1>2. Inv /\ [Next]_all => Inv'
  <2> SUFFICES ASSUME Inv, [Next]_all, part' = "settings" PROVE SInv'
    OBVIOUS
  <2>1. part = "settings" /\ (S!Next \/ UNCHANGED SVars)
    BY DEF Next, all, SOnly, ROnly, OOnly, MOnly, BOnly, COnly, GOnly, Requests
  <2> QED
    BY <2>1, SettingsStep, SettingsStutter
<1>3. Inv => CurrencyKept
  BY DEF CurrencyKept, SInv
<1> QED
  BY <1>1, <1>2, <1>3, PTL DEF Spec

-----------------------------------------------------------------------------
(* Requests of guests.                                                     *)

Locked == {"room", "stay", "checked"}
RequestOf(w) == ask[review[w].id]

(* One review at a time is past the lock of the room.                      *)
ReviewAlone == \A w, x \in Reviewers :
  w # x /\ review[w].step \in Locked => review[x].step \notin Locked

ReviewKnown == \A w \in Reviewers :
  review[w].step # "idle" => review[w].id \in Asks /\ RequestOf(w) # None

Live(v) == stay[v].status \in {"confirmed", "checked_in"}
Meet(i, o, v) == stay[v].in < o /\ stay[v].out > i
Disjoint == \A u, v \in Stays :
  u # v /\ Live(u) /\ Live(v) => ~Meet(stay[u].in, stay[u].out, v)

ReviewRows == [step : {"idle", "begun", "room", "stay", "checked"},
               id : Asks \union {None}, decision : {"approved", "rejected"},
               price : 0 .. MaxPrice]

(* What a review has examined stays so until it commits.                   *)
Examined(w) ==
  LET q == RequestOf(w)  v == q.stay IN
  /\ q.status = "pending"
  /\ review[w].decision = "approved" =>
       /\ stay[v].status = "confirmed"
       /\ q.kind = "dates" =>
            /\ \A u \in Stays : u # v /\ Live(u) => ~Meet(q.in, q.out, u)
            /\ stay[v].paid <= review[w].price
ReviewConclusive == \A w \in Reviewers : review[w].step = "checked" => Examined(w)

(* A payment that is booked is part of what was paid, and only stays have  *)
(* online payments.                                                        *)
BookedPaid == \A v \in Stays :
  /\ online[v].booked => stay[v].paid >= 1
  /\ stay[v].status = "free" => online[v] = [status |-> "none", booked |-> FALSE]

RInv ==
  /\ R!TypeOK
  /\ ReviewAlone
  /\ ReviewKnown
  /\ Disjoint
  /\ ReviewConclusive
  /\ BookedPaid
  /\ R!PriceCoversPayments

LEMMA RequestsInit == R!Init => RInv
<1> SUFFICES ASSUME R!Init PROVE RInv
  OBVIOUS
<1> USE RequestsAssumption DEF R!NightAssumption, R!PriceAssumption, R!NoneAssumption
<1>1. 0 \in R!Days /\ 0 \in 0 .. MaxPrice
  BY DEF R!Days
<1>2. R!TypeOK
  BY <1>1 DEF R!Init, R!TypeOK, R!Free, R!Idle, R!StayRows, R!Charges
<1>3. ReviewAlone /\ ReviewKnown /\ ReviewConclusive
  BY DEF R!Init, R!Idle, ReviewAlone, ReviewKnown, ReviewConclusive, Locked
<1>4. Disjoint /\ BookedPaid /\ R!PriceCoversPayments
  BY DEF R!Init, R!Free, Disjoint, Live, BookedPaid, R!PriceCoversPayments
<1> QED
  BY <1>2, <1>3, <1>4 DEF RInv

LEMMA DisjointNights == R!TypeOK /\ Disjoint => R!NightsApart
  BY DEF R!NightsApart, R!HasOverlap, R!Upcoming, R!Guests, Disjoint, Live, Meet, R!TypeOK

LEMMA RoomOf ==
  ASSUME RInv, NEW set
  PROVE  R!Synced(set) \in {"available", "reserved", "occupied", "maintenance"}
  BY DEF R!Synced

(* A step of a review that changes nothing but the review.                 *)
LEMMA ReviewMoves ==
  ASSUME RInv, NEW w \in Reviewers,
         \/ R!Begin(w) \/ R!LockRoom(w) \/ R!LockStay(w) \/ R!Examine(w) \/ R!Rollback(w)
  PROVE  RInv'
<1> USE DEF RInv
<1>1. UNCHANGED <<stay, room, online, ask, answered>>
  BY DEF R!Begin, R!LockRoom, R!LockStay, R!Examine, R!Rollback
<1> DEFINE Moved(r) ==
      /\ review' = [review EXCEPT ![w] = r]
      /\ r.step # "idle" => r.id \in Asks /\ ask[r.id] # None
      /\ r.step \in Locked =>
           /\ r = [review[w] EXCEPT !.step = r.step]
           /\ review[w].step \in Locked \/ R!RoomFree
      /\ r.step = "checked" => R!Examine(w)
<1>2. \E r \in ReviewRows : Moved(r)
  <2>1. CASE R!Begin(w)
    <3>1. PICK q \in Asks, d \in {"approved", "rejected"}, p \in 0 .. MaxPrice :
            /\ ask[q] # None
            /\ review' = [review EXCEPT ![w] = [step |-> "begun", id |-> q, decision |-> d,
                                               price |-> p]]
      BY <2>1 DEF R!Begin
    <3> DEFINE r == [step |-> "begun", id |-> q, decision |-> d, price |-> p]
    <3>2. r \in ReviewRows /\ r.step = "begun" /\ r.id = q
      BY DEF ReviewRows
    <3>3. Moved(r)
      BY <3>1, <3>2 DEF Locked
    <3> QED
      BY <3>2, <3>3
  <2>2. CASE R!Rollback(w)
    <3>1. R!Idle \in ReviewRows /\ R!Idle.step = "idle"
      BY RequestsAssumption DEF R!Idle, R!PriceAssumption, ReviewRows
    <3>2. Moved(R!Idle)
      BY <2>2, <3>1 DEF R!Rollback, Locked
    <3> QED
      BY <3>1, <3>2
  <2>3. ASSUME NEW step \in Locked, R!Step(w, step),
               review[w].step \in {"begun", "room", "stay"},
               review[w].step \in Locked \/ R!RoomFree,
               step = "checked" => R!Examine(w)
        PROVE  \E r \in ReviewRows : Moved(r)
    <3> DEFINE r == [review[w] EXCEPT !.step = step]
    <3>1. r \in ReviewRows /\ r.step = step /\ r.id = review[w].id
      BY DEF R!TypeOK, Locked, ReviewRows
    <3>2. review' = [review EXCEPT ![w] = r]
      BY <2>3 DEF R!Step, R!TypeOK
    <3>3. r.id \in Asks /\ ask[r.id] # None
      BY <2>3, <3>1 DEF ReviewKnown, RequestOf
    <3>4. Moved(r)
      BY <2>3, <3>1, <3>2, <3>3
    <3> QED
      BY <3>1, <3>4
  <2> HIDE DEF Moved
  <2> QED
    BY <2>1, <2>2, <2>3 DEF R!LockRoom, R!LockStay, R!Examine, Locked
<1> PICK r \in ReviewRows : Moved(r)
  BY <1>2
<1>3. \A x \in Reviewers : review'[x] = IF x = w THEN r ELSE review[x]
  BY DEF R!TypeOK
<1>4. R!TypeOK'
  BY <1>1 DEF R!TypeOK, ReviewRows
<1>5. ReviewAlone'
  BY <1>3 DEF ReviewAlone, R!RoomFree, Locked
<1>6. ReviewKnown'
  BY <1>1, <1>3 DEF ReviewKnown, RequestOf
<1>7. Disjoint' /\ BookedPaid' /\ R!PriceCoversPayments'
  BY <1>1 DEF Disjoint, Live, Meet, BookedPaid, R!PriceCoversPayments
<1>8. ReviewConclusive'
  <2>1. R!Examine(w) => Examined(w)
    <3> SUFFICES ASSUME R!Examine(w) PROVE Examined(w)
      OBVIOUS
    <3>1. review[w].id \in Asks /\ RequestOf(w) \in R!AskRows
      BY DEF R!Examine, ReviewKnown, RequestOf, R!TypeOK
    <3>2. RequestOf(w).stay \in Stays /\ stay[RequestOf(w).stay].paid \in Nat
          /\ review[w].price \in Nat
      BY <3>1 DEF R!AskRows, R!TypeOK, R!StayRows
    <3> QED
      BY <3>1, <3>2 DEF R!Examine, Examined, R!StillPending, R!Approvable, R!DatesFit, R!HasOverlap,
          R!StayOf, RequestOf, Live, Meet
  <2>2. r.step = "checked" => r.id = review[w].id /\ r.decision = review[w].decision
                              /\ r.price = review[w].price
    BY DEF Locked, R!TypeOK
  <2> QED
    BY <1>1, <1>3, <2>1, <2>2 DEF ReviewConclusive, Examined, RequestOf, Live, Meet
<1> QED
  BY <1>4, <1>5, <1>6, <1>7, <1>8

LEMMA RequestCreated ==
  ASSUME RInv, NEW v \in Stays, NEW q \in Asks, R!Create(v, q)
  PROVE  RInv'
<1> USE DEF RInv
<1>1. UNCHANGED <<stay, room, online, answered, review>> /\ ask[q] = None
  BY DEF R!Create
<1>2. PICK row \in R!AskRows : ask' = [ask EXCEPT ![q] = row] /\ row.status = "pending"
  <2>1. PICK k \in {"dates", "cancel"}, i \in R!Days, o \in R!Days :
          ask' = [ask EXCEPT ![q] = [stay |-> v, kind |-> k, in |-> i, out |-> o,
                                     status |-> "pending"]]
    BY DEF R!Create
  <2> DEFINE row == [stay |-> v, kind |-> k, in |-> i, out |-> o, status |-> "pending"]
  <2>2. row \in R!AskRows /\ row.status = "pending"
    BY DEF R!AskRows
  <2> QED
    BY <2>1, <2>2
<1>3. \A p \in Asks : ask'[p] = IF p = q THEN row ELSE ask[p]
  BY <1>2 DEF R!TypeOK
<1>4. row # None
  BY RequestsAssumption DEF R!NoneAssumption
<1>5. R!TypeOK'
  <2>1. answered = {p \in Asks : ask'[p] # None /\ ask'[p].status # "pending"}
    BY <1>1, <1>2, <1>3, <1>4 DEF R!TypeOK
  <2> QED
    BY <1>1, <1>2, <2>1 DEF R!TypeOK
<1>6. ReviewAlone' /\ Disjoint' /\ BookedPaid' /\ R!PriceCoversPayments'
  BY <1>1 DEF ReviewAlone, Disjoint, Live, Meet, BookedPaid, R!PriceCoversPayments
<1>7. \A w \in Reviewers : review[w].step # "idle" => RequestOf(w)' = RequestOf(w)
  BY <1>1, <1>3 DEF ReviewKnown, RequestOf
<1>8. ReviewKnown'
  BY <1>1, <1>7 DEF ReviewKnown
<1>9. ReviewConclusive'
  BY <1>1, <1>7 DEF ReviewConclusive, Examined, Live, Meet
<1> QED
  BY <1>5, <1>6, <1>8, <1>9

(* A step of the desk or of an online payment: the row of one stay, under  *)
(* its lock or that of the room.                                           *)
LEMMA StayMoves ==
  ASSUME RInv, NEW v \in Stays, NEW row \in R!StayRows,
         stay' = [stay EXCEPT ![v] = row],
         room' \in {"available", "reserved", "occupied", "maintenance"},
         online' \in [Stays -> R!Charges],
         UNCHANGED <<ask, answered, review>>,
         row.paid <= row.price,
         BookedPaid',
         row # stay[v] => R!StayFree(v) \/ R!RoomFree,
         \/ /\ row.in = stay[v].in /\ row.out = stay[v].out
            /\ row.status \in {"confirmed", "checked_in"} => Live(v)
         \/ /\ R!RoomFree
            /\ \A u \in Stays : u # v /\ Live(u) => ~Meet(row.in, row.out, u)
  PROVE  RInv'
<1> USE DEF RInv
<1>1. \A u \in Stays : stay'[u] = IF u = v THEN row ELSE stay[u]
  BY DEF R!TypeOK
<1>2. R!TypeOK'
  BY DEF R!TypeOK
<1>3. ReviewAlone' /\ ReviewKnown'
  BY DEF ReviewAlone, ReviewKnown, RequestOf
<1>4. R!PriceCoversPayments'
  BY <1>1 DEF R!PriceCoversPayments
<1>5. Disjoint'
  <2>1. \A u \in Stays : stay[u].in \in Int /\ stay[u].out \in Int
    BY DEF R!TypeOK, R!StayRows, R!Days
  <2>2. row.in \in Int /\ row.out \in Int
    BY DEF R!StayRows, R!Days
  <2> QED
    BY <1>1, <2>1, <2>2 DEF Disjoint, Live, Meet
<1>6. ReviewConclusive'
  <2> SUFFICES ASSUME NEW w \in Reviewers, review[w].step = "checked" PROVE Examined(w)'
    BY DEF ReviewConclusive
  <2>1. ~R!RoomFree /\ (R!StayFree(v) => RequestOf(w).stay # v)
    BY DEF R!RoomFree, R!StayFree, R!StayOf, RequestOf
  <2>2. Examined(w)
    BY DEF ReviewConclusive
  <2>3. RequestOf(w).stay \in Stays
    BY DEF ReviewKnown, RequestOf, R!TypeOK, R!AskRows
  <2>4. stay'[RequestOf(w).stay] = stay[RequestOf(w).stay]
    BY <1>1, <2>1, <2>3
  <2>5. \A u \in Stays : stay'[u].in = stay[u].in /\ stay'[u].out = stay[u].out
          /\ (Live(u)' => Live(u))
    BY <1>1, <2>1 DEF Live
  <2> QED
    BY <2>2, <2>4, <2>5 DEF Examined, RequestOf, Meet
<1> QED
  BY <1>2, <1>3, <1>4, <1>5, <1>6

LEMMA DeskMoves ==
  ASSUME RInv, NEW v \in Stays,
         R!Book(v) \/ R!Move(v, "cancelled") \/ R!Move(v, "checked_in") \/ R!Pay(v)
  PROVE  RInv'
<1> USE DEF RInv
<1>1. stay[v] \in R!StayRows
  BY DEF R!TypeOK
<1>2. CASE R!Book(v)
  <2>1. PICK i \in R!Days, o \in R!Days, p \in 0 .. MaxPrice :
          /\ ~R!HasOverlap(i, o, v)
          /\ stay' = [stay EXCEPT ![v] = [status |-> "confirmed", in |-> i, out |-> o,
                                         price |-> p, paid |-> 0]]
    BY <1>2 DEF R!Book
  <2> DEFINE row == [status |-> "confirmed", in |-> i, out |-> o, price |-> p, paid |-> 0]
  <2>2. row \in R!StayRows /\ row.paid <= row.price
    BY RequestsAssumption DEF R!StayRows, R!PriceAssumption
  <2>3. BookedPaid'
    BY <1>2, <2>1 DEF R!Book, BookedPaid, R!TypeOK
  <2>4. \A u \in Stays : u # v /\ Live(u) => ~Meet(row.in, row.out, u)
    BY <2>1 DEF R!HasOverlap, Live, Meet
  <2>5. R!RoomFree /\ UNCHANGED <<online, ask, answered, review>>
    BY <1>2 DEF R!Book
  <2>6. room' \in {"available", "reserved", "occupied", "maintenance"}
    BY <1>2 DEF R!Book, R!Synced
  <2> HIDE DEF row
  <2>7. stay' = [stay EXCEPT ![v] = row]
    BY <2>1 DEF row
  <2> QED
    BY <2>2, <2>3, <2>4, <2>5, <2>6, <2>7, StayMoves DEF R!TypeOK
<1>3. ASSUME NEW to \in {"cancelled", "checked_in"}, R!Move(v, to) PROVE RInv'
  <2> DEFINE row == [stay[v] EXCEPT !.status = to]
  <2>1. row \in R!StayRows /\ row.in = stay[v].in /\ row.out = stay[v].out /\ row.status = to
        /\ row.paid = stay[v].paid /\ row.price = stay[v].price
    BY <1>1 DEF R!StayRows
  <2>2. stay' = [stay EXCEPT ![v] = row] /\ Live(v) /\ R!RoomFree
        /\ UNCHANGED <<online, ask, answered, review>>
    BY <1>3 DEF R!Move, R!TypeOK, Live
  <2>3. room' \in {"available", "reserved", "occupied", "maintenance"}
    BY <1>3 DEF R!Move, R!Synced
  <2>4. row.paid <= row.price
    BY <2>1 DEF R!PriceCoversPayments
  <2> HIDE DEF row
  <2>5. BookedPaid'
    BY <2>1, <2>2 DEF BookedPaid, R!TypeOK
  <2> QED
    BY <2>1, <2>2, <2>3, <2>4, <2>5, StayMoves DEF R!TypeOK
<1>4. CASE R!Pay(v)
  <2> DEFINE row == [stay[v] EXCEPT !.paid = @ + 1]
  <2>1. stay[v].paid < stay[v].price
    BY <1>4 DEF R!Pay
  <2>2. row \in R!StayRows /\ row.in = stay[v].in /\ row.out = stay[v].out
        /\ row.status = stay[v].status /\ row.paid = stay[v].paid + 1 /\ row.paid <= row.price
    BY <1>1, <2>1, RequestsAssumption DEF R!StayRows, R!PriceAssumption
  <2>3. stay' = [stay EXCEPT ![v] = row] /\ R!StayFree(v)
        /\ UNCHANGED <<room, online, ask, answered, review>>
    BY <1>4 DEF R!Pay, R!TypeOK
  <2> HIDE DEF row
  <2>4. BookedPaid'
    BY <1>1, <2>2, <2>3 DEF BookedPaid, R!TypeOK, R!StayRows
  <2> QED
    BY <2>2, <2>3, <2>4, StayMoves DEF R!TypeOK, Live
<1> QED
  BY <1>2, <1>3, <1>4

LEMMA ChargeMoves ==
  ASSUME RInv, NEW v \in Stays,
         \/ R!OpenCheckout(v) \/ R!Settle(v) \/ R!Expire(v) \/ R!Refund(v)
         \/ R!FinishRefund(v)
  PROVE  RInv'
<1> USE DEF RInv
<1>1. stay[v] \in R!StayRows /\ online[v] \in R!Charges
  BY DEF R!TypeOK
<1>2. UNCHANGED <<room, ask, answered, review>>
  BY DEF R!OpenCheckout, R!Settle, R!Expire, R!Refund, R!FinishRefund
<1>3. PICK state \in {"none", "pending", "paid", "expired", "refund_pending", "refunded"},
           booked \in BOOLEAN, row \in R!StayRows :
        /\ R!Charge(v, state, booked)
        /\ stay' = [stay EXCEPT ![v] = row]
        /\ row.in = stay[v].in /\ row.out = stay[v].out /\ row.status = stay[v].status
        /\ row.paid <= row.price
        /\ booked => row.paid >= 1
        /\ row.status # "free"
        /\ row # stay[v] => R!StayFree(v)
  <2>1. stay = [stay EXCEPT ![v] = stay[v]]
    BY DEF R!TypeOK
  <2>2. stay[v].paid <= stay[v].price /\ stay[v].status # "free"
    <3>1. stay[v].status = "free" => online[v].status = "none"
      BY DEF BookedPaid
    <3>2. stay[v].status # "free" \/ online[v].status # "none"
      BY DEF R!OpenCheckout, R!Settle, R!Expire, R!Refund, R!FinishRefund
    <3> QED
      BY <3>1, <3>2 DEF R!PriceCoversPayments
  <2>3. CASE UNCHANGED stay /\ \E state \in {"pending", "expired", "refund_pending", "refunded"} :
                R!Charge(v, state, FALSE)
    BY <1>1, <2>1, <2>2, <2>3
  <2>4. CASE R!Refund(v)
    <3>1. R!Charge(v, "refund_pending", online[v].booked) /\ UNCHANGED stay
      BY <2>4 DEF R!Refund
    <3>2. online[v].booked \in BOOLEAN
          /\ (online[v].booked => stay[v].paid >= 1)
      BY <1>1 DEF R!Charges, BookedPaid
    <3> QED
      BY <1>1, <2>1, <2>2, <3>1, <3>2
  <2> DEFINE Fits == stay[v].status # "cancelled" /\ stay[v].paid < stay[v].price
  <2>5. CASE R!Settle(v) /\ Fits
    <3> DEFINE row == [stay[v] EXCEPT !.paid = @ + 1]
    <3>1. /\ stay[v].paid < stay[v].price /\ R!StayFree(v)
          /\ stay' = [stay EXCEPT ![v].paid = @ + 1] /\ R!Charge(v, "paid", TRUE)
          /\ stay[v].status # "cancelled"
      BY <2>5 DEF R!Settle
    <3>2. /\ row \in R!StayRows /\ row.in = stay[v].in /\ row.out = stay[v].out
          /\ row.status = stay[v].status /\ row.paid = stay[v].paid + 1
          /\ row.paid <= row.price /\ row.paid >= 1
      BY <1>1, <3>1, RequestsAssumption DEF R!StayRows, R!PriceAssumption
    <3>3. stay' = [stay EXCEPT ![v] = row]
      BY <3>1 DEF R!TypeOK
    <3> HIDE DEF row
    <3> QED
      BY <2>2, <3>1, <3>2, <3>3
  <2>6. CASE R!FinishRefund(v) /\ online[v].booked
    <3> DEFINE row == [stay[v] EXCEPT !.paid = @ - 1]
    <3>1. /\ stay' = [stay EXCEPT ![v].paid = @ - 1] /\ R!Charge(v, "refunded", FALSE)
          /\ R!StayFree(v)
      BY <2>6 DEF R!FinishRefund
    <3>2. stay[v].paid >= 1
      BY <2>6 DEF BookedPaid
    <3>3. /\ row \in R!StayRows /\ row.in = stay[v].in /\ row.out = stay[v].out
          /\ row.status = stay[v].status /\ row.paid <= row.price
      BY <1>1, <2>2, <3>2, RequestsAssumption DEF R!StayRows, R!PriceAssumption
    <3>4. stay' = [stay EXCEPT ![v] = row]
      BY <3>1 DEF R!TypeOK
    <3> HIDE DEF row
    <3> QED
      BY <2>2, <3>1, <3>3, <3>4
  <2>7. \/ UNCHANGED stay /\ \E state \in {"pending", "expired", "refund_pending", "refunded"} :
              R!Charge(v, state, FALSE)
        \/ R!Refund(v) \/ (R!Settle(v) /\ Fits)
        \/ (R!FinishRefund(v) /\ online[v].booked)
    <3>1. CASE R!OpenCheckout(v) \/ R!Expire(v) \/ R!Refund(v)
      BY <3>1 DEF R!OpenCheckout, R!Expire
    <3>2. CASE R!Settle(v)
      BY <3>2 DEF R!Settle
    <3>3. CASE R!FinishRefund(v)
      BY <3>3 DEF R!FinishRefund
    <3> QED
      BY <3>1, <3>2, <3>3
  <2> QED
    BY <2>3, <2>4, <2>5, <2>6, <2>7
<1>4. /\ online' \in [Stays -> R!Charges]
      /\ BookedPaid'
  <2>1. \A u \in Stays : /\ stay'[u] = IF u = v THEN row ELSE stay[u]
                        /\ online'[u] = IF u = v THEN [status |-> state, booked |-> booked]
                                        ELSE online[u]
    BY <1>3 DEF R!Charge, R!TypeOK
  <2>2. online' \in [Stays -> R!Charges]
    BY <1>3 DEF R!Charge, R!TypeOK, R!Charges
  <2> QED
    BY <1>3, <2>1, <2>2 DEF BookedPaid
<1> QED
  BY <1>2, <1>3, <1>4, StayMoves DEF R!TypeOK, Live

LEMMA MaintenanceMoves == RInv /\ R!Maintain => RInv'
<1> SUFFICES ASSUME RInv, R!Maintain PROVE RInv'
  OBVIOUS
<1> USE DEF RInv
<1>1. UNCHANGED <<stay, online, ask, answered, review>>
  BY DEF R!Maintain
<1>2. R!TypeOK'
  BY <1>1 DEF R!Maintain, R!TypeOK
<1> QED
  BY <1>1, <1>2 DEF ReviewAlone, ReviewKnown, RequestOf, Disjoint, Live, Meet, ReviewConclusive,
                    Examined, BookedPaid, R!PriceCoversPayments

(* review commits.                                                         *)
LEMMA ReviewCommits ==
  ASSUME RInv, NEW w \in Reviewers, R!Commit(w)
  PROVE  RInv'
<1> USE DEF RInv
<1> DEFINE q == review[w].id
           v == ask[q].stay
<1>1. /\ review[w].step = "checked" /\ review[w] \in ReviewRows
      /\ q \in Asks /\ ask[q] \in R!AskRows /\ v \in Stays /\ stay[v] \in R!StayRows
  BY DEF R!Commit, ReviewKnown, RequestOf, R!TypeOK, R!AskRows, ReviewRows
<1>2. Examined(w)
  BY <1>1 DEF ReviewConclusive
<1>3. /\ ask' = [ask EXCEPT ![q].status = review[w].decision]
      /\ answered' = answered \union {q}
      /\ review' = [review EXCEPT ![w] = R!Idle]
      /\ UNCHANGED online
  BY DEF R!Commit
<1>4. /\ R!Idle \in ReviewRows /\ R!Idle.step = "idle"
      /\ \A x \in Reviewers : review'[x] = IF x = w THEN R!Idle ELSE review[x]
  BY <1>3, RequestsAssumption DEF R!Idle, R!PriceAssumption, ReviewRows, R!TypeOK
<1>5. \A x \in Reviewers : x # w => review[x].step \notin Locked
  BY <1>1 DEF ReviewAlone, Locked
<1>6. ReviewAlone' /\ ReviewConclusive'
  BY <1>4, <1>5 DEF ReviewAlone, ReviewConclusive, Locked
<1>7. /\ \A p \in Asks : p # q => ask'[p] = ask[p]
      /\ ask'[q] = [ask[q] EXCEPT !.status = review[w].decision]
      /\ ask'[q] \in R!AskRows /\ ask'[q].status = review[w].decision
  BY <1>1, <1>3 DEF R!TypeOK, R!AskRows, ReviewRows
<1>8. ask'[q] # None /\ ask'[q].status # "pending" /\ ask[q] # None
  BY <1>1, <1>7, RequestsAssumption DEF R!NoneAssumption, ReviewRows
<1>9. ReviewKnown'
  BY <1>4, <1>7, <1>8 DEF ReviewKnown, RequestOf
<1>10. PICK row \in R!StayRows :
         /\ stay' = [stay EXCEPT ![v] = row]
         /\ row.paid = stay[v].paid /\ row.paid <= row.price
         /\ stay[v].status = "free" => row = stay[v]
         /\ row.status = "free" => stay[v].status = "free"
         /\ \/ /\ row.in = stay[v].in /\ row.out = stay[v].out
               /\ row.status \in {"confirmed", "checked_in"} => Live(v)
            \/ \A u \in Stays : u # v /\ Live(u) => ~Meet(row.in, row.out, u)
  <2>1. stay[v].paid <= stay[v].price
    BY <1>1 DEF R!PriceCoversPayments
  <2>2. CASE review[w].decision = "rejected"
    <3>1. UNCHANGED stay
      BY <2>2 DEF R!Commit
    <3>2. stay = [stay EXCEPT ![v] = stay[v]]
      BY DEF R!TypeOK
    <3> QED
      BY <1>1, <2>1, <3>1, <3>2 DEF Live
  <2>3. CASE review[w].decision = "approved" /\ ask[q].kind = "cancel"
    <3> DEFINE row == [stay[v] EXCEPT !.status = "cancelled"]
    <3>1. stay' = [stay EXCEPT ![v] = row]
      BY <1>1, <2>3 DEF R!Commit, R!Approve, R!TypeOK
    <3>2. /\ row \in R!StayRows /\ row.paid = stay[v].paid /\ row.price = stay[v].price
          /\ row.in = stay[v].in /\ row.out = stay[v].out /\ row.status = "cancelled"
      BY <1>1 DEF R!StayRows
    <3>3. stay[v].status = "confirmed"
      BY <1>2, <2>3 DEF Examined, RequestOf
    <3> HIDE DEF row
    <3> QED
      BY <1>1, <2>1, <3>1, <3>2, <3>3
  <2>4. CASE review[w].decision = "approved" /\ ask[q].kind = "dates"
    <3> DEFINE row == [stay[v] EXCEPT !.in = ask[q].in, !.out = ask[q].out,
                                      !.price = review[w].price]
    <3>1. stay' = [stay EXCEPT ![v] = row]
      BY <1>1, <2>4 DEF R!Commit, R!Approve, R!TypeOK
    <3>2. /\ row \in R!StayRows /\ row.paid = stay[v].paid /\ row.price = review[w].price
          /\ row.in = ask[q].in /\ row.out = ask[q].out /\ row.status = stay[v].status
      BY <1>1 DEF R!StayRows, R!AskRows, ReviewRows
    <3>3. /\ stay[v].status = "confirmed" /\ stay[v].paid <= review[w].price
          /\ \A u \in Stays : u # v /\ Live(u) => ~Meet(ask[q].in, ask[q].out, u)
      BY <1>2, <2>4 DEF Examined, RequestOf
    <3> HIDE DEF row
    <3> QED
      BY <1>1, <2>1, <3>1, <3>2, <3>3
  <2> QED
    BY <1>1, <2>2, <2>3, <2>4 DEF R!AskRows, ReviewRows
<1>11. \A u \in Stays : stay'[u] = IF u = v THEN row ELSE stay[u]
  BY <1>10 DEF R!TypeOK
<1>12. R!TypeOK'
  <2>1. answered' = {p \in Asks : ask'[p] # None /\ ask'[p].status # "pending"}
    BY <1>1, <1>3, <1>7, <1>8 DEF R!TypeOK
  <2>2. room' \in {"available", "reserved", "occupied", "maintenance"}
    BY DEF R!Commit, R!Approve, R!Synced, R!TypeOK
  <2>3. ask' \in [Asks -> R!AskRows \union {None}]
    BY <1>1, <1>3, <1>7 DEF R!TypeOK
  <2> QED
    BY <1>3, <1>4, <1>10, <2>1, <2>2, <2>3 DEF R!TypeOK, ReviewRows
<1>13. Disjoint'
  <2>1. \A u \in Stays : stay[u].in \in Int /\ stay[u].out \in Int
    BY DEF R!TypeOK, R!StayRows, R!Days
  <2>2. row.in \in Int /\ row.out \in Int
    BY <1>10 DEF R!StayRows, R!Days
  <2> QED
    BY <1>10, <1>11, <2>1, <2>2 DEF Disjoint, Live, Meet
<1>14. BookedPaid'
  <2>1. \A u \in Stays : stay'[u].paid = stay[u].paid
                        /\ (stay'[u].status = "free" => stay[u].status = "free")
    BY <1>10, <1>11
  <2> QED
    BY <1>3, <2>1 DEF BookedPaid
<1>15. R!PriceCoversPayments'
  BY <1>10, <1>11 DEF R!PriceCoversPayments
<1> QED
  BY <1>6, <1>9, <1>12, <1>13, <1>14, <1>15

LEMMA RequestsStep == RInv /\ [R!Next]_RVars => RInv'
<1> SUFFICES ASSUME RInv, [R!Next]_RVars PROVE RInv'
  OBVIOUS
<1>1. CASE UNCHANGED RVars
  BY <1>1 DEF RVars, RInv, R!TypeOK, ReviewAlone, ReviewKnown, RequestOf, Disjoint, Live, Meet,
              ReviewConclusive, Examined, BookedPaid, R!PriceCoversPayments
<1>2. CASE \E w \in Reviewers :
             \/ R!Begin(w) \/ R!LockRoom(w) \/ R!LockStay(w) \/ R!Examine(w)
             \/ R!Commit(w) \/ R!Rollback(w)
  BY <1>2, ReviewMoves, ReviewCommits
<1>3. CASE \E v \in Stays, q \in Asks : R!Create(v, q)
  BY <1>3, RequestCreated
<1>4. CASE \E v \in Stays :
             \/ R!Book(v) \/ R!Move(v, "cancelled") \/ R!Move(v, "checked_in") \/ R!Pay(v)
             \/ R!OpenCheckout(v) \/ R!Settle(v) \/ R!Expire(v) \/ R!Refund(v)
             \/ R!FinishRefund(v)
  BY <1>4, DeskMoves, ChargeMoves
<1> QED
  BY <1>1, <1>2, <1>3, <1>4, MaintenanceMoves DEF R!Next

(* A decided request is not decided again.                                 *)
LEMMA DecidedOnce == RInv /\ R!Next => R!OneDecision
<1> SUFFICES ASSUME RInv, R!Next, NEW q \in answered PROVE ask'[q] = ask[q]
  BY DEF R!OneDecision
<1> USE DEF RInv
<1>1. q \in Asks /\ ask[q] # None /\ ask[q].status # "pending"
  BY DEF R!TypeOK
<1>2. CASE UNCHANGED ask
  BY <1>2
<1>3. CASE \E v \in Stays, p \in Asks : R!Create(v, p)
  BY <1>1, <1>3 DEF R!Create, R!TypeOK
<1>4. CASE \E w \in Reviewers : R!Commit(w)
  <2>1. PICK w \in Reviewers : R!Commit(w)
    BY <1>4
  <2>2. ask[review[w].id].status = "pending" /\ review[w].step = "checked"
    BY <2>1 DEF R!Commit, ReviewConclusive, Examined, RequestOf
  <2>3. ask' = [ask EXCEPT ![review[w].id].status = review[w].decision]
    BY <2>1 DEF R!Commit
  <2> QED
    BY <1>1, <2>2, <2>3 DEF R!TypeOK
<1> QED
  BY <1>2, <1>3, <1>4 DEF R!Next, R!Begin, R!LockRoom, R!LockStay, R!Examine, R!Rollback,
     R!Book, R!Move, R!Pay, R!OpenCheckout, R!Settle, R!Expire, R!Refund, R!FinishRefund,
     R!Maintain

(* Nothing but the payments of a guest in the house changes.               *)
LEMMA ArrivedKept == RInv /\ R!Next => R!ArrivedKeepsStay
<1> SUFFICES ASSUME RInv, R!Next, NEW v \in Stays, stay[v].status = "checked_in"
             PROVE  stay'[v] = [stay[v] EXCEPT !.paid = stay'[v].paid]
  BY DEF R!ArrivedKeepsStay, R!Guests
<1> USE DEF RInv
<1>1. stay[v] \in R!StayRows /\ stay[v] = [stay[v] EXCEPT !.paid = stay[v].paid]
  BY DEF R!TypeOK, R!StayRows
<1>2. CASE stay'[v] = stay[v]
  BY <1>1, <1>2
<1>3. CASE \E n \in Int : stay'[v] = [stay[v] EXCEPT !.paid = n]
  BY <1>1, <1>3 DEF R!StayRows
<1>4. CASE \E u \in Stays : R!Book(u) \/ R!Move(u, "cancelled") \/ R!Move(u, "checked_in")
  BY <1>2, <1>4 DEF R!Book, R!Move, R!TypeOK
<1>5. CASE \E u \in Stays : R!Pay(u) \/ R!Settle(u) \/ R!FinishRefund(u)
  <2>1. stay[v].paid \in Int
    BY <1>1 DEF R!StayRows
  <2>2. PICK u \in Stays :
          \/ UNCHANGED stay
          \/ stay' = [stay EXCEPT ![u].paid = @ + 1]
          \/ stay' = [stay EXCEPT ![u].paid = @ - 1]
    BY <1>5 DEF R!Pay, R!Settle, R!FinishRefund
  <2>3. \/ stay'[v] = stay[v]
        \/ stay'[v] = [stay[v] EXCEPT !.paid = stay[v].paid + 1]
        \/ stay'[v] = [stay[v] EXCEPT !.paid = stay[v].paid - 1]
    BY <2>2 DEF R!TypeOK
  <2>4. stay[v].paid + 1 \in Int /\ stay[v].paid - 1 \in Int
    BY <2>1
  <2> QED
    BY <1>2, <1>3, <2>3, <2>4
<1>6. CASE \E w \in Reviewers : R!Commit(w)
  <2>1. PICK w \in Reviewers : R!Commit(w)
    BY <1>6
  <2>2. Examined(w)
    BY <2>1 DEF R!Commit, ReviewConclusive
  <2>3. review[w].decision = "approved" => stay[RequestOf(w).stay].status = "confirmed"
    BY <2>2 DEF Examined
  <2>4. CASE review[w].decision = "approved"
    <3>1. PICK row : stay' = [stay EXCEPT ![RequestOf(w).stay] = row]
      BY <2>1, <2>4 DEF R!Commit, R!Approve, RequestOf
    <3> QED
      BY <1>2, <2>3, <2>4, <3>1 DEF R!TypeOK
  <2>5. CASE review[w].decision # "approved"
    BY <1>2, <2>1, <2>5 DEF R!Commit
  <2> QED
    BY <2>4, <2>5
<1>7. CASE UNCHANGED stay
  BY <1>2, <1>7
<1> QED
  BY <1>4, <1>5, <1>6, <1>7 DEF R!Next, R!Begin, R!LockRoom, R!LockStay, R!Examine, R!Rollback,
     R!Create, R!OpenCheckout, R!Expire, R!Refund, R!Maintain

(* For any reviewers, stays and requests: the agreed price covers what was *)
(* paid and no two stays share a night, whatever the desk, the gateway and *)
(* other reviewers did since the request was read.                         *)
THEOREM RequestsHold ==
  R!Spec => [](R!TypeOK /\ R!PriceCoversPayments /\ R!NightsApart)
<1>1. RInv /\ [R!Next]_R!vars => RInv'
  BY RequestsStep DEF R!vars, RVars
<1>2. RInv => R!TypeOK /\ R!PriceCoversPayments /\ R!NightsApart
  BY DisjointNights DEF RInv
<1> QED
  BY RequestsInit, <1>1, <1>2, PTL DEF R!Spec

(* A request is decided once, and not applied to a guest who has arrived.  *)
THEOREM RequestsDecided == R!Spec => [][R!OneDecision /\ R!ArrivedKeepsStay]_R!vars
<1>1. RInv /\ [R!Next]_R!vars => RInv'
  BY RequestsStep DEF R!vars, RVars
<1>2. RInv /\ [R!Next]_R!vars => [R!OneDecision /\ R!ArrivedKeepsStay]_R!vars
  BY DecidedOnce, ArrivedKept
<1> QED
  BY RequestsInit, <1>1, <1>2, PTL DEF R!Spec

(* The same in the composition.                                            *)
THEOREM Approved == Spec => []ApprovedStaysHold
<1> DEFINE Inv == part \in Requests => RInv
<1>1. Init => Inv
  BY RequestsInit DEF Init, Requests
<1>2. Inv /\ [Next]_all => Inv'
  <2> SUFFICES ASSUME Inv, [Next]_all, part' \in Requests PROVE RInv'
    OBVIOUS
  <2>1. part \in Requests /\ [R!Next]_RVars
    BY DEF Next, all, SOnly, ROnly, OOnly, MOnly, BOnly, COnly, GOnly, Requests
  <2> QED
    BY <2>1, RequestsStep
<1>3. Inv => ApprovedStaysHold
  BY DisjointNights DEF ApprovedStaysHold, RInv
<1> QED
  BY <1>1, <1>2, <1>3, PTL DEF Spec

-----------------------------------------------------------------------------
(* Migrations.  The holder of the lock has checked every row of the        *)
(* history against its files (CheckedMatches), also those it added, and    *)
(* knows of each that it read it, or that it applied it or a later one     *)
(* (Known); the file it applies comes after all of them (Following).       *)

LEMMA LeastOf ==
  ASSUME NEW set, set \subseteq Nat, set # {}
  PROVE  \E i \in set : \A j \in set : i <= j
<1>1. PICK i \in set : \A j \in set : ~ (<<j, i>> \in OpToRel(<, Nat))
  BY NatLessThanWellFounded, WFMin
<1>2. ASSUME NEW j \in set PROVE i <= j
  <2>1. ~ (<<j, i>> \in OpToRel(<, Nat))
    BY <1>1
  <2>2. ~ (j < i)
    BY <2>1 DEF OpToRel
  <2> QED
    BY <2>2
<1> QED
  BY <1>2

LEMMA Added ==
  ASSUME NEW set, NEW s \in Seq(set), NEW row \in set
  PROVE  /\ Append(s, row) \in Seq(set)
         /\ M!In(Append(s, row)) = M!In(s) \union {row}
         /\ Len(Append(s, row)) = Len(s) + 1 /\ Len(s) \in Nat
         /\ \A i \in 1 .. Len(s) : Append(s, row)[i] = s[i]
         /\ Append(s, row)[Len(s) + 1] = row
<1>1. /\ Append(s, row) \in Seq(set)
      /\ Len(Append(s, row)) = Len(s) + 1 /\ Len(s) \in Nat
      /\ \A i \in 1 .. Len(s) : Append(s, row)[i] = s[i]
      /\ Append(s, row)[Len(s) + 1] = row
      /\ DOMAIN s = 1 .. Len(s) /\ DOMAIN Append(s, row) = 1 .. Len(s) + 1
  OBVIOUS
<1>2. M!In(Append(s, row)) = M!In(s) \union {row}
  BY <1>1 DEF M!In
<1> QED
  BY <1>1, <1>2

Holding == {"locked", "checked", "applying"}
RunRows == [step : {"new", "ended", "refused", "failed"} \union Holding,
            read : SUBSET M!Entries, at : Files \union {None}]

Known(r) == \A row \in M!In(history) :
  row \in run[r].read \/ (run[r].at # None /\ row.name <= run[r].at)

Matched(r) == \A row \in M!In(history) : M!Matches(r, row)

RunHolds(r) ==
  /\ run[r].at \in Files \union {None}
  /\ run[r].step \in {"new", "locked"} => run[r].at = None
  /\ run[r].step = "checked" => Known(r) /\ Matched(r)
  /\ run[r].step = "applying" =>
       /\ run[r].at \in M!Named(r) /\ Matched(r)
       /\ \A row \in M!In(history) : row.name < run[r].at

DInv ==
  /\ M!TypeOK
  /\ run \in [Runners -> RunRows]
  /\ history \in Seq(M!Entries) /\ schema = history
  /\ M!OrderOfNames
  /\ \A r \in Runners : RunHolds(r)

LEMMA MigrationsHold == DInv => M!TypeOK /\ M!ExecutedOnce /\ M!OrderOfNames
<1> SUFFICES ASSUME DInv,
                    NEW i \in DOMAIN schema, NEW j \in DOMAIN schema,
                    schema[i].name = schema[j].name, i # j
             PROVE  FALSE
  BY DEF DInv, M!ExecutedOnce
<1>1. i \in Nat /\ j \in Nat /\ schema[i] \in M!Entries
  BY DEF DInv
<1>2. schema[i].name \in Nat
  BY <1>1, MigrationsAssumption DEF M!Entries, M!FileAssumption
<1>3. i < j \/ j < i
  BY <1>1
<1> QED
  BY <1>2, <1>3 DEF DInv, M!OrderOfNames

LEMMA MigrationsInit == M!Init => DInv
<1> SUFFICES ASSUME M!Init PROVE DInv
  OBVIOUS
<1>1. M!In(history) = {} /\ schema = history /\ history \in Seq(M!Entries)
  BY DEF M!Init, M!In
<1>2. M!TypeOK
  BY <1>1, MigrationsAssumption DEF M!Init, M!TypeOK, M!Idle, M!NoneAssumption
<1>3. M!OrderOfNames
  BY DEF M!Init, M!OrderOfNames
<1>4. run \in [Runners -> RunRows]
  <2>1. M!Idle \in RunRows
    BY DEF M!Idle, RunRows
  <2> QED
    BY <2>1 DEF M!Init
<1>5. \A r \in Runners : RunHolds(r)
  BY DEF M!Init, M!Idle, RunHolds
<1> QED
  BY <1>1, <1>2, <1>3, <1>4, <1>5 DEF DInv

(* A step that writes only the run of r, and the lock.                     *)
LEMMA RunGoesOn ==
  ASSUME DInv, NEW r \in Runners, NEW row,
         row \in RunRows, row.read \subseteq M!In(history),
         run' = [run EXCEPT ![r] = row], RunHolds(r)',
         \A x \in Runners \ {r} : directory'[x] = directory[x],
         directory' \in [Runners -> [Files -> Contents \union {None}]],
         \/ lock \in {r, None} /\ lock' \in {r, None}
         \/ lock' = lock,
         lock' = r <=> row.step \in Holding,
         UNCHANGED <<history, schema>>
  PROVE  DInv'
<1>1. \A x \in Runners : run'[x] = IF x = r THEN row ELSE run[x]
  BY DEF DInv
<1>2. M!In(history)' = M!In(history)
  BY DEF M!In
<1>3. M!TypeOK'
  <2>1. lock' \in Runners \union {None}
    BY DEF DInv, M!TypeOK
  <2>2. ASSUME NEW x \in Runners
        PROVE  /\ run'[x].step \in {"new", "locked", "checked", "applying", "ended", "refused",
                                    "failed"}
               /\ run'[x].read \subseteq M!In(history)
               /\ run'[x].step \in {"locked", "checked", "applying"} <=> lock' = x
    BY <1>1, <2>1, MigrationsAssumption DEF DInv, M!TypeOK, M!NoneAssumption, RunRows, Holding
  <2> QED
    BY <1>2, <2>1, <2>2 DEF DInv, M!TypeOK
<1>4. ASSUME NEW x \in Runners PROVE RunHolds(x)'
  <2>1. CASE x = r
    BY <2>1
  <2>2. CASE x # r
    BY <1>1, <1>2, <2>2 DEF DInv, RunHolds, Known, Matched, M!Matches, M!Named
  <2> QED
    BY <2>1, <2>2
<1>5. M!OrderOfNames'
  BY DEF DInv, M!OrderOfNames
<1>6. run' \in [Runners -> RunRows]
  BY DEF DInv
<1> QED
  BY <1>3, <1>4, <1>5, <1>6 DEF DInv

LEMMA LockStep == ASSUME DInv, NEW r \in Runners, M!Lock(r) \/ M!GiveUp(r) PROVE DInv'
<1>1. PICK step : step = IF M!Lock(r) THEN "locked" ELSE "refused"
  OBVIOUS
<1>2. PICK row : row = [run[r] EXCEPT !.step = step]
  OBVIOUS
<1>3. /\ run[r] \in RunRows /\ run[r].step = "new" /\ run[r].at = None
      /\ run[r].read \subseteq M!In(history) /\ lock # r
  BY DEF DInv, M!TypeOK, RunHolds, M!Lock, M!GiveUp
<1>4. row \in RunRows /\ row.step = step /\ row.at = None /\ row.read = run[r].read
  BY <1>1, <1>2, <1>3 DEF RunRows, Holding
<1>5. /\ run' = [run EXCEPT ![r] = row]
      /\ UNCHANGED <<directory, history, schema>>
      /\ IF M!Lock(r) THEN lock = None /\ lock' = r ELSE lock' = lock
  BY <1>1, <1>2 DEF M!Lock, M!GiveUp, M!Unlocked
<1>6. run'[r] = row
  BY <1>5 DEF DInv
<1>7. RunHolds(r)'
  BY <1>1, <1>4, <1>6 DEF RunHolds
<1>8. lock' = r <=> row.step \in Holding
  BY <1>1, <1>3, <1>4, <1>5 DEF Holding
<1> QED
  BY <1>3, <1>4, <1>5, <1>7, <1>8, RunGoesOn DEF DInv, M!TypeOK

LEMMA EndStep ==
  ASSUME DInv, NEW r \in Runners, NEW step \in {"ended", "refused", "failed"}, lock = r,
         M!End(r, step)
  PROVE  DInv'
<1>1. PICK row : row = [run[r] EXCEPT !.step = step]
  OBVIOUS
<1>2. /\ run[r] \in RunRows /\ run[r].read \subseteq M!In(history)
  BY DEF DInv, M!TypeOK
<1>3. row \in RunRows /\ row.step = step /\ row.at = run[r].at /\ row.read = run[r].read
  BY <1>1, <1>2 DEF RunRows, Holding
<1>4. /\ run' = [run EXCEPT ![r] = row] /\ lock' = None
      /\ UNCHANGED <<directory, history, schema>>
  BY <1>1 DEF M!End
<1>5. run'[r] = row
  BY <1>4 DEF DInv
<1>6. RunHolds(r)'
  BY <1>3, <1>5 DEF RunHolds, RunRows
<1>7. lock' # r
  BY <1>4, MigrationsAssumption DEF M!NoneAssumption
<1> QED
  BY <1>2, <1>3, <1>4, <1>6, <1>7, RunGoesOn DEF DInv, M!TypeOK, Holding

LEMMA CheckStep == ASSUME DInv, NEW r \in Runners, M!Check(r) PROVE DInv'
<1>1. PICK row : row = [run[r] EXCEPT !.step = "checked", !.read = M!In(history)]
  OBVIOUS
<1>2. /\ run[r] \in RunRows /\ run[r].at = None /\ lock = r /\ M!In(history) \subseteq M!Entries
  BY DEF DInv, M!TypeOK, RunHolds, M!Check
<1>3. /\ row \in RunRows /\ row.step = "checked" /\ row.at = None /\ row.read = M!In(history)
  BY <1>1, <1>2 DEF RunRows, Holding
<1>4. /\ run' = [run EXCEPT ![r] = row] /\ lock' = lock
      /\ UNCHANGED <<directory, history, schema>>
  BY <1>1, <1>2 DEF M!Check, DInv
<1>5. run'[r] = row /\ M!In(history)' = M!In(history)
  BY <1>4 DEF DInv, M!In
<1>6. RunHolds(r)'
  BY <1>3, <1>4, <1>5 DEF RunHolds, Known, Matched, M!Matches, M!Check, M!Unaltered
<1> QED
  BY <1>2, <1>3, <1>4, <1>6, RunGoesOn DEF DInv, M!TypeOK, Holding

LEMMA NextFile ==
  ASSUME NEW r \in Runners, M!Missing(r) # {}
  PROVE  M!Following(r) \in M!Missing(r)
<1>1. M!Missing(r) \subseteq Nat
  BY MigrationsAssumption DEF M!Missing, M!Named, M!FileAssumption
<1>2. \E f \in M!Missing(r) : \A g \in M!Missing(r) : f <= g
  BY <1>1, LeastOf
<1> QED
  BY <1>2 DEF M!Following

LEMMA BeginFileStep == ASSUME DInv, NEW r \in Runners, M!BeginFile(r) PROVE DInv'
<1>1. PICK f : f = M!Following(r)
  OBVIOUS
<1>2. PICK row : row = [run[r] EXCEPT !.step = "applying", !.at = f]
  OBVIOUS
<1>3. f \in M!Missing(r) /\ f \in M!Named(r) /\ f \in Files
  BY <1>1, NextFile DEF M!BeginFile, M!Missing, M!Named
<1>4. /\ run[r] \in RunRows /\ lock = r /\ Known(r) /\ Matched(r)
      /\ run[r].read \subseteq M!In(history) /\ run[r].step = "checked"
  BY DEF DInv, M!TypeOK, RunHolds, M!BeginFile
<1>5. row \in RunRows /\ row.step = "applying" /\ row.at = f /\ row.read = run[r].read
  BY <1>2, <1>3, <1>4 DEF RunRows, Holding
<1>6. /\ run' = [run EXCEPT ![r] = row] /\ lock' = lock
      /\ UNCHANGED <<directory, history, schema>>
  BY <1>1, <1>2 DEF M!BeginFile, DInv
<1>7. run'[r] = row /\ M!In(history)' = M!In(history)
  BY <1>6 DEF DInv, M!In
<1>8. ASSUME NEW other \in M!In(history) PROVE other.name < f
  <2>1. other.name \in Nat /\ f \in Nat /\ (run[r].at # None => run[r].at \in Nat)
    BY <1>3, <1>4, MigrationsAssumption
    DEF DInv, M!TypeOK, M!Entries, M!FileAssumption, RunRows
  <2>2. CASE other \in run[r].read
    BY <1>1, <2>2 DEF M!BeginFile, M!InOrder
  <2>3. CASE run[r].at # None /\ other.name <= run[r].at
    BY <1>3, <2>1, <2>3 DEF M!Missing
  <2> QED
    BY <1>4, <2>2, <2>3 DEF Known
<1>9. RunHolds(r)'
  BY <1>3, <1>4, <1>5, <1>6, <1>7, <1>8 DEF RunHolds, Matched, M!Matches, M!Named
<1> QED
  BY <1>4, <1>5, <1>6, <1>9, RunGoesOn DEF DInv, M!TypeOK, Holding

LEMMA AgainStep == ASSUME DInv, NEW r \in Runners, M!Again(r) PROVE DInv'
<1>1. PICK d \in [Files -> Contents \union {None}] : directory' = [directory EXCEPT ![r] = d]
  BY DEF M!Again
<1>2. /\ run' = [run EXCEPT ![r] = M!Idle] /\ UNCHANGED <<history, schema, lock>>
      /\ lock # r
  BY DEF M!Again, DInv, M!TypeOK
<1>3. M!Idle \in RunRows /\ M!Idle.step = "new" /\ M!Idle.read = {} /\ M!Idle.at = None
  BY DEF M!Idle, RunRows
<1>4. run'[r] = M!Idle
  BY <1>2 DEF DInv
<1>5. RunHolds(r)'
  BY <1>3, <1>4 DEF RunHolds
<1>6. /\ \A x \in Runners \ {r} : directory'[x] = directory[x]
      /\ directory' \in [Runners -> [Files -> Contents \union {None}]]
  BY <1>1 DEF DInv, M!TypeOK
<1> QED
  BY <1>2, <1>3, <1>5, <1>6, RunGoesOn DEF Holding

LEMMA CommitFileStep == ASSUME DInv, NEW r \in Runners, M!CommitFile(r) PROVE DInv'
<1>1. PICK f : f = run[r].at
  OBVIOUS
<1>2. PICK row : row = [name |-> f, checksum |-> directory[r][f]]
  OBVIOUS
<1>3. /\ lock = r /\ run[r].step = "applying" /\ run[r] \in RunRows
      /\ f \in M!Named(r) /\ Matched(r) /\ \A other \in M!In(history) : other.name < f
  BY <1>1 DEF DInv, M!TypeOK, RunHolds, M!CommitFile
<1>4. row \in M!Entries /\ row.name = f /\ row.checksum = directory[r][f]
  BY <1>2, <1>3 DEF DInv, M!TypeOK, M!Named, M!Entries
<1>5. /\ history' = Append(history, row) /\ schema' = history'
      /\ run' = [run EXCEPT ![r].step = "checked"]
      /\ UNCHANGED <<directory, lock>>
  BY <1>1, <1>2 DEF M!CommitFile, M!Execute, DInv
<1>6. /\ history' \in Seq(M!Entries)
      /\ M!In(history') = M!In(history) \union {row}
      /\ Len(history') = Len(history) + 1 /\ Len(history) \in Nat
      /\ \A i \in 1 .. Len(history) : history'[i] = history[i]
      /\ history'[Len(history) + 1] = row
  BY <1>4, <1>5, Added DEF DInv
<1>7. M!In(history)' = M!In(history) \union {row}
  BY <1>6 DEF M!In
<1>8. /\ \A x \in Runners \ {r} : run'[x] = run[x]
      /\ run'[r].step = "checked" /\ run'[r].read = run[r].read /\ run'[r].at = f
      /\ run' \in [Runners -> RunRows]
  BY <1>1, <1>3, <1>5 DEF DInv, RunRows, Holding
<1>9. M!TypeOK'
  <2>1. M!In(history)' \subseteq M!Entries
    BY <1>4, <1>7 DEF DInv, M!TypeOK
  <2>2. ASSUME NEW x \in Runners
        PROVE  /\ run'[x].step \in {"new", "locked", "checked", "applying", "ended", "refused",
                                    "failed"}
               /\ run'[x].read \subseteq M!In(history)'
               /\ run'[x].step \in {"locked", "checked", "applying"} <=> lock' = x
    BY <1>3, <1>5, <1>7, <1>8 DEF DInv, M!TypeOK
  <2> QED
    BY <1>5, <2>1, <2>2 DEF DInv, M!TypeOK
<1>10. M!OrderOfNames'
  <2> SUFFICES ASSUME NEW i \in 1 .. Len(history) + 1, NEW j \in 1 .. Len(history) + 1, i < j
               PROVE  history'[i].name < history'[j].name
    BY <1>5, <1>6 DEF M!OrderOfNames
  <2>1. i \in 1 .. Len(history) /\ history'[i] = history[i] /\ history[i] \in M!In(history)
    BY <1>6 DEF DInv, M!In
  <2>2. CASE j = Len(history) + 1
    BY <1>3, <1>4, <1>6, <2>1, <2>2
  <2>3. CASE j # Len(history) + 1
    <3>1. j \in 1 .. Len(history) /\ DOMAIN schema = 1 .. Len(history)
      BY <1>6, <2>3 DEF DInv
    <3>2. schema[i].name < schema[j].name
      BY <2>1, <3>1 DEF DInv, M!OrderOfNames
    <3> QED
      BY <1>6, <2>1, <3>1, <3>2 DEF DInv
  <2> QED
    BY <2>2, <2>3
<1>11. RunHolds(r)'
  <2>1. f \in Nat /\ f \in Files /\ f # None
    BY <1>3, MigrationsAssumption DEF M!Named, M!FileAssumption, M!NoneAssumption
  <2>2. \A other \in M!In(history) : other.name <= f
    <3>1. \A other \in M!In(history) : other.name \in Nat
      BY MigrationsAssumption DEF DInv, M!TypeOK, M!Entries, M!FileAssumption
    <3> QED
      BY <1>3, <2>1, <3>1
  <2>3. Known(r)'
    BY <1>4, <1>7, <1>8, <2>1, <2>2 DEF Known
  <2>4. Matched(r)'
    BY <1>3, <1>4, <1>5, <1>7 DEF Matched, M!Matches
  <2> QED
    BY <1>8, <2>1, <2>3, <2>4 DEF RunHolds
<1>12. ASSUME NEW x \in Runners \ {r} PROVE RunHolds(x)'
  <2>1. run'[x] = run[x] /\ run[x].step \notin {"checked", "applying"}
    BY <1>3, <1>8 DEF DInv, M!TypeOK
  <2> QED
    BY <2>1 DEF DInv, RunHolds
<1> QED
  BY <1>5, <1>6, <1>8, <1>9, <1>10, <1>11, <1>12 DEF DInv

LEMMA MigrationsStep == DInv /\ [M!Next]_MVars => DInv'
<1> SUFFICES ASSUME DInv, [M!Next]_MVars PROVE DInv'
  OBVIOUS
<1>1. ASSUME NEW r \in Runners, M!RefuseAltered(r) \/ M!RefuseOrder(r) \/ M!Finish(r) \/ M!Fail(r)
      PROVE  DInv'
  <2>1. lock = r
    BY <1>1 DEF M!RefuseAltered, M!RefuseOrder, M!Finish, M!Fail, DInv, M!TypeOK
  <2>2. PICK step \in {"ended", "refused", "failed"} : M!End(r, step)
    BY <1>1 DEF M!RefuseAltered, M!RefuseOrder, M!Finish, M!Fail
  <2> QED
    BY <2>1, <2>2, EndStep
<1>2. CASE UNCHANGED MVars
  BY <1>2 DEF MVars, DInv, M!TypeOK, M!In, M!OrderOfNames, RunHolds, Known, Matched, M!Matches,
              M!Named
<1> QED
  BY <1>1, <1>2, LockStep, CheckStep, BeginFileStep, CommitFileStep, AgainStep DEF M!Next

LEMMA MatchedOnly == DInv /\ [M!Next]_MVars => M!NothingOnMismatch
<1> SUFFICES ASSUME DInv, [M!Next]_MVars, NEW r \in Runners, schema' # schema, lock = r
             PROVE  Matched(r)
  BY DEF M!NothingOnMismatch, Matched, M!Matches
<1>1. PICK x \in Runners : M!CommitFile(x)
  BY DEF M!Next, MVars, M!Lock, M!GiveUp, M!Check, M!RefuseAltered, M!BeginFile, M!RefuseOrder,
         M!Finish, M!Fail, M!Again, M!End
<1>2. lock = x /\ Matched(x)
  BY <1>1 DEF M!CommitFile, DInv, M!TypeOK, RunHolds
<1> QED
  BY <1>2

(* For any deployments, files and crashes: what the history says was       *)
(* executed once, in the order of the names (database/migrations.js).      *)
THEOREM Deployed == M!Spec => [](M!TypeOK /\ M!ExecutedOnce /\ M!OrderOfNames)
<1>1. DInv /\ [M!Next]_M!vars => DInv'
  BY MigrationsStep DEF M!vars, MVars
<1> QED
  BY <1>1, MigrationsInit, MigrationsHold, PTL DEF M!Spec

(* A runner whose files differ from the history executes nothing.          *)
THEOREM DeployedMatched == M!Spec => [][M!NothingOnMismatch]_M!vars
<1>1. DInv /\ [M!Next]_M!vars => DInv'
  BY MigrationsStep DEF M!vars, MVars
<1>2. DInv /\ [M!Next]_M!vars => [M!NothingOnMismatch]_M!vars
  BY MatchedOnly DEF M!vars, MVars
<1> QED
  BY <1>1, <1>2, MigrationsInit, PTL DEF M!Spec

-----------------------------------------------------------------------------
(* Configuration.  What was checked is what is exported.                   *)

GInv ==
  /\ env.NODE_ENV \in G!Modes
  /\ env.CORS_ORIGIN \in (SUBSET G!Sites) \union {None}
  /\ env.PAYMENT_PROVIDER \in {None, "demo", "stripe", "cash"}
  /\ role \in {"runtime", "owner", "gone"}
  /\ process \in {"new", "loaded", "checked", "listening", "exited"}
  /\ process \in {"new", "loaded", "exited"} => config = None
  /\ process \in {"loaded", "checked", "listening"} => G!Acceptable
  /\ process \in {"checked", "listening"} => G!Coherent /\ config = G!Exported
  /\ process = "listening" => G!Ready

(* Each environment tried differs from the default in a few values.        *)
EnvironmentOf(e) ==
  /\ {"NODE_ENV", "CORS_ORIGIN", "PAYMENT_PROVIDER"} \subseteq DOMAIN e
  /\ e.CORS_ORIGIN \in (SUBSET G!Sites) \union {None}
  /\ e.PAYMENT_PROVIDER \in {None, "demo", "stripe", "cash"}

LEMMA EnvironmentTyped == ASSUME NEW e \in G!Environments PROVE EnvironmentOf(e)
<1>1. /\ {"NODE_ENV", "CORS_ORIGIN", "PAYMENT_PROVIDER"} \subseteq DOMAIN G!Default
      /\ G!Default.CORS_ORIGIN = None /\ G!Default.PAYMENT_PROVIDER = None
  BY DEF G!Default
<1>2. CASE e \in G!Databases
  <2>1. PICK url \in {None, "mysql://server/base", "postgresql://server/",
                         "postgresql://server/base"},
             secret \in {None, "short", "long"} :
          e = [G!Default EXCEPT !.DATABASE_URL = url, !.JWT_SECRET = secret]
    BY <1>2 DEF G!Databases
  <2> QED
    BY <1>1, <2>1 DEF EnvironmentOf
<1>3. CASE e \in G!Pools
  <2> DEFINE Tried(low, high) == [G!Default EXCEPT !.DB_POOL_MIN = low, !.DB_POOL_MAX = high]
  <2>1. PICK low \in G!Sizes, high \in G!Sizes : e = Tried(low, high)
    <3>1. G!Pools = {Tried(low, high) : low \in G!Sizes, high \in G!Sizes}
      BY DEF G!Pools
    <3> HIDE DEF Tried
    <3> QED
      BY <1>3, <3>1
  <2> QED
    BY <1>1, <2>1 DEF EnvironmentOf
<1>4. CASE e \in G!Websites
  <2>1. PICK url \in {None, G!Hotel, G!Plain, G!Yours, G!Page},
             origins \in {None, {}, {G!Star}, {G!Local}, {G!Plain}, {G!Hotel, G!Yours},
                          {G!Hotel, G!Star}, {G!Page}},
             sent \in {None, "true", "false", "yes"} :
          e = [G!Default EXCEPT !.APP_URL = url, !.CORS_ORIGIN = origins,
                                !.CORS_CREDENTIALS = sent]
    BY <1>4 DEF G!Websites
  <2>2. origins \in (SUBSET G!Sites) \union {None}
    BY DEF G!Sites
  <2> QED
    BY <1>1, <2>1, <2>2 DEF EnvironmentOf
<1>5. CASE e \in G!Gateways
  <2> DEFINE Tried(name, demo, keys) == [G!Default EXCEPT !.PAYMENT_PROVIDER = name,
          !.ALLOW_DEMO_PAYMENTS = demo,
                                         !.STRIPE_KEYS = keys]
  <2>1. PICK name \in {None, "demo", "stripe", "cash"}, demo \in {None, "true", "false"},
            keys \in SUBSET {"secret", "webhook"} : e = Tried(name, demo, keys)
    <3>1. G!Gateways = {Tried(name, demo, keys) : name \in {None, "demo", "stripe", "cash"},
            demo \in {None, "true", "false"},
            keys \in SUBSET {"secret", "webhook"}}
      BY DEF G!Gateways
    <3> HIDE DEF Tried
    <3> QED
      BY <1>5, <3>1
  <2> QED
    BY <1>1, <2>1 DEF EnvironmentOf
<1>6. CASE e \in G!Mailers
  <2> DEFINE Tried(host, from, login) == [G!Default EXCEPT !.SMTP_HOST = host, !.MAIL_FROM = from,
                                         !.SMTP_LOGIN = login]
  <2>1. PICK host \in BOOLEAN, from \in {None, "desk", "desk@hotel.test"},
            login \in SUBSET {"user", "password"} : e = Tried(host, from, login)
    <3>1. G!Mailers = {Tried(host, from, login) : host \in BOOLEAN, from \in {None, "desk",
            "desk@hotel.test"},
            login \in SUBSET {"user", "password"}}
      BY DEF G!Mailers
    <3> HIDE DEF Tried
    <3> QED
      BY <1>6, <3>1
  <2> QED
    BY <1>1, <2>1 DEF EnvironmentOf
<1>7. CASE e \in G!SecondFactors
  <2>1. PICK on \in {None, "true", "false"}, key \in {None, "words", "hex"} :
          e = [G!Default EXCEPT !.MFA_ENABLED = on, !.MFA_ENCRYPTION_KEY = key]
    BY <1>7 DEF G!SecondFactors
  <2> QED
    BY <1>1, <2>1 DEF EnvironmentOf
<1> QED
  BY <1>2, <1>3, <1>4, <1>5, <1>6, <1>7 DEF G!Environments

LEMMA StartInit == G!Init => GInv
<1> SUFFICES ASSUME G!Init PROVE GInv
  OBVIOUS
<1>1. PICK e \in G!Environments, mode \in G!Modes : env = [e EXCEPT !.NODE_ENV = mode]
  BY DEF G!Init
<1>2. /\ env.NODE_ENV = mode /\ env.CORS_ORIGIN = e.CORS_ORIGIN
      /\ env.PAYMENT_PROVIDER = e.PAYMENT_PROVIDER
  BY <1>1, EnvironmentTyped DEF EnvironmentOf
<1> QED
  BY <1>2, EnvironmentTyped DEF G!Init, GInv, EnvironmentOf

LEMMA EnvironmentKept ==
  ASSUME UNCHANGED <<env, role>>
  PROVE  /\ G!Acceptable' <=> G!Acceptable
         /\ G!Coherent' <=> G!Coherent
         /\ G!Ready' <=> G!Ready
         /\ G!Exported' = G!Exported
<1>1. G!Acceptable' <=> G!Acceptable
  BY DEF G!Acceptable, G!RequiredThere, G!DatabaseScheme, G!ModeKnown, G!SecretForProduction,
         G!Production
<1>2. G!PoolMin' = G!PoolMin /\ G!PoolMax' = G!PoolMax /\ G!AppURL' = G!AppURL
      /\ G!Origins' = G!Origins /\ (G!Production' <=> G!Production)
      /\ (G!Development' <=> G!Development)
  BY DEF G!PoolMin, G!PoolMax, G!AppURL, G!Origins, G!Production, G!Development
<1>3. G!Coherent' <=> G!Coherent
  BY <1>2 DEF G!Coherent, G!DatabaseNamed, G!AppRight, G!OriginsRight, G!PaymentsRight,
              G!MailRight, G!PoolRight, G!PoolFits
<1>4. G!Ready' <=> G!Ready
  BY <1>2 DEF G!Ready, G!KeyRight, G!ConnectionRight, G!SecondFactor
<1>5. G!Exported' = G!Exported
  BY <1>2 DEF G!Exported
<1> QED
  BY <1>1, <1>3, <1>4, <1>5

LEMMA StartStep == GInv /\ [G!Next]_GVars => GInv'
<1> SUFFICES ASSUME GInv, [G!Next]_GVars PROVE GInv'
  OBVIOUS
<1>1. UNCHANGED <<env, role>>
  BY DEF G!Next, G!Load, G!CheckSettings, G!Listen, G!Refuse, GVars
<1>2. CASE G!Load
  BY <1>1, <1>2, EnvironmentKept DEF GInv, G!Load
<1>3. CASE G!CheckSettings
  BY <1>1, <1>3, EnvironmentKept DEF GInv, G!CheckSettings
<1>4. CASE G!Listen
  BY <1>1, <1>4, EnvironmentKept DEF GInv, G!Listen
<1>5. CASE G!Refuse
  BY <1>1, <1>5 DEF GInv, G!Refuse
<1>6. CASE UNCHANGED GVars
  BY <1>1, <1>6, EnvironmentKept DEF GInv, GVars
<1> QED
  BY <1>2, <1>3, <1>4, <1>5, <1>6 DEF G!Next

LEMMA StartHolds == GInv => G!TypeOK /\ G!RunsAsConfigured
<1> SUFFICES ASSUME GInv PROVE G!TypeOK /\ G!RunsAsConfigured
  OBVIOUS
<1>1. ASSUME G!Acceptable, G!Coherent
      PROVE  /\ 0 <= G!PoolMin /\ G!PoolMin <= G!PoolMax /\ G!PoolMin \in Int /\ G!PoolMax \in Int
             /\ G!Exported \in G!Configs
  <2>1. /\ 0 <= G!PoolMin /\ G!PoolMin <= G!PoolMax /\ G!PoolMin \in Int /\ G!PoolMax \in Int
    BY <1>1 DEF G!Coherent, G!PoolRight, G!PoolFits, G!Number
  <2>2. G!Or(env.CORS_ORIGIN, {IF G!Development THEN G!Star ELSE G!Yours}) \in SUBSET G!Sites
    BY DEF GInv, G!Or, G!Sites
  <2> QED
    BY <2>1, <2>2 DEF G!Exported, G!Configs
<1>2. G!TypeOK
  BY <1>1 DEF GInv, G!TypeOK
<1>3. ASSUME process = "listening" PROVE G!RunsAsConfigured
  <2>1. G!Acceptable /\ G!Coherent /\ G!Ready /\ config = G!Exported
    BY <1>3 DEF GInv
  <2>2. /\ config.DB_POOL_MIN = G!PoolMin /\ config.DB_POOL_MAX = G!PoolMax
        /\ config.CORS_CREDENTIALS = (env.CORS_CREDENTIALS = "true")
        /\ config.CORS_ORIGIN = G!Or(env.CORS_ORIGIN, {IF G!Development THEN G!Star ELSE G!Yours})
    BY <2>1 DEF G!Exported
  <2>3. ~(G!Production /\ G!Development)
    BY StartAssumption DEF G!Production, G!Development, G!Or, G!NoneAssumption
  <2>4. env.CORS_CREDENTIALS = "true" => G!CredentialsAllowed /\ G!AppURL \in config.CORS_ORIGIN
    BY <2>1, <2>2, <2>3 DEF G!Coherent, G!OriginsRight, G!Origins, G!CredentialsAllowed, G!Or
  <2>5. env.PAYMENT_PROVIDER # None => G!PaymentsEnabled
    BY <2>1 DEF GInv, G!Coherent, G!PaymentsRight, G!PaymentsEnabled, G!DemoPayments
  <2>6. env.SMTP_HOST => G!MailConfigured
    BY <2>1 DEF G!Coherent, G!MailRight, G!MailConfigured
  <2>7. G!SecondFactor => env.MFA_ENCRYPTION_KEY = "hex"
    BY <2>1 DEF G!Ready, G!KeyRight
  <2>8. G!Production => /\ G!Star \notin config.CORS_ORIGIN
                        /\ G!SecureCookies \/ G!AppURL = G!Local
                        /\ role = "runtime"
    BY <2>1, <2>2, <2>3 DEF G!Coherent, G!OriginsRight, G!Origins, G!Or, G!Ready, G!ConnectionRight,
       G!AppRight, G!SecureCookies, G!Star, G!Yours
  <2> QED
    BY <1>1, <2>1, <2>2, <2>4, <2>5, <2>6, <2>7, <2>8 DEF G!RunsAsConfigured
<1> QED
  BY <1>2, <1>3 DEF G!RunsAsConfigured

(* For any numbers tried for the pool: whatever the environment and the    *)
(* account of the database, what listens does what was asked for           *)
(* (environment.js, runtimeSettings.js, server.js).                        *)
THEOREM Started == G!Spec => [](G!TypeOK /\ G!RunsAsConfigured)
<1>1. GInv /\ [G!Next]_G!vars => GInv'
  BY StartStep DEF G!vars, GVars
<1> QED
  BY <1>1, StartInit, StartHolds, PTL DEF G!Spec

(* Both in the composition.                                                *)
THEOREM InOrder == Spec => []DeployedInOrder
<1> DEFINE Inv == (part = "migrations" => DInv) /\ (part = "start" => GInv)
<1>1. Init => Inv
  BY MigrationsInit, StartInit DEF Init, Requests
<1>2. Inv /\ [Next]_all => Inv'
  <2> SUFFICES ASSUME Inv, [Next]_all PROVE Inv'
    OBVIOUS
  <2>1. /\ part' = part
        /\ part = "migrations" => [M!Next]_MVars
        /\ part = "start" => [G!Next]_GVars
    BY DEF Next, all, SOnly, ROnly, OOnly, MOnly, BOnly, COnly, GOnly, Requests
  <2> QED
    BY <2>1, MigrationsStep, StartStep
<1>3. Inv => DeployedInOrder
  BY MigrationsHold, StartHolds DEF DeployedInOrder
<1> QED
  BY <1>1, <1>2, <1>3, PTL DEF Spec

-----------------------------------------------------------------------------
(* Outbox.  A mail that a worker holds is queued and unsent, and was       *)
(* delivered as often as outcomes were lost, once more when the worker     *)
(* knows that it was accepted (HeldOK); so was one that no worker holds,   *)
(* once more when it was recorded as sent (FreeOK).  A redacted mail can   *)
(* be taken only after a retry (MailOK).                                   *)

WorkerRows == [running : BOOLEAN, id : Mails \union {None}, outcome : {None, "accepted", "error"}]

MailOK(m, r) == m # None =>
  /\ m.sent /\ m.kind \in {"reset", "invite"} => m.body # "text"
  /\ m.kind = "reset" /\ m.old => ~m.live
  /\ m.body = "expired" /\ m.attempts < MaxAttempts => r > 0

HeldOK(row, m, c, f, r) ==
  /\ row.running
  /\ m # None /\ ~m.sent /\ m.attempts < MaxAttempts
  /\ m.body = "expired" => r > 0
  /\ IF row.outcome = "accepted" THEN 1 <= c /\ c <= f + 1 ELSE c <= f

FreeOK(m, c, f) == IF m # None /\ m.sent THEN 1 <= c /\ c <= f + 1 ELSE c <= f

OInv ==
  /\ mail \in [Mails -> O!Rows \union {None}]
  /\ worker \in [Workers -> WorkerRows]
  /\ copies \in [Mails -> Nat] /\ faults \in [Mails -> Nat] /\ retries \in [Mails -> Nat]
  /\ \A w \in Workers : worker[w].id = None => worker[w].outcome = None
  /\ \A v, w \in Workers : v # w /\ worker[v].id # None => worker[v].id # worker[w].id
  /\ \A i \in Mails : MailOK(mail[i], retries[i])
  /\ \A i \in Mails, w \in Workers : worker[w].id = i =>
       HeldOK(worker[w], mail[i], copies[i], faults[i], retries[i])
  /\ \A i \in Mails : ~O!Locked(i) => FreeOK(mail[i], copies[i], faults[i])

LEMMA MailHolds == OInv => O!TypeOK /\ O!DuplicatesExplained /\ O!SentMeansDelivered
<1> SUFFICES ASSUME OInv PROVE O!TypeOK /\ O!DuplicatesExplained /\ O!SentMeansDelivered
  OBVIOUS
<1>1. O!TypeOK
  <2>1. ASSUME NEW w \in Workers, worker[w].id # None PROVE worker[w].running
    BY <2>1 DEF OInv, WorkerRows, HeldOK
  <2> QED
    BY <2>1 DEF OInv, O!TypeOK, WorkerRows
<1>2. ASSUME NEW i \in Mails
      PROVE  /\ copies[i] <= 1 + faults[i]
             /\ O!Queued(i) /\ mail[i].sent => copies[i] >= 1
  <2>1. copies[i] \in Nat /\ faults[i] \in Nat
    BY DEF OInv
  <2>2. CASE O!Locked(i)
    BY <2>1, <2>2 DEF OInv, O!Locked, HeldOK
  <2>3. CASE ~O!Locked(i)
    BY <2>1, <2>3 DEF OInv, FreeOK, O!Queued
  <2> QED
    BY <2>2, <2>3
<1>3. O!DuplicatesExplained
  BY <1>2 DEF O!DuplicatesExplained
<1>4. O!SentMeansDelivered
  BY <1>2 DEF OInv, O!SentMeansDelivered, O!Queued, O!IsLink, MailOK
<1> QED
  BY <1>1, <1>3, <1>4

LEMMA MailConstants ==
  /\ MaxAttempts \in Nat /\ 0 \in 0 .. MaxAttempts /\ MaxAttempts \in 0 .. MaxAttempts
  /\ None \notin Mails /\ None \notin O!Rows /\ None \notin {"accepted", "error"}
<1>1. MaxAttempts \in Nat
  BY MailAssumption DEF O!BoundAssumption
<1> QED
  BY <1>1, MailAssumption DEF O!NoneAssumption

LEMMA QuietRow == O!Quiet \in WorkerRows /\ O!Quiet.id = None /\ O!Quiet.outcome = None
BY DEF O!Quiet, WorkerRows

LEMMA MailInit == O!Init => OInv
<1> SUFFICES ASSUME O!Init PROVE OInv
  OBVIOUS
<1>1. \A w \in Workers : worker[w].id \notin Mails
  BY QuietRow, MailAssumption DEF O!Init, O!NoneAssumption
<1> QED
  BY <1>1, QuietRow DEF O!Init, OInv, MailOK, FreeOK

(* A step of one worker that has, takes or gives back the mail i.          *)
LEMMA WorkerWrites ==
  ASSUME OInv, NEW w \in Workers, NEW i \in Mails, NEW row \in WorkerRows,
         NEW m \in O!Rows \union {None}, NEW c \in Nat, NEW f \in Nat,
         worker' = [worker EXCEPT ![w] = row], mail' = [mail EXCEPT ![i] = m],
         copies' = [copies EXCEPT ![i] = c], faults' = [faults EXCEPT ![i] = f],
         retries' = retries,
         row.id \in {i, None}, worker[w].id \in {i, None},
         \A x \in Workers \ {w} : worker[x].id # i,
         row.id = None => row.outcome = None,
         MailOK(m, retries[i]),
         IF row.id = i THEN HeldOK(row, m, c, f, retries[i]) ELSE FreeOK(m, c, f)
  PROVE  OInv'
<1>1. \A x \in Workers : worker'[x] = IF x = w THEN row ELSE worker[x]
  BY DEF OInv
<1>2. \A j \in Mails : /\ mail'[j] = IF j = i THEN m ELSE mail[j]
                       /\ copies'[j] = IF j = i THEN c ELSE copies[j]
                       /\ faults'[j] = IF j = i THEN f ELSE faults[j]
  BY DEF OInv
<1>3. None \notin Mails
  BY MailAssumption DEF O!NoneAssumption
<1>4. /\ mail' \in [Mails -> O!Rows \union {None}] /\ worker' \in [Workers -> WorkerRows]
      /\ copies' \in [Mails -> Nat] /\ faults' \in [Mails -> Nat] /\ retries' \in [Mails -> Nat]
  BY DEF OInv
<1>5. /\ \A x \in Workers : worker'[x].id = None => worker'[x].outcome = None
      /\ \A v, x \in Workers : v # x /\ worker'[v].id # None => worker'[v].id # worker'[x].id
  BY <1>1, <1>3 DEF OInv
<1>6. \A j \in Mails : MailOK(mail'[j], retries'[j])
  BY <1>2 DEF OInv
<1>7. ASSUME NEW j \in Mails, NEW x \in Workers, worker'[x].id = j
      PROVE  HeldOK(worker'[x], mail'[j], copies'[j], faults'[j], retries'[j])
  <2>1. CASE x = w
    BY <1>1, <1>2, <1>3, <1>7, <2>1
  <2>2. CASE x # w
    BY <1>1, <1>2, <1>7, <2>2 DEF OInv
  <2> QED
    BY <2>1, <2>2
<1>8. ASSUME NEW j \in Mails, ~O!Locked(j)' PROVE FreeOK(mail'[j], copies'[j], faults'[j])
  <2>1. CASE j = i
    <3>1. row.id # i
      BY <1>1, <1>8, <2>1 DEF O!Locked
    <3> QED
      BY <1>2, <2>1, <3>1
  <2>2. CASE j # i
    <3>1. ~O!Locked(j)
      BY <1>1, <1>3, <1>8, <2>2 DEF O!Locked
    <3> QED
      BY <1>2, <2>2, <3>1 DEF OInv
  <2> QED
    BY <2>1, <2>2
<1> QED
  BY <1>4, <1>5, <1>6, <1>7, <1>8 DEF OInv

(* A step of a worker that has no mail before it or after it.              *)
LEMMA WorkerIdles ==
  ASSUME OInv, NEW w \in Workers, NEW row \in WorkerRows, worker' = [worker EXCEPT ![w] = row],
         row.id = None, row.outcome = None, worker[w].id = None,
         UNCHANGED <<mail, copies, faults, retries>>
  PROVE  OInv'
<1>1. \A x \in Workers : worker'[x] = IF x = w THEN row ELSE worker[x]
  BY DEF OInv
<1>2. None \notin Mails
  BY MailAssumption DEF O!NoneAssumption
<1>3. \A j \in Mails : O!Locked(j)' <=> O!Locked(j)
  BY <1>1, <1>2 DEF O!Locked
<1>4. \A j \in Mails, x \in Workers : worker'[x].id = j => worker'[x] = worker[x]
  BY <1>1, <1>2
<1> QED
  BY <1>1, <1>3, <1>4 DEF OInv

(* A step that writes the mail i and leaves the workers alone.             *)
LEMMA MailWritten ==
  ASSUME OInv, NEW i \in Mails, NEW m \in O!Rows \union {None}, NEW r \in Nat,
         mail' = [mail EXCEPT ![i] = m], retries' = [retries EXCEPT ![i] = r],
         UNCHANGED <<worker, copies, faults>>,
         MailOK(m, r),
         \A w \in Workers : worker[w].id = i => HeldOK(worker[w], m, copies[i], faults[i], r),
         ~O!Locked(i) => FreeOK(m, copies[i], faults[i])
  PROVE  OInv'
<1>1. \A j \in Mails : /\ mail'[j] = IF j = i THEN m ELSE mail[j]
                       /\ retries'[j] = IF j = i THEN r ELSE retries[j]
  BY DEF OInv
<1>2. \A j \in Mails : O!Locked(j)' <=> O!Locked(j)
  BY DEF O!Locked
<1>3. mail' \in [Mails -> O!Rows \union {None}] /\ retries' \in [Mails -> Nat]
  BY DEF OInv
<1> QED
  BY <1>1, <1>2, <1>3 DEF OInv

LEMMA EnqueueStep == ASSUME OInv, NEW kind \in O!Kinds, O!Enqueue(kind) PROVE OInv'
<1>1. PICK i \in Mails : ~O!Queued(i) /\ mail' = [mail EXCEPT ![i] = O!Row(kind)]
  BY DEF O!Enqueue
<1>2. PICK m : m = O!Row(kind)
  OBVIOUS
<1>3. m \in O!Rows /\ m.body = "text" /\ ~m.sent /\ ~m.old /\ m # None
  <2>1. m \in O!Rows
    BY <1>2, MailConstants DEF O!Row, O!Rows
  <2> QED
    BY <1>2, <2>1, MailConstants DEF O!Row
<1>4. \A w \in Workers : worker[w].id # i
  BY <1>1 DEF OInv, HeldOK, O!Queued
<1>5. FreeOK(mail[i], copies[i], faults[i])
  BY <1>4 DEF OInv, O!Locked
<1>6. FreeOK(m, copies[i], faults[i])
  BY <1>1, <1>3, <1>5 DEF FreeOK, O!Queued
<1>7. MailOK(m, retries[i])
  BY <1>3 DEF MailOK
<1>8. /\ mail' = [mail EXCEPT ![i] = m] /\ retries' = [retries EXCEPT ![i] = retries[i]]
      /\ UNCHANGED <<worker, copies, faults>> /\ retries[i] \in Nat
  BY <1>1, <1>2 DEF O!Enqueue, OInv
<1> QED
  BY <1>3, <1>4, <1>6, <1>7, <1>8, MailWritten

LEMMA IdleSteps ==
  ASSUME OInv, NEW w \in Workers, O!Start(w) \/ O!NothingToSend(w)
  PROVE  OInv'
<1>1. CASE O!Start(w)
  <2>1. worker[w] \in WorkerRows /\ worker[w].id = None /\ worker[w].outcome = None
    <3>1. worker[w].id \in Mails => worker[w].running
      BY DEF OInv, HeldOK
    <3> QED
      BY <1>1, <3>1 DEF O!Start, OInv, WorkerRows
  <2>2. PICK row : row = [worker[w] EXCEPT !.running = TRUE]
    OBVIOUS
  <2>3. row \in WorkerRows /\ row.id = None /\ row.outcome = None
    BY <2>1, <2>2 DEF WorkerRows
  <2> QED
    BY <1>1, <2>1, <2>2, <2>3, WorkerIdles DEF O!Start
<1>2. CASE O!NothingToSend(w)
  BY <1>2, QuietRow, WorkerIdles DEF O!NothingToSend, O!Ended
<1> QED
  BY <1>1, <1>2

LEMMA TakeStep == ASSUME OInv, NEW w \in Workers, O!Take(w) PROVE OInv'
<1>1. PICK i \in O!Candidates(w) : worker' = [worker EXCEPT ![w].id = i]
  BY DEF O!Take
<1>2. /\ i \in Mails /\ O!Sendable(i) /\ ~O!Locked(i)
      /\ worker[w].id = None /\ worker[w].running
      /\ UNCHANGED <<mail, copies, faults, retries>>
  BY <1>1 DEF O!Candidates, O!Take
<1>3. PICK row : row = [worker[w] EXCEPT !.id = i]
  OBVIOUS
<1>4. row \in WorkerRows /\ row.id = i /\ row.outcome = None /\ row.running /\ i # None
  BY <1>2, <1>3, MailAssumption DEF OInv, WorkerRows, O!NoneAssumption
<1>5. PICK m, c, f : m = mail[i] /\ c = copies[i] /\ f = faults[i]
  OBVIOUS
<1>6. /\ FreeOK(m, c, f) /\ MailOK(m, retries[i])
      /\ m \in O!Rows \union {None} /\ c \in Nat /\ f \in Nat
      /\ mail = [mail EXCEPT ![i] = m]
      /\ copies = [copies EXCEPT ![i] = c] /\ faults = [faults EXCEPT ![i] = f]
  BY <1>2, <1>5 DEF OInv
<1>7. HeldOK(row, m, c, f, retries[i])
  BY <1>2, <1>4, <1>5, <1>6, MailAssumption
  DEF FreeOK, MailOK, HeldOK, O!Sendable, O!Queued, O!NoneAssumption
<1>8. /\ worker' = [worker EXCEPT ![w] = row] /\ mail' = [mail EXCEPT ![i] = m]
      /\ copies' = [copies EXCEPT ![i] = c] /\ faults' = [faults EXCEPT ![i] = f]
      /\ \A x \in Workers \ {w} : worker[x].id # i
  BY <1>1, <1>2, <1>3, <1>6 DEF O!Locked
<1>9. /\ retries' = retries /\ row.id \in {i, None} /\ worker[w].id \in {i, None}
      /\ row.id # None
      /\ IF row.id = i THEN HeldOK(row, m, c, f, retries[i]) ELSE FreeOK(m, c, f)
  BY <1>2, <1>4, <1>7
<1>10. m \in O!Rows \union {None} /\ c \in Nat /\ f \in Nat /\ MailOK(m, retries[i])
  BY <1>6
<1>11. i \in Mails /\ row \in WorkerRows /\ (row.id = None => row.outcome = None)
  BY <1>2, <1>4
<1> QED
  BY <1>8, <1>9, <1>10, <1>11, WorkerWrites

(* What a worker knows of the mail it holds.                               *)
LEMMA HeldMail ==
  ASSUME OInv, NEW w \in Workers, worker[w].id # None
  PROVE  \E i \in Mails, m \in O!Rows, c \in Nat, f \in Nat :
         /\ worker[w].id = i /\ worker[w] \in WorkerRows
         /\ m = mail[i] /\ c = copies[i] /\ f = faults[i]
         /\ HeldOK(worker[w], m, c, f, retries[i])
         /\ MailOK(m, retries[i])
         /\ \A x \in Workers \ {w} : worker[x].id # i
         /\ mail = [mail EXCEPT ![i] = m]
         /\ copies = [copies EXCEPT ![i] = c] /\ faults = [faults EXCEPT ![i] = f]
<1>1. PICK i \in Mails : worker[w].id = i
  BY DEF OInv, WorkerRows
<1>2. HeldOK(worker[w], mail[i], copies[i], faults[i], retries[i])
  BY <1>1 DEF OInv
<1>3. PICK m, c, f : m = mail[i] /\ c = copies[i] /\ f = faults[i]
  OBVIOUS
<1>4. m \in O!Rows /\ c \in Nat /\ f \in Nat
  BY <1>2, <1>3 DEF OInv, HeldOK
<1>5. /\ mail = [mail EXCEPT ![i] = m]
      /\ copies = [copies EXCEPT ![i] = c] /\ faults = [faults EXCEPT ![i] = f]
  BY <1>3 DEF OInv
<1> QED
  BY <1>1, <1>2, <1>3, <1>4, <1>5 DEF OInv

LEMMA AnswerSteps ==
  ASSUME OInv, NEW w \in Workers, O!Accepted(w) \/ O!Rejected(w) \/ O!AnswerLost(w)
  PROVE  OInv'
<1>1. worker[w].id # None /\ worker[w].outcome = None /\ UNCHANGED <<mail, retries>>
  BY DEF O!Accepted, O!Rejected, O!AnswerLost
<1>2. PICK i \in Mails, m \in O!Rows, c \in Nat, f \in Nat :
        /\ worker[w].id = i /\ worker[w] \in WorkerRows
        /\ m = mail[i] /\ c = copies[i] /\ f = faults[i]
        /\ HeldOK(worker[w], m, c, f, retries[i])
        /\ MailOK(m, retries[i])
        /\ \A x \in Workers \ {w} : worker[x].id # i
        /\ mail = [mail EXCEPT ![i] = m]
        /\ copies = [copies EXCEPT ![i] = c] /\ faults = [faults EXCEPT ![i] = f]
  BY <1>1, HeldMail
<1>3. c <= f
  BY <1>1, <1>2, MailAssumption DEF HeldOK, O!NoneAssumption
<1>4. PICK d \in Nat, g \in Nat, outcome \in {"accepted", "error"} :
        /\ worker' = [worker EXCEPT ![w].outcome = outcome]
        /\ copies' = [copies EXCEPT ![i] = d] /\ faults' = [faults EXCEPT ![i] = g]
        /\ IF outcome = "accepted" THEN 1 <= d /\ d <= g + 1 ELSE d <= g
  <2>1. CASE O!Accepted(w)
    <3>1. copies' = [copies EXCEPT ![i] = c + 1] /\ faults' = [faults EXCEPT ![i] = f]
      BY <1>2, <2>1 DEF O!Accepted
    <3>2. c + 1 \in Nat /\ 1 <= c + 1 /\ c + 1 <= f + 1
      BY <1>3
    <3> QED
      BY <2>1, <3>1, <3>2 DEF O!Accepted
  <2>2. CASE O!Rejected(w)
    <3>1. PICK g \in {f, f + 1} : faults' = [faults EXCEPT ![i] = g]
      BY <1>2, <2>2 DEF O!Rejected
    <3>2. g \in Nat /\ c <= g
      BY <1>3
    <3>3. copies' = [copies EXCEPT ![i] = c]
      BY <1>2, <2>2 DEF O!Rejected
    <3> QED
      BY <2>2, <3>1, <3>2, <3>3 DEF O!Rejected
  <2>3. CASE O!AnswerLost(w)
    <3>1. copies' = [copies EXCEPT ![i] = c + 1] /\ faults' = [faults EXCEPT ![i] = f + 1]
      BY <1>2, <2>3 DEF O!AnswerLost
    <3>2. c + 1 \in Nat /\ f + 1 \in Nat /\ c + 1 <= f + 1
      BY <1>3
    <3> QED
      BY <2>3, <3>1, <3>2 DEF O!AnswerLost
  <2> QED
    BY <2>1, <2>2, <2>3
<1>5. PICK row : row = [worker[w] EXCEPT !.outcome = outcome]
  OBVIOUS
<1>6. row \in WorkerRows /\ row.id = i /\ row.outcome = outcome /\ row.running = worker[w].running
  BY <1>2, <1>5 DEF WorkerRows
<1>7. HeldOK(row, m, d, g, retries[i])
  BY <1>2, <1>4, <1>6 DEF HeldOK
<1>8. /\ worker' = [worker EXCEPT ![w] = row] /\ mail' = [mail EXCEPT ![i] = m]
      /\ i # None /\ retries' = retries
  BY <1>1, <1>2, <1>4, <1>5
<1> QED
  BY <1>2, <1>4, <1>6, <1>7, <1>8, WorkerWrites

LEMMA RecordStep == ASSUME OInv, NEW w \in Workers, O!Record(w) PROVE OInv'
<1>1. worker[w].id # None /\ UNCHANGED <<copies, faults, retries>> /\ worker[w].outcome # None
  BY DEF O!Record, OInv
<1>2. PICK i \in Mails, m \in O!Rows, c \in Nat, f \in Nat :
        /\ worker[w].id = i /\ worker[w] \in WorkerRows
        /\ m = mail[i] /\ c = copies[i] /\ f = faults[i]
        /\ HeldOK(worker[w], m, c, f, retries[i])
        /\ MailOK(m, retries[i])
        /\ \A x \in Workers \ {w} : worker[x].id # i
        /\ mail = [mail EXCEPT ![i] = m]
        /\ copies = [copies EXCEPT ![i] = c] /\ faults = [faults EXCEPT ![i] = f]
  BY <1>1, HeldMail
<1>3. PICK n : n = IF worker[w].outcome = "accepted" THEN O!MarkSent(i) ELSE O!MarkFailed(i)
  OBVIOUS
<1>4. mail' = [mail EXCEPT ![i] = n]
  BY <1>2, <1>3 DEF O!Record
<1>5. PICK row : row = [worker[w] EXCEPT !.id = None, !.outcome = None]
  OBVIOUS
<1>6. row \in WorkerRows /\ row.id = None /\ row.outcome = None
  BY <1>2, <1>5 DEF WorkerRows
<1>7. worker' = [worker EXCEPT ![w] = row]
  BY <1>2, <1>5 DEF O!Record, OInv
<1>8. /\ n \in O!Rows
      /\ FreeOK(n, c, f)
      /\ MailOK(n, retries[i])
  <2>1. CASE worker[w].outcome = "accepted"
    <3>1. n = [m EXCEPT !.sent = TRUE, !.body = IF O!IsLink(i) THEN "sent" ELSE m.body]
      BY <1>2, <1>3, <2>1 DEF O!MarkSent
    <3>2. PICK body \in {"text", "sent", "expired"} :
            body = IF O!IsLink(i) THEN "sent" ELSE m.body
      BY <1>2 DEF O!Rows
    <3>3. /\ n \in O!Rows /\ n.sent /\ n.body = body
          /\ n.kind = m.kind /\ n.old = m.old /\ n.live = m.live /\ n.attempts = m.attempts
      BY <1>2, <3>1, <3>2 DEF O!Rows
    <3>4. n # None
      BY <3>3, MailAssumption DEF O!NoneAssumption
    <3>5. FreeOK(n, c, f)
      BY <1>2, <2>1, <3>3, <3>4 DEF FreeOK, HeldOK
    <3>6. MailOK(n, retries[i])
      BY <1>2, <3>2, <3>3 DEF MailOK, HeldOK, O!IsLink
    <3> QED
      BY <3>3, <3>5, <3>6
  <2>2. CASE worker[w].outcome # "accepted"
    <3>1. n = [m EXCEPT !.attempts = m.attempts + 1, !.due = FALSE]
      BY <1>2, <1>3, <2>2 DEF O!MarkFailed
    <3>2. m.attempts + 1 \in 0 .. MaxAttempts
      BY <1>2, MailAssumption DEF HeldOK, O!Rows, O!BoundAssumption
    <3>3. /\ n \in O!Rows /\ n.sent = m.sent /\ n.body = m.body
          /\ n.kind = m.kind /\ n.old = m.old /\ n.live = m.live
      BY <1>2, <3>1, <3>2 DEF O!Rows
    <3>4. FreeOK(n, c, f)
      BY <1>2, <2>2, <3>3 DEF FreeOK, HeldOK
    <3>5. MailOK(n, retries[i])
      BY <1>2, <3>3 DEF MailOK, HeldOK
    <3> QED
      BY <3>3, <3>4, <3>5
  <2> QED
    BY <2>1, <2>2
<1>9. /\ copies' = [copies EXCEPT ![i] = c] /\ faults' = [faults EXCEPT ![i] = f]
      /\ retries' = retries /\ n \in O!Rows \union {None}
      /\ row.id \in {i, None} /\ worker[w].id \in {i, None}
      /\ IF row.id = i THEN HeldOK(row, n, c, f, retries[i]) ELSE FreeOK(n, c, f)
  BY <1>1, <1>2, <1>6, <1>8, MailConstants
<1> QED
  BY <1>2, <1>4, <1>6, <1>7, <1>8, <1>9, WorkerWrites

LEMMA DropSteps ==
  ASSUME OInv, NEW w \in Workers, O!Rollback(w) \/ O!Crash(w)
  PROVE  OInv'
<1>1. /\ worker[w].id # None /\ UNCHANGED <<mail, copies, retries>>
      /\ worker' = [worker EXCEPT ![w] = O!Quiet]
  BY DEF O!Rollback, O!Crash, O!Ended
<1>2. PICK i \in Mails, m \in O!Rows, c \in Nat, f \in Nat :
        /\ worker[w].id = i /\ worker[w] \in WorkerRows
        /\ m = mail[i] /\ c = copies[i] /\ f = faults[i]
        /\ HeldOK(worker[w], m, c, f, retries[i])
        /\ MailOK(m, retries[i])
        /\ \A x \in Workers \ {w} : worker[x].id # i
        /\ mail = [mail EXCEPT ![i] = m]
        /\ copies = [copies EXCEPT ![i] = c] /\ faults = [faults EXCEPT ![i] = f]
  BY <1>1, HeldMail
<1>3. PICK g \in Nat : g = f + 1 /\ faults' = [faults EXCEPT ![i] = g]
  BY <1>2 DEF O!Rollback, O!Crash
<1>4. FreeOK(m, c, g)
  BY <1>2, <1>3 DEF HeldOK, FreeOK
<1>5. PICK row : row = O!Quiet
  OBVIOUS
<1>6. /\ row \in WorkerRows /\ row.id = None /\ row.outcome = None
      /\ worker' = [worker EXCEPT ![w] = row]
  BY <1>1, <1>5, QuietRow
<1>7. /\ mail' = [mail EXCEPT ![i] = m] /\ copies' = [copies EXCEPT ![i] = c]
      /\ retries' = retries /\ m \in O!Rows \union {None}
      /\ row.id \in {i, None} /\ worker[w].id \in {i, None}
      /\ IF row.id = i THEN HeldOK(row, m, c, g, retries[i]) ELSE FreeOK(m, c, g)
  BY <1>1, <1>2, <1>4, <1>6, MailConstants
<1>8. /\ MailOK(m, retries[i]) /\ (row.id = None => row.outcome = None)
      /\ i \in Mails /\ row \in WorkerRows /\ c \in Nat /\ g \in Nat
      /\ worker' = [worker EXCEPT ![w] = row] /\ faults' = [faults EXCEPT ![i] = g]
      /\ \A x \in Workers \ {w} : worker[x].id # i
  BY <1>2, <1>3, <1>6
<1> QED
  BY <1>7, <1>8, WorkerWrites

(* The steps that change the row of a mail and no worker.                  *)
LEMMA RowChanges ==
  ASSUME OInv, NEW i \in Mails, mail[i] # None, NEW m \in O!Rows, NEW r \in Nat,
         mail' = [mail EXCEPT ![i] = m], retries' = [retries EXCEPT ![i] = r],
         UNCHANGED <<worker, copies, faults>>,
         m.sent = mail[i].sent, MailOK(m, r), r >= retries[i],
         O!Locked(i) => m.body = mail[i].body /\ m.attempts = mail[i].attempts
  PROVE  OInv'
<1>1. m # None
  BY MailAssumption DEF O!NoneAssumption
<1>2. ASSUME NEW w \in Workers, worker[w].id = i
      PROVE  HeldOK(worker[w], m, copies[i], faults[i], r)
  <2>1. HeldOK(worker[w], mail[i], copies[i], faults[i], retries[i]) /\ O!Locked(i)
    BY <1>2 DEF OInv, O!Locked
  <2>2. retries[i] \in Nat
    BY DEF OInv
  <2> QED
    BY <1>1, <2>1, <2>2 DEF HeldOK
<1>3. ~O!Locked(i) => FreeOK(m, copies[i], faults[i])
  BY <1>1 DEF OInv, FreeOK
<1> QED
  BY <1>2, <1>3, MailWritten

LEMMA MailSteps ==
  ASSUME OInv, NEW i \in Mails,
         O!BecomeDue(i) \/ O!Retry(i) \/ O!LinkEnds(i) \/ O!GrowOld(i) \/ O!Retain(i)
  PROVE  OInv'
<1>1. PICK was : was = mail[i]
  OBVIOUS
<1>2. /\ was \in O!Rows /\ was # None /\ MailOK(was, retries[i]) /\ retries[i] \in Nat
      /\ retries = [retries EXCEPT ![i] = retries[i]]
  <2>1. mail[i] # None
    BY DEF O!BecomeDue, O!Retry, O!LinkEnds, O!GrowOld, O!Retain, O!Expired, O!Queued
  <2> QED
    BY <1>1, <2>1 DEF OInv
<1>0. PICK s \in Nat : s = retries[i]
  BY <1>2
<1>3. CASE O!BecomeDue(i)
  <2>1. PICK m : m = [was EXCEPT !.due = TRUE]
    OBVIOUS
  <2>2. m \in O!Rows /\ m.sent = was.sent /\ m.body = was.body /\ m.attempts = was.attempts
        /\ m.kind = was.kind /\ m.old = was.old /\ m.live = was.live
    BY <1>2, <2>1 DEF O!Rows
  <2>3. MailOK(m, s) /\ s >= retries[i]
    BY <1>0, <1>2, <2>2 DEF MailOK
  <2>4. /\ mail' = [mail EXCEPT ![i] = m] /\ retries' = [retries EXCEPT ![i] = s]
        /\ UNCHANGED <<worker, copies, faults>>
    BY <1>0, <1>1, <1>2, <1>3, <2>1 DEF O!BecomeDue
  <2> QED
    BY <1>1, <1>2, <2>2, <2>3, <2>4, RowChanges
<1>4. CASE O!Retry(i)
  <2>1. PICK m : m = [was EXCEPT !.attempts = 0, !.due = TRUE]
    OBVIOUS
  <2>2. m \in O!Rows /\ m.sent = was.sent /\ m.body = was.body
        /\ m.kind = was.kind /\ m.old = was.old /\ m.live = was.live
    BY <1>2, <2>1, MailConstants DEF O!Rows
  <2>3. PICK r : r = retries[i] + 1
    OBVIOUS
  <2>4. r \in Nat /\ r > 0 /\ r >= retries[i]
    BY <1>2, <2>3
  <2>5. MailOK(m, r)
    BY <1>2, <2>2, <2>4 DEF MailOK
  <2>6. /\ mail' = [mail EXCEPT ![i] = m] /\ retries' = [retries EXCEPT ![i] = r]
        /\ UNCHANGED <<worker, copies, faults>> /\ ~O!Locked(i)
    BY <1>1, <1>4, <2>1, <2>3 DEF O!Retry, OInv
  <2> QED
    BY <1>1, <1>2, <2>2, <2>4, <2>5, <2>6, RowChanges
<1>5. CASE O!LinkEnds(i)
  <2>1. PICK m : m = [was EXCEPT !.live = FALSE]
    OBVIOUS
  <2>2. m \in O!Rows /\ m.sent = was.sent /\ m.body = was.body /\ m.attempts = was.attempts
        /\ m.kind = was.kind /\ m.old = was.old /\ ~m.live
    BY <1>2, <2>1 DEF O!Rows
  <2>3. MailOK(m, s) /\ s >= retries[i]
    BY <1>0, <1>2, <2>2 DEF MailOK
  <2>4. /\ mail' = [mail EXCEPT ![i] = m] /\ retries' = [retries EXCEPT ![i] = s]
        /\ UNCHANGED <<worker, copies, faults>>
    BY <1>0, <1>1, <1>2, <1>5, <2>1 DEF O!LinkEnds
  <2> QED
    BY <1>1, <1>2, <2>2, <2>3, <2>4, RowChanges
<1>6. CASE O!GrowOld(i)
  <2>1. PICK m : m = [was EXCEPT !.old = TRUE]
    OBVIOUS
  <2>2. m \in O!Rows /\ m.sent = was.sent /\ m.body = was.body /\ m.attempts = was.attempts
        /\ m.kind = was.kind /\ m.live = was.live
    BY <1>2, <2>1 DEF O!Rows
  <2>3. MailOK(m, s) /\ s >= retries[i]
    BY <1>0, <1>1, <1>2, <1>6, <2>2 DEF MailOK, O!GrowOld
  <2>4. /\ mail' = [mail EXCEPT ![i] = m] /\ retries' = [retries EXCEPT ![i] = s]
        /\ UNCHANGED <<worker, copies, faults>>
    BY <1>0, <1>1, <1>2, <1>6, <2>1 DEF O!GrowOld
  <2> QED
    BY <1>1, <1>2, <2>2, <2>3, <2>4, RowChanges
<1>7. CASE O!Retain(i)
  <2>1. PICK m : m = [was EXCEPT !.body = "expired", !.attempts = MaxAttempts]
    OBVIOUS
  <2>2. m \in O!Rows /\ m.sent = was.sent /\ m.body = "expired" /\ m.attempts = MaxAttempts
        /\ m.kind = was.kind /\ m.live = was.live /\ m.old = was.old
    BY <1>2, <2>1, MailConstants DEF O!Rows
  <2>3. MailOK(m, s) /\ s >= retries[i]
    BY <1>0, <1>2, <2>2, MailConstants DEF MailOK
  <2>4. /\ mail' = [mail EXCEPT ![i] = m] /\ retries' = [retries EXCEPT ![i] = s]
        /\ UNCHANGED <<worker, copies, faults>> /\ ~O!Locked(i)
    BY <1>0, <1>1, <1>2, <1>7, <2>1 DEF O!Retain, O!Redacted
  <2> QED
    BY <1>1, <1>2, <2>2, <2>3, <2>4, RowChanges
<1> QED
  BY <1>3, <1>4, <1>5, <1>6, <1>7

LEMMA MailStep == OInv /\ [O!Next]_OVars => OInv'
<1> SUFFICES ASSUME OInv, [O!Next]_OVars PROVE OInv'
  OBVIOUS
<1>1. CASE UNCHANGED OVars
  <2>1. \A i \in Mails : O!Locked(i)' <=> O!Locked(i)
    BY <1>1 DEF O!Locked, OVars
  <2> QED
    BY <1>1, <2>1 DEF OInv, OVars
<1> QED
  BY <1>1, EnqueueStep, IdleSteps, TakeStep, AnswerSteps, RecordStep, DropSteps, MailSteps
  DEF O!Next, O!Deliver
LEMMA MailRedacted == OInv /\ [O!Next]_OVars => O!RedactedStays
<1> SUFFICES ASSUME OInv, [O!Next]_OVars, NEW i \in Mails, O!Queued(i)
             PROVE  /\ mail[i].body = "text" /\ mail'[i].body = "expired" =>
                         ~O!Locked(i) /\ ~mail[i].live
                    /\ copies'[i] > copies[i] /\ mail[i].body = "expired" => retries[i] > 0
  BY DEF O!RedactedStays
<1>1. mail[i] \in O!Rows /\ copies[i] \in Nat /\ MailOK(mail[i], retries[i])
  BY DEF OInv, O!Queued
<1>2. CASE mail'[i] = mail[i] /\ copies'[i] = copies[i]
  BY <1>1, <1>2
<1>3. CASE UNCHANGED OVars
  BY <1>2, <1>3 DEF OVars
<1>4. CASE \E kind \in O!Kinds : O!Enqueue(kind)
  <2>1. mail'[i] = mail[i] /\ copies'[i] = copies[i]
    BY <1>4 DEF O!Enqueue, O!Queued, OInv
  <2> QED
    BY <1>2, <2>1
<1>5. CASE \E w \in Workers : O!Start(w) \/ O!Take(w) \/ O!NothingToSend(w) \/ O!Rejected(w)
                             \/ O!Rollback(w) \/ O!Crash(w)
  BY <1>2, <1>5
  DEF O!Start, O!Take, O!NothingToSend, O!Rejected, O!Rollback, O!Crash
<1>6. ASSUME NEW w \in Workers, O!Accepted(w) \/ O!AnswerLost(w)
      PROVE  mail'[i] = mail[i] /\ (mail[i].body = "expired" /\ copies'[i] > copies[i] =>
               retries[i] > 0)
  <2>1. mail' = mail /\ copies' = [copies EXCEPT ![worker[w].id] = @ + 1]
    BY <1>6 DEF O!Accepted, O!AnswerLost
  <2>2. CASE worker[w].id = i
    BY <2>1, <2>2 DEF OInv, HeldOK
  <2>3. CASE worker[w].id # i
    BY <1>1, <2>1, <2>3 DEF OInv
  <2> QED
    BY <2>1, <2>2, <2>3
<1>7. ASSUME NEW w \in Workers, O!Record(w)
      PROVE  copies' = copies /\ (mail[i].body = "text" => mail'[i].body # "expired")
  <2>1. CASE worker[w].id = i
    <3>1. \/ mail'[i] = [mail[i] EXCEPT !.sent = TRUE,
                                       !.body = IF O!IsLink(i) THEN "sent" ELSE @]
          \/ mail'[i] = [mail[i] EXCEPT !.attempts = @ + 1, !.due = FALSE]
      BY <1>7, <2>1 DEF O!Record, OInv, O!MarkSent, O!MarkFailed
    <3>2. mail'[i].body \in {"sent", mail[i].body}
      BY <1>1, <3>1 DEF O!Rows
    <3> QED
      BY <1>7, <3>2 DEF O!Record
  <2>2. CASE worker[w].id # i
    BY <1>7, <2>2 DEF O!Record, OInv
  <2> QED
    BY <2>1, <2>2
<1>8. ASSUME NEW j \in Mails, O!BecomeDue(j) \/ O!Retry(j) \/ O!LinkEnds(j) \/ O!GrowOld(j)
      PROVE  copies' = copies /\ mail'[i].body = mail[i].body
  BY <1>1, <1>8 DEF O!BecomeDue, O!Retry, O!LinkEnds, O!GrowOld, OInv, O!Rows
<1>9. ASSUME NEW j \in Mails, O!Retain(j)
      PROVE  copies' = copies /\ (mail'[i] = mail[i] \/ (~O!Locked(i) /\ ~mail[i].live))
  <2>1. CASE j = i
    BY <1>1, <1>9, <2>1 DEF O!Retain, O!Expired, O!IsLink, O!Queued, MailOK
  <2>2. CASE j # i
    BY <1>9, <2>2 DEF O!Retain, OInv
  <2> QED
    BY <1>9, <2>1, <2>2 DEF O!Retain
<1> QED
  BY <1>1, <1>3, <1>4, <1>5, <1>6, <1>7, <1>8, <1>9 DEF O!Next, O!Deliver

(* For any mails, workers, attempts and faults: a mail is delivered twice  *)
(* only if an outcome was lost, what is recorded as sent was delivered,    *)
(* and no link outlives its delivery (processQueue).                       *)
THEOREM Delivered == O!Spec => [](O!TypeOK /\ O!DuplicatesExplained /\ O!SentMeansDelivered)
<1>1. OInv /\ [O!Next]_O!vars => OInv'
  BY MailStep DEF O!vars, OVars
<1> QED
  BY <1>1, MailInit, MailHolds, PTL DEF O!Spec

(* Retention redacts no mail that is being sent and no invitation that can *)
(* still be accepted, and what it redacted is delivered only after an      *)
(* administrator's retry (securityRetentionService.js).                    *)
THEOREM Redactions == O!Spec => [][O!RedactedStays]_O!vars
<1>1. OInv /\ [O!Next]_O!vars => OInv'
  BY MailStep DEF O!vars, OVars
<1>2. OInv /\ [O!Next]_O!vars => [O!RedactedStays]_O!vars
  BY MailRedacted DEF O!vars, OVars
<1> QED
  BY <1>1, <1>2, MailInit, PTL DEF O!Spec

(* The same in the composition.                                            *)
THEOREM Mail == Spec => []MailExplained
<1> DEFINE Inv == part = "mail" => OInv
<1>1. Init => Inv
  BY MailInit DEF Init, Requests
<1>2. Inv /\ [Next]_all => Inv'
  <2> SUFFICES ASSUME Inv, [Next]_all PROVE Inv'
    OBVIOUS
  <2>1. part' = part /\ (part = "mail" => [O!Next]_OVars)
    BY DEF Next, all, SOnly, ROnly, OOnly, MOnly, BOnly, COnly, GOnly, Requests
  <2> QED
    BY <2>1, MailStep
<1>3. Inv => MailExplained
  BY MailHolds DEF MailExplained
<1> QED
  BY <1>1, <1>2, <1>3, PTL DEF Spec

-----------------------------------------------------------------------------
(* Backups.  Where the set of the run under way is, phase by phase; from   *)
(* "status" on latest.json names it, so that the old sets that are removed *)
(* are never the one it names.                                             *)

Early == {"dump", "publish"}
Late == {"status", "prune"}
Copying == {"copy", "verify"}

(* r is the run, d and e the states of its local and its external set.     *)
PhaseOK(r, d, e) ==
  /\ IF r.phase \in Early THEN d = "partial" /\ e = "none" ELSE d = "set"
  /\ r.phase = "copy" => e = "none"
  /\ r.phase = "verify" => e = "partial"
  /\ r.phase \in {"latest"} \union Late => IF Offsite THEN e = "set" ELSE e = "none"
  /\ r.phase \in Copying => Offsite

States == {"none", "partial", "set"}

BInv ==
  /\ disk \in [B!Runs -> States] /\ remote \in [B!Runs -> States]
  /\ damaged \subseteq B!Places \X B!Runs /\ old \subseteq B!Runs /\ scratch \subseteq B!Runs
  /\ latest \in B!Names \union {None}
  /\ status \in {None, "ok", "failed"}
  /\ flock \in Shells \union {None} /\ attempt \in B!Attempts \union {None}
  /\ flock = None <=> attempt = None
  /\ \A i \in B!Runs : remote[i] = "set" => disk[i] # "partial"
  /\ attempt # None => PhaseOK(attempt, disk[attempt.id], remote[attempt.id])
  /\ attempt # None /\ attempt.phase \in Late =>
       latest # None /\ latest.run = attempt.id
  /\ latest # None => disk[latest.run] = "set" /\ (latest.offsite => remote[latest.run] = "set")

LEMMA BackupsHold == BInv => B!TypeOK /\ B!LatestIsThere
BY DEF BInv, B!TypeOK, B!LatestIsThere, States

LEMMA BackupsInit == B!Init => BInv
BY DEF B!Init, BInv, States

LEMMA BackupConstants ==
  Offsite \in BOOLEAN /\ None \notin Shells /\ None \notin B!Names /\ None \notin B!Attempts
BY BackupsAssumption DEF B!OffsiteAssumption, B!NoneAssumption

(* The run goes on to another phase.                                       *)
LEMMA PhaseStep ==
  ASSUME BInv, NEW phase \in B!Phases, attempt # None, B!To(phase)
  PROVE  /\ attempt' \in B!Attempts /\ attempt' # None
         /\ attempt'.id = attempt.id /\ attempt'.phase = phase /\ attempt.id \in B!Runs
<1>1. PICK r \in B!Attempts : r = attempt
  BY DEF BInv
<1>2. attempt' = [r EXCEPT !.phase = phase] /\ r.id \in B!Runs
  BY <1>1 DEF B!To, B!Attempts
<1>3. attempt' \in B!Attempts /\ attempt'.id = r.id /\ attempt'.phase = phase
  BY <1>2 DEF B!Attempts
<1> QED
  BY <1>1, <1>2, <1>3, BackupConstants

LEMMA BeginStep == ASSUME BInv, NEW s \in Shells, B!Begin(s) PROVE BInv'
<1>1. PICK i : i = CHOOSE x \in B!Unused : \A y \in B!Unused : x <= y
  OBVIOUS
<1>2. i \in B!Unused
  <2>1. B!Unused \subseteq Nat /\ B!Unused # {}
    BY BackupsAssumption DEF B!Begin, B!Unused, B!Runs, B!BoundAssumption
  <2>2. \E x \in B!Unused : \A y \in B!Unused : x <= y
    BY <2>1, LeastOf
  <2> QED
    BY <1>1, <2>2
<1>3. i \in B!Runs /\ disk[i] = "none" /\ remote[i] = "none"
  BY <1>2 DEF B!Unused
<1>4. PICK r : r = [id |-> i, phase |-> "dump"]
  OBVIOUS
<1>5. r \in B!Attempts /\ r.id = i /\ r.phase = "dump" /\ r # None
  BY <1>3, <1>4, BackupConstants DEF B!Attempts, B!Phases
<1>6. /\ attempt' = r /\ disk' = [disk EXCEPT ![i] = "partial"]
      /\ scratch' = scratch \union {i} /\ flock' = s
      /\ UNCHANGED <<remote, damaged, old, latest, status>>
  BY <1>1, <1>4 DEF B!Begin
<1>7. /\ disk' \in [B!Runs -> States] /\ disk'[i] = "partial"
      /\ \A j \in B!Runs \ {i} : disk'[j] = disk[j]
  BY <1>3, <1>6 DEF BInv, States
<1>8. PhaseOK(attempt', disk'[attempt'.id], remote'[attempt'.id])
  BY <1>3, <1>5, <1>6, <1>7 DEF PhaseOK, Early, Late, Copying
<1>9. latest # None => latest.run \in B!Runs /\ latest.run # i
  BY <1>3 DEF BInv, B!Names
<1>10. attempt'.phase \notin Late
  BY <1>5, <1>6 DEF Late
<1> QED
  BY <1>3, <1>5, <1>6, <1>7, <1>8, <1>9, <1>10, BackupConstants DEF BInv

(* The steps of the run up to its last phase.                              *)
LEMMA RunSteps ==
  ASSUME BInv, B!Verify \/ B!Publish \/ B!Copy \/ B!PublishCopy \/ B!WriteLatest \/ B!WriteStatus
  PROVE  BInv'
<1>1. PICK i \in B!Runs : attempt # None /\ i = attempt.id
  BY DEF BInv, B!Attempts, B!Verify, B!Publish, B!Copy, B!PublishCopy, B!WriteLatest,
     B!WriteStatus, B!In
<1>2. PhaseOK(attempt, disk[i], remote[i]) /\ flock' = flock /\ flock # None
  BY <1>1 DEF BInv, B!Verify, B!Publish, B!Copy, B!PublishCopy, B!WriteLatest, B!WriteStatus
<1>3. CASE B!Verify
  <2>1. attempt' \in B!Attempts /\ attempt' # None /\ attempt'.id = i /\ attempt'.phase = "publish"
    BY <1>1, <1>3, PhaseStep DEF B!Verify, B!Phases
  <2>2. PhaseOK(attempt', disk'[i], remote'[i])
    BY <1>2, <1>3, <2>1 DEF PhaseOK, Early, Late, Copying, B!Verify, B!In
  <2> QED
    BY <1>2, <1>3, <2>1, <2>2 DEF BInv, B!Verify, Late
<1>4. CASE B!Publish
  <2>1. /\ attempt' \in B!Attempts /\ attempt' # None /\ attempt'.id = i
        /\ attempt'.phase = IF Offsite THEN "copy" ELSE "latest"
    BY <1>1, <1>4, PhaseStep DEF B!Publish, B!Phases
  <2>2. /\ disk' = [disk EXCEPT ![i] = "set"] /\ remote' = remote
        /\ remote[i] = "none" /\ disk[i] = "partial"
    BY <1>1, <1>2, <1>4 DEF B!Publish, PhaseOK, Early, B!In
  <2>3. PhaseOK(attempt', disk'[i], remote'[i])
    BY <2>1, <2>2, BackupConstants DEF BInv, PhaseOK, Early, Late, Copying
  <2> QED
    BY <1>2, <1>4, <2>1, <2>2, <2>3 DEF BInv, B!Publish, Late, States, B!Names
<1>5. CASE B!Copy
  <2>1. attempt' \in B!Attempts /\ attempt' # None /\ attempt'.id = i /\ attempt'.phase = "verify"
    BY <1>1, <1>5, PhaseStep DEF B!Copy, B!Phases
  <2>2. /\ remote' = [remote EXCEPT ![i] = "partial"] /\ disk' = disk
        /\ remote[i] = "none" /\ disk[i] = "set" /\ Offsite
    BY <1>1, <1>2, <1>5 DEF B!Copy, PhaseOK, Early, Copying, B!In
  <2>3. PhaseOK(attempt', disk'[i], remote'[i])
    BY <2>1, <2>2 DEF BInv, PhaseOK, Early, Late, Copying
  <2>4. damaged' \subseteq B!Places \X B!Runs
    BY <1>1, <1>5 DEF BInv, B!Copy, B!Places
  <2> QED
    BY <1>2, <1>5, <2>1, <2>2, <2>3, <2>4 DEF BInv, B!Copy, Late, States, B!Names
<1>6. CASE B!PublishCopy
  <2>1. attempt' \in B!Attempts /\ attempt' # None /\ attempt'.id = i /\ attempt'.phase = "latest"
    BY <1>1, <1>6, PhaseStep DEF B!PublishCopy, B!Phases
  <2>2. /\ remote' = [remote EXCEPT ![i] = "set"] /\ disk' = disk
        /\ remote[i] = "partial" /\ disk[i] = "set" /\ Offsite
    BY <1>1, <1>2, <1>6 DEF B!PublishCopy, PhaseOK, Early, Copying, B!In
  <2>3. PhaseOK(attempt', disk'[i], remote'[i])
    BY <2>1, <2>2 DEF BInv, PhaseOK, Early, Late, Copying
  <2> QED
    BY <1>2, <1>6, <2>1, <2>2, <2>3 DEF BInv, B!PublishCopy, Late, States, B!Names
<1>7. CASE B!WriteLatest
  <2>1. attempt' \in B!Attempts /\ attempt' # None /\ attempt'.id = i /\ attempt'.phase = "status"
    BY <1>1, <1>7, PhaseStep DEF B!WriteLatest, B!Phases
  <2>2. PICK name : name = [run |-> i, offsite |-> Offsite]
    OBVIOUS
  <2>3. /\ latest' = name /\ name \in B!Names /\ name # None /\ name.run = i
        /\ name.offsite = Offsite
    BY <1>1, <1>7, <2>2, BackupConstants DEF B!WriteLatest, B!Names
  <2>4. PhaseOK(attempt', disk'[i], remote'[i]) /\ disk[i] = "set" /\ (Offsite => remote[i] = "set")
    BY <1>2, <1>7, <2>1 DEF PhaseOK, Early, Late, Copying, B!WriteLatest, B!In
  <2> QED
    BY <1>2, <1>7, <2>1, <2>3, <2>4 DEF BInv, B!WriteLatest
<1>8. CASE B!WriteStatus
  <2>1. attempt' \in B!Attempts /\ attempt' # None /\ attempt'.id = i /\ attempt'.phase = "prune"
    BY <1>1, <1>8, PhaseStep DEF B!WriteStatus, B!Phases
  <2>2. PhaseOK(attempt', disk'[i], remote'[i]) /\ attempt.phase \in Late
    BY <1>2, <1>8, <2>1 DEF PhaseOK, Early, Late, Copying, B!WriteStatus, B!In
  <2> QED
    BY <1>1, <1>2, <1>8, <2>1, <2>2 DEF BInv, B!WriteStatus
<1> QED
  BY <1>3, <1>4, <1>5, <1>6, <1>7, <1>8

(* Pruning removes old sets, and never the one of the run under way, which *)
(* latest.json names by then.                                              *)
LEMMA PruneSteps == ASSUME BInv, B!PruneLocal \/ B!PruneRemote PROVE BInv'
<1>1. /\ attempt # None /\ attempt.phase = "prune" /\ attempt.id \in B!Runs
      /\ latest # None /\ latest.run = attempt.id
  BY DEF BInv, B!PruneLocal, B!PruneRemote, B!MayPrune, B!In, B!Attempts, Late
<1>2. CASE B!PruneLocal
  <2>1. PICK i \in B!Runs : /\ i # attempt.id /\ disk[i] = "set"
                           /\ disk' = [disk EXCEPT ![i] = "none"]
    BY <1>2 DEF B!PruneLocal, B!Candidates, BInv
  <2>2. /\ disk' \in [B!Runs -> States] /\ disk'[i] = "none"
        /\ \A j \in B!Runs \ {i} : disk'[j] = disk[j]
    BY <2>1 DEF BInv, States
  <2> QED
    BY <1>1, <1>2, <2>1, <2>2 DEF BInv, B!PruneLocal
<1>3. CASE B!PruneRemote
  <2>1. PICK i \in B!Runs : /\ i # attempt.id /\ remote[i] = "set"
                           /\ remote' = [remote EXCEPT ![i] = "none"]
    BY <1>3 DEF B!PruneRemote, B!Candidates, BInv
  <2>2. /\ remote' \in [B!Runs -> States] /\ remote'[i] = "none"
        /\ \A j \in B!Runs \ {i} : remote'[j] = remote[j]
    BY <2>1 DEF BInv, States
  <2> QED
    BY <1>1, <1>3, <2>1, <2>2 DEF BInv, B!PruneRemote
<1> QED
  BY <1>2, <1>3

LEMMA CleanedUp ==
  ASSUME BInv, attempt # None, NEW s \in {None, "ok", "failed"}, B!Cleanup(s),
         UNCHANGED <<damaged, old, latest>>
  PROVE  BInv'
<1>1. PICK i \in B!Runs : i = attempt.id
  BY DEF BInv, B!Attempts
<1>2. /\ disk' \in [B!Runs -> States] /\ disk'[i] = IF disk[i] = "partial" THEN "none" ELSE disk[i]
      /\ \A j \in B!Runs \ {i} : disk'[j] = disk[j]
  BY <1>1 DEF BInv, States, B!Cleanup
<1>3. /\ remote' \in [B!Runs -> States]
      /\ remote'[i] = IF remote[i] = "partial" THEN "none" ELSE remote[i]
      /\ \A j \in B!Runs \ {i} : remote'[j] = remote[j]
  BY <1>1 DEF BInv, States, B!Cleanup
<1>4. latest # None => latest.run \in B!Runs
  BY DEF BInv, B!Names
<1> QED
  BY <1>1, <1>2, <1>3, <1>4 DEF BInv, B!Cleanup, B!Unlocked

LEMMA EndSteps == ASSUME BInv, B!End \/ B!Fail \/ B!Kill PROVE BInv'
<1>1. CASE B!End
  BY <1>1, CleanedUp DEF B!End, B!In, BInv
<1>2. CASE B!Fail
  <2>1. PICK s \in {None, "ok", "failed"} : B!Cleanup(s)
    BY <1>2 DEF B!Fail, BInv
  <2> QED
    BY <1>2, <2>1, CleanedUp DEF B!Fail
<1>3. CASE B!Kill
  BY <1>3 DEF BInv, B!Kill
<1> QED
  BY <1>1, <1>2, <1>3

LEMMA DiskSteps ==
  ASSUME BInv, NEW i \in B!Runs, B!GrowOld(i) \/ \E place \in B!Places : B!Damage(place, i)
  PROVE  BInv'
BY DEF BInv, B!GrowOld, B!Damage

LEMMA BackupsStep == BInv /\ [B!Next]_BVars => BInv'
<1> SUFFICES ASSUME BInv, [B!Next]_BVars PROVE BInv'
  OBVIOUS
<1>1. CASE UNCHANGED BVars
  BY <1>1 DEF BInv, BVars
<1> QED
  BY <1>1, BeginStep, RunSteps, PruneSteps, EndSteps, DiskSteps DEF B!Next

(* Only pruning takes a set away, and only the verified copy becomes one.  *)
LEMMA BackupsKept == BInv /\ [B!Next]_BVars => B!OnlyFinishedRunsPrune /\ B!DamagedKept
<1> SUFFICES ASSUME BInv, [B!Next]_BVars PROVE B!OnlyFinishedRunsPrune /\ B!DamagedKept
  OBVIOUS
<1>1. ASSUME NEW i \in B!Runs, disk[i] = "set", disk'[i] = "none" PROVE B!PruneLocal
  <2>1. disk' # disk
    BY <1>1
  <2>2. ~ \E s \in Shells : B!Begin(s)
    <3> SUFFICES ASSUME NEW s \in Shells, B!Begin(s) PROVE FALSE
      OBVIOUS
    <3>1. PICK j : disk' = [disk EXCEPT ![j] = "partial"]
      BY DEF B!Begin
    <3> QED
      BY <1>1, <3>1 DEF BInv
  <2>3. ~B!Publish
    BY <1>1 DEF B!Publish, BInv
  <2>4. ~B!End /\ ~B!Fail
    BY <1>1 DEF B!End, B!Fail, B!Cleanup, BInv
  <2> QED
    BY <2>1, <2>2, <2>3, <2>4
    DEF B!Next, BVars, B!Verify, B!Copy, B!PublishCopy, B!WriteLatest, B!WriteStatus,
        B!PruneRemote, B!Kill, B!GrowOld, B!Damage
<1>2. ASSUME NEW i \in B!Runs, remote[i] = "partial", remote'[i] = "set"
      PROVE  <<"remote", i>> \notin damaged
  <2>1. remote' # remote
    BY <1>2
  <2>2. ~B!Copy /\ ~B!PruneRemote /\ ~B!End /\ ~B!Fail
    BY <1>2 DEF B!Copy, B!PruneRemote, B!End, B!Fail, B!Cleanup, BInv
  <2>3. B!PublishCopy
    BY <2>1, <2>2
    DEF B!Next, BVars, B!Begin, B!Verify, B!Publish, B!WriteLatest, B!WriteStatus,
        B!PruneLocal, B!Kill, B!GrowOld, B!Damage
  <2>4. i = attempt.id
    BY <1>2, <2>3 DEF B!PublishCopy, BInv
  <2> QED
    BY <2>3, <2>4 DEF B!PublishCopy, B!CopyIntact
<1>3. ASSUME B!PruneLocal
      PROVE  latest # None /\ attempt # None /\ latest.run = attempt.id
  BY <1>3 DEF BInv, B!PruneLocal, B!MayPrune, B!In, Late
<1>4. ASSUME NEW i \in B!Runs, disk[i] = "set", disk'[i] = "none"
      PROVE  <<"local", i>> \notin damaged
  <2>1. PICK j \in B!Candidates("local") : disk' = [disk EXCEPT ![j] = "none"]
    BY <1>1, <1>4 DEF B!PruneLocal
  <2>2. i = j
    BY <1>4, <2>1 DEF BInv
  <2> QED
    BY <2>1, <2>2 DEF B!Candidates
<1> QED
  BY <1>1, <1>2, <1>3, <1>4 DEF B!OnlyFinishedRunsPrune, B!DamagedKept

(* For any number of runs, with and without an external disk: whatever     *)
(* fails, is killed or grows old, the set that latest.json names is there, *)
(* and its external copy when it says so (backup.sh).                      *)
THEOREM BackedUp == B!Spec => [](B!TypeOK /\ B!LatestIsThere)
<1>1. BInv /\ [B!Next]_B!vars => BInv'
  BY BackupsStep DEF B!vars, BVars
<1> QED
  BY <1>1, BackupsInit, BackupsHold, PTL DEF B!Spec

(* A run removes old sets only once latest.json names its own, whose copy  *)
(* it verified, and never a damaged set.                                   *)
THEOREM BackupsPruned == B!Spec => [][B!OnlyFinishedRunsPrune /\ B!DamagedKept]_B!vars
<1>1. BInv /\ [B!Next]_B!vars => BInv'
  BY BackupsStep DEF B!vars, BVars
<1>2. BInv /\ [B!Next]_B!vars => [B!OnlyFinishedRunsPrune /\ B!DamagedKept]_B!vars
  BY BackupsKept DEF B!vars, BVars
<1> QED
  BY <1>1, <1>2, BackupsInit, PTL DEF B!Spec

-----------------------------------------------------------------------------
(* Catalogue.  What a call knows of the rows it works on (StepOK): the row *)
(* locks keep active the guest for whom an account is made, keep a guest's *)
(* file and account on while he books, and the price as it was read.       *)

CRows(t) == [key : Keys, data : [C!Columns(t) -> Values], active : BOOLEAN]
CAny == CRows("client") \union CRows("type")
CRooms == [number : Keys, type : Nat]
Accesses == {None, "on", "off"}

StepOK(s, tables, accounts) ==
  /\ s.op = "create" => s.table \in C!Tables /\ s.row \in CRows(s.table)
  /\ s.op = "update" => /\ s.table \in C!Tables /\ s.id \in DOMAIN tables[s.table]
                        /\ s.row \in CRows(s.table)
  /\ s.op = "deactivate" => s.table \in C!Tables /\ s.id \in DOMAIN tables[s.table]
  /\ s.op = "room" => s.number \in Keys /\ s.type \in DOMAIN tables["type"]
  /\ s.op = "account" => s.client \in DOMAIN tables["client"] /\ tables["client"][s.client].active
  /\ s.op = "book" =>
       /\ s.type \in DOMAIN tables["type"]
       /\ s.price = tables["type"][s.type].data["price"]
       /\ s.client # None => /\ s.client \in DOMAIN tables["client"]
                             /\ tables["client"][s.client].active
                             /\ accounts[s.client] = "on"

TableOK(t, table) ==
  /\ \A i \in DOMAIN table : table[i] \in CRows(t)
  /\ \A i, j \in DOMAIN table : table[i].key = table[j].key => i = j

CInv ==
  /\ rows \in [C!Tables -> Seq(CAny)] /\ rooms \in Seq(CRooms) /\ access \in Seq(Accesses)
  /\ \A t \in C!Tables : TableOK(t, rows[t])
  /\ \A r \in DOMAIN rooms : rooms[r].type \in DOMAIN rows["type"]
  /\ DOMAIN access = DOMAIN rows["client"]
  /\ at = [w \in Workers |-> at[w]]
  /\ \A w \in Workers : at[w] # None => StepOK(at[w], rows, access)

LEMMA CatalogueHolds == CInv => C!TypeOK
BY DEF CInv, C!TypeOK, TableOK, CRows, C!Tables, C!Clients, Accesses

LEMMA CatalogueInit == C!Init => CInv
<1> SUFFICES ASSUME C!Init PROVE CInv
  OBVIOUS
<1>1. PICK k \in Keys, v \in Values : rows = [t \in C!Tables |-> <<C!NewRow(t, k, v)>>]
  BY DEF C!Init
<1>2. ASSUME NEW t \in C!Tables
      PROVE  C!NewRow(t, k, v) \in CRows(t) /\ C!NewRow(t, k, v) \in CAny
             /\ C!NewRow(t, k, v).key = k
  BY DEF C!NewRow, CRows, CAny, C!Tables
<1>3. rows \in [C!Tables -> Seq(CAny)]
  BY <1>1, <1>2
<1>4. ASSUME NEW t \in C!Tables
      PROVE  DOMAIN rows[t] = {1} /\ rows[t][1] = C!NewRow(t, k, v)
  BY <1>1, <1>2
<1>5. \A t \in C!Tables : TableOK(t, rows[t])
  BY <1>2, <1>4 DEF TableOK
<1>6. {"client", "type"} \subseteq C!Tables
  BY DEF C!Tables
<1>7. rooms \in Seq(CRooms) /\ \A r \in DOMAIN rooms : rooms[r].type \in DOMAIN rows["type"]
  <2>1. PICK r \in CRooms : rooms = <<r>> /\ r.type = 1
    <3>1. [number |-> rows["type"][1].key, type |-> 1] \in CRooms
      BY <1>2, <1>4, <1>6 DEF CRooms
    <3> QED
      BY <3>1 DEF C!Init
  <2> QED
    BY <1>4, <1>6, <2>1
<1>8. access \in Seq(Accesses) /\ DOMAIN access = DOMAIN rows["client"]
  <2>1. PICK a \in Accesses : access = <<a>>
    BY DEF C!Init, Accesses
  <2> QED
    BY <1>4, <1>6, <2>1
<1> QED
  BY <1>3, <1>5, <1>7, <1>8 DEF C!Init, CInv

(* A call begins, goes on or ends and writes nothing the invariant knows.  *)
LEMMA StepTaken ==
  ASSUME CInv, NEW w \in Workers, NEW step, step # None => StepOK(step, rows, access),
         at' = [at EXCEPT ![w] = step], UNCHANGED <<rows, rooms, access>>
  PROVE  CInv'
<1>1. at' = [x \in Workers |-> at'[x]]
  BY DEF CInv
<1>2. \A x \in Workers : at'[x] = IF x = w THEN step ELSE at[x]
  BY DEF CInv
<1> QED
  BY <1>1, <1>2 DEF CInv

(* A call that writes a table ends; the rows it changes are not locked.    *)
LEMMA TableWritten ==
  ASSUME CInv, NEW w \in Workers, at' = [at EXCEPT ![w] = None], rooms' = rooms,
         NEW t \in C!Tables, NEW table \in Seq(CAny), rows' = [rows EXCEPT ![t] = table],
         TableOK(t, table), DOMAIN rows[t] \subseteq DOMAIN table,
         \A i \in DOMAIN rows[t] : table[i] = rows[t][i] \/ C!Writable(t, i),
         access' \in Seq(Accesses), DOMAIN access' = DOMAIN rows'["client"],
         \A i \in DOMAIN access : access'[i] = access[i]
  PROVE  CInv'
<1>1. at' = [x \in Workers |-> at'[x]]
  BY DEF CInv
<1>2. \A x \in Workers : at'[x] = IF x = w THEN None ELSE at[x]
  BY DEF CInv
<1>3. /\ rows' \in [C!Tables -> Seq(CAny)]
      /\ \A u \in C!Tables : rows'[u] = IF u = t THEN table ELSE rows[u]
  BY DEF CInv
<1>4. \A u \in C!Tables : TableOK(u, rows'[u]) /\ DOMAIN rows[u] \subseteq DOMAIN rows'[u]
  BY <1>3 DEF CInv
<1>5. {"client", "type"} \subseteq C!Tables
  BY DEF C!Tables
<1>6. \A r \in DOMAIN rooms' : rooms'[r].type \in DOMAIN rows'["type"]
  BY <1>4, <1>5 DEF CInv
<1>7. ASSUME NEW x \in Workers, x # w, at[x] # None PROVE StepOK(at[x], rows', access')
  <2>1. PICK s : s = at[x]
    OBVIOUS
  <2>2. StepOK(s, rows, access)
    BY <1>7, <2>1 DEF CInv
  <2>3. ASSUME s.op = "account" PROVE rows'["client"][s.client] = rows["client"][s.client]
    <3>1. ~C!Writable("client", s.client)
      BY <1>7, <2>1, <2>3 DEF C!Writable, C!AccountBeingMade
    <3>2. s.client \in DOMAIN rows["client"]
      BY <2>2, <2>3 DEF StepOK
    <3> QED
      BY <1>3, <1>5, <3>1, <3>2
  <2>4. ASSUME s.op = "book" PROVE rows'["type"][s.type] = rows["type"][s.type]
    <3>1. ~C!Writable("type", s.type)
      BY <1>7, <2>1, <2>4 DEF C!Writable, C!BookingOf
    <3>2. s.type \in DOMAIN rows["type"]
      BY <2>2, <2>4 DEF StepOK
    <3> QED
      BY <1>3, <1>5, <3>1, <3>2
  <2>5. ASSUME s.op = "book", s.client # None
        PROVE  rows'["client"][s.client] = rows["client"][s.client] /\ s.client \in DOMAIN access
    <3>1. ~C!Writable("client", s.client)
      BY <1>7, <2>1, <2>5 DEF C!Writable, C!BookingFor
    <3>2. s.client \in DOMAIN rows["client"]
      BY <2>2, <2>5 DEF StepOK
    <3> QED
      BY <1>3, <1>5, <3>1, <3>2 DEF CInv
  <2> QED
    BY <1>4, <1>5, <2>1, <2>2, <2>3, <2>4, <2>5 DEF StepOK
<1> QED
  BY <1>1, <1>2, <1>3, <1>4, <1>6, <1>7 DEF CInv

LEMMA AccessWritten ==
  ASSUME CInv, NEW i \in DOMAIN access, NEW a \in {"on", "off"},
         access' = [access EXCEPT ![i] = a],
         a = "on" \/ \A x \in Workers : ~C!BookingFor(x, i),
         at' = at \/ \E w \in Workers : at' = [at EXCEPT ![w] = None],
         UNCHANGED <<rows, rooms>>
  PROVE  CInv'
<1>1. access' \in Seq(Accesses) /\ DOMAIN access' = DOMAIN access
      /\ \A j \in DOMAIN access : access'[j] = IF j = i THEN a ELSE access[j]
  BY DEF CInv, Accesses
<1>2. /\ at' = [x \in Workers |-> at'[x]]
      /\ \A x \in Workers : at'[x] # None => at'[x] = at[x]
  BY DEF CInv
<1>3. ASSUME NEW x \in Workers, at[x] # None PROVE StepOK(at[x], rows, access')
  <2>1. PICK s : s = at[x]
    OBVIOUS
  <2>2. StepOK(s, rows, access)
    BY <1>3, <2>1 DEF CInv
  <2>3. ASSUME s.op = "book", s.client # None PROVE access'[s.client] = "on"
    <3>1. s.client = i => a = "on"
      BY <1>3, <2>1, <2>3 DEF C!BookingFor
    <3>2. s.client \in DOMAIN access /\ access[s.client] = "on"
      BY <2>2, <2>3 DEF StepOK, CInv
    <3> QED
      BY <1>1, <3>1, <3>2
  <2> QED
    BY <2>1, <2>2, <2>3 DEF StepOK
<1> QED
  BY <1>1, <1>2, <1>3 DEF CInv

LEMMA WritesBegin ==
  ASSUME CInv, NEW w \in Workers, NEW t \in C!Tables, NEW k \in Keys, NEW v \in Values
  PROVE  /\ C!BeginCreate(w, t, k, v) => CInv'
         /\ \A i \in DOMAIN rows[t], c \in C!Columns(t) : C!BeginUpdate(w, t, i, k, c, v) => CInv'
<1>1. ASSUME C!BeginCreate(w, t, k, v) PROVE CInv'
  <2>1. PICK s : s = [op |-> "create", table |-> t, row |-> C!NewRow(t, k, v)]
    OBVIOUS
  <2>2. C!NewRow(t, k, v) \in CRows(t)
    BY DEF C!NewRow, CRows
  <2>3. StepOK(s, rows, access)
    BY <2>1, <2>2 DEF StepOK
  <2> QED
    BY <1>1, <2>1, <2>3, StepTaken DEF C!BeginCreate, C!Begin
<1>2. ASSUME NEW i \in DOMAIN rows[t], NEW c \in C!Columns(t), C!BeginUpdate(w, t, i, k, c, v)
      PROVE  CInv'
  <2>1. PICK row : row = rows[t][i] /\ row \in CRows(t)
    BY DEF CInv, TableOK
  <2>2. PICK new : new = [row EXCEPT !.key = k, !.data[c] = v]
    OBVIOUS
  <2>3. new \in CRows(t)
    BY <2>1, <2>2 DEF CRows
  <2>4. PICK s : s = [op |-> "update", table |-> t, id |-> i, row |-> new]
    OBVIOUS
  <2>5. StepOK(s, rows, access)
    BY <2>3, <2>4 DEF StepOK
  <2> QED
    BY <1>2, <2>1, <2>2, <2>4, <2>5, StepTaken DEF C!BeginUpdate, C!Begin
<1> QED
  BY <1>1, <1>2

LEMMA DeactivationBegins ==
  ASSUME CInv, NEW w \in Workers, NEW t \in C!Tables, NEW i \in DOMAIN rows[t],
         C!BeginDeactivate(w, t, i)
  PROVE  CInv'
<1>1. PICK s : s = [op |-> "deactivate", table |-> t, id |-> i]
  OBVIOUS
<1>2. StepOK(s, rows, access)
  BY <1>1 DEF StepOK
<1> QED
  BY <1>1, <1>2, StepTaken DEF C!BeginDeactivate, C!Begin

LEMMA RoomBegins ==
  ASSUME CInv, NEW w \in Workers, NEW k \in Keys, NEW i \in DOMAIN rows["type"],
         C!BeginRoom(w, k, i)
  PROVE  CInv'
<1>1. PICK s : s = [op |-> "room", number |-> k, type |-> i]
  OBVIOUS
<1>2. StepOK(s, rows, access)
  BY <1>1 DEF StepOK
<1> QED
  BY <1>1, <1>2, StepTaken DEF C!BeginRoom, C!Begin

LEMMA LocksTaken ==
  ASSUME CInv, NEW w \in Workers
  PROVE  /\ \A i \in C!Clients : C!LockForAccount(w, i) \/ C!LockGuest(w, i) => CInv'
         /\ \A r \in DOMAIN rooms : C!LockRoom(w, r) => CInv'
<1>1. ASSUME NEW i \in C!Clients, C!LockForAccount(w, i) PROVE CInv'
  <2>1. PICK s : s = [op |-> "account", client |-> i]
    OBVIOUS
  <2>2. StepOK(s, rows, access)
    BY <1>1, <2>1 DEF StepOK, C!LockForAccount, C!Active, C!Clients
  <2> QED
    BY <1>1, <2>1, <2>2, StepTaken DEF C!LockForAccount, C!Begin
<1>2. ASSUME NEW i \in C!Clients, C!LockGuest(w, i) PROVE CInv'
  <2>1. PICK was : was = at[w] /\ StepOK(was, rows, access) /\ was.op = "book"
    BY <1>2 DEF C!LockGuest, C!Doing, CInv
  <2>2. PICK s : s = [was EXCEPT !.client = i]
    OBVIOUS
  <2>3. s.op = "book" /\ s.type = was.type /\ s.price = was.price /\ s.client \in {i, was.client}
    BY <2>1, <2>2
  <2>4. i \in DOMAIN rows["client"] /\ rows["client"][i].active /\ access[i] = "on"
    BY <1>2 DEF C!LockGuest, C!MayBook, C!Active
  <2>5. StepOK(s, rows, access)
    BY <2>1, <2>3, <2>4 DEF StepOK
  <2>6. at' = [at EXCEPT ![w] = s]
    BY <1>2, <2>1, <2>2 DEF C!LockGuest
  <2> QED
    BY <1>2, <2>5, <2>6, StepTaken DEF C!LockGuest
<1>3. ASSUME NEW r \in DOMAIN rooms, C!LockRoom(w, r) PROVE CInv'
  <2>1. PICK s : s = [op |-> "book", type |-> rooms[r].type, client |-> None,
                      price |-> rows["type"][rooms[r].type].data["price"]]
    OBVIOUS
  <2>2. rooms[r].type \in DOMAIN rows["type"]
    BY DEF CInv
  <2>3. StepOK(s, rows, access)
    BY <2>1, <2>2 DEF StepOK
  <2> QED
    BY <1>3, <2>1, <2>3, StepTaken DEF C!LockRoom, C!Begin
<1> QED
  BY <1>1, <1>2, <1>3

LEMMA CallsEnd == ASSUME CInv, NEW w \in Workers, C!Book(w) \/ C!GiveUp(w) PROVE CInv'
BY StepTaken DEF C!Book, C!GiveUp, C!End

LEMMA AccountSteps ==
  ASSUME CInv, NEW w \in Workers
  PROVE  /\ C!CreateAccount(w) => CInv'
         /\ \A i \in C!Clients, on \in {"on", "off"} : C!ChangeAccess(w, i, on) => CInv'
<1>1. ASSUME C!CreateAccount(w) PROVE CInv'
  <2>1. PICK i \in DOMAIN access : i = at[w].client
    BY <1>1 DEF C!CreateAccount, C!Doing, CInv, StepOK
  <2>2. access' = [access EXCEPT ![i] = "on"]
    BY <1>1, <2>1 DEF C!CreateAccount
  <2> QED
    BY <1>1, <2>2, AccessWritten DEF C!CreateAccount, C!End
<1>2. ASSUME NEW i \in C!Clients, NEW on \in {"on", "off"}, C!ChangeAccess(w, i, on) PROVE CInv'
  BY <1>2, AccessWritten DEF C!ChangeAccess, C!Clients, CInv
<1> QED
  BY <1>1, <1>2

LEMMA RoomInserted == ASSUME CInv, NEW w \in Workers, C!InsertRoom(w) PROVE CInv'
<1>1. PICK s : s = at[w] /\ s.number \in Keys /\ s.type \in DOMAIN rows["type"]
  BY DEF C!InsertRoom, C!Doing, CInv, StepOK
<1>2. s.type \in Nat
  BY <1>1 DEF CInv, C!Tables
<1>7. PICK added : added = [number |-> s.number, type |-> s.type]
  OBVIOUS
<1>3. added \in CRooms /\ added.type = s.type
  BY <1>1, <1>2, <1>7 DEF CRooms
<1>4. rooms' \in {rooms, Append(rooms, added)}
  BY <1>1, <1>7 DEF C!InsertRoom
<1>5. rooms' \in Seq(CRooms) /\ \A r \in DOMAIN rooms' : rooms'[r].type \in DOMAIN rows["type"]
  <2>1. \A r \in DOMAIN Append(rooms, added) : r \in DOMAIN rooms \/ Append(rooms, added)[r] = added
    BY DEF CInv
  <2>2. \A r \in DOMAIN rooms : Append(rooms, added)[r] = rooms[r]
    BY DEF CInv
  <2>3. Append(rooms, added) \in Seq(CRooms)
    BY <1>3 DEF CInv
  <2>4. CASE rooms' = rooms
    BY <2>4 DEF CInv
  <2>5. CASE rooms' = Append(rooms, added)
    <3> SUFFICES ASSUME NEW r \in DOMAIN rooms' PROVE rooms'[r].type \in DOMAIN rows["type"]
      BY <2>3, <2>5
    <3>1. CASE r \in DOMAIN rooms
      BY <2>2, <2>5, <3>1 DEF CInv
    <3>2. CASE r \notin DOMAIN rooms
      BY <1>1, <1>3, <2>1, <2>5, <3>2
    <3> QED
      BY <3>1, <3>2
  <2> QED
    BY <1>4, <2>4, <2>5
<1>6. /\ at' = [x \in Workers |-> at'[x]]
      /\ \A x \in Workers : at'[x] # None => at'[x] = at[x]
  BY DEF CInv, C!InsertRoom, C!End
<1> QED
  BY <1>5, <1>6 DEF CInv, C!InsertRoom

(* One row of a table is written, under a key that no other row has.       *)
LEMMA RowWritten ==
  ASSUME CInv, NEW w \in Workers, at' = [at EXCEPT ![w] = None], UNCHANGED <<rooms, access>>,
         NEW t \in C!Tables, NEW i \in DOMAIN rows[t], NEW new \in CRows(t), C!Writable(t, i),
         \A j \in DOMAIN rows[t] \ {i} : rows[t][j].key # new.key,
         rows' = [rows EXCEPT ![t] = [rows[t] EXCEPT ![i] = new]]
  PROVE  CInv'
<1>1. PICK table : table = [rows[t] EXCEPT ![i] = new]
  OBVIOUS
<1>2. rows[t] \in Seq(CAny) /\ new \in CAny
  BY DEF CInv, CAny, C!Tables
<1>3. /\ table \in Seq(CAny) /\ DOMAIN table = DOMAIN rows[t]
      /\ \A j \in DOMAIN rows[t] : table[j] = IF j = i THEN new ELSE rows[t][j]
  BY <1>1, <1>2
<1>4. TableOK(t, rows[t])
  BY DEF CInv
<1>5. TableOK(t, table)
  BY <1>3, <1>4 DEF TableOK
<1>6. rows' = [rows EXCEPT ![t] = table]
  BY <1>1
<1>7. DOMAIN rows'["client"] = DOMAIN rows["client"]
  BY <1>3, <1>6 DEF CInv, C!Tables
<1>8. access' \in Seq(Accesses) /\ DOMAIN access' = DOMAIN rows'["client"]
  BY <1>7 DEF CInv
<1>9. \A j \in DOMAIN rows[t] : table[j] = rows[t][j] \/ C!Writable(t, j)
  BY <1>3
<1> QED
  BY <1>3, <1>5, <1>6, <1>8, <1>9, TableWritten

LEMMA UpdateStep == ASSUME CInv, NEW w \in Workers, C!Update(w) PROVE CInv'
<1>1. PICK s : s = at[w]
  OBVIOUS
<1>2. /\ s.table \in C!Tables /\ s.id \in DOMAIN rows[s.table] /\ s.row \in CRows(s.table)
      /\ C!Writable(s.table, s.id)
  BY <1>1 DEF C!Update, C!Doing, CInv, StepOK
<1>3. CASE C!StillActive(s.table, s.id) /\ C!Free(s.table, s.row.key, DOMAIN rows[s.table] \ {s.id})
  <2>1. PICK row : row = rows[s.table][s.id]
    OBVIOUS
  <2>2. PICK new : new = [row EXCEPT !.key = s.row.key, !.data = s.row.data]
    OBVIOUS
  <2>3. row \in CRows(s.table)
    BY <1>2, <2>1 DEF CInv, TableOK
  <2>4. new \in CRows(s.table) /\ new.key = s.row.key
    BY <1>2, <2>2, <2>3 DEF CRows
  <2>5. \A j \in DOMAIN rows[s.table] \ {s.id} : rows[s.table][j].key # new.key
    BY <1>3, <2>4 DEF C!Free, C!Keyed
  <2>6. rows' = [rows EXCEPT ![s.table] = [rows[s.table] EXCEPT ![s.id] = new]]
    BY <1>1, <1>3, <2>1, <2>2 DEF C!Update
  <2> QED
    BY <1>2, <2>4, <2>5, <2>6, RowWritten DEF C!Update, C!End
<1>4. CASE ~(/\ C!StillActive(s.table, s.id)
            /\ C!Free(s.table, s.row.key, DOMAIN rows[s.table] \ {s.id}))
  <2>1. rows' = rows
    BY <1>1, <1>4 DEF C!Update
  <2> QED
    BY <2>1, StepTaken DEF C!Update, C!End
<1> QED
  BY <1>3, <1>4

LEMMA DeactivateStep == ASSUME CInv, NEW w \in Workers, C!Deactivate(w) PROVE CInv'
<1>1. PICK s : s = at[w]
  OBVIOUS
<1>2. /\ s.table \in C!Tables /\ s.id \in DOMAIN rows[s.table]
      /\ C!Writable(s.table, s.id)
  BY <1>1 DEF C!Deactivate, C!Doing, CInv, StepOK
<1>3. PICK row : row = rows[s.table][s.id]
  OBVIOUS
<1>4. PICK new : new = [row EXCEPT !.active = FALSE]
  OBVIOUS
<1>5. TableOK(s.table, rows[s.table]) /\ row \in CRows(s.table)
  BY <1>2, <1>3 DEF CInv, TableOK
<1>6. new \in CRows(s.table) /\ new.key = row.key
  BY <1>4, <1>5 DEF CRows
<1>7. \A j \in DOMAIN rows[s.table] \ {s.id} : rows[s.table][j].key # new.key
  BY <1>2, <1>3, <1>5, <1>6 DEF TableOK
<1>8. rows' = [rows EXCEPT ![s.table] = [rows[s.table] EXCEPT ![s.id] = new]]
  BY <1>1, <1>3, <1>4 DEF C!Deactivate
<1> QED
  BY <1>2, <1>6, <1>7, <1>8, RowWritten DEF C!Deactivate, C!End

LEMMA InsertStep == ASSUME CInv, NEW w \in Workers, C!Insert(w) PROVE CInv'
<1>1. PICK s : s = at[w]
  OBVIOUS
<1>2. s.table \in C!Tables /\ s.row \in CRows(s.table)
  BY <1>1 DEF C!Insert, C!Doing, CInv, StepOK
<1>3. CASE C!Free(s.table, s.row.key, DOMAIN rows[s.table])
  <2>1. PICK was : was = rows[s.table] /\ was \in Seq(CAny) /\ TableOK(s.table, was)
    BY <1>2 DEF CInv
  <2>2. PICK table : table = Append(was, s.row)
    OBVIOUS
  <2>3. s.row \in CAny
    BY <1>2 DEF CAny, C!Tables
  <2>4. /\ table \in Seq(CAny) /\ DOMAIN table = DOMAIN was \union {Len(was) + 1}
        /\ \A i \in DOMAIN was : table[i] = was[i]
        /\ table[Len(was) + 1] = s.row /\ Len(was) + 1 \notin DOMAIN was
    BY <2>1, <2>2, <2>3
  <2>5. \A i \in DOMAIN was : was[i].key # s.row.key
    BY <1>3, <2>1 DEF C!Free, C!Keyed
  <2>6. TableOK(s.table, table)
    BY <1>2, <2>1, <2>4, <2>5 DEF TableOK
  <2>7. rows' = [rows EXCEPT ![s.table] = table]
    BY <1>1, <1>3, <2>1, <2>2 DEF C!Insert
  <2>8. rows'[s.table] = table /\ rows' # rows
    BY <1>2, <2>1, <2>4, <2>7 DEF CInv
  <2>9. /\ access' \in Seq(Accesses) /\ DOMAIN access' = DOMAIN rows'["client"]
        /\ \A i \in DOMAIN access : access'[i] = access[i]
    <3>1. CASE s.table = "client"
      <4>1. access' = Append(access, None) /\ access \in Seq(Accesses) /\ None \in Accesses
        BY <1>1, <2>8, <3>1 DEF C!Insert, CInv, Accesses
      <4>2. /\ access' \in Seq(Accesses) /\ DOMAIN access' = DOMAIN access \union {Len(access) + 1}
            /\ \A i \in DOMAIN access : access'[i] = access[i]
        BY <4>1
      <4>3. Len(access) = Len(was)
        BY <2>1, <3>1, <4>1 DEF CInv
      <4> QED
        BY <2>1, <2>4, <2>8, <3>1, <4>2, <4>3 DEF CInv
    <3>2. CASE s.table # "client"
      BY <1>1, <2>7, <3>2 DEF C!Insert, CInv
    <3> QED
      BY <3>1, <3>2
  <2>10. \A i \in DOMAIN rows[s.table] : table[i] = rows[s.table][i]
    BY <2>1, <2>4
  <2>11. DOMAIN rows[s.table] \subseteq DOMAIN table /\ rooms' = rooms
         /\ at' = [at EXCEPT ![w] = None]
    BY <2>1, <2>4 DEF C!Insert, C!End
  <2> QED
    BY <1>2, <2>4, <2>6, <2>7, <2>9, <2>10, <2>11, TableWritten
<1>4. CASE ~C!Free(s.table, s.row.key, DOMAIN rows[s.table])
  <2>1. rows' = rows /\ access' = access
    BY <1>1, <1>4 DEF C!Insert
  <2> QED
    BY <2>1, StepTaken DEF C!Insert, C!End
<1> QED
  BY <1>3, <1>4

LEMMA CatalogueStep == CInv /\ [C!Next]_CVars => CInv'
<1> SUFFICES ASSUME CInv, [C!Next]_CVars PROVE CInv'
  OBVIOUS
<1>1. CASE UNCHANGED CVars
  BY <1>1 DEF CInv, CVars
<1>2. ASSUME NEW w \in Workers, NEW t \in C!Tables, NEW k \in Keys, NEW v \in Values,
             \/ C!BeginCreate(w, t, k, v)
             \/ \E i \in DOMAIN rows[t], c \in C!Columns(t) : C!BeginUpdate(w, t, i, k, c, v)
      PROVE  CInv'
  BY <1>2, WritesBegin
<1>3. ASSUME NEW w \in Workers, \E i \in C!Clients : C!LockForAccount(w, i) \/ C!LockGuest(w, i)
      PROVE  CInv'
  BY <1>3, LocksTaken
<1>4. ASSUME NEW w \in Workers,
             \/ C!CreateAccount(w)
             \/ \E i \in C!Clients, on \in {"on", "off"} : C!ChangeAccess(w, i, on)
      PROVE  CInv'
  BY <1>4, AccountSteps
<1>5. ASSUME NEW w \in Workers, \E r \in DOMAIN rooms : C!LockRoom(w, r) PROVE CInv'
  BY <1>5, LocksTaken
<1> QED
  BY <1>1, <1>2, <1>3, <1>4, <1>5, DeactivationBegins, RoomBegins, CallsEnd, RoomInserted,
     InsertStep, UpdateStep, DeactivateStep DEF C!Next

(* Which calls write what.                                                 *)
LEMMA WritersOfRows ==
  ASSUME [C!Next]_CVars
  PROVE  rows' = rows \/ \E w \in Workers : C!Insert(w) \/ C!Update(w) \/ C!Deactivate(w)
<1>1. \A w : C!InsertRoom(w) \/ C!CreateAccount(w) \/ C!Book(w) \/ C!GiveUp(w) => rows' = rows
  BY DEF C!InsertRoom, C!CreateAccount, C!Book, C!GiveUp
<1>2. \A w, t, k, v, i, c :
        \/ C!BeginCreate(w, t, k, v) \/ C!BeginUpdate(w, t, i, k, c, v)
        \/ C!BeginDeactivate(w, t, i) \/ C!BeginRoom(w, k, i)
        => rows' = rows
  BY DEF C!BeginCreate, C!BeginUpdate, C!BeginDeactivate, C!BeginRoom
<1>3. \A w, i, on :
        C!LockForAccount(w, i) \/ C!LockGuest(w, i) \/ C!LockRoom(w, i) \/ C!ChangeAccess(w, i, on)
        => rows' = rows
  BY DEF C!LockForAccount, C!LockGuest, C!LockRoom, C!ChangeAccess
<1> QED
  BY <1>1, <1>2, <1>3 DEF C!Next, CVars

LEMMA WritersOfBookings ==
  ASSUME [C!Next]_CVars
  PROVE  bookings' = bookings \/ \E w \in Workers : C!Book(w)
<1>1. \A w : \/ C!InsertRoom(w) \/ C!CreateAccount(w) \/ C!GiveUp(w)
            \/ C!Insert(w) \/ C!Update(w) \/ C!Deactivate(w)
            => bookings' = bookings
  BY DEF C!InsertRoom, C!CreateAccount, C!GiveUp, C!Insert, C!Update, C!Deactivate
<1>2. \A w, t, k, v, i, c :
        \/ C!BeginCreate(w, t, k, v) \/ C!BeginUpdate(w, t, i, k, c, v)
        \/ C!BeginDeactivate(w, t, i) \/ C!BeginRoom(w, k, i)
        => bookings' = bookings
  BY DEF C!BeginCreate, C!BeginUpdate, C!BeginDeactivate, C!BeginRoom
<1>3. \A w, i, on :
        C!LockForAccount(w, i) \/ C!LockGuest(w, i) \/ C!LockRoom(w, i) \/ C!ChangeAccess(w, i, on)
        => bookings' = bookings
  BY DEF C!LockForAccount, C!LockGuest, C!LockRoom, C!ChangeAccess
<1> QED
  BY <1>1, <1>2, <1>3 DEF C!Next, CVars

LEMMA WritersOfAccess ==
  ASSUME [C!Next]_CVars
  PROVE  \/ access' = access
         \/ \E w \in Workers :
              \/ C!Insert(w) \/ C!CreateAccount(w)
              \/ \E i \in C!Clients, on \in {"on", "off"} : C!ChangeAccess(w, i, on)
<1>1. \A w : C!InsertRoom(w) \/ C!Book(w) \/ C!GiveUp(w) \/ C!Update(w) \/ C!Deactivate(w)
            => access' = access
  BY DEF C!InsertRoom, C!Book, C!GiveUp, C!Update, C!Deactivate
<1>2. \A w, t, k, v, i, c :
        \/ C!BeginCreate(w, t, k, v) \/ C!BeginUpdate(w, t, i, k, c, v)
        \/ C!BeginDeactivate(w, t, i) \/ C!BeginRoom(w, k, i)
        => access' = access
  BY DEF C!BeginCreate, C!BeginUpdate, C!BeginDeactivate, C!BeginRoom
<1>3. \A w, i : C!LockForAccount(w, i) \/ C!LockGuest(w, i) \/ C!LockRoom(w, i) => access' = access
  BY DEF C!LockForAccount, C!LockGuest, C!LockRoom
<1> QED
  BY <1>1, <1>2, <1>3 DEF C!Next, CVars

(* A row that was deactivated is written by no call, although one that     *)
(* read it before still tries.                                             *)
LEMMA CatalogueKept == CInv /\ [C!Next]_CVars => C!DeactivatedStays
<1> SUFFICES ASSUME CInv, [C!Next]_CVars, NEW t \in C!Tables
             PROVE  /\ \A i \in DOMAIN rows[t] \ C!Active(t) : rows'[t][i] = rows[t][i]
                    /\ \A i, j \in DOMAIN rows'[t] : rows'[t][i].key = rows'[t][j].key => i = j
  BY DEF C!DeactivatedStays
<1>1. \A i, j \in DOMAIN rows'[t] : rows'[t][i].key = rows'[t][j].key => i = j
  BY CatalogueStep DEF CInv, TableOK
<1>2. ASSUME NEW i \in DOMAIN rows[t] \ C!Active(t) PROVE rows'[t][i] = rows[t][i]
  <2>1. rows[t] \in Seq(CAny) /\ rows[t][i] \in CRows(t) /\ ~rows[t][i].active
    BY <1>2 DEF CInv, TableOK, C!Active
  <2>2. CASE rows' = rows
    BY <2>2
  <2>3. ASSUME NEW w \in Workers, C!Insert(w) PROVE rows'[t][i] = rows[t][i]
    <3>1. PICK s : s = at[w] /\ s.row \in CRows(s.table) /\ s.table \in C!Tables
      BY <2>3 DEF C!Insert, C!Doing, CInv, StepOK
    <3>2. s.row \in CAny
      BY <3>1 DEF CAny, C!Tables
    <3>3. Append(rows[t], s.row)[i] = rows[t][i]
      BY <2>1, <3>2
    <3>4. rows' \in {rows, [rows EXCEPT ![s.table] = Append(@, s.row)]}
      BY <2>3, <3>1 DEF C!Insert
    <3>5. CASE s.table = t
      BY <3>1, <3>3, <3>4, <3>5 DEF CInv
    <3>6. CASE s.table # t
      BY <3>1, <3>4, <3>6 DEF CInv
    <3> QED
      BY <3>5, <3>6
  <2>4. ASSUME NEW w \in Workers, C!Update(w) PROVE rows'[t][i] = rows[t][i]
    <3>1. PICK s : s = at[w] /\ s.table \in C!Tables /\ s.id \in DOMAIN rows[s.table]
      BY <2>4 DEF C!Update, C!Doing, CInv, StepOK
    <3>2. CASE C!StillActive(s.table, s.id)
      <4>1. s.table # t \/ s.id # i
        BY <1>2, <3>2 DEF C!StillActive, C!Active
      <4>2. \/ rows' = rows
            \/ rows' = [rows EXCEPT ![s.table][s.id].key = s.row.key,
                                    ![s.table][s.id].data = s.row.data]
        BY <2>4, <3>1 DEF C!Update
      <4>3. CASE s.table = t
        BY <2>1, <3>1, <4>1, <4>2, <4>3 DEF CInv
      <4>4. CASE s.table # t
        BY <3>1, <4>2, <4>4 DEF CInv
      <4> QED
        BY <4>3, <4>4
    <3>3. CASE ~C!StillActive(s.table, s.id)
      BY <2>2, <2>4, <3>1, <3>3 DEF C!Update
    <3> QED
      BY <3>2, <3>3
  <2>5. ASSUME NEW w \in Workers, C!Deactivate(w) PROVE rows'[t][i] = rows[t][i]
    <3>1. PICK s : s = at[w] /\ s.table \in C!Tables /\ s.id \in DOMAIN rows[s.table]
      BY <2>5 DEF C!Deactivate, C!Doing, CInv, StepOK
    <3>2. PICK new : new = [rows[s.table][s.id] EXCEPT !.active = FALSE]
      OBVIOUS
    <3>3. rows' = [rows EXCEPT ![s.table] = [rows[s.table] EXCEPT ![s.id] = new]]
      BY <2>5, <3>1, <3>2 DEF C!Deactivate
    <3>4. CASE s.table = t /\ s.id = i
      <4>1. new = rows[t][i]
        BY <2>1, <3>2, <3>4 DEF CRows
      <4> QED
        BY <1>2, <3>1, <3>3, <3>4, <4>1 DEF CInv
    <3>5. CASE s.table # t \/ s.id # i
      BY <1>2, <3>1, <3>3, <3>5 DEF CInv
    <3> QED
      BY <3>4, <3>5
  <2> QED
    BY <2>2, <2>3, <2>4, <2>5, WritersOfRows
<1> QED
  BY <1>1, <1>2

Booked == bookings \in Seq([client : Nat, type : Nat, price : Values])

LEMMA BookingMade ==
  ASSUME CInv, Booked, NEW w \in Workers, C!Book(w)
  PROVE  /\ Booked'
         /\ LET made == C!Last(bookings')
            IN  /\ made.client \in C!Active("client") /\ access[made.client] = "on"
                /\ made.type \in C!Active("type")
                /\ rows["type"][made.type].data["price"] = made.price
<1>1. PICK s : s = at[w] /\ s.op = "book" /\ s.client # None /\ StepOK(s, rows, access)
  BY DEF C!Book, C!Doing, CInv
<1>2. /\ s.client \in DOMAIN rows["client"] /\ s.type \in DOMAIN rows["type"]
      /\ s.price = rows["type"][s.type].data["price"] /\ rows["client"][s.client].active
      /\ access[s.client] = "on"
  BY <1>1 DEF StepOK
<1>3. s.client \in Nat /\ s.type \in Nat
  BY <1>2 DEF CInv, C!Tables
<1>4. s.price \in Values
  <2>1. rows["type"][s.type] \in CRows("type")
    BY <1>2 DEF CInv, TableOK, C!Tables
  <2> QED
    BY <1>2, <2>1 DEF CRows, C!Columns
<1>5. PICK b : b = [client |-> s.client, type |-> s.type, price |-> s.price]
  OBVIOUS
<1>6. /\ b \in [client : Nat, type : Nat, price : Values]
      /\ b.client = s.client /\ b.type = s.type /\ b.price = s.price
  BY <1>3, <1>4, <1>5
<1>7. bookings' = Append(bookings, b)
  BY <1>1, <1>5 DEF C!Book
<1>8. Booked' /\ bookings'[Len(bookings')] = b
  BY <1>6, <1>7 DEF Booked
<1>9. s.type \in C!Active("type")
  BY <1>1 DEF C!Book
<1> QED
  BY <1>2, <1>6, <1>8, <1>9 DEF C!Last, C!Active

(* Whoever changes an account or books.                                    *)
LEMMA PortalKept ==
  CInv /\ Booked /\ [C!Next]_CVars => Booked' /\ C!PortalForActiveGuests
<1> SUFFICES ASSUME CInv, Booked, [C!Next]_CVars PROVE Booked' /\ C!PortalForActiveGuests
  OBVIOUS
<1>1. bookings' = bookings \/ \E w \in Workers : C!Book(w)
  BY WritersOfBookings
<1>2. Booked' /\ (bookings' # bookings =>
        LET made == C!Last(bookings')
        IN  /\ made.client \in C!Active("client") /\ access[made.client] = "on"
            /\ made.type \in C!Active("type")
            /\ rows["type"][made.type].data["price"] = made.price)
  BY <1>1, BookingMade DEF Booked
<1>3. ASSUME NEW i \in C!Clients
      PROVE  /\ access[i] # None => access'[i] # None
             /\ access[i] = None /\ access'[i] # None => i \in C!Active("client")
  <2>1. i \in DOMAIN access /\ access \in Seq(Accesses) /\ None \in Accesses
    BY DEF CInv, C!Clients, Accesses
  <2>2. CASE access' = access
    BY <2>2
  <2>3. ASSUME NEW w \in Workers, C!Insert(w) PROVE access'[i] = access[i]
    <3>1. access' \in {access, Append(access, None)}
      BY <2>3 DEF C!Insert
    <3> QED
      BY <2>1, <3>1
  <2>4. ASSUME NEW w \in Workers, C!CreateAccount(w)
        PROVE  access'[i] = access[i] \/ (access'[i] = "on" /\ i \in C!Active("client"))
    <3>1. PICK s : s = at[w] /\ s.op = "account" /\ StepOK(s, rows, access)
      BY <2>4 DEF C!CreateAccount, C!Doing, CInv
    <3>2. s.client \in C!Active("client")
      BY <3>1 DEF StepOK, C!Active
    <3>3. access' = [access EXCEPT ![s.client] = "on"]
      BY <2>4, <3>1 DEF C!CreateAccount
    <3> QED
      BY <2>1, <3>2, <3>3
  <2>5. ASSUME NEW w \in Workers, NEW j \in C!Clients, NEW on \in {"on", "off"},
               C!ChangeAccess(w, j, on)
        PROVE  access'[i] = access[i] \/ (access'[i] # None /\ access[i] # None)
    BY <2>1, <2>5, CatalogueAssumption DEF C!ChangeAccess, C!NoneAssumption
  <2> QED
    BY <2>2, <2>3, <2>4, <2>5, WritersOfAccess, CatalogueAssumption DEF C!NoneAssumption
<1> QED
  BY <1>2, <1>3 DEF C!PortalForActiveGuests

(* For any documents, names, rooms and calls at once: what was deactivated *)
(* stays as it was and no key is taken twice (clients, room types); the    *)
(* portal's accounts and bookings are for guests whose file is active, at  *)
(* the price of that moment (portalService, the booking transaction).      *)
THEOREM Catalogued ==
  C!Spec => [][C!DeactivatedStays /\ C!PortalForActiveGuests]_C!vars
<1>1. CInv /\ Booked /\ [C!Next]_C!vars => CInv' /\ Booked'
  BY CatalogueStep, PortalKept DEF C!vars, CVars
<1>2. CInv /\ Booked /\ [C!Next]_C!vars => [C!DeactivatedStays /\ C!PortalForActiveGuests]_C!vars
  BY CatalogueKept, PortalKept DEF C!vars, CVars
<1>3. C!Init => CInv /\ Booked
  BY CatalogueInit DEF C!Init, Booked
<1> QED
  BY <1>1, <1>2, <1>3, PTL DEF C!Spec

-----------------------------------------------------------------------------
(* What no step of any component undoes, in the composition.               *)

LEMMA BackOfficeInit ==
  Init => /\ part = "settings" => SInv
          /\ part \in Requests => RInv
          /\ part = "mail" => OInv
          /\ part = "migrations" => DInv
          /\ part = "backups" => BInv
          /\ part = "catalogue" => CInv /\ Booked
<1>1. C!Init => CInv /\ Booked
  BY CatalogueInit DEF C!Init, Booked
<1> QED
  BY <1>1, SettingsInit, RequestsInit, MailInit, MigrationsInit, BackupsInit DEF Init, Requests

LEMMA BackOfficeStep ==
  ASSUME [Next]_all
  PROVE  /\ part' = part
         /\ part = "settings" => S!Next \/ UNCHANGED SVars
         /\ part \in Requests => [R!Next]_RVars
         /\ part = "mail" => [O!Next]_OVars
         /\ part = "migrations" => [M!Next]_MVars
         /\ part = "backups" => [B!Next]_BVars
         /\ part = "catalogue" => [C!Next]_CVars
         /\ part \in Requests => part \notin {"settings", "mail", "migrations", "backups",
                 "catalogue"}
BY DEF Next, all, SOnly, ROnly, OOnly, MOnly, BOnly, COnly, GOnly, Requests

(* The set that latest.json names is there; the catalogue is well formed.  *)
THEOREM Latest == Spec => []LatestIsThere
<1> DEFINE Inv == (part = "backups" => BInv) /\ (part = "catalogue" => CInv)
<1>1. Init => Inv
  BY BackOfficeInit
<1>2. Inv /\ [Next]_all => Inv'
  BY BackOfficeStep, BackupsStep, CatalogueStep
<1>3. Inv => LatestIsThere
  BY BackupsHold, CatalogueHolds DEF LatestIsThere
<1> QED
  BY <1>1, <1>2, <1>3, PTL DEF Spec

(* In every component, at any size: nobody overwrites settings they have   *)
(* not seen; a request is decided once; a redacted mail is not delivered;  *)
(* an altered file stops a deployment; only a finished backup removes      *)
(* older ones; and what was deactivated stays as it was.                   *)
THEOREM Kept == Spec => NothingUndone
<1> DEFINE Inv == /\ part = "settings" => SInv
                  /\ part \in Requests => RInv
                  /\ part = "mail" => OInv
                  /\ part = "migrations" => DInv
                  /\ part = "backups" => BInv
                  /\ part = "catalogue" => CInv /\ Booked
<1> DEFINE Step == /\ part = "settings" => S!NoLostUpdate
                   /\ part \in Requests => R!OneDecision /\ R!ArrivedKeepsStay
                   /\ part = "mail" => O!RedactedStays
                   /\ part = "migrations" => M!NothingOnMismatch
                   /\ part = "backups" => B!OnlyFinishedRunsPrune /\ B!DamagedKept
                   /\ part = "catalogue" => C!DeactivatedStays /\ C!PortalForActiveGuests
<1>1. Init => Inv
  BY BackOfficeInit
<1>2. Inv /\ [Next]_all => Inv'
  <2> SUFFICES ASSUME Inv, [Next]_all PROVE Inv'
    OBVIOUS
  <2>1. (part = "settings" => SInv') /\ (part \in Requests => RInv')
    BY BackOfficeStep, SettingsStep, SettingsStutter, RequestsStep
  <2>2. (part = "mail" => OInv') /\ (part = "migrations" => DInv')
    BY BackOfficeStep, MailStep, MigrationsStep
  <2>3. (part = "backups" => BInv') /\ (part = "catalogue" => CInv' /\ Booked')
    BY BackOfficeStep, BackupsStep, CatalogueStep, PortalKept
  <2> QED
    BY <2>1, <2>2, <2>3, BackOfficeStep
<1>3. Inv /\ [Next]_all => [Step]_all
  <2> SUFFICES ASSUME Inv, Next PROVE Step
    OBVIOUS
  <2>1. part = "settings" => S!Next
    BY DEF Next, SOnly, ROnly, OOnly, MOnly, BOnly, COnly, GOnly, Requests
  <2>2. part \in Requests => R!Next
    BY DEF Next, SOnly, ROnly, OOnly, MOnly, BOnly, COnly, GOnly, Requests
  <2>3. (part = "settings" => S!NoLostUpdate)
        /\ (part \in Requests => R!OneDecision /\ R!ArrivedKeepsStay)
    BY <2>1, <2>2, SettingsSaved, DecidedOnce, ArrivedKept
  <2>4. (part = "mail" => O!RedactedStays) /\ (part = "migrations" => M!NothingOnMismatch)
    BY BackOfficeStep, MailRedacted, MatchedOnly
  <2>5. /\ part = "backups" => B!OnlyFinishedRunsPrune /\ B!DamagedKept
        /\ part = "catalogue" => C!DeactivatedStays /\ C!PortalForActiveGuests
    BY BackOfficeStep, BackupsKept, CatalogueKept, PortalKept
  <2> QED
    BY <2>3, <2>4, <2>5
<1> QED
  BY <1>1, <1>2, <1>3, PTL DEF Spec, NothingUndone
=============================================================================
