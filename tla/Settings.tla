------------------------------ MODULE Settings ------------------------------
(***************************************************************************)
(* The hotel's settings: the shared form with its version, the             *)
(* presentation page that writes the same row, and the currency, which may *)
(* change only while there is nothing priced in it.                        *)
(*                                                                         *)
(* A transaction is split where it takes the lock of the row and where it  *)
(* commits; what it read under the lock it uses until then.  A page keeps  *)
(* the row it loaded until it loads again.  A reservation remembers the    *)
(* currency its price was shown in, a column the table does not have.      *)
(*                                                                         *)
(* Left out: the time zone and its checks, the columns' formats, and all   *)
(* of a booking but its currency (module Stays).                           *)
(***************************************************************************)
EXTENDS Integers

CONSTANTS
  Workers,       \* browsers, each with one request at a time
  Currencies, FirstCurrency,
  Texts, FirstText,    \* the other fields of the form, and those of the presentation
  Reservations,
  Employees,
  MaxVersion,    \* bound on the version of the row
  None

FirstAssumption == FirstCurrency \in Currencies /\ FirstText \in Texts
VersionAssumption == MaxVersion \in Nat \ {0}
NoneAssumption == None \notin Currencies \union Reservations \union Employees

VARIABLES
  settings,   \* row 1 of hotel_settings
  page,       \* the row each browser shows
  booking,    \* reservation: who booked it and in which currency; None if free
  shift,      \* currency of each employee's open cash_shift
  checkout,   \* currency of the reservation's online_payment
  tx

vars == <<settings, page, booking, shift, checkout, tx>>

SettingsRow == [currency : Currencies, text : Texts, look : Texts, version : 1 .. MaxVersion]
BookingRows == [by : {"staff", "portal"}, currency : Currencies]
Ops == {"save", "present", "portal", "staff", "shift", "checkout"}

Idle == [op |-> "idle", step |-> "none", id |-> None, currency |-> FirstCurrency,
         text |-> FirstText]
Request(op, id, currency, text) ==
  [op |-> op, step |-> "begun", id |-> id, currency |-> currency, text |-> text]

TypeOK ==
  /\ settings \in SettingsRow
  /\ page \in [Workers -> SettingsRow]
  /\ booking \in [Reservations -> BookingRows \union {None}]
  /\ shift \in [Employees -> Currencies \union {None}]
  /\ checkout \in [Reservations -> Currencies \union {None}]
  /\ tx \in [Workers -> [op : Ops \union {"idle"}, step : {"none", "begun", "locked"},
                         id : Reservations \union Employees \union {None},
                         currency : Currencies, text : Texts]]
  /\ \A w \in Workers : tx[w].op = "idle" <=> tx[w].step = "none"

Init ==
  /\ settings = [currency |-> FirstCurrency, text |-> FirstText, look |-> FirstText,
                 version |-> 1]
  /\ page = [w \in Workers |-> settings]
  /\ booking = [v \in Reservations |-> None]
  /\ shift = [e \in Employees |-> None]
  /\ checkout = [v \in Reservations |-> None]
  /\ tx = [w \in Workers |-> Idle]

-----------------------------------------------------------------------------
(* The lock of the row: FOR UPDATE excludes every other lock, FOR SHARE    *)
(* only FOR UPDATE and UPDATE.                                             *)

Writers == {"save", "present"}
Holds(t, ops) == t.op \in ops /\ t.step = "locked"

(* Mutant: SELECT currency without FOR SHARE. *)
ShareNotLocked(w) == TRUE

NoWriter(w) == \A x \in Workers \ {w} : ~Holds(tx[x], Writers)
RowFree(w) == \A x \in Workers \ {w} : ~Holds(tx[x], Writers \union {"portal", "checkout"})

Step(w, step) == tx' = [tx EXCEPT ![w].step = step]

Finish(w) == tx' = [tx EXCEPT ![w] = Idle]

-----------------------------------------------------------------------------
(* The pages.                                                              *)

Load(w) ==
  /\ tx[w] = Idle
  /\ page' = [page EXCEPT ![w] = settings]
  /\ UNCHANGED <<settings, booking, shift, checkout, tx>>

Start(w, request) ==
  /\ tx[w] = Idle
  /\ tx' = [tx EXCEPT ![w] = request]
  /\ UNCHANGED <<settings, page, booking, shift, checkout>>

(* A staff booking and a shift read the currency of this moment; the       *)
(* portal sends the one its page shows.                                    *)
Begin(w) ==
  \/ \E c \in Currencies, t \in Texts : Start(w, Request("save", None, c, t))
  \/ \E t \in Texts : Start(w, Request("present", None, settings.currency, t))
  \/ \E v \in Reservations : booking[v] = None /\
       \/ Start(w, Request("portal", v, page[w].currency, FirstText))
       \/ Start(w, Request("staff", v, settings.currency, FirstText))
  \/ \E v \in Reservations : booking[v] # None /\ checkout[v] = None /\
       Start(w, Request("checkout", v, settings.currency, FirstText))
  \/ \E e \in Employees : shift[e] = None /\
       Start(w, Request("shift", e, settings.currency, FirstText))

(* Any error before COMMIT.                                                *)
Rollback(w) ==
  /\ tx[w] # Idle
  /\ Finish(w)
  /\ UNCHANGED <<settings, page, booking, shift, checkout>>

-----------------------------------------------------------------------------
(* saveSettings and the presentation.                                      *)

(* Mutant: the version is not compared. *)
AnyVersion(w) == TRUE

SameVersion(w) == settings.version = page[w].version
Priced == \/ \E v \in Reservations : booking[v] # None
          \/ \E e \in Employees : shift[e] # None

LockSave(w) ==
  /\ tx[w].op = "save" /\ tx[w].step = "begun"
  /\ RowFree(w)
  /\ SameVersion(w)
  /\ tx[w].currency # settings.currency => ~Priced
  /\ Step(w, "locked")
  /\ UNCHANGED <<settings, page, booking, shift, checkout>>

CommitSave(w) ==
  /\ Holds(tx[w], {"save"})
  /\ settings.version < MaxVersion
  /\ settings' = [settings EXCEPT !.currency = tx[w].currency, !.text = tx[w].text,
                                  !.version = @ + 1]
  /\ page' = [page EXCEPT ![w] = settings']
  /\ Finish(w)
  /\ UNCHANGED <<booking, shift, checkout>>

LockPresent(w) ==
  /\ tx[w].op = "present" /\ tx[w].step = "begun"
  /\ RowFree(w)
  /\ Step(w, "locked")
  /\ UNCHANGED <<settings, page, booking, shift, checkout>>

CommitPresent(w) ==
  /\ Holds(tx[w], {"present"})
  /\ settings.version < MaxVersion
  /\ settings' = [settings EXCEPT !.look = tx[w].text, !.version = @ + 1]
  /\ Finish(w)
  /\ UNCHANGED <<page, booking, shift, checkout>>

-----------------------------------------------------------------------------
(* What is priced in the currency.                                         *)

LockPortal(w) ==
  /\ tx[w].op = "portal" /\ tx[w].step = "begun"
  /\ NoWriter(w)
  /\ tx[w].currency = settings.currency
  /\ Step(w, "locked")
  /\ UNCHANGED <<settings, page, booking, shift, checkout>>

LockCheckout(w) ==
  /\ tx[w].op = "checkout" /\ tx[w].step = "begun"
  /\ NoWriter(w)
  /\ tx' = [tx EXCEPT ![w].step = "locked", ![w].currency = settings.currency]
  /\ UNCHANGED <<settings, page, booking, shift, checkout>>

(* The id of a new row is free until it is inserted.                       *)
CommitBooking(w) ==
  /\ tx[w].op = "staff" \/ Holds(tx[w], {"portal"})
  /\ booking[tx[w].id] = None
  /\ booking' = [booking EXCEPT ![tx[w].id] = [by |-> tx[w].op, currency |-> tx[w].currency]]
  /\ Finish(w)
  /\ UNCHANGED <<settings, page, shift, checkout>>

CommitShift(w) ==
  /\ tx[w].op = "shift" /\ shift[tx[w].id] = None
  /\ shift' = [shift EXCEPT ![tx[w].id] = tx[w].currency]
  /\ Finish(w)
  /\ UNCHANGED <<settings, page, booking, checkout>>

CommitCheckout(w) ==
  /\ Holds(tx[w], {"checkout"}) /\ checkout[tx[w].id] = None
  /\ checkout' = [checkout EXCEPT ![tx[w].id] = tx[w].currency]
  /\ Finish(w)
  /\ UNCHANGED <<settings, page, booking, shift>>

Next == \E w \in Workers :
  \/ Load(w) \/ Begin(w) \/ Rollback(w)
  \/ LockSave(w) \/ CommitSave(w) \/ LockPresent(w) \/ CommitPresent(w)
  \/ LockPortal(w) \/ LockCheckout(w)
  \/ CommitBooking(w) \/ CommitShift(w) \/ CommitCheckout(w)

Spec == Init /\ [][Next]_vars

-----------------------------------------------------------------------------
(* Properties.                                                             *)

(* What a guest agreed to pay in the portal is in the hotel's currency as  *)
(* long as the reservation exists: the share lock of create and the update *)
(* lock of saveSettings order the two, whichever comes first.              *)
PortalCurrencyKept == \A v \in Reservations :
  booking[v] # None => (booking[v].by = "portal" => booking[v].currency = settings.currency)

(* An online payment asks for the hotel's currency, though the checkout    *)
(* copies it and the settings may be saved at the same time.               *)
CheckoutInHotelCurrency == \A v \in Reservations :
  checkout[v] # None => checkout[v] = settings.currency

(* Nobody overwrites a change they have not seen: a save changes the form  *)
(* or the currency only over the very row its page had loaded, although    *)
(* presentation and other pages write that row too.                        *)
NoLostUpdate ==
  (settings'.text # settings.text \/ settings'.currency # settings.currency) =>
    \E w \in Workers : page[w] = settings /\ tx[w].op = "save" /\ tx'[w] = Idle
=============================================================================
