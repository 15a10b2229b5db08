---------------------------- MODULE GuestBooking -----------------------------
(* A guest books a room from the portal (pages/portal/book.vue) and the      *)
(* server's two transactions behind it (portalBookingService).  The page     *)
(* shows a quote; the booking repeats its total and its currency, and the    *)
(* server compares them with what it would charge now.                       *)
(*                                                                           *)
(* The fields are disabled while a search or a booking runs, but the page's  *)
(* initialisation also writes the dates, and it may be started twice: its    *)
(* retry button stays until one of them has answered.  The pages of a quote, *)
(* the number of guests and the texts are left out.                          *)
EXTENDS Integers

CONSTANTS
  Stays,         \* pairs of dates
  Today,         \* the dates the page begins with
  Rooms, None,
  Prices,        \* totals a room may have
  Currencies,
  MaxInits,      \* bound on the initialisations
  MaxSearches,   \* bound on the searches
  MaxConfirms,   \* bound on the bookings sent
  MaxChanges     \* bound on the changes by other people

TodayAssumption == Today \in Stays
Quotes == [stay : Stays, currency : Currencies,
           totals : UNION {[S -> Prices] : S \in SUBSET Rooms}]
Summaries == [stay : Stays, room : Rooms, total : Prices, currency : Currencies]
AllSearches == [newest : BOOLEAN, stay : Stays, currency : Currencies \cup {None}]
Posts == [id : Nat, sent : Summaries, result : {None, "created", "conflict"}]

NoneAssumption ==
  None \notin Stays \cup Rooms \cup Currencies \cup Quotes \cup AllSearches \cup Posts
BoundAssumption == MaxInits \in Nat \ {0}

VARIABLES
  ready, stay,
  loading, saving, error,
  quote,         \* what is shown, or None
  selected,      \* the room selected, or None
  inits,         \* initialisations not answered yet
  search,        \* the search running, or None
  post,          \* the booking sent, or None
  price, currency, free,                 \* the server
  reserved,      \* the server: somebody has made a reservation
  bookings,      \* reservations made from this page
  confirmed,     \* history: what was shown when the guest confirmed
  started, searches, confirms, changes   \* counters

page == <<ready, stay, loading, saving, error, quote, selected>>
server == <<price, currency, free, reserved, bookings>>
counters == <<started, searches, confirms, changes>>
vars == <<page, inits, search, post, server, confirmed, counters>>

Init ==
  /\ ready = FALSE /\ stay = None
  /\ loading = FALSE /\ saving = FALSE /\ error = FALSE
  /\ quote = None /\ selected = None
  /\ inits = 1 /\ search = None /\ post = None
  /\ price \in [Rooms -> Prices] /\ currency \in Currencies
  /\ reserved \in BOOLEAN
  /\ free = [s \in Stays |-> IF reserved THEN {} ELSE Rooms]
  /\ bookings = {} /\ confirmed = {}
  /\ started = 1 /\ searches = 0 /\ confirms = 0 /\ changes = 0

-----------------------------------------------------------------------------
(* initialize(): the hotel is asked for its times, then the dates are set.   *)

(* ++searchVersion: a search that is still running is no longer the newest.  *)
Outdated == IF search = None THEN None ELSE [search EXCEPT !.newest = FALSE]

(* watch([arrival,departure,adults,children]) runs when a value changes.     *)
DatesBecome(s) ==
  /\ stay' = s
  /\ IF s = stay
     THEN UNCHANGED <<search, quote, selected>>
     ELSE /\ search' = Outdated
          /\ quote' = None /\ selected' = None

RetryInit ==
  /\ ~ready /\ error
  /\ started < MaxInits /\ started' = started + 1
  /\ inits' = inits + 1
  /\ UNCHANGED <<page, search, post, server, confirmed, searches, confirms, changes>>

InitDone ==
  /\ inits > 0 /\ inits' = inits - 1
  /\ ready' = TRUE /\ error' = FALSE
  /\ DatesBecome(Today)
  /\ UNCHANGED <<loading, saving, post, server, confirmed, counters>>

InitFailed ==
  /\ inits > 0 /\ inits' = inits - 1
  /\ error' = TRUE
  /\ UNCHANGED <<ready, stay, loading, saving, quote, selected,
                 search, post, server, confirmed, counters>>

-----------------------------------------------------------------------------
(* The search for rooms.                                                     *)

FieldsEnabled == ready /\ ~loading /\ ~saving

Edit(s) ==
  /\ FieldsEnabled /\ s # stay /\ DatesBecome(s)
  /\ UNCHANGED <<ready, loading, saving, error, inits, post, server,
                 confirmed, counters>>

Search ==
  /\ FieldsEnabled
  /\ searches < MaxSearches /\ searches' = searches + 1
  /\ error' = FALSE /\ quote' = None /\ selected' = None /\ loading' = TRUE
  /\ search' = [newest |-> TRUE, stay |-> stay, currency |-> None]
  /\ UNCHANGED <<ready, stay, saving, inits, post, server, confirmed, started, confirms, changes>>

(* availability() reads the currency, then the rooms and their prices: each  *)
(* statement sees what is committed when it begins.                          *)
ReadCurrency ==
  /\ search # None /\ search.currency = None
  /\ search' = [search EXCEPT !.currency = currency]
  /\ UNCHANGED <<page, inits, post, server, confirmed, counters>>

Offers(s) == [x \in free[s] |-> price[x]]

(* if(version===searchVersion) *)
Newest(r) == r.newest

SearchDone ==
  /\ search # None /\ search.currency # None /\ search' = None
  /\ quote' = IF Newest(search)
              THEN [stay |-> search.stay, currency |-> search.currency,
                    totals |-> Offers(search.stay)]
              ELSE quote
  /\ loading' = FALSE
  /\ UNCHANGED <<ready, stay, saving, error, selected, inits, post, server,
                 confirmed, counters>>

SearchFailed ==
  /\ search # None /\ search' = None
  /\ error' = (error \/ Newest(search))
  /\ loading' = FALSE
  /\ UNCHANGED <<ready, stay, saving, quote, selected, inits, post, server,
                 confirmed, counters>>

-----------------------------------------------------------------------------
(* The booking.                                                              *)

Shown == quote # None /\ ~loading

Select(x) ==
  /\ Shown /\ ~saving
  /\ x \in DOMAIN quote.totals /\ x # selected /\ selected' = x
  /\ UNCHANGED <<ready, stay, loading, saving, error, quote, inits, search, post,
                 server, confirmed, counters>>

Summary == [stay |-> stay, room |-> selected, total |-> quote.totals[selected],
            currency |-> quote.currency]

Confirm ==
  /\ Shown /\ selected # None /\ ~saving
  /\ confirms < MaxConfirms /\ confirms' = confirms + 1
  /\ saving' = TRUE /\ error' = FALSE
  /\ post' = [id |-> confirms + 1, sent |-> Summary, result |-> None]
  /\ confirmed' = confirmed \cup {[id |-> confirms + 1, sent |-> Summary]}
  /\ UNCHANGED <<ready, stay, loading, quote, selected, inits, search, server,
                 started, searches, changes>>

(* totalCents!==cents(data.expected_total)||currency!==data.expected_currency *)
SameTariff(b) == price[b.room] = b.total /\ currency = b.currency

(* create(): the room, its type and the hotel's settings are locked before   *)
(* they are read, so that the transaction is one step.                       *)
Serve ==
  /\ post # None /\ post.result = None
  /\ LET ask == post.sent IN
     IF ask.room \in free[ask.stay] /\ SameTariff(ask)
     THEN /\ bookings' = bookings \cup
                 {[id |-> post.id,
                   sent |-> [ask EXCEPT !.total = price[ask.room], !.currency = currency]]}
          /\ free' = [free EXCEPT ![ask.stay] = @ \ {ask.room}]
          /\ reserved' = TRUE
          /\ post' = [post EXCEPT !.result = "created"]
     ELSE /\ post' = [post EXCEPT !.result = "conflict"]
          /\ UNCHANGED <<bookings, free, reserved>>
  /\ UNCHANGED <<page, inits, search, price, currency, confirmed, counters>>

(* 201: the guest is taken to the reservation and leaves the page.           *)
Booked ==
  /\ post # None /\ post.result = "created" /\ post' = None
  /\ ready' = FALSE /\ saving' = FALSE /\ error' = FALSE
  /\ quote' = None /\ selected' = None /\ inits' = 0
  /\ UNCHANGED <<stay, loading, search, server, confirmed, counters>>

(* A refusal, or an answer that was lost: nothing is sent again (retry:0).   *)
Refused ==
  /\ post # None /\ post' = None
  /\ saving' = FALSE /\ error' = TRUE
  /\ quote' = None /\ selected' = None
  /\ UNCHANGED <<ready, stay, loading, inits, search, server, confirmed, counters>>

-----------------------------------------------------------------------------
(* Other people: prices, the currency (only before the first reservation or  *)
(* shift) and other bookings.                                                *)
Changed == changes < MaxChanges /\ changes' = changes + 1

Reprice(x, p) ==
  /\ Changed /\ p # price[x] /\ price' = [price EXCEPT ![x] = p]
  /\ UNCHANGED <<page, inits, search, post, currency, free, reserved, bookings, confirmed,
                 started, searches, confirms>>

ChangeCurrency(c) ==
  /\ Changed /\ ~reserved
  /\ c # currency /\ currency' = c
  /\ UNCHANGED <<page, inits, search, post, price, free, reserved, bookings, confirmed,
                 started, searches, confirms>>

OthersBook(s, x) ==
  /\ Changed /\ x \in free[s] /\ free' = [free EXCEPT ![s] = @ \ {x}]
  /\ reserved' = TRUE
  /\ UNCHANGED <<page, inits, search, post, price, currency, bookings, confirmed,
                 started, searches, confirms>>

OthersCancel(s, x) ==
  /\ Changed /\ x \notin free[s] /\ \A b \in bookings : b.sent.stay # s \/ b.sent.room # x
  /\ free' = [free EXCEPT ![s] = @ \cup {x}]
  /\ UNCHANGED <<page, inits, search, post, price, currency, reserved, bookings, confirmed,
                 started, searches, confirms>>

Next ==
  \/ RetryInit \/ InitDone \/ InitFailed
  \/ \E s \in Stays : Edit(s)
  \/ Search \/ ReadCurrency \/ SearchDone \/ SearchFailed
  \/ \E x \in Rooms : Select(x)
  \/ Confirm \/ Serve \/ Booked \/ Refused
  \/ \E x \in Rooms, p \in Prices : Reprice(x, p)
  \/ \E c \in Currencies : ChangeCurrency(c)
  \/ \E s \in Stays, x \in Rooms : OthersBook(s, x) \/ OthersCancel(s, x)

Spec == Init /\ [][Next]_vars

(* The browser settles every request.                                        *)
FairSpec ==
  /\ Spec
  /\ WF_vars(ReadCurrency \/ SearchDone \/ SearchFailed)
  /\ WF_vars(Serve \/ Booked \/ Refused)

-----------------------------------------------------------------------------
(* The spinners run only while an answer is awaited, and the room selected   *)
(* is one of the quote.                                                      *)
TypeOK ==
  /\ stay \in Stays \cup {None} /\ selected \in Rooms \cup {None}
  /\ inits \in 0..MaxInits /\ currency \in Currencies /\ price \in [Rooms -> Prices]
  /\ loading => search # None \/ ~ready
  /\ saving <=> post # None
  /\ selected # None => quote # None /\ selected \in DOMAIN quote.totals

(* A quote on the screen is for the dates on the screen, although an earlier *)
(* search or a second initialisation may answer at any moment.               *)
QuoteIsForTheseDates == quote # None => quote.stay = stay

(* A guest is never charged anything but what the page showed when the       *)
(* booking was confirmed, whatever was repriced in between: each reservation *)
(* has the dates, the room, the total and the currency of that summary.      *)
BookedAsShown == bookings \subseteq confirmed

(* Every search and every booking ends.                                      *)
BookingSettles == (search # None \/ saving) ~> (search = None /\ ~saving)
=============================================================================
