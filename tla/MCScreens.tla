----------------------------- MODULE MCScreens ------------------------------
(* The screens that ask the server while the user goes on: small instances *)
(* of the paged list, of the two forms at the desk, of a list with its     *)
(* dialog, of the guest's booking page, of two reports and of the          *)
(* dashboard. A behaviour begins with the choice of one component and      *)
(* changes only its variables. The variables of the others stay None.      *)
EXTENDS Integers, FiniteSets, Sequences

CONSTANTS
  Filters, MaxPages, ListEvents,                            \* TableList
  Stays, Rooms, MaxEdits, MaxTaken, MaxPosts,               \* BookingForm
  Reservations, Total, MaxChoices,                          \* PaymentForm, with MaxPosts
  Methods, All, Invalid, PageSize, MaxPayments, MaxEvents,  \* Reports
  Records, New, MaxOpens, MaxSaves, BoardEvents,            \* ListBoard, with Filters
  Today, Prices, Currencies, MaxInits, MaxSearches, MaxConfirms, MaxChanges,
                                                            \* GuestBooking, with Stays, Rooms
  Places, Types, FloorPage, Lines, MaxRooms,                \* Occupancy, with MaxEvents
  Shared, Own, MaxLoads, MaxNow,                            \* Dashboard
  None

VARIABLES
  part,  \* the component of this behaviour
  mount, filters, page, rows, totalPages, loading, error, version, timer,
  requests, pages, events,
  stay, room, rooms, optionsLoading, optionsError, bookingVersion,
  bookingRequests, post, free, booked, offered, edits, taken, posts,
  reservation, amount, selected, paid, paymentOptionsLoading,
  paymentOptionsError, paymentVersion, paymentRequests, paymentPost,
  completed, created, read, choices, paymentPosts,
  payments, queries, filter, reportPage, shown, reportLoading, reportError,
  reportVersion, export, file, reportEvents,
  boardMount, boardFilters, boardPage, boardRows, boardTotalPages,
  boardLoading, boardError, boardVersion, boardTimer, boardRequests,
  boardPages, boardEvents, reads, boardShown, dialog, submitting, boardPost,
  saved, told, opens,
  ready, guestStay, guestLoading, saving, guestError, quote, guestSelected,
  inits, search, guestPost, price, currency, guestFree, reserved, bookings,
  confirmed, started, searches, confirms, changes,
  hotel, occupancyLoading, occupancyError, occupancy, occupancyRooms,
  occupancySelected, occupancyPage, load, begun, moved, occupancyEvents,
  dashboardMount, isLoading, hasLoadError, waiting, rejected,
  dashboardRequests, store, now, dashboardBegun, alone, loads

-----------------------------------------------------------------------------
T == INSTANCE TableList WITH MaxEvents <- ListEvents
ASSUME ListAssumption == T!PagesAssumption
TVars == <<mount, filters, page, rows, totalPages, loading, error, version,
           timer, requests, pages, events>>
TOff == mount = None /\ filters = None /\ page = None /\ rows = None /\
        totalPages = None /\ loading = None /\ error = None /\ version = None
        /\ timer = None /\ requests = None /\ pages = None /\ events = None

-----------------------------------------------------------------------------
B == INSTANCE BookingForm
  WITH version <- bookingVersion, requests <- bookingRequests
ASSUME BookingAssumption == B!NoneAssumption /\ B!BoundAssumption
BVars == <<stay, room, rooms, optionsLoading, optionsError, bookingVersion,
           bookingRequests, post, free, booked, offered, edits, taken, posts>>
BOff == stay = None /\ room = None /\ rooms = None /\ optionsLoading = None
        /\ optionsError = None /\ bookingVersion = None /\
        bookingRequests = None /\ post = None /\ free = None /\ booked = None
        /\ offered = None /\ edits = None /\ taken = None /\ posts = None

-----------------------------------------------------------------------------
P == INSTANCE PaymentForm
  WITH optionsLoading <- paymentOptionsLoading,
       optionsError <- paymentOptionsError, version <- paymentVersion,
       requests <- paymentRequests, post <- paymentPost,
       posts <- paymentPosts
ASSUME PaymentAssumption == P!NoneAssumption /\ P!BoundAssumption
PVars == <<reservation, amount, selected, paid, paymentOptionsLoading,
           paymentOptionsError, paymentVersion, paymentRequests, paymentPost,
           completed, created, read, choices, paymentPosts>>
POff == reservation = None /\ amount = None /\ selected = None /\ paid = None
        /\ paymentOptionsLoading = None /\ paymentOptionsError = None /\
        paymentVersion = None /\ paymentRequests = None /\ paymentPost = None
        /\ completed = None /\ created = None /\ read = None /\
        choices = None /\ paymentPosts = None

-----------------------------------------------------------------------------
R == INSTANCE Reports
  WITH page <- reportPage, loading <- reportLoading, error <- reportError,
       version <- reportVersion, events <- reportEvents
ASSUME ReportAssumption == R!PageSizeAssumption
RVars == <<payments, queries, filter, reportPage, shown, reportLoading,
           reportError, reportVersion, export, file, reportEvents>>
ROff == payments = None /\ queries = None /\ filter = None /\
        reportPage = None /\ shown = None /\ reportLoading = None /\
        reportError = None /\ reportVersion = None /\ export = None /\
        file = None /\ reportEvents = None

-----------------------------------------------------------------------------
L == INSTANCE ListBoard
  WITH MaxEvents <- BoardEvents, mount <- boardMount, filters <- boardFilters,
       page <- boardPage, rows <- boardRows, totalPages <- boardTotalPages,
       loading <- boardLoading, error <- boardError, version <- boardVersion,
       timer <- boardTimer, requests <- boardRequests, pages <- boardPages,
       events <- boardEvents, shown <- boardShown, post <- boardPost
ASSUME BoardAssumption == L!NoneAssumption /\ L!BoundAssumption
LVars == <<boardMount, boardFilters, boardPage, boardRows, boardTotalPages,
           boardLoading, boardError, boardVersion, boardTimer, boardRequests,
           boardPages, boardEvents, reads, boardShown, dialog, submitting,
           boardPost, saved, told, opens>>
LOff == boardMount = None /\ boardFilters = None /\ boardPage = None /\
        boardRows = None /\ boardTotalPages = None /\ boardLoading = None /\
        boardError = None /\ boardVersion = None /\ boardTimer = None /\
        boardRequests = None /\ boardPages = None /\ boardEvents = None /\
        reads = None /\ boardShown = None /\ dialog = None /\
        submitting = None /\ boardPost = None /\ saved = None /\ told = None
        /\ opens = None

-----------------------------------------------------------------------------
G == INSTANCE GuestBooking
  WITH stay <- guestStay,
       loading <- guestLoading, error <- guestError,
       selected <- guestSelected, post <- guestPost, free <- guestFree
ASSUME GuestAssumption == G!TodayAssumption /\ G!NoneAssumption /\ G!BoundAssumption
GVars == <<ready, guestStay, guestLoading, saving, guestError, quote,
           guestSelected, inits, search, guestPost, price, currency,
           guestFree, reserved, bookings, confirmed, started, searches,
           confirms, changes>>
GOff == ready = None /\ guestStay = None /\ guestLoading = None /\
        saving = None /\ guestError = None /\ quote = None /\
        guestSelected = None /\ inits = None /\ search = None /\
        guestPost = None /\ price = None /\ currency = None /\
        guestFree = None /\ reserved = None /\ bookings = None /\
        confirmed = None /\ started = None /\ searches = None /\
        confirms = None /\ changes = None

-----------------------------------------------------------------------------
O == INSTANCE Occupancy
  WITH PageSize <- FloorPage, loading <- occupancyLoading,
       error <- occupancyError, rooms <- occupancyRooms,
       selected <- occupancySelected, page <- occupancyPage,
       events <- occupancyEvents
ASSUME OccupancyAssumption == O!PageSizeAssumption /\ O!PlacesAssumption
OVars == <<hotel, occupancyLoading, occupancyError, occupancy,
           occupancyRooms, occupancySelected, occupancyPage, load, begun,
           moved, occupancyEvents>>
OOff == hotel = None /\ occupancyLoading = None /\ occupancyError = None /\
        occupancy = None /\ occupancyRooms = None /\ occupancySelected = None
        /\ occupancyPage = None /\ load = None /\ begun = None /\
        moved = None /\ occupancyEvents = None

-----------------------------------------------------------------------------
D == INSTANCE Dashboard
  WITH mount <- dashboardMount, requests <- dashboardRequests,
       begun <- dashboardBegun
ASSUME DashboardAssumption == D!PartsAssumption /\ D!NoneAssumption
DVars == <<dashboardMount, isLoading, hasLoadError, waiting, rejected,
           dashboardRequests, store, now, dashboardBegun, alone, loads>>
DOff == dashboardMount = None /\ isLoading = None /\ hasLoadError = None /\
        waiting = None /\ rejected = None /\ dashboardRequests = None /\
        store = None /\ now = None /\ dashboardBegun = None /\ alone = None
        /\ loads = None

-----------------------------------------------------------------------------
all == <<part, TVars, BVars, PVars, RVars, LVars, GVars, OVars, DVars>>

Init ==
  \/ part = "list" /\ T!Init
     /\ BOff /\ POff /\ ROff /\ LOff /\ GOff /\ OOff /\ DOff
  \/ part = "booking" /\ B!Init
     /\ TOff /\ POff /\ ROff /\ LOff /\ GOff /\ OOff /\ DOff
  \/ part = "payment" /\ P!Init
     /\ TOff /\ BOff /\ ROff /\ LOff /\ GOff /\ OOff /\ DOff
  \/ part = "report" /\ R!Init
     /\ TOff /\ BOff /\ POff /\ LOff /\ GOff /\ OOff /\ DOff
  \/ part = "board" /\ L!Init
     /\ TOff /\ BOff /\ POff /\ ROff /\ GOff /\ OOff /\ DOff
  \/ part = "guest" /\ G!Init
     /\ TOff /\ BOff /\ POff /\ ROff /\ LOff /\ OOff /\ DOff
  \/ part = "occupancy" /\ O!Init
     /\ TOff /\ BOff /\ POff /\ ROff /\ LOff /\ GOff /\ DOff
  \/ part = "dashboard" /\ D!Init
     /\ TOff /\ BOff /\ POff /\ ROff /\ LOff /\ GOff /\ OOff

TOnly == part = "list" /\ UNCHANGED <<part, BVars, PVars, RVars, LVars, GVars, OVars, DVars>>
BOnly == part = "booking" /\ UNCHANGED <<part, TVars, PVars, RVars, LVars, GVars, OVars, DVars>>
POnly == part = "payment" /\ UNCHANGED <<part, TVars, BVars, RVars, LVars, GVars, OVars, DVars>>
ROnly == part = "report" /\ UNCHANGED <<part, TVars, BVars, PVars, LVars, GVars, OVars, DVars>>
LOnly == part = "board" /\ UNCHANGED <<part, TVars, BVars, PVars, RVars, GVars, OVars, DVars>>
GOnly == part = "guest" /\ UNCHANGED <<part, TVars, BVars, PVars, RVars, LVars, OVars, DVars>>
OOnly == part = "occupancy" /\ UNCHANGED <<part, TVars, BVars, PVars, RVars, LVars, GVars, DVars>>
DOnly == part = "dashboard" /\ UNCHANGED <<part, TVars, BVars, PVars, RVars, LVars, GVars, OVars>>

Next ==
  \/ TOnly /\ T!Next
  \/ BOnly /\ B!Next
  \/ POnly /\ P!Next
  \/ ROnly /\ R!Next
  \/ LOnly /\ L!Next
  \/ GOnly /\ G!Next
  \/ OOnly /\ O!Next
  \/ DOnly /\ D!Next

Spec == Init /\ [][Next]_all

(* Something is awaited there.                                             *)
Waiting ==
  CASE part = "list"      -> mount # "gone" /\ loading
    [] part = "booking"   -> post # None
    [] part = "board"     -> submitting
    [] part = "guest"     -> search # None \/ saving
    [] part = "occupancy" -> occupancyLoading
    [] part = "dashboard" -> isLoading
    [] OTHER              -> FALSE

(* The requests under way there: the browser settles each of them and runs *)
(* the timers and what follows.                                            *)
Handled(k) ==
  \/ TOnly /\ IF k = 1 THEN T!Mount \/ T!Debounced
              ELSE \E r \in requests : T!Answer(r) \/ T!Fail(r)
  \/ BOnly /\ k = 1 /\ (B!Serve \/ B!Created \/ B!Failed)
  \/ LOnly /\ IF k = 1 THEN L!Serve \/ L!Succeed \/ L!Loaded \/ L!Failed
              ELSE \E r \in boardRequests : L!ReadRows(r) \/ L!Answer(r) \/ L!Fail(r)
  \/ GOnly /\ IF k = 1 THEN G!Serve \/ G!Booked \/ G!Refused
              ELSE G!ReadCurrency \/ G!SearchDone \/ G!SearchFailed
  \/ OOnly /\ k = 1 /\ (O!ReadSummary \/ O!ReadPage \/ O!Show \/ O!LoadFails)
  \/ DOnly /\ IF k = 1 THEN D!AllSettled
              ELSE \E r \in dashboardRequests : D!Serve(r) \/ D!Answer(r) \/ D!Fail(r)

FairSpec == Spec /\ \A k \in {1, 2} : WF_all(Handled(k))

(* What rests on the list and on the report is what their controls ask     *)
(* for, on a page that is still there; a save that was told is in the list *)
(* and a quote is for the dates on the screen.  The dashboard without an   *)
(* error shows every figure, read in this visit.                           *)
ShowsWhatIsAsked ==
  /\ part = "list" => T!TypeOK /\ T!ShowsWhatIsAsked /\ T!RestsOnAPage
  /\ part = "report" => R!TypeOK /\ R!ShowsWhatIsAsked
  /\ part = "board" => L!TypeOK /\ L!ShowsWhatWasSaved
  /\ part = "guest" => G!TypeOK /\ G!QuoteIsForTheseDates
  /\ part = "dashboard" => D!TypeOK /\ D!FiguresOfThisVisit

(* The forms send a room that was offered for exactly those dates and an   *)
(* amount within a balance read for that reservation; a submission that is *)
(* repeated books once and records twice at the most.  The dialog that     *)
(* saves is the one on the screen.  A guest is charged what the page       *)
(* showed.                                                                 *)
SentAsOffered ==
  /\ part = "booking" => B!TypeOK /\ B!OfferedOnly /\ B!BookedOnce
  /\ part = "payment" => P!TypeOK /\ P!WithinBalanceRead /\ P!RecordedTwiceAtMost
  /\ part = "board" => L!SavesWhatIsOpen
  /\ part = "guest" => G!BookedAsShown

(* The report's rows are as many as its total says, its three answers tell *)
(* the same income where no payment changed meanwhile, and an export of    *)
(* every method misses no payment there was when it was begun.  While no   *)
(* room is moved, the occupancy report misses no room.                     *)
ReportsWhole ==
  /\ part = "report" => R!Coherent /\ R!FiguresAgree /\ R!NothingSkipped
  /\ part = "occupancy" => O!TypeOK /\ O!EveryRoomThere /\ O!NoEmptyPage /\ O!FiguresAgree

(* The list's spinner ends and so does every submission, search and        *)
(* report; a component that is gone is not written to by late answers.     *)
ScreensSettle ==
  /\ []<>~Waiting
  /\ [][part = "list" => T!NothingAfterUnmount]_all
=============================================================================
