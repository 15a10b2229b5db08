------------------------------ MODULE MCDesks -------------------------------
(* The staff's pages that change something: small instances of the pages   *)
(* of a payment, a guest, arrivals and departures, the rooms, the          *)
(* settings, the team and the guests' requests, and of the session shown   *)
(* by the tabs of a browser. A behaviour begins with the choice of one     *)
(* component and changes only its variables. The variables of the others   *)
(* stay None.                                                              *)
EXTENDS Integers

CONSTANTS
  MaxVisits, MaxClicks, MaxTypes, MaxCalls, MaxLoads, MaxOthers,
                                            \* bounds of several pages
  Payments,                                 \* PaymentDesk
  Guests, Drafts, Days, Prices, PageSize, Lines, FileBooked,
                                            \* ClientFile
  BrowserTabs, Users, Role, Protected, SessionIds, Addresses, SessionCalls,
                                            \* FrontSession
  Stays, FirstStays, StayVisits,            \* StayDesk
  Rooms, Numbers, FirstNumber,              \* RoomsDesk
  Texts, NoText, SettingsLoads, Exports, MaxKept,
                                            \* SettingsPage
  Staff, Me, TeamCalls,                     \* TeamPage
  Requests, MaxActs,                        \* RequestsDesk, with Prices
  None, New,
  a, b, x, guest, boss                      \* values of the smallest instances

(* For TLC: a guest of the portal and an administrator, and one room.      *)
TheRoles == [u \in {guest, boss} |-> IF u = guest THEN "customer" ELSE "admin"]
TheNumber == [r \in {a} |-> x]

VARIABLES
  part,  \* the component of this behaviour
  page, visit, current, updating, reads, clicks, status, made, told, last,
  others,
  filePage, fileVisit, fileCurrent, form, baseline, editing, asking, saving,
  deleting, fileReads, calls, file, registered, fileMade, fileTold,
  confirmed, typed, fileLast, fileOthers, bookings, trail, history,
  historyPage, historyError, past, moved,
  cookie, owner, live, tab, tabCalls, tabLast, done, tabTold,
  stayPage, stayVisit, rows, stayCurrent, awaited, chosen, box, busy,
  requests, stayStatus, stayMade, stayTold, stayLast, stayOthers,
  roomRows, error, asked, loads, dialog, roomForm, roomBaseline, roomSaving,
  roomCalls, number, roomStatus, clock, roomMade, roomTold, roomConfirmed,
  roomTyped, roomLast, roomOthers,
  settingsTab, settingsVisit, shared, settingsForm, settingsBaseline, loaded,
  settingsSaving, settingsLoads, settingsCalls, prefs, prefsBase, stored,
  row, settingsMade, over, settingsTold, settingsConfirmed, settingsTyped,
  settingsAsked, settingsLast, settingsOthers,
  exported, exports, kept, files, taken, removed,
  teamRows, teamError, teamAsked, teamLoads, teamDialog, teamSaving,
  question, changing, teamCalls, active, teamClock, teamMade, teamTold,
  teamLast, teamOthers,
  filter, requestsRows, selected, decisions, totals, requestsBusy,
  requestsError, notice, review, price, requestsTold, acts, requestsOthers

-----------------------------------------------------------------------------
P == INSTANCE PaymentDesk
ASSUME PaymentAssumption == P!NoneAssumption /\ P!BoundAssumption
PVars == <<page, visit, current, updating, reads, clicks, status, made, told,
           last, others>>
POff == page = None /\ visit = None /\ current = None /\ updating = None /\
        reads = None /\ clicks = None /\ status = None /\ made = None /\
        told = None /\ last = None /\ others = None

-----------------------------------------------------------------------------
(* The same page alone, for what must end.                                 *)
PE == INSTANCE PaymentDesk
  WITH Payments <- {a}, MaxVisits <- 1, MaxClicks <- 2, MaxOthers <- 1

-----------------------------------------------------------------------------
C == INSTANCE ClientFile
  WITH MaxBooked <- FileBooked, page <- filePage, visit <- fileVisit,
       current <- fileCurrent, reads <- fileReads, made <- fileMade,
       told <- fileTold, last <- fileLast, others <- fileOthers
ASSUME FileAssumption == C!NoneAssumption /\ C!PageSizeAssumption /\ C!BoundAssumption
CVars == <<filePage, fileVisit, fileCurrent, form, baseline, editing, asking,
           saving, deleting, fileReads, calls, file, registered, fileMade,
           fileTold, confirmed, typed, fileLast, fileOthers, bookings,
           trail, history, historyPage, historyError, past, moved>>
COff == filePage = None /\ fileVisit = None /\ fileCurrent = None /\
        form = None /\ baseline = None /\ editing = None /\ asking = None /\
        saving = None /\ deleting = None /\ fileReads = None /\ calls = None
        /\ file = None /\ registered = None /\ fileMade = None /\
        fileTold = None /\ confirmed = None /\ typed = None /\
        fileLast = None /\ fileOthers = None /\ bookings = None /\
        trail = None /\ history = None /\ historyPage = None /\
        historyError = None /\ past = None /\ moved = None

-----------------------------------------------------------------------------
(* One guest and a new one, one page.                                      *)
CE == INSTANCE ClientFile
  WITH Guests <- {a}, Drafts <- {x}, MaxVisits <- 1, MaxTypes <- 1,
       MaxCalls <- 1, MaxOthers <- 1, Days <- {1}, Prices <- {1},
       PageSize <- 1, Lines <- 1, MaxBooked <- 0,
       page <- filePage, visit <- fileVisit,
       current <- fileCurrent, reads <- fileReads, made <- fileMade,
       told <- fileTold, last <- fileLast, others <- fileOthers

-----------------------------------------------------------------------------
(* One page opened, up to three reservations, and one of them moved to     *)
(* another day.                                                            *)
CH == INSTANCE ClientFile
  WITH Drafts <- {}, MaxVisits <- 1, MaxTypes <- 0,
       MaxCalls <- 0, Prices <- {1}, MaxBooked <- 3,
       page <- filePage, visit <- fileVisit,
       current <- fileCurrent, reads <- fileReads, made <- fileMade,
       told <- fileTold, last <- fileLast, others <- fileOthers

-----------------------------------------------------------------------------
F == INSTANCE FrontSession
  WITH Tabs <- BrowserTabs, Ids <- SessionIds, MaxCalls <- SessionCalls,
       calls <- tabCalls, last <- tabLast, told <- tabTold
ASSUME SessionAssumption == F!RoleAssumption /\ F!NoneAssumption
FVars == <<cookie, owner, live, tab, tabCalls, tabLast, done, tabTold>>
FOff == cookie = None /\ owner = None /\ live = None /\ tab = None /\
        tabCalls = None /\ tabLast = None /\ done = None /\ tabTold = None

-----------------------------------------------------------------------------
(* One tab, an administrator with a second factor and four requests.       *)
M == INSTANCE FrontSession
  WITH Tabs <- {a}, Protected <- {boss}, Ids <- SessionIds,
       Addresses <- {"portal", "admin"}, MaxCalls <- 4,
       calls <- tabCalls, last <- tabLast, told <- tabTold

-----------------------------------------------------------------------------
S == INSTANCE StayDesk
  WITH First <- FirstStays, MaxVisits <- StayVisits, page <- stayPage, visit <- stayVisit,
       current <- stayCurrent, status <- stayStatus, made <- stayMade,
       told <- stayTold, last <- stayLast, others <- stayOthers
ASSUME StayAssumption == S!FirstAssumption /\ S!NoneAssumption /\ S!BoundAssumption
SVars == <<stayPage, stayVisit, rows, stayCurrent, awaited, chosen, box,
           busy, requests, stayStatus, stayMade, stayTold, stayLast,
           stayOthers>>
SOff == stayPage = None /\ stayVisit = None /\ rows = None /\
        stayCurrent = None /\ awaited = None /\ chosen = None /\ box = None
        /\ busy = None /\ requests = None /\ stayStatus = None /\
        stayMade = None /\ stayTold = None /\ stayLast = None /\
        stayOthers = None

-----------------------------------------------------------------------------
(* One stay.                                                               *)
SE == INSTANCE StayDesk
  WITH Stays <- {a}, First <- {a}, MaxVisits <- 1, MaxClicks <- 2,
       MaxOthers <- 0, page <- stayPage, visit <- stayVisit,
       current <- stayCurrent, status <- stayStatus, made <- stayMade,
       told <- stayTold, last <- stayLast, others <- stayOthers

-----------------------------------------------------------------------------
R == INSTANCE RoomsDesk
  WITH First <- FirstNumber, rows <- roomRows, form <- roomForm, baseline <- roomBaseline,
       saving <- roomSaving, calls <- roomCalls, status <- roomStatus,
       made <- roomMade, told <- roomTold, confirmed <- roomConfirmed,
       typed <- roomTyped, last <- roomLast, others <- roomOthers
ASSUME RoomAssumption == R!FirstAssumption /\ R!BoundAssumption
RVars == <<roomRows, error, asked, loads, dialog, roomForm, roomBaseline,
           roomSaving, roomCalls, number, roomStatus, clock, roomMade,
           roomTold, roomConfirmed, roomTyped, roomLast, roomOthers>>
ROff == roomRows = None /\ error = None /\ asked = None /\ loads = None /\
        dialog = None /\ roomForm = None /\ roomBaseline = None /\
        roomSaving = None /\ roomCalls = None /\ number = None /\
        roomStatus = None /\ clock = None /\ roomMade = None /\
        roomTold = None /\ roomConfirmed = None /\ roomTyped = None /\
        roomLast = None /\ roomOthers = None

-----------------------------------------------------------------------------
H == INSTANCE SettingsPage
  WITH Blank <- NoText, MaxLoads <- SettingsLoads, MaxExports <- Exports, tab <- settingsTab,
       visit <- settingsVisit, form <- settingsForm,
       baseline <- settingsBaseline, saving <- settingsSaving,
       loads <- settingsLoads, calls <- settingsCalls, made <- settingsMade,
       told <- settingsTold, confirmed <- settingsConfirmed,
       typed <- settingsTyped, asked <- settingsAsked, last <- settingsLast,
       others <- settingsOthers
ASSUME SettingsAssumption == H!BlankAssumption /\ H!BoundAssumption
HVars == <<settingsTab, settingsVisit, shared, settingsForm,
           settingsBaseline, loaded, settingsSaving, settingsLoads,
           settingsCalls, prefs, prefsBase, stored, row, settingsMade, over,
           settingsTold, settingsConfirmed, settingsTyped, settingsAsked,
           settingsLast, settingsOthers, exported, exports, kept, files,
           taken, removed>>
HOff == settingsTab = None /\ settingsVisit = None /\ shared = None /\
        settingsForm = None /\ settingsBaseline = None /\ loaded = None /\
        settingsSaving = None /\ settingsLoads = None /\ settingsCalls = None
        /\ prefs = None /\ prefsBase = None /\ stored = None /\ row = None /\
        settingsMade = None /\ over = None /\ settingsTold = None /\
        settingsConfirmed = None /\ settingsTyped = None /\
        settingsAsked = None /\ settingsLast = None /\ settingsOthers = None
        /\ exported = None /\ exports = None /\ kept = None /\ files = None
        /\ taken = None /\ removed = None

-----------------------------------------------------------------------------
(* One visit and one read.                                                 *)
HE == INSTANCE SettingsPage
  WITH Blank <- NoText, MaxVisits <- 1, MaxTypes <- 1, MaxCalls <- 1, MaxLoads <- 1,
       MaxOthers <- 1, MaxExports <- 0, tab <- settingsTab,
       visit <- settingsVisit, form <- settingsForm,
       baseline <- settingsBaseline, saving <- settingsSaving,
       loads <- settingsLoads, calls <- settingsCalls, made <- settingsMade,
       told <- settingsTold, confirmed <- settingsConfirmed,
       typed <- settingsTyped, asked <- settingsAsked, last <- settingsLast,
       others <- settingsOthers

-----------------------------------------------------------------------------
(* Two exports and two visits.                                             *)
HX == INSTANCE SettingsPage
  WITH Blank <- NoText, Texts <- {"x"}, MaxVisits <- 2, MaxTypes <- 0, MaxCalls <- 0,
       MaxLoads <- 0, MaxOthers <- 0, MaxExports <- 2, tab <- settingsTab,
       visit <- settingsVisit, form <- settingsForm,
       baseline <- settingsBaseline, saving <- settingsSaving,
       loads <- settingsLoads, calls <- settingsCalls, made <- settingsMade,
       told <- settingsTold, confirmed <- settingsConfirmed,
       typed <- settingsTyped, asked <- settingsAsked, last <- settingsLast,
       others <- settingsOthers

-----------------------------------------------------------------------------
T == INSTANCE TeamPage
  WITH Users <- Staff, MaxCalls <- TeamCalls, rows <- teamRows, error <- teamError,
       asked <- teamAsked, loads <- teamLoads, dialog <- teamDialog,
       saving <- teamSaving, calls <- teamCalls, clock <- teamClock,
       made <- teamMade, told <- teamTold, last <- teamLast,
       others <- teamOthers
ASSUME TeamAssumption == T!MeAssumption /\ T!BoundAssumption
TVars == <<teamRows, teamError, teamAsked, teamLoads, teamDialog, teamSaving,
           question, changing, teamCalls, active, teamClock, teamMade,
           teamTold, teamLast, teamOthers>>
TOff == teamRows = None /\ teamError = None /\ teamAsked = None /\
        teamLoads = None /\ teamDialog = None /\ teamSaving = None /\
        question = None /\ changing = None /\ teamCalls = None /\
        active = None /\ teamClock = None /\ teamMade = None /\
        teamTold = None /\ teamLast = None /\ teamOthers = None

-----------------------------------------------------------------------------
(* The same team by itself.                                                *)
TE == INSTANCE TeamPage
  WITH Users <- Staff, MaxCalls <- TeamCalls, MaxLoads <- 0,
       MaxOthers <- 0, rows <- teamRows, error <- teamError,
       asked <- teamAsked, loads <- teamLoads, dialog <- teamDialog,
       saving <- teamSaving, calls <- teamCalls, clock <- teamClock,
       made <- teamMade, told <- teamTold, last <- teamLast,
       others <- teamOthers

-----------------------------------------------------------------------------
Q == INSTANCE RequestsDesk
  WITH rows <- requestsRows, busy <- requestsBusy, error <- requestsError,
       told <- requestsTold, others <- requestsOthers
ASSUME RequestAssumption == Q!NoneAssumption
QVars == <<filter, requestsRows, selected, decisions, totals, requestsBusy,
           requestsError, notice, review, price, requestsTold, acts,
           requestsOthers>>
QOff == filter = None /\ requestsRows = None /\ selected = None /\
        decisions = None /\ totals = None /\ requestsBusy = None /\
        requestsError = None /\ notice = None /\ review = None /\
        price = None /\ requestsTold = None /\ acts = None /\
        requestsOthers = None

-----------------------------------------------------------------------------
all == <<part, PVars, CVars, FVars, SVars, RVars, HVars, TVars, QVars>>

Init ==
  \/ part = "payment" /\ P!Init
     /\ COff /\ FOff /\ SOff /\ ROff /\ HOff /\ TOff /\ QOff
  \/ part = "payment ends" /\ PE!Init
     /\ COff /\ FOff /\ SOff /\ ROff /\ HOff /\ TOff /\ QOff
  \/ part = "file" /\ C!Init
     /\ POff /\ FOff /\ SOff /\ ROff /\ HOff /\ TOff /\ QOff
  \/ part = "file ends" /\ CE!Init
     /\ POff /\ FOff /\ SOff /\ ROff /\ HOff /\ TOff /\ QOff
  \/ part = "history" /\ CH!Init
     /\ POff /\ FOff /\ SOff /\ ROff /\ HOff /\ TOff /\ QOff
  \/ part = "tabs" /\ F!Init
     /\ POff /\ COff /\ SOff /\ ROff /\ HOff /\ TOff /\ QOff
  \/ part = "factor" /\ M!Init
     /\ POff /\ COff /\ SOff /\ ROff /\ HOff /\ TOff /\ QOff
  \/ part = "stays" /\ S!Init
     /\ POff /\ COff /\ FOff /\ ROff /\ HOff /\ TOff /\ QOff
  \/ part = "stays end" /\ SE!Init
     /\ POff /\ COff /\ FOff /\ ROff /\ HOff /\ TOff /\ QOff
  \/ part = "rooms" /\ R!Init
     /\ POff /\ COff /\ FOff /\ SOff /\ HOff /\ TOff /\ QOff
  \/ part = "settings" /\ H!Init
     /\ POff /\ COff /\ FOff /\ SOff /\ ROff /\ TOff /\ QOff
  \/ part = "settings end" /\ HE!Init
     /\ POff /\ COff /\ FOff /\ SOff /\ ROff /\ TOff /\ QOff
  \/ part = "exports" /\ HX!Init
     /\ POff /\ COff /\ FOff /\ SOff /\ ROff /\ TOff /\ QOff
  \/ part = "team" /\ T!Init
     /\ POff /\ COff /\ FOff /\ SOff /\ ROff /\ HOff /\ QOff
  \/ part = "team ends" /\ TE!Init
     /\ POff /\ COff /\ FOff /\ SOff /\ ROff /\ HOff /\ QOff
  \/ part = "requests" /\ Q!Init
     /\ POff /\ COff /\ FOff /\ SOff /\ ROff /\ HOff /\ TOff

POnly == part = "payment" /\ UNCHANGED <<part, CVars, FVars, SVars, RVars, HVars, TVars, QVars>>
PEOnly == part = "payment ends" /\ UNCHANGED <<part, CVars, FVars, SVars, RVars, HVars, TVars, QVars>>
COnly == part = "file" /\ UNCHANGED <<part, PVars, FVars, SVars, RVars, HVars, TVars, QVars>>
CEOnly == part = "file ends" /\ UNCHANGED <<part, PVars, FVars, SVars, RVars, HVars, TVars, QVars>>
CHOnly == part = "history" /\ UNCHANGED <<part, PVars, FVars, SVars, RVars, HVars, TVars, QVars>>
FOnly == part = "tabs" /\ UNCHANGED <<part, PVars, CVars, SVars, RVars, HVars, TVars, QVars>>
MOnly == part = "factor" /\ UNCHANGED <<part, PVars, CVars, SVars, RVars, HVars, TVars, QVars>>
SOnly == part = "stays" /\ UNCHANGED <<part, PVars, CVars, FVars, RVars, HVars, TVars, QVars>>
SEOnly == part = "stays end" /\ UNCHANGED <<part, PVars, CVars, FVars, RVars, HVars, TVars, QVars>>
ROnly == part = "rooms" /\ UNCHANGED <<part, PVars, CVars, FVars, SVars, HVars, TVars, QVars>>
HOnly == part = "settings" /\ UNCHANGED <<part, PVars, CVars, FVars, SVars, RVars, TVars, QVars>>
HEOnly == part = "settings end" /\ UNCHANGED <<part, PVars, CVars, FVars, SVars, RVars, TVars, QVars>>
HXOnly == part = "exports" /\ UNCHANGED <<part, PVars, CVars, FVars, SVars, RVars, TVars, QVars>>
TOnly == part = "team" /\ UNCHANGED <<part, PVars, CVars, FVars, SVars, RVars, HVars, QVars>>
TEOnly == part = "team ends" /\ UNCHANGED <<part, PVars, CVars, FVars, SVars, RVars, HVars, QVars>>
QOnly == part = "requests" /\ UNCHANGED <<part, PVars, CVars, FVars, SVars, RVars, HVars, TVars>>

Next ==
  \/ POnly /\ P!Next
  \/ PEOnly /\ PE!Next
  \/ COnly /\ C!Next
  \/ CEOnly /\ CE!Next
  \/ CHOnly /\ CH!Next
  \/ FOnly /\ F!Next
  \/ MOnly /\ M!Next
  \/ SOnly /\ S!Next
  \/ SEOnly /\ SE!Next
  \/ ROnly /\ R!Next
  \/ HOnly /\ H!Next
  \/ HEOnly /\ HE!Next
  \/ HXOnly /\ HX!Next
  \/ TOnly /\ T!Next
  \/ TEOnly /\ TE!Next
  \/ QOnly /\ Q!Next

Spec == Init /\ [][Next]_all

(* What a page waits for, in up to two places at once.                     *)
Waiting(k) ==
  CASE part = "payment ends" -> k = 1 /\ updating
    [] part = "file ends"    -> IF k = 1 THEN saving ELSE deleting
    [] part = "factor"       -> k = 1 /\ tab[a].loading
    [] part = "stays end"    -> k = 1 /\ busy # None
    [] part = "rooms"        -> k = 1 /\ roomSaving
    [] part = "settings end" -> k = 1 /\ settingsSaving
    [] part = "team ends"    -> IF k = 1 THEN teamSaving ELSE changing # None
    [] part = "requests"     -> k = 1 /\ requestsBusy # None
    [] OTHER                 -> FALSE

(* The requests under way there: the browser answers each or gives it up,  *)
(* and runs what follows.                                                  *)
Handled(k) ==
  \/ PEOnly /\ \E c \in clicks : PE!Serve(c) \/ PE!Succeed(c) \/ PE!Fail(c)
  \/ CEOnly /\ \E c \in calls : CE!Serve(c) \/ CE!Succeed(c) \/ CE!Fail(c)
  \/ MOnly /\ \E c \in tabCalls : M!Serve(c) \/ M!Answer(c) \/ M!Lose(c)
  \/ SEOnly /\ \E r \in requests :
       r.n = k /\ (SE!Post(r) \/ SE!Serve(r) \/ SE!Continue(r) \/ SE!Fail(r))
  \/ ROnly /\ \/ \E c \in roomCalls :
                   c.op # "maintain" /\ (R!Serve(c) \/ R!Succeed(c) \/ R!Fail(c))
              \/ \E l \in loads : l.saver /\ (R!ServeLoad(l) \/ R!Show(l) \/ R!LoadFails(l))
  \/ HEOnly /\ \E c \in settingsCalls : HE!ServeSave(c) \/ HE!Saved(c) \/ HE!SaveFails(c)
  \/ TEOnly /\ \/ \E c \in teamCalls :
                    (c.op = "toggle") = (k = 2) /\ (TE!Serve(c) \/ TE!Succeed(c) \/ TE!Fail(c))
               \/ \E l \in teamLoads :
                    /\ l.call # None /\ (l.call.op = "toggle") = (k = 2)
                    /\ TE!ServeLoad(l) \/ TE!Show(l) \/ TE!LoadFails(l)
  \/ QOnly /\ k = 1 /\ (Q!Serve \/ Q!Decided \/ Q!Listed \/ Q!Fail)

FairSpec == Spec /\ \A k \in {1, 2} : WF_all(Handled(k))

(* A success is told only for what this very click changed, and a click    *)
(* changes it once, although its request may be sent twice.  Lists read    *)
(* after a success are no older than it, and no answer shows a status that *)
(* has not been reached.                                                   *)
ToldIsDone ==
  /\ part = "payment" => P!TypeOK /\ P!ToldIsDone /\ P!NeverAhead
  /\ part = "file" => C!TypeOK /\ C!ToldIsDone
  /\ part = "tabs" => F!TypeOK /\ F!ToldIsDone
  /\ part = "stays" => S!TypeOK /\ S!ToldIsDone /\ S!NeverAhead
  /\ part = "rooms" => R!TypeOK /\ R!ToldIsDone
  /\ part = "settings" => H!TypeOK /\ H!ToldIsDone
  /\ part = "team" => T!TypeOK /\ T!ToldIsDone
  /\ part = "requests" => Q!TypeOK /\ Q!ToldIsDone

(* What is changed is what was on the screen, by the user on the screen,   *)
(* whatever has been opened, answered or signed in to in between.          *)
ActsAsShown ==
  /\ part = "payment" => P!ActsAsShown
  /\ part = "tabs" => F!ActsAsShown
  /\ part = "stays" => S!OneArrival
  /\ part = "rooms" => R!ActsAsShown
  /\ part = "team" => T!ActsAsShown
  /\ part = "requests" => Q!ActsAsShown

(* What was typed goes only when the user agrees or it is saved, and a     *)
(* late answer brings no older settings back.                              *)
DraftsKept ==
  [][/\ part = "file" => C!DraftsKept
     /\ part = "rooms" => R!DraftsKept
     /\ part = "settings" => H!DraftsKept /\ H!NeverBack]_all

(* Every spinner ends: a click on any of these pages is answered.  A       *)
(* guest's page comes to show all reservations or tells that it does not,  *)
(* an export told as made stays in the browser, and what holds of the tabs *)
(* holds with a second factor.                                             *)
DesksSettle ==
  /\ \A k \in {1, 2} : Waiting(k) ~> ~Waiting(k)
  /\ [](part = "history" => CH!HistoryWhole)
  /\ [](part = "exports" => HX!ExportsKept)
  /\ [](part = "factor" => M!TypeOK /\ M!ToldIsDone /\ M!ActsAsShown)
=============================================================================
