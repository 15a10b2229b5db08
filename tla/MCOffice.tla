------------------------------ MODULE MCOffice ------------------------------
(* Small instances of the components of the back office, each by itself: a *)
(* behaviour begins with the choice of one of them and changes only its    *)
(* variables. The variables of the others stay None.                       *)
EXTENDS Integers, FiniteSets, TLC

CONSTANTS
  Workers, Currencies, FirstCurrency, Texts, FirstText, Reservations, Employees,
  MaxVersion,                                           \* Settings
  Reviewers, Stays, Asks, LastNight, MaxPrice,          \* GuestRequests
  Mails, Broken, MaxAttempts, MaxFaults, MaxRetries,    \* Outbox, with Workers
  Runners, Files, Contents,                             \* Migrations
  Shells, MaxRuns, Offsite,                             \* Backups
  Keys, Values, MaxRows, MaxCalls,                      \* Catalogue, with Workers
  Junk, Numbers,                                        \* Configuration
  None

VARIABLES
  part,  \* the component of this behaviour
  settings, page, booking, shift, checkout, tx,
  stay, room, online, ask, answered, review,
  mail, worker, copies, faults, retries,
  directory, history, schema, lock, run,
  disk, remote, damaged, old, scratch, latest, status, flock, attempt,
  rows, rooms, access, bookings, at, calls,
  env, role, process, config

S == INSTANCE Settings
ASSUME SettingsAssumption == S!FirstAssumption /\ S!VersionAssumption /\ S!NoneAssumption
SVars == <<settings, page, booking, shift, checkout, tx>>
SOff == settings = None /\ page = None /\ booking = None /\ shift = None /\
        checkout = None /\ tx = None

R == INSTANCE GuestRequests
ASSUME RequestsAssumption == R!NightAssumption /\ R!PriceAssumption /\ R!NoneAssumption
RVars == <<stay, room, online, ask, answered, review>>
ROff == stay = None /\ room = None /\ online = None /\ ask = None /\
        answered = None /\ review = None

O == INSTANCE Outbox
ASSUME MailAssumption == O!MailAssumption /\ O!BoundAssumption /\ O!NoneAssumption
OVars == <<mail, worker, copies, faults, retries>>
OOff == mail = None /\ worker = None /\ copies = None /\ faults = None /\
        retries = None

M == INSTANCE Migrations
ASSUME MigrationsAssumption == M!FileAssumption /\ M!NoneAssumption
MVars == <<directory, history, schema, lock, run>>
MOff == directory = None /\ history = None /\ schema = None /\ lock = None /\
        run = None

B == INSTANCE Backups WITH lock <- flock, run <- attempt
ASSUME BackupsAssumption == B!BoundAssumption /\ B!OffsiteAssumption /\ B!NoneAssumption
BVars == <<disk, remote, damaged, old, scratch, latest, status, flock,
           attempt>>
BOff == disk = None /\ remote = None /\ damaged = None /\ old = None /\
        scratch = None /\ latest = None /\ status = None /\ flock = None /\
        attempt = None

C == INSTANCE Catalogue
ASSUME CatalogueAssumption == C!NoneAssumption
CVars == <<rows, rooms, access, bookings, at, calls>>
COff == rows = None /\ rooms = None /\ access = None /\ bookings = None /\
        at = None /\ calls = None

G == INSTANCE Configuration
ASSUME StartAssumption == G!NumberAssumption /\ G!NoneAssumption
GVars == <<env, role, process, config>>
GOff == env = None /\ role = None /\ process = None /\ config = None

-----------------------------------------------------------------------------
(* Requests are explored twice: several reviewers of one stay, several     *)
(* stays of one room.                                                      *)
Requests == {"reviews", "nights"}

all == <<part, SVars, RVars, OVars, MVars, BVars, CVars, GVars>>

Init ==
  \/ part = "settings" /\ S!Init
     /\ ROff /\ OOff /\ MOff /\ BOff /\ COff /\ GOff
  \/ part \in Requests /\ R!Init
     /\ SOff /\ OOff /\ MOff /\ BOff /\ COff /\ GOff
  \/ part = "mail" /\ O!Init
     /\ SOff /\ ROff /\ MOff /\ BOff /\ COff /\ GOff
  \/ part = "migrations" /\ M!Init
     /\ SOff /\ ROff /\ OOff /\ BOff /\ COff /\ GOff
  \/ part = "backups" /\ B!Init
     /\ SOff /\ ROff /\ OOff /\ MOff /\ COff /\ GOff
  \/ part = "catalogue" /\ C!Init
     /\ SOff /\ ROff /\ OOff /\ MOff /\ BOff /\ GOff
  \/ part = "start" /\ G!Init
     /\ SOff /\ ROff /\ OOff /\ MOff /\ BOff /\ COff

SOnly == part = "settings" /\ UNCHANGED <<part, RVars, OVars, MVars, BVars, CVars, GVars>>
ROnly == part \in Requests /\ UNCHANGED <<part, SVars, OVars, MVars, BVars, CVars, GVars>>
OOnly == part = "mail" /\ UNCHANGED <<part, SVars, RVars, MVars, BVars, CVars, GVars>>
MOnly == part = "migrations" /\ UNCHANGED <<part, SVars, RVars, OVars, BVars, CVars, GVars>>
BOnly == part = "backups" /\ UNCHANGED <<part, SVars, RVars, OVars, MVars, CVars, GVars>>
COnly == part = "catalogue" /\ UNCHANGED <<part, SVars, RVars, OVars, MVars, BVars, GVars>>
GOnly == part = "start" /\ UNCHANGED <<part, SVars, RVars, OVars, MVars, BVars, CVars>>

Next ==
  \/ SOnly /\ S!Next
  \/ ROnly /\ R!Next
  \/ OOnly /\ O!Next
  \/ MOnly /\ M!Next
  \/ BOnly /\ B!Next
  \/ COnly /\ C!Next
  \/ GOnly /\ G!Next

Spec == Init /\ [][Next]_all

Symmetry == Permutations(Workers) \union Permutations(Stays) \union Permutations(Asks)

(* TLC's bound: one stay for the reviewers; one review at a time and no    *)
(* online payment for the nights.                                          *)
Narrow ==
  /\ part = "reviews" =>
       \A u, v \in Stays : stay[u].status = "free" \/ stay[v].status = "free" \/ u = v
  /\ part = "nights" =>
       /\ \A v, w \in Reviewers : review[v] = R!Idle \/ review[w] = R!Idle \/ v = w
       /\ \A p, q \in Asks : ask[p] = None \/ ask[q] = None \/ p = q
       /\ \A v \in Stays : online[v].status = "none"

(* Settings: what a guest agreed to pay, and what an online payment asks   *)
(* for, stays in the hotel's currency while others change the settings.    *)
CurrencyKept ==
  part = "settings" => S!TypeOK /\ S!PortalCurrencyKept /\ S!CheckoutInHotelCurrency

(* Requests: the price agreed by an approval covers what was paid, and the *)
(* approved dates share no night with another stay, whatever the desk and  *)
(* the gateway did since the request was read.                             *)
ApprovedStaysHold ==
  part \in Requests => R!TypeOK /\ R!PriceCoversPayments /\ R!NightsApart

(* Mail: a mail is delivered twice only if the outcome of a delivery was   *)
(* lost, and what is recorded as sent was delivered.                       *)
MailExplained == part = "mail" => O!TypeOK /\ O!DuplicatesExplained /\ O!SentMeansDelivered

(* Deployment: what the history says was executed once, in the order of    *)
(* the names, however many deployments run at once; and a process that     *)
(* listens does what its environment asks for.                             *)
DeployedInOrder ==
  /\ part = "migrations" => M!TypeOK /\ M!ExecutedOnce /\ M!OrderOfNames
  /\ part = "start" => G!TypeOK /\ G!RunsAsConfigured

(* Backups: the set that latest.json names is there.                       *)
LatestIsThere ==
  /\ part = "backups" => B!TypeOK /\ B!LatestIsThere
  /\ part = "catalogue" => C!TypeOK

(* What one step may not undo: a save its page has not seen; a decision on *)
(* a request, and the stay of a guest who has arrived; a redacted mail;    *)
(* the schema, when a file was altered; an older or a damaged backup,      *)
(* while the new one is not finished; a guest's file or a type of room     *)
(* that was deactivated, the account of a guest, and the price of a        *)
(* booking while it is written.                                            *)
NothingUndone == [][
  /\ part = "settings" => S!NoLostUpdate
  /\ part \in Requests => R!OneDecision /\ R!ArrivedKeepsStay
  /\ part = "mail" => O!RedactedStays
  /\ part = "migrations" => M!NothingOnMismatch
  /\ part = "backups" => B!OnlyFinishedRunsPrune /\ B!DamagedKept
  /\ part = "catalogue" => C!DeactivatedStays /\ C!PortalForActiveGuests
  ]_all
=============================================================================
