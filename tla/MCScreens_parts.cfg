\* A list of two filters of up to two pages: four changes, enough for an answer
\* to be overtaken twice and for the page shown to disappear while it is being
\* loaded. Forms with two pairs of dates, rooms, reservations of price 2 and
\* submissions. A board with one record, two dialogs and two saves. Two starts
\* of the guest's page, two searches, one booking. Reports of two payments and
\* of up to three rooms. A dashboard of one store and the page's own part.
CONSTANTS
  None = None
  Filters = {a, b}  MaxPages = 2  ListEvents = 4
  Stays = {a, b}  Rooms = {x, y}  MaxEdits = 2  MaxTaken = 1  MaxPosts = 2
  Reservations = {a, b}  Total = 2  MaxChoices = 3
  Methods = {x, y}  All = a  Invalid = b  PageSize = 1  MaxPayments = 2  MaxEvents = 2
  Records = {x}  New = New  MaxOpens = 2  MaxSaves = 2  BoardEvents = 1
  Today = a  Prices = {1, 2}  Currencies = {bob, usd}
  MaxInits = 2  MaxSearches = 2  MaxConfirms = 1  MaxChanges = 2
  Places = {1, 2, 3}  Types = {x, y}  FloorPage = 2  Lines = 2  MaxRooms = 3
  Shared = {a}  Own = x  MaxLoads = 2  MaxNow = 1
SPECIFICATION FairSpec
INVARIANT ShowsWhatIsAsked
INVARIANT SentAsOffered
INVARIANT ReportsWhole
PROPERTY ScreensSettle
CHECK_DEADLOCK FALSE
