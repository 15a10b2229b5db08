\* Two visits of a page, two clicks, one change of a draft, one save, one list
\* asked for and one change by somebody else, except where a page needs more: the
\* settings are read twice, the team is changed twice, the tabs ask three times
\* and a page of requests is used three times. Of two payments, two guests, two
\* tabs with a guest and an administrator (the second factor is a part of its
\* own), two stays one is on the first page; one room has two numbers to choose from.
CONSTANTS
  None = None  New = New  a = a  b = b  x = x  guest = guest  boss = boss
  MaxVisits = 2  MaxClicks = 2  MaxTypes = 1  MaxCalls = 1  MaxLoads = 1  MaxOthers = 1
  Payments = {a, b}
  Guests = {a, b}  Drafts = {x}  Days = {1, 2}  Prices = {1, 2}
  PageSize = 1  Lines = 2  FileBooked = 0
  BrowserTabs = {a, b}  Users = {guest, boss}  Role <- TheRoles  Protected = {}
  SessionIds = {s1, s2}  Addresses = {}  SessionCalls = 3
  Stays = {a, b}  FirstStays = {a}  StayVisits = 1
  Rooms = {a}  Numbers = {x, y}  FirstNumber <- TheNumber
  Texts = {"x", "y"}  NoText = "blank"  SettingsLoads = 2  Exports = 0  MaxKept = 1
  Staff = {a, b}  Me = a  TeamCalls = 2
  Requests = {a, b}  MaxActs = 3
SPECIFICATION FairSpec
INVARIANT ToldIsDone
INVARIANT ActsAsShown
PROPERTY DraftsKept
PROPERTY DesksSettle
CHECK_DEADLOCK FALSE
