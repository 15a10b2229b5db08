\* Two requests, one address, two links and a guest; two links of one account;
\* a mail no server accepts and another; two requests and the three jobs; two
\* probes and two requests for one client of the pool, an outage.
CONSTANTS
  None = None
  Browsers = {a, b}  Users = {x, y, z}  SessionIds = {1, 2}  Scripts = {c, d}
  Passwords = {1, 2}  MaxVersion = 3
  Challenges = {x, y, z}  PerChallenge = 2  InTotal = 3  MaxPending = 2  Window = 1
  MaxSecret = 1  MaxFactor = 1  MaxTime = 0
  Requests = {a, b}  Addresses = {a}  Guests = {c}  MaxInvitations = 2
  Owners = {c}  MaxLinks = 2  MaxUses = 2
  Workers = {a}  Mails = {1, 2}  Broken = {1}  MaxAttempts = 2  MaxFaults = 1  MaxRetries = 0
  Jobs = {"mail", "payments", "retention"}
  Probes = {a, b}  PoolMax = 1  MaxFlips = 2
SPECIFICATION FairSpec
PROPERTY RequestsEnd
PROPERTY MailsSettle
PROPERTY ShutdownEnds
PROPERTY ConnectionRecovers
CHECK_DEADLOCK FALSE
