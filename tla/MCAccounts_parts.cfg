\* Sessions (Narrow); two browsers, three challenges and one secret, or one
\* challenge at a time and two secrets; two requests, two addresses, two links
\* and a guest; two requests and three links of one account.
CONSTANTS
  None = None
  Browsers = {a, b}  Users = {x, y, z}  SessionIds = {1, 2}  Scripts = {c, d}
  Passwords = {1, 2}  MaxVersion = 3
  Challenges = {x, y, z}  PerChallenge = 2  InTotal = 3  MaxPending = 2  Window = 1
  MaxSecret = 2  MaxFactor = 2  MaxTime = 1
  Requests = {a, b}  Addresses = {x, y}  Guests = {e}  MaxInvitations = 2
  Owners = {e}  MaxLinks = 3  MaxUses = 2
  Workers = {a}  Mails = {1, 2}  Broken = {1}  MaxAttempts = 2  MaxFaults = 1  MaxRetries = 0
  Jobs = {"mail", "payments", "retention"}
  Probes = {a, b}  PoolMax = 1  MaxFlips = 2
SPECIFICATION Spec
SYMMETRY Symmetry
CONSTRAINT Narrow
INVARIANT SessionsCurrent
INVARIANT BudgetKept
INVARIANT LinksWorkOnce
PROPERTY AdministratorRemains
PROPERTY CodeOnce
PROPERTY OnlyNewestLink
