--------------------------- MODULE Configuration ---------------------------
(***************************************************************************)
(* The start of the API process: config/environment.js reads and checks    *)
(* the environment, config/runtimeSettings.js checks it again with its own *)
(* defaults and its own parser and overrides part of what the first one    *)
(* exports, server.js asks for the key of the second factor and for the    *)
(* database, and app.js, database.js and the services use what they find:  *)
(* some of it from the exported configuration, some from process.env.      *)
(*                                                                         *)
(* A variable of the environment is absent (None), or one of the values    *)
(* the checks tell apart; that of a flag says whether it is there.  An     *)
(* environment is the default one with NODE_ENV and the variables of one   *)
(* group changed at will.  The other numbers (port, rounds, rate limit,    *)
(* timeouts) are read and checked as those of the pool are.                *)
(***************************************************************************)
EXTENDS Integers

CONSTANTS
  None,
  Junk,     \* text with a number in front, such as "20junk"
  Numbers   \* the numbers tried for the pool

NumberAssumption == Numbers \subseteq Int
NoneAssumption ==
  None # Junk /\ None # "production" /\ {None, Junk} \cap Numbers = {}

VARIABLES
  env,      \* process.env
  role,     \* what the database says of the account, or "gone"
  process,  \* how far the start came
  config    \* what environment.js exports

vars == <<env, role, process, config>>

Local == "http://localhost:3001"
Hotel == "https://hotel.test"
Plain == "http://hotel.test"
Yours == "https://yourdomain.com"
Page == "https://hotel.test/portal"
Star == "*"
Modes == {None, "development", "production", "testing", "test", "staging"}
Sizes == {None, Junk} \union Numbers

(* A deployment must give the database, the secret and the key.            *)
Default == [
  NODE_ENV |-> None, DATABASE_URL |-> "postgresql://server/base", JWT_SECRET |-> "long",
  DB_POOL_MIN |-> None, DB_POOL_MAX |-> None,
  APP_URL |-> None, CORS_ORIGIN |-> None, CORS_CREDENTIALS |-> None,
  PAYMENT_PROVIDER |-> None, ALLOW_DEMO_PAYMENTS |-> None, STRIPE_KEYS |-> {},
  SMTP_HOST |-> FALSE, MAIL_FROM |-> None, SMTP_LOGIN |-> {},
  MFA_ENABLED |-> None, MFA_ENCRYPTION_KEY |-> "hex"]

Databases == {[Default EXCEPT !.DATABASE_URL = url, !.JWT_SECRET = secret] :
  url \in {None, "mysql://server/base", "postgresql://server/", "postgresql://server/base"},
  secret \in {None, "short", "long"}}
Pools == {[Default EXCEPT !.DB_POOL_MIN = low, !.DB_POOL_MAX = high] : low \in Sizes, high \in Sizes}
Websites == {[Default EXCEPT !.APP_URL = url, !.CORS_ORIGIN = origins, !.CORS_CREDENTIALS = sent] :
  url \in {None, Hotel, Plain, Yours, Page},
  origins \in {None, {}, {Star}, {Local}, {Plain}, {Hotel, Yours}, {Hotel, Star}, {Page}},
  sent \in {None, "true", "false", "yes"}}
Gateways == {[Default EXCEPT !.PAYMENT_PROVIDER = name, !.ALLOW_DEMO_PAYMENTS = demo,
                             !.STRIPE_KEYS = keys] :
  name \in {None, "demo", "stripe", "cash"}, demo \in {None, "true", "false"},
  keys \in SUBSET {"secret", "webhook"}}
Mailers == {[Default EXCEPT !.SMTP_HOST = host, !.MAIL_FROM = from, !.SMTP_LOGIN = login] :
  host \in BOOLEAN, from \in {None, "desk", "desk@hotel.test"},
  login \in SUBSET {"user", "password"}}
SecondFactors == {[Default EXCEPT !.MFA_ENABLED = on, !.MFA_ENCRYPTION_KEY = key] :
  on \in {None, "true", "false"}, key \in {None, "words", "hex"}}

Environments ==
  Databases \union Pools \union Websites \union Gateways \union Mailers \union SecondFactors

Sites == {Star, Local, Hotel, Plain, Yours, Page}
Configs == [CORS_ORIGIN : SUBSET Sites, CORS_CREDENTIALS : BOOLEAN,
            DB_POOL_MIN : Int, DB_POOL_MAX : Int]

TypeOK ==
  /\ env.NODE_ENV \in Modes
  /\ role \in {"runtime", "owner", "gone"}
  /\ process \in {"new", "loaded", "checked", "listening", "exited"}
  /\ config \in IF process \in {"new", "loaded", "exited"} THEN {None} ELSE Configs

Init ==
  /\ env \in {[e EXCEPT !.NODE_ENV = mode] : e \in Environments, mode \in Modes}
  /\ role \in {"runtime", "owner", "gone"}
  /\ process = "new"
  /\ config = None

Or(value, default) == IF value = None THEN default ELSE value
Production == env.NODE_ENV = "production"
Development == Or(env.NODE_ENV, "development") = "development"

(* environment.js: process.exit(1) at the first thing that is wrong.       *)
RequiredThere == env.DATABASE_URL # None /\ env.JWT_SECRET # None
DatabaseScheme == env.DATABASE_URL # "mysql://server/base"
ModeKnown == env.NODE_ENV # "staging"
SecretForProduction == Production => env.JWT_SECRET = "long"
Acceptable == RequiredThere /\ DatabaseScheme /\ ModeKnown /\ SecretForProduction

(* runtimeSettings.js: throws at the first thing that is wrong.            *)
Number(value, low, high) == value # Junk /\ value \in low .. high
PoolMin == Or(env.DB_POOL_MIN, IF Production THEN 5 ELSE 2)
PoolMax == Or(env.DB_POOL_MAX, IF Production THEN 30 ELSE 20)
PoolFits == PoolMin <= PoolMax
PoolRight == Number(PoolMin, 0, 100) /\ Number(PoolMax, 1, 100) /\ PoolFits

DatabaseNamed == env.DATABASE_URL # "postgresql://server/"
AppURL == Or(env.APP_URL, Local)
AppRight == /\ AppURL # Page
            /\ Production => AppURL \in {Local, Hotel, Yours}

Origins == Or(env.CORS_ORIGIN, {IF Production THEN Yours ELSE Star})
OriginsRight ==
  /\ env.CORS_CREDENTIALS \in {None, "true", "false"}
  /\ Page \notin Origins
  /\ Production => Star \notin Origins
  /\ Origins # {}
  /\ env.CORS_CREDENTIALS = "true" => Star \notin Origins /\ AppURL \in Origins

PaymentsRight ==
  /\ env.PAYMENT_PROVIDER # "cash"
  /\ env.PAYMENT_PROVIDER = "demo" => env.ALLOW_DEMO_PAYMENTS = "true"
  /\ env.PAYMENT_PROVIDER = "stripe" => env.STRIPE_KEYS = {"secret", "webhook"}

MailRight ==
  /\ env.SMTP_HOST => env.MAIL_FROM # None
  /\ env.MAIL_FROM # "desk"
  /\ env.SMTP_LOGIN \in {{}, {"user", "password"}}

Coherent == DatabaseNamed /\ env.JWT_SECRET = "long" /\ AppRight /\ OriginsRight
              /\ PaymentsRight /\ MailRight /\ PoolRight

(* server.js                                                               *)
SecondFactor == env.MFA_ENABLED # "false"
KeyRight == SecondFactor => env.MFA_ENCRYPTION_KEY = "hex"
ConnectionRight == role # "gone" /\ (Production => role = "runtime")
Ready == KeyRight /\ ConnectionRight

Load ==
  /\ process = "new" /\ Acceptable
  /\ process' = "loaded"
  /\ UNCHANGED <<env, role, config>>

(* What is exported: the values environment.js read, but for those that    *)
(* runtimeSettings.js returns.                                             *)
Exported == [
  CORS_ORIGIN |-> Or(env.CORS_ORIGIN, {IF Development THEN Star ELSE Yours}),
  CORS_CREDENTIALS |-> env.CORS_CREDENTIALS = "true",
  DB_POOL_MIN |-> PoolMin, DB_POOL_MAX |-> PoolMax]

CheckSettings ==
  /\ process = "loaded" /\ Coherent
  /\ process' = "checked"
  /\ config' = Exported
  /\ UNCHANGED <<env, role>>

Listen ==
  /\ process = "checked" /\ Ready
  /\ process' = "listening"
  /\ UNCHANGED <<env, role, config>>

Refuse ==
  /\ \/ process = "new" /\ ~Acceptable
     \/ process = "loaded" /\ ~Coherent
     \/ process = "checked" /\ ~Ready
  /\ process' = "exited"
  /\ config' = None
  /\ UNCHANGED <<env, role>>

Next == Load \/ CheckSettings \/ Listen \/ Refuse
Spec == Init /\ [][Next]_vars

(* What the rest of the program makes of it: app.js, onlinePaymentService, *)
(* mailService and sessionCookies.                                         *)
CredentialsAllowed == config.CORS_CREDENTIALS /\ Star \notin config.CORS_ORIGIN
DemoPayments == env.PAYMENT_PROVIDER = "demo" /\ env.ALLOW_DEMO_PAYMENTS = "true"
PaymentsEnabled ==
  DemoPayments \/ (env.PAYMENT_PROVIDER = "stripe" /\ env.STRIPE_KEYS = {"secret", "webhook"})
MailConfigured == env.SMTP_HOST /\ env.MAIL_FROM # None
SecureCookies == AppURL \in {Hotel, Yours, Page}

(* What was asked for in the environment is what the running process does: *)
(* its pool can be filled, the pages may use their cookies when that was   *)
(* asked for, the provider named can be paid with, mails can be sent and   *)
(* second factors read; and in production any origin is refused but those  *)
(* listed, cookies are secure outside the machine itself, and the account  *)
(* of the database cannot change the schema (config/environment.js:221,    *)
(* runtimeSettings.js:4, app.js:28, database.js:58, server.js:6).          *)
RunsAsConfigured == process = "listening" =>
  /\ 0 <= config.DB_POOL_MIN /\ config.DB_POOL_MIN <= config.DB_POOL_MAX
  /\ env.CORS_CREDENTIALS = "true" => CredentialsAllowed /\ AppURL \in config.CORS_ORIGIN
  /\ env.PAYMENT_PROVIDER # None => PaymentsEnabled
  /\ env.SMTP_HOST => MailConfigured
  /\ SecondFactor => env.MFA_ENCRYPTION_KEY = "hex"
  /\ Production => /\ Star \notin config.CORS_ORIGIN
                   /\ SecureCookies \/ AppURL = Local
                   /\ role = "runtime"
=============================================================================
