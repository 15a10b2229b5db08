---------------------------- MODULE FrontSession -----------------------------
(* Who the tabs of a browser show as signed in: the auth store, its service, *)
(* the API client, the route guards and the login page with its second       *)
(* factor, against the web sessions of the server.  The tabs share a cookie  *)
(* that scripts cannot read.  Each keeps the user and the CSRF token of the  *)
(* session it signed in with or found when it was loaded.                    *)
EXTENDS Integers

CONSTANTS
  Tabs,
  Users,
  Role,      \* [Users -> Roles]
  Protected, \* the users who have a second factor
  Ids,       \* web sessions
  Addresses, \* pages asked for without the menu
  None,
  MaxCalls   \* bound on requests

Roles == {"customer", "receptionist", "manager", "admin"}
RoleAssumption == Role \in [Users -> Roles] /\ Protected \subseteq Users
Refusals == {"401", "403", "ok", "refused", "challenge"}
NoneAssumption == None \notin Users \cup Ids \cup Refusals /\ Ids \cap Refusals = {}

VARIABLES
  cookie,    \* the session named by the browser's cookie
  owner,     \* the user of each session there has been, None before
  live,      \* table web_session: the sessions that have not ended
  tab,
  calls,     \* requests whose answer the tab has not handled
  last,      \* the number of the last request
  done,      \* history: what the server did, by whom, and whom the tab showed
  told       \* history: sessions a tab was told are closed

vars == <<cookie, owner, live, tab, calls, last, done, told>>

(* Pages by who may see them, besides the login page.                      *)
Pages == {"portal", "desk", "office", "admin"}

Blank == [user |-> None, csrf |-> None, page |-> "loading", wanted |-> None,
          challenge |-> None, loading |-> FALSE]

Init ==
  /\ cookie = None /\ owner = [s \in Ids |-> None] /\ live = {}
  /\ tab = [t \in Tabs |-> [Blank EXCEPT !.page = "login"]]
  /\ calls = {} /\ last = 0 /\ done = {} /\ told = {}

-----------------------------------------------------------------------------
(* Where the guards let a user go.                                         *)

Home(u) == IF Role[u] = "customer" THEN "portal" ELSE "desk"

(* Middleware auth, receptionist, manager and admin.                       *)
MayVisit(u, p) ==
  CASE p = "portal" -> Role[u] = "customer"
    [] p = "desk"   -> Role[u] # "customer"
    [] p = "office" -> Role[u] \in {"manager", "admin"}
    [] p = "admin"  -> Role[u] = "admin"
    [] OTHER        -> FALSE

Land(u, p) == IF u = None THEN "login" ELSE IF MayVisit(u, p) THEN p ELSE Home(u)

(* postLoginPath: a page asked for in the other half of the site is not    *)
(* the one to begin with.                                                  *)
PostLogin(u, p) == IF p # None /\ (p = "portal") = (Role[u] = "customer") THEN p ELSE Home(u)

(* The entries of the navigation of the staff's layout.                    *)
Menu(u) ==
  {"desk"} \cup (IF Role[u] \in {"admin", "manager"} THEN {"office"} ELSE {})
           \cup (IF Role[u] = "admin" THEN {"admin"} ELSE {})

-----------------------------------------------------------------------------
(* The store.                                                              *)

SetAuth(r, s, u) == [r EXCEPT !.user = u, !.csrf = s]
Cleared(r) == [r EXCEPT !.user = None, !.csrf = None]

(* Leaving the login page forgets its challenge.                           *)
At(r, p) == [r EXCEPT !.page = p, !.challenge = IF p = r.page THEN @ ELSE None]

(* A request carries the cookie and the token of the moment it is sent.    *)
Send(t, op, u, left) ==
  /\ last < MaxCalls /\ last' = last + 1
  /\ calls' = calls \cup {[n |-> last + 1, tab |-> t, op |-> op, user |-> u, left |-> left,
       cookie |-> cookie, csrf |-> tab[t].csrf, shown |-> tab[t].user, answer |-> None]}
  /\ UNCHANGED <<cookie, owner, live, done, told>>

(* A tab is loaded again when it waits for nothing: the plugin            *)
(* asks for the session before the first guard runs.                       *)
Open(t) ==
  /\ \A c \in calls : c.tab # t
  /\ tab' = [tab EXCEPT ![t] = [Blank EXCEPT !.wanted =
               IF tab[t].page \in Pages THEN tab[t].page ELSE tab[t].wanted]]
  /\ Send(t, "restore", None, 0)

(* A link, the menu or an address: a private page asked for by nobody is   *)
(* kept for after the login.                                               *)
Go(t, p) ==
  /\ p \in Addresses \/ (tab[t].page # "portal" /\ tab[t].user # None /\ p \in Menu(tab[t].user))
  /\ tab[t].page # "loading" /\ p # tab[t].page
  /\ LET r == At(tab[t], Land(tab[t].user, p))
         w == IF tab[t].user = None THEN p ELSE r.wanted
     IN  tab' = [tab EXCEPT ![t] = [r EXCEPT !.wanted = w]]
  /\ UNCHANGED <<cookie, owner, live, calls, last, done, told>>

(* The form of the login page is there when no challenge is, its button is *)
(* disabled while a login is under way, and handleLogin sends no form with *)
(* an error: who is typed is one of the users, whose password may be wrong.*)
FormReady(t) == tab[t].page = "login" /\ tab[t].challenge = None /\ ~tab[t].loading

Login(t, u) ==
  /\ FormReady(t)
  /\ tab' = [tab EXCEPT ![t].loading = TRUE]
  /\ Send(t, "login", u, 1)

(* MfaStatus on the settings page: a new second factor begins with a       *)
(* challenge as well; its forms are shown while there is none.             *)
Renew(t) ==
  /\ tab[t].page = "admin" /\ tab[t].challenge = None /\ ~tab[t].loading
  /\ tab' = [tab EXCEPT ![t].loading = TRUE]
  /\ Send(t, "renew", tab[t].user, 0)

(* MfaChallengeForm: enroll or verify, one of them at a time, and cancel.  *)
Verify(t) ==
  /\ tab[t].challenge # None /\ ~tab[t].loading
  /\ tab' = [tab EXCEPT ![t].loading = TRUE]
  /\ Send(t, "verify", tab[t].challenge, 0)

CancelMfa(t) ==
  /\ tab[t].challenge # None /\ ~tab[t].loading
  /\ tab' = [tab EXCEPT ![t].challenge = None]
  /\ UNCHANGED <<cookie, owner, live, calls, last, done, told>>

(* The button of the layout; and anything a page asks the server to do.    *)
Logout(t) == tab[t].page \in Pages /\ Send(t, "logout", None, 0) /\ UNCHANGED tab
Act(t) == tab[t].page \in Pages /\ Send(t, "act", None, 1) /\ UNCHANGED tab

-----------------------------------------------------------------------------
(* The server.                                                             *)

Reply(c, a) == calls' = (calls \ {c}) \cup {[c EXCEPT !.answer = a]}

Owner(c) == IF c.cookie \in live THEN owner[c.cookie] ELSE None

(* Mutant: the token is not compared. *)
CsrfTrusted(c) == TRUE

ValidCsrf(c) == c.csrf = c.cookie

Fresh == {s \in Ids : owner[s] = None}

(* create replaces the session of the browser by one nobody has used.      *)
Create(c) ==
  /\ Fresh # {}
  /\ LET s == CHOOSE x \in Fresh : TRUE
     IN  owner' = [owner EXCEPT ![s] = c.user] /\ live' = (live \ {c.cookie}) \cup {s}
         /\ Reply(c, s) /\ UNCHANGED done

Refused(c, a) == Reply(c, a) /\ UNCHANGED <<owner, live, done>>

ServeLogin(c) ==
  /\ c.op = "login"
  /\ \/ Refused(c, "401")
     \/ IF c.user \in Protected THEN Refused(c, "challenge") ELSE Create(c)

ServeVerify(c) == c.op = "verify" /\ (Refused(c, "refused") \/ Create(c))

ServeRestore(c) ==
  /\ c.op = "restore"
  /\ Refused(c, IF Owner(c) = None THEN "401" ELSE c.cookie)

(* Behind the middleware auth.                                             *)
ServeOther(c) ==
  /\ c.op \in {"logout", "act", "renew"}
  /\ CASE Owner(c) = None -> Refused(c, IF c.op = "renew" THEN "refused" ELSE "401")
       [] Owner(c) # None /\ ~ValidCsrf(c) -> Refused(c, "403")
       [] OTHER ->
            /\ done' = done \cup {[by |-> Owner(c), shown |-> c.shown]}
            /\ Reply(c, IF c.op = "renew" THEN "challenge" ELSE "ok")
            /\ live' = IF c.op = "logout" THEN live \ {c.cookie} ELSE live
            /\ UNCHANGED owner

Serve(c) ==
  /\ c \in calls /\ c.answer = None
  /\ ServeLogin(c) \/ ServeVerify(c) \/ ServeRestore(c) \/ ServeOther(c)
  /\ UNCHANGED <<cookie, tab, last, told>>

(* A session expires or is closed from elsewhere.                          *)
Expire(s) ==
  /\ s \in live /\ live' = live \ {s}
  /\ UNCHANGED <<cookie, owner, tab, calls, last, done, told>>

-----------------------------------------------------------------------------
(* The answers.                                                            *)

Took(c) == c \in calls /\ calls' = calls \ {c} /\ UNCHANGED <<owner, live, last, done>>
Becomes(c, r) == tab' = [tab EXCEPT ![c.tab] = r]

Idle(c) == [tab[c.tab] EXCEPT !.loading = FALSE]

(* redirectAfterLogin: on to the page that was asked for, once.            *)
Redirected(r, u) == [At(r, Land(u, PostLogin(u, r.wanted))) EXCEPT !.wanted = None]

(* A new session: the store takes it; the login page goes on, the settings *)
(* page stays.                                                             *)
Enter(c) ==
  /\ c.op \in {"login", "verify"} /\ c.answer \in Ids
  /\ Took(c) /\ cookie' = c.answer /\ UNCHANGED told
  /\ LET r == [SetAuth(Idle(c), c.answer, c.user) EXCEPT !.challenge = None]
     IN  Becomes(c, IF r.page = "login" THEN Redirected(r, c.user) ELSE r)

Challenged(c) ==
  /\ c.answer = "challenge"
  /\ Took(c) /\ UNCHANGED <<cookie, told>>
  /\ Becomes(c, [Idle(c) EXCEPT !.challenge = c.user])

(* restoreSession, and the first guard.                                    *)
Restore(c) ==
  /\ c.op = "restore" /\ c.answer # None
  /\ Took(c) /\ UNCHANGED <<cookie, told>>
  /\ LET r == tab[c.tab]
     IN  Becomes(c, IF c.answer = "401" THEN At(Cleared(r), "login")
                    ELSE LET u == owner[c.answer]
                         IN  At(SetAuth(r, c.answer, u), Land(u, r.wanted)))

(* logout: also when there was no session left.                            *)
LoggedOut(c) ==
  /\ c.op = "logout" /\ c.answer \in {"ok", "401"}
  /\ Took(c) /\ cookie' = IF c.answer = "ok" THEN None ELSE cookie
  /\ told' = told \cup ({c.cookie} \ {None})
  /\ Becomes(c, At(Cleared(tab[c.tab]), "login"))

(* The client's interceptor.                                               *)
Unauthorized(c) ==
  /\ c.op \in {"act", "login"} /\ c.answer = "401"
  /\ Took(c) /\ UNCHANGED <<cookie, told>>
  /\ Becomes(c, At(Cleared(IF c.op = "login" THEN Idle(c) ELSE tab[c.tab]), "login"))

Settle(c) ==
  /\ \/ c.op = "act" /\ c.answer \in {"ok", "403"}
     \/ c.op = "logout" /\ c.answer = "403"
     \/ c.op \in {"renew", "verify"} /\ c.answer \in {"403", "refused"}
  /\ Took(c) /\ UNCHANGED <<cookie, told>>
  /\ Becomes(c, IF c.op \in {"renew", "verify"} THEN Idle(c) ELSE tab[c.tab])

Answer(c) ==
  \/ Enter(c) \/ Challenged(c) \/ Restore(c) \/ LoggedOut(c) \/ Unauthorized(c) \/ Settle(c)

(* The request or its answer is lost: the client sends it again, with the  *)
(* cookie and the token of that moment, or gives up.                       *)
Lose(c) ==
  /\ c \in calls
  /\ IF c.left > 0
     THEN /\ calls' = (calls \ {c}) \cup {[c EXCEPT !.left = @ - 1, !.answer = None,
                !.cookie = cookie, !.csrf = tab[c.tab].csrf, !.shown = tab[c.tab].user]}
          /\ UNCHANGED tab
     ELSE /\ calls' = calls \ {c}
          /\ Becomes(c, CASE c.op = "restore" -> At(tab[c.tab], "login")
                          [] c.op \in {"login", "renew", "verify"} -> Idle(c)
                          [] OTHER -> tab[c.tab])
  /\ UNCHANGED <<cookie, owner, live, last, done, told>>

Next ==
  \/ \E t \in Tabs, p \in Pages : Go(t, p)
  \/ \E t \in Tabs, u \in Users : Login(t, u)
  \/ \E t \in Tabs : Open(t) \/ Renew(t) \/ Verify(t) \/ CancelMfa(t) \/ Logout(t) \/ Act(t)
  \/ \E c \in calls : Serve(c) \/ Answer(c) \/ Lose(c)
  \/ \E s \in Ids : Expire(s)

Spec == Init /\ [][Next]_vars

-----------------------------------------------------------------------------
(* A tab that has a user has a token, and both are of one session.         *)
TypeOK ==
  /\ \A s \in (live \cup {cookie}) \ {None} : owner[s] # None
  /\ \A t \in Tabs :
       /\ (tab[t].user = None) = (tab[t].csrf = None)
       /\ tab[t].user # None => owner[tab[t].csrf] = tab[t].user
       /\ tab[t].loading => \E c \in calls : c.tab = t /\ c.op \in {"login", "verify", "renew"}

(* Whatever another tab signs in as meanwhile, the server acts only for    *)
(* the user shown by the tab that asks, and a tab shows only pages of the  *)
(* user it shows; the menu offers no page the guards would refuse.         *)
ActsAsShown ==
  /\ \A d \in done : d.by = d.shown
  /\ \A t \in Tabs : tab[t].page \in Pages =>
       tab[t].user # None /\ MayVisit(tab[t].user, tab[t].page)
  /\ \A u \in Users : Role[u] # "customer" => \A p \in Menu(u) : Land(u, p) = p

(* A session a tab was told is closed is.                                  *)
ToldIsDone == told \cap live = {}

(* The buttons of the login page and of the second factor come back.       *)
ButtonsReturn == \A t \in Tabs : tab[t].loading ~> ~tab[t].loading
=============================================================================
