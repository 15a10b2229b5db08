----------------------------- MODULE BookingForm -----------------------------
(* The form of a new reservation at the desk (FReservationForm inside the    *)
(* page /reservations): every change of the dates asks the server again for  *)
(* the rooms free on them, and the answers come back in any order.  The      *)
(* booking itself is posted through the API client, which sends a request    *)
(* once more when its answer is lost or is a conflict.                       *)
EXTENDS Integers

CONSTANTS
  Stays,      \* pairs of dates the user may type
  Rooms,
  None,
  MaxEdits,   \* bound on the changes of the dates
  MaxTaken,   \* bound on what other people book meanwhile
  MaxPosts    \* bound on submissions

Posts == [id : Nat, stay : Stays, room : Rooms, retries : {0, 1},
          result : {None, "created", "conflict"}]

NoneAssumption == None \notin Stays \cup Rooms \cup Posts \cup {"created", "conflict"}
BoundAssumption == MaxPosts \in Nat

VARIABLES
  stay,       \* the dates in the form: None while they are not valid
  room,       \* the room in the form, or None
  rooms,      \* the options of the room field
  optionsLoading, optionsError,
  version,    \* availabilityVersion
  requests,   \* availability requests not handled yet
  post,       \* the submission in progress, or None
  free,       \* the server: rooms free on each pair of dates
  booked,     \* the server: how often each submission was booked
  offered,    \* history: what the answers offered
  edits, taken, posts

form == <<stay, room, rooms, optionsLoading, optionsError, version>>
vars == <<form, requests, post, free, booked, offered, edits, taken, posts>>

Submissions == 1 .. MaxPosts

Init ==
  /\ stay = None /\ room = None /\ rooms = {}
  /\ optionsLoading = FALSE /\ optionsError = FALSE /\ version = 1
  /\ requests = {} /\ post = None
  /\ free \in [Stays -> SUBSET Rooms]
  /\ booked = [i \in Submissions |-> 0]
  /\ offered = {} /\ edits = 0 /\ taken = 0 /\ posts = 0

-----------------------------------------------------------------------------
(* The watcher of the two dates.                                           *)

Edit(s) ==
  /\ edits < MaxEdits /\ edits' = edits + 1
  /\ s # stay /\ stay' = s
  /\ version' = version + 1
  /\ rooms' = {} /\ room' = None
  /\ optionsError' = FALSE /\ optionsLoading' = (s # None)
  /\ requests' = IF s = None THEN requests
                 ELSE requests \cup {[version |-> version + 1, stay |-> s, previous |-> room]}
  /\ UNCHANGED <<post, free, booked, offered, taken, posts>>

(* if(version!==availabilityVersion)return *)
Current(r) == r.version = version

Available(r) ==
  /\ r \in requests /\ requests' = requests \ {r}
  /\ IF Current(r)
     THEN /\ rooms' = free[r.stay]
          /\ room' = IF r.previous \in free[r.stay] THEN r.previous ELSE room
          /\ optionsLoading' = FALSE
     ELSE UNCHANGED <<rooms, room, optionsLoading>>
  /\ offered' = offered \cup {<<r.stay, x>> : x \in free[r.stay]}
  /\ UNCHANGED <<stay, optionsError, version, post, free, booked, edits, taken, posts>>

Unavailable(r) ==
  /\ r \in requests /\ requests' = requests \ {r}
  /\ optionsError' = (optionsError \/ Current(r))
  /\ optionsLoading' = (optionsLoading /\ ~Current(r))
  /\ UNCHANGED <<stay, room, rooms, version, post, free, booked, offered, edits, taken, posts>>

Choose(x) ==
  /\ ~optionsLoading /\ stay # None
  /\ x \in rooms /\ x # room /\ room' = x
  /\ UNCHANGED <<stay, rooms, optionsLoading, optionsError, version, requests, post, free,
                 booked, offered, edits, taken, posts>>

-----------------------------------------------------------------------------
(* The submission: the form's guards, the page's handler, one repetition.  *)

Ready == stay # None /\ room # None /\ ~optionsLoading /\ ~optionsError

Submit ==
  /\ post = None /\ posts < MaxPosts /\ posts' = posts + 1
  /\ Ready
  /\ post' = [id |-> posts + 1, stay |-> stay, room |-> room, retries |-> 1, result |-> None]
  /\ UNCHANGED <<form, requests, free, booked, offered, edits, taken>>

(* Mutant: the server takes the form's word for it. *)
TakenOnTrust(p) == TRUE

(* POST /reservations looks for the room again.                            *)
StillFree(p) == p.room \in free[p.stay]

Serve ==
  /\ post # None /\ post.result = None
  /\ IF StillFree(post)
     THEN /\ booked' = [booked EXCEPT ![post.id] = @ + 1]
          /\ free' = [free EXCEPT ![post.stay] = @ \ {post.room}]
          /\ post' = [post EXCEPT !.result = "created"]
     ELSE /\ post' = [post EXCEPT !.result = "conflict"]
          /\ UNCHANGED <<booked, free>>
  /\ UNCHANGED <<form, requests, offered, edits, taken, posts>>

(* 201: the dialog closes, and the form and its requests with it.          *)
Created ==
  /\ post # None /\ post.result = "created"
  /\ post' = None
  /\ stay' = None /\ room' = None /\ rooms' = {}
  /\ optionsLoading' = FALSE /\ optionsError' = FALSE
  /\ version' = version + 1
  /\ UNCHANGED <<requests, free, booked, offered, edits, taken, posts>>

Repeated(p) == IF p.retries > 0
               THEN [p EXCEPT !.result = None, !.retries = @ - 1]
               ELSE None

(* A conflict, a lost request and a lost answer are sent again once, then  *)
(* told to the user, who still has the form.                               *)
Failed ==
  /\ post # None
  /\ post' = Repeated(post)
  /\ UNCHANGED <<form, requests, free, booked, offered, edits, taken, posts>>

OthersBook(s, x) ==
  /\ taken < MaxTaken /\ taken' = taken + 1
  /\ x \in free[s] /\ free' = [free EXCEPT ![s] = @ \ {x}]
  /\ UNCHANGED <<form, requests, post, booked, offered, edits, posts>>

Next ==
  \/ \E s \in Stays \cup {None} : Edit(s)
  \/ \E r \in requests : Available(r) \/ Unavailable(r)
  \/ \E x \in Rooms : Choose(x)
  \/ Submit \/ Serve \/ Created \/ Failed
  \/ \E s \in Stays, x \in Rooms : OthersBook(s, x)

Spec == Init /\ [][Next]_vars

(* The browser settles every request.                                      *)
FairSpec == /\ Spec
            /\ WF_vars(\E r \in requests : Available(r) \/ Unavailable(r))
            /\ WF_vars(Serve \/ Created \/ Failed)

-----------------------------------------------------------------------------
(* The spinner of the room field runs only while an answer is awaited, and *)
(* the room in the form is one of its options.                             *)
TypeOK ==
  /\ stay \in Stays \cup {None} /\ room \in Rooms \cup {None} /\ rooms \subseteq Rooms
  /\ \A r \in requests : r.version <= version /\ r.stay \in Stays
  /\ optionsLoading => \E r \in requests : Current(r) /\ r.stay = stay
  /\ room # None => room \in rooms

(* A reservation is only sent for a room the server offered for exactly    *)
(* those dates, whatever was typed and answered in between.                *)
OfferedOnly == post # None => <<post.stay, post.room>> \in offered

(* One submission books at most once, although a POST whose answer was     *)
(* lost is sent again: the second one finds the room taken.                *)
BookedOnce == \A i \in Submissions : booked[i] <= 1

(* A submission always ends: the dialog closes or the failure is told.     *)
SubmissionEnds == (post # None) ~> (post = None)
=============================================================================
