--------------------------- MODULE ScreensProofs ---------------------------
(* Proofs about TableList, BookingForm, PaymentForm, Reports, ListBoard,   *)
(* GuestBooking and Dashboard, as MCScreens composes them, for any values  *)
(* of its constants.                                                       *)
EXTENDS MCScreens, TLAPS

-----------------------------------------------------------------------------
(* The list.                                                               *)

ListPages == 1 .. T!AtLeastOne(MaxPages)

(* A load that may still be shown asks for what the controls show.         *)
NewestAsks == \A r \in requests : r.version = version => r.filters = filters /\ r.page = page

(* Nothing is on its way that a component that is gone would take.         *)
GoneIsQuiet == mount = "gone" => ~timer /\ \A r \in requests : r.version # version

ListInv ==
  /\ T!TypeOK
  /\ loading \in BOOLEAN /\ error \in BOOLEAN
  /\ GoneIsQuiet
  /\ requests \subseteq [version : Nat, filters : Filters, page : ListPages]
  /\ pages \in [Filters -> 0 .. MaxPages] /\ totalPages \in 0 .. MaxPages
  /\ NewestAsks
  /\ T!ShowsWhatIsAsked
  /\ T!RestsOnAPage

LEMMA ListInit == T!Init => ListInv
<1> SUFFICES ASSUME T!Init PROVE ListInv
  OBVIOUS
<1>1. page \in ListPages /\ MaxPages \in Nat
  BY ListAssumption DEF T!Init, ListPages, T!AtLeastOne, T!PagesAssumption
<1>2. T!TypeOK
  BY <1>1 DEF T!Init, T!TypeOK, ListPages
<1>3. NewestAsks /\ GoneIsQuiet /\ T!ShowsWhatIsAsked /\ T!RestsOnAPage
  BY DEF T!Init, NewestAsks, GoneIsQuiet, T!ShowsWhatIsAsked, T!RestsOnAPage
<1>4. loading \in BOOLEAN /\ error \in BOOLEAN
  BY DEF T!Init
<1>5. totalPages \in 0 .. MaxPages
  BY <1>1 DEF T!Init
<1> QED
  BY <1>2, <1>3, <1>4, <1>5 DEF ListInv, T!Init

(* A new load.                                                             *)
LEMMA ListLoad ==
  ASSUME ListInv, NEW p \in ListPages, T!Load(p), UNCHANGED <<filters, totalPages, pages>>,
         mount' \in {"created", "mounted"}, timer' \in BOOLEAN
  PROVE  ListInv'
<1> DEFINE r == [version |-> version + 1, filters |-> filters, page |-> p]
<1>1. filters \in Filters /\ version \in Nat /\ \A q \in requests : q.version <= version
  BY DEF ListInv, T!TypeOK
<1>2. r \in [version : Nat, filters : Filters, page : ListPages] /\ requests' = requests \cup {r}
  BY <1>1 DEF T!Load
<1>3. /\ version' = version + 1 /\ page' = p /\ loading' = TRUE
      /\ loading' \in BOOLEAN /\ error' \in BOOLEAN
  BY DEF T!Load
<1> HIDE DEF r
<1>4. r.version = version + 1 /\ r.filters = filters /\ r.page = p
  BY DEF r
<1>5. T!TypeOK'
  <2>1. \A q \in requests' : q.version <= version'
    <3> SUFFICES ASSUME NEW q \in requests' PROVE q.version <= version + 1
      BY <1>3
    <3>1. q \in requests \/ q = r
      BY <1>2
    <3>2. q \in requests => q.version \in Nat /\ q.version <= version
      BY <1>1 DEF ListInv
    <3> QED
      BY <1>1, <1>4, <3>1, <3>2
  <2>2. \E q \in requests' : q.version = version'
    BY <1>2, <1>3, <1>4
  <2> QED
    BY <1>1, <1>3, <2>1, <2>2 DEF T!TypeOK, ListPages
<1>6. NewestAsks'
  BY <1>1, <1>2, <1>3, <1>4 DEF NewestAsks
<1> QED
  BY <1>2, <1>3, <1>5, <1>6 DEF ListInv, GoneIsQuiet, T!ShowsWhatIsAsked, T!RestsOnAPage, ListPages

LEMMA ListAnswer == ASSUME ListInv, NEW r \in requests, T!Answer(r) PROVE ListInv'
<1>1. CASE r.version # version
  BY <1>1 DEF T!Answer, T!Current, T!list, ListInv, T!TypeOK, NewestAsks, GoneIsQuiet,
              T!ShowsWhatIsAsked, T!RestsOnAPage, ListPages
<1>2. CASE r.version = version
  <2> DEFINE n == pages[r.filters]
             p == T!Clamped(page, n)
             q == [version |-> version + 1, filters |-> filters, page |-> p]
  <2>1. /\ r.filters = filters /\ r.page = page /\ filters \in Filters /\ page \in ListPages
        /\ version \in Nat /\ \A s \in requests : s.version <= version
    BY <1>2 DEF ListInv, NewestAsks, T!TypeOK, ListPages
  <2>2. n \in 0 .. MaxPages /\ p \in ListPages /\ p <= T!AtLeastOne(n)
    BY <2>1, ListAssumption
    DEF ListInv, ListPages, T!AtLeastOne, T!Clamped, T!PagesAssumption
  <2>3. /\ rows' = [filters |-> r.filters, page |-> r.page] /\ totalPages' = n /\ page' = p
        /\ loading' = (p # page) /\ version' = IF p # page THEN version + 1 ELSE version
        /\ requests' = (requests \ {r}) \cup (IF p # page THEN {q} ELSE {})
        /\ UNCHANGED <<filters, error, timer, mount, pages>>
    BY <1>2 DEF T!Answer, T!Current
  <2>4. q \in [version : Nat, filters : Filters, page : ListPages]
        /\ q.version = version + 1 /\ q.filters = filters /\ q.page = p
    BY <2>1, <2>2
  <2> HIDE DEF n, p, q
  <2>5. T!TypeOK'
    BY <2>1, <2>2, <2>3, <2>4 DEF ListInv, T!TypeOK, ListPages
  <2>6. NewestAsks'
    BY <2>1, <2>3, <2>4 DEF ListInv, NewestAsks
  <2>7. T!ShowsWhatIsAsked' /\ T!RestsOnAPage' /\ GoneIsQuiet'
    BY <1>2, <2>1, <2>2, <2>3 DEF ListInv, GoneIsQuiet, T!ShowsWhatIsAsked, T!RestsOnAPage
  <2> QED
    BY <2>2, <2>3, <2>4, <2>5, <2>6, <2>7 DEF ListInv, ListPages
<1> QED
  BY <1>1, <1>2

LEMMA ListStep == ListInv /\ [T!Next]_TVars => ListInv'
<1> SUFFICES ASSUME ListInv, [T!Next]_TVars PROVE ListInv'
  OBVIOUS
<1> USE DEF ListInv, T!TypeOK
<1>1. page \in ListPages /\ 1 \in ListPages
  BY ListAssumption DEF ListPages, T!AtLeastOne, T!PagesAssumption
<1>2. CASE T!Mount \/ T!Refresh \/ T!Debounced
  <2>1. \E p \in ListPages : T!Load(p)
    BY <1>1, <1>2 DEF T!Mount, T!Refresh, T!Debounced
  <2>2. mount' \in {"created", "mounted"}
    BY <1>2 DEF T!Mount, T!Refresh, T!Debounced, T!User, GoneIsQuiet
  <2> QED
    BY <1>2, <2>1, <2>2, ListLoad DEF T!Mount, T!Refresh, T!Debounced, T!User
<1>3. CASE \E f \in Filters : T!SetFilters(f)
  BY <1>3 DEF T!SetFilters, T!User, NewestAsks, GoneIsQuiet, T!ShowsWhatIsAsked,
              T!RestsOnAPage, ListPages
<1>4. ASSUME NEW p, T!SetPage(p) PROVE ListInv'
  <2>1. p \in ListPages
    BY <1>4, ListAssumption DEF T!SetPage, ListPages, T!AtLeastOne, T!PagesAssumption
  <2> QED
    BY <1>4, <2>1, ListLoad DEF T!SetPage, T!User
<1>5. ASSUME NEW r \in requests, T!Fail(r) PROVE ListInv'
  BY <1>5 DEF T!Fail, T!Current, NewestAsks, GoneIsQuiet, T!ShowsWhatIsAsked, T!RestsOnAPage,
              ListPages
<1>6. CASE T!Unmount
  <2>1. \A r \in requests : r.version \in Nat /\ r.version <= version
    OBVIOUS
  <2>2. /\ mount' = "gone" /\ version' = version + 1 /\ timer' = FALSE
        /\ UNCHANGED <<filters, page, rows, totalPages, loading, error, requests, pages>>
    BY <1>6 DEF T!Unmount
  <2>3. version \in Nat /\ \A r \in requests : r.version <= version' /\ r.version # version'
    BY <2>1, <2>2
  <2>4. T!TypeOK'
    <3>1. \A r \in requests' : r.version <= version'
      BY <2>2, <2>3
    <3>2. mount' # "mounted" /\ mount' \in {"created", "mounted", "gone"} /\ timer' \in BOOLEAN
      BY <2>2
    <3> QED
      BY <2>2, <2>3, <3>1, <3>2
  <2>5. NewestAsks'
    BY <2>2, <2>3 DEF NewestAsks
  <2>6. T!ShowsWhatIsAsked' /\ T!RestsOnAPage' /\ GoneIsQuiet'
    BY <2>2, <2>3 DEF GoneIsQuiet, T!ShowsWhatIsAsked, T!RestsOnAPage
  <2> QED
    BY <2>2, <2>4, <2>5, <2>6
<1>7. CASE T!ServerChanges
  BY <1>7 DEF T!ServerChanges, T!list, NewestAsks, GoneIsQuiet, T!ShowsWhatIsAsked,
              T!RestsOnAPage, ListPages
<1>8. CASE UNCHANGED TVars
  BY <1>8 DEF TVars, NewestAsks, GoneIsQuiet, T!ShowsWhatIsAsked, T!RestsOnAPage, ListPages
<1>9. T!Done => UNCHANGED TVars
  BY DEF T!Done, T!vars, T!list, TVars
<1> QED
  BY <1>2, <1>3, <1>4, <1>5, <1>6, <1>7, <1>8, <1>9, ListAnswer DEF T!Next

LEMMA ListGone == ListInv /\ [T!Next]_TVars => T!NothingAfterUnmount
<1> SUFFICES ASSUME ListInv, [T!Next]_TVars, mount = "gone" PROVE UNCHANGED T!list
  BY DEF T!NothingAfterUnmount
<1>1. /\ ~timer /\ \A r \in requests : ~T!Current(r)
      /\ loading \in BOOLEAN /\ error \in BOOLEAN
  BY DEF ListInv, GoneIsQuiet, T!Current
<1>2. ASSUME NEW r \in requests, T!Answer(r) \/ T!Fail(r) PROVE UNCHANGED T!list
  BY <1>1, <1>2 DEF T!Answer, T!Fail, T!list
<1> QED
  BY <1>1, <1>2
  DEF T!Next, T!Mount, T!Refresh, T!Debounced, T!Unmount, T!ServerChanges, T!SetFilters,
      T!SetPage, T!User, T!Done, T!vars, T!list, TVars

-----------------------------------------------------------------------------
(* The form of a reservation.                                              *)

(* While an answer is awaited the room field is empty, and nothing else is *)
(* on its way for these dates.                                             *)
RoomsAwaited == \A r \in bookingRequests :
  /\ B!Current(r) => r.stay = stay /\ optionsLoading /\ room = None /\ rooms = {}
  /\ \A q \in bookingRequests : q.version = r.version => q = r

RoomsOffered == \A v \in rooms : <<stay, v>> \in offered

BookingForms ==
  /\ B!TypeOK
  /\ bookingRequests \subseteq [version : Nat, stay : Stays, previous : Rooms \cup {None}]
  /\ bookingVersion \in Nat /\ optionsLoading \in BOOLEAN
  /\ RoomsAwaited
  /\ RoomsOffered

(* A room a submission has booked is not free for its repetition.          *)
BookingSent ==
  /\ free \in [Stays -> SUBSET Rooms] /\ booked \in [B!Submissions -> Nat]
  /\ posts \in 0 .. MaxPosts /\ post \in B!Posts \cup {None}
  /\ B!OfferedOnly
  /\ B!BookedOnce
  /\ \A i \in B!Submissions : i > posts => booked[i] = 0
  /\ post # None => /\ post.id \in 1 .. posts
                    /\ booked[post.id] = 1 => post.room \notin free[post.stay]

BookingInv == BookingForms /\ BookingSent

LEMMA BookingInit == B!Init => BookingInv
<1> SUFFICES ASSUME B!Init PROVE BookingInv
  OBVIOUS
<1>1. BookingForms
  BY DEF B!Init, BookingForms, B!TypeOK, RoomsAwaited, RoomsOffered
<1>2. BookingSent
  BY BookingAssumption
  DEF B!Init, BookingSent, B!OfferedOnly, B!BookedOnce, B!Submissions, B!BoundAssumption
<1> QED
  BY <1>1, <1>2 DEF BookingInv

LEMMA BookingEdit == ASSUME BookingForms, NEW s \in Stays \cup {None}, B!Edit(s) PROVE BookingForms'
<1> DEFINE r == [version |-> bookingVersion + 1, stay |-> s, previous |-> room]
<1>1. /\ bookingVersion \in Nat /\ room \in Rooms \cup {None}
      /\ \A q \in bookingRequests : q.version \in Nat /\ q.version <= bookingVersion
  BY DEF BookingForms, B!TypeOK
<1>2. /\ stay' = s /\ bookingVersion' = bookingVersion + 1 /\ rooms' = {} /\ room' = None
      /\ optionsLoading' = (s # None)
      /\ bookingRequests' = IF s = None THEN bookingRequests ELSE bookingRequests \cup {r}
  BY DEF B!Edit
<1>3. s # None => r \in [version : Nat, stay : Stays, previous : Rooms \cup {None}]
  BY <1>1
<1>4. r.version = bookingVersion + 1 /\ r.stay = s
  OBVIOUS
<1> HIDE DEF r
<1>5. \A q \in bookingRequests' :
        (q \in bookingRequests /\ q.version <= bookingVersion) \/ (q = r /\ s # None)
  <2>1. \A q \in bookingRequests' : q \in bookingRequests \/ (q = r /\ s # None)
    BY <1>2
  <2> QED
    BY <1>1, <2>1
<1>6. B!TypeOK'
  <2>1. \A q \in bookingRequests' : q.version <= bookingVersion' /\ q.stay \in Stays
    BY <1>1, <1>2, <1>4, <1>5 DEF BookingForms, B!TypeOK
  <2>2. s # None => r \in bookingRequests' /\ r.version = bookingVersion' /\ r.stay = stay'
    BY <1>2, <1>4
  <2> QED
    BY <1>2, <2>1, <2>2 DEF B!TypeOK, B!Current
<1>7. RoomsAwaited'
  <2>1. \A q \in bookingRequests' : q.version = bookingVersion' => q = r /\ s # None
    BY <1>1, <1>2, <1>5
  <2>2. \A q, w \in bookingRequests' : q.version = w.version => q = w
    BY <1>1, <1>4, <1>5 DEF BookingForms, RoomsAwaited
  <2> QED
    BY <1>2, <1>4, <2>1, <2>2 DEF RoomsAwaited, B!Current
<1> QED
  BY <1>1, <1>2, <1>3, <1>6, <1>7 DEF BookingForms, RoomsOffered

LEMMA BookingAnswered ==
  ASSUME BookingInv, NEW r \in bookingRequests, B!Available(r) \/ B!Unavailable(r)
  PROVE  BookingForms'
<1> USE DEF BookingInv, BookingForms
<1>1. /\ bookingRequests' = bookingRequests \ {r} /\ UNCHANGED <<stay, bookingVersion>>
      /\ offered \subseteq offered'
  BY DEF B!Available, B!Unavailable
<1>2. CASE ~B!Current(r)
  <2>1. UNCHANGED <<room, rooms, optionsLoading>>
    BY <1>2 DEF B!Available, B!Unavailable
  <2>2. B!TypeOK'
    BY <1>1, <1>2, <2>1 DEF B!TypeOK, B!Current
  <2>3. RoomsAwaited' /\ RoomsOffered'
    BY <1>1, <2>1 DEF RoomsAwaited, RoomsOffered, B!Current
  <2> QED
    BY <1>1, <2>1, <2>2, <2>3
<1>3. CASE B!Current(r)
  <2>1. r.stay = stay /\ room = None /\ rooms = {} /\ r.stay \in Stays
        /\ r.previous \in Rooms \cup {None}
    BY <1>3 DEF RoomsAwaited
  <2>2. optionsLoading' = FALSE
    BY <1>3 DEF B!Available, B!Unavailable
  <2>3. /\ rooms' \subseteq Rooms /\ room' \in Rooms \cup {None}
        /\ room' # None => room' \in rooms'
        /\ \A v \in rooms' : <<stay, v>> \in offered'
    BY <1>3, <2>1, BookingAssumption
    DEF B!Available, B!Unavailable, BookingSent, B!NoneAssumption, B!TypeOK
  <2>4. \A q \in bookingRequests' : ~B!Current(q)'
    BY <1>1, <1>3 DEF RoomsAwaited, B!Current
  <2>5. RoomsAwaited'
    BY <1>1, <2>4 DEF RoomsAwaited
  <2>6. B!TypeOK'
    BY <1>1, <2>2, <2>3 DEF B!TypeOK
  <2> QED
    BY <1>1, <2>2, <2>3, <2>5, <2>6 DEF RoomsOffered
<1> QED
  BY <1>2, <1>3

LEMMA BookingFormStep == BookingInv /\ [B!Next]_BVars => BookingForms'
<1> SUFFICES ASSUME BookingInv, [B!Next]_BVars PROVE BookingForms'
  OBVIOUS
<1> USE DEF BookingInv, BookingForms
<1>1. ASSUME NEW v \in Rooms, B!Choose(v) PROVE BookingForms'
  <2>1. room' = v /\ v \in rooms /\ ~optionsLoading
        /\ UNCHANGED <<stay, rooms, optionsLoading, bookingVersion, bookingRequests, offered>>
    BY <1>1 DEF B!Choose
  <2>2. RoomsAwaited' /\ RoomsOffered'
    BY <2>1 DEF RoomsAwaited, RoomsOffered, B!Current
  <2> QED
    BY <2>1, <2>2 DEF B!TypeOK, B!Current
<1>2. CASE B!Created
  <2>1. /\ stay' = None /\ room' = None /\ rooms' = {} /\ optionsLoading' = FALSE
        /\ bookingVersion' = bookingVersion + 1 /\ UNCHANGED bookingRequests
    BY <1>2 DEF B!Created
  <2>2. \A q \in bookingRequests : q.version <= bookingVersion' /\ q.version # bookingVersion'
    BY <2>1 DEF B!TypeOK
  <2>3. RoomsAwaited'
    BY <2>1, <2>2 DEF RoomsAwaited, B!Current
  <2>4. B!TypeOK'
    BY <2>1, <2>2 DEF B!TypeOK
  <2>5. RoomsOffered'
    BY <2>1 DEF RoomsOffered
  <2>6. bookingVersion' \in Nat
    BY <2>1
  <2>7. optionsLoading' \in BOOLEAN
    BY <2>1
  <2> QED
    BY <2>1, <2>3, <2>4, <2>5, <2>6, <2>7
<1>3. ASSUME UNCHANGED <<stay, room, rooms, optionsLoading, bookingVersion, bookingRequests,
                         offered>>
      PROVE BookingForms'
  BY <1>3 DEF B!TypeOK, RoomsAwaited, RoomsOffered, B!Current
<1>4. CASE B!Submit \/ B!Serve \/ B!Failed \/ \E s \in Stays, v \in Rooms : B!OthersBook(s, v)
  BY <1>3, <1>4 DEF B!Submit, B!Serve, B!Failed, B!OthersBook, B!form
<1>5. CASE UNCHANGED BVars
  BY <1>3, <1>5 DEF BVars
<1> QED
  BY <1>1, <1>2, <1>4, <1>5, BookingEdit, BookingAnswered DEF B!Next

LEMMA BookingSentStep == BookingInv /\ [B!Next]_BVars => BookingSent'
<1> SUFFICES ASSUME BookingInv, [B!Next]_BVars PROVE BookingSent'
  OBVIOUS
<1> USE DEF BookingInv, BookingSent
<1>1. ASSUME UNCHANGED <<post, free, booked, posts>>, offered \subseteq offered' PROVE BookingSent'
  BY <1>1 DEF B!OfferedOnly, B!BookedOnce
<1>2. CASE B!Submit
  <2> DEFINE p == [id |-> posts + 1, stay |-> stay, room |-> room, retries |-> 1,
                   result |-> None]
  <2>1. /\ post' = p /\ posts' = posts + 1 /\ posts < MaxPosts
        /\ UNCHANGED <<free, booked, offered>> /\ stay # None /\ room # None
    BY <1>2 DEF B!Submit, B!Ready
  <2>2. stay \in Stays /\ room \in Rooms /\ <<stay, room>> \in offered
    BY <2>1 DEF BookingForms, B!TypeOK, RoomsOffered
  <2>3. posts \in Nat /\ MaxPosts \in Nat /\ posts + 1 \in B!Submissions
    BY <2>1, BookingAssumption DEF B!BoundAssumption, B!Submissions
  <2>4. p \in B!Posts /\ p.id = posts + 1 /\ p.stay = stay /\ p.room = room
    BY <2>2, <2>3 DEF B!Posts
  <2> HIDE DEF p
  <2>5. booked[p.id] = 0
    BY <2>3, <2>4
  <2>6. \A i \in B!Submissions : i > posts' => booked'[i] = 0
    BY <2>1, <2>3 DEF B!Submissions
  <2>7. posts' \in 0 .. MaxPosts /\ p.id \in 1 .. posts'
    BY <2>1, <2>3, <2>4
  <2> QED
    BY <2>1, <2>2, <2>4, <2>5, <2>6, <2>7 DEF B!OfferedOnly, B!BookedOnce
<1>3. CASE B!Serve
  <2>1. /\ post \in B!Posts /\ post.id \in 1 .. posts /\ post.id \in B!Submissions
        /\ post.stay \in Stays /\ <<post.stay, post.room>> \in offered
    BY <1>3, BookingAssumption
    DEF B!Serve, B!Posts, B!Submissions, B!OfferedOnly, B!BoundAssumption
  <2>2. /\ post' \in B!Posts /\ post'.id = post.id /\ post'.stay = post.stay
        /\ post'.room = post.room /\ UNCHANGED <<posts, offered>>
    BY <1>3, <2>1 DEF B!Serve, B!Posts
  <2>3. CASE B!StillFree(post)
    <3>1. /\ booked' = [booked EXCEPT ![post.id] = @ + 1]
          /\ free' = [free EXCEPT ![post.stay] = @ \ {post.room}]
      BY <1>3, <2>3 DEF B!Serve
    <3>2. booked[post.id] = 0
      BY <1>3, <2>1, <2>3 DEF B!Serve, B!StillFree, B!BookedOnce
    <3>3. /\ booked' \in [B!Submissions -> Nat] /\ booked'[post.id] = 1
          /\ \A i \in B!Submissions : i # post.id => booked'[i] = booked[i]
      BY <2>1, <3>1, <3>2
    <3>4. free' \in [Stays -> SUBSET Rooms] /\ post.room \notin free'[post.stay]
      BY <2>1, <3>1
    <3>5. \A i \in B!Submissions : i > posts => booked'[i] = 0
      BY <2>1, <3>3
    <3> QED
      BY <2>1, <2>2, <3>3, <3>4, <3>5 DEF B!OfferedOnly, B!BookedOnce
  <2>4. CASE ~B!StillFree(post)
    BY <1>3, <2>1, <2>2, <2>4 DEF B!Serve, B!StillFree, B!OfferedOnly, B!BookedOnce
  <2> QED
    BY <2>3, <2>4
<1>4. CASE B!Failed
  <2>1. post \in B!Posts /\ post' = B!Repeated(post) /\ UNCHANGED <<free, booked, offered, posts>>
    BY <1>4 DEF B!Failed
  <2>2. CASE post.retries > 0
    <3>1. post.retries = 1 /\ post' = [post EXCEPT !.result = None, !.retries = @ - 1]
      BY <2>1, <2>2 DEF B!Repeated, B!Posts
    <3>2. /\ post' \in B!Posts /\ post'.id = post.id /\ post'.stay = post.stay
          /\ post'.room = post.room
      <4>1. post' = [post EXCEPT !.result = None, !.retries = 0]
        BY <3>1
      <4> QED
        BY <2>1, <4>1 DEF B!Posts
    <3> QED
      BY <1>4, <2>1, <3>2 DEF B!Failed, B!OfferedOnly, B!BookedOnce
  <2>3. CASE ~(post.retries > 0)
    BY <2>1, <2>3 DEF B!Repeated, B!OfferedOnly, B!BookedOnce
  <2> QED
    BY <2>2, <2>3
<1>5. CASE B!Created
  BY <1>5 DEF B!Created, B!OfferedOnly, B!BookedOnce
<1>6. ASSUME NEW s \in Stays, NEW v \in Rooms, B!OthersBook(s, v) PROVE BookingSent'
  <2>1. /\ free' = [free EXCEPT ![s] = @ \ {v}] /\ UNCHANGED <<post, booked, offered, posts>>
    BY <1>6 DEF B!OthersBook
  <2>2. free' \in [Stays -> SUBSET Rooms] /\ \A w \in Stays : free'[w] \subseteq free[w]
    BY <2>1
  <2>3. post # None => post.stay \in Stays
    BY DEF B!Posts
  <2> QED
    BY <2>1, <2>2, <2>3 DEF B!OfferedOnly, B!BookedOnce
<1>7. CASE \/ \E s \in Stays \cup {None} : B!Edit(s)
           \/ \E r \in bookingRequests : B!Available(r) \/ B!Unavailable(r)
           \/ \E v \in Rooms : B!Choose(v)
           \/ UNCHANGED BVars
  <2>1. UNCHANGED <<post, free, booked, posts>> /\ offered \subseteq offered'
    BY <1>7 DEF B!Edit, B!Available, B!Unavailable, B!Choose, BVars
  <2> QED
    BY <1>1, <2>1
<1> QED
  BY <1>2, <1>3, <1>4, <1>5, <1>6, <1>7 DEF B!Next

LEMMA BookingStep == BookingInv /\ [B!Next]_BVars => BookingInv'
BY BookingFormStep, BookingSentStep DEF BookingInv

-----------------------------------------------------------------------------
(* The form of a payment.                                                  *)

(* The balance on the screen was read for the reservation on the screen.   *)
BalanceWasRead == selected # None => <<reservation, Total - paid>> \in read

PaymentForms ==
  /\ P!TypeOK
  /\ paymentRequests \subseteq [version : Nat, reservation : Reservations]
  /\ paymentVersion \in Nat /\ paymentOptionsLoading \in BOOLEAN
  /\ completed \in [Reservations -> 0 .. Total]
  /\ \A q \in paymentRequests : /\ q.version <= paymentVersion
                                /\ P!Current(q) => q.reservation = reservation
  /\ BalanceWasRead

(* How often a submission may have been recorded after the times it was    *)
(* sent.                                                                   *)
RecordedSoFar(p) == IF p.result = None THEN 1 - p.retries ELSE 2 - p.retries

PaymentSent ==
  /\ created \in [1 .. MaxPosts -> Nat]
  /\ paymentPosts \in 0 .. MaxPosts /\ paymentPost \in P!Posts \cup {None}
  /\ P!WithinBalanceRead
  /\ P!RecordedTwiceAtMost
  /\ \A i \in 1 .. MaxPosts : i > paymentPosts => created[i] = 0
  /\ paymentPost # None => /\ paymentPost.id \in 1 .. paymentPosts
                           /\ created[paymentPost.id] <= RecordedSoFar(paymentPost)

PaymentInv == PaymentForms /\ PaymentSent

LEMMA PaymentInit == P!Init => PaymentInv
<1> SUFFICES ASSUME P!Init PROVE PaymentInv
  OBVIOUS
<1>1. Total \in Nat /\ MaxPosts \in Nat
  BY PaymentAssumption DEF P!BoundAssumption
<1>2. P!TypeOK /\ BalanceWasRead
  BY <1>1 DEF P!Init, P!TypeOK, BalanceWasRead
<1>3. PaymentForms
  BY <1>2 DEF P!Init, PaymentForms
<1>4. PaymentSent
  BY <1>1 DEF P!Init, PaymentSent, P!WithinBalanceRead, P!RecordedTwiceAtMost
<1> QED
  BY <1>3, <1>4 DEF PaymentInv

LEMMA BalanceAsked ==
  ASSUME PaymentForms, P!RefreshBalance(reservation'), reservation' \in Reservations \cup {None},
         amount' \in 0 .. Total, UNCHANGED completed
  PROVE  PaymentForms'
<1> DEFINE r == [version |-> paymentVersion + 1, reservation |-> reservation']
<1>1. /\ paymentVersion \in Nat /\ Total \in Nat
      /\ \A q \in paymentRequests : q.version \in Nat /\ q.version <= paymentVersion
  BY PaymentAssumption DEF PaymentForms, P!BoundAssumption
<1>2. /\ paymentVersion' = paymentVersion + 1 /\ selected' = None /\ paid' = 0
      /\ paymentOptionsLoading' = (reservation' # None)
      /\ paymentRequests' = IF reservation' = None THEN paymentRequests
                            ELSE paymentRequests \cup {r}
  BY DEF P!RefreshBalance
<1>3. reservation' # None => r \in [version : Nat, reservation : Reservations]
  BY <1>1
<1>4. r.version = paymentVersion + 1 /\ r.reservation = reservation'
  OBVIOUS
<1> HIDE DEF r
<1>5. \A q \in paymentRequests' : q \in paymentRequests \/ (q = r /\ reservation' # None)
  BY <1>2
<1>6. \A q \in paymentRequests' : /\ q.version <= paymentVersion'
                                  /\ q.version = paymentVersion' => q = r
  BY <1>1, <1>2, <1>4, <1>5
<1>7. reservation' # None =>
        r \in paymentRequests' /\ r.version = paymentVersion' /\ r.reservation = reservation'
  BY <1>2, <1>4
<1>8. P!TypeOK'
  <2>1. reservation' # None =>
          \E q \in paymentRequests' : P!Current(q)' /\ q.reservation = reservation'
    BY <1>2, <1>7 DEF P!Current
  <2>2. 0 \in 0 .. Total
    BY <1>1
  <2> QED
    BY <1>2, <2>1, <2>2 DEF P!TypeOK
<1>9. paymentRequests' \subseteq [version : Nat, reservation : Reservations]
  BY <1>2, <1>3 DEF PaymentForms
<1> QED
  BY <1>1, <1>2, <1>4, <1>6, <1>8, <1>9 DEF PaymentForms, BalanceWasRead, P!Current

LEMMA BalanceAnswered ==
  ASSUME PaymentForms, NEW q \in paymentRequests, P!Read(q) \/ P!NotRead(q)
  PROVE  PaymentForms'
<1> USE DEF PaymentForms
<1>1. /\ paymentRequests' = paymentRequests \ {q}
      /\ UNCHANGED <<reservation, paymentVersion, completed>> /\ read \subseteq read'
  BY DEF P!Read, P!NotRead, P!server
<1>2. CASE ~P!Current(q)
  <2>1. UNCHANGED <<amount, selected, paid, paymentOptionsLoading>>
    BY <1>2 DEF P!Read, P!NotRead
  <2> QED
    BY <1>1, <1>2, <2>1 DEF P!TypeOK, P!Current, BalanceWasRead
<1>3. CASE P!Current(q)
  <2>1. /\ q.reservation = reservation /\ reservation \in Reservations
        /\ completed[reservation] \in 0 .. Total /\ Total \in Nat
    BY <1>3, PaymentAssumption DEF P!BoundAssumption
  <2>2. paymentOptionsLoading' = FALSE
    BY <1>3 DEF P!Read, P!NotRead
  <2>3. CASE P!Read(q)
    <3>1. /\ selected' = reservation /\ paid' = completed[reservation]
          /\ amount' = IF amount = 0 THEN Total - completed[reservation] ELSE amount
          /\ <<reservation, Total - completed[reservation]>> \in read'
      BY <1>3, <2>1, <2>3 DEF P!Read
    <3>2. P!TypeOK'
      BY <1>1, <2>1, <2>2, <3>1 DEF P!TypeOK
    <3> QED
      BY <1>1, <2>2, <3>1, <3>2 DEF BalanceWasRead, P!Current
  <2>4. CASE P!NotRead(q)
    <3>1. UNCHANGED <<amount, selected, paid>>
      BY <2>4 DEF P!NotRead
    <3>2. P!TypeOK'
      BY <1>1, <2>2, <3>1 DEF P!TypeOK
    <3> QED
      BY <1>1, <2>2, <3>1, <3>2 DEF BalanceWasRead, P!Current
  <2> QED
    BY <2>3, <2>4
<1> QED
  BY <1>2, <1>3

LEMMA PaymentFormStep == PaymentInv /\ [P!Next]_PVars => PaymentForms'
<1> SUFFICES ASSUME PaymentInv, [P!Next]_PVars PROVE PaymentForms'
  OBVIOUS
<1> USE DEF PaymentInv
<1>1. Total \in Nat
  BY PaymentAssumption DEF P!BoundAssumption
<1>2. ASSUME NEW r \in Reservations \cup {None}, P!Choose(r) PROVE PaymentForms'
  BY <1>1, <1>2, BalanceAsked DEF P!Choose, P!server
<1>3. CASE P!Refresh
  BY <1>3, BalanceAsked DEF P!Refresh, P!server, PaymentForms, P!TypeOK
<1>4. CASE P!Created
  BY <1>1, <1>4, BalanceAsked DEF P!Created, P!server
<1>5. ASSUME NEW v \in 0 .. Total, P!TypeAmount(v) PROVE PaymentForms'
  BY <1>5 DEF P!TypeAmount, P!server, PaymentForms, P!TypeOK, P!Current, BalanceWasRead
<1>6. ASSUME UNCHANGED <<P!form, paymentRequests, read>>,
             completed' \in [Reservations -> 0 .. Total]
      PROVE  PaymentForms'
  BY <1>6 DEF P!form, PaymentForms, P!TypeOK, P!Current, BalanceWasRead
<1>7. ASSUME NEW r \in Reservations, P!OthersPay(r) PROVE PaymentForms'
  <2>1. completed' \in [Reservations -> 0 .. Total]
    BY <1>1, <1>7 DEF P!OthersPay, PaymentForms
  <2> QED
    BY <1>6, <1>7, <2>1 DEF P!OthersPay
<1>8. CASE P!Submit \/ P!Serve \/ P!Failed \/ UNCHANGED PVars
  <2>1. UNCHANGED <<P!form, paymentRequests, read, completed>>
    BY <1>8 DEF P!Submit, P!Serve, P!Failed, P!server, P!form, PVars
  <2> QED
    BY <1>6, <2>1 DEF PaymentForms
<1> QED
  BY <1>2, <1>3, <1>4, <1>5, <1>7, <1>8, BalanceAnswered DEF P!Next

LEMMA PaymentSentStep == PaymentInv /\ [P!Next]_PVars => PaymentSent'
<1> SUFFICES ASSUME PaymentInv, [P!Next]_PVars PROVE PaymentSent'
  OBVIOUS
<1> USE DEF PaymentInv
<1>1. Total \in Nat /\ MaxPosts \in Nat
  BY PaymentAssumption DEF P!BoundAssumption
<1>2. ASSUME UNCHANGED <<paymentPost, created, paymentPosts>>, read \subseteq read'
      PROVE  PaymentSent'
  BY <1>2 DEF PaymentSent, P!WithinBalanceRead, P!RecordedTwiceAtMost, RecordedSoFar
<1>3. CASE P!Submit
  <2> DEFINE p == [id |-> paymentPosts + 1, reservation |-> reservation, amount |-> amount,
                   retries |-> 1, result |-> None]
  <2>1. /\ paymentPost' = p /\ paymentPosts' = paymentPosts + 1 /\ paymentPosts < MaxPosts
        /\ UNCHANGED <<created, read>> /\ selected # None /\ amount <= Total - paid
    BY <1>3 DEF P!Submit, P!Ready, P!balance, P!server
  <2>2. /\ reservation \in Reservations /\ amount \in 0 .. Total /\ Total - paid \in 0 .. Total
        /\ <<reservation, Total - paid>> \in read
    BY <1>1, <2>1 DEF PaymentForms, P!TypeOK, BalanceWasRead
  <2>3. paymentPosts + 1 \in 1 .. MaxPosts
    BY <1>1, <2>1 DEF PaymentSent
  <2>4. /\ p \in P!Posts /\ p.id = paymentPosts + 1 /\ p.reservation = reservation
        /\ p.amount = amount /\ RecordedSoFar(p) = 0
    BY <2>2, <2>3 DEF P!Posts, RecordedSoFar
  <2> HIDE DEF p
  <2>5. created[p.id] = 0 /\ \A i \in 1 .. MaxPosts : i > paymentPosts' => created'[i] = 0
    BY <1>1, <2>1, <2>3, <2>4 DEF PaymentSent
  <2>6. P!WithinBalanceRead'
    BY <2>1, <2>2, <2>4 DEF P!WithinBalanceRead
  <2>7. paymentPosts' \in 0 .. MaxPosts /\ p.id \in 1 .. paymentPosts'
    BY <1>1, <2>1, <2>3, <2>4
  <2> QED
    BY <2>1, <2>4, <2>5, <2>6, <2>7 DEF PaymentSent, P!RecordedTwiceAtMost, RecordedSoFar
<1>4. CASE P!Serve
  <2>1. /\ paymentPost # None /\ paymentPost.result = None /\ paymentPost \in P!Posts
        /\ paymentPost.id \in 1 .. paymentPosts /\ paymentPost.id \in 1 .. MaxPosts
        /\ created[paymentPost.id] \in Nat /\ paymentPost.retries \in {0, 1}
        /\ created[paymentPost.id] <= 1 - paymentPost.retries
    BY <1>1, <1>4 DEF P!Serve, P!Posts, PaymentSent, RecordedSoFar
  <2>2. /\ paymentPost' \in P!Posts /\ paymentPost'.id = paymentPost.id
        /\ paymentPost'.reservation = paymentPost.reservation
        /\ paymentPost'.amount = paymentPost.amount
        /\ paymentPost'.retries = paymentPost.retries /\ paymentPost'.result # None
    BY <1>4, <2>1, PaymentAssumption DEF P!Serve, P!Posts, P!NoneAssumption
  <2>3. UNCHANGED <<read, paymentPosts>> /\ RecordedSoFar(paymentPost)' = 2 - paymentPost.retries
    BY <1>4, <2>2 DEF P!Serve, RecordedSoFar
  <2>4. \/ UNCHANGED created
        \/ created' = [created EXCEPT ![paymentPost.id] = @ + 1]
    BY <1>4 DEF P!Serve
  <2>5. /\ created' \in [1 .. MaxPosts -> Nat]
        /\ created'[paymentPost.id] <= 2 - paymentPost.retries
        /\ \A i \in 1 .. MaxPosts : i # paymentPost.id => created'[i] = created[i]
    <3>1. CASE UNCHANGED created
      BY <2>1, <3>1 DEF PaymentSent
    <3>2. CASE created' = [created EXCEPT ![paymentPost.id] = @ + 1]
      <4>1. created'[paymentPost.id] = created[paymentPost.id] + 1
        BY <2>1, <3>2 DEF PaymentSent
      <4>2. created' \in [1 .. MaxPosts -> Nat]
        BY <2>1, <3>2 DEF PaymentSent
      <4> QED
        BY <2>1, <3>2, <4>1, <4>2 DEF PaymentSent
    <3> QED
      BY <2>4, <3>1, <3>2
  <2>6. P!RecordedTwiceAtMost'
    BY <2>1, <2>5 DEF PaymentSent, P!RecordedTwiceAtMost
  <2>7. P!WithinBalanceRead'
    BY <2>1, <2>2, <2>3 DEF PaymentSent, P!WithinBalanceRead
  <2>8. \A i \in 1 .. MaxPosts : i > paymentPosts' => created'[i] = 0
    BY <1>1, <2>1, <2>3, <2>5 DEF PaymentSent
  <2> QED
    BY <2>1, <2>2, <2>3, <2>5, <2>6, <2>7, <2>8 DEF PaymentSent
<1>5. CASE P!Failed
  <2>1. /\ paymentPost # None /\ paymentPost \in P!Posts
        /\ paymentPost' = P!Repeated(paymentPost) /\ UNCHANGED <<created, read, paymentPosts>>
    BY <1>5 DEF P!Failed, P!server, PaymentSent
  <2>2. CASE paymentPost.retries > 0
    <3>1. paymentPost.retries = 1 /\
          paymentPost' = [paymentPost EXCEPT !.result = None, !.retries = @ - 1]
      BY <2>1, <2>2 DEF P!Repeated, P!Posts
    <3>2. paymentPost' = [paymentPost EXCEPT !.result = None, !.retries = 0]
      BY <3>1
    <3>3. /\ paymentPost' \in P!Posts /\ paymentPost'.id = paymentPost.id
          /\ paymentPost'.reservation = paymentPost.reservation
          /\ paymentPost'.amount = paymentPost.amount
          /\ paymentPost'.retries = 0 /\ paymentPost'.result = None
      BY <2>1, <3>2 DEF P!Posts
    <3>4. created[paymentPost.id] <= 1
      <4>1. RecordedSoFar(paymentPost) \in {0, 1}
        BY <3>1 DEF RecordedSoFar
      <4>2. paymentPost.id \in 1 .. MaxPosts /\ created[paymentPost.id] \in Nat
        BY <1>1, <2>1 DEF PaymentSent
      <4> QED
        BY <2>1, <4>1, <4>2 DEF PaymentSent
    <3>5. RecordedSoFar(paymentPost)' = 1
      BY <3>3 DEF RecordedSoFar
    <3>6. P!WithinBalanceRead'
      BY <2>1, <3>3 DEF PaymentSent, P!WithinBalanceRead
    <3> QED
      BY <2>1, <3>3, <3>4, <3>5, <3>6 DEF PaymentSent, P!RecordedTwiceAtMost
  <2>3. CASE ~(paymentPost.retries > 0)
    BY <2>1, <2>3 DEF P!Repeated, PaymentSent, P!WithinBalanceRead, P!RecordedTwiceAtMost
  <2> QED
    BY <2>2, <2>3
<1>6. CASE P!Created
  BY <1>6 DEF P!Created, P!server, PaymentSent, P!WithinBalanceRead, P!RecordedTwiceAtMost
<1>7. CASE \/ \E r \in Reservations \cup {None} : P!Choose(r)
           \/ P!Refresh
           \/ \E v \in 0 .. Total : P!TypeAmount(v)
           \/ \E q \in paymentRequests : P!Read(q) \/ P!NotRead(q)
           \/ \E r \in Reservations : P!OthersPay(r)
           \/ UNCHANGED PVars
  <2>1. UNCHANGED <<paymentPost, created, paymentPosts>> /\ read \subseteq read'
    BY <1>7 DEF P!Choose, P!Refresh, P!TypeAmount, P!Read, P!NotRead, P!OthersPay, P!server, PVars
  <2> QED
    BY <1>2, <2>1
<1> QED
  BY <1>3, <1>4, <1>5, <1>6, <1>7 DEF P!Next

LEMMA PaymentStep == PaymentInv /\ [P!Next]_PVars => PaymentInv'
BY PaymentFormStep, PaymentSentStep DEF PaymentInv

-----------------------------------------------------------------------------
(* The list and the dialog.                                                *)

(* What a load that may still be shown has read is not older than the last *)
(* save the user was told of.                                              *)
ReadsAreLate == \A v \in DOMAIN reads :
  reads[v] \in 0 .. saved /\ (v = boardVersion => told <= reads[v])

BoardLists ==
  /\ boardVersion \in Nat /\ boardLoading \in BOOLEAN
  /\ \A r \in boardRequests : r.version \in 1 .. boardVersion
  /\ saved \in 0 .. MaxSaves /\ told \in 0 .. saved /\ boardShown \in 0 .. saved
  /\ DOMAIN reads \subseteq 1 .. boardVersion
  /\ ReadsAreLate
  /\ L!ShowsWhatWasSaved

BoardDialogs ==
  /\ dialog \in L!Targets \cup {None} /\ boardPost \in L!Posts \cup {None}
  /\ submitting \in BOOLEAN /\ (submitting <=> boardPost # None)
  /\ L!Posted("saved") => boardPost.at <= saved
  /\ boardMount # "gone" /\ boardPost # None /\ boardPost.step # "loading" =>
       dialog = boardPost.target

BoardInv == BoardLists /\ BoardDialogs

LEMMA BoardHolds == BoardInv => L!TypeOK /\ L!ShowsWhatWasSaved /\ L!SavesWhatIsOpen
BY DEF BoardInv, BoardLists, BoardDialogs, L!TypeOK, L!SavesWhatIsOpen

LEMMA BoardInit == L!Init => BoardInv
<1> SUFFICES ASSUME L!Init PROVE BoardInv
  OBVIOUS
<1>1. /\ boardVersion = 0 /\ boardLoading = TRUE /\ boardRequests = {} /\ reads = <<>>
      /\ boardShown = 0 /\ saved = 0 /\ told = 0
  BY DEF L!Init, L!L!Init
<1>2. BoardLists
  BY <1>1, BoardAssumption
  DEF BoardLists, ReadsAreLate, L!ShowsWhatWasSaved, L!BoundAssumption
<1>3. BoardDialogs
  BY DEF L!Init, BoardDialogs, L!Posted
<1> QED
  BY <1>2, <1>3 DEF BoardInv

(* A new load has read nothing yet.                                        *)
LEMMA BoardAsked ==
  ASSUME BoardLists, NEW p, L!L!Load(p), told' \in 0 .. saved,
         UNCHANGED <<reads, boardShown, saved>>
  PROVE  BoardLists'
<1> USE DEF BoardLists
<1>1. /\ boardVersion' = boardVersion + 1 /\ boardLoading' = TRUE
      /\ boardRequests' = boardRequests \cup
           {[version |-> boardVersion + 1, filters |-> boardFilters, page |-> p]}
  BY DEF L!L!Load
<1>2. \A r \in boardRequests' : r.version \in 1 .. boardVersion'
  BY <1>1
<1>3. DOMAIN reads \subseteq 1 .. boardVersion' /\ boardVersion' \notin DOMAIN reads
  BY <1>1
<1>4. ReadsAreLate' /\ L!ShowsWhatWasSaved'
  BY <1>1, <1>3 DEF ReadsAreLate, L!ShowsWhatWasSaved
<1> QED
  BY <1>1, <1>2, <1>3, <1>4

(* The answers under way have become too old to be shown.                  *)
LEMMA BoardOutdated ==
  ASSUME BoardLists, boardVersion' = boardVersion + 1, boardLoading' \in BOOLEAN,
         boardLoading' \/ boardMount' = "gone",
         UNCHANGED <<boardRequests, reads, boardShown, saved, told>>
  PROVE  BoardLists'
<1>1. boardVersion' \in Nat /\ boardVersion' \notin DOMAIN reads /\
      DOMAIN reads \subseteq 1 .. boardVersion'
  BY DEF BoardLists
<1>2. \A r \in boardRequests' : r.version \in 1 .. boardVersion'
  BY DEF BoardLists
<1>3. ReadsAreLate' /\ L!ShowsWhatWasSaved'
  BY <1>1 DEF BoardLists, ReadsAreLate, L!ShowsWhatWasSaved
<1> QED
  BY <1>1, <1>2, <1>3 DEF BoardLists

LEMMA BoardReads == ASSUME BoardLists, NEW r \in boardRequests, L!ReadRows(r) PROVE BoardLists'
<1> USE DEF BoardLists
<1>1. /\ reads' = [v \in DOMAIN reads \cup {r.version} |->
                     IF v = r.version THEN saved ELSE reads[v]]
      /\ UNCHANGED <<boardMount, boardLoading, boardError, boardVersion, boardRequests, boardShown,
                     saved, told>>
  BY DEF L!ReadRows, L!table, L!board
<1>2. DOMAIN reads' = DOMAIN reads \cup {r.version}
  BY <1>1
<1>3. \A v \in DOMAIN reads' : reads'[v] = saved \/ (v \in DOMAIN reads /\ reads'[v] = reads[v])
  BY <1>1, <1>2
<1>4. saved \in Nat /\ told \in Nat /\ told <= saved
  BY BoardAssumption DEF L!BoundAssumption
<1>5. ReadsAreLate'
  BY <1>1, <1>3, <1>4 DEF ReadsAreLate
<1>6. L!ShowsWhatWasSaved'
  BY <1>1 DEF L!ShowsWhatWasSaved
<1> QED
  BY <1>1, <1>2, <1>5, <1>6

LEMMA BoardAnswered ==
  ASSUME BoardLists, NEW r \in boardRequests, L!Answer(r) \/ L!Fail(r)
  PROVE  BoardLists'
<1> USE DEF BoardLists
<1>1. reads' = L!Forget(r) /\ UNCHANGED <<boardMount, saved, told>>
  BY DEF L!Answer, L!Fail, L!L!Answer, L!L!Fail, L!board
<1>2. /\ DOMAIN reads' = DOMAIN reads \ {r.version}
      /\ \A v \in DOMAIN reads' : reads'[v] = reads[v]
  BY <1>1 DEF L!Forget
<1>3. ASSUME UNCHANGED boardVersion,
             \A q \in boardRequests' : q \in boardRequests
      PROVE  ReadsAreLate' /\ DOMAIN reads' \subseteq 1 .. boardVersion' /\
             \A q \in boardRequests' : q.version \in 1 .. boardVersion'
  BY <1>1, <1>2, <1>3 DEF ReadsAreLate
<1>4. CASE L!Fail(r)
  <2>1. /\ boardRequests' = boardRequests \ {r} /\ UNCHANGED <<boardVersion, boardShown>>
        /\ boardError' = (boardError \/ L!L!Current(r))
        /\ boardLoading' = (boardLoading /\ ~L!L!Current(r))
    BY <1>4 DEF L!Fail, L!L!Fail, L!board
  <2>2. L!ShowsWhatWasSaved'
    BY <1>1, <2>1 DEF L!ShowsWhatWasSaved
  <2> QED
    BY <1>1, <1>3, <2>1, <2>2
<1>5. CASE L!Answer(r) /\ ~L!L!Current(r)
  <2>1. boardRequests' = boardRequests \ {r} /\
        UNCHANGED <<boardVersion, boardShown, boardError, boardLoading>>
    BY <1>5 DEF L!Answer, L!L!Answer, L!L!list
  <2>2. L!ShowsWhatWasSaved'
    BY <1>1, <2>1 DEF L!ShowsWhatWasSaved
  <2> QED
    BY <1>1, <1>3, <2>1, <2>2
<1>6. CASE L!Answer(r) /\ L!L!Current(r)
  <2>1. r.version = boardVersion /\ r.version \in DOMAIN reads /\ boardShown' = reads[boardVersion]
    BY <1>6 DEF L!Answer, L!L!Current
  <2>2. boardShown' \in 0 .. saved /\ told <= boardShown'
    BY <2>1 DEF ReadsAreLate
  <2>3. L!ShowsWhatWasSaved'
    BY <1>1, <2>2, BoardAssumption DEF L!ShowsWhatWasSaved, L!BoundAssumption
  <2> DEFINE p == L!L!Clamped(boardPage, boardPages[r.filters])
             q == [version |-> boardVersion + 1, filters |-> boardFilters, page |-> p]
  <2>4. /\ boardLoading' = (p # boardPage)
        /\ boardVersion' = IF p # boardPage THEN boardVersion + 1 ELSE boardVersion
        /\ boardRequests' = (boardRequests \ {r}) \cup (IF p # boardPage THEN {q} ELSE {})
    BY <1>6 DEF L!Answer, L!L!Answer
  <2>5. q.version = boardVersion + 1
    OBVIOUS
  <2> HIDE DEF p, q
  <2>6. boardVersion' \in Nat /\ boardLoading' \in BOOLEAN /\ boardVersion <= boardVersion'
    BY <2>4
  <2>7. \A w \in boardRequests' : w.version \in 1 .. boardVersion'
    <3>1. CASE p = boardPage
      BY <2>4, <3>1
    <3>2. CASE p # boardPage
      BY <2>4, <2>5, <3>2
    <3> QED
      BY <3>1, <3>2
  <2>8. boardVersion' \notin DOMAIN reads' /\ DOMAIN reads' \subseteq 1 .. boardVersion'
    BY <1>2, <2>1, <2>4, <2>6
  <2>9. ReadsAreLate'
    BY <1>1, <1>2, <2>8 DEF ReadsAreLate
  <2> QED
    BY <1>1, <2>2, <2>3, <2>6, <2>7, <2>8, <2>9
<1> QED
  BY <1>4, <1>5, <1>6

LEMMA BoardListStep == BoardInv /\ [L!Next]_LVars => BoardLists'
<1> SUFFICES ASSUME BoardInv, [L!Next]_LVars PROVE BoardLists'
  OBVIOUS
<1> USE DEF BoardInv
<1>1. told \in 0 .. saved /\ boardLoading \in BOOLEAN
  BY DEF BoardLists
<1>2. CASE L!Leave
  <2>1. /\ boardVersion' = boardVersion + 1 /\ boardMount' = "gone"
        /\ UNCHANGED <<boardLoading, boardRequests, reads, boardShown, saved, told>>
    BY <1>2 DEF L!Leave, L!L!Unmount
  <2> QED
    BY <1>1, <2>1, BoardOutdated
<1>3. CASE L!ListAlone
  <2>1. UNCHANGED <<reads, boardShown, saved, told>>
    BY <1>3 DEF L!ListAlone, L!board
  <2>2. CASE \E p : L!L!Load(p)
    BY <1>1, <2>1, <2>2, BoardAsked
  <2>3. CASE \E f \in Filters : L!L!SetFilters(f)
    <3>1. boardVersion' = boardVersion + 1 /\ boardLoading' = TRUE /\ UNCHANGED boardRequests
      BY <2>3 DEF L!L!SetFilters
    <3> QED
      BY <2>1, <3>1, BoardOutdated
  <2> QED
    BY <1>3, <2>2, <2>3 DEF L!ListAlone, L!L!Mount, L!L!Debounced, L!L!Refresh
<1>4. CASE L!Succeed
  <2>1. told' \in 0 .. saved /\ L!L!Load(boardPage) /\ UNCHANGED <<reads, boardShown, saved>>
    BY <1>4 DEF L!Succeed, L!Reload, BoardDialogs, L!Posts, L!Posted, BoardLists
  <2> QED
    BY <2>1, BoardAsked
<1>5. CASE L!Serve
  <2>1. /\ UNCHANGED <<L!table, reads, boardShown, told>>
        /\ saved' = saved \/ (saved' = saved + 1 /\ saved < MaxSaves)
    BY <1>5 DEF L!Serve
  <2>2. saved \in Nat /\ MaxSaves \in Nat
    BY BoardAssumption DEF BoardLists, L!BoundAssumption
  <2>3. saved' \in 0 .. MaxSaves /\ \A n \in 0 .. saved : n \in 0 .. saved'
    BY <2>1, <2>2 DEF BoardLists
  <2>4. ReadsAreLate' /\ L!ShowsWhatWasSaved'
    BY <2>1, <2>3 DEF BoardLists, ReadsAreLate, L!ShowsWhatWasSaved, L!table
  <2> QED
    BY <2>1, <2>3, <2>4 DEF BoardLists, L!table
<1>6. CASE UNCHANGED <<L!table, reads, boardShown, told, saved>>
  BY <1>6 DEF BoardLists, ReadsAreLate, L!ShowsWhatWasSaved, L!table
<1>7. CASE \/ L!openAddModal \/ \E r \in Records : L!editReservation(r)
           \/ L!closeModal \/ L!Submit \/ L!Repeat \/ L!Loaded \/ L!Failed \/ UNCHANGED LVars
  <2>1. UNCHANGED <<L!table, reads, boardShown, told, saved>>
    BY <1>7 DEF L!openAddModal, L!editReservation, L!OpenDialog, L!closeModal, L!Submit, L!Repeat,
                L!Loaded, L!Failed, LVars, L!table
  <2> QED
    BY <1>6, <2>1
<1> QED
  BY <1>2, <1>3, <1>4, <1>5, <1>7, BoardReads, BoardAnswered DEF L!Next

LEMMA BoardDialogStep == BoardInv /\ [L!Next]_LVars => BoardDialogs'
<1> SUFFICES ASSUME BoardInv, [L!Next]_LVars PROVE BoardDialogs'
  OBVIOUS
<1> USE DEF BoardInv, BoardDialogs
<1>1. None \notin L!Targets \cup L!Posts
  BY BoardAssumption DEF L!NoneAssumption
<1>2. saved \in Nat
  BY BoardAssumption DEF BoardLists, L!BoundAssumption
<1>3. ASSUME UNCHANGED <<dialog, submitting, boardPost, saved>>,
             boardMount' # "gone" => boardMount # "gone"
      PROVE  BoardDialogs'
  BY <1>3 DEF L!Posted
<1>4. CASE \/ L!ListAlone \/ UNCHANGED LVars
           \/ \E r \in boardRequests : L!ReadRows(r) \/ L!Answer(r) \/ L!Fail(r)
  <2>1. UNCHANGED <<dialog, submitting, boardPost, saved>>
    BY <1>4 DEF L!ListAlone, L!ReadRows, L!Answer, L!Fail, L!board, LVars
  <2>2. boardMount' # "gone" => boardMount # "gone"
    BY <1>4
    DEF L!ListAlone, L!L!Mount, L!L!Debounced, L!L!Refresh, L!L!SetFilters, L!ReadRows, L!table,
        L!Answer, L!L!Answer, L!Fail, L!L!Fail, LVars
  <2> QED
    BY <1>3, <2>1, <2>2
<1>5. CASE L!Leave
  BY <1>5 DEF L!Leave, L!L!Unmount, L!Posted
<1>6. ASSUME NEW t \in L!Targets, L!OpenDialog(t) PROVE BoardDialogs'
  <2>1. dialog = None /\ dialog' = t /\ UNCHANGED <<boardMount, submitting, boardPost, saved>>
        /\ boardMount = "mounted"
    BY <1>6 DEF L!OpenDialog, L!table
  <2>2. boardPost # None => boardPost.step = "loading"
    BY <1>1, <2>1 DEF L!Posts
  <2> QED
    BY <2>1, <2>2 DEF L!Posted
<1>7. CASE L!openAddModal \/ \E r \in Records : L!editReservation(r)
  BY <1>6, <1>7 DEF L!openAddModal, L!editReservation, L!Targets
<1>8. CASE L!closeModal
  BY <1>8 DEF L!closeModal, L!NotBusy, L!table, L!Posted
<1>9. CASE L!Submit
  <2> DEFINE p == [target |-> dialog, step |-> "sent", at |-> 0, again |-> FALSE]
  <2>1. dialog # None /\ boardPost' = p /\ submitting' = TRUE /\ UNCHANGED <<dialog, saved>>
    BY <1>9 DEF L!Submit
  <2>2. p \in L!Posts /\ p.target = dialog /\ p.step = "sent"
    BY <2>1 DEF L!Posts
  <2> HIDE DEF p
  <2> QED
    BY <1>1, <2>1, <2>2 DEF L!Posted
<1>10. CASE L!Serve \/ L!Repeat \/ L!Succeed
  <2>1. boardPost \in L!Posts /\ submitting /\ boardMount' = boardMount /\ submitting' = submitting
    BY <1>10 DEF L!Serve, L!Repeat, L!Succeed, L!Posted, L!table
  <2>2. CASE L!Serve
    <3>1. /\ boardPost' \in L!Posts /\ boardPost'.target = boardPost.target
          /\ boardPost'.step = "saved" => boardPost'.at <= saved'
      <4>1. CASE boardPost' = [boardPost EXCEPT !.step = "refused"]
        BY <2>1, <4>1 DEF L!Posts
      <4>2. CASE /\ saved' = saved + 1
                 /\ boardPost' = [boardPost EXCEPT !.step = "saved", !.at = saved']
        <5>1. saved' \in Nat
          BY <1>2, <4>2
        <5>2. /\ boardPost' \in L!Posts /\ boardPost'.target = boardPost.target
              /\ boardPost'.at = saved'
          BY <2>1, <4>2, <5>1 DEF L!Posts
        <5> QED
          BY <5>1, <5>2
      <4> QED
        BY <2>2, <4>1, <4>2 DEF L!Serve
    <3>2. boardPost.step = "sent" /\ UNCHANGED dialog
      BY <2>2 DEF L!Serve, L!Posted
    <3> QED
      BY <1>1, <2>1, <3>1, <3>2 DEF L!Posted
  <2>3. CASE L!Repeat
    <3>1. /\ boardPost' \in L!Posts /\ boardPost'.target = boardPost.target
          /\ boardPost'.step = "sent" /\ boardPost.step \in {"sent", "saved"} /\ UNCHANGED dialog
      BY <2>1, <2>3 DEF L!Repeat, L!Posted, L!Posts
    <3> QED
      BY <1>1, <2>1, <3>1 DEF L!Posted
  <2>4. CASE L!Succeed
    <3>1. /\ boardPost' = [boardPost EXCEPT !.step = "loading", !.at = boardVersion + 1]
          /\ dialog' = None
      BY <2>4 DEF L!Succeed
    <3>2. boardVersion + 1 \in Nat
      BY DEF BoardLists
    <3>3. boardPost' \in L!Posts /\ boardPost'.step = "loading"
      BY <2>1, <3>1, <3>2 DEF L!Posts
    <3> QED
      BY <1>1, <2>1, <3>1, <3>3 DEF L!Posted
  <2> QED
    BY <1>10, <2>2, <2>3, <2>4
<1>11. CASE L!Loaded \/ L!Failed
  BY <1>11 DEF L!Loaded, L!Failed, L!Posted
<1> QED
  BY <1>4, <1>5, <1>7, <1>8, <1>9, <1>10, <1>11 DEF L!Next

LEMMA BoardStep == BoardInv /\ [L!Next]_LVars => BoardInv'
BY BoardListStep, BoardDialogStep DEF BoardInv

-----------------------------------------------------------------------------
(* The guest's booking page.                                               *)

GuestServer ==
  /\ price \in [Rooms -> Prices] /\ currency \in Currencies
  /\ guestFree \in [Stays -> SUBSET Rooms]

(* While a search runs nothing is shown, and an answer that will be shown  *)
(* is for the dates on the screen.                                         *)
SearchFits == search # None =>
  /\ quote = None /\ guestSelected = None
  /\ search.newest => search.stay = guestStay

QuoteFits ==
  /\ quote # None => quote.stay = guestStay
  /\ guestSelected # None => quote # None /\ guestSelected \in DOMAIN quote.totals

GuestPage ==
  /\ ready \in BOOLEAN /\ guestLoading \in BOOLEAN
  /\ guestStay \in Stays \cup {None} /\ (ready => guestStay \in Stays)
  /\ guestSelected \in Rooms \cup {None}
  /\ inits \in 0 .. started /\ started \in 0 .. MaxInits
  /\ quote \in G!Quotes \cup {None} /\ search \in G!AllSearches \cup {None}
  /\ guestLoading <=> search # None
  /\ SearchFits /\ QuoteFits

(* What was sent is what was shown when the guest confirmed.               *)
GuestSent ==
  /\ saving \in BOOLEAN /\ confirms \in Nat /\ guestPost \in G!Posts \cup {None}
  /\ saving <=> guestPost # None
  /\ guestPost # None => [id |-> guestPost.id, sent |-> guestPost.sent] \in confirmed
  /\ G!BookedAsShown

GuestInv == GuestServer /\ GuestPage /\ GuestSent

LEMMA GuestHolds == GuestInv => G!TypeOK /\ G!QuoteIsForTheseDates /\ G!BookedAsShown
<1> SUFFICES ASSUME GuestInv PROVE G!TypeOK /\ G!QuoteIsForTheseDates /\ G!BookedAsShown
  OBVIOUS
<1>1. inits \in 0 .. MaxInits
  BY GuestAssumption DEF GuestInv, GuestPage, G!BoundAssumption
<1>2. G!TypeOK
  BY <1>1 DEF GuestInv, GuestServer, GuestPage, GuestSent, QuoteFits, G!TypeOK
<1> QED
  BY <1>2 DEF GuestInv, GuestPage, GuestSent, QuoteFits, G!QuoteIsForTheseDates

LEMMA GuestNone ==
  None \notin Stays /\ None \notin Rooms /\ None \notin Currencies /\ None \notin G!Quotes /\
  None \notin G!AllSearches /\ None \notin G!Posts
BY GuestAssumption DEF G!NoneAssumption

LEMMA GuestInit == G!Init => GuestInv
<1> SUFFICES ASSUME G!Init PROVE GuestInv
  OBVIOUS
<1>1. GuestServer
  BY DEF G!Init, GuestServer
<1>2. GuestPage
  <2>1. 1 \in 0 .. 1 /\ 1 \in 0 .. MaxInits
    BY GuestAssumption DEF G!BoundAssumption
  <2> QED
    BY <2>1 DEF G!Init, GuestPage, SearchFits, QuoteFits
<1>3. GuestSent
  BY DEF G!Init, GuestSent, G!BookedAsShown
<1> QED
  BY <1>1, <1>2, <1>3 DEF GuestInv

LEMMA GuestServerStep == GuestInv /\ [G!Next]_GVars => GuestServer'
<1> SUFFICES ASSUME GuestInv, [G!Next]_GVars PROVE GuestServer'
  OBVIOUS
<1> USE DEF GuestInv, GuestServer
<1>1. ASSUME NEW x \in Rooms, NEW p \in Prices, G!Reprice(x, p) PROVE GuestServer'
  BY <1>1 DEF G!Reprice
<1>2. ASSUME NEW c \in Currencies, G!ChangeCurrency(c) PROVE GuestServer'
  BY <1>2 DEF G!ChangeCurrency
<1>3. ASSUME NEW s \in Stays, NEW x \in Rooms, G!OthersBook(s, x) \/ G!OthersCancel(s, x)
      PROVE  GuestServer'
  BY <1>3 DEF G!OthersBook, G!OthersCancel
<1>4. CASE G!Serve
  <2>1. guestFree' \in [Stays -> SUBSET Rooms]
    BY <1>4 DEF G!Serve
  <2> QED
    BY <1>4, <2>1 DEF G!Serve
<1>5. CASE UNCHANGED <<price, currency, guestFree>>
  BY <1>5
<1>6. CASE \/ G!RetryInit \/ G!InitDone \/ G!InitFailed
           \/ \E s \in Stays : G!Edit(s)
           \/ G!Search \/ G!ReadCurrency \/ G!SearchDone \/ G!SearchFailed
           \/ \E x \in Rooms : G!Select(x)
           \/ G!Confirm \/ G!Booked \/ G!Refused \/ UNCHANGED GVars
  <2>1. UNCHANGED <<price, currency, guestFree>>
    BY <1>6
    DEF G!RetryInit, G!InitDone, G!InitFailed, G!Edit, G!Search, G!ReadCurrency, G!SearchDone,
        G!SearchFailed, G!Select, G!Confirm, G!Booked, G!Refused, G!server, GVars
  <2> QED
    BY <1>5, <2>1
<1> QED
  BY <1>1, <1>2, <1>3, <1>4, <1>6 DEF G!Next

(* Other dates: what was shown goes, and a running search is too old.      *)
LEMMA GuestDates ==
  ASSUME GuestPage, NEW s \in Stays, G!DatesBecome(s), UNCHANGED guestLoading,
         ready' \in BOOLEAN, inits' \in 0 .. started, UNCHANGED started
  PROVE  GuestPage'
<1> USE DEF GuestPage, G!DatesBecome
<1>1. CASE s = guestStay
  BY <1>1 DEF SearchFits, QuoteFits
<1>2. CASE s # guestStay
  <2>1. search' \in G!AllSearches \cup {None} /\ (search' # None <=> search # None)
        /\ (search' # None => ~search'.newest)
    BY <1>2, GuestNone DEF G!Outdated, G!AllSearches
  <2> QED
    BY <1>2, <2>1 DEF SearchFits, QuoteFits
<1> QED
  BY <1>1, <1>2

LEMMA GuestAnswered == ASSUME GuestInv, G!SearchDone \/ G!SearchFailed PROVE GuestPage'
<1> USE DEF GuestInv, GuestPage
<1>1. /\ search # None /\ search' = None /\ guestLoading' = FALSE /\ guestSelected = None
      /\ quote = None /\ UNCHANGED <<ready, guestStay, guestSelected, inits, started>>
  BY DEF G!SearchDone, G!SearchFailed, G!counters, SearchFits
<1>2. CASE quote' = None
  BY <1>1, <1>2 DEF SearchFits, QuoteFits
<1>3. CASE quote' # None
  <2>1. /\ search.newest /\ search.currency # None
        /\ quote' = [stay |-> search.stay, currency |-> search.currency,
                     totals |-> G!Offers(search.stay)]
    BY <1>1, <1>3 DEF G!SearchDone, G!SearchFailed, G!Newest
  <2>2. search \in G!AllSearches /\ search.stay \in Stays /\ search.currency \in Currencies
    BY <1>1, <2>1 DEF G!AllSearches
  <2>3. guestFree[search.stay] \in SUBSET Rooms
    BY <2>2 DEF GuestServer
  <2>4. G!Offers(search.stay) \in [guestFree[search.stay] -> Prices]
    BY <2>3 DEF GuestServer, G!Offers
  <2>5. quote' \in G!Quotes /\ quote'.stay = search.stay
    BY <2>1, <2>2, <2>3, <2>4 DEF G!Quotes
  <2> QED
    BY <1>1, <2>1, <2>5 DEF SearchFits, QuoteFits
<1> QED
  BY <1>2, <1>3

LEMMA GuestPageStep == GuestInv /\ [G!Next]_GVars => GuestPage'
<1> SUFFICES ASSUME GuestInv, [G!Next]_GVars PROVE GuestPage'
  OBVIOUS
<1> USE DEF GuestInv
<1>1. inits \in 0 .. started /\ started \in 0 .. MaxInits /\ ready \in BOOLEAN
  BY DEF GuestPage
<1>2. CASE G!RetryInit
  <2>1. inits' \in 0 .. started' /\ started' \in 0 .. MaxInits
    BY <1>1, <1>2, GuestAssumption DEF G!RetryInit, G!BoundAssumption
  <2> QED
    BY <1>2, <2>1 DEF G!RetryInit, G!page, GuestPage, SearchFits, QuoteFits
<1>3. CASE G!InitDone
  <2>1. inits' \in 0 .. started /\ Today \in Stays
    BY <1>1, <1>3, GuestAssumption DEF G!InitDone, G!TodayAssumption
  <2> QED
    BY <1>3, <2>1, GuestDates DEF G!InitDone, G!counters
<1>4. CASE G!InitFailed
  <2>1. inits' \in 0 .. started
    BY <1>1, <1>4 DEF G!InitFailed
  <2> QED
    BY <1>4, <2>1 DEF G!InitFailed, G!counters, GuestPage, SearchFits, QuoteFits
<1>5. ASSUME NEW s \in Stays, G!Edit(s) PROVE GuestPage'
  BY <1>1, <1>5, GuestDates DEF G!Edit, G!counters
<1>6. CASE G!Search
  <2> DEFINE r == [newest |-> TRUE, stay |-> guestStay, currency |-> None]
  <2>1. /\ guestStay \in Stays /\ search' = r /\ quote' = None /\ guestSelected' = None
        /\ guestLoading' = TRUE /\ UNCHANGED <<ready, guestStay, inits, started>>
    BY <1>6 DEF G!Search, G!FieldsEnabled, GuestPage
  <2>2. r \in G!AllSearches /\ r.stay = guestStay
    BY <2>1 DEF G!AllSearches
  <2> HIDE DEF r
  <2>3. search' # None
    BY <2>1, <2>2, GuestNone
  <2> QED
    BY <2>1, <2>2, <2>3 DEF GuestPage, SearchFits, QuoteFits
<1>7. CASE G!ReadCurrency
  <2>1. /\ search \in G!AllSearches /\ search' = [search EXCEPT !.currency = currency]
        /\ UNCHANGED <<ready, guestLoading, guestStay, guestSelected, quote, inits, started>>
    BY <1>7 DEF G!ReadCurrency, G!page, G!counters, GuestPage
  <2>2. search' \in G!AllSearches /\ search'.newest = search.newest /\ search'.stay = search.stay
    BY <2>1 DEF G!AllSearches, GuestServer
  <2>3. search # None /\ search' # None
    BY <1>7, <2>2, GuestNone DEF G!ReadCurrency
  <2> QED
    BY <2>1, <2>2, <2>3 DEF GuestPage, SearchFits, QuoteFits
<1>8. ASSUME NEW x \in Rooms, G!Select(x) PROVE GuestPage'
  <2>1. /\ guestSelected' = x /\ x \in DOMAIN quote.totals /\ quote # None /\ ~guestLoading
        /\ UNCHANGED <<ready, guestLoading, guestStay, quote, inits, search, started>>
    BY <1>8 DEF G!Select, G!Shown, G!counters
  <2> QED
    BY <2>1 DEF GuestPage, SearchFits, QuoteFits
<1>9. CASE G!Booked
  <2>1. inits' \in 0 .. started'
    BY <1>1, <1>9 DEF G!Booked, G!counters
  <2> QED
    BY <1>9, <2>1 DEF G!Booked, G!counters, GuestPage, SearchFits, QuoteFits
<1>10. CASE G!Refused
  BY <1>10 DEF G!Refused, G!counters, GuestPage, SearchFits, QuoteFits
<1>11. CASE UNCHANGED <<ready, guestLoading, guestStay, guestSelected, quote, inits, search,
                        started>>
  BY <1>11 DEF GuestPage, SearchFits, QuoteFits
<1>12. CASE \/ G!Confirm \/ G!Serve \/ UNCHANGED GVars
            \/ \E x \in Rooms, p \in Prices : G!Reprice(x, p)
            \/ \E c \in Currencies : G!ChangeCurrency(c)
            \/ \E s \in Stays, x \in Rooms : G!OthersBook(s, x) \/ G!OthersCancel(s, x)
  <2>1. UNCHANGED <<ready, guestLoading, guestStay, guestSelected, quote, inits, search, started>>
    BY <1>12
    DEF G!Confirm, G!Serve, G!Reprice, G!ChangeCurrency, G!OthersBook, G!OthersCancel, G!page,
        G!counters, GVars
  <2> QED
    BY <1>11, <2>1
<1> QED
  BY <1>2, <1>3, <1>4, <1>5, <1>6, <1>7, <1>8, <1>9, <1>10, <1>12, GuestAnswered DEF G!Next

LEMMA GuestSentStep == GuestInv /\ [G!Next]_GVars => GuestSent'
<1> SUFFICES ASSUME GuestInv, [G!Next]_GVars PROVE GuestSent'
  OBVIOUS
<1> USE DEF GuestInv, GuestSent
<1>1. CASE UNCHANGED <<saving, guestPost, confirmed, bookings, confirms>>
  BY <1>1 DEF G!BookedAsShown
<1>2. CASE G!Confirm
  <2> DEFINE p == [id |-> confirms + 1, sent |-> G!Summary, result |-> None]
  <2>1. /\ quote # None /\ guestSelected # None /\ guestPost' = p /\ saving' = TRUE
        /\ confirms' = confirms + 1 /\ UNCHANGED bookings
        /\ confirmed' = confirmed \cup {[id |-> confirms + 1, sent |-> G!Summary]}
    BY <1>2 DEF G!Confirm, G!Shown, G!server
  <2>2. /\ quote \in G!Quotes /\ quote.stay = guestStay /\ guestSelected \in Rooms
        /\ guestSelected \in DOMAIN quote.totals
    BY <2>1 DEF GuestPage, QuoteFits
  <2>3. /\ guestStay \in Stays /\ quote.currency \in Currencies
        /\ quote.totals[guestSelected] \in Prices
    BY <2>2 DEF G!Quotes
  <2>4. G!Summary \in G!Summaries
    BY <2>2, <2>3 DEF G!Summary, G!Summaries
  <2>5. p \in G!Posts /\ p.id = confirms + 1 /\ p.sent = G!Summary
    BY <2>4 DEF G!Posts
  <2> HIDE DEF p
  <2> QED
    BY <2>1, <2>5, GuestNone DEF G!BookedAsShown
<1>3. CASE G!Serve
  <2> DEFINE ask == guestPost.sent
             row == [ask EXCEPT !.total = price[ask.room], !.currency = currency]
  <2>1. /\ guestPost # None /\ guestPost \in G!Posts /\ ask \in G!Summaries
        /\ UNCHANGED <<saving, confirmed, confirms>>
    BY <1>3 DEF G!Serve, G!Posts, G!page, G!counters
  <2>2. guestPost' \in G!Posts /\ guestPost'.id = guestPost.id /\ guestPost'.sent = ask
    BY <1>3, <2>1 DEF G!Serve, G!Posts
  <2>3. \/ UNCHANGED bookings
        \/ G!SameTariff(ask) /\ bookings' = bookings \cup {[id |-> guestPost.id, sent |-> row]}
    BY <1>3 DEF G!Serve
  <2>4. G!SameTariff(ask) => row = ask
    BY <2>1 DEF G!SameTariff, G!Summaries
  <2>5. G!BookedAsShown'
    BY <2>1, <2>3, <2>4 DEF G!BookedAsShown
  <2> QED
    BY <2>1, <2>2, <2>5, GuestNone
<1>4. CASE G!Booked \/ G!Refused
  BY <1>4 DEF G!Booked, G!Refused, G!server, G!counters, G!BookedAsShown
<1>5. CASE \/ G!RetryInit \/ G!InitDone \/ G!InitFailed
           \/ \E s \in Stays : G!Edit(s)
           \/ G!Search \/ G!ReadCurrency \/ G!SearchDone \/ G!SearchFailed
           \/ \E x \in Rooms : G!Select(x)
           \/ \E x \in Rooms, p \in Prices : G!Reprice(x, p)
           \/ \E c \in Currencies : G!ChangeCurrency(c)
           \/ \E s \in Stays, x \in Rooms : G!OthersBook(s, x) \/ G!OthersCancel(s, x)
           \/ UNCHANGED GVars
  <2>1. UNCHANGED <<saving, guestPost, confirmed, bookings, confirms>>
    BY <1>5
    DEF G!RetryInit, G!InitDone, G!InitFailed, G!Edit, G!Search, G!ReadCurrency, G!SearchDone,
        G!SearchFailed, G!Select, G!Reprice, G!ChangeCurrency, G!OthersBook, G!OthersCancel,
        G!page, G!server, G!counters, GVars
  <2> QED
    BY <1>1, <2>1
<1> QED
  BY <1>2, <1>3, <1>4, <1>5 DEF G!Next

LEMMA GuestStep == GuestInv /\ [G!Next]_GVars => GuestInv'
BY GuestServerStep, GuestPageStep, GuestSentStep DEF GuestInv

-----------------------------------------------------------------------------
(* The report of the payments.                                             *)

Keyed(q) == {"who", "version", "filter", "page"} \subseteq DOMAIN q /\ q.version \in Nat

SameKey(q, r) ==
  q.who = r.who /\ q.version = r.version /\ q.filter = r.filter /\ q.page = r.page

(* A load that may still be shown asks for what the controls show.         *)
ReportAsks == \A q \in queries :
  /\ Keyed(q) /\ q.version <= reportVersion
  /\ q.who = "screen" /\ q.version = reportVersion => q.filter = filter /\ q.page = reportPage

(* An export waits for one page at a time.                                 *)
OnePageOfExport ==
  /\ "exporting" \in DOMAIN export
  /\ export.exporting <=> \E q \in queries : q.who = "export"
  /\ \A q, r \in queries : q.who = "export" /\ r.who = "export" => q = r

ReportLoads ==
  /\ filter \in R!Selections /\ reportPage \in Nat \ {0} /\ reportVersion \in Nat
  /\ reportLoading \in BOOLEAN /\ reportError \in BOOLEAN
  /\ reportVersion > 0 /\ reportLoading =>
       \E q \in queries : q.who = "screen" /\ q.version = reportVersion
  /\ R!ShowsWhatIsAsked

ReportInv == ReportLoads /\ ReportAsks /\ OnePageOfExport

LEMMA ReportHolds == ReportInv => R!TypeOK /\ R!ShowsWhatIsAsked
BY DEF ReportInv, ReportLoads, ReportAsks, OnePageOfExport, R!TypeOK

LEMMA ReportInit == R!Init => ReportInv
<1> SUFFICES ASSUME R!Init PROVE ReportInv
  OBVIOUS
<1>1. queries = {} /\ reportVersion = 0 /\ export = R!NoExport
  BY DEF R!Init
<1>2. ReportLoads
  <2>1. reportPage \in Nat \ {0} /\ reportVersion \in Nat /\ ~(reportVersion > 0)
    BY DEF R!Init
  <2>2. /\ filter \in R!Selections /\ reportLoading = TRUE
        /\ reportLoading \in BOOLEAN /\ reportError \in BOOLEAN
    BY DEF R!Init, R!Selections
  <2> QED
    BY <2>1, <2>2 DEF ReportLoads, R!ShowsWhatIsAsked
<1>3. ReportAsks
  BY <1>1 DEF ReportAsks
<1>4. OnePageOfExport
  BY <1>1 DEF OnePageOfExport, R!NoExport
<1> QED
  BY <1>2, <1>3, <1>4 DEF ReportInv

LEMMA AskingKey ==
  ASSUME NEW who, NEW v \in Nat, NEW f, NEW p
  PROVE  /\ Keyed(R!Asking(who, v, f, p)) /\ R!Asking(who, v, f, p).who = who
         /\ R!Asking(who, v, f, p).version = v /\ R!Asking(who, v, f, p).filter = f
         /\ R!Asking(who, v, f, p).page = p
BY DEF R!Asking, Keyed

(* The server answers a part of a load.                                    *)
LEMMA ReportReplaced ==
  ASSUME ReportInv, NEW q \in queries, NEW r, Keyed(r), SameKey(q, r),
         queries' = (queries \ {q}) \cup {r},
         UNCHANGED <<filter, reportPage, shown, reportLoading, reportError, reportVersion, export>>
  PROVE  ReportInv'
<1> USE DEF ReportInv, SameKey
<1>1. \A s \in queries' : \E t \in queries : SameKey(t, s) /\ Keyed(s)
  BY DEF ReportAsks
<1>2. \A t \in queries : \E s \in queries' : SameKey(t, s)
  OBVIOUS
<1>3. ReportLoads'
  BY <1>2 DEF ReportLoads, R!ShowsWhatIsAsked
<1>4. ReportAsks'
  BY <1>1 DEF ReportAsks
<1>5. OnePageOfExport'
  BY <1>1, <1>2 DEF OnePageOfExport
<1> QED
  BY <1>3, <1>4, <1>5

LEMMA ReportServed ==
  ASSUME ReportInv, NEW q \in queries,
         R!Count(q) \/ R!Select(q) \/ R!ReadPeriod(q) \/ R!ReadMethods(q)
  PROVE  ReportInv'
<1>1. Keyed(q) /\ UNCHANGED <<filter, reportPage, shown, reportLoading, reportError, reportVersion,
                              export>>
  BY DEF ReportInv, ReportAsks, R!Count, R!Select, R!ReadPeriod, R!ReadMethods, R!screen
<1>2. ASSUME NEW a, NEW b, NEW c, NEW d,
             queries' = (queries \ {q}) \cup
               {[q EXCEPT !.step = a, !.snapshot = b, !.total = c, !.completed = d]}
      PROVE  ReportInv'
  <2> DEFINE r == [q EXCEPT !.step = a, !.snapshot = b, !.total = c, !.completed = d]
  <2>1. Keyed(r) /\ SameKey(q, r)
    BY <1>1 DEF Keyed, SameKey
  <2> QED
    BY <1>1, <1>2, <2>1, ReportReplaced
<1>3. ASSUME NEW a, NEW b, NEW c,
             queries' = (queries \ {q}) \cup {[q EXCEPT !.step = a, !.snapshot = b, !.rows = c]}
      PROVE  ReportInv'
  <2> DEFINE r == [q EXCEPT !.step = a, !.snapshot = b, !.rows = c]
  <2>1. Keyed(r) /\ SameKey(q, r)
    BY <1>1 DEF Keyed, SameKey
  <2> QED
    BY <1>1, <1>3, <2>1, ReportReplaced
<1>4. ASSUME NEW a, queries' = (queries \ {q}) \cup {[q EXCEPT !.daily = a]} PROVE ReportInv'
  <2> DEFINE r == [q EXCEPT !.daily = a]
  <2>1. Keyed(r) /\ SameKey(q, r)
    BY <1>1 DEF Keyed, SameKey
  <2> QED
    BY <1>1, <1>4, <2>1, ReportReplaced
<1>5. ASSUME NEW a, queries' = (queries \ {q}) \cup {[q EXCEPT !.methods = a]} PROVE ReportInv'
  <2> DEFINE r == [q EXCEPT !.methods = a]
  <2>1. Keyed(r) /\ SameKey(q, r)
    BY <1>1 DEF Keyed, SameKey
  <2> QED
    BY <1>1, <1>5, <2>1, ReportReplaced
<1>6. CASE R!Count(q)
  BY <1>2, <1>6 DEF R!Count
<1>7. CASE R!Select(q)
  BY <1>3, <1>7 DEF R!Select
<1>8. CASE R!ReadPeriod(q)
  BY <1>4, <1>8 DEF R!ReadPeriod
<1>9. CASE R!ReadMethods(q)
  BY <1>5, <1>9 DEF R!ReadMethods
<1> QED
  BY <1>6, <1>7, <1>8, <1>9

LEMMA ReportDisturbed ==
  ASSUME ReportInv, queries' = R!Disturbed,
         UNCHANGED <<filter, reportPage, shown, reportLoading, reportError, reportVersion, export>>
  PROVE  ReportInv'
<1> DEFINE Of(q) == [q EXCEPT !.still = FALSE]
<1> USE DEF ReportInv
<1>1. \A q \in queries : Keyed(Of(q)) /\ SameKey(q, Of(q))
  BY DEF ReportAsks, Keyed, SameKey
<1>2. queries' = {Of(q) : q \in queries}
  BY DEF R!Disturbed
<1> HIDE DEF Of
<1>3. ReportLoads'
  BY <1>1, <1>2 DEF ReportLoads, R!ShowsWhatIsAsked, SameKey
<1>4. ReportAsks'
  BY <1>1, <1>2 DEF ReportAsks, SameKey
<1>5. OnePageOfExport'
  BY <1>1, <1>2 DEF OnePageOfExport, SameKey
<1> QED
  BY <1>3, <1>4, <1>5

LEMMA ReportAsked ==
  ASSUME ReportInv, NEW f \in R!Selections, NEW p \in Nat \ {0}, R!Load(f, p),
         UNCHANGED <<shown, export>>
  PROVE  ReportInv'
<1> USE DEF ReportInv
<1> DEFINE r == R!Asking("screen", reportVersion + 1, f, p)
<1>1. /\ reportVersion \in Nat
      /\ \A q \in queries : Keyed(q) /\ q.version \in Nat /\ q.version <= reportVersion
  BY DEF ReportLoads, ReportAsks, Keyed
<1>2. /\ Keyed(r) /\ r.who = "screen" /\ r.version = reportVersion + 1 /\ r.filter = f
      /\ r.page = p
  BY <1>1, AskingKey
<1>3. /\ reportVersion' = reportVersion + 1 /\ filter' = f /\ reportPage' = p
      /\ reportLoading' = (f # Invalid) /\ reportError' = (f = Invalid)
      /\ queries' = IF f = Invalid THEN queries ELSE queries \cup {r}
  BY DEF R!Load
<1> HIDE DEF r
<1>4. \A q \in queries' : q \in queries \/ q = r
  BY <1>3
<1>5. ReportLoads'
  <2>1. f # Invalid => \E q \in queries' : q.who = "screen" /\ q.version = reportVersion'
    BY <1>2, <1>3
  <2>2. R!ShowsWhatIsAsked'
    BY <1>3 DEF R!ShowsWhatIsAsked
  <2>3. reportVersion' \in Nat /\ reportLoading' \in BOOLEAN /\ reportError' \in BOOLEAN
    BY <1>1, <1>3
  <2> QED
    BY <1>3, <2>1, <2>2, <2>3 DEF ReportLoads
<1>6. ReportAsks'
  BY <1>1, <1>2, <1>3, <1>4 DEF ReportAsks
<1>7. OnePageOfExport'
  BY <1>2, <1>3 DEF OnePageOfExport
<1> QED
  BY <1>5, <1>6, <1>7

LEMMA ReportAnswered ==
  ASSUME ReportInv, NEW q \in queries, R!Show(q) \/ R!FailToLoad(q)
  PROVE  ReportInv'
<1> USE DEF ReportInv
<1>1. /\ q.who = "screen" /\ queries' = queries \ {q}
      /\ UNCHANGED <<filter, reportPage, reportVersion, export>>
  BY DEF R!Show, R!FailToLoad
<1>2. ReportAsks' /\ OnePageOfExport'
  BY <1>1 DEF ReportAsks, OnePageOfExport
<1>3. CASE q.version # reportVersion
  <2>1. UNCHANGED <<shown, reportLoading, reportError>>
    BY <1>3 DEF R!Show, R!FailToLoad, R!Current, ReportLoads
  <2> QED
    BY <1>1, <1>2, <1>3, <2>1 DEF ReportLoads, R!ShowsWhatIsAsked
<1>4. CASE q.version = reportVersion
  <2>1. q.filter = filter /\ q.page = reportPage
    BY <1>1, <1>4 DEF ReportAsks
  <2>2. reportLoading' = FALSE /\ reportError' \in BOOLEAN
    BY <1>4 DEF R!Show, R!FailToLoad, R!Current, ReportLoads
  <2>3. reportError' \/ (shown'.filter = filter /\ shown'.page = reportPage)
    <3>1. CASE R!Show(q)
      <4>1. shown' = R!Report(q)
        BY <1>4, <3>1 DEF R!Show, R!Current
      <4> QED
        BY <2>1, <4>1 DEF R!Report
    <3>2. CASE R!FailToLoad(q)
      BY <1>4, <3>2 DEF R!FailToLoad, R!Current
    <3> QED
      BY <3>1, <3>2
  <2> QED
    BY <1>1, <1>2, <2>2, <2>3 DEF ReportLoads, R!ShowsWhatIsAsked
<1> QED
  BY <1>3, <1>4

LEMMA ExportBegun == ReportInv /\ R!BeginExport => ReportInv'
<1> SUFFICES ASSUME ReportInv, R!BeginExport PROVE ReportInv'
  OBVIOUS
<1> USE DEF ReportInv
<1> DEFINE r == R!Asking("export", 0, filter, 1)
<1>1. Keyed(r) /\ r.who = "export" /\ r.version = 0
  BY AskingKey
<1>2. /\ ~export.exporting /\ "exporting" \in DOMAIN export' /\ export'.exporting = TRUE
      /\ queries' = queries \cup {r}
      /\ UNCHANGED <<filter, reportPage, shown, reportLoading, reportError, reportVersion>>
  BY DEF R!BeginExport, R!screen
<1> HIDE DEF r
<1>3. ReportLoads'
  BY <1>2 DEF ReportLoads, R!ShowsWhatIsAsked
<1>4. ReportAsks'
  BY <1>1, <1>2 DEF ReportAsks, ReportLoads
<1>5. OnePageOfExport'
  BY <1>1, <1>2 DEF OnePageOfExport
<1> QED
  BY <1>3, <1>4, <1>5

LEMMA ExportCollected ==
  ASSUME ReportInv, NEW q \in queries, R!Collect(q) \/ R!FailToExport(q)
  PROVE  ReportInv'
<1> USE DEF ReportInv
<1>1. q.who = "export" /\ export.exporting /\ "exporting" \in DOMAIN export
  BY DEF R!Collect, R!FailToExport, OnePageOfExport
<1>2. \A s \in queries \ {q} : s.who # "export"
  BY <1>1 DEF OnePageOfExport
<1>3. /\ UNCHANGED <<filter, reportPage, shown, reportLoading, reportVersion>>
      /\ reportError' = reportError \/ reportError' = TRUE
  BY DEF R!Collect, R!FailToExport, R!screen
<1>4. CASE queries' = queries \ {q} /\ export' = R!NoExport
  <2>1. ReportLoads'
    BY <1>1, <1>3, <1>4 DEF ReportLoads, R!ShowsWhatIsAsked
  <2>2. ReportAsks'
    BY <1>3, <1>4 DEF ReportAsks
  <2>3. OnePageOfExport'
    BY <1>2, <1>4 DEF OnePageOfExport, R!NoExport
  <2> QED
    BY <2>1, <2>2, <2>3
<1>5. ASSUME NEW n, NEW f, NEW d, queries' = (queries \ {q}) \cup {R!Asking("export", 0, f, n)},
             export' = [export EXCEPT !.current = n, !.data = d]
      PROVE  ReportInv'
  <2> DEFINE r == R!Asking("export", 0, f, n)
  <2>1. Keyed(r) /\ r.who = "export" /\ r.version = 0
    BY AskingKey
  <2>2. "exporting" \in DOMAIN export' /\ export'.exporting = export.exporting
    BY <1>1, <1>5
  <2>3. queries' = (queries \ {q}) \cup {r}
    BY <1>5
  <2> HIDE DEF r
  <2>4. ReportLoads'
    BY <1>1, <1>3, <2>3 DEF ReportLoads, R!ShowsWhatIsAsked
  <2>5. ReportAsks'
    BY <1>3, <2>1, <2>3 DEF ReportAsks, ReportLoads
  <2>6. OnePageOfExport'
    BY <1>1, <1>2, <2>1, <2>2, <2>3 DEF OnePageOfExport
  <2> QED
    BY <2>4, <2>5, <2>6
<1>6. CASE R!FailToExport(q)
  BY <1>4, <1>6 DEF R!FailToExport
<1>7. CASE R!Collect(q)
  BY <1>4, <1>5, <1>7 DEF R!Collect
<1> QED
  BY <1>6, <1>7

LEMMA ReportStep == ReportInv /\ [R!Next]_RVars => ReportInv'
<1> SUFFICES ASSUME ReportInv, [R!Next]_RVars PROVE ReportInv'
  OBVIOUS
<1>1. filter \in R!Selections /\ reportPage \in Nat \ {0}
  BY DEF ReportInv, ReportLoads
<1>2. CASE R!Mount \/ R!Retry
  BY <1>1, <1>2, ReportAsked DEF R!Mount, R!Retry
<1>3. ASSUME NEW f \in R!Selections, R!SetFilter(f) PROVE ReportInv'
  BY <1>3, ReportAsked DEF R!SetFilter
<1>4. ASSUME NEW p \in 1 .. R!PagesOf(MaxPayments), R!SetPage(p) PROVE ReportInv'
  <2>1. p \in Nat \ {0}
    OBVIOUS
  <2> QED
    BY <1>1, <1>4, <2>1, ReportAsked DEF R!SetPage
<1>5. CASE \/ \E m \in Methods : R!Record(m)
           \/ \E i \in DOMAIN payments : R!Complete(i) \/ \E m \in Methods : R!EditMethod(i, m)
  <2>1. /\ queries' = R!Disturbed
        /\ UNCHANGED <<filter, reportPage, shown, reportLoading, reportError, reportVersion,
                       export>>
    BY <1>5 DEF R!Record, R!Complete, R!EditMethod, R!screen
  <2> QED
    BY <2>1, ReportDisturbed
<1>6. CASE UNCHANGED RVars
  BY <1>6 DEF RVars, ReportInv, ReportLoads, ReportAsks, OnePageOfExport, R!ShowsWhatIsAsked
<1> QED
  BY <1>2, <1>3, <1>4, <1>5, <1>6, ReportServed, ReportAnswered, ExportBegun, ExportCollected
  DEF R!Next

-----------------------------------------------------------------------------
(* The dashboard.                                                          *)

DashboardRequests ==
  /\ \A r \in dashboardRequests :
       /\ r \in [part : D!Parts, load : 0 .. loads, read : (0 .. now) \cup {None}]
       /\ alone => r.load = loads
       /\ r.load = loads /\ r.read # None => r.read >= dashboardBegun
  /\ \A q, r \in dashboardRequests : q.part = r.part /\ q.load = r.load => q = r
  /\ \A p : p \in waiting <=> \E r \in dashboardRequests : r.part = p /\ r.load = loads

(* What a load that has not failed is no longer waiting for is there.      *)
FiguresArrived == ~rejected => \A p \in D!Parts \ waiting :
  store[p] # None /\ (alone => store[p] >= dashboardBegun)

DashboardInv ==
  /\ now \in Nat /\ loads \in Nat /\ dashboardBegun \in 0 .. now
  /\ isLoading \in BOOLEAN /\ hasLoadError \in BOOLEAN /\ rejected \in BOOLEAN
  /\ alone \in BOOLEAN
  /\ store \in [D!Parts -> (0 .. now) \cup {None}]
  /\ hasLoadError => ~isLoading
  /\ ~isLoading => waiting = {} /\ (hasLoadError <=> rejected)
  /\ DashboardRequests
  /\ FiguresArrived

LEMMA DashboardHolds == DashboardInv => D!TypeOK /\ D!FiguresOfThisVisit
<1> SUFFICES ASSUME DashboardInv PROVE D!TypeOK /\ D!FiguresOfThisVisit
  OBVIOUS
<1>1. waiting = {r.part : r \in {q \in dashboardRequests : q.load = loads}}
  BY DEF DashboardInv, DashboardRequests
<1>2. D!FiguresOfThisVisit
  BY DEF DashboardInv, FiguresArrived, D!FiguresOfThisVisit, D!Figure
<1> QED
  BY <1>1, <1>2 DEF DashboardInv, D!TypeOK

LEMMA DashboardInit == D!Init => DashboardInv
<1> SUFFICES ASSUME D!Init PROVE DashboardInv
  OBVIOUS
<1>1. \A r : r \in dashboardRequests <=> r \in [part : D!Parts, load : {1}, read : {None}]
  BY DEF D!Init, D!Ask
<1>2. \A p \in D!Parts : [part |-> p, load |-> 1, read |-> None] \in dashboardRequests
  BY <1>1
<1>3. loads = 1 /\ now = 0 /\ dashboardBegun = 0 /\ waiting = D!Parts
  BY DEF D!Init
<1>4. DashboardRequests
  <2>1. \A r \in dashboardRequests :
          r \in [part : D!Parts, load : 0 .. loads, read : (0 .. now) \cup {None}] /\
          r.load = loads /\ r.read = None
    BY <1>1, <1>3
  <2>2. \A q, r \in dashboardRequests : q.part = r.part /\ q.load = r.load => q = r
    BY <1>1
  <2>3. \A p : p \in waiting <=> \E r \in dashboardRequests : r.part = p /\ r.load = loads
    <3>1. \A p \in D!Parts : \E r \in dashboardRequests : r.part = p /\ r.load = loads
      <4> SUFFICES ASSUME NEW p \in D!Parts
                   PROVE  \E r \in dashboardRequests : r.part = p /\ r.load = loads
        OBVIOUS
      <4>1. [part |-> p, load |-> 1, read |-> None].part = p /\
            [part |-> p, load |-> 1, read |-> None].load = loads
        BY <1>3
      <4> QED
        BY <1>2, <4>1
    <3>2. \A r \in dashboardRequests : r.part \in D!Parts
      BY <1>1
    <3> QED
      BY <1>3, <3>1, <3>2
  <2> QED
    BY <2>1, <2>2, <2>3 DEF DashboardRequests
<1>5. FiguresArrived
  BY DEF D!Init, FiguresArrived
<1>6. store \in [D!Parts -> (0 .. now) \cup {None}]
  BY DEF D!Init
<1>7. /\ isLoading = TRUE /\ hasLoadError = FALSE /\ rejected = FALSE /\ alone = TRUE
  BY DEF D!Init
<1>8. now \in Nat /\ loads \in Nat /\ dashboardBegun \in 0 .. now
  BY <1>3
<1> QED
  BY <1>4, <1>5, <1>6, <1>7, <1>8 DEF DashboardInv

LEMMA DashboardLoaded ==
  ASSUME DashboardInv, D!loadDashboard, store' \in [D!Parts -> (0 .. now) \cup {None}],
         UNCHANGED now
  PROVE  DashboardInv'
<1> USE DEF DashboardInv
<1> DEFINE n == loads + 1
           new == D!Ask(n)
<1>1. /\ loads' = n /\ isLoading' = TRUE /\ hasLoadError' = FALSE /\ waiting' = D!Parts
      /\ rejected' = FALSE /\ dashboardBegun' = now /\ alone' = (dashboardRequests = {})
      /\ dashboardRequests' = dashboardRequests \cup new
  BY DEF D!loadDashboard
<1>2. n \in Nat /\ loads < n /\ now \in 0 .. now
  OBVIOUS
<1>3. \A r \in new : r \in [part : D!Parts, load : {n}, read : {None}]
  BY DEF D!Ask
<1>4. \A p \in D!Parts : [part |-> p, load |-> n, read |-> None] \in new
  BY DEF D!Ask
<1>5. \A r \in dashboardRequests :
        /\ r \in [part : D!Parts, load : 0 .. loads, read : (0 .. now) \cup {None}]
        /\ r.load # n
  BY <1>2 DEF DashboardRequests
<1> HIDE DEF n, new
<1>6. \A r \in dashboardRequests' : r \in dashboardRequests \/ r \in new
  BY <1>1
<1>7. \A r \in dashboardRequests' :
        r \in [part : D!Parts, load : 0 .. n, read : (0 .. now) \cup {None}]
  BY <1>2, <1>3, <1>5, <1>6
<1>8. \A r \in dashboardRequests' : (alone' => r.load = n) /\ (r.load = n => r.read = None)
  BY <1>1, <1>3, <1>5, <1>6
<1>9. \A q, r \in dashboardRequests' : q.part = r.part /\ q.load = r.load => q = r
  <2> SUFFICES ASSUME NEW q \in dashboardRequests', NEW r \in dashboardRequests',
                      q.part = r.part, q.load = r.load
               PROVE  q = r
    OBVIOUS
  <2>1. CASE q \in dashboardRequests
    <3>1. r \in dashboardRequests
      BY <1>3, <1>5, <1>6, <2>1
    <3> QED
      BY <2>1, <3>1 DEF DashboardRequests
  <2>2. CASE q \in new
    <3>1. r \in new
      BY <1>3, <1>5, <1>6, <2>2
    <3> QED
      BY <1>3, <2>2, <3>1
  <2> QED
    BY <1>6, <2>1, <2>2
<1>10. \A p : p \in waiting' <=> \E r \in dashboardRequests' : r.part = p /\ r.load = n
  <2>1. \A p \in D!Parts : \E r \in dashboardRequests' : r.part = p /\ r.load = n
    <3> SUFFICES ASSUME NEW p \in D!Parts
                 PROVE  \E r \in dashboardRequests' : r.part = p /\ r.load = n
      OBVIOUS
    <3>1. [part |-> p, load |-> n, read |-> None] \in dashboardRequests'
      BY <1>1, <1>4
    <3>2. [part |-> p, load |-> n, read |-> None].part = p /\
          [part |-> p, load |-> n, read |-> None].load = n
      OBVIOUS
    <3> QED
      BY <3>1, <3>2
  <2>2. \A r \in dashboardRequests' : r.part \in D!Parts
    BY <1>7
  <2> QED
    BY <1>1, <2>1, <2>2
<1>11. DashboardRequests'
  BY <1>1, <1>7, <1>8, <1>9, <1>10 DEF DashboardRequests
<1>12. FiguresArrived'
  BY <1>1 DEF FiguresArrived
<1> QED
  BY <1>1, <1>2, <1>11, <1>12

LEMMA DashboardServed ==
  ASSUME DashboardInv, NEW r \in dashboardRequests, D!Serve(r)
  PROVE  DashboardInv'
<1> USE DEF DashboardInv
<1> DEFINE s == [r EXCEPT !.read = now]
<1>1. /\ dashboardRequests' = (dashboardRequests \ {r}) \cup {s}
      /\ UNCHANGED <<isLoading, hasLoadError, waiting, rejected, store, now, dashboardBegun, alone,
                     loads>>
  BY DEF D!Serve
<1>2. /\ r \in [part : D!Parts, load : 0 .. loads, read : (0 .. now) \cup {None}]
      /\ alone => r.load = loads
  BY DEF DashboardRequests
<1>3. /\ s \in [part : D!Parts, load : 0 .. loads, read : (0 .. now) \cup {None}]
      /\ s.part = r.part /\ s.load = r.load /\ s.read = now
  BY <1>2
<1> HIDE DEF s
<1>4. \A q \in dashboardRequests' : (q \in dashboardRequests /\ q # r) \/ q = s
  BY <1>1
<1>5. \A q \in dashboardRequests' :
        /\ q \in [part : D!Parts, load : 0 .. loads, read : (0 .. now) \cup {None}]
        /\ alone => q.load = loads
        /\ q.load = loads /\ q.read # None => q.read >= dashboardBegun
  BY <1>2, <1>3, <1>4 DEF DashboardRequests
<1>6. \A q, w \in dashboardRequests' : q.part = w.part /\ q.load = w.load => q = w
  BY <1>3, <1>4 DEF DashboardRequests
<1>7. \A p : p \in waiting <=> \E q \in dashboardRequests' : q.part = p /\ q.load = loads
  BY <1>1, <1>3 DEF DashboardRequests
<1>8. DashboardRequests'
  BY <1>1, <1>5, <1>6, <1>7 DEF DashboardRequests
<1> QED
  BY <1>1, <1>8 DEF FiguresArrived

LEMMA DashboardSettled ==
  ASSUME DashboardInv, NEW r \in dashboardRequests, D!Answer(r) \/ D!Fail(r)
  PROVE  DashboardInv'
<1> USE DEF DashboardInv
<1>1. /\ dashboardRequests' = dashboardRequests \ {r}
      /\ waiting' = IF r.load = loads THEN waiting \ {r.part} ELSE waiting
      /\ UNCHANGED <<isLoading, hasLoadError, now, dashboardBegun, alone, loads>>
  BY DEF D!Answer, D!Fail, D!Settled
<1>2. /\ r \in [part : D!Parts, load : 0 .. loads, read : (0 .. now) \cup {None}]
      /\ alone => r.load = loads
      /\ r.load = loads /\ r.read # None => r.read >= dashboardBegun
      /\ r.load = loads => isLoading
  BY DEF DashboardRequests
<1>3. \A p : p \in waiting' <=> \E q \in dashboardRequests' : q.part = p /\ q.load = loads
  <2>1. CASE r.load = loads
    BY <1>1, <2>1 DEF DashboardRequests
  <2>2. CASE r.load # loads
    BY <1>1, <2>2 DEF DashboardRequests
  <2> QED
    BY <2>1, <2>2
<1>4. DashboardRequests'
  BY <1>1, <1>3 DEF DashboardRequests
<1>5. CASE D!Answer(r)
  <2>1. /\ r.read \in 0 .. now /\ UNCHANGED rejected
        /\ store' = IF r.part \in Shared \/ r.load = loads
                    THEN [store EXCEPT ![r.part] = r.read] ELSE store
    BY <1>2, <1>5 DEF D!Answer
  <2>2. store' \in [D!Parts -> (0 .. now) \cup {None}]
    BY <1>2, <2>1
  <2>3. \A p \in D!Parts : store'[p] = store[p] \/ (p = r.part /\ store'[p] = r.read)
    BY <1>2, <2>1
  <2>4. r.load = loads => store'[r.part] = r.read
    BY <1>2, <2>1
  <2>5. r.read # None /\ (alone => r.read >= dashboardBegun)
    BY <1>2, <1>5 DEF D!Answer
  <2>6. FiguresArrived'
    <3> SUFFICES ASSUME ~rejected, NEW p \in D!Parts, p \notin waiting'
                 PROVE  store'[p] # None /\ (alone => store'[p] >= dashboardBegun)
      BY <1>1, <2>1 DEF FiguresArrived
    <3>1. p \in waiting => p = r.part /\ r.load = loads
      BY <1>1
    <3> QED
      BY <2>3, <2>4, <2>5, <3>1 DEF FiguresArrived
  <2> QED
    BY <1>1, <1>2, <1>4, <2>1, <2>2, <2>6
<1>6. CASE D!Fail(r)
  <2>1. rejected' = (rejected \/ r.load = loads) /\ UNCHANGED store
    BY <1>6 DEF D!Fail, D!Rejects
  <2>2. FiguresArrived'
    BY <1>1, <2>1 DEF FiguresArrived
  <2> QED
    BY <1>1, <1>2, <1>4, <2>1, <2>2
<1> QED
  BY <1>5, <1>6

LEMMA DashboardStep == DashboardInv /\ [D!Next]_DVars => DashboardInv'
<1> SUFFICES ASSUME DashboardInv, [D!Next]_DVars PROVE DashboardInv'
  OBVIOUS
<1> USE DEF DashboardInv
<1>1. CASE D!Open \/ D!Retry
  <2>1. D!loadDashboard /\ UNCHANGED now /\ store' \in [D!Parts -> (0 .. now) \cup {None}]
    BY <1>1 DEF D!Open, D!Retry
  <2> QED
    BY <2>1, DashboardLoaded
<1>2. CASE D!Leave \/ UNCHANGED DVars
  BY <1>2 DEF D!Leave, DVars, DashboardRequests, FiguresArrived
<1>3. CASE D!Hotel
  <2>1. /\ now' = now + 1
        /\ UNCHANGED <<isLoading, hasLoadError, waiting, rejected, dashboardRequests, store,
                       dashboardBegun, alone, loads>>
    BY <1>3 DEF D!Hotel
  <2>2. now' \in Nat /\ 0 .. now \subseteq 0 .. now'
    BY <2>1
  <2>3. DashboardRequests'
    BY <2>1, <2>2 DEF DashboardRequests
  <2> QED
    BY <2>1, <2>2, <2>3 DEF FiguresArrived
<1>4. CASE D!AllSettled
  BY <1>4 DEF D!AllSettled, DashboardRequests, FiguresArrived
<1> QED
  BY <1>1, <1>2, <1>3, <1>4, DashboardServed, DashboardSettled DEF D!Next

-----------------------------------------------------------------------------
(* The composition.                                                        *)

ScreensInv ==
  /\ part = "list" => ListInv
  /\ part = "booking" => BookingInv
  /\ part = "payment" => PaymentInv
  /\ part = "report" => ReportInv
  /\ part = "board" => BoardInv
  /\ part = "guest" => GuestInv
  /\ part = "dashboard" => DashboardInv

LEMMA ScreensInit == Init => ScreensInv
BY ListInit, BookingInit, PaymentInit, ReportInit, BoardInit, GuestInit, DashboardInit
DEF Init, ScreensInv

(* A behaviour stays with the component it began with.                     *)
LEMMA ScreensApart ==
  [Next]_all =>
    /\ part' = part
    /\ part = "list" => [T!Next]_TVars
    /\ part = "booking" => [B!Next]_BVars
    /\ part = "payment" => [P!Next]_PVars
    /\ part = "report" => [R!Next]_RVars
    /\ part = "board" => [L!Next]_LVars
    /\ part = "guest" => [G!Next]_GVars
    /\ part = "dashboard" => [D!Next]_DVars
BY DEF Next, all, TOnly, BOnly, POnly, ROnly, LOnly, GOnly, OOnly, DOnly

LEMMA ScreensStep == ScreensInv /\ [Next]_all => ScreensInv'
BY ScreensApart, ListStep, BookingStep, PaymentStep, ReportStep, BoardStep, GuestStep, DashboardStep
DEF ScreensInv

LEMMA ScreensHold == ScreensInv => ShowsWhatIsAsked /\ SentAsOffered
BY BoardHolds, GuestHolds, ReportHolds, DashboardHolds
DEF ScreensInv, ShowsWhatIsAsked, SentAsOffered, ListInv, BookingInv, BookingForms, BookingSent,
    PaymentInv, PaymentForms, PaymentSent

(* What rests on a screen is what its controls ask for, and a save that    *)
(* was told is in the list.                                                *)
THEOREM Shown == Spec => []ShowsWhatIsAsked
<1>1. ScreensInv => ShowsWhatIsAsked
  BY ScreensHold
<1> QED
  BY ScreensInit, ScreensStep, <1>1, PTL DEF Spec

(* A list that is gone is not written to by late answers.                  *)
THEOREM LateAnswers == Spec => [][part = "list" => T!NothingAfterUnmount]_all
<1>1. ScreensInv /\ [Next]_all => [part = "list" => T!NothingAfterUnmount]_all
  BY ScreensApart, ListGone DEF ScreensInv
<1> QED
  BY ScreensInit, ScreensStep, <1>1, PTL DEF Spec

(* What the forms send is what the server offered and the screen showed.   *)
THEOREM Sent == Spec => []SentAsOffered
<1>1. ScreensInv => SentAsOffered
  BY ScreensHold
<1> QED
  BY ScreensInit, ScreensStep, <1>1, PTL DEF Spec
=============================================================================
