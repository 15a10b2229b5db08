------------------------------ MODULE Occupancy ------------------------------
(* The occupancy report (/reports/occupancy).  It asks two questions at once *)
(* and shows the answers together: how many rooms there are, one statement   *)
(* of the summary, and which rooms there are, page after page of the list of *)
(* rooms, while rooms are created and changed.  The browser then filters     *)
(* them by type and shows them in pages of its own.  Rooms are never         *)
(* deleted; of their states occupied is told from all others.                *)
EXTENDS Integers, Sequences, FiniteSets, SequencesExt, FiniteSetsExt

CONSTANTS
  None,
  Places,       \* the order of the list: floor, then number
  Types,        \* types of rooms
  PageSize,     \* rooms of a page of the server, 100 in the code
  Lines,        \* rooms of a page of the table, 20 in the code
  MaxRooms,     \* bound on the rooms
  MaxEvents     \* bound on the changes by other people

PageSizeAssumption == PageSize \in Nat \ {0} /\ Lines \in Nat \ {0}
PlacesAssumption == Places \subseteq Int

VARIABLES
  hotel,        \* the server: each room, by id
  loading, error,
  occupancy,    \* how many rooms the summary counted, of them occupied, or None
  rooms,        \* the rooms of the report, in their order
  selected,     \* the type that is looked at, None for every type
  page,         \* the page of the table
  load,         \* loadReport() running, or None
  begun,        \* history: the rooms there were when it was begun, and the events
  moved,        \* history: the rooms that were changed since
  events

screen == <<loading, error, occupancy, rooms, selected, page>>
vars == <<hotel, screen, load, begun, moved, events>>

Event == events < MaxEvents /\ events' = events + 1

Room == [place : Places, type : Types, occupied : BOOLEAN]

-----------------------------------------------------------------------------
(* The server.                                                               *)

(* ORDER BY rm.floor, rm.number: the number is unique.                       *)
InOrder == SetToSortSeq(DOMAIN hotel, LAMBDA i, j : hotel[i].place < hotel[j].place)

(* One page of the list, by OFFSET and LIMIT.                                *)
PageOf(p) ==
  LET ids == SubSeq(InOrder, (p - 1) * PageSize + 1, Min({p * PageSize, Len(hotel)}))
  IN  [k \in DOMAIN ids |->
         [id |-> ids[k], type |-> hotel[ids[k]].type, occupied |-> hotel[ids[k]].occupied]]

(* How many pages there are by now.                                          *)
TotalPages == (Len(hotel) + PageSize - 1) \div PageSize

Vacant == Places \ {hotel[i].place : i \in DOMAIN hotel}

CreateRoom(p, t) ==
  /\ Event
  /\ Len(hotel) < MaxRooms /\ p \in Vacant
  /\ hotel' = Append(hotel, [place |-> p, type |-> t, occupied |-> FALSE])
  /\ UNCHANGED <<screen, load, begun, moved>>

(* PUT /rooms/:id with another number, floor or type.                        *)
ChangeRoom(i, p, t) ==
  /\ Event
  /\ p \in Vacant \/ p = hotel[i].place
  /\ hotel' = [hotel EXCEPT ![i].place = p, ![i].type = t]
  /\ hotel' # hotel
  /\ moved' = moved \cup {i}
  /\ UNCHANGED <<screen, load, begun>>

(* A guest arrives or leaves.                                                *)
Occupy(i) ==
  /\ Event
  /\ hotel' = [hotel EXCEPT ![i].occupied = ~@]
  /\ UNCHANGED <<screen, load, begun, moved>>

-----------------------------------------------------------------------------
(* loadReport().                                                             *)

Asking == [summary |-> None, page |-> 1, pages |-> 1, rooms |-> <<>>]

Now == [rooms |-> DOMAIN hotel, events |-> events]

Init ==
  /\ \E n \in 0 .. 2 :
       hotel \in {h \in [1 .. n -> Room] : \A i, j \in 1 .. n : i < j => h[i].place < h[j].place}
  /\ loading = TRUE /\ error = FALSE /\ occupancy = None /\ rooms = <<>>
  /\ selected = None /\ page = 1
  /\ load = Asking /\ events = 0 /\ begun = Now /\ moved = {}

(* Reintentar, beside the error.                                             *)
Retry ==
  /\ error
  /\ loading' = TRUE /\ error' = FALSE
  /\ load' = Asking
  /\ begun' = Now /\ moved' = {}
  /\ UNCHANGED <<hotel, occupancy, rooms, selected, page, events>>

(* One SELECT counts every room, and those of each state.                    *)
Counted == [total |-> Len(hotel), occupied |-> Cardinality({i \in DOMAIN hotel : hotel[i].occupied})]

(* The summary of the dashboard is asked; of its answers the page uses the   *)
(* numbers of rooms.                                                         *)
ReadSummary ==
  /\ load # None /\ load.summary = None
  /\ load' = [load EXCEPT !.summary = Counted]
  /\ UNCHANGED <<hotel, screen, begun, moved, events>>

(* The first page is asked for whatever there is; the number of pages is     *)
(* that of the latest answer.                                                *)
ReadPage ==
  /\ load # None /\ load.page <= load.pages
  /\ load' = [load EXCEPT !.rooms = @ \o PageOf(load.page),
                          !.pages = TotalPages, !.page = @ + 1]
  /\ UNCHANGED <<hotel, screen, begun, moved, events>>

(* Promise.all: both have answered.                                          *)
Show ==
  /\ load # None /\ load.summary # None /\ load.page > load.pages
  /\ occupancy' = load.summary /\ rooms' = load.rooms
  /\ loading' = FALSE /\ load' = None
  /\ UNCHANGED <<hotel, error, selected, page, begun, moved, events>>

(* One of the two failed: what the other may still bring is not looked at.   *)
LoadFails ==
  /\ load # None /\ load' = None
  /\ error' = TRUE /\ loading' = FALSE
  /\ UNCHANGED <<hotel, occupancy, rooms, selected, page, begun, moved, events>>

-----------------------------------------------------------------------------
(* The table.                                                                *)

(* The types there are among the rooms: the choices of the filter.           *)
RoomTypes == {r.type : r \in ToSet(rooms)}

(* Ocupación Actual and the other cards, and the bars of the types.          *)
Figures == IF occupancy = None THEN [total |-> 0, occupied |-> 0] ELSE occupancy
OfType(t) == Cardinality({r \in ToSet(rooms) : r.type = t /\ r.occupied})

(* filteredRoomDetails: what the table and the file are made of.             *)
Filtered(t) == SelectSeq(rooms, LAMBDA r : t = None \/ r.type = t)

Pages(t) == (Len(Filtered(t)) + Lines - 1) \div Lines

(* visibleRoomDetails *)
Visible(t, p) == SubSeq(Filtered(t), (p - 1) * Lines + 1, Min({p * Lines, Len(Filtered(t))}))

(* downloadReport writes all rooms of the filter, not only the page.         *)
File(t) == {r.id : r \in ToSet(Filtered(t))}

SelectType(t) ==
  /\ t \in RoomTypes \cup {None} /\ t # selected
  /\ selected' = t /\ page' = 1
  /\ UNCHANGED <<hotel, loading, error, occupancy, rooms, load, begun, moved, events>>

(* Anterior, Siguiente                                                       *)
SetPage(p) ==
  /\ ~loading /\ p \in {page - 1, page + 1} \cap (1 .. Pages(selected))
  /\ page' = p
  /\ UNCHANGED <<hotel, loading, error, occupancy, rooms, selected, load, begun, moved, events>>

Next ==
  \/ \E t \in Types, p \in Places :
       CreateRoom(p, t) \/ \E i \in DOMAIN hotel : ChangeRoom(i, p, t)
  \/ \E i \in DOMAIN hotel : Occupy(i)
  \/ Retry \/ ReadSummary \/ ReadPage \/ Show \/ LoadFails
  \/ \E t \in Types \cup {None} : SelectType(t)
  \/ \E p \in 1 .. MaxRooms : SetPage(p)

Spec == Init /\ [][Next]_vars

(* The browser settles every request, and the pages come to an end.          *)
FairSpec == Spec /\ WF_vars(ReadSummary \/ ReadPage \/ Show \/ LoadFails)

-----------------------------------------------------------------------------
(* The table and the file are there only without a spinner and an error.     *)
AtRest == ~loading /\ ~error

TypeOK ==
  /\ \A i \in DOMAIN hotel : hotel[i] \in Room
  /\ loading <=> load # None
  /\ {r.id : r \in ToSet(rooms)} \subseteq DOMAIN hotel
  /\ selected \in RoomTypes \cup {None}

(* The report, and the file made of it, leave out no room that was there     *)
(* when it was begun, although the pages are read one after another and      *)
(* rooms created meanwhile push others to a later page: each is on some page *)
(* of the table of its type.  A room given another place while the pages are *)
(* read can make another one be skipped.                                     *)
EveryRoomThere ==
  AtRest /\ moved = {} =>
    \A i \in begun.rooms :
      /\ i \in File(hotel[i].type)
      /\ \E p \in 1 .. Pages(hotel[i].type) :
           \E r \in ToSet(Visible(hotel[i].type, p)) : r.id = i

(* The cards and the bars are of the same rooms, although they come of two   *)
(* requests, if nothing changed since they were made.                        *)
FiguresAgree ==
  AtRest /\ begun.events = events =>
    /\ Figures.total = Len(rooms)
    /\ Figures.occupied = MapThenSumSet(OfType, RoomTypes)

(* The page that is looked at has rooms, whenever the filter has any.        *)
NoEmptyPage == AtRest /\ Filtered(selected) # <<>> => Visible(selected, page) # <<>>

(* The report is shown or fails.                                             *)
LoadEnds == loading ~> ~loading
=============================================================================
