------------------------------ MODULE Catalogue ------------------------------
(* The files of the guests, the types of room and the rooms on the server:    *)
(* what the routes clients, roomTypes and rooms (creation) write, the access   *)
(* of a guest to the portal, and the bookings made there, which depend on all  *)
(* of them.  Nothing is ever deleted: a row is deactivated.  Most calls read   *)
(* in one statement and write in another, with no transaction around both;     *)
(* the account and the booking take locks.                                     *)
EXTENDS Integers, Sequences, FiniteSets, SequencesExt

CONSTANTS
  Workers,      \* calls served at the same time
  Keys,         \* documents of guests, names of types, numbers of rooms
  Values,       \* contents of the other columns
  None,
  MaxRows,      \* bound on the rows of a table
  MaxCalls      \* bound on the calls

NoneAssumption == None \notin {"on", "off"}

VARIABLES
  rows,         \* the tables client and room_type, by id
  rooms,        \* the rooms, by id
  access,       \* the portal account of each guest
  bookings,     \* the reservations made in the portal, in their order
  at,           \* what each worker is doing
  calls

vars == <<rows, rooms, access, bookings, at, calls>>

Tables == {"client", "type"}

(* The columns that an update may change.  The document of a guest is not    *)
(* among them and the name of a type is.                                     *)
Columns(t) == IF t = "client" THEN {"phone", "notes"} ELSE {"price", "capacity"}

Keyed(t, k) == {i \in DOMAIN rows[t] : rows[t][i].key = k}
Active(t) == {i \in DOMAIN rows[t] : rows[t][i].active}
Clients == DOMAIN rows["client"]

(* A new row takes one value for all its columns.                            *)
NewRow(t, k, v) == [key |-> k, data |-> [c \in Columns(t) |-> v], active |-> TRUE]

-----------------------------------------------------------------------------
(* Row locks: a booking holds a share of the guest, the account and the      *)
(* type; the creation of an account holds the guest alone.                   *)

AccountBeingMade(w, i) == at[w] # None /\ at[w].op = "account" /\ at[w].client = i
BookingFor(w, i) == at[w] # None /\ at[w].op = "book" /\ at[w].client = i
BookingOf(w, i) == at[w] # None /\ at[w].op = "book" /\ at[w].type = i

Writable(t, i) == \A w \in Workers :
  IF t = "client" THEN ~AccountBeingMade(w, i) /\ ~BookingFor(w, i) ELSE ~BookingOf(w, i)

Begin(w, step) ==
  /\ at[w] = None /\ calls < MaxCalls
  /\ calls' = calls + 1
  /\ at' = [at EXCEPT ![w] = step]

Doing(w, op) == at[w] # None /\ at[w].op = op
End(w) == at' = [at EXCEPT ![w] = None] /\ UNCHANGED calls

-----------------------------------------------------------------------------
(* POST: a guest's document is looked for among the active files first.      *)
BeginCreate(w, t, k, v) ==
  /\ t = "client" => Keyed(t, k) \cap Active(t) = {}
  /\ Len(rows[t]) < MaxRows
  /\ Begin(w, [op |-> "create", table |-> t, row |-> NewRow(t, k, v)])
  /\ UNCHANGED <<rows, rooms, access, bookings>>

(* UNIQUE: deactivated rows count as well.                                   *)
Free(t, k, others) == Keyed(t, k) \cap others = {}

Insert(w) ==
  /\ Doing(w, "create")
  /\ LET t == at[w].table
     IN  /\ Len(rows[t]) < MaxRows
         /\ rows' = IF Free(t, at[w].row.key, DOMAIN rows[t])
                    THEN [rows EXCEPT ![t] = Append(@, at[w].row)] ELSE rows
         /\ access' = IF t = "client" /\ rows' # rows THEN Append(access, None) ELSE access
  /\ End(w) /\ UNCHANGED <<rooms, bookings>>

(* PUT: the active row is read, and what was sent is laid over it.           *)
BeginUpdate(w, t, i, k, c, v) ==
  /\ i \in Active(t) /\ c \in Columns(t)
  /\ t = "client" => k = rows[t][i].key
  /\ Begin(w, [op |-> "update", table |-> t, id |-> i,
               row |-> [rows[t][i] EXCEPT !.key = k, !.data[c] = v]])
  /\ UNCHANGED <<rows, rooms, access, bookings>>

(* WHERE id = $1 AND is_active = true.                                       *)
StillActive(t, i) == i \in Active(t)

Update(w) ==
  /\ Doing(w, "update")
  /\ LET t == at[w].table  i == at[w].id  k == at[w].row.key
     IN  /\ Writable(t, i)
         /\ rows' = IF StillActive(t, i) /\ Free(t, k, DOMAIN rows[t] \ {i})
                    THEN [rows EXCEPT ![t][i].key = k, ![t][i].data = at[w].row.data]
                    ELSE rows
  /\ End(w) /\ UNCHANGED <<rooms, access, bookings>>

(* DELETE of a guest and PATCH deactivate of a type.                         *)
BeginDeactivate(w, t, i) ==
  /\ i \in Active(t)
  /\ Begin(w, [op |-> "deactivate", table |-> t, id |-> i])
  /\ UNCHANGED <<rows, rooms, access, bookings>>

Deactivate(w) ==
  /\ Doing(w, "deactivate") /\ Writable(at[w].table, at[w].id)
  /\ rows' = [rows EXCEPT ![at[w].table][at[w].id].active = FALSE]
  /\ End(w) /\ UNCHANGED <<rooms, access, bookings>>

(* POST /rooms: the type is looked for, and may be deactivated meanwhile.    *)
BeginRoom(w, k, i) ==
  /\ i \in Active("type")
  /\ Len(rooms) < MaxRows
  /\ Begin(w, [op |-> "room", number |-> k, type |-> i])
  /\ UNCHANGED <<rows, rooms, access, bookings>>

InsertRoom(w) ==
  /\ Doing(w, "room")
  /\ rooms' = IF at[w].number \in {rooms[r].number : r \in DOMAIN rooms} THEN rooms
              ELSE Append(rooms, [number |-> at[w].number, type |-> at[w].type])
  /\ End(w) /\ UNCHANGED <<rows, access, bookings>>

-----------------------------------------------------------------------------
(* createAccount: SELECT ... FOR UPDATE of the guest, and its checks.        *)
LockForAccount(w, i) ==
  /\ Writable("client", i)
  /\ i \in Active("client") /\ access[i] = None
  /\ Begin(w, [op |-> "account", client |-> i])
  /\ UNCHANGED <<rows, rooms, access, bookings>>

CreateAccount(w) ==
  /\ Doing(w, "account")
  /\ access' = [access EXCEPT ![at[w].client] = "on"]
  /\ End(w) /\ UNCHANGED <<rows, rooms, bookings>>

(* changeAccess: one UPDATE of the account, which a booking makes wait.      *)
ChangeAccess(w, i, on) ==
  /\ at[w] = None /\ calls < MaxCalls /\ calls' = calls + 1
  /\ access[i] # None /\ \A other \in Workers : ~BookingFor(other, i)
  /\ access' = [access EXCEPT ![i] = on]
  /\ UNCHANGED <<rows, rooms, bookings, at>>

-----------------------------------------------------------------------------
(* A booking in the portal: the type's row, then the guest's and the         *)
(* account's are locked FOR SHARE, each as it is by then.                    *)
LockRoom(w, r) ==
  /\ Len(bookings) < MaxRows
  /\ Begin(w, [op |-> "book", type |-> rooms[r].type, client |-> None,
               price |-> rows["type"][rooms[r].type].data["price"]])
  /\ UNCHANGED <<rows, rooms, access, bookings>>

MayBook(i) == access[i] = "on" /\ i \in Active("client")

LockGuest(w, i) ==
  /\ Doing(w, "book") /\ at[w].client = None
  /\ \A other \in Workers : ~AccountBeingMade(other, i)
  /\ MayBook(i)
  /\ at' = [at EXCEPT ![w].client = i]
  /\ UNCHANGED <<rows, rooms, access, bookings, calls>>

(* The query of availability asks for an active type.                        *)
Book(w) ==
  /\ Doing(w, "book") /\ at[w].client # None
  /\ at[w].type \in Active("type")
  /\ Len(bookings) < MaxRows
  /\ bookings' = Append(bookings, [client |-> at[w].client, type |-> at[w].type,
                                   price |-> at[w].price])
  /\ End(w) /\ UNCHANGED <<rows, rooms, access>>

(* Refused, or the connection was lost: the transaction is rolled back.  The *)
(* calls without a transaction stop between their statements.                *)
GiveUp(w) ==
  /\ at[w] # None
  /\ End(w) /\ UNCHANGED <<rows, rooms, access, bookings>>

-----------------------------------------------------------------------------
Init ==
  /\ \E k \in Keys, v \in Values : rows = [t \in Tables |-> <<NewRow(t, k, v)>>]
  /\ rooms = <<[number |-> rows["type"][1].key, type |-> 1]>>
  /\ access \in {<<None>>, <<"on">>} /\ bookings = <<>>
  /\ at = [w \in Workers |-> None] /\ calls = 0

Next == \E w \in Workers :
  \/ \E t \in Tables, k \in Keys, v \in Values :
       \/ BeginCreate(w, t, k, v)
       \/ \E i \in DOMAIN rows[t], c \in Columns(t) : BeginUpdate(w, t, i, k, c, v)
  \/ \E t \in Tables : \E i \in DOMAIN rows[t] : BeginDeactivate(w, t, i)
  \/ Insert(w) \/ Update(w) \/ Deactivate(w)
  \/ \E k \in Keys, i \in DOMAIN rows["type"] : BeginRoom(w, k, i)
  \/ InsertRoom(w)
  \/ \E i \in Clients : LockForAccount(w, i) \/ LockGuest(w, i)
  \/ \E i \in Clients, on \in {"on", "off"} : ChangeAccess(w, i, on)
  \/ CreateAccount(w)
  \/ \E r \in DOMAIN rooms : LockRoom(w, r)
  \/ Book(w) \/ GiveUp(w)

Spec == Init /\ [][Next]_vars

-----------------------------------------------------------------------------
TypeOK ==
  /\ \A t \in Tables : \A i \in DOMAIN rows[t] :
       rows[t][i] \in [key : Keys, data : [Columns(t) -> Values], active : BOOLEAN]
  /\ \A r \in DOMAIN rooms : rooms[r].type \in DOMAIN rows["type"]
  /\ access \in [Clients -> {None, "on", "off"}]

(* What was deactivated stays as it was, although a call that read it before *)
(* still writes; no two files share a document, no two types a name, however *)
(* creations and renamings overlap.                                          *)
DeactivatedStays == \A t \in Tables :
  /\ \A i \in DOMAIN rows[t] \ Active(t) : rows'[t][i] = rows[t][i]
  /\ \A i, j \in DOMAIN rows'[t] : rows'[t][i].key = rows'[t][j].key => i = j

(* The portal serves guests whose file is active: an account is made only    *)
(* for such a guest, once, and a booking is written only for one whose       *)
(* account is on, at the price the type has at that moment, even though      *)
(* others deactivate guest, account and type while the call runs.            *)
PortalForActiveGuests ==
  /\ \A i \in Clients : access[i] # None => access'[i] # None
  /\ \A i \in Clients : access[i] = None /\ access'[i] # None => i \in Active("client")
  /\ bookings' # bookings =>
       LET made == Last(bookings')
       IN  /\ made.client \in Active("client") /\ access[made.client] = "on"
           /\ made.type \in Active("type") /\ rows["type"][made.type].data["price"] = made.price
=============================================================================
