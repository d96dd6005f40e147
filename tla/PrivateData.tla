---------------------------- MODULE PrivateData ----------------------------
(***************************************************************************)
(* What a PrivateConstData object holds and how rows of the database get   *)
(* into it: the maps from ids to places, the lists of places per city and  *)
(* the shields, and the grid of LYConstData::m_gridMap (MJSquareGrid), of  *)
(* which there is one for all objects.  At the start the private database  *)
(* is read into two objects: m_privateConstData, which is never updated,   *)
(* and the shared one of MQQueryProcessor.  A hot update copies the shared *)
(* object, applies the changed rows table by table, and publishes the copy *)
(* (HotUpdate models its locks and its time stamps).                       *)
(*                                                                         *)
(* An id is a sequence of strings, so that <<"v">> \o <<"A">> is the id    *)
(* "v_A" of the code.                                                      *)
(***************************************************************************)
EXTENDS Integers, Sequences, FiniteSets, SequencesExt

CONSTANTS
    DataRow,        \* the rows that may be in the private database
    Start,      \* the databases there may be at the start
    Base,       \* the ids of the public database
    MaxCommit,  \* bound: how many rows are written or deleted
    Bad,        \* a map_info without a comma
    None        \* NULL, and a column without a value

VarKind == {"view", "restaurant", "shop"}
TourKind == {"ticket", "tour"}
Kind == VarKind \union TourKind \union {"city", "hotel", "fun"}

\* The columns that matter: kind stands for the table, pt is ptid, on means
\* disable = 0, refer the public place it replaces, cell the cell of its
\* map_info, cids the cities, ref the place that the row names: the view of a
\* view ticket, one of the ref_pois of a tour, the first city of a hotel; gather
\* whether jiesong_poi names a place to meet.
ASSUME RowAssumption ==
    /\ IsFiniteSet(DataRow) /\ MaxCommit \in Nat /\ Start \subseteq SUBSET DataRow
    /\ \A r \in DataRow :
        /\ DOMAIN r = {"kind", "id", "pt", "on", "refer", "cell", "cids", "ref", "gather"}
        /\ r.kind \in Kind /\ r.on \in BOOLEAN /\ r.gather \in BOOLEAN /\ r.pt # None

\* A row has its table, its id and its ptid as the key.
ASSUME StartAssumption ==
    \A rows \in Start : \A q, r \in rows :
        q.kind = r.kind /\ q.id = r.id /\ q.pt = r.pt => q = r

\* The ids are what they should be: a place of its own (no refer) has an id
\* that no other row has, a place that replaces a public one has the id of
\* that place, once per ptid.  An id is one string, and none that the code puts
\* into an id itself.
ASSUME IdAssumption ==
    /\ \A q, r \in DataRow : q.id = r.id =>
        \/ q.kind = r.kind /\ q.pt = r.pt
        \/ q.refer # None /\ r.refer # None
    /\ \A r \in DataRow : r.id = <<r.id[1]>> /\ r.id[1] # "coreHotel" /\ r.pt # "gather"
    /\ \A r \in DataRow : r.refer # None => r.kind \in VarKind \union {"hotel"} /\ r.id = r.refer

\* An id is in one table.
ASSUME TableAssumption == \A q, r \in DataRow : q.id = r.id => q.kind = r.kind

\* What a row names is an id, that of a view for a ticket, which names one, of
\* a view, a restaurant or a shop for a tour, and of a city for a hotel.
RefKind(kind) == CASE kind = "ticket" -> {"view"} [] kind = "tour" -> VarKind [] OTHER -> {"city"}

ASSUME RefAssumption ==
    \A r \in DataRow :
        /\ r.kind = "ticket" => r.ref # None
        /\ r.kind \in TourKind \union {"hotel"} /\ r.ref # None =>
            /\ r.ref = <<r.ref[1]>> /\ r.ref[1] # "coreHotel"
            /\ \A q \in DataRow : q.id = r.ref => q.kind \in RefKind(r.kind)

VARIABLES
    db,         \* the rows of the private database
    fixed,      \* LYConstData::m_privateConstData
    shared, next,  \* the shared object and the one that is built
    cells,      \* m_gridMap: <<cell, id, pt>>, the id and its ptid
    where,      \* m_Id2GridKeyMap: <<id, pt, cell>>
    pc,         \* start-up and the updater: "fixed", "load", "idle", "update"
    dirty,      \* the changed rows that no load and no Update has read
    due,        \* those of them that were there when the reload began
    todo,       \* the tables that the reload has still to read
    commits,    \* how many rows have been written or deleted
    missed,     \* history: the rows whose Update failed, or that were deleted
    moved,      \* history: the rows that changed between the two loads
    touched     \* history: the ids whose rows have changed since the first load

gridVars == <<cells, where>>
objVars == <<fixed, shared, next>>
histVars == <<missed, moved, touched>>
privVars == <<db, objVars, gridVars, pc, dirty, due, todo, commits, histVars>>

-----------------------------------------------------------------------------
(* Places. *)

\* A place holds what its row says.
SameRow(q, r) == q.kind = r.kind /\ q.id = r.id /\ q.pt = r.pt

\* LYConstData::MakeView and MakeHotel
Made(kind, id, pt, cell) ==
    [kind |-> kind, id |-> id, pt |-> pt, on |-> TRUE, refer |-> None, cell |-> cell,
     cids |-> {}, ref |-> None, gather |-> FALSE]

gatherId(id) == id \o <<"gather">>
coreId(id) == <<"coreHotel">> \o id

\* The map that holds a place, and its key there: getUniqId.
MapOf(p) == IF p.kind \in TourKind THEN "tour" ELSE p.kind

getUniqId(p) ==
    IF p.kind \in VarKind \union {"hotel"} /\ p.refer # None THEN p.id \o <<p.pt>> ELSE p.id

At(s, map, key) == {p \in s.places : MapOf(p) = map /\ getUniqId(p) = key}

\* The first of some sets that has an element.
First(sets) ==
    LET hits == {i \in DOMAIN sets : sets[i] # {}} IN
    IF hits = {} THEN {} ELSE sets[CHOOSE i \in hits : \A j \in hits : i <= j]

PlaceMaps(s, key) ==
    [i \in 1..4 |-> At(s, <<"hotel", "view", "shop", "restaurant">>[i], key)]

\* GetLYPlace: the place of that name, as a set; the id as such is tried first.
GetLYPlace(s, id, pt) ==
    First(<<At(s, "city", id), At(s, "tour", id)>> \o PlaceMaps(s, id)
          \o PlaceMaps(s, IF pt = None THEN id ELSE id \o <<pt>>))

\* InsertCityPlaceList, DelCityLYPlace: the entries of a place.
Entries(p) ==
    IF p.kind \in VarKind \union TourKind
    THEN {<<MapOf(p), p.pt, c, p.id>> : c \in p.cids} ELSE {}

-----------------------------------------------------------------------------
(* Changes to an object s and the grid, which go together: a record of      *)
(* places, index, shields, taken, cells and where.                          *)

\* Mutant: only the key of the id is erased.
delIdFromGrid_KeepCell(s, id, pt) ==
    [s EXCEPT !.where = {x \in @ : x[1] # id \/ x[2] # pt}]

\* MJSquareGrid::delIdFromGrid
delIdFromGrid(s, id, pt) ==
    LET old == {x \in s.where : x[1] = id /\ x[2] = pt} IN
    [s EXCEPT !.where = @ \ old, !.cells = @ \ {<<x[3], x[1], x[2]>> : x \in old}]

\* MJSquareGrid::addId2Grid: the id stays in the cell where it was.
addId2Grid(s, id, pt, cell) ==
    [s EXCEPT !.where = {x \in @ : x[1] # id \/ x[2] # pt} \union {<<id, pt, cell>>},
              !.cells = @ \union {<<cell, id, pt>>}]

\* DelFromPlaceMap: what is erased from the maps, the core hotel included.
Erased(s, p) ==
    LET tours == At(s, "tour", p.id)
        citys == IF tours = {} THEN At(s, "city", p.id) ELSE {}
        core == IF citys = {} THEN {} ELSE At(s, "hotel", coreId(p.id))
    IN tours \union citys \union core \union First(PlaceMaps(s, getUniqId(p)))

\* Mutant: the lists of the cities keep the id.
DelLYPlace_NoLists(s, id, pt) ==
    LET found == GetLYPlace(s, id, pt)
        p == CHOOSE p \in found : TRUE
        t == IF p.kind \in VarKind THEN delIdFromGrid(s, p.id, p.pt) ELSE s
    IN IF found = {} THEN s ELSE [t EXCEPT !.places = @ \ Erased(s, p)]

\* A place p leaves the grid, the lists of the cities and the maps; the places
\* where a tour meets go with it.
Without(s, p) ==
    LET t == IF p.kind \in VarKind THEN delIdFromGrid(s, p.id, p.pt) ELSE s
        local == IF p.kind \in TourKind /\ p.gather
                 THEN GetLYPlace(s, gatherId(p.id), None) ELSE {}
    IN [t EXCEPT !.index = @ \ Entries(p),
                 !.places = @ \ UNION {Erased(s, q) : q \in {p} \union local}]

DelLYPlace(s, id, pt) ==
    LET found == GetLYPlace(s, id, pt) IN
    IF found = {} THEN s ELSE Without(s, CHOOSE p \in found : TRUE)

\* InsertLYPlace succeeds unless the id is there.
Inserts(s, p) == At(s, MapOf(p), getUniqId(p)) = {}

\* DoInsert: InsertLYPlace, with the core hotel of a city, and
\* InsertCityPlaceList.
DoInsert(s, p) ==
    LET core == Made("hotel", coreId(p.id), p.pt, p.cell)
        new == IF p.kind = "city" THEN {p, core} ELSE {p}
        gone == IF p.kind = "city" THEN At(s, "hotel", coreId(p.id)) ELSE {}
    IN IF Inserts(s, p)
       THEN [s EXCEPT !.places = (@ \ gone) \union new, !.index = @ \union Entries(p)]
       ELSE s

-----------------------------------------------------------------------------
(* One row of a table.                                                      *)

\* LYConstData::GetLYPlace for the object pri: NULL for what is shielded, the
\* private place, or the public one.
PublicView(id) == IF id \in Base THEN {Made("view", id, None, None)} ELSE {}

Shown(pri, id, pt) ==
    IF <<pt, id>> \in pri.shields THEN {}
    ELSE First(<<GetLYPlace(pri, id, pt), PublicView(id)>>)

\* LoadSpecifiedTypeVarPlace: a row that replaces a public place and is
\* disabled shields that place; the id is in the grid before the place is in
\* the maps.
ReadVarPlace(s, r) ==
    LET t == DelLYPlace(s, r.id, r.pt)
        u == IF r.refer # None /\ ~r.on
             THEN [t EXCEPT !.shields = @ \union {<<r.pt, r.refer>>}] ELSE t
        skipped == ~r.on \/ (r.refer # None /\ r.refer \notin Base) \/ r.cell = Bad
    IN IF skipped THEN u
       ELSE DoInsert(IF r.cell = None THEN u ELSE addId2Grid(u, r.id, r.pt, r.cell), r)

\* The place that a row names, as a set: for a view ticket or a tour in the
\* object t or as LYConstData sees it, for a hotel as LYConstData sees it
\* (getCity); it looks into pri, or into the object itself during the first load.
Named(t, pri, r) ==
    LET o == IF pri = None THEN t ELSE pri IN
    IF r.ref = None THEN {}
    ELSE IF r.kind = "hotel" THEN GetLYPlace(o, r.ref, None)
    ELSE First(<<GetLYPlace(t, r.ref, r.pt), Shown(o, r.ref, r.pt)>>)

\* What is stored of that place with the one of the row: the position of its
\* view in a ticket without a map_info (_poi), that it is there in a tour
\* (m_refPoi), the time zone of its city in a hotel.
Taken(r, named) ==
    IF r.kind = "ticket" /\ r.cell # None THEN {}
    ELSE {<<r, IF r.kind = "tour" THEN None ELSE p.cell>> : p \in named}

Take(s, r, named) == [s EXCEPT !.taken = {x \in @ : x[1] # r} \union Taken(r, named)]

\* Mutant: a row is skipped before the place is deleted.
ReadHotel_SkipFirst(s, pri, r) ==
    LET t == DelLYPlace(s, r.id, r.pt) IN
    IF ~r.on \/ (r.refer # None /\ r.refer \notin Base) THEN s
    ELSE DoInsert(Take(t, r, Named(t, pri, r)), r)

\* UpdateHotel: neither a shield nor the grid.
ReadHotel(s, pri, r) ==
    LET t == DelLYPlace(s, r.id, r.pt) IN
    IF ~r.on \/ (r.refer # None /\ r.refer \notin Base) THEN t
    ELSE DoInsert(Take(t, r, Named(t, pri, r)), r)

\* LoadSpecifiedTypeTour: a view ticket needs its view, another tour needs a
\* position.  The place to meet is a view.
ReadTour(s, pri, r) ==
    LET t == DelLYPlace(s, r.id, r.pt)
        named == Named(t, pri, r)
        skipped == ~r.on \/ IF r.kind = "ticket" THEN named = {} ELSE r.cell = None
        local == Made("view", gatherId(r.id), None, None)
        u == IF r.gather THEN DoInsert(t, local) ELSE t
    IN IF skipped THEN t ELSE DoInsert(Take(u, r, named), r)

\* UpdateCity: a row that is disabled is skipped before the city is deleted.
ReadCity(s, r) == IF r.on THEN DoInsert(DelLYPlace(s, r.id, r.pt), r) ELSE s

\* LoadSpecifiedTypeTicketsFun
ReadFun(s, r) ==
    [s EXCEPT !.places = (@ \ At(s, "fun", r.id)) \union (IF r.on THEN {r} ELSE {})]

ReadRow(s, pri, r) ==
    CASE r.kind \in VarKind -> ReadVarPlace(s, r)
      [] r.kind \in TourKind -> ReadTour(s, pri, r)
      [] r.kind = "hotel" -> ReadHotel(s, pri, r)
      [] r.kind = "city" -> ReadCity(s, r)
      [] r.kind = "fun" -> ReadFun(s, r)

ReadRows(s, pri, rows) ==
    LET after[k \in 0..Len(rows)] ==
            IF k = 0 THEN s ELSE ReadRow(after[k - 1], pri, rows[k])
    IN after[Len(rows)]

-----------------------------------------------------------------------------
(* Objects. *)

Empty == [places |-> {}, index |-> {}, shields |-> {}, taken |-> {}]
Object(s) == [places |-> s.places, index |-> s.index, shields |-> s.shields, taken |-> s.taken]
With(o, grid) ==
    [places |-> o.places, index |-> o.index, shields |-> o.shields, taken |-> o.taken,
     cells |-> grid[1], where |-> grid[2]]

OfKind(rows, kinds) == {r \in rows : r.kind \in kinds}

\* LoadPrivateData: table by table, the tables in this order.
LoadOrder == <<{"city"}, {"hotel"}, {"view"}, {"restaurant"}, {"shop"}, TourKind, {"fun"}>>

PrivateLoad(rows, pri, grid) ==
    LET of(k) == SetToSeq(OfKind(rows, LoadOrder[k])) IN
    ReadRows(With(Empty, grid), pri, of(1) \o of(2) \o of(3) \o of(4) \o of(5) \o of(6) \o of(7))

\* CopyAndInsert of one map after the other.
CopyAndInsert(s, places) ==
    LET after[k \in 0..Len(places)] ==
            IF k = 0 THEN s ELSE DoInsert(after[k - 1], places[k])
    IN after[Len(places)]

\* CopyData: every place map by map, with what it has taken from others, the
\* core hotels of the cities made anew, and the shields.
CopyOrder == <<"city", "hotel", "view", "shop", "restaurant", "tour", "fun">>

Copied(o, map) ==
    {p \in o.places : MapOf(p) = map /\ ~(map = "hotel" /\ p.id[1] = "coreHotel")}

CopyData(o) ==
    LET of(k) == SetToSeq(Copied(o, CopyOrder[k])) IN
    [CopyAndInsert(Empty, of(1) \o of(2) \o of(3) \o of(4) \o of(5) \o of(6) \o of(7))
     EXCEPT !.shields = o.shields, !.taken = o.taken]

\* The places that there may be: rows, the core hotels of the cities, and the
\* places where tours meet; the objects that hold them.
Cores == {Made("hotel", coreId(r.id), r.pt, r.cell) : r \in DataRow}
Locals == {Made("view", gatherId(r.id), None, None) : r \in DataRow}
AnyPlace == DataRow \union Cores \union Locals
AnyEntry == UNION {Entries(p) : p \in AnyPlace}

Shield == {<<r.pt, r.refer>> : r \in DataRow}
TakenValue == {p.cell : p \in AnyPlace} \union {None}
Takings == DataRow \X TakenValue

ObjectType == [places : SUBSET AnyPlace, index : SUBSET AnyEntry, shields : SUBSET Shield,
               taken : SUBSET Takings]

\* NULL is no object.
ASSUME NoneAssumption == None \notin ObjectType

-----------------------------------------------------------------------------
DataInit ==
    /\ db \in Start
    /\ fixed = Empty /\ shared = Empty /\ next = Empty
    /\ cells = {} /\ where = {}
    /\ pc = "fixed"
    /\ dirty = {} /\ due = {} /\ todo = <<>> /\ commits = 0
    /\ missed = {} /\ moved = {} /\ touched = {}

\* What a change of the row r adds to the history.
Noted(r) ==
    /\ commits < MaxCommit /\ commits' = commits + 1
    /\ moved' = IF pc = "load" THEN moved \union {<<r.id, r.pt>>} ELSE moved
    /\ touched' = IF pc = "fixed" THEN touched ELSE touched \union {r.id}

\* A row of the database is written (external); utime changes with it.
Change(r) ==
    /\ r \notin db /\ Noted(r)
    /\ db' = {q \in db : ~SameRow(q, r)} \union {r}
    /\ dirty' = {q \in dirty : ~SameRow(q, r)} \union (IF pc \in {"idle", "update"} THEN {r} ELSE {})
    /\ missed' = {q \in missed : ~SameRow(q, r)}
    /\ UNCHANGED <<objVars, gridVars, pc, due, todo>>

\* A row is deleted (external).  No Update reads that, the window is one of utime.
Delete(r) ==
    /\ r \in db /\ Noted(r)
    /\ db' = db \ {r}
    /\ dirty' = dirty \ {r}
    /\ missed' = IF pc \in {"idle", "update"} THEN missed \union {r} ELSE missed
    /\ UNCHANGED <<objVars, gridVars, pc, due, todo>>

\* LYConstData::init: the object that is never updated.  While it is loaded it
\* is the one LYConstData::GetLYPlace looks into.
LoadFixed ==
    /\ pc = "fixed"
    /\ LET s == PrivateLoad(db, None, <<cells, where>>) IN
       fixed' = Object(s) /\ cells' = s.cells /\ where' = s.where
    /\ pc' = "load"
    /\ UNCHANGED <<db, shared, next, dirty, due, todo, commits, histVars>>

\* MQQueryProcessor::Init: the object that the threads share.
Load ==
    /\ pc = "load"
    /\ LET s == PrivateLoad(db, fixed, <<cells, where>>) IN
       shared' = Object(s) /\ cells' = s.cells /\ where' = s.where
    /\ pc' = "idle"
    /\ UNCHANGED <<db, fixed, next, dirty, due, todo, commits, histVars>>

\* The tables a reload reads, as the configuration lists them.
UpdateOrder == <<{"view"}, {"shop"}, {"restaurant"}, {"city"}, {"ticket"}, {"tour"}, {"fun"}, {"hotel"}>>

\* reloadData: some table has changed, and the current object is copied.
Begin ==
    /\ pc = "idle" /\ dirty # {}
    /\ next' = CopyData(shared)
    /\ due' = dirty
    /\ todo' = SelectSeq(UpdateOrder, LAMBDA kinds : OfKind(dirty, kinds) # {})
    /\ pc' = "update"
    /\ UNCHANGED <<db, fixed, shared, gridVars, dirty, commits, histVars>>

\* Update of a table: all rows that were due, unless they have changed again,
\* and perhaps others, which have changed since or were read before; in any
\* order.
ReadTable ==
    /\ pc = "update" /\ todo # <<>>
    /\ \E rows \in SUBSET OfKind(db, Head(todo)) :
        /\ OfKind(db \intersect due, Head(todo)) \subseteq rows
        /\ \E seq \in SetToSeqs(rows) :
            LET s == ReadRows(With(next, <<cells, where>>), fixed, seq) IN
            next' = Object(s) /\ cells' = s.cells /\ where' = s.where
        /\ dirty' = dirty \ rows
        /\ missed' = missed \ rows
    /\ todo' = Tail(todo)
    /\ UNCHANGED <<db, fixed, shared, pc, due, commits, moved, touched>>

\* Update of a table fails: reloadData goes on with the next one, and the rows
\* are not read again.
TableFails ==
    /\ pc = "update" /\ todo # <<>>
    /\ LET rows == OfKind(dirty \intersect due, Head(todo)) IN
       dirty' = dirty \ rows /\ missed' = missed \union rows
    /\ todo' = Tail(todo)
    /\ UNCHANGED <<db, objVars, gridVars, pc, due, commits, moved, touched>>

\* The new object becomes the current one.
PublishData ==
    /\ pc = "update" /\ todo = <<>>
    /\ shared' = next /\ next' = Empty
    /\ due' = {}
    /\ pc' = "idle"
    /\ UNCHANGED <<db, fixed, gridVars, dirty, todo, commits, histVars>>

DataNext ==
    \/ \E r \in DataRow : Change(r) \/ Delete(r)
    \/ LoadFixed \/ Load \/ Begin \/ ReadTable \/ TableFails \/ PublishData

DataSpec == DataInit /\ [][DataNext]_privVars

-----------------------------------------------------------------------------
(* Properties. *)

NewestData == IF pc = "update" THEN next ELSE shared

\* The lists of the cities hold what the maps hold, and nothing else, in every
\* object and at every moment: GetPrivateTourByType follows an id of a list
\* without a test for NULL (PrivateConstData.cpp:1255), and a place that is in
\* no list is never recommended.
IndexExact ==
    \A o \in {fixed, shared, next} : o.index = UNION {Entries(p) : p \in o.places}

Positions(o) == {<<p.cell, p.id, p.pt>> : p \in {p \in OfKind(o.places, VarKind) : p.cell # None}}

\* The grid, of which there is one for all objects, shows every place of the
\* newest object in the cell where it is and nowhere else, and shows nothing
\* that the object does not hold: FilterDist (Processor.cpp) takes a place
\* from its cell for near without looking at its coordinates.  Rows that
\* change between the two loads of the start are the exception: the second
\* load finds nothing to delete and leaves the first one's cell.
GridExact ==
    pc \in {"idle", "update"} =>
        LET kept == {x \in cells : <<x[2], x[3]>> \notin moved}
            wanted == {x \in Positions(NewestData) : <<x[2], x[3]>> \notin moved}
        IN kept = wanted

\* What a request sees of an object: a view ticket needs its view
\* (LYConstData::GetLYPlace, GetViewByViewTicket).
Visible(o) ==
    {p \in o.places : p.kind = "ticket" =>
        \E v \in Shown(o, p.ref, p.pt) : v.pt \in {None, p.pt}}

\* The places of an object that come from rows of kinds, the hotels and views
\* made for them included.
From(o, kinds) ==
    LET own == OfKind(o.places, kinds)
        made == {p \in o.places : \E q \in own : p.id \in {coreId(q.id), gatherId(q.id)}}
    IN own \union made

\* What a place of an object has taken from another one.
TakenBy(o, p) == {x[2] : x \in {x \in o.taken : x[1] = p}}

\* Once every changed row has been read, the shared object is the one that a
\* restart would load, whatever the order of commits, reloads and tables was,
\* but for rows whose Update failed and rows that were deleted.  Three things
\* may differ: a city that is disabled stays until a restart
\* (PrivateConstData.cpp:553), a shield is never taken back ("只有insert没有
\* delete"), and a ticket that was read before its view stays away.
SameRows(fresh) ==
    LET failed == {<<r.id, r.pt>> : r \in missed}
        plain(o) == {p \in o.places \ From(o, {"city", "ticket"}) :
                        /\ <<p.id, p.pt>> \notin failed
                        /\ \A r \in missed : p.id # gatherId(r.id)}
    IN /\ plain(shared) = plain(fresh)
       /\ missed = {} =>
            /\ From(fresh, {"city"}) \subseteq shared.places
            /\ OfKind(Visible(shared), {"ticket"}) \subseteq fresh.places
            /\ fresh.shields \subseteq shared.shields

\* What a ticket, a tour or a hotel has taken from the place that it names is
\* what it would take at a restart, unless a row of that place has changed
\* since the start: nobody takes it anew when the place changes, and
\* LYConstData looks into the object of the start.
SameTaken(fresh) ==
    \A p \in OfKind(shared.places \intersect fresh.places, TourKind \union {"hotel"}) :
        p.ref \notin touched => TakenBy(shared, p) = TakenBy(fresh, p)

SameAsLoad ==
    (pc = "idle" /\ dirty = {}) =>
        LET fresh == PrivateLoad(db, None, <<{}, {}>>) IN SameRows(fresh) /\ SameTaken(fresh)

====
