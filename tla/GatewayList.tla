------------------------------ MODULE GatewayList ------------------------------
(***************************************************************************)
(* The suites and templates of one profile, and list_all of the web client *)
(* (nlab/rpc/client.py): it asks the service for page after page, each of  *)
(* them a query with OFFSET and LIMIT (nlab/rpc/object.py), while others   *)
(* create and remove rows.                                                 *)
(***************************************************************************)
EXTENDS Naturals, FiniteSets, Functions

CONSTANTS
    Kind,       \* "suite", "template"
    UserText,   \* contents that do not come from the old database
    NoKey,      \* rows without an id of the old database in their meta
    Limit,      \* LIMIT, 5000 in the code
    MaxId       \* bound: rows ever created

ASSUME ListBounds == Limit \in Nat \ {0} /\ MaxId \in Nat
ASSUME Kinds == {"suite", "template"} \subseteq Kind

VARIABLES
    rows,       \* of each kind: the rows by id
    fresh,      \* the next id; rows created later have greater ones
    call        \* the list_all under way, or the last one: `start` and `gone`
                \* record what was there at the first page and how many rows
                \* were removed since

listVars == <<rows, fresh, call>>

Ids(kind) == DOMAIN rows[kind]

NoCall == [on |-> FALSE, kind |-> "suite", offset |-> 0, items |-> << >>,
           start |-> {}, gone |-> 0]

ListInit ==
    /\ rows  = [k \in Kind |-> << >>]
    /\ fresh = 1
    /\ call  = NoCall

-------------------------------------------------------------------------------
(* Faulty variants of the definitions below: the properties fail on them. *)

PageAndOne(offset) == offset + Limit + 1    \* the offset skips a row
ReusedId == Cardinality(UNION {Ids(k) : k \in Kind}) + 1 \* ids are not unique

-------------------------------------------------------------------------------
NewId == fresh

(* The service's rows in the order of creation, from offset, limit of them. *)
Filter(kind, offset, limit) ==
    {i \in Ids(kind) :
        LET place == Cardinality({j \in Ids(kind) : j <= i})
        IN  offset < place /\ place <= offset + limit}

CanCreate == fresh <= MaxId

Create(kind, row) ==
    /\ CanCreate
    /\ rows' = [rows EXCEPT ![kind] = [i \in Ids(kind) \cup {NewId} |->
                                        IF i = NewId THEN row ELSE @[i]]]
    /\ fresh' = fresh + 1
    /\ UNCHANGED call

Update(kind, id, row) ==
    /\ rows' = [rows EXCEPT ![kind][id] = row]
    /\ UNCHANGED <<fresh, call>>

(* What goes with a row: with a suite its templates go too ("Remove whole suite",
   tools/import_templates.py, 35). *)
Along(kind, id) ==
    [k \in Kind |->
        {i \in Ids(k) :
            \/ k = kind /\ i = id
            \/ kind = "suite" /\ k = "template" /\ rows[k][i].suite = id}]

Remove(kind, id) ==
    /\ rows' = [k \in Kind |-> Restrict(rows[k], Ids(k) \ Along(kind, id)[k])]
    /\ call' = IF call.on
               THEN [call EXCEPT !.gone = @ + Cardinality(Along(kind, id)[call.kind])]
               ELSE call
    /\ UNCHANGED fresh

StartList(kind) ==
    /\ call' = [NoCall EXCEPT !.on = TRUE, !.kind = kind, !.start = Ids(kind)]
    /\ UNCHANGED <<rows, fresh>>

Full(page) == Cardinality(page) >= Limit
NextOffset(offset) == offset + Limit

(* One page; a page that is not full is the last one. *)
ListPage ==
    /\ call.on
    /\ LET page  == Filter(call.kind, call.offset, Limit)
           items == [i \in DOMAIN call.items \cup page |->
                        IF i \in page THEN rows[call.kind][i].key ELSE call.items[i]]
       IN  call' = [call EXCEPT !.on = Full(page), !.items = items,
                                !.offset = NextOffset(@)]
    /\ UNCHANGED <<rows, fresh>>

-------------------------------------------------------------------------------
(* A finished list_all has every row that was there all the time, except at
   most as many as were removed before its last page: a removal moves the rows
   behind it across a page's border (client.py, 91-110).  It never invents one. *)
MissedAreShifted ==
    LET listed == DOMAIN call.items
        missed == (call.start \cap Ids(call.kind)) \ listed
    IN  /\ \A i \in listed : i < fresh
        /\ ~call.on => Cardinality(missed) <= call.gone

================================================================================
