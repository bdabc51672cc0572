------------------------------- MODULE Registers ------------------------------
(***************************************************************************)
(* The registers a factory keeps through the dashboard: categories,        *)
(* locations and items of the inventory (InventoryService), and vendors    *)
(* (VendorService).                                                        *)
(*                                                                         *)
(* Every call is a number of questions to the database, each a statement   *)
(* of its own, and a write at the end; what was asked may have changed     *)
(* until then.  Only unique indexes hold whatever overlaps.                *)
(***************************************************************************)
EXTENDS Naturals, Sequences

CONSTANTS
    Caller,       \* requests that may overlap
    Factory, Name, Phone,
    FirstRows,    \* the rows there are at the beginning
    MaxRows, MaxCalls

VARIABLES
    rows,        \* all rows, by id: kind, factory and fields
    call,        \* call[c]: its row (0: a new one), what it sets, the questions left
    overlapped,  \* rows a call wrote after another call had written since it began
    renamed,     \* locations whose name was changed
    misplaced,   \* items put into a place that was not open
    calls

registerVars == <<rows, call, overlapped, renamed, misplaced, calls>>

Kind == {"category", "location", "item", "vendor"}
Id == 1..MaxRows

(* Names are stored as they are written, blanks apart: two spellings differ in
   case only.  An item goes by its SKU, which is put in capitals; of a phone the
   digits are kept, and a leading +. *)
Spelling == {"Oil", "OIL"}
SkuSpelling == {"OIL"}

Blank == [name |-> "", spelling |-> "OIL", phone |-> "", active |-> TRUE, category |-> 0, location |-> 0]
Field == DOMAIN Blank
Row == [kind : Kind, factory : Factory, name : Name \union {""}, spelling : Spelling,
        phone : Phone \union {""}, active : BOOLEAN, category : 0..MaxRows, location : 0..MaxRows]
Idle == [kind |-> "none", factory |-> "none", id |-> 0, set |-> Blank, todo |-> <<>>, read |-> Blank,
         late |-> FALSE]

(* set, over the fields of an older row *)
Over(set, row) == [f \in Field |-> IF f \in DOMAIN set THEN set[f] ELSE row[f]]

(* No two vendors of a factory share a name or a phone and no two items a SKU;
   categories may share a name only if one of them is in similar, locations only
   if one is in renamable.  An item lies in a category and a location of its own
   factory. *)
OfKind(rs, kind, f) == {i \in DOMAIN rs : rs[i].kind = kind /\ rs[i].factory = f}
ToldApart(rs, similar, renamable) ==
    \A f \in Factory, kind \in Kind : \A i, j \in OfKind(rs, kind, f) : i # j =>
        CASE kind = "vendor" -> rs[i].name # rs[j].name /\ rs[i].phone # rs[j].phone
          [] kind = "item" -> rs[i].name # rs[j].name
          [] kind = "category" -> rs[i].name # rs[j].name \/ {i, j} \intersect similar # {}
          [] kind = "location" -> rs[i].name # rs[j].name \/ {i, j} \intersect renamable # {}
ItemsPlaced(rs) ==
    \A f \in Factory : \A i \in OfKind(rs, "item", f) :
        rs[i].category \in OfKind(rs, "category", f) /\ rs[i].location \in OfKind(rs, "location", f)

(* The rows there are at the beginning are as calls that do not overlap leave
   them; no location is renamed before that. *)
RegistersAssumption ==
    /\ MaxRows \in Nat /\ MaxCalls \in Nat
    /\ FirstRows \in Seq(Row) /\ Len(FirstRows) <= MaxRows
    /\ ToldApart(FirstRows, {}, {}) /\ ItemsPlaced(FirstRows)
    /\ \A i \in DOMAIN FirstRows : FirstRows[i].kind = "item" => FirstRows[i].spelling \in SkuSpelling

Init ==
    /\ rows = FirstRows
    /\ call = [c \in Caller |-> Idle]
    /\ overlapped = {} /\ renamed = {} /\ misplaced = {}
    /\ calls = 0

-----------------------------------------------------------------------------
(* Requests                                                                *)

All(kind) == {i \in DOMAIN rows : rows[i].kind = kind}
Of(kind, f) == OfKind(rows, kind, f)
Fields(id) == [f \in Field |-> rows[id][f]]

Named(n, ss) == {[name |-> n, spelling |-> s] : s \in ss}

Begin(c, kind, f, id, set, todo) ==
    /\ call[c] = Idle /\ calls < MaxCalls
    /\ calls' = calls + 1
    /\ call' = [call EXCEPT ![c] = [kind |-> kind, factory |-> f, id |-> id, set |-> set, todo |-> todo,
                                    read |-> Blank, late |-> FALSE]]
    /\ UNCHANGED <<rows, overlapped, renamed, misplaced>>

CreateCategory(c) ==
    \E f \in Factory, n \in Name : \E set \in Named(n, Spelling) :
        Begin(c, "category", f, 0, set, <<"name">>)

CreateLocation(c) ==
    \E f \in Factory, n \in Name : \E set \in Named(n, Spelling) :
        Begin(c, "location", f, 0, set, <<"name">>)

CreateItem(c) ==
    \E f \in Factory, n \in Name, s \in SkuSpelling, k \in All("category"), l \in All("location") :
        Begin(c, "item", f, 0, [name |-> n, spelling |-> s, category |-> k, location |-> l],
              <<"category", "location", "name">>)

CreateVendor(c) ==
    \E f \in Factory, n \in Name, s \in Spelling, p \in Phone :
        Begin(c, "vendor", f, 0, [name |-> n, spelling |-> s, phone |-> p], <<"name", "phone">>)

(* An update names a row and a factory, which may not be the row's, and sets one
   thing (is_active, for one: deactivate is such an update but of vendors); todo
   gives the questions asked for what it sets. *)
Opened == {[active |-> a] : a \in BOOLEAN}
NewNames == UNION {Named(n, Spelling) : n \in Name}
Updates(c, kind, todo) ==
    \E id \in All(kind), f \in Factory : \E set \in DOMAIN todo :
        Begin(c, kind, f, id, set, <<"row">> \o todo[set])

UpdateCategory(c) ==
    Updates(c, "category", [set \in Opened \union NewNames |->
                                 IF set \in NewNames THEN <<"name">> ELSE <<>>])

(* The new name of a location is not looked for. *)
UpdateLocation(c) == Updates(c, "location", [set \in Opened \union NewNames |-> <<>>])

(* The SKU cannot be changed. *)
UpdateItem(c) ==
    Updates(c, "item", [set \in Opened \union {[category |-> k] : k \in All("category")}
                                       \union {[location |-> l] : l \in All("location")} |->
                            IF "category" \in DOMAIN set THEN <<"category">>
                            ELSE IF "location" \in DOMAIN set THEN <<"location">> ELSE <<>>])

(* Name and phone are looked for, whether patched or as the row said. *)
UpdateVendor(c) ==
    Updates(c, "vendor", [set \in Opened \union NewNames \union {[phone |-> p] : p \in Phone} |->
                              <<"name", "phone">>])

DeactivateVendor(c) == Updates(c, "vendor", [set \in {[active |-> FALSE]} |-> <<>>])

-----------------------------------------------------------------------------
(* Questions                                                               *)

(* What the row will say once the call has written it. *)
Wanted(c) == Over(call[c].set, call[c].read)

(* Another row has the name, whatever its case (iLike, toLowerCase); another
   vendor the phone. *)
NameTaken(c) ==
    \E i \in Of(call[c].kind, call[c].factory) \ {call[c].id} : rows[i].name = Wanted(c).name
PhoneTaken(c) ==
    \E i \in Of("vendor", call[c].factory) \ {call[c].id} : rows[i].phone = Wanted(c).phone

(* assertCategoryExists, assertLocationExists *)
OpenCategory(c) ==
    LET id == call[c].set.category IN id \in Of("category", call[c].factory) /\ rows[id].active
OpenLocation(c) ==
    LET id == call[c].set.location IN id \in Of("location", call[c].factory) /\ rows[id].active

RowExists(c) == call[c].id \in Of(call[c].kind, call[c].factory)

Holds(c, question) ==
    CASE question = "row" -> RowExists(c)
      [] question = "name" -> ~NameTaken(c)
      [] question = "phone" -> ~PhoneTaken(c)
      [] question = "category" -> OpenCategory(c)
      [] question = "location" -> OpenLocation(c)

(* A question is asked; the call goes on or is refused. *)
Answered(c) ==
    [call[c] EXCEPT !.todo = Tail(@), !.read = IF Head(call[c].todo) = "row" THEN Fields(call[c].id) ELSE @]
Ask(c) ==
    /\ call[c] # Idle /\ call[c].todo # <<>>
    /\ call' = [call EXCEPT ![c] = IF Holds(c, Head(call[c].todo)) THEN Answered(c) ELSE Idle]
    /\ UNCHANGED <<rows, overlapped, renamed, misplaced, calls>>

-----------------------------------------------------------------------------
(* The write                                                               *)

(* uq_inventory_categories_factory_name, uq_inventory_locations_factory_name
   and uq_inventory_items_factory_sku compare exactly; those of the vendors,
   of name and phone, without case (migration 002). *)
Collide_CaseCounts(a, b) == a.name = b.name /\ a.spelling = b.spelling
Collide(a, b) ==
    IF a.kind = "vendor" THEN a.name = b.name \/ a.phone = b.phone
    ELSE a.name = b.name /\ a.spelling = b.spelling

(* A new row; an old one, of which only what was patched is written. *)
RowOf(c, fields) ==
    [kind |-> call[c].kind, factory |-> call[c].factory, name |-> fields.name, spelling |-> fields.spelling,
     phone |-> fields.phone, active |-> fields.active, category |-> fields.category,
     location |-> fields.location]
NewRow(c) == RowOf(c, Over(call[c].set, Blank))
PatchedRow(c) == RowOf(c, Over(call[c].set, Fields(call[c].id)))

Closed(c) ==
    \/ "category" \in DOMAIN call[c].set /\ ~OpenCategory(c)
    \/ "location" \in DOMAIN call[c].set /\ ~OpenLocation(c)

Stored(c, id, row) ==
    /\ rows' = IF id \in DOMAIN rows THEN [rows EXCEPT ![id] = row] ELSE Append(rows, row)
    /\ overlapped' = IF call[c].late THEN overlapped \union {id} ELSE overlapped
    /\ renamed' = IF row.kind = "location" /\ id \in DOMAIN rows /\ "name" \in DOMAIN call[c].set
                  THEN renamed \union {id} ELSE renamed
    /\ misplaced' = IF Closed(c) THEN misplaced \union {id} ELSE misplaced
    /\ call' = [d \in Caller |-> IF d = c \/ call[d] = Idle THEN Idle ELSE [call[d] EXCEPT !.late = TRUE]]

Write(c) ==
    LET id == IF call[c].id = 0 THEN Len(rows) + 1 ELSE call[c].id
        row == IF call[c].id = 0 THEN NewRow(c) ELSE PatchedRow(c)
    IN
    /\ call[c] # Idle /\ call[c].todo = <<>> /\ id <= MaxRows
    /\ IF \E i \in Of(row.kind, row.factory) \ {id} : Collide(row, rows[i])
       THEN UNCHANGED <<rows, overlapped, renamed, misplaced>> /\ call' = [call EXCEPT ![c] = Idle]
       ELSE Stored(c, id, row)
    /\ UNCHANGED calls

Next ==
    \E c \in Caller :
        \/ CreateCategory(c) \/ CreateLocation(c) \/ CreateItem(c) \/ CreateVendor(c)
        \/ UpdateCategory(c) \/ UpdateLocation(c) \/ UpdateItem(c) \/ UpdateVendor(c)
        \/ DeactivateVendor(c) \/ Ask(c) \/ Write(c)

Spec == Init /\ [][Next]_registerVars

-----------------------------------------------------------------------------
TypeOK ==
    /\ rows \in Seq(Row) /\ Len(rows) <= MaxRows
    /\ overlapped \union renamed \union misplaced \subseteq Id
    /\ calls \in 0..MaxCalls

(* Vendors and the SKUs of items are told apart, whatever overlaps; categories,
   and locations that were not renamed, may differ in case only where two calls
   overlapped.  An item lies in a category and a location of its own factory, and
   was put there while they were open unless the call was overtaken. *)
RegistersHold ==
    /\ ToldApart(rows, overlapped, overlapped \union renamed)
    /\ ItemsPlaced(rows)
    /\ misplaced \subseteq overlapped
=============================================================================
