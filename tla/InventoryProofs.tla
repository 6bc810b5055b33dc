--------------------------- MODULE InventoryProofs ---------------------------
(***************************************************************************)
(* Proofs about Inventory: type correctness, household isolation, that a   *)
(* version names one content of a row, and that no write is computed from  *)
(* anything but the row it replaces.                                       *)
(***************************************************************************)
EXTENDS Inventory, TLAPS

(* One handler's step that leaves the tables alone keeps the invariant if  *)
(* the request it goes on with is a good one.                              *)
LEMMA ServeStep ==
    ASSUME IInv, NEW c \in Clients, NEW r \in Request \cup {NULL},
           Serve(c, r), UNCHANGED tables,
           r # NULL => RequestOK(c)'
    PROVE  IInv'
<1> USE InventoryAssumption
<1>1. req' \in [Clients -> Request \cup {NULL}] /\ req'[c] = r
          /\ \A d \in Clients \ {c} : req'[d] = req[d]
  BY DEF IInv, TypeOK, Serve
<1>2. TypeOK'
  BY <1>1 DEF IInv, TypeOK, tables
<1>3. CatalogIssued' /\ VersionNamesRow' /\ HouseholdFixed'
  BY DEF IInv, CatalogIssued, HouseholdFixed, VersionNamesRow, tables
<1>4. TableIsLatest'
  BY DEF IInv, TableIsLatest, ImageOf, KeysExist, tables
<1>5. HistoryOrdered'
  BY DEF IInv, HistoryOrdered, Agrees, NotAfter, tables
<1>6. EventsFromHistory'
  BY DEF IInv, EventsFromHistory, ImageOf, tables
<1>7. RequestsOK'
  <2> SUFFICES ASSUME NEW d \in Clients, req'[d] # NULL PROVE RequestOK(d)'
    BY DEF RequestsOK
  <2>1. CASE d = c
    BY <1>1, <2>1
  <2>2. CASE d # c
    <3>1. req'[d] = req[d] /\ RequestOK(d)
      BY <1>1, <2>2 DEF IInv, RequestsOK
    <3> QED BY <3>1 DEF RequestOK, CreateOK, ImagesOK, UndoOK, ImageOf, Agrees, NotAfter, tables
  <2> QED BY <2>1, <2>2
<1> QED BY <1>2, <1>3, <1>4, <1>5, <1>6, <1>7 DEF IInv

-----------------------------------------------------------------------------
(* The steps that only start or advance a handler.                         *)

(* The row getBatch returns is one the batch has in the table.             *)
LEMMA ReadIsImage ==
    ASSUME IInv, NEW c \in Clients, NEW b \in BatchIds, getBatch(c, b) # NULL
    PROVE  /\ getBatch(c, b) = batches[b] /\ batches[b] \in Row
           /\ ImageOf(batches[b], b) /\ batches[b].household = HouseholdOf[c]
           /\ \A r \in written : r.id = b => r \in Row /\ NotAfter(r, batches[b])
  BY InventoryAssumption DEF IInv, TypeOK, getBatch, TableIsLatest, HistoryOrdered, ImageOf

LEMMA CreateStep ==
    ASSUME IInv, NEW c \in Clients, createBatch(c)
    PROVE  IInv'
<1> USE InventoryAssumption
<1>1. PICK d \in Sent :
        Serve(c, [op |-> "create", pc |-> "validate", id |-> NULL, data |-> d,
                  version |-> 1, read |-> NULL, before |-> NULL, basis |-> NULL,
                  event |-> 0])
  BY DEF createBatch
<1> DEFINE r == [op |-> "create", pc |-> "validate", id |-> NULL, data |-> d,
                  version |-> 1, read |-> NULL, before |-> NULL, basis |-> NULL,
                  event |-> 0]
<1>2. r \in Request /\ req'[c] = r /\ d # NULL
  BY <1>1 DEF Request, IInv, TypeOK, Serve
<1>3. RequestOK(c)'
  BY <1>2 DEF RequestOK, CreateOK
<1> QED BY <1>1, <1>2, <1>3, ServeStep DEF createBatch

LEMMA UpdateStep ==
    ASSUME IInv, NEW c \in Clients, updateBatch(c)
    PROVE  IInv'
<1> USE InventoryAssumption
<1>1. PICK b \in BatchIds, d \in Sent :
        /\ getBatch(c, b) # NULL
        /\ \E basis \in Served(c, b) \cup {getBatch(c, b)} :
            Serve(c, [op |-> "update", pc |-> "validate", id |-> b, data |-> d,
                      version |-> basis.version, read |-> getBatch(c, b),
                      before |-> getBatch(c, b), basis |-> basis, event |-> 0])
  BY DEF updateBatch
<1> DEFINE row == batches[b]
<1>2. /\ getBatch(c, b) = row /\ row \in Row /\ row # NULL
      /\ ImageOf(row, b) /\ row.household = HouseholdOf[c]
      /\ \A s \in written : s.id = b => s \in Row /\ NotAfter(s, row)
  BY <1>1, ReadIsImage
<1>3. PICK basis \in written :
        /\ basis.id = b
        /\ Serve(c, [op |-> "update", pc |-> "validate", id |-> b, data |-> d,
                      version |-> basis.version, read |-> row,
                      before |-> row, basis |-> basis, event |-> 0])
  BY <1>1, <1>2 DEF Served, ImageOf
<1> DEFINE r == [op |-> "update", pc |-> "validate", id |-> b, data |-> d,
                      version |-> basis.version, read |-> row,
                      before |-> row, basis |-> basis, event |-> 0]
<1>4. basis \in Row /\ NotAfter(basis, row) /\ NotAfter(row, row)
  BY <1>2, <1>3 DEF NotAfter, Row
<1>5. r \in Request /\ req'[c] = r /\ d # NULL /\ b # NULL
  BY <1>2, <1>3, <1>4 DEF Request, Row, IInv, TypeOK, Serve
<1>6. RequestOK(c)'
  BY <1>2, <1>3, <1>4, <1>5 DEF RequestOK, CreateOK, ImagesOK, ImageOf, updateBatch, tables, NotAfter
<1> QED BY <1>3, <1>5, <1>6, ServeStep DEF updateBatch

LEMMA DeleteStep ==
    ASSUME IInv, NEW c \in Clients, deleteBatch(c)
    PROVE  IInv'
<1> USE InventoryAssumption
<1>1. PICK b \in BatchIds :
        /\ getBatch(c, b) # NULL
        /\ \E basis \in Served(c, b) \cup {getBatch(c, b)} :
            Serve(c, [op |-> "delete", pc |-> "commit", id |-> b, data |-> NULL,
                      version |-> basis.version, read |-> getBatch(c, b),
                      before |-> getBatch(c, b), basis |-> basis, event |-> 0])
  BY DEF deleteBatch
<1> DEFINE row == batches[b]
<1>2. /\ getBatch(c, b) = row /\ row \in Row /\ row # NULL
      /\ ImageOf(row, b) /\ row.household = HouseholdOf[c]
      /\ \A s \in written : s.id = b => s \in Row /\ NotAfter(s, row)
  BY <1>1, ReadIsImage
<1>3. PICK basis \in written :
        /\ basis.id = b
        /\ Serve(c, [op |-> "delete", pc |-> "commit", id |-> b, data |-> NULL,
                      version |-> basis.version, read |-> row,
                      before |-> row, basis |-> basis, event |-> 0])
  BY <1>1, <1>2 DEF Served, ImageOf
<1> DEFINE r == [op |-> "delete", pc |-> "commit", id |-> b, data |-> NULL,
                      version |-> basis.version, read |-> row,
                      before |-> row, basis |-> basis, event |-> 0]
<1>4. basis \in Row /\ NotAfter(basis, row) /\ NotAfter(row, row)
  BY <1>2, <1>3 DEF NotAfter, Row
<1>5. r \in Request /\ req'[c] = r /\ b # NULL
  BY <1>2, <1>3, <1>4 DEF Request, Row, IInv, TypeOK, Serve
<1>6. RequestOK(c)'
  BY <1>2, <1>3, <1>4, <1>5 DEF RequestOK, ImagesOK, ImageOf, deleteBatch, tables, NotAfter
<1> QED BY <1>3, <1>5, <1>6, ServeStep DEF deleteBatch

(* Open and adjust start the same way, with a value of their own.          *)
LEMMA ValueStep ==
    ASSUME IInv, NEW c \in Clients, NEW b \in BatchIds, getBatch(c, b) # NULL,
           NEW basis \in Served(c, b) \cup {getBatch(c, b)}, NEW d \in Data(Int),
           ServeValue(c, getBatch(c, b), basis, d), UNCHANGED tables
    PROVE  IInv'
<1> USE InventoryAssumption
<1> DEFINE row == batches[b]
<1>2. /\ getBatch(c, b) = row /\ row \in Row /\ row # NULL
      /\ ImageOf(row, b) /\ row.household = HouseholdOf[c]
      /\ \A s \in written : s.id = b => s \in Row /\ NotAfter(s, row)
  BY ReadIsImage
<1>3. basis \in written /\ basis.id = b
  BY <1>2 DEF Served, ImageOf
<1> DEFINE r == [op |-> "value", pc |-> "reread", id |-> b, data |-> d,
                 version |-> basis.version, read |-> row, before |-> NULL,
                 basis |-> basis, event |-> 0]
<1>4. basis \in Row /\ NotAfter(basis, row) /\ row.id = b
  BY <1>2, <1>3 DEF ImageOf
<1>5. r \in Request /\ b # NULL /\ d # NULL
  BY <1>2, <1>3, <1>4 DEF Request, Row
<1>6. Serve(c, r) /\ req'[c] = r
  BY <1>2, <1>4, <1>5 DEF ServeValue, Serve, IInv, TypeOK
<1>7. RequestOK(c)'
  BY <1>2, <1>3, <1>4, <1>5, <1>6 DEF RequestOK, ImagesOK, ImageOf, tables, NotAfter
<1> QED BY <1>5, <1>6, <1>7, ServeStep

LEMMA OpenStep ==
    ASSUME IInv, NEW c \in Clients, openBatch(c)
    PROVE  IInv'
<1> USE InventoryAssumption
<1>1. PICK b \in BatchIds :
        /\ getBatch(c, b) # NULL
        /\ ServeValue(c, getBatch(c, b), getBatch(c, b), [getBatch(c, b).data EXCEPT !.opened_at = "today"])
  BY DEF openBatch
<1>2. getBatch(c, b) \in Row
  BY <1>1, ReadIsImage
<1>3. ASSUME NEW d \in Stored PROVE [d EXCEPT !.opened_at = "today"] \in Data(Int)
  BY DEF Stored, Data
<1>4. [getBatch(c, b).data EXCEPT !.opened_at = "today"] \in Data(Int)
  BY <1>2, <1>3 DEF Row
<1> QED BY <1>1, <1>4, ValueStep DEF openBatch

(* What an adjustment makes of a stored value is well typed.               *)
LEMMA AdjustedType ==
    ASSUME NEW d \in Stored, NEW delta \in Deltas \cup {NULL}, NEW level \in Levels \cup {NULL}
    PROVE  Adjusted(d, delta, level) \subseteq Data(Int)
  BY InventoryAssumption DEF Adjusted, Stored, Data

LEMMA AdjustStep ==
    ASSUME IInv, NEW c \in Clients, adjustBatch(c)
    PROVE  IInv'
<1>1. PICK b \in BatchIds, delta \in Deltas \cup {NULL}, level \in Levels \cup {NULL} :
        /\ getBatch(c, b) # NULL
        /\ \E basis \in Served(c, b) \cup {getBatch(c, b)},
              d \in Adjusted(getBatch(c, b).data, delta, level) :
              ServeValue(c, getBatch(c, b), basis, d)
  BY DEF adjustBatch
<1>2. getBatch(c, b).data \in Stored
  BY <1>1, ReadIsImage DEF Row
<1>3. Adjusted(getBatch(c, b).data, delta, level) \subseteq Data(Int)
  BY <1>2, AdjustedType
<1> QED BY <1>1, <1>3, ValueStep DEF adjustBatch

(* The fields of a request that a step of its handler leaves alone.        *)
LEMMA Reread ==
    ASSUME NEW q \in Request, NEW x
    PROVE  LET r == [q EXCEPT !.pc = "validate", !.before = x] IN
           /\ r.op = q.op /\ r.pc = "validate" /\ r.id = q.id /\ r.data = q.data
           /\ r.version = q.version /\ r.basis = q.basis /\ r.read = q.read
           /\ r.before = x /\ r.event = q.event
  BY DEF Request

LEMMA Validated ==
    ASSUME NEW q \in Request, NEW x
    PROVE  LET r == [q EXCEPT !.pc = "commit", !.data = x] IN
           /\ r.op = q.op /\ r.pc = "commit" /\ r.id = q.id /\ r.data = x
           /\ r.version = q.version /\ r.basis = q.basis /\ r.read = q.read
           /\ r.before = q.before /\ r.event = q.event
  BY DEF Request

LEMMA RereadStep ==
    ASSUME IInv, NEW c \in Clients, rereadBatch(c)
    PROVE  IInv'
<1> USE InventoryAssumption
<1> DEFINE before == getBatch(c, req[c].id)
           r == [req[c] EXCEPT !.pc = "validate", !.before = before]
<1>1. /\ req[c] # NULL /\ req[c] \in Request /\ RequestOK(c) /\ req[c].pc = "reread"
      /\ UNCHANGED tables
  BY DEF rereadBatch, Idle, IInv, TypeOK, RequestsOK
<1>2. CASE before = NULL
  <2>1. Serve(c, NULL)
    BY <1>2 DEF rereadBatch, Answer, Serve
  <2> QED BY <1>1, <2>1, ServeStep
<1>3. CASE before # NULL
  <2>1. Serve(c, r)
    BY <1>3 DEF rereadBatch
  <2>2. /\ req[c].op = "value" /\ req[c].id \in BatchIds /\ req[c].read \in written
        /\ req[c].read.id = req[c].id
    BY <1>1 DEF RequestOK, ImagesOK, ImageOf, Request
  <2>3. /\ before \in Row /\ ImageOf(before, req[c].id) /\ NotAfter(req[c].read, before)
        /\ before.household = HouseholdOf[c]
    BY <1>3, <2>2, ReadIsImage
  <2>4. r \in Request /\ r # NULL
    BY <1>1, <2>3 DEF Request
  <2>5. req'[c] = r
    BY <2>1, <2>4 DEF Serve, IInv, TypeOK
  <2>6. RequestOK(c)'
    <3>1. /\ r.op = "value" /\ r.pc = "validate" /\ r.id = req[c].id /\ r.data = req[c].data
          /\ r.version = req[c].version /\ r.basis = req[c].basis
          /\ r.read = req[c].read /\ r.before = before
      BY <1>1, <2>2, Reread
    <3> HIDE DEF r, before
    <3> QED BY <1>1, <2>2, <2>3, <2>5, <3>1 DEF RequestOK, ImagesOK, ImageOf, tables, NotAfter
  <2> HIDE DEF r
  <2> QED BY <1>1, <2>1, <2>4, <2>6, ServeStep
<1> QED BY <1>2, <1>3

(* validateBatch leaves one measure, and keys of the actor's household.    *)
LEMMA ValidNormal ==
    ASSUME IInv, NEW c \in Clients, NEW d \in Data(Int), Valid(c, d)
    PROVE  /\ Normal(d) \in Stored
           /\ Agrees(HouseholdOf[c], Normal(d))
<1> USE InventoryAssumption
<1>1. d.product \in Products /\ d.location \in Locations
  BY DEF Data
<1>2. /\ d.product \in issued /\ d.location \in issued
      /\ products[d.product].household = HouseholdOf[c]
      /\ locations[d.location] = HouseholdOf[c]
  BY <1>1 DEF Valid, OwnProduct, OwnLocation, IInv, CatalogIssued
<1>3. CASE products[d.product].mode = "quantity"
  <2>1. Normal(d) = [d EXCEPT !.level = NULL]
    BY <1>3 DEF Normal
  <2>2. d.quantity \in Nat /\ d.quantity # NULL
    BY <1>3 DEF Valid, Data
  <2> QED BY <1>2, <2>1, <2>2 DEF Stored, Data, Agrees
<1>4. CASE products[d.product].mode # "quantity"
  <2>1. Normal(d) = [d EXCEPT !.quantity = NULL]
    BY <1>4 DEF Normal
  <2>2. d.level \in Levels /\ d.level # NULL
    BY <1>4 DEF Valid, Data
  <2> QED BY <1>2, <2>1, <2>2 DEF Stored, Data, Agrees
<1> QED BY <1>3, <1>4

LEMMA ValidateStep ==
    ASSUME IInv, NEW c \in Clients, validateBatch(c)
    PROVE  IInv'
<1> USE InventoryAssumption
<1> DEFINE d == req[c].data
           r == [req[c] EXCEPT !.pc = "commit", !.data = Normal(d)]
<1>1. /\ req[c] # NULL /\ req[c] \in Request /\ RequestOK(c) /\ req[c].pc = "validate"
      /\ UNCHANGED tables
  BY DEF validateBatch, Idle, IInv, TypeOK, RequestsOK
<1>2. CASE ~Valid(c, d)
  <2>1. Serve(c, NULL)
    BY <1>2 DEF validateBatch, Answer, Serve
  <2> QED BY <1>1, <2>1, ServeStep
<1>3. CASE Valid(c, d)
  <2>1. Serve(c, r)
    BY <1>3 DEF validateBatch
  <2>2. req[c].op \in {"create", "update", "value"} /\ d \in Data(Int)
    BY <1>1 DEF RequestOK, UndoOK, CreateOK, Request
  <2>3. Normal(d) \in Stored /\ Agrees(HouseholdOf[c], Normal(d))
    BY <1>3, <2>2, ValidNormal
  <2>4. Normal(d) \in Data(Int) /\ Normal(d) # NULL
    BY <2>3 DEF Stored, Data
  <2>5. r \in Request /\ r # NULL
    BY <1>1, <2>4 DEF Request
  <2>6. req'[c] = r
    BY <2>1, <2>5 DEF Serve, IInv, TypeOK
  <2>7. RequestOK(c)'
    <3>1. /\ r.op = req[c].op /\ r.pc = "commit" /\ r.id = req[c].id /\ r.data = Normal(d)
          /\ r.version = req[c].version /\ r.basis = req[c].basis
          /\ r.read = req[c].read /\ r.before = req[c].before
      BY <1>1, Validated
    <3>2. Agrees(HouseholdOf[c], req[c].data)'
      BY <1>1, <2>3, <2>6, <3>1 DEF Agrees, tables
    <3> HIDE DEF r, d
    <3> QED BY <1>1, <2>2, <2>3, <2>4, <2>6, <3>1, <3>2 DEF RequestOK, CreateOK, ImagesOK, ImageOf, tables, NotAfter
  <2> HIDE DEF r
  <2> QED BY <1>1, <2>1, <2>5, <2>7, ServeStep
<1> QED BY <1>2, <1>3

LEMMA UndoStartStep ==
    ASSUME IInv, NEW c \in Clients, undoEvent(c)
    PROVE  IInv'
<1> USE InventoryAssumption
<1>1. PICK e \in DOMAIN events :
        /\ events[e].household = HouseholdOf[c]
        /\ Serve(c, [op |-> "undo", pc |-> "commit", id |-> events[e].batch,
                     data |-> NULL, version |-> 0, read |-> NULL,
                     before |-> events[e].before, basis |-> NULL, event |-> e])
  BY DEF undoEvent
<1> DEFINE r == [op |-> "undo", pc |-> "commit", id |-> events[e].batch,
                     data |-> NULL, version |-> 0, read |-> NULL,
                     before |-> events[e].before, basis |-> NULL, event |-> e]
<1>2. events[e] \in Event /\ e \in Nat
  BY DEF IInv, TypeOK
<1>3. r \in Request /\ req'[c] = r /\ events[e].batch # NULL
  BY <1>1, <1>2 DEF Request, Event, IInv, TypeOK, Serve
<1>4. RequestOK(c)'
  BY <1>1, <1>3 DEF RequestOK, UndoOK, IInv, EventsFromHistory, ImageOf, undoEvent, tables
<1> QED BY <1>1, <1>3, <1>4, ServeStep DEF undoEvent

LEMMA RefuseStep ==
    ASSUME IInv, NEW c \in Clients, refuse(c)
    PROVE  IInv'
<1>1. Serve(c, NULL) /\ UNCHANGED tables
  BY DEF refuse, Answer, Serve
<1> QED BY <1>1, ServeStep

-----------------------------------------------------------------------------
(* Products and locations.                                                 *)

(* A step of the catalogue keeps who may be referred to by whom: an id     *)
(* that has been issued belongs to its household until it is gone.         *)
KeysKept ==
    /\ issued \subseteq issued'
    /\ \A p \in Products \cap issued : products'[p] # NULL =>
          products[p] # NULL /\ products'[p].household = products[p].household
    /\ \A l \in Locations \cap issued : locations'[l] # NULL =>
          locations[l] # NULL /\ locations'[l] = locations[l]

LEMMA AgreesKept ==
    ASSUME KeysKept, NEW h \in Households, NEW d \in Data(Int), Agrees(h, d)
    PROVE  Agrees(h, d)'
  BY DEF KeysKept, Agrees, Data

LEMMA StoredIsData ==
    Stored \subseteq Data(Int)
  BY DEF Stored, Data

(* What must be shown of a step of the catalogue.                          *)
LEMMA CatalogStep ==
    ASSUME IInv, KeysKept, UNCHANGED <<events, req, inc, written>>,
           products' \in [Products -> [household : Households, mode : Modes] \cup {NULL}],
           locations' \in [Locations -> Households \cup {NULL}],
           issued' \subseteq Products \cup Locations \cup BatchIds,
           CatalogIssued',
           batches' \in [BatchIds -> Row \cup {NULL}],
           \A b \in BatchIds : batches'[b] # NULL =>
              batches'[b] = batches[b] /\ KeysExist(batches[b].data)'
    PROVE  IInv'
<1> USE InventoryAssumption
<1>1. TypeOK'
  BY DEF IInv, TypeOK
<1>2. TableIsLatest'
  BY DEF IInv, TableIsLatest, ImageOf
<1>3. HistoryOrdered'
  <2> SUFFICES ASSUME NEW r \in written
               PROVE  /\ r.id \in issued'
                      /\ Agrees(r.household, r.data)'
                      /\ r.inc <= inc[r.id]
                      /\ batches'[r.id] # NULL => NotAfter(r, batches'[r.id])
    BY DEF HistoryOrdered, NotAfter
  <2>1. /\ r \in Row /\ r.id \in issued /\ Agrees(r.household, r.data) /\ r.inc <= inc[r.id]
        /\ batches[r.id] # NULL => NotAfter(r, batches[r.id])
    BY DEF IInv, TypeOK, HistoryOrdered
  <2>2. Agrees(r.household, r.data)'
    BY <2>1, AgreesKept, StoredIsData DEF Row
  <2> QED BY <2>1, <2>2 DEF Row, IInv, TypeOK, KeysKept
<1>4. EventsFromHistory'
  BY DEF IInv, EventsFromHistory, ImageOf
<1>5. RequestsOK'
  <2> SUFFICES ASSUME NEW c \in Clients, req[c] # NULL PROVE RequestOK(c)'
    BY DEF RequestsOK
  <2>1. RequestOK(c) /\ HouseholdOf[c] \in Households
    BY DEF IInv, RequestsOK
  <2>2. ASSUME req[c].data \in Stored, Agrees(HouseholdOf[c], req[c].data)
        PROVE  Agrees(HouseholdOf[c], req[c].data)'
    BY <2>1, <2>2, AgreesKept, StoredIsData DEF Agrees
  <2> QED BY <2>1, <2>2 DEF RequestOK, CreateOK, ImagesOK, UndoOK, ImageOf, NotAfter
<1>6. VersionNamesRow' /\ HouseholdFixed'
  BY DEF IInv, VersionNamesRow, HouseholdFixed
<1> QED BY <1>1, <1>2, <1>3, <1>4, <1>5, <1>6 DEF IInv

LEMMA CatalogSteps ==
    ASSUME IInv, NEW c \in Clients, Catalog(c)
    PROVE  IInv'
<1> USE InventoryAssumption
<1>0. /\ TypeOK /\ CatalogIssued /\ HouseholdOf[c] \in Households
      /\ \A b \in BatchIds : batches[b] # NULL =>
            batches[b] \in Row /\ KeysExist(batches[b].data)
  BY DEF IInv, TypeOK, TableIsLatest
<1>1. CASE createProduct(c)
  BY <1>0, <1>1, CatalogStep DEF createProduct, TypeOK, CatalogIssued, KeysKept, KeysExist
<1>2. CASE updateProduct(c)
  BY <1>0, <1>2, CatalogStep DEF updateProduct, OwnProduct, TypeOK, CatalogIssued, KeysKept, KeysExist
<1>3. CASE deleteProduct(c)
  BY <1>0, <1>3, CatalogStep DEF deleteProduct, Cascade, OwnProduct, TypeOK, CatalogIssued, KeysKept, KeysExist
<1>4. CASE createLocation(c)
  BY <1>0, <1>4, CatalogStep DEF createLocation, TypeOK, CatalogIssued, KeysKept, KeysExist
<1>5. CASE deleteLocation(c)
  BY <1>0, <1>5, CatalogStep DEF deleteLocation, OwnLocation, TypeOK, CatalogIssued, KeysKept, KeysExist
<1> QED BY <1>1, <1>2, <1>3, <1>4, <1>5 DEF Catalog

-----------------------------------------------------------------------------
(* The transactions.  What they do to the requests, to the log and to the  *)
(* table is shown one at a time.                                           *)

(* The handlers still running do not notice.                               *)
LEMMA OthersKept ==
    ASSUME IInv, NEW c \in Clients, Answer(c), UNCHANGED <<products, locations>>,
           issued \subseteq issued', written \subseteq written',
           DOMAIN events \subseteq DOMAIN events'
    PROVE  /\ RequestsOK' /\ CatalogIssued'
           /\ req' \in [Clients -> Request \cup {NULL}]
<1>1. /\ req' \in [Clients -> Request \cup {NULL}] /\ req'[c] = NULL
      /\ \A d \in Clients \ {c} : req'[d] = req[d]
  BY DEF Answer, IInv, TypeOK
<1>2. CatalogIssued'
  BY DEF IInv, CatalogIssued
<1>3. RequestsOK'
  <2> SUFFICES ASSUME NEW d \in Clients, req'[d] # NULL PROVE RequestOK(d)'
    BY DEF RequestsOK
  <2>1. req'[d] = req[d] /\ RequestOK(d)
    BY <1>1 DEF IInv, RequestsOK
  <2> QED BY <2>1 DEF RequestOK, CreateOK, ImagesOK, UndoOK, ImageOf, NotAfter, Agrees
<1> QED BY <1>1, <1>2, <1>3

(* An event whose before-image the batch really had joins the log.         *)
LEMMA LogKept ==
    ASSUME IInv, NEW c \in Clients, NEW b \in BatchIds, NEW before \in Row \cup {NULL},
           recordEvent(c, b, before), written \subseteq written',
           before # NULL => ImageOf(before, b) /\ before.household = HouseholdOf[c]
    PROVE  /\ events' \in Seq(Event) /\ DOMAIN events \subseteq DOMAIN events'
           /\ EventsFromHistory'
<1> USE InventoryAssumption
<1> DEFINE e == [household |-> HouseholdOf[c], batch |-> b, before |-> before, undone |-> 0]
<1>1. events \in Seq(Event) /\ e \in Event /\ events' = Append(events, e)
  BY DEF IInv, TypeOK, Event, recordEvent
<1>2. /\ events' \in Seq(Event) /\ Len(events') = Len(events) + 1
      /\ \A i \in 1..Len(events) : events'[i] = events[i]
      /\ events'[Len(events) + 1] = e
      /\ DOMAIN events = 1..Len(events) /\ DOMAIN events' = 1..Len(events')
  BY <1>1
<1>3. EventsFromHistory'
  <2> SUFFICES ASSUME NEW i \in DOMAIN events', events'[i].before # NULL
               PROVE  /\ events'[i].before \in written'
                      /\ events'[i].before.id = events'[i].batch
                      /\ events'[i].before.household = events'[i].household
    BY DEF EventsFromHistory, ImageOf
  <2>1. CASE i \in 1..Len(events)
    BY <1>2, <2>1 DEF IInv, EventsFromHistory, ImageOf
  <2>2. CASE i = Len(events) + 1
    BY <1>2, <2>2 DEF ImageOf
  <2> QED BY <1>2, <2>1, <2>2
<1> QED BY <1>2, <1>3

(* UPDATE ... SET ..., version=version+1.                                  *)
LEMMA OverwriteKept ==
    ASSUME IInv, UNCHANGED <<products, locations, inc>>, issued \subseteq issued',
           NEW row \in Row, Put(row), batches[row.id] # NULL,
           row.household = batches[row.id].household, row.inc = batches[row.id].inc,
           row.version = batches[row.id].version + 1,
           Agrees(row.household, row.data), KeysExist(row.data)
    PROVE  /\ batches' \in [BatchIds -> Row \cup {NULL}] /\ written' \subseteq Row
           /\ TableIsLatest' /\ HistoryOrdered' /\ VersionNamesRow' /\ HouseholdFixed'
<1> USE InventoryAssumption
<1> DEFINE b == row.id
<1>1. b \in BatchIds /\ row # NULL /\ row.inc \in Nat /\ row.version \in Nat
  BY DEF Row
<1>2. /\ batches' \in [BatchIds -> Row \cup {NULL}] /\ written' = written \cup {row}
      /\ batches'[b] = row
      /\ \A a \in BatchIds \ {b} : batches'[a] = batches[a]
      /\ written \subseteq Row /\ written' \subseteq Row
  BY <1>1 DEF Put, IInv, TypeOK
<1>3. /\ batches[b] \in written /\ batches[b] \in Row /\ batches[b].inc = inc[b]
      /\ row.inc = inc[b] /\ b \in issued
  BY <1>1 DEF IInv, TypeOK, TableIsLatest, HistoryOrdered, ImageOf
<1>4. TableIsLatest'
  BY <1>1, <1>2, <1>3 DEF IInv, TableIsLatest, ImageOf, KeysExist
<1>5. \A r \in written : r.id = b /\ r.inc = row.inc => r.version < row.version
  BY <1>2, <1>3 DEF IInv, HistoryOrdered, NotAfter, Row
<1>6. HistoryOrdered'
  <2> SUFFICES ASSUME NEW r \in written'
               PROVE  /\ r.id \in issued'
                      /\ Agrees(r.household, r.data)'
                      /\ r.inc <= inc[r.id]
                      /\ batches'[r.id] # NULL => NotAfter(r, batches'[r.id])
    BY DEF HistoryOrdered, NotAfter
  <2>1. CASE r = row
    BY <1>1, <1>2, <1>3, <2>1 DEF Agrees, NotAfter
  <2>2. CASE r \in written /\ r.id = b
    BY <1>2, <1>3, <1>5, <2>2 DEF IInv, HistoryOrdered, Agrees, NotAfter, Row
  <2>3. CASE r \in written /\ r.id # b
    BY <1>2, <2>3 DEF IInv, HistoryOrdered, Agrees, NotAfter, Row
  <2> QED BY <1>2, <2>1, <2>2, <2>3
<1>7. VersionNamesRow'
  <2> SUFFICES ASSUME NEW r \in written', NEW s \in written',
                      r.id = s.id, r.inc = s.inc, r.version = s.version
               PROVE  r = s
    BY DEF VersionNamesRow
  <2> QED BY <1>1, <1>2, <1>5 DEF IInv, VersionNamesRow, Row
<1>8. HouseholdFixed'
  BY <1>1, <1>2, <1>3 DEF IInv, TableIsLatest, HouseholdFixed, ImageOf
<1> QED BY <1>2, <1>4, <1>6, <1>7, <1>8

(* INSERT under an id that is not in the table.                            *)
LEMMA InsertKept ==
    ASSUME IInv, UNCHANGED <<products, locations>>, issued \subseteq issued',
           NEW row \in Row, Put(row), batches[row.id] = NULL, row.id \in issued',
           row.inc = inc[row.id] + 1, inc' = [inc EXCEPT ![row.id] = @ + 1],
           Agrees(row.household, row.data), KeysExist(row.data),
           \A r \in written : r.id = row.id => r.household = row.household
    PROVE  /\ batches' \in [BatchIds -> Row \cup {NULL}] /\ written' \subseteq Row
           /\ inc' \in [BatchIds -> Nat]
           /\ TableIsLatest' /\ HistoryOrdered' /\ VersionNamesRow' /\ HouseholdFixed'
<1> USE InventoryAssumption
<1> DEFINE b == row.id
<1>1. b \in BatchIds /\ row # NULL /\ row.inc \in Nat /\ row.version \in Nat
      /\ inc \in [BatchIds -> Nat]
  BY DEF Row, IInv, TypeOK
<1>2. /\ batches' \in [BatchIds -> Row \cup {NULL}] /\ written' = written \cup {row}
      /\ batches'[b] = row
      /\ \A a \in BatchIds \ {b} : batches'[a] = batches[a]
      /\ written \subseteq Row /\ written' \subseteq Row
  BY <1>1 DEF Put, IInv, TypeOK
<1>3. /\ inc' \in [BatchIds -> Nat] /\ inc'[b] = row.inc
      /\ \A a \in BatchIds \ {b} : inc'[a] = inc[a]
  BY <1>1
<1>4. TableIsLatest'
  BY <1>1, <1>2, <1>3 DEF IInv, TableIsLatest, ImageOf, KeysExist
<1>5. \A r \in written : r.id = b => r.inc < row.inc
  BY <1>1, <1>2 DEF IInv, HistoryOrdered, Row
<1>6. HistoryOrdered'
  <2> SUFFICES ASSUME NEW r \in written'
               PROVE  /\ r.id \in issued'
                      /\ Agrees(r.household, r.data)'
                      /\ r.inc <= inc'[r.id]
                      /\ batches'[r.id] # NULL => NotAfter(r, batches'[r.id])
    BY DEF HistoryOrdered, NotAfter
  <2>1. CASE r = row
    BY <1>1, <1>2, <1>3, <2>1 DEF Agrees, NotAfter
  <2>2. CASE r \in written /\ r.id = b
    BY <1>1, <1>2, <1>3, <1>5, <2>2 DEF IInv, HistoryOrdered, Agrees, NotAfter, Row
  <2>3. CASE r \in written /\ r.id # b
    BY <1>2, <1>3, <2>3 DEF IInv, HistoryOrdered, Agrees, NotAfter, Row
  <2> QED BY <1>2, <2>1, <2>2, <2>3
<1>7. VersionNamesRow'
  <2> SUFFICES ASSUME NEW r \in written', NEW s \in written',
                      r.id = s.id, r.inc = s.inc, r.version = s.version
               PROVE  r = s
    BY DEF VersionNamesRow
  <2> QED BY <1>1, <1>2, <1>5 DEF IInv, VersionNamesRow, Row
<1>8. HouseholdFixed'
  BY <1>2 DEF IInv, HouseholdFixed
<1> QED BY <1>2, <1>3, <1>4, <1>6, <1>7, <1>8

(* DELETE.                                                                 *)
LEMMA RemoveKept ==
    ASSUME IInv, UNCHANGED <<products, locations, inc, written>>, issued \subseteq issued',
           NEW b \in BatchIds, batches' = [batches EXCEPT ![b] = NULL]
    PROVE  /\ batches' \in [BatchIds -> Row \cup {NULL}]
           /\ TableIsLatest' /\ HistoryOrdered' /\ VersionNamesRow' /\ HouseholdFixed'
<1> USE InventoryAssumption
<1>1. /\ batches' \in [BatchIds -> Row \cup {NULL}] /\ batches'[b] = NULL
      /\ \A a \in BatchIds \ {b} : batches'[a] = batches[a]
  BY DEF IInv, TypeOK
<1>2. TableIsLatest'
  BY <1>1 DEF IInv, TableIsLatest, ImageOf, KeysExist
<1>3. HistoryOrdered'
  BY <1>1 DEF IInv, TypeOK, HistoryOrdered, Agrees, NotAfter, Row
<1> QED BY <1>1, <1>2, <1>3 DEF IInv, VersionNamesRow, HouseholdFixed

LEMMA CommitCreateStep ==
    ASSUME IInv, NEW c \in Clients, commitCreate(c)
    PROVE  IInv'
<1> USE InventoryAssumption
<1>1. PICK b \in BatchIds \ issued :
        /\ Put([id |-> b, household |-> HouseholdOf[c], data |-> req[c].data,
                version |-> 1, inc |-> inc[b] + 1])
        /\ inc' = [inc EXCEPT ![b] = @ + 1]
        /\ issued' = issued \cup {b}
        /\ recordEvent(c, b, NULL)
  BY DEF commitCreate
<1> DEFINE row == [id |-> b, household |-> HouseholdOf[c], data |-> req[c].data,
                   version |-> 1, inc |-> inc[b] + 1]
<1>2. /\ req[c] \in Request /\ req[c].data \in Stored
      /\ Agrees(HouseholdOf[c], req[c].data) /\ KeysExist(req[c].data)
  BY DEF commitCreate, Committing, Idle, IInv, TypeOK, RequestsOK, RequestOK, CreateOK
<1>3. row \in Row /\ row.id = b /\ row.inc = inc[b] + 1
  BY <1>2 DEF Row, IInv, TypeOK
<1>4. batches[b] = NULL /\ b \in issued' /\ issued \subseteq issued'
      /\ \A r \in written : r.id # b
  BY <1>1 DEF IInv, TableIsLatest, HistoryOrdered, ImageOf
<1>5. /\ batches' \in [BatchIds -> Row \cup {NULL}] /\ written' \subseteq Row
      /\ inc' \in [BatchIds -> Nat]
      /\ TableIsLatest' /\ HistoryOrdered' /\ VersionNamesRow' /\ HouseholdFixed'
  <2> HIDE DEF row
  <2> QED BY <1>1, <1>2, <1>3, <1>4, InsertKept DEF commitCreate, row
<1>6. /\ events' \in Seq(Event) /\ DOMAIN events \subseteq DOMAIN events'
      /\ EventsFromHistory'
  BY <1>1, LogKept DEF Put
<1>7. /\ RequestsOK' /\ CatalogIssued' /\ req' \in [Clients -> Request \cup {NULL}]
  BY <1>1, <1>6, OthersKept DEF commitCreate, Put
<1>8. TypeOK'
  BY <1>1, <1>5, <1>6, <1>7 DEF IInv, TypeOK, commitCreate
<1> QED BY <1>5, <1>6, <1>7, <1>8 DEF IInv

LEMMA RewriteRow ==
    ASSUME NEW row \in Row, NEW d \in Stored
    PROVE  LET new == Rewrite(row, d) IN
           /\ new \in Row /\ new.id = row.id /\ new.household = row.household
           /\ new.data = d /\ new.version = row.version + 1 /\ new.inc = row.inc
<1> DEFINE new == Rewrite(row, d)
<1>1. row.version + 1 \in Nat
  BY DEF Row
<1>2. ASSUME NEW v \in Nat
      PROVE  LET r == [row EXCEPT !.data = d, !.version = v] IN
             /\ r \in Row /\ r.id = row.id /\ r.household = row.household
             /\ r.data = d /\ r.version = v /\ r.inc = row.inc
  BY DEF Row
<1> QED BY <1>1, <1>2 DEF Rewrite

LEMMA ReinsertedRow ==
    ASSUME NEW row \in Row, NEW h \in Households, NEW n \in Nat
    PROVE  LET new == Reinserted(row, h, n) IN
           /\ new \in Row /\ new.id = row.id /\ new.household = h
           /\ new.data = row.data /\ new.version = row.version /\ new.inc = n
  BY DEF Reinserted, Row

(* What the WHERE clause and the request say of the row a versioned write  *)
(* replaces.                                                               *)
LEMMA MatchedRow ==
    ASSUME IInv, NEW c \in Clients, NEW op \in {"update", "value", "delete"},
           Committing(c, op), Matches(c)
    PROVE  LET old == batches[req[c].id] IN
           /\ req[c] \in Request /\ RequestOK(c) /\ ImagesOK(c)
           /\ req[c].id \in BatchIds /\ old \in Row /\ old # NULL
           /\ old.id = req[c].id /\ old \in written
           /\ old.household = HouseholdOf[c] /\ old.version = req[c].version
           /\ Agrees(old.household, old.data) /\ KeysExist(old.data)
           /\ req[c].before \in Row /\ ImageOf(req[c].before, req[c].id)
           /\ req[c].before.household = HouseholdOf[c]
<1> USE InventoryAssumption
<1>1. /\ req[c] \in Request /\ RequestOK(c) /\ ImagesOK(c) /\ req[c].pc = "commit"
  BY DEF Committing, Idle, IInv, TypeOK, RequestsOK, RequestOK
<1>2. /\ req[c].id \in BatchIds /\ ImageOf(req[c].before, req[c].id)
      /\ req[c].before.household = HouseholdOf[c]
  BY <1>1 DEF ImagesOK, Request
<1>3. req[c].before \in Row
  BY <1>2 DEF ImageOf, IInv, TypeOK
<1> QED BY <1>1, <1>2, <1>3 DEF Matches, IInv, TypeOK, TableIsLatest, HistoryOrdered, ImageOf

LEMMA CommitUpdateStep ==
    ASSUME IInv, NEW c \in Clients, commitUpdate(c)
    PROVE  IInv'
<1> USE InventoryAssumption
<1> DEFINE old == batches[req[c].id]
           row == Rewrite(old, req[c].data)
<1>1. /\ req[c] \in Request /\ RequestOK(c) /\ ImagesOK(c)
      /\ req[c].id \in BatchIds /\ old \in Row /\ old # NULL
      /\ old.id = req[c].id /\ old.household = HouseholdOf[c]
      /\ req[c].before \in Row /\ ImageOf(req[c].before, req[c].id)
      /\ req[c].before.household = HouseholdOf[c]
  BY MatchedRow DEF commitUpdate
<1>2. req[c].data \in Stored /\ Agrees(HouseholdOf[c], req[c].data)
  BY <1>1 DEF commitUpdate, Committing, RequestOK, CreateOK
<1>3. /\ row \in Row /\ row.id = old.id /\ row.household = old.household
      /\ row.data = req[c].data /\ row.version = old.version + 1 /\ row.inc = old.inc
  BY <1>1, <1>2, RewriteRow
<1>4. Put(row) /\ KeysExist(req[c].data) /\ Answer(c)
      /\ recordEvent(c, req[c].id, req[c].before)
      /\ UNCHANGED <<products, locations, issued, inc>>
  BY DEF commitUpdate
<1> HIDE DEF row
<1>5. /\ batches' \in [BatchIds -> Row \cup {NULL}] /\ written' \subseteq Row
      /\ TableIsLatest' /\ HistoryOrdered' /\ VersionNamesRow' /\ HouseholdFixed'
  BY <1>1, <1>2, <1>3, <1>4, OverwriteKept
<1>6. /\ events' \in Seq(Event) /\ DOMAIN events \subseteq DOMAIN events'
      /\ EventsFromHistory'
  BY <1>1, <1>4, LogKept DEF Put
<1>7. /\ RequestsOK' /\ CatalogIssued' /\ req' \in [Clients -> Request \cup {NULL}]
  BY <1>4, <1>6, OthersKept DEF Put
<1>8. TypeOK'
  BY <1>4, <1>5, <1>6, <1>7 DEF IInv, TypeOK
<1> QED BY <1>5, <1>6, <1>7, <1>8 DEF IInv

LEMMA CommitValueStep ==
    ASSUME IInv, NEW c \in Clients, commitValue(c)
    PROVE  IInv'
<1> USE InventoryAssumption
<1> DEFINE old == batches[req[c].id]
           d == Measured(old.data, req[c].data)
           row == Rewrite(old, d)
<1>1. /\ req[c] \in Request /\ RequestOK(c) /\ ImagesOK(c)
      /\ req[c].id \in BatchIds /\ old \in Row /\ old # NULL
      /\ old.id = req[c].id /\ old.household = HouseholdOf[c]
      /\ Agrees(old.household, old.data) /\ KeysExist(old.data)
      /\ req[c].before \in Row /\ ImageOf(req[c].before, req[c].id)
      /\ req[c].before.household = HouseholdOf[c]
  BY MatchedRow DEF commitValue
<1>2. req[c].data \in Stored /\ old.data \in Stored
  BY <1>1 DEF commitValue, Committing, RequestOK, Row
<1>3. d \in Stored /\ d.product = old.data.product /\ d.location = old.data.location
  BY <1>2 DEF Measured, Stored, Data
<1>4. /\ row \in Row /\ row.id = old.id /\ row.household = old.household
      /\ row.data = d /\ row.version = old.version + 1 /\ row.inc = old.inc
  BY <1>1, <1>3, RewriteRow
<1>5. Agrees(old.household, d) /\ KeysExist(d)
  BY <1>1, <1>3 DEF Agrees, KeysExist
<1>6. Put(row) /\ Answer(c) /\ recordEvent(c, req[c].id, req[c].before)
      /\ UNCHANGED <<products, locations, issued, inc>>
  BY DEF commitValue
<1> HIDE DEF row, d
<1>7. /\ batches' \in [BatchIds -> Row \cup {NULL}] /\ written' \subseteq Row
      /\ TableIsLatest' /\ HistoryOrdered' /\ VersionNamesRow' /\ HouseholdFixed'
  BY <1>1, <1>4, <1>5, <1>6, OverwriteKept
<1>8. /\ events' \in Seq(Event) /\ DOMAIN events \subseteq DOMAIN events'
      /\ EventsFromHistory'
  BY <1>1, <1>6, LogKept DEF Put
<1>9. /\ RequestsOK' /\ CatalogIssued' /\ req' \in [Clients -> Request \cup {NULL}]
  BY <1>6, <1>8, OthersKept DEF Put
<1>10. TypeOK'
  BY <1>6, <1>7, <1>8, <1>9 DEF IInv, TypeOK
<1> QED BY <1>7, <1>8, <1>9, <1>10 DEF IInv

LEMMA CommitDeleteStep ==
    ASSUME IInv, NEW c \in Clients, commitDelete(c)
    PROVE  IInv'
<1> USE InventoryAssumption
<1>1. /\ req[c].id \in BatchIds
      /\ req[c].before \in Row /\ ImageOf(req[c].before, req[c].id)
      /\ req[c].before.household = HouseholdOf[c]
  BY MatchedRow DEF commitDelete
<1>2. /\ batches' = [batches EXCEPT ![req[c].id] = NULL] /\ Answer(c)
      /\ recordEvent(c, req[c].id, req[c].before)
      /\ UNCHANGED <<products, locations, issued, inc, written>>
  BY DEF commitDelete
<1>3. /\ batches' \in [BatchIds -> Row \cup {NULL}]
      /\ TableIsLatest' /\ HistoryOrdered' /\ VersionNamesRow' /\ HouseholdFixed'
  BY <1>1, <1>2, RemoveKept
<1>4. /\ events' \in Seq(Event) /\ DOMAIN events \subseteq DOMAIN events'
      /\ EventsFromHistory'
  BY <1>1, <1>2, LogKept
<1>5. /\ RequestsOK' /\ CatalogIssued' /\ req' \in [Clients -> Request \cup {NULL}]
  BY <1>2, <1>4, OthersKept
<1>6. TypeOK'
  BY <1>2, <1>3, <1>4, <1>5 DEF IInv, TypeOK
<1> QED BY <1>3, <1>4, <1>5, <1>6 DEF IInv

(* Setting the undone flag changes nothing else in the log.                *)
LEMMA UndoneKept ==
    ASSUME IInv, NEW e \in DOMAIN events, events' = [events EXCEPT ![e].undone = 1],
           written \subseteq written'
    PROVE  /\ events' \in Seq(Event) /\ DOMAIN events' = DOMAIN events
           /\ EventsFromHistory'
<1>1. events \in Seq(Event) /\ events[e] \in Event /\ e \in 1..Len(events)
  BY DEF IInv, TypeOK
<1>2. ASSUME NEW v \in Event
      PROVE  LET u == [v EXCEPT !.undone = 1] IN
             /\ u \in Event /\ u.household = v.household
             /\ u.batch = v.batch /\ u.before = v.before
  BY DEF Event
<1> DEFINE u == [events[e] EXCEPT !.undone = 1]
<1>3. /\ u \in Event /\ u.household = events[e].household
      /\ u.batch = events[e].batch /\ u.before = events[e].before
  BY <1>1, <1>2
<1>4. events' = [events EXCEPT ![e] = u]
  OBVIOUS
<1> HIDE DEF u
<1>5. /\ events' \in Seq(Event) /\ DOMAIN events' = DOMAIN events /\ events'[e] = u
      /\ \A i \in DOMAIN events \ {e} : events'[i] = events[i]
  BY <1>1, <1>3, <1>4
<1>6. EventsFromHistory'
  <2> SUFFICES ASSUME NEW i \in DOMAIN events, events'[i].before # NULL
               PROVE  /\ events'[i].before \in written'
                      /\ events'[i].before.id = events'[i].batch
                      /\ events'[i].before.household = events'[i].household
    BY <1>5 DEF EventsFromHistory, ImageOf
  <2>1. CASE i = e
    BY <1>3, <1>5, <2>1 DEF IInv, EventsFromHistory, ImageOf
  <2>2. CASE i # e
    BY <1>5, <2>2 DEF IInv, EventsFromHistory, ImageOf
  <2> QED BY <2>1, <2>2
<1> QED BY <1>5, <1>6

(* What the undo has done to the table, in each of its three ways.         *)
LEMMA UndoTable ==
    ASSUME IInv, NEW c \in Clients, Committing(c, "undo"),
           undoCreation(c) \/ undoInsert(c) \/ undoOverwrite(c),
           UNCHANGED <<products, locations, issued>>
    PROVE  /\ batches' \in [BatchIds -> Row \cup {NULL}]
           /\ written \subseteq written' /\ written' \subseteq Row
           /\ inc' \in [BatchIds -> Nat]
           /\ TableIsLatest' /\ HistoryOrdered' /\ VersionNamesRow' /\ HouseholdFixed'
<1> USE InventoryAssumption
<1> DEFINE before == req[c].before
           b == before.id
<1>1. /\ req[c] \in Request /\ UndoOK(c) /\ req[c].id \in BatchIds
      /\ inc \in [BatchIds -> Nat] /\ written \subseteq Row
  BY DEF Committing, Idle, IInv, TypeOK, RequestsOK, RequestOK, UndoOK, Request
<1>2. CASE undoCreation(c)
  <2>1. CASE batches[req[c].id] # NULL /\ batches[req[c].id].household = HouseholdOf[c]
    <3>1. batches' = [batches EXCEPT ![req[c].id] = NULL]
      BY <1>2, <2>1 DEF undoCreation
    <3> QED BY <1>1, <1>2, <3>1, RemoveKept DEF undoCreation
  <2>2. CASE ~(batches[req[c].id] # NULL /\ batches[req[c].id].household = HouseholdOf[c])
    <3>1. batches' = batches /\ UNCHANGED <<written, inc>>
      BY <1>1, <1>2, <2>2 DEF undoCreation, IInv, TypeOK
    <3> QED BY <1>1, <3>1 DEF IInv, TypeOK, TableIsLatest, HistoryOrdered, VersionNamesRow,
                              ImageOf, KeysExist, Agrees, NotAfter, HouseholdFixed
  <2> QED BY <2>1, <2>2
<1>3. ASSUME before # NULL
      PROVE  /\ before \in Row /\ before \in written /\ b \in BatchIds /\ b \in issued
             /\ before.household = HouseholdOf[c] /\ before.data \in Stored
             /\ Agrees(HouseholdOf[c], before.data)
             /\ batches[b] # NULL => batches[b].household = HouseholdOf[c]
             /\ \A r \in written : r.id = b => r.household = HouseholdOf[c]
  BY <1>1, <1>3 DEF UndoOK, ImageOf, Row, IInv, HistoryOrdered, TableIsLatest, HouseholdFixed
<1>4. CASE undoInsert(c)
  <2> DEFINE row == Reinserted(before, HouseholdOf[c], inc[b] + 1)
  <2>1. /\ before # NULL /\ KeysExist(before.data) /\ batches[b] = NULL /\ Put(row)
        /\ inc' = [inc EXCEPT ![b] = @ + 1]
    BY <1>4 DEF undoInsert
  <2>2. inc[b] + 1 \in Nat /\ HouseholdOf[c] \in Households
    BY <1>1, <1>3, <2>1
  <2>4. /\ row \in Row /\ row.id = b /\ row.household = HouseholdOf[c]
        /\ row.data = before.data /\ row.inc = inc[b] + 1
    BY <1>3, <2>1, <2>2, ReinsertedRow
  <2> HIDE DEF row
  <2>3. written \subseteq written'
    BY <2>1 DEF Put
  <2> QED BY <1>3, <2>1, <2>3, <2>4, InsertKept
<1>5. CASE undoOverwrite(c)
  <2> DEFINE old == batches[b]
             row == Rewrite(old, before.data)
  <2>1. /\ before # NULL /\ KeysExist(before.data) /\ old # NULL /\ Put(row)
        /\ UNCHANGED inc
    BY <1>5 DEF undoOverwrite
  <2>2. old \in Row /\ old.id = b /\ old.household = HouseholdOf[c]
    BY <1>3, <2>1 DEF IInv, TypeOK, TableIsLatest, ImageOf
  <2>3. /\ row \in Row /\ row.id = b /\ row.household = old.household
        /\ row.data = before.data /\ row.version = old.version + 1 /\ row.inc = old.inc
    BY <1>3, <2>1, <2>2, RewriteRow
  <2> HIDE DEF row
  <2>4. written \subseteq written'
    BY <2>1 DEF Put
  <2> QED BY <1>1, <1>3, <2>1, <2>2, <2>3, <2>4, OverwriteKept
<1> QED BY <1>2, <1>4, <1>5

LEMMA CommitUndoStep ==
    ASSUME IInv, NEW c \in Clients, commitUndo(c)
    PROVE  IInv'
<1>1. /\ batches' \in [BatchIds -> Row \cup {NULL}]
      /\ written \subseteq written' /\ written' \subseteq Row
      /\ inc' \in [BatchIds -> Nat]
      /\ TableIsLatest' /\ HistoryOrdered' /\ VersionNamesRow' /\ HouseholdFixed'
  BY UndoTable DEF commitUndo
<1>2. req[c].event \in DOMAIN events
  BY DEF commitUndo, Committing, Idle, IInv, RequestsOK, RequestOK, UndoOK
<1>3. /\ events' \in Seq(Event) /\ DOMAIN events' = DOMAIN events /\ EventsFromHistory'
  BY <1>1, <1>2, UndoneKept DEF commitUndo
<1>4. /\ RequestsOK' /\ CatalogIssued' /\ req' \in [Clients -> Request \cup {NULL}]
  BY <1>1, <1>3, OthersKept DEF commitUndo
<1>5. TypeOK'
  BY <1>1, <1>3, <1>4 DEF IInv, TypeOK, commitUndo
<1> QED BY <1>1, <1>3, <1>4, <1>5 DEF IInv

-----------------------------------------------------------------------------
LEMMA InitInvariant ==
    ASSUME Init PROVE IInv
  BY DEF Init, IInv, TypeOK, CatalogIssued, TableIsLatest, HistoryOrdered,
         EventsFromHistory, RequestsOK, VersionNamesRow, HouseholdFixed

LEMMA NextInvariant ==
    ASSUME IInv, [Next]_vars PROVE IInv'
<1>1. CASE UNCHANGED vars
  BY <1>1 DEF vars, IInv, TypeOK, CatalogIssued, TableIsLatest, HistoryOrdered,
         EventsFromHistory, RequestsOK, VersionNamesRow, HouseholdFixed, ImageOf, KeysExist, Agrees,
         NotAfter, RequestOK, CreateOK, ImagesOK, UndoOK
<1>2. CASE Next
  <2> SUFFICES ASSUME NEW c \in Clients, Catalog(c) \/ Handler(c) \/ Transaction(c)
               PROVE  IInv'
    BY <1>2 DEF Next
  <2>1. CASE Catalog(c)
    BY <2>1, CatalogSteps
  <2>2. CASE Handler(c)
    BY <2>2, CreateStep, UpdateStep, OpenStep, AdjustStep, DeleteStep, UndoStartStep,
       RereadStep, ValidateStep DEF Handler
  <2>3. CASE Transaction(c)
    BY <2>3, CommitCreateStep, CommitUpdateStep, CommitValueStep, CommitDeleteStep,
       CommitUndoStep, RefuseStep DEF Transaction
  <2> QED BY <2>1, <2>2, <2>3
<1> QED BY <1>1, <1>2

(* The inductive invariant holds in every reachable state.                 *)
THEOREM Invariant == Spec => []IInv
<1>1. Init => IInv
  BY InitInvariant
<1>2. IInv /\ [Next]_vars => IInv'
  BY NextInvariant
<1> QED BY <1>1, <1>2, PTL DEF Spec

(* The tables, the log and the running handlers always hold well-formed    *)
(* rows: a stored batch has a natural quantity or a level, never both.     *)
THEOREM TypeCorrect == Spec => []TypeOK
<1>1. IInv => TypeOK
  BY DEF IInv
<1> QED BY <1>1, Invariant, PTL

(* No interleaving of handlers, deletions and undos makes a batch refer to *)
(* another household's product or location, or to one that is gone.        *)
THEOREM Isolation == Spec => []HouseholdIsolation
<1>1. IInv => HouseholdIsolation
  BY InventoryAssumption DEF IInv, TypeOK, TableIsLatest, HistoryOrdered, HouseholdIsolation,
     ImageOf, KeysExist, Agrees, Row, Stored, Data
<1> QED BY <1>1, Invariant, PTL

(* Between two insertions of a batch, a version names one content.         *)
THEOREM VersionsName == Spec => []VersionNamesRow
<1>1. IInv => VersionNamesRow
  BY DEF IInv
<1> QED BY <1>1, Invariant, PTL

(* A versioned write that replaces a row has found its version there.      *)
LEMMA ReplaceMatches ==
    ASSUME IInv, Next, NEW c \in Clients, Replaces(c)
    PROVE  Matches(c) /\ Committing(c, req[c].op)
<1>1. PICK d \in Clients : Catalog(d) \/ Handler(d) \/ Transaction(d)
  BY DEF Next
<1>2. /\ req[c] # NULL /\ req[c].op \in {"update", "value", "delete"}
      /\ req[c].pc = "commit" /\ req'[c] = NULL /\ batches' # batches
      /\ req \in [Clients -> Request \cup {NULL}]
  BY DEF Replaces, Idle, IInv, TypeOK
<1>3. CASE Catalog(d)
  BY <1>2, <1>3 DEF Catalog, createProduct, updateProduct, deleteProduct, createLocation,
                    deleteLocation
<1>4. CASE Handler(d)
  BY <1>2, <1>4 DEF Handler, createBatch, updateBatch, openBatch, adjustBatch, deleteBatch,
                    undoEvent, rereadBatch, validateBatch, tables
<1>5. CASE Transaction(d)
  <2>1. Answer(d) /\ ~refuse(d)
    BY <1>2, <1>5 DEF Transaction, commitCreate, commitUpdate, commitValue, commitDelete,
                      commitUndo, refuse, tables
  <2>2. d = c
    BY <1>2, <2>1 DEF Answer
  <2> QED BY <1>2, <1>5, <2>1, <2>2 DEF Transaction, commitCreate, commitUpdate, commitValue,
                      commitDelete, commitUndo, Committing, Idle
<1> QED BY <1>1, <1>3, <1>4, <1>5

(* Optimistic locking works as long as the row is not inserted anew: what  *)
(* the client saw, what the handler computed from and what it logs are all *)
(* the row that is replaced.                                               *)
THEOREM OptimisticLocking == Spec => NoLostUpdate
<1>1. ASSUME IInv, Next, NEW c \in Clients, Replaces(c),
             req[c].basis.inc = batches[req[c].id].inc
      PROVE  /\ req[c].basis = batches[req[c].id]
             /\ req[c].read = batches[req[c].id]
             /\ req[c].before = batches[req[c].id]
  <2> DEFINE q == req[c]
             old == batches[q.id]
  <2>1. Matches(c) /\ Committing(c, q.op) /\ q.op \in {"update", "value", "delete"}
    BY <1>1, ReplaceMatches DEF Replaces
  <2>2. /\ q \in Request /\ ImagesOK(c) /\ q.pc = "commit" /\ q.id \in BatchIds
        /\ old \in Row /\ old # NULL /\ old.id = q.id /\ old \in written
        /\ old.version = q.version
    BY <1>1, <2>1, MatchedRow DEF Committing
  <2>3. /\ q.basis \in written /\ q.read \in written /\ q.before \in written
        /\ q.basis.id = q.id /\ q.read.id = q.id /\ q.before.id = q.id
        /\ q.basis.version = old.version
        /\ NotAfter(q.basis, q.read) /\ NotAfter(q.read, q.before)
    BY <2>2 DEF ImagesOK, ImageOf
  <2>4. /\ q.basis \in Row /\ q.read \in Row /\ q.before \in Row
        /\ NotAfter(q.before, old) /\ VersionNamesRow
    BY <1>1, <2>2, <2>3 DEF IInv, TypeOK, HistoryOrdered
  <2>5. /\ q.read.inc = old.inc /\ q.read.version = old.version
        /\ q.before.inc = old.inc /\ q.before.version = old.version
    BY <1>1, <2>2, <2>3, <2>4 DEF NotAfter, Row
  <2> QED BY <1>1, <2>2, <2>3, <2>4, <2>5 DEF VersionNamesRow
<1>2. IInv /\ [Next]_vars =>
        [\A c \in Clients : Replaces(c) =>
           LET old == batches[req[c].id] IN
           req[c].basis.inc = old.inc =>
              req[c].basis = old /\ req[c].read = old /\ req[c].before = old]_vars
  BY <1>1
<1> QED BY <1>2, Invariant, PTL DEF Spec, NoLostUpdate
=============================================================================
