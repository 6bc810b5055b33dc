------------------------------ MODULE Inventory ------------------------------
(***************************************************************************)
(* The inventory of internal/pantry/inventory_handlers.go: products,       *)
(* locations and batches of stock, the inventory_events log and its undo,  *)
(* as HTTP handlers that run concurrently over one SQLite database.        *)
(*                                                                         *)
(* A handler is a sequence of steps, one per SQL statement that runs       *)
(* outside a transaction; its transaction is one step, because its first   *)
(* statement takes SQLite's only write lock.  Whatever a handler has read  *)
(* it keeps in req[c] until its transaction, so other handlers may change  *)
(* the tables in between.                                                  *)
(***************************************************************************)
EXTENDS Integers, Sequences

CONSTANTS
    Clients,        \* the handler instances that may run at the same time
    Households,
    HouseholdOf,    \* the household of the actor behind each client
    Products, Locations, BatchIds,   \* ids newID may hand out
    Levels,         \* the stock levels validateBatch accepts
    Sent,           \* the bodies clients send, valid or not
    Deltas,         \* what clients add to a quantity
    MaxQuantity,    \* bound on the quantity adjustBatch may reach
    MaxEvents,      \* bound on the rows of inventory_events
    NULL            \* SQL's NULL, a missing row, an idle client

Modes == {"quantity", "level"}

(* The columns of a batch a client may write.  Notes, units and dates are  *)
(* left out, but for the date the batch was opened, if it was.              *)
Data(quantities) ==
    [product : Products, location : Locations, quantity : quantities \cup {NULL},
     level : Levels \cup {NULL}, opened_at : {NULL, "today"}]

(* What validateBatch lets into the table: a quantity or a level.          *)
Stored == {d \in Data(Nat) : (d.quantity = NULL) # (d.level = NULL)}

(* A row of batches.  "inc" is no column: it counts the insertions of the  *)
(* row's id, so that the row an undo inserts again can be told from the    *)
(* one that was deleted.                                                   *)
Row == [id : BatchIds, household : Households, data : Stored,
        version : Nat, inc : Nat]

Event == [household : Households, batch : BatchIds, before : Row \cup {NULL},
          undone : {0, 1}]

(* What a running handler holds: the body it will write (data), the        *)
(* version its WHERE clause asks for, the row it read first (read), the    *)
(* row it will log as the before-image (before), the row its client had on *)
(* screen (basis) and, for an undo, the event.                             *)
Request ==
    [op : {"create", "update", "value", "delete", "undo"},
     pc : {"reread", "validate", "commit"},
     id : BatchIds \cup {NULL}, data : Data(Int) \cup {NULL}, version : Nat,
     read : Row \cup {NULL}, before : Row \cup {NULL}, basis : Row \cup {NULL},
     event : Nat]

ASSUME InventoryAssumption ==
    /\ HouseholdOf \in [Clients -> Households]
    /\ Sent \subseteq Data(Int)
    /\ Deltas \subseteq Int /\ MaxQuantity \in Nat
    /\ MaxEvents \in Nat
    /\ NULL \notin Row /\ NULL \notin Request /\ NULL \notin Data(Int)
    /\ NULL \notin Levels /\ NULL \notin Int /\ NULL \notin BatchIds
    /\ NULL \notin Households /\ NULL \notin [household : Households, mode : Modes]

VARIABLES
    products,   \* products[p]: household and tracking_mode, or NULL
    locations,  \* locations[l]: household, or NULL
    batches,    \* batches[b]: a row, or NULL
    events,     \* inventory_events, oldest first
    issued,     \* ids newID has handed out: it reads the clock and never repeats
    req,        \* req[c]: the request c's handler is serving, or NULL
    inc,        \* inc[b]: how often b has been inserted (history)
    written     \* every row batches has ever held (history)

vars == <<products, locations, batches, events, issued, req, inc, written>>

TypeOK ==
    /\ products \in [Products -> [household : Households, mode : Modes] \cup {NULL}]
    /\ locations \in [Locations -> Households \cup {NULL}]
    /\ batches \in [BatchIds -> Row \cup {NULL}]
    /\ events \in Seq(Event)
    /\ issued \subseteq Products \cup Locations \cup BatchIds
    /\ req \in [Clients -> Request \cup {NULL}]
    /\ inc \in [BatchIds -> Nat]
    /\ written \subseteq Row

(* An empty database.                                                      *)
Init ==
    /\ products = [p \in Products |-> NULL]
    /\ locations = [l \in Locations |-> NULL]
    /\ batches = [b \in BatchIds |-> NULL]
    /\ events = << >>
    /\ issued = {}
    /\ req = [c \in Clients |-> NULL]
    /\ inc = [b \in BatchIds |-> 0]
    /\ written = {}

-----------------------------------------------------------------------------
(* Products and locations: every handler is one statement.                 *)

Idle(c) == req[c] = NULL

OwnProduct(c, p) == products[p] # NULL /\ products[p].household = HouseholdOf[c]
(* A faulty variant: a location that exists will do.                       *)
AnyLocation(c, l) == locations[l] # NULL

OwnLocation(c, l) == locations[l] # NULL /\ locations[l] = HouseholdOf[c]

createProduct(c) ==
    /\ Idle(c)
    /\ \E p \in Products \ issued, m \in Modes :
        /\ products' = [products EXCEPT ![p] = [household |-> HouseholdOf[c], mode |-> m]]
        /\ issued' = issued \cup {p}
    /\ UNCHANGED <<locations, batches, events, req, inc, written>>

(* The tracking mode may change under batches that exist already.          *)
updateProduct(c) ==
    /\ Idle(c)
    /\ \E p \in Products, m \in Modes :
        /\ OwnProduct(c, p)
        /\ products' = [products EXCEPT ![p].mode = m]
    /\ UNCHANGED <<locations, batches, events, issued, req, inc, written>>

(* ON DELETE CASCADE takes the product's batches; no event records them.   *)
Cascade(p) ==
    [b \in BatchIds |->
        IF batches[b] # NULL /\ batches[b].data.product = p THEN NULL ELSE batches[b]]

deleteProduct(c) ==
    /\ Idle(c)
    /\ \E p \in Products :
        /\ OwnProduct(c, p)
        /\ products' = [products EXCEPT ![p] = NULL]
        /\ batches' = Cascade(p)
    /\ UNCHANGED <<locations, events, issued, req, inc, written>>

createLocation(c) ==
    /\ Idle(c)
    /\ \E l \in Locations \ issued :
        /\ locations' = [locations EXCEPT ![l] = HouseholdOf[c]]
        /\ issued' = issued \cup {l}
    /\ UNCHANGED <<products, batches, events, req, inc, written>>

(* Refused with 409 by the foreign key of any batch that is kept there.    *)
deleteLocation(c) ==
    /\ Idle(c)
    /\ \E l \in Locations :
        /\ OwnLocation(c, l)
        /\ \A b \in BatchIds : batches[b] # NULL => batches[b].data.location # l
        /\ locations' = [locations EXCEPT ![l] = NULL]
    /\ UNCHANGED <<products, batches, events, issued, req, inc, written>>

-----------------------------------------------------------------------------
(* What the handlers of batches share.                                     *)

tables == <<products, locations, batches, events, issued, inc, written>>

(* The handler goes on with request r, or answers it.                      *)
Serve(c, r) == req' = [req EXCEPT ![c] = r]
Answer(c) == req' = [req EXCEPT ![c] = NULL]

(* getBatch: the row of the actor's household, or 404.                     *)
getBatch(c, b) ==
    IF batches[b] # NULL /\ batches[b].household = HouseholdOf[c] THEN batches[b] ELSE NULL

(* The rows a client of c's household may have on screen: listBatches once *)
(* answered with them, however long ago.                                   *)
Served(c, b) == {r \in written : r.id = b /\ r.household = HouseholdOf[c]}

Valid(c, d) ==
    /\ OwnProduct(c, d.product)
    /\ OwnLocation(c, d.location)
    /\ IF products[d.product].mode = "quantity"
         THEN d.quantity # NULL /\ d.quantity >= 0
         ELSE d.level # NULL

(* A faulty variant: the measure that does not apply is kept.              *)
AsSent(d) == d

Normal(d) ==
    IF products[d.product].mode = "quantity"
      THEN [d EXCEPT !.level = NULL] ELSE [d EXCEPT !.quantity = NULL]

(* validateBatch reads the product and counts the location; ids are never  *)
(* reissued, so the two reads are one step.                                *)
validateBatch(c) ==
    /\ ~Idle(c) /\ req[c].pc = "validate"
    /\ IF Valid(c, req[c].data)
         THEN Serve(c, [req[c] EXCEPT !.pc = "commit", !.data = Normal(req[c].data)])
         ELSE Answer(c)
    /\ UNCHANGED tables

(* The foreign keys of a row, which no statement checks for households.    *)
KeysExist(d) == products[d.product] # NULL /\ locations[d.location] # NULL

Put(row) ==
    /\ batches' = [batches EXCEPT ![row.id] = row]
    /\ written' = written \cup {row}

Room == Len(events) < MaxEvents   \* bound

(* SET ..., version=version+1.                                             *)
Rewrite(row, d) == [row EXCEPT !.data = d, !.version = row.version + 1]

recordEvent(c, b, before) ==
    /\ Room
    /\ events' = Append(events, [household |-> HouseholdOf[c], batch |-> b,
                                 before |-> before, undone |-> 0])

Committing(c, op) == ~Idle(c) /\ req[c].pc = "commit" /\ req[c].op = op

(* A faulty variant: the version is not compared.                          *)
MatchesId(c) ==
    batches[req[c].id] # NULL /\ batches[req[c].id].household = HouseholdOf[c]

(* WHERE id=? AND household_id=? AND version=?                             *)
Matches(c) ==
    LET row == batches[req[c].id] IN
    /\ row # NULL
    /\ row.household = HouseholdOf[c]
    /\ row.version = req[c].version

(* The transaction writes nothing: no row matched (409), a foreign key     *)
(* failed (400, 409 or 500), or the write lock was busy for too long (500).*)
refuse(c) ==
    /\ ~Idle(c) /\ req[c].pc = "commit"
    /\ Answer(c)
    /\ UNCHANGED tables

-----------------------------------------------------------------------------
(* createBatch.                                                            *)

createBatch(c) ==
    /\ Idle(c) /\ Room
    /\ BatchIds \ issued # {}   \* bound
    /\ \E d \in Sent :
        Serve(c, [op |-> "create", pc |-> "validate", id |-> NULL, data |-> d,
                  version |-> 1, read |-> NULL, before |-> NULL, basis |-> NULL,
                  event |-> 0])
    /\ UNCHANGED tables

commitCreate(c) ==
    /\ Committing(c, "create")
    /\ KeysExist(req[c].data)
    /\ \E b \in BatchIds \ issued :
        /\ Put([id |-> b, household |-> HouseholdOf[c], data |-> req[c].data,
                version |-> 1, inc |-> inc[b] + 1])
        /\ inc' = [inc EXCEPT ![b] = @ + 1]
        /\ issued' = issued \cup {b}
        /\ recordEvent(c, b, NULL)
    /\ Answer(c)
    /\ UNCHANGED <<products, locations>>

-----------------------------------------------------------------------------
(* updateBatch.  A client sends back the version it was shown, or 0, which *)
(* stands for the version the handler itself has just read.                *)

updateBatch(c) ==
    /\ Idle(c) /\ Room
    /\ \E b \in BatchIds, d \in Sent :
        LET before == getBatch(c, b) IN
        /\ before # NULL
        /\ \E basis \in Served(c, b) \cup {before} :
            Serve(c, [op |-> "update", pc |-> "validate", id |-> b, data |-> d,
                      version |-> basis.version, read |-> before,
                      before |-> before, basis |-> basis, event |-> 0])
    /\ UNCHANGED tables

commitUpdate(c) ==
    /\ Committing(c, "update")
    /\ Matches(c)
    /\ KeysExist(req[c].data)
    /\ Put(Rewrite(batches[req[c].id], req[c].data))
    /\ recordEvent(c, req[c].id, req[c].before)
    /\ Answer(c)
    /\ UNCHANGED <<products, locations, issued, inc>>

-----------------------------------------------------------------------------
(* openBatch and adjustBatch compute a value from the row they read, then  *)
(* updateBatchValue reads the row again for the log before it validates.   *)

(* b with a delta added to its quantity, never below zero, or else with a  *)
(* level; the empty set when the body has nothing that applies.            *)
Adjusted(d, delta, level) ==
    IF d.quantity # NULL /\ delta # NULL
      THEN {[d EXCEPT !.quantity = IF d.quantity + delta < 0 THEN 0 ELSE d.quantity + delta]}
      ELSE IF level # NULL THEN {[d EXCEPT !.level = level]} ELSE {}

ServeValue(c, read, basis, d) ==
    Serve(c, [op |-> "value", pc |-> "reread", id |-> read.id, data |-> d,
              version |-> basis.version, read |-> read, before |-> NULL,
              basis |-> basis, event |-> 0])

openBatch(c) ==
    /\ Idle(c) /\ Room
    /\ \E b \in BatchIds :
        LET read == getBatch(c, b) IN
        /\ read # NULL
        /\ ServeValue(c, read, read, [read.data EXCEPT !.opened_at = "today"])
    /\ UNCHANGED tables

adjustBatch(c) ==
    /\ Idle(c) /\ Room
    /\ \E b \in BatchIds, delta \in Deltas \cup {NULL}, level \in Levels \cup {NULL} :
        LET read == getBatch(c, b) IN
        /\ read # NULL
        /\ \E basis \in Served(c, b) \cup {read}, d \in Adjusted(read.data, delta, level) :
            /\ d.quantity # NULL => d.quantity <= MaxQuantity   \* bound
            /\ ServeValue(c, read, basis, d)
    /\ UNCHANGED tables

rereadBatch(c) ==
    /\ ~Idle(c) /\ req[c].pc = "reread"
    /\ LET before == getBatch(c, req[c].id) IN
        IF before # NULL
          THEN Serve(c, [req[c] EXCEPT !.pc = "validate", !.before = before])
          ELSE Answer(c)
    /\ UNCHANGED tables

(* Only quantity, level and opened_at are written.                         *)
Measured(d, new) ==
    [d EXCEPT !.quantity = new.quantity, !.level = new.level, !.opened_at = new.opened_at]

commitValue(c) ==
    /\ Committing(c, "value")
    /\ Matches(c)
    /\ LET old == batches[req[c].id] IN
         Put(Rewrite(old, Measured(old.data, req[c].data)))
    /\ recordEvent(c, req[c].id, req[c].before)
    /\ Answer(c)
    /\ UNCHANGED <<products, locations, issued, inc>>

-----------------------------------------------------------------------------
(* deleteBatch.                                                            *)

deleteBatch(c) ==
    /\ Idle(c) /\ Room
    /\ \E b \in BatchIds :
        LET before == getBatch(c, b) IN
        /\ before # NULL
        /\ \E basis \in Served(c, b) \cup {before} :
            Serve(c, [op |-> "delete", pc |-> "commit", id |-> b, data |-> NULL,
                      version |-> basis.version, read |-> before,
                      before |-> before, basis |-> basis, event |-> 0])
    /\ UNCHANGED tables

commitDelete(c) ==
    /\ Committing(c, "delete")
    /\ Matches(c)
    /\ batches' = [batches EXCEPT ![req[c].id] = NULL]
    /\ recordEvent(c, req[c].id, req[c].before)
    /\ Answer(c)
    /\ UNCHANGED <<products, locations, issued, inc, written>>

-----------------------------------------------------------------------------
(* undoEvent.  Any event of the household was the dashboard's recent_event *)
(* at some time, and a page may have shown it ever since.  The undone flag *)
(* is read outside the transaction.                                        *)

undoEvent(c) ==
    /\ Idle(c)
    /\ \E e \in DOMAIN events :
        /\ events[e].household = HouseholdOf[c]
        /\ events[e].undone = 0
        /\ Serve(c, [op |-> "undo", pc |-> "commit", id |-> events[e].batch,
                     data |-> NULL, version |-> 0, read |-> NULL,
                     before |-> events[e].before, basis |-> NULL, event |-> e])
    /\ UNCHANGED tables

(* The event had no before-image, a creation: DELETE, whatever the version.*)
undoCreation(c) ==
    LET b == req[c].id IN
    /\ req[c].before = NULL
    /\ batches' = [batches EXCEPT ![b] =
                     IF @ # NULL /\ @.household = HouseholdOf[c] THEN NULL ELSE @]
    /\ UNCHANGED <<written, inc>>

(* INSERT of the before-image, with its own version.                       *)
Reinserted(row, h, n) == [row EXCEPT !.household = h, !.inc = n]

undoInsert(c) ==
    LET before == req[c].before IN
    /\ before # NULL
    /\ KeysExist(before.data)
    /\ batches[before.id] = NULL
    /\ Put(Reinserted(before, HouseholdOf[c], inc[before.id] + 1))
    /\ inc' = [inc EXCEPT ![before.id] = @ + 1]

(* A faulty variant: the before-image's version returns with its columns.  *)
undoToVersion(c) ==
    LET before == req[c].before IN
    /\ before # NULL
    /\ KeysExist(before.data)
    /\ batches[before.id] # NULL
    /\ Put([batches[before.id] EXCEPT !.data = before.data, !.version = before.version])
    /\ UNCHANGED inc

(* ON CONFLICT(id) DO UPDATE: the columns return, the version moves on.    *)
undoOverwrite(c) ==
    LET before == req[c].before IN
    /\ before # NULL
    /\ KeysExist(before.data)
    /\ batches[before.id] # NULL
    /\ Put(Rewrite(batches[before.id], before.data))
    /\ UNCHANGED inc

commitUndo(c) ==
    /\ Committing(c, "undo")
    /\ undoCreation(c) \/ undoInsert(c) \/ undoOverwrite(c)
    /\ events' = [events EXCEPT ![req[c].event].undone = 1]
    /\ Answer(c)
    /\ UNCHANGED <<products, locations, issued>>

-----------------------------------------------------------------------------
Catalog(c) ==
    \/ createProduct(c) \/ updateProduct(c) \/ deleteProduct(c)
    \/ createLocation(c) \/ deleteLocation(c)

Handler(c) ==
    \/ createBatch(c) \/ updateBatch(c) \/ openBatch(c) \/ adjustBatch(c)
    \/ deleteBatch(c) \/ undoEvent(c)
    \/ rereadBatch(c) \/ validateBatch(c)

Transaction(c) ==
    \/ commitCreate(c) \/ commitUpdate(c) \/ commitValue(c) \/ commitDelete(c)
    \/ commitUndo(c) \/ refuse(c)

Next == \E c \in Clients : Catalog(c) \/ Handler(c) \/ Transaction(c)

Spec == Init /\ [][Next]_vars

-----------------------------------------------------------------------------
(* The inductive invariant behind the theorems of InventoryProofs.         *)

(* Ids are never reissued, so a product or a location that was of          *)
(* household h when d was validated is still of h, or gone for good.       *)
Agrees(h, d) ==
    /\ d.product \in issued
    /\ d.location \in issued
    /\ products[d.product] # NULL => products[d.product].household = h
    /\ locations[d.location] # NULL => locations[d.location] = h

(* r was in the table before s, or is s.                                   *)
NotAfter(r, s) == r.inc < s.inc \/ (r.inc = s.inc /\ r.version <= s.version)

(* r is a row that batch b really had.                                     *)
ImageOf(r, b) == r \in written /\ r.id = b

CatalogIssued ==
    /\ \A p \in Products : products[p] # NULL => p \in issued
    /\ \A l \in Locations : locations[l] # NULL => l \in issued

TableIsLatest ==
    \A b \in BatchIds : batches[b] # NULL =>
        /\ ImageOf(batches[b], b)
        /\ batches[b].inc = inc[b]
        /\ KeysExist(batches[b].data)

HistoryOrdered ==
    \A r \in written :
        /\ r.id \in issued
        /\ Agrees(r.household, r.data)
        /\ r.inc <= inc[r.id]
        /\ batches[r.id] # NULL => NotAfter(r, batches[r.id])

HouseholdFixed == \A r, s \in written : r.id = s.id => r.household = s.household

EventsFromHistory ==
    \A e \in DOMAIN events : events[e].before # NULL =>
        /\ ImageOf(events[e].before, events[e].batch)
        /\ events[e].before.household = events[e].household

CreateOK(c) ==
    /\ req[c].data # NULL
    /\ req[c].pc = "commit" =>
         req[c].data \in Stored /\ Agrees(HouseholdOf[c], req[c].data)

ImagesOK(c) ==
    LET q == req[c] IN
    /\ q.id # NULL
    /\ ImageOf(q.basis, q.id) /\ ImageOf(q.read, q.id)
    /\ q.version = q.basis.version
    /\ NotAfter(q.basis, q.read)
    /\ q.read.household = HouseholdOf[c]
    /\ q.pc # "reread" =>
         /\ ImageOf(q.before, q.id)
         /\ NotAfter(q.read, q.before)
         /\ q.before.household = HouseholdOf[c]

UndoOK(c) ==
    LET q == req[c] IN
    /\ q.pc = "commit"
    /\ q.id # NULL
    /\ q.event \in DOMAIN events
    /\ q.before # NULL => ImageOf(q.before, q.id) /\ q.before.household = HouseholdOf[c]

RequestOK(c) ==
    /\ req[c].pc = "reread" => req[c].op = "value"
    /\ req[c].op \in {"create", "update"} => CreateOK(c)
    /\ req[c].op = "value" =>
         req[c].data # NULL /\ (req[c].pc = "commit" => req[c].data \in Stored)
    /\ req[c].op \in {"update", "value", "delete"} => ImagesOK(c)
    /\ req[c].op = "delete" => req[c].pc = "commit"
    /\ req[c].op = "undo" => UndoOK(c)

RequestsOK == \A c \in Clients : req[c] # NULL => RequestOK(c)

-----------------------------------------------------------------------------
(* Every batch in the table refers to a product and to a location of its   *)
(* own household.  The foreign keys only ask that the ids exist; the       *)
(* household was compared earlier by validateBatch, or long ago when an    *)
(* undone event's before-image was first stored.                           *)
HouseholdIsolation ==
    \A b \in BatchIds : batches[b] # NULL =>
        LET d == batches[b].data IN
        /\ products[d.product] # NULL
        /\ products[d.product].household = batches[b].household
        /\ locations[d.location] = batches[b].household

(* As long as a batch has not been inserted again by an undo, a version    *)
(* number names one content of its row: version=version+1 is in every      *)
(* UPDATE, those of undo included.                                         *)
VersionNamesRow ==
    \A r, s \in written :
        r.id = s.id /\ r.inc = s.inc /\ r.version = s.version => r = s

(* The step in which c's versioned write replaces or deletes a row.        *)
Replaces(c) ==
    /\ ~Idle(c) /\ req[c].op \in {"update", "value", "delete"}
    /\ req[c].pc = "commit" /\ req'[c] = NULL
    /\ batches' # batches

(* Optimistic locking: the row a write replaces is the row its client was  *)
(* looking at, the row its new value was computed from and the row the     *)
(* event log keeps as its before-image, although these were read in three  *)
(* separate steps and the client may have sent a version of its own.       *)
NoLostUpdate ==
    [][\A c \in Clients : Replaces(c) =>
         LET old == batches[req[c].id] IN
         req[c].basis.inc = old.inc =>
            req[c].basis = old /\ req[c].read = old /\ req[c].before = old]_vars


IInv ==
    /\ TypeOK /\ CatalogIssued /\ TableIsLatest /\ HistoryOrdered
    /\ HouseholdFixed /\ EventsFromHistory /\ RequestsOK /\ VersionNamesRow
=============================================================================
