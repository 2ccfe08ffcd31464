--------------------------- MODULE FloorSessions ---------------------------
(***************************************************************************)
(* Bundles on the production floor (src/app/mes/services.py), shipments    *)
(* (src/app/shipping/services.py) and the finished goods a departure takes *)
(* out of the store (fg_move of src/app/warehouse/services.py), worked on  *)
(* by several people at once, statement by statement on PostgreSQL.        *)
(*                                                                         *)
(* A departure is committed first and taken out of the store afterwards,   *)
(* line by line, each line a transaction of its own: the process may stop  *)
(* in between, and a line the store cannot cover is refused and logged.    *)
(*                                                                         *)
(* Together names the pairs of functions an instance lets overlap on one   *)
(* bundle, on one shipment, or at the store; elsewhere all may overlap.    *)
(***************************************************************************)
EXTENDS ReadCommitted, Integers, FiniteSets, Functions

CONSTANTS
    Bundles, Shipments, Cartons,    \* rows
    Store,                          \* the wh_fg row of the one article
    Sections, Last,                 \* SECTIONS, and where a bundle is complete
    Cut,                            \* pieces of a bundle
    CartonSizes, MaxPacked,         \* pieces of a packing-list line; bound on what is packed
    Prices,
    MaxRows, MaxScans,              \* bounds: bundles and shipments created, scans of a bundle
    Together                        \* sets of functions that may overlap on a row

VARIABLES
    job,            \* job[s]: the function session s executes
    moves,          \* mes_bundle_moves in sum: what stands in each section, and how many scans
    books           \* books[h]: what leaving the store came to

vars == <<db, mine, job, moves, books>>

ASSUME FloorAssumption ==
    /\ Last \in Sections /\ Cut \in Nat \ {0} /\ CartonSizes \subseteq Nat \ {0}
    /\ MaxPacked \in Nat /\ MaxRows \in Nat /\ MaxScans \in Nat
    /\ IsFiniteSet(Sections) /\ IsFiniteSet(Cartons) /\ Prices # {}
    /\ Bundles \cap Shipments = {} /\ Cartons \cap (Bundles \cup Shipments) = {}
    /\ {Store, "none"} \cap (Bundles \cup Shipments \cup Cartons) = {}

SHIPPED_STATUS == {"dispatched", "delivered"}
LOCKED_STATUS == SHIPPED_STATUS \cup {"cancelled"}
CREATE_STATUS == {"planned", "packed"}
SHIPMENT_STATUS == CREATE_STATUS \cup LOCKED_STATUS

NoDocument == [status |-> "none"]
Gone == [on |-> "none", pieces |-> 0]
Idle == [op |-> "idle", pc |-> "idle", row |-> "none", set |-> NoRows, carton |-> "none",
         scan |-> NoRows, lines |-> {}]

Init ==
    /\ db = [r \in Bundles \cup Shipments \cup Cartons \cup {Store} |->
                IF r = Store THEN [packed |-> 0, shipped |-> 0]
                ELSE IF r \in Cartons THEN Gone ELSE NoDocument]
    /\ mine = [s \in Sessions |-> NoRows]
    /\ job = [s \in Sessions |-> Idle]
    /\ moves = [b \in Bundles |-> [stands |-> [x \in Sections |-> 0], scans |-> 0]]
    /\ books = [h \in Shipments |-> [posted |-> 0, refused |-> 0, cut |-> FALSE]]

Goto(s, pc) == job' = [job EXCEPT ![s].pc = pc]
Quit(s) == job' = [job EXCEPT ![s] = Idle]
At(s, ops, pc) == job[s].op \in ops /\ job[s].pc = pc

\* The functions, and the pairs of them that harm each other when they overlap.
Ops == {"scan", "scrap", "restore", "depart", "mark", "void", "follow", "edit",
        "reprice", "add", "drop", "post"}
Harmful ==
    {{"scan"}, {"scan", "scrap"}, {"scan", "restore"}, {"void", "follow"}, {"void", "edit"},
     {"depart", "post"}}
    \cup {{"depart", f} : f \in {"depart", "mark", "void", "edit", "reprice", "add", "drop"}}

\* Functions that meet at the store, whatever shipment they are about.
TakesGoods == {"depart", "post"}

Job(op, pc, row) == [Idle EXCEPT !.op = op, !.pc = pc, !.row = row]

Begin(s, j) ==
    /\ job[s] = Idle
    /\ \A t \in Sessions \ {s} :
         job[t].row = j.row \/ {j.op, job[t].op} \subseteq TakesGoods
             => {j.op, job[t].op} \in Together
    /\ job' = [job EXCEPT ![s] = j]
    /\ Read /\ UNCHANGED <<moves, books>>

\* create_bundle, create_shipment: one transaction nobody else can see into.
Create(d, row) ==
    /\ db[d].status = "none"
    /\ Cardinality({e \in Bundles \cup Shipments : db[e].status # "none"}) < MaxRows
    /\ db' = [db EXCEPT ![d] = row]
    /\ UNCHANGED <<mine, job, books>>

(***************************************************************************)
(* Bundles.                                                                *)
(***************************************************************************)
create_bundle(b, origin) ==
    /\ Create(b, [status |-> "created", section |-> origin])
    /\ moves' = [moves EXCEPT ![b].stands[origin] = Cut]

\* Mutant: a scan may take what was cut, whatever still stands there.
_section_qty_cut(b, x) == Cut

_section_qty(b, x) == moves[b].stands[x]

\* The ledger once a scan is inserted.
LedgerWith(b, scan) ==
    [stands |-> [x \in Sections |-> moves[b].stands[x] + IF x = scan.to THEN scan.qty
                                                        ELSE IF x = scan.from THEN -scan.qty ELSE 0],
     scans |-> moves[b].scans + 1]

_ledger_status(ledger) ==
    IF ledger.stands[Last] >= Cut THEN "completed"
    ELSE IF ledger.scans > 0 THEN "in_progress" ELSE "created"

\* UPDATE mes_bundles: the status the ledger implies with this scan in it.
StatusAfter(b, scan) == _ledger_status(LedgerWith(b, scan))

Scannable(s, b) == Seen(s, b).status \notin {"none", "rejected"}

\* move_bundle
BeginScan(s, b, from, to, qty) ==
    /\ Scannable(s, b) /\ from # to /\ qty <= _section_qty(b, from)
    /\ moves[b].scans < MaxScans
    /\ Begin(s, [Job("scan", "insert", b) EXCEPT !.scan = [from |-> from, to |-> to, qty |-> qty]])

\* INSERT INTO mes_bundle_moves, then the status the ledger implies.
InsertScan(s) ==
    LET j == job[s]
    IN  /\ At(s, {"scan"}, "insert")
        /\ job' = [job EXCEPT ![s].pc = "put",
                              ![s].set = [section |-> j.scan.to,
                                          status |-> StatusAfter(j.row, j.scan)]]
        /\ Read /\ UNCHANGED <<moves, books>>

\* set_bundle_status: scrapping, and back to what the scans say.
BeginScrap(s, b) ==
    /\ Seen(s, b).status # "none"
    /\ Begin(s, [Job("scrap", "put", b) EXCEPT !.set = [status |-> "rejected"]])

BeginRestore(s, b) ==
    /\ Seen(s, b).status = "rejected"
    /\ Begin(s, [Job("restore", "put", b) EXCEPT !.set = [status |-> _ledger_status(moves[b])]])

(***************************************************************************)
(* Shipments: what update_shipment reads, refuses and writes.              *)
(***************************************************************************)
create_shipment(h, status, ordered) ==
    /\ Create(h, [status |-> status, stamp |-> FALSE, price |-> CHOOSE p \in Prices : TRUE,
                  ordered |-> ordered])
    /\ UNCHANGED moves

\* A row of the seed or of an import: gone, and without a departure stamp.
SeedShipment(h) ==
    /\ Create(h, [status |-> "dispatched", stamp |-> FALSE, price |-> CHOOSE p \in Prices : TRUE,
                  ordered |-> TRUE])
    /\ UNCHANGED moves

EverLeft(row) == row.status \in SHIPPED_STATUS \/ row.stamp

\* What the status field of the form may become; otherwise it is refused.
StatusOpen(row, v) ==
    /\ ~(row.status = "cancelled" /\ v \in SHIPPED_STATUS)
    /\ v \in LOCKED_STATUS \/ ~EverLeft(row)

\* Mutant: a second departure is stamped again.
StampsAgain(row, v) == v \in SHIPPED_STATUS \/ EverLeft(row)

Stamps(row, v) == (v \in SHIPPED_STATUS \/ EverLeft(row)) /\ ~row.stamp

PriceOpen(row) == row.status \notin LOCKED_STATUS /\ ~EverLeft(row)

\* The columns the UPDATE sets: a refused field is left out, the others go through, and a
\* status the form repeats ("keep": it has none) is written as it was read.
Columns(row, v, price) ==
    LET moved == v \notin {row.status, "keep"} /\ StatusOpen(row, v)
        sets(c) == CASE c = "status" -> moved \/ v = row.status
                     [] c = "stamp" -> moved /\ Stamps(row, v)
                     [] c = "price" -> price # row.price /\ PriceOpen(row)
    IN  [c \in {c \in {"status", "stamp", "price"} : sets(c)} |->
            CASE c = "status" -> v [] c = "stamp" -> TRUE [] c = "price" -> price]

\* What an update amounts to.
UpdateOp(row, set) ==
    IF "stamp" \in DOMAIN set THEN "depart"
    ELSE IF "status" \notin DOMAIN set THEN "reprice"
    ELSE IF set.status = row.status THEN "edit"
    ELSE IF set.status \in CREATE_STATUS THEN "mark"
    ELSE IF set.status = "cancelled" THEN "void" ELSE "follow"

BeginUpdate(s, h, v, price) ==
    LET row == Seen(s, h)
        set == Columns(row, v, price)
    IN  /\ row.status # "none" /\ DOMAIN set # {}
        /\ Begin(s, [Job(UpdateOp(row, set), "put", h) EXCEPT !.set = set])

\* Mutant: the packing list of a cancelled shipment may be edited.
ListOpenOnceVoid(s, h) == Seen(s, h).status \in CREATE_STATUS \cup {"cancelled"}

ListOpen(s, h) == Seen(s, h).status \notin LOCKED_STATUS \cup {"none"}

\* add_carton and delete_carton: the status is read, the line is written.
BeginAddCarton(s, h, k, pieces) ==
    /\ ListOpen(s, h)
    /\ Seen(s, k) = Gone /\ Free(s, k) /\ \A t \in Sessions : job[t].carton # k
    /\ Begin(s, [Job("add", "carton", h) EXCEPT !.carton = k, !.set = [on |-> h, pieces |-> pieces]])

BeginDeleteCarton(s, k) ==
    LET h == Seen(s, k).on
    IN  /\ Seen(s, k) # Gone /\ ListOpen(s, h)
        /\ Begin(s, [Job("drop", "carton", h) EXCEPT !.carton = k, !.set = Gone])

(***************************************************************************)
(* The statements that follow.                                             *)
(***************************************************************************)
PutRow(s) ==
    /\ At(s, {"scan", "scrap", "restore", "depart", "mark", "void", "follow", "edit", "reprice"}, "put")
    /\ Write(s, job[s].row, Over(job[s].set, Seen(s, job[s].row)))
    /\ Goto(s, "commit")
    /\ UNCHANGED <<moves, books>>

PutCarton(s) ==
    /\ At(s, {"add", "drop"}, "carton")
    /\ Write(s, job[s].carton, job[s].set)
    /\ Goto(s, "commit")
    /\ UNCHANGED <<moves, books>>

\* Mutant: the store is never told.
AfterCommitNothing(j) == Idle

\* Only a departure has something left to do: _post_shipped_to_fg.
AfterCommit(j) ==
    IF j.op = "depart" THEN Job("post", "list", j.row) ELSE Idle

CommitJob(s) ==
    LET j == job[s]
    IN  /\ j.pc = "commit"
        /\ Commit(s)
        /\ moves' = IF j.op = "scan" THEN [moves EXCEPT ![j.row] = LedgerWith(j.row, j.scan)] ELSE moves
        /\ job' = [job EXCEPT ![s] = AfterCommit(j)]
        /\ UNCHANGED books

ReadLines(s) ==
    LET h == job[s].row
    IN  /\ At(s, {"post"}, "list")
        /\ job' = [job EXCEPT ![s].pc = "line",
                              ![s].lines = IF Seen(s, h).ordered THEN {k \in Cartons : db[k].on = h} ELSE {}]
        /\ Read /\ UNCHANGED <<moves, books>>

OnHand(k) == db[Store].packed - db[Store].shipped >= db[k].pieces

AfterRefusal(lines, k) == lines \ {k}

\* fg_move with action "ship", for one line: what it reads, and what it writes.
CheckLine(s, k) ==
    /\ At(s, {"post"}, "line") /\ k \in job[s].lines
    /\ job' = [job EXCEPT ![s].pc = IF OnHand(k) THEN "ship" ELSE "line",
                          ![s].carton = IF OnHand(k) THEN k ELSE "none",
                          ![s].lines = IF OnHand(k) THEN @ ELSE AfterRefusal(@, k)]
    /\ books' = [books EXCEPT ![job[s].row].refused = @ + IF OnHand(k) THEN 0 ELSE db[k].pieces]
    /\ Read /\ UNCHANGED moves

ShipLine(s) ==
    LET k == job[s].carton
    IN  /\ At(s, {"post"}, "ship") /\ Free(s, Store)
        /\ db' = [db EXCEPT ![Store].shipped = @ + db[k].pieces]
        /\ books' = [books EXCEPT ![job[s].row].posted = @ + db[k].pieces]
        /\ job' = [job EXCEPT ![s].pc = "line", ![s].carton = "none", ![s].lines = @ \ {k}]
        /\ UNCHANGED <<mine, moves>>

EndPosting(s) ==
    /\ At(s, {"post"}, "line") /\ job[s].lines = {}
    /\ Quit(s) /\ Read /\ UNCHANGED <<moves, books>>

\* fg_move with action "pack": a relative update, committed at once.
Pack(pieces) ==
    /\ db[Store].packed + pieces <= MaxPacked
    /\ db' = [db EXCEPT ![Store].packed = @ + pieces]
    /\ UNCHANGED <<mine, job, moves, books>>

\* The worker stops, or gives up waiting for a lock: what is not committed is lost.
Stop(s) ==
    LET j == job[s]
    IN  /\ j # Idle
        /\ Rollback(s) /\ Quit(s)
        /\ books' = IF j.op = "post" THEN [books EXCEPT ![j.row].cut = TRUE] ELSE books
        /\ UNCHANGED moves

LockTimeout(s) ==
    /\ \/ job[s].pc = "put" /\ ~Free(s, job[s].row)
       \/ job[s].pc = "carton" /\ ~Free(s, job[s].carton)
    /\ Stop(s)

Work(s) ==
    \/ InsertScan(s) \/ PutRow(s) \/ PutCarton(s) \/ CommitJob(s)
    \/ ReadLines(s) \/ (\E k \in Cartons : CheckLine(s, k)) \/ ShipLine(s) \/ EndPosting(s)
    \/ LockTimeout(s)

Start(s) ==
    \/ \E b \in Bundles :
         \/ \E from, to \in Sections, qty \in 1 .. Cut : BeginScan(s, b, from, to, qty)
         \/ BeginScrap(s, b) \/ BeginRestore(s, b)
    \/ \E h \in Shipments :
         \/ \E v \in SHIPMENT_STATUS \cup {"keep"}, p \in Prices : BeginUpdate(s, h, v, p)
         \/ \E k \in Cartons, n \in CartonSizes : BeginAddCarton(s, h, k, n)
    \/ \E k \in Cartons : BeginDeleteCarton(s, k)

Next ==
    \/ \E b \in Bundles, x \in Sections : create_bundle(b, x)
    \/ \E h \in Shipments :
         \/ \E v \in CREATE_STATUS, o \in BOOLEAN : create_shipment(h, v, o)
         \/ SeedShipment(h)
    \/ \E n \in CartonSizes : Pack(n)
    \/ \E s \in Sessions : Start(s) \/ Work(s) \/ Stop(s)

\* A thread executes its statements until its request is answered or it stops.
Spec == Init /\ [][Next]_vars /\ \A s \in Sessions : WF_vars(Work(s))

(***************************************************************************)
(* Properties.                                                             *)
(***************************************************************************)
Made(d) == db[d].status # "none"
Left(h) == Made(h) /\ EverLeft(db[h])
Stamped(h) == Made(h) /\ db[h].stamp
PackingList(h) == {k \in Cartons : db[k].on = h}
Packed(ks) == SumFunctionOnSet([k \in ks |-> db[k].pieces], ks)
Pieces(h) == Packed(PackingList(h))
Posting(h) == \E s \in Sessions : job[s].op = "post" /\ job[s].row = h
Reckoned(h) == books[h].posted + books[h].refused = IF Made(h) /\ db[h].ordered THEN Pieces(h) ELSE 0

\* Rows have the values their columns may have.
TypeOK ==
    /\ \A b \in Bundles : db[b].status \in {"none", "created", "in_progress", "completed", "rejected"}
    /\ \A h \in Shipments : db[h].status \in {"none"} \cup SHIPMENT_STATUS
    /\ {db[Store].packed, db[Store].shipped} \subseteq 0 .. MaxPacked

\* No section ever passes on more pieces than stood in it.
NoPhantoms == \A b \in Bundles, x \in Sections : moves[b].stands[x] >= 0

\* A bundle that is not scrapped says what its scans say: complete only when all of it is
\* at the end.  (One cut at the end, never scanned, says "created".)
ProgressEarned ==
    \A b \in Bundles : db[b].status \in {"created", "in_progress", "completed"} =>
        /\ db[b].status = "completed" => moves[b].stands[Last] = Cut
        /\ moves[b].scans > 0 =>
             db[b].status = IF moves[b].stands[Last] = Cut THEN "completed" ELSE "in_progress"

\* The bundles of the floor are what their scans make them (move_bundle).
BundlesTrue == TypeOK /\ NoPhantoms /\ ProgressEarned

\* The scans of a scrapped bundle stop.
ScrapStands == [][\A b \in Bundles : db[b].status = "rejected" => UNCHANGED moves[b]]_vars

\* The packing list of a shipment that has left is a customs document.
ListFrozen ==
    [][\A h \in Shipments : Left(h) =>
         PackingList(h)' = PackingList(h) /\ \A k \in PackingList(h) : UNCHANGED db[k]]_vars

\* So is the price on its invoice.
PriceFrozen == [][\A h \in Shipments : Left(h) => db'[h].price = db[h].price]_vars

\* A departure is never forgotten, and what has left is never open again.
DepartureKept ==
    [][\A h \in Shipments : Left(h) => Left(h)' /\ db'[h].status \in LOCKED_STATUS]_vars

\* A void shipment does not turn into a shipped one.
VoidStays ==
    [][\A h \in Shipments : db[h].status = "cancelled" => db'[h].status \notin SHIPPED_STATUS]_vars

\* What ended stays ended, what has left stays as it left, however the functions of the
\* floor and of the shipment interleave.
NothingUndone == ScrapStands /\ ListFrozen /\ PriceFrozen /\ DepartureKept /\ VoidStays

\* The store does not ship more than was packed.
StoreCovers == db[Store].shipped <= db[Store].packed

\* A departure takes its goods out of the store once.
PostedOnce == \A h \in Shipments :
    books[h].posted + books[h].refused <= IF Left(h) THEN Pieces(h) ELSE 0

\* Every line of a departure that was not cut short is taken out or refused.
LinesReckoned == \A h \in Shipments :
    Stamped(h) /\ ~Posting(h) /\ ~books[h].cut => Reckoned(h)

\* The finished-goods store and the departures tell the same story, also when the process
\* stops between a departure and its posting (update_shipment, _post_shipped_to_fg).
StoreTrue == StoreCovers /\ PostedOnce /\ LinesReckoned

\* The store hears of every departure, unless the process stops first.
Settles == \A h \in Shipments : Stamped(h) ~> books[h].cut \/ Reckoned(h)

=============================================================================
