---------------------------- MODULE FloorProofs ----------------------------
(***************************************************************************)
(* Theorems about FloorSessions, for any number of sessions, bundles,      *)
(* shipments and cartons, as long as no two functions of a harmful pair    *)
(* overlap.                                                                *)
(*                                                                         *)
(* The argument: what a function has read about its own row stays true     *)
(* until it commits, whatever the functions it may overlap with commit in  *)
(* between.  Facts(j, ...) says what that is, function by function.        *)
(***************************************************************************)
EXTENDS FloorSessions, SumProofs

\* No two functions of a harmful pair overlap.
Safe == Together \cap Harmful = {}

BundleOps == {"scan", "scrap", "restore"}
UpdateOps == {"depart", "mark", "void", "follow", "edit", "reprice"}
ListOps == {"add", "drop"}
Columned == {"status", "stamp", "price"}
JobFields == {"op", "pc", "row", "set", "carton", "scan", "lines"}

(***************************************************************************)
(* Rows.                                                                   *)
(***************************************************************************)
Documents == Bundles \cup Shipments \cup Cartons \cup {Store}
BundleStatus == {"none", "created", "in_progress", "completed", "rejected"}
ShipmentRow == [status : SHIPMENT_STATUS, stamp : BOOLEAN, price : Prices, ordered : BOOLEAN]
CartonRow == {Gone} \cup [on : Shipments, pieces : CartonSizes]

\* Rows have their types, and a stamped shipment is one that was closed to changes.
RowsTyped(d) ==
    /\ DOMAIN d = Documents
    /\ \A b \in Bundles : d[b].status \in BundleStatus
    /\ \A h \in Shipments : /\ d[h].status # "none" => d[h] \in ShipmentRow
                            /\ d[h].status # "none" /\ d[h].stamp => d[h].status \in LOCKED_STATUS
    /\ \A k \in Cartons : d[k] \in CartonRow
    /\ d[Store] \in [packed : 0 .. MaxPacked, shipped : 0 .. MaxPacked]
    /\ d[Store].shipped <= d[Store].packed

(***************************************************************************)
(* The ledger of a bundle.                                                 *)
(***************************************************************************)
Ledgers == [stands : [Sections -> Int], scans : Nat]
Total(m) == SumFunctionOnSet(m.stands, Sections)

\* Every piece cut stands in one section.
Standing(m) == /\ m \in Ledgers
               /\ \A x \in Sections : m.stands[x] >= 0
               /\ Total(m) = Cut

\* ProgressEarned of one bundle.
Earned(st, m) ==
    st \in {"created", "in_progress", "completed"} =>
        /\ st = "completed" => m.stands[Last] = Cut
        /\ m.scans > 0 => st = IF m.stands[Last] = Cut THEN "completed" ELSE "in_progress"

OnFloor(st, m) ==
    IF st = "none" THEN m = [stands |-> [x \in Sections |-> 0], scans |-> 0]
    ELSE Standing(m) /\ Earned(st, m)

\* The ledger m with one more scan.
With(m, scan) ==
    [stands |-> [x \in Sections |-> m.stands[x] + IF x = scan.to THEN scan.qty
                                                  ELSE IF x = scan.from THEN -scan.qty ELSE 0],
     scans |-> m.scans + 1]

(***************************************************************************)
(* What a function has read and may still rely on: j is the job, r the row *)
(* it is about as committed.                                               *)
(***************************************************************************)
\* A function on a bundle with the ledger m.
BundleFacts(j, r, m) ==
    /\ r.status # "none"
    /\ j.op = "scan" =>
         /\ r.status # "rejected"
         /\ j.scan.from \in Sections /\ j.scan.to \in Sections /\ j.scan.from # j.scan.to
         /\ j.scan.qty \in Nat /\ j.scan.qty <= m.stands[j.scan.from]
         /\ j.pc # "insert" => /\ "status" \in DOMAIN j.set
                               /\ j.set.status = _ledger_status(With(m, j.scan))
    /\ j.op = "scrap" => "status" \in DOMAIN j.set /\ j.set.status = "rejected"
    /\ j.op = "restore" => "status" \in DOMAIN j.set /\ j.set.status = _ledger_status(m)

\* The columns an update of a shipment sets.
SetTyped(j) ==
    /\ DOMAIN j.set \subseteq Columned
    /\ "status" \in DOMAIN j.set => j.set.status \in SHIPMENT_STATUS
    /\ "stamp" \in DOMAIN j.set => j.set.stamp = TRUE
    /\ "price" \in DOMAIN j.set => j.set.price \in Prices
    /\ "stamp" \in DOMAIN j.set <=> j.op = "depart"
    /\ "status" \in DOMAIN j.set <=> j.op # "reprice"

\* A function on a shipment.
ShipmentFacts(j, r) ==
    /\ r.status # "none"
    /\ j.op \in UpdateOps =>
         /\ SetTyped(j)
         /\ "price" \in DOMAIN j.set => ~EverLeft(r)
    /\ j.op = "depart" => ~r.stamp /\ r.status # "cancelled" /\ j.set.status \in LOCKED_STATUS
    /\ j.op = "mark" => ~EverLeft(r) /\ j.set.status \in CREATE_STATUS
    /\ j.op = "void" => /\ j.set.status = "cancelled"
                        /\ r.status \in SHIPPED_STATUS => r.stamp
    /\ j.op = "follow" => r.stamp /\ r.status \in SHIPPED_STATUS /\ j.set.status \in SHIPPED_STATUS
    /\ j.op = "edit" => /\ j.set.status \in SHIPPED_STATUS => r.status \in SHIPPED_STATUS
                        /\ j.set.status = "cancelled" => r.status \notin SHIPPED_STATUS
                        /\ j.set.status \in CREATE_STATUS => ~EverLeft(r)
    /\ j.op \in {"reprice", "add", "drop"} => ~EverLeft(r)
    /\ j.op = "post" => r.stamp

\* A function on a line of a packing list, with the row c of the line.
CartonFacts(j, c) ==
    /\ j.op = "add" => c = Gone /\ j.set \in [on : {j.row}, pieces : CartonSizes]
    /\ j.op = "drop" => c.on \in {j.row, "none"} /\ j.set = Gone

ListOf(d, h) == {k \in Cartons : d[k].on = h}
PackedIn(d, ks) == SumFunctionOnSet([k \in ks |-> d[k].pieces], ks)
\* What a departure of h has to report to the store.
Owed(d, h) == IF d[h].status # "none" /\ d[h].ordered THEN PackedIn(d, ListOf(d, h)) ELSE 0

\* The posting of a departure: what was reported and what is still to come.
PostFacts(j, d, bk) ==
    j.op = "post" =>
      /\ j.pc = "list" => bk[j.row].posted + bk[j.row].refused = 0
      /\ j.pc \in {"line", "ship"} =>
           /\ j.lines \subseteq ListOf(d, j.row)
           /\ bk[j.row].posted + bk[j.row].refused + PackedIn(d, j.lines) = Owed(d, j.row)
      /\ j.pc = "ship" => /\ j.carton \in j.lines
                          /\ d[Store].packed - d[Store].shipped >= d[j.carton].pieces

Points(op) ==
    CASE op = "scan" -> {"insert", "put", "commit"}
      [] op \in ListOps -> {"carton", "commit"}
      [] op = "post" -> {"list", "line", "ship"}
      [] OTHER -> {"put", "commit"}

\* A job has its type and stands where its function goes.
JobTyped(j) ==
    /\ DOMAIN j = JobFields
    /\ j.op = "idle" => j = Idle
    /\ j.op # "idle" =>
         /\ j.op \in Ops /\ j.pc \in Points(j.op)
         /\ j.row \in IF j.op \in BundleOps THEN Bundles ELSE Shipments
         /\ j.op \in ListOps => j.carton \in Cartons

Facts(j, d, m, bk) ==
    /\ JobTyped(j)
    /\ j.op \in BundleOps => BundleFacts(j, d[j.row], m[j.row])
    /\ j.op \in UpdateOps \cup ListOps \cup {"post"} => ShipmentFacts(j, d[j.row])
    /\ j.op \in ListOps => CartonFacts(j, d[j.carton])
    /\ PostFacts(j, d, bk)

\* Two jobs at once: never a harmful pair, one at the store, a line added by one alone.
Apart(i, j) ==
    /\ i.op # "idle" /\ j.op # "idle" /\ i.row = j.row => {i.op, j.op} \notin Harmful
    /\ ~(i.op \in TakesGoods /\ j.op \in TakesGoods)
    /\ i.op = "add" /\ j.op \in ListOps => i.carton # j.carton

(***************************************************************************)
(* What a session has written is what its job says, on a row of its own.   *)
(***************************************************************************)
Target(j) == IF j.op \in ListOps THEN j.carton ELSE j.row
Locked(j) == IF j.pc = "commit" THEN {Target(j)} ELSE {}
Written(j, d) == IF j.op \in ListOps THEN j.set ELSE Over(j.set, d[j.row])

OwnRows(mn, jb, d) ==
    /\ DOMAIN mn = Sessions
    /\ \A s \in Sessions :
         /\ DOMAIN mn[s] = Locked(jb[s])
         /\ jb[s].pc = "commit" => mn[s][Target(jb[s])] = Written(jb[s], d)
    /\ \A s, t \in Sessions : s # t => Locked(jb[s]) \cap Locked(jb[t]) = {}

(***************************************************************************)
(* What left the store, shipment by shipment.                              *)
(***************************************************************************)
Booked(d, jb, bk, h) ==
    LET stamped == d[h].status # "none" /\ d[h].stamp
        posting == \E s \in Sessions : jb[s].op = "post" /\ jb[s].row = h
    IN  /\ ~stamped => bk[h].posted + bk[h].refused = 0
        /\ bk[h].posted + bk[h].refused <= Owed(d, h)
        /\ stamped /\ ~posting /\ ~bk[h].cut => bk[h].posted + bk[h].refused = Owed(d, h)

BooksTyped(bk) == bk \in [Shipments -> [posted : Nat, refused : Nat, cut : BOOLEAN]]

Sound(d, mn, jb, m, bk) ==
    /\ RowsTyped(d)
    /\ DOMAIN jb = Sessions
    /\ \A s \in Sessions : Facts(jb[s], d, m, bk)
    /\ \A s, t \in Sessions : s # t => Apart(jb[s], jb[t])
    /\ OwnRows(mn, jb, d)
    /\ DOMAIN m = Bundles /\ \A b \in Bundles : OnFloor(d[b].status, m[b])
    /\ BooksTyped(bk) /\ \A h \in Shipments : Booked(d, jb, bk, h)

\* The inductive invariant.
FInv == Sound(db, mine, job, moves, books)

-----------------------------------------------------------------------------
(* Rows with some of their columns replaced.                               *)

\* The rows of different tables are different.
LEMMA Apartments ==
  ASSUME FloorAssumption
  PROVE  /\ Bundles \cap Shipments = {} /\ Cartons \cap Bundles = {} /\ Cartons \cap Shipments = {}
         /\ Store \notin Bundles /\ Store \notin Shipments /\ Store \notin Cartons
         /\ "none" \notin Bundles /\ "none" \notin Shipments /\ "none" \notin Cartons
BY DEF FloorAssumption

\* A job on a shipment: what its row becomes.
LEMMA UpdateIs ==
  ASSUME NEW j, SetTyped(j), NEW r \in ShipmentRow, NEW new, new = Over(j.set, r)
  PROVE  /\ new \in ShipmentRow
         /\ new.status = IF j.op # "reprice" THEN j.set.status ELSE r.status
         /\ new.stamp = (r.stamp \/ j.op = "depart")
         /\ new.price = IF "price" \in DOMAIN j.set THEN j.set.price ELSE r.price
         /\ new.ordered = r.ordered
<1>1. DOMAIN r = {"status", "stamp", "price", "ordered"}
      /\ r.status \in SHIPMENT_STATUS /\ r.stamp \in BOOLEAN /\ r.price \in Prices /\ r.ordered \in BOOLEAN
  BY DEF ShipmentRow
<1>0. /\ DOMAIN new = DOMAIN j.set \cup DOMAIN r
      /\ \A x \in DOMAIN j.set : new[x] = j.set[x]
      /\ \A x \in DOMAIN r \ DOMAIN j.set : new[x] = r[x]
      /\ new = [x \in DOMAIN new |-> new[x]]
  BY DEF Over
<1>2. DOMAIN new = {"status", "stamp", "price", "ordered"}
  BY <1>0, <1>1 DEF SetTyped, Columned
<1>3. new.status = IF j.op # "reprice" THEN j.set.status ELSE r.status
  BY <1>0, <1>1 DEF SetTyped
<1>4. new.stamp = IF j.op = "depart" THEN TRUE ELSE r.stamp
  BY <1>0, <1>1 DEF SetTyped
<1>5. new.price = IF "price" \in DOMAIN j.set THEN j.set.price ELSE r.price
  BY <1>0, <1>1 DEF SetTyped
<1>6. new.ordered = r.ordered
  BY <1>0, <1>1 DEF SetTyped, Columned
<1>7. new = [x \in {"status", "stamp", "price", "ordered"} |-> new[x]]
  BY <1>0, <1>2
<1>8. new \in ShipmentRow
  <2>1. /\ new["status"] \in SHIPMENT_STATUS /\ new["stamp"] \in BOOLEAN
        /\ new["price"] \in Prices /\ new["ordered"] \in BOOLEAN
    BY <1>1, <1>3, <1>4, <1>5, <1>6 DEF SetTyped
  <2> QED
    BY <1>7, <2>1 DEF ShipmentRow
<1> QED
  BY <1>1, <1>3, <1>4, <1>5, <1>6, <1>8

-----------------------------------------------------------------------------
(* Shipments: functions that may overlap leave each other's facts alone.   *)

\* Of the functions on a shipment, the pairs that may not overlap.
LEMMA HarmfulIs ==
  ASSUME NEW a, NEW b, {a, b} \notin Harmful
  PROVE  /\ ~(a = "void" /\ b \in {"follow", "edit"}) /\ ~(b = "void" /\ a \in {"follow", "edit"})
         /\ a = "depart" => b \notin {"depart", "mark", "void", "edit", "reprice", "add", "drop", "post"}
         /\ b = "depart" => a \notin {"depart", "mark", "void", "edit", "reprice", "add", "drop", "post"}
         /\ a = "scan" => b \notin BundleOps
         /\ b = "scan" => a \notin BundleOps
BY DEF Harmful, BundleOps

Stampable(r) == r \in ShipmentRow /\ (r.stamp => r.status \in LOCKED_STATUS)

\* One update: a departure is kept and what has left stays as it left.
LEMMA UpdateStep ==
  ASSUME NEW j, j.op \in UpdateOps, NEW r, Stampable(r), ShipmentFacts(j, r),
         NEW new, new = Over(j.set, r)
  PROVE  /\ Stampable(new)
         /\ EverLeft(r) => EverLeft(new) /\ new.status \in LOCKED_STATUS /\ new.price = r.price
         /\ r.status = "cancelled" => new.status \notin SHIPPED_STATUS
         /\ r.stamp => new.stamp
         /\ new.stamp => r.stamp \/ j.op = "depart"
         /\ j.op = "depart" => new.stamp
         /\ new.ordered = r.ordered
         /\ new.status # "none"
<1>1. SetTyped(j) /\ r \in ShipmentRow
  BY DEF ShipmentFacts, Stampable
<1>2. /\ new \in ShipmentRow
      /\ new.status = IF j.op # "reprice" THEN j.set.status ELSE r.status
      /\ new.stamp = (r.stamp \/ j.op = "depart")
      /\ new.price = IF "price" \in DOMAIN j.set THEN j.set.price ELSE r.price
      /\ new.ordered = r.ordered
  BY <1>1, UpdateIs
<1>3. r.status \in SHIPMENT_STATUS /\ r.stamp \in BOOLEAN /\ new.status \in SHIPMENT_STATUS
  BY <1>1, <1>2 DEF ShipmentRow
<1> QED
  BY <1>2, <1>3 DEF Stampable, ShipmentFacts, EverLeft, UpdateOps, SHIPMENT_STATUS, LOCKED_STATUS,
                    SHIPPED_STATUS, CREATE_STATUS

\* What j has read of a shipment stays true when i, which may overlap with it, commits.
LEMMA ShipmentFactsStand ==
  ASSUME NEW i, NEW j, i.op \in UpdateOps, {i.op, j.op} \notin Harmful,
         NEW r, Stampable(r), ShipmentFacts(i, r), ShipmentFacts(j, r),
         NEW new, new = Over(i.set, r)
  PROVE  ShipmentFacts(j, new)
<1>1. SetTyped(i) /\ r \in ShipmentRow
  BY DEF ShipmentFacts, Stampable
<1>2. /\ new \in ShipmentRow
      /\ new.status = IF i.op # "reprice" THEN i.set.status ELSE r.status
      /\ new.stamp = (r.stamp \/ i.op = "depart")
  BY <1>1, UpdateIs
<1>3. r.status \in SHIPMENT_STATUS /\ r.stamp \in BOOLEAN /\ new.status \in SHIPMENT_STATUS
  BY <1>1, <1>2 DEF ShipmentRow
<1>4. /\ ~(i.op = "void" /\ j.op \in {"follow", "edit"}) /\ ~(j.op = "void" /\ i.op \in {"follow", "edit"})
      /\ i.op = "depart" => j.op \notin {"depart", "mark", "void", "edit", "reprice", "add", "drop", "post"}
      /\ j.op = "depart" => i.op \notin {"depart", "mark", "void", "edit", "reprice", "add", "drop", "post"}
  BY HarmfulIs
<1>5. EverLeft(new) => EverLeft(r) \/ i.op = "depart"
  BY <1>2, <1>3 DEF Stampable, ShipmentFacts, EverLeft, UpdateOps, SHIPMENT_STATUS, LOCKED_STATUS,
                    SHIPPED_STATUS, CREATE_STATUS
<1> QED
  BY <1>2, <1>3, <1>4, <1>5 DEF Stampable, ShipmentFacts, EverLeft, UpdateOps, SHIPMENT_STATUS, LOCKED_STATUS,
                    SHIPPED_STATUS, CREATE_STATUS

-----------------------------------------------------------------------------
(* Bundles: no scan makes pieces.                                          *)

\* The ledger the code computes.
LEMMA WithIs ==
  ASSUME NEW b, NEW scan
  PROVE  LedgerWith(b, scan) = With(moves[b], scan)
BY DEF LedgerWith, With

\* A scan moves pieces that stand in its section.
LEMMA ScanStands ==
  ASSUME FloorAssumption, NEW m, Standing(m),
         NEW scan, scan.from \in Sections, scan.to \in Sections, scan.from # scan.to,
         scan.qty \in Nat, scan.qty <= m.stands[scan.from]
  PROVE  Standing(With(m, scan)) /\ With(m, scan).scans > 0
<1> DEFINE f == m.stands
           g == [x \in Sections |-> IF x = scan.from THEN f[x] - scan.qty ELSE f[x]]
           h == With(m, scan).stands
<1>0. IsFiniteSet(Sections) /\ f \in [Sections -> Int] /\ m.scans \in Nat
  BY DEF FloorAssumption, Standing, Ledgers
<1>1. h = [x \in Sections |-> f[x] + IF x = scan.to THEN scan.qty
                                      ELSE IF x = scan.from THEN -scan.qty ELSE 0]
  BY DEF With
<1>2. h \in [Sections -> Int] /\ \A x \in Sections : h[x] >= 0
  <2> HIDE DEF h
  <2> QED
    BY <1>0, <1>1 DEF Standing
<1>3. SumFunctionOnSet(g, Sections) = SumFunctionOnSet(f, Sections) - f[scan.from] + g[scan.from]
  <2>1. /\ \A x \in Sections : f[x] \in Int
        /\ g[scan.from] \in Int /\ \A x \in Sections \ {scan.from} : g[x] = f[x]
    BY <1>0
  <2> HIDE DEF f, g
  <2> QED
    BY <1>0, <2>1, SumUpdate
<1>4. SumFunctionOnSet(h, Sections) = SumFunctionOnSet(g, Sections) - g[scan.to] + h[scan.to]
  <2>1. /\ \A x \in Sections : g[x] \in Int
        /\ h[scan.to] \in Int /\ \A x \in Sections \ {scan.to} : h[x] = g[x]
    <3> HIDE DEF h
    <3> QED
      BY <1>0, <1>1, <1>2
  <2> HIDE DEF f, g, h
  <2> QED
    BY <1>0, <2>1, SumUpdate
<1>5. SumFunctionOnSet(h, Sections) = Cut
  <2>1. SumFunctionOnSet(f, Sections) = Cut /\ Cut \in Nat
    BY DEF Standing, Total, FloorAssumption
  <2>2. g[scan.from] = f[scan.from] - scan.qty /\ h[scan.to] = g[scan.to] + scan.qty
    <3> HIDE DEF h
    <3> QED
      BY <1>0, <1>1
  <2>3. f[scan.from] \in Int /\ g[scan.to] \in Int
    BY <1>0
  <2> HIDE DEF f, g, h
  <2> QED
    BY <1>3, <1>4, <2>1, <2>2, <2>3
<1>6. With(m, scan) = [stands |-> h, scans |-> m.scans + 1]
  BY DEF With
<1> HIDE DEF h
<1> QED
  BY <1>0, <1>2, <1>5, <1>6 DEF Standing, Total, Ledgers

\* At the last section there is never more than was cut.
LEMMA LastBounded ==
  ASSUME FloorAssumption, NEW m, Standing(m)
  PROVE  m.stands[Last] \in Nat /\ m.stands[Last] <= Cut
<1> DEFINE f == m.stands
<1>1. /\ IsFiniteSet(Sections) /\ Last \in Sections
      /\ \A x \in Sections : f[x] \in Nat /\ f[x] \in Int
      /\ SumFunctionOnSet(f, Sections) = Cut /\ Cut \in Nat
  BY DEF FloorAssumption, Standing, Ledgers, Total
<1>2. IsFiniteSet(Sections \ {Last})
  BY <1>1, FS_Subset
<1> HIDE DEF f
<1>3. SumFunctionOnSet(f, Sections) = f[Last] + SumFunctionOnSet(f, Sections \ {Last})
  BY <1>1, SumTakeOut
<1>4. SumFunctionOnSet(f, Sections \ {Last}) \in Nat
  BY <1>1, <1>2, SumNat
<1> QED
  BY <1>1, <1>3, <1>4 DEF f

\* A bundle that says what its ledger implies says what is true.
LEMMA ImpliedEarned ==
  ASSUME FloorAssumption, NEW m, Standing(m)
  PROVE  /\ _ledger_status(m) \in {"created", "in_progress", "completed"}
         /\ Earned(_ledger_status(m), m)
BY LastBounded DEF _ledger_status, Earned, Standing, Ledgers, FloorAssumption

\* One write of a bundle function.
LEMMA BundleStep ==
  ASSUME FloorAssumption, NEW j, j.op \in BundleOps, j.pc = "commit",
         NEW r, r.status \in BundleStatus, NEW m, OnFloor(r.status, m), BundleFacts(j, r, m),
         NEW new, new = Over(j.set, r)
  PROVE  /\ new.status \in BundleStatus \ {"none"}
         /\ OnFloor(new.status, IF j.op = "scan" THEN With(m, j.scan) ELSE m)
<1>1. Standing(m)
  BY DEF OnFloor, BundleFacts
<1>2. "status" \in DOMAIN j.set
  BY DEF BundleFacts, BundleOps
<1>3. new.status = j.set.status
  BY <1>2 DEF Over
<1>4. CASE j.op = "scan"
  <2>1. Standing(With(m, j.scan)) /\ With(m, j.scan).scans > 0
    BY <1>1, <1>4, ScanStands DEF BundleFacts
  <2>2. new.status = _ledger_status(With(m, j.scan))
    BY <1>3, <1>4 DEF BundleFacts
  <2> QED
    BY <1>4, <2>1, <2>2, ImpliedEarned DEF OnFloor, BundleStatus
<1>5. CASE j.op = "scrap"
  BY <1>1, <1>3, <1>5 DEF BundleFacts, OnFloor, Earned, BundleStatus
<1>6. CASE j.op = "restore"
  BY <1>1, <1>3, <1>6, ImpliedEarned DEF BundleFacts, OnFloor, BundleStatus
<1> QED
  BY <1>4, <1>5, <1>6 DEF BundleOps

\* What j has read of a bundle stays true when i, which may overlap with it, commits.
LEMMA BundleFactsStand ==
  ASSUME NEW i, NEW j, i.op \in BundleOps, j.op \in BundleOps, {i.op, j.op} \notin Harmful,
         NEW r, NEW m, BundleFacts(i, r, m), BundleFacts(j, r, m),
         NEW new, new = Over(i.set, r)
  PROVE  i.op # "scan" /\ BundleFacts(j, new, m)
<1>1. i.op # "scan" /\ j.op # "scan"
  BY HarmfulIs
<1>2. new.status = i.set.status
  <2>1. "status" \in DOMAIN i.set
    BY <1>1 DEF BundleFacts, BundleOps
  <2> QED
    BY <2>1 DEF Over
<1>3. new.status # "none"
  BY <1>1, <1>2 DEF BundleFacts, BundleOps, _ledger_status
<1> QED
  BY <1>1, <1>3 DEF BundleFacts

-----------------------------------------------------------------------------
(* Packing lists.                                                          *)

\* What a line packs is a number.
LEMMA LinePieces ==
  ASSUME FloorAssumption, NEW c \in CartonRow
  PROVE  c.pieces \in Nat /\ c.pieces \in Int
<1>1. CASE c = Gone
  BY <1>1 DEF Gone
<1>2. CASE c \in [on : Shipments, pieces : CartonSizes]
  <2>1. c.pieces \in CartonSizes
    BY <1>2
  <2>2. \A n \in CartonSizes : n \in Nat /\ n \in Int
    BY DEF FloorAssumption
  <2> QED
    BY <2>1, <2>2
<1> QED
  BY <1>1, <1>2 DEF CartonRow

\* So is what a set of lines packs, and one line of it counts once.
LEMMA PackedTakeOut ==
  ASSUME FloorAssumption, NEW d, \A k \in Cartons : d[k] \in CartonRow,
         NEW ks \in SUBSET Cartons
  PROVE  /\ PackedIn(d, ks) \in Nat
         /\ \A k \in ks : PackedIn(d, ks) = d[k].pieces + PackedIn(d, ks \ {k})
<1> DEFINE f == [k \in ks |-> d[k].pieces]
<1>1. IsFiniteSet(ks)
  BY FS_Subset DEF FloorAssumption
<1>2. \A k \in ks : f[k] \in Nat /\ f[k] \in Int
  BY LinePieces
<1>3. SumFunctionOnSet(f, ks) \in Nat
  <2> HIDE DEF f
  <2> QED
    BY <1>1, <1>2, SumNat
<1>4. ASSUME NEW k \in ks
      PROVE  PackedIn(d, ks) = d[k].pieces + PackedIn(d, ks \ {k})
  <2> DEFINE g == [x \in ks \ {k} |-> d[x].pieces]
  <2>1. SumFunctionOnSet(f, ks) = f[k] + SumFunctionOnSet(f, ks \ {k})
    <3> HIDE DEF f
    <3> QED
      BY <1>1, <1>2, SumTakeOut
  <2>2. SumFunctionOnSet(f, ks \ {k}) = SumFunctionOnSet(g, ks \ {k})
    <3>1. IsFiniteSet(ks \ {k})
      BY <1>1, FS_Subset
    <3>2. \A x \in ks \ {k} : f[x] = g[x]
      OBVIOUS
    <3> HIDE DEF f, g
    <3> QED
      BY <3>1, <3>2, SumSame
  <2>3. f[k] = d[k].pieces
    OBVIOUS
  <2> QED
    BY <2>1, <2>2, <2>3 DEF PackedIn
<1> QED
  BY <1>3, <1>4 DEF PackedIn

\* Nothing packs nothing.
LEMMA PackedNothing ==
  ASSUME NEW d
  PROVE  PackedIn(d, {}) = 0
BY SumEmpty DEF PackedIn

\* Lines that stay as they are pack the same.
LEMMA PackedSame ==
  ASSUME FloorAssumption, NEW d, NEW e, NEW ks \in SUBSET Cartons, \A k \in ks : d[k] = e[k]
  PROVE  PackedIn(d, ks) = PackedIn(e, ks)
<1> DEFINE f == [k \in ks |-> d[k].pieces]
           g == [k \in ks |-> e[k].pieces]
<1>1. f = g
  OBVIOUS
<1> QED
  BY <1>1 DEF PackedIn

\* What a shipment owes depends on whether it was ordered and on its list alone.
LEMMA OwedSame ==
  ASSUME FloorAssumption, NEW d, NEW e, NEW h,
         d[h].status # "none" /\ d[h].ordered <=> e[h].status # "none" /\ e[h].ordered,
         \A k \in Cartons : d[k] = e[k] \/ (d[k].on # h /\ e[k].on # h)
  PROVE  Owed(d, h) = Owed(e, h) /\ ListOf(d, h) = ListOf(e, h)
<1>1. ListOf(d, h) = ListOf(e, h) /\ ListOf(d, h) \in SUBSET Cartons
  BY DEF ListOf
<1>2. \A k \in ListOf(d, h) : d[k] = e[k]
  BY DEF ListOf
<1>3. PackedIn(d, ListOf(d, h)) = PackedIn(e, ListOf(d, h))
  BY <1>1, <1>2, PackedSame
<1> QED
  BY <1>1, <1>3 DEF Owed

-----------------------------------------------------------------------------
(* A function begins.                                                      *)

\* What a session that has nothing to do is worth.
LEMMA IdleIs ==
  /\ Idle.op = "idle" /\ Idle.pc = "idle" /\ Idle.row = "none" /\ DOMAIN Idle = JobFields
  /\ Locked(Idle) = {}
BY DEF Idle, JobFields, Locked

\* A function that begins with what is true, beside functions it may overlap with.
LEMMA BeginKeeps ==
  ASSUME FloorAssumption, Safe, FInv, NEW s \in Sessions, NEW j, Begin(s, j),
         j.op \in Ops \ {"post"}, j.pc # "commit", Facts(j, db, moves, books),
         \A t \in Sessions \ {s} : "add" \in {j.op, job[t].op} /\ {j.op, job[t].op} \subseteq ListOps
                                     => job[t].carton # j.carton
  PROVE  FInv'
<1>1. /\ job[s] = Idle /\ UNCHANGED <<db, mine, moves, books>>
      /\ job' = [job EXCEPT ![s] = j]
  BY DEF Begin, Read
<1>2. DOMAIN job = Sessions
  BY DEF FInv, Sound
<1>3. DOMAIN job' = Sessions /\ job'[s] = j /\ \A t \in Sessions \ {s} : job'[t] = job[t]
  BY <1>1, <1>2
<1>4. \A t \in Sessions : Facts(job'[t], db, moves, books)
  BY <1>3 DEF FInv, Sound
<1>5. ASSUME NEW t \in Sessions \ {s} PROVE Apart(j, job[t]) /\ Apart(job[t], j)
  <2>1. job[t].row = j.row \/ {j.op, job[t].op} \subseteq TakesGoods => {j.op, job[t].op} \notin Harmful
    BY <1>5 DEF Begin, Safe
  <2>2. {job[t].op, j.op} = {j.op, job[t].op}
    OBVIOUS
  <2>3. ~(j.op \in TakesGoods /\ job[t].op \in TakesGoods)
    BY <2>1, HarmfulIs DEF TakesGoods
  <2> QED
    BY <1>5, <2>1, <2>2, <2>3 DEF Apart, ListOps
<1>6. \A t, u \in Sessions : t # u => Apart(job'[t], job'[u])
  BY <1>3, <1>5 DEF FInv, Sound
<1>7. Locked(j) = {} /\ Locked(job[s]) = {}
  BY <1>1, IdleIs DEF Locked
<1>8. OwnRows(mine, job', db)
  <2>1. \A t \in Sessions : Locked(job'[t]) = Locked(job[t])
    BY <1>3, <1>7
  <2>2. \A t \in Sessions : job'[t].pc = "commit" => job'[t] = job[t]
    BY <1>3
  <2>3. OwnRows(mine, job, db)
    BY DEF FInv, Sound
  <2> QED
    BY <2>1, <2>2, <2>3 DEF OwnRows
<1>9. \A h \in Shipments : Booked(db, job', books, h)
  <2> SUFFICES ASSUME NEW h \in Shipments PROVE Booked(db, job', books, h)
    OBVIOUS
  <2>1. Booked(db, job, books, h)
    BY DEF FInv, Sound
  <2>2. (\E t \in Sessions : job'[t].op = "post" /\ job'[t].row = h)
          <=> \E t \in Sessions : job[t].op = "post" /\ job[t].row = h
    BY <1>1, <1>3, IdleIs
  <2> QED
    BY <2>1, <2>2 DEF Booked
<1>10. Sound(db, mine, job', moves, books)
  BY <1>3, <1>4, <1>6, <1>8, <1>9 DEF FInv, Sound
<1> QED
  BY <1>1, <1>10 DEF FInv

\* What a session sees of a row it has not written is the committed row.
LEMMA SeenIs ==
  ASSUME FInv, NEW s \in Sessions, job[s] = Idle, NEW r
  PROVE  Seen(s, r) = db[r]
<1>1. DOMAIN mine[s] = {}
  BY IdleIs DEF FInv, Sound, OwnRows
<1> QED
  BY <1>1 DEF Seen

\* A job fresh from its function.
LEMMA JobIs ==
  ASSUME NEW op, NEW pc, NEW row
  PROVE  LET j == Job(op, pc, row)
         IN  /\ DOMAIN j = JobFields /\ j.op = op /\ j.pc = pc /\ j.row = row
             /\ \A x : LET k == [j EXCEPT !.set = x]
                       IN DOMAIN k = JobFields /\ k.op = op /\ k.pc = pc /\ k.row = row /\ k.set = x
             /\ \A x : LET k == [j EXCEPT !.scan = x]
                       IN DOMAIN k = JobFields /\ k.op = op /\ k.pc = pc /\ k.row = row /\ k.scan = x
             /\ \A x, c : LET k == [j EXCEPT !.carton = c, !.set = x]
                       IN /\ DOMAIN k = JobFields /\ k.op = op /\ k.pc = pc /\ k.row = row
                          /\ k.carton = c /\ k.set = x
BY DEF Job, Idle, JobFields

\* A bundle function begins: it has read a bundle that exists.
LEMMA BeginBundle ==
  ASSUME FloorAssumption, Safe, FInv, NEW s \in Sessions, NEW b \in Bundles,
         \/ \E from, to \in Sections, qty \in 1 .. Cut : BeginScan(s, b, from, to, qty)
         \/ BeginScrap(s, b)
         \/ BeginRestore(s, b)
  PROVE  FInv'
<1>1. ASSUME NEW j, Begin(s, j), j.op \in BundleOps, j.pc \in {"insert", "put"},
             Facts(j, db, moves, books)
      PROVE  FInv'
  BY <1>1, BeginKeeps DEF BundleOps, ListOps, Ops
<1>2. ASSUME NEW from \in Sections, NEW to \in Sections, NEW qty \in 1 .. Cut,
             BeginScan(s, b, from, to, qty)
      PROVE  FInv'
  <2> DEFINE sc == [from |-> from, to |-> to, qty |-> qty]
             j == [Job("scan", "insert", b) EXCEPT !.scan = sc]
  <2>1. Begin(s, j)
    BY <1>2 DEF BeginScan
  <2>2. DOMAIN j = JobFields /\ j.op = "scan" /\ j.pc = "insert" /\ j.row = b /\ j.scan = sc
    BY JobIs
  <2>3. /\ db[b].status \notin {"none", "rejected"} /\ from # to
        /\ qty <= moves[b].stands[from] /\ qty \in Nat
    <3>1. Seen(s, b) = db[b]
      BY <2>1, SeenIs DEF Begin
    <3> QED
      BY <1>2, <3>1 DEF BeginScan, Scannable, _section_qty, FloorAssumption
  <2>4. Facts(j, db, moves, books)
    <3> HIDE DEF j
    <3> QED
      BY <2>2, <2>3 DEF Facts, JobTyped, BundleFacts, PostFacts, BundleOps, UpdateOps, ListOps, Ops, Points
  <2> HIDE DEF j
  <2> QED
    BY <1>1, <2>1, <2>2, <2>4 DEF BundleOps
<1>3. CASE BeginScrap(s, b)
  <2> DEFINE set == [status |-> "rejected"]
             j == [Job("scrap", "put", b) EXCEPT !.set = set]
  <2>1. Begin(s, j)
    BY <1>3 DEF BeginScrap
  <2>2. DOMAIN j = JobFields /\ j.op = "scrap" /\ j.pc = "put" /\ j.row = b /\ j.set = set
    BY JobIs
  <2>3. db[b].status # "none"
    BY <1>3, <2>1, SeenIs DEF BeginScrap, Begin
  <2>4. Facts(j, db, moves, books)
    <3> HIDE DEF j
    <3> QED
      BY <2>2, <2>3 DEF Facts, JobTyped, BundleFacts, PostFacts, BundleOps, UpdateOps, ListOps, Ops, Points
  <2> HIDE DEF j
  <2> QED
    BY <1>1, <2>1, <2>2, <2>4 DEF BundleOps
<1>4. CASE BeginRestore(s, b)
  <2> DEFINE set == [status |-> _ledger_status(moves[b])]
             j == [Job("restore", "put", b) EXCEPT !.set = set]
  <2>1. Begin(s, j)
    BY <1>4 DEF BeginRestore
  <2>2. DOMAIN j = JobFields /\ j.op = "restore" /\ j.pc = "put" /\ j.row = b /\ j.set = set
    BY JobIs
  <2>3. db[b].status # "none"
    BY <1>4, <2>1, SeenIs DEF BeginRestore, Begin
  <2>4. Facts(j, db, moves, books)
    <3> HIDE DEF j
    <3> QED
      BY <2>2, <2>3 DEF Facts, JobTyped, BundleFacts, PostFacts, BundleOps, UpdateOps, ListOps, Ops, Points
  <2> HIDE DEF j
  <2> QED
    BY <1>1, <2>1, <2>2, <2>4 DEF BundleOps
<1> QED
  BY <1>2, <1>3, <1>4

\* What the form sends is sorted into what the update is allowed to set.
LEMMA ColumnsAllowed ==
  ASSUME FloorAssumption, NEW r, Stampable(r),
         NEW v \in SHIPMENT_STATUS \cup {"keep"}, NEW p \in Prices,
         DOMAIN Columns(r, v, p) # {},
         NEW j, j.op = UpdateOp(r, Columns(r, v, p)), j.set = Columns(r, v, p)
  PROVE  j.op \in UpdateOps /\ ShipmentFacts(j, r)
<1> DEFINE moved == v \notin {r.status, "keep"} /\ StatusOpen(r, v)
<1>1. /\ DOMAIN j.set \subseteq Columned
      /\ "status" \in DOMAIN j.set <=> moved \/ v = r.status
      /\ "stamp" \in DOMAIN j.set <=> moved /\ Stamps(r, v)
      /\ "price" \in DOMAIN j.set <=> p # r.price /\ PriceOpen(r)
  BY DEF Columns, Columned
<1>2. /\ "status" \in DOMAIN j.set => j.set.status = v
      /\ "stamp" \in DOMAIN j.set => j.set.stamp = TRUE
      /\ "price" \in DOMAIN j.set => j.set.price = p
  BY DEF Columns
<1>3. r.status \in SHIPMENT_STATUS /\ r.stamp \in BOOLEAN /\ (r.stamp => r.status \in LOCKED_STATUS)
  BY DEF Stampable, ShipmentRow
<1>4. j.op = UpdateOp(r, j.set) /\ DOMAIN j.set # {}
  OBVIOUS
<1>5. j.op \in UpdateOps /\ SetTyped(j)
  BY <1>1, <1>2, <1>3, <1>4 DEF UpdateOp, UpdateOps, SetTyped, Columned, SHIPMENT_STATUS, LOCKED_STATUS,
        SHIPPED_STATUS, CREATE_STATUS
<1>6. "price" \in DOMAIN j.set => ~EverLeft(r)
  BY <1>1 DEF PriceOpen
<1> QED
  BY <1>1, <1>2, <1>3, <1>4, <1>5, <1>6
     DEF ShipmentFacts, UpdateOp, UpdateOps, StatusOpen, Stamps, PriceOpen, EverLeft, Columned,
         SHIPMENT_STATUS, LOCKED_STATUS, SHIPPED_STATUS, CREATE_STATUS

\* The row of a shipment that exists.
LEMMA ShipmentIs ==
  ASSUME FInv, NEW h \in Shipments, db[h].status # "none"
  PROVE  Stampable(db[h])
BY DEF FInv, Sound, RowsTyped, Stampable

\* An update begins: what it is about to set is allowed by the row it has read.
LEMMA BeginUpdateKeeps ==
  ASSUME FloorAssumption, Safe, FInv, NEW s \in Sessions, NEW h \in Shipments,
         NEW v \in SHIPMENT_STATUS \cup {"keep"}, NEW p \in Prices, BeginUpdate(s, h, v, p)
  PROVE  FInv'
<1> DEFINE row == Seen(s, h)
           set == Columns(row, v, p)
           j == [Job(UpdateOp(row, set), "put", h) EXCEPT !.set = set]
<1>1. Begin(s, j) /\ row.status # "none" /\ DOMAIN set # {}
  BY DEF BeginUpdate
<1>2. DOMAIN j = JobFields /\ j.op = UpdateOp(row, set) /\ j.pc = "put" /\ j.row = h /\ j.set = set
  BY JobIs
<1>3. row = db[h]
  BY <1>1, SeenIs DEF Begin
<1>4. Stampable(row)
  BY <1>1, <1>3, ShipmentIs
<1>5. j.op \in UpdateOps /\ ShipmentFacts(j, db[h])
  <2> HIDE DEF j, row
  <2> QED
    BY <1>1, <1>2, <1>3, <1>4, ColumnsAllowed
<1> HIDE DEF j, row, set
<1>6. Facts(j, db, moves, books)
  BY <1>2, <1>5 DEF Facts, JobTyped, PostFacts, BundleOps, UpdateOps, ListOps, Ops, Points
<1> QED
  BY <1>1, <1>2, <1>5, <1>6, BeginKeeps DEF UpdateOps, ListOps, Ops

\* add_carton begins: the shipment has not left, and nobody writes the line.
LEMMA BeginAddKeeps ==
  ASSUME FloorAssumption, Safe, FInv, NEW s \in Sessions, NEW h \in Shipments,
         NEW k \in Cartons, NEW n \in CartonSizes, BeginAddCarton(s, h, k, n)
  PROVE  FInv'
<1> DEFINE set == [on |-> h, pieces |-> n]
           j == [Job("add", "carton", h) EXCEPT !.carton = k, !.set = set]
<1>1. Begin(s, j) /\ ListOpen(s, h) /\ Seen(s, k) = Gone /\ \A t \in Sessions : job[t].carton # k
  BY DEF BeginAddCarton
<1>2. DOMAIN j = JobFields /\ j.op = "add" /\ j.pc = "carton" /\ j.row = h /\ j.carton = k /\ j.set = set
  BY JobIs
<1>3. db[k] = Gone /\ db[h].status \notin LOCKED_STATUS \cup {"none"}
  <2>1. job[s] = Idle
    BY <1>1 DEF Begin
  <2> QED
    BY <1>1, <2>1, SeenIs DEF ListOpen
<1>4. db[h].status # "none" /\ ~EverLeft(db[h])
  <2>1. Stampable(db[h])
    BY <1>3, ShipmentIs
  <2> QED
    BY <1>3, <2>1 DEF Stampable, EverLeft, LOCKED_STATUS
<1>5. Facts(j, db, moves, books)
  <2>1. set \in [on : {h}, pieces : CartonSizes]
    OBVIOUS
  <2> HIDE DEF j, set
  <2>2. JobTyped(j) /\ PostFacts(j, db, books)
    BY <1>2 DEF JobTyped, PostFacts, BundleOps, UpdateOps, ListOps, Ops, Points
  <2>3. ShipmentFacts(j, db[h])
    BY <1>2, <1>4 DEF ShipmentFacts, UpdateOps
  <2>4. CartonFacts(j, db[k])
    BY <1>2, <1>3, <2>1 DEF CartonFacts
  <2> QED
    BY <1>2, <2>2, <2>3, <2>4 DEF Facts, BundleOps
<1> HIDE DEF j, set
<1> QED
  BY <1>1, <1>2, <1>5, BeginKeeps DEF ListOps, Ops

\* delete_carton begins: the line is on a shipment that has not left.
LEMMA BeginDeleteKeeps ==
  ASSUME FloorAssumption, Safe, FInv, NEW s \in Sessions, NEW k \in Cartons, BeginDeleteCarton(s, k)
  PROVE  FInv'
<1> DEFINE h == Seen(s, k).on
           j == [Job("drop", "carton", h) EXCEPT !.carton = k, !.set = Gone]
<1>1. Begin(s, j) /\ ListOpen(s, h) /\ Seen(s, k) # Gone
  BY DEF BeginDeleteCarton
<1>2. DOMAIN j = JobFields /\ j.op = "drop" /\ j.pc = "carton" /\ j.row = h /\ j.carton = k /\ j.set = Gone
  BY JobIs
<1>3. /\ db[k] # Gone /\ h = db[k].on
      /\ db[h].status \notin LOCKED_STATUS \cup {"none"}
  <2>1. job[s] = Idle
    BY <1>1 DEF Begin
  <2> QED
    BY <1>1, <2>1, SeenIs DEF ListOpen
<1>4. h \in Shipments
  <2>1. db[k] \in [on : Shipments, pieces : CartonSizes]
    BY <1>3 DEF FInv, Sound, RowsTyped, CartonRow
  <2> QED
    BY <1>3, <2>1
<1> HIDE DEF j
<1>5. db[h].status # "none" /\ ~EverLeft(db[h])
  <2> HIDE DEF h
  <2>1. Stampable(db[h])
    BY <1>3, <1>4, ShipmentIs
  <2> QED
    BY <1>3, <2>1 DEF Stampable, EverLeft, LOCKED_STATUS
<1> HIDE DEF h
<1>6. Facts(j, db, moves, books)
  <2>2. JobTyped(j) /\ PostFacts(j, db, books)
    BY <1>2, <1>4 DEF JobTyped, PostFacts, BundleOps, UpdateOps, ListOps, Ops, Points
  <2>3. ShipmentFacts(j, db[h])
    BY <1>2, <1>5 DEF ShipmentFacts, UpdateOps
  <2>4. CartonFacts(j, db[k])
    BY <1>2, <1>3 DEF CartonFacts
  <2> QED
    BY <1>2, <2>2, <2>3, <2>4 DEF Facts, BundleOps
<1>7. \A t \in Sessions \ {s} : job[t].op = "add" => job[t].carton # k
  BY <1>3 DEF FInv, Sound, Facts, CartonFacts, ListOps
<1> QED
  BY <1>1, <1>2, <1>6, <1>7, BeginKeeps DEF ListOps, Ops

\* Every function begins well.
LEMMA StartKeeps ==
  ASSUME FloorAssumption, Safe, FInv, NEW s \in Sessions, Start(s)
  PROVE  FInv'
BY BeginBundle, BeginUpdateKeeps, BeginAddKeeps, BeginDeleteKeeps DEF Start

-----------------------------------------------------------------------------
(* A function goes on, or ends without having changed anything.            *)

\* A session that moves on, with the same function on the same rows, writes no row yet.
LEMMA GoesOn ==
  ASSUME FInv, NEW s \in Sessions, NEW j, job' = [job EXCEPT ![s] = j],
         UNCHANGED <<db, mine, moves, books>>,
         job[s].op # "idle", j.op = job[s].op, j.row = job[s].row, j.op \in ListOps => j.carton = job[s].carton,
         job[s].pc # "commit", j.pc # "commit", Facts(j, db, moves, books)
  PROVE  FInv'
<1>1. DOMAIN job' = Sessions /\ job'[s] = j /\ \A t \in Sessions \ {s} : job'[t] = job[t]
  BY DEF FInv, Sound
<1>2. \A t \in Sessions : Facts(job'[t], db, moves, books)
  BY <1>1 DEF FInv, Sound
<1>3. \A t, u \in Sessions : t # u => Apart(job'[t], job'[u])
  <2> SUFFICES ASSUME NEW t \in Sessions, NEW u \in Sessions, t # u
               PROVE  Apart(job'[t], job'[u])
    OBVIOUS
  <2>1. /\ job'[t].op = job[t].op /\ job'[t].row = job[t].row /\ (job[t].op \in ListOps => job'[t].carton = job[t].carton)
        /\ job'[u].op = job[u].op /\ job'[u].row = job[u].row /\ (job[u].op \in ListOps => job'[u].carton = job[u].carton)
    BY <1>1
  <2>2. Apart(job[t], job[u])
    BY DEF FInv, Sound
  <2> QED
    BY <2>1, <2>2 DEF Apart, ListOps
<1>4. OwnRows(mine, job', db)
  <2>1. \A t \in Sessions : Locked(job'[t]) = Locked(job[t])
    BY <1>1 DEF Locked
  <2>2. \A t \in Sessions : job'[t].pc = "commit" => job'[t] = job[t]
    BY <1>1
  <2>3. OwnRows(mine, job, db)
    BY DEF FInv, Sound
  <2> QED
    BY <2>1, <2>2, <2>3 DEF OwnRows
<1>5. \A h \in Shipments : Booked(db, job', books, h)
  <2> SUFFICES ASSUME NEW h \in Shipments PROVE Booked(db, job', books, h)
    OBVIOUS
  <2>1. Booked(db, job, books, h)
    BY DEF FInv, Sound
  <2>2. (\E t \in Sessions : job'[t].op = "post" /\ job'[t].row = h)
          <=> \E t \in Sessions : job[t].op = "post" /\ job[t].row = h
    BY <1>1
  <2> QED
    BY <2>1, <2>2 DEF Booked
<1>6. Sound(db, mine, job', moves, books)
  BY <1>1, <1>2, <1>3, <1>4, <1>5 DEF FInv, Sound
<1> QED
  BY <1>6 DEF FInv

\* move_bundle: what it writes is what its scan makes of the ledger.
LEMMA InsertKeeps ==
  ASSUME FInv, NEW s \in Sessions, InsertScan(s)
  PROVE  FInv'
<1> DEFINE i == job[s]
           set == [section |-> i.scan.to, status |-> StatusAfter(i.row, i.scan)]
           j == [i EXCEPT !.pc = "put", !.set = set]
<1>1. /\ i.op = "scan" /\ i.pc = "insert" /\ Facts(i, db, moves, books)
      /\ UNCHANGED <<db, mine, moves, books>>
  BY DEF InsertScan, At, Read, FInv, Sound
<1>2. job' = [job EXCEPT ![s] = j]
  BY DEF InsertScan
<1>3. DOMAIN i = JobFields
  BY <1>1 DEF Facts, JobTyped
<1>4. /\ DOMAIN j = JobFields /\ j.op = "scan" /\ j.pc = "put" /\ j.row = i.row /\ j.set = set
      /\ j.scan = i.scan
  <2> HIDE DEF i, set
  <2> QED
    BY <1>1, <1>3 DEF JobFields
<1>5. set.status = _ledger_status(With(moves[i.row], i.scan)) /\ "status" \in DOMAIN set
  BY WithIs DEF StatusAfter
<1>6. Facts(j, db, moves, books)
  <2> HIDE DEF i, j, set
  <2>1. BundleFacts(j, db[j.row], moves[j.row])
    BY <1>1, <1>4, <1>5 DEF Facts, BundleFacts, BundleOps
  <2> QED
    BY <1>1, <1>4, <2>1 DEF Facts, JobTyped, PostFacts, BundleOps, UpdateOps, ListOps, Points
<1> HIDE DEF j, set
<1> QED
  BY <1>1, <1>2, <1>4, <1>6, GoesOn DEF ListOps

\* A session that is done, or gives up, leaves the database to the others.  A posting that
\* ends has reported everything, or is known to have been cut short.
LEMMA EndsWell ==
  ASSUME FInv, NEW s \in Sessions, job' = [job EXCEPT ![s] = Idle], UNCHANGED <<db, moves>>,
         DOMAIN mine' = Sessions, DOMAIN mine'[s] = {}, \A t \in Sessions \ {s} : mine'[t] = mine[t],
         BooksTyped(books'),
         \A h \in Shipments :
           /\ books'[h].posted = books[h].posted /\ books'[h].refused = books[h].refused
           /\ books[h].cut => books'[h].cut
           /\ job[s].op = "post" /\ job[s].row = h =>
                books'[h].cut \/ books[h].posted + books[h].refused = Owed(db, h),
         \A t \in Sessions \ {s} : job[t].op = "post" => books'[job[t].row] = books[job[t].row]
  PROVE  FInv'
<1>1. DOMAIN job' = Sessions /\ job'[s] = Idle /\ \A t \in Sessions \ {s} : job'[t] = job[t]
  BY DEF FInv, Sound
<1>2. ASSUME NEW t \in Sessions PROVE Facts(job'[t], db, moves, books')
  <2>1. CASE t = s
    BY <1>1, <2>1, IdleIs DEF Facts, JobTyped, PostFacts, BundleOps, UpdateOps, ListOps
  <2>2. CASE t # s
    <3>1. Facts(job[t], db, moves, books)
      BY DEF FInv, Sound
    <3>2. PostFacts(job[t], db, books')
      BY <2>2, <3>1 DEF Facts, PostFacts
    <3> QED
      BY <1>1, <2>2, <3>1, <3>2 DEF Facts
  <2> QED
    BY <2>1, <2>2
<1>3. \A t, u \in Sessions : t # u => Apart(job'[t], job'[u])
  <2> SUFFICES ASSUME NEW t \in Sessions, NEW u \in Sessions, t # u
               PROVE  Apart(job'[t], job'[u])
    OBVIOUS
  <2>1. CASE t = s \/ u = s
    BY <1>1, <2>1, IdleIs DEF Apart, TakesGoods, ListOps
  <2>2. CASE t # s /\ u # s
    BY <1>1, <2>2 DEF FInv, Sound
  <2> QED
    BY <2>1, <2>2
<1>4. OwnRows(mine', job', db)
  <2>1. OwnRows(mine, job, db)
    BY DEF FInv, Sound
  <2>2. \A t \in Sessions : Locked(job'[t]) = IF t = s THEN {} ELSE Locked(job[t])
    BY <1>1, IdleIs
  <2>3. \A t \in Sessions : job'[t].pc = "commit" => t # s
    BY <1>1, IdleIs
  <2> QED
    BY <1>1, <2>1, <2>2, <2>3 DEF OwnRows
<1>5. \A h \in Shipments : Booked(db, job', books', h)
  <2> SUFFICES ASSUME NEW h \in Shipments PROVE Booked(db, job', books', h)
    OBVIOUS
  <2>1. Booked(db, job, books, h)
    BY DEF FInv, Sound
  <2>2. (\E t \in Sessions : job[t].op = "post" /\ job[t].row = h)
          => \/ \E t \in Sessions : job'[t].op = "post" /\ job'[t].row = h
             \/ job[s].op = "post" /\ job[s].row = h
    BY <1>1
  <2> QED
    BY <2>1, <2>2 DEF Booked
<1>6. Sound(db, mine', job', moves, books')
  BY <1>1, <1>2, <1>3, <1>4, <1>5 DEF FInv, Sound
<1> QED
  BY <1>6 DEF FInv

\* The worker stops, or gives up waiting for a lock.
LEMMA StopKeeps ==
  ASSUME FloorAssumption, FInv, NEW s \in Sessions, Stop(s)
  PROVE  FInv'
<1>1. /\ job' = [job EXCEPT ![s] = Idle] /\ UNCHANGED <<db, moves>>
      /\ mine' = [mine EXCEPT ![s] = NoRows]
      /\ books' = IF job[s].op = "post" THEN [books EXCEPT ![job[s].row].cut = TRUE] ELSE books
  BY DEF Stop, Quit, Rollback
<1>2. DOMAIN mine = Sessions /\ BooksTyped(books)
  BY DEF FInv, Sound, OwnRows
<1>3. DOMAIN mine' = Sessions /\ DOMAIN mine'[s] = {} /\ \A t \in Sessions \ {s} : mine'[t] = mine[t]
  BY <1>1, <1>2 DEF NoRows
<1>4. job[s].op = "post" => job[s].row \in Shipments
  BY DEF FInv, Sound, Facts, JobTyped, BundleOps
<1>5. \A t \in Sessions \ {s} : ~(job[t].op = "post" /\ job[s].op = "post")
  BY DEF FInv, Sound, Apart, TakesGoods
<1>6. /\ BooksTyped(books')
      /\ \A h \in Shipments :
           /\ books'[h].posted = books[h].posted /\ books'[h].refused = books[h].refused
           /\ books[h].cut => books'[h].cut
           /\ job[s].op = "post" /\ job[s].row = h => books'[h].cut
  BY <1>1, <1>2, <1>4 DEF BooksTyped
<1>7. \A t \in Sessions \ {s} : job[t].op = "post" => books'[job[t].row] = books[job[t].row]
  BY <1>1, <1>5
<1>8. \A h \in Shipments :
        /\ books'[h].posted = books[h].posted /\ books'[h].refused = books[h].refused
        /\ books[h].cut => books'[h].cut
        /\ job[s].op = "post" /\ job[s].row = h =>
             books'[h].cut \/ books[h].posted + books[h].refused = Owed(db, h)
  BY <1>6
<1>9. job' = [job EXCEPT ![s] = Idle] /\ UNCHANGED <<db, moves>> /\ BooksTyped(books')
  BY <1>1, <1>6
<1> QED
  BY <1>3, <1>7, <1>8, <1>9, EndsWell

\* A posting ends when no line is left.
LEMMA EndKeeps ==
  ASSUME FloorAssumption, FInv, NEW s \in Sessions, EndPosting(s)
  PROVE  FInv'
<1>1. /\ job' = [job EXCEPT ![s] = Idle] /\ UNCHANGED <<db, mine, moves, books>>
      /\ job[s].op = "post" /\ job[s].pc = "line" /\ job[s].lines = {}
  BY DEF EndPosting, Quit, Read, At
<1>2. /\ DOMAIN mine = Sessions /\ BooksTyped(books) /\ DOMAIN mine[s] = Locked(job[s])
      /\ Facts(job[s], db, moves, books)
  BY DEF FInv, Sound, OwnRows
<1>3. job[s].row \in Shipments
  BY <1>1, <1>2 DEF Facts, JobTyped, BundleOps
<1>4. books[job[s].row].posted + books[job[s].row].refused = Owed(db, job[s].row)
  <2>1. PackedIn(db, job[s].lines) = 0
    BY <1>1, PackedNothing
  <2>2. books[job[s].row].posted \in Nat /\ books[job[s].row].refused \in Nat
    BY <1>2, <1>3 DEF BooksTyped
  <2>3. books[job[s].row].posted + books[job[s].row].refused + PackedIn(db, job[s].lines) = Owed(db, job[s].row)
    BY <1>1, <1>2 DEF Facts, PostFacts
  <2> QED
    BY <2>1, <2>2, <2>3
<1>5. DOMAIN mine[s] = {}
  BY <1>1, <1>2 DEF Locked
<1>6. \A t \in Sessions \ {s} : books'[job[t].row] = books[job[t].row]
  BY <1>1
<1>7. DOMAIN mine' = Sessions /\ DOMAIN mine'[s] = {} /\ \A t \in Sessions \ {s} : mine'[t] = mine[t]
  BY <1>1, <1>2, <1>5
<1>8. /\ BooksTyped(books')
      /\ \A h \in Shipments :
           /\ books'[h].posted = books[h].posted /\ books'[h].refused = books[h].refused
           /\ books[h].cut => books'[h].cut
           /\ job[s].op = "post" /\ job[s].row = h => books[h].posted + books[h].refused = Owed(db, h)
  BY <1>1, <1>2, <1>4
<1> QED
  BY <1>1, <1>6, <1>7, <1>8, EndsWell

-----------------------------------------------------------------------------
(* A function writes its row.                                              *)

\* The write of a row nobody else has locked: what is written is what the job says.
LEMMA PutKeeps ==
  ASSUME FInv, NEW s \in Sessions, job[s].op \notin {"idle", "post"}, job[s].pc \in {"put", "carton"},
         job' = [job EXCEPT ![s].pc = "commit"], UNCHANGED <<db, moves, books>>,
         Free(s, Target(job[s])), NEW rows, mine' = [mine EXCEPT ![s] = rows],
         DOMAIN rows = {Target(job[s])}, rows[Target(job[s])] = Written(job[s], db)
  PROVE  FInv'
<1> DEFINE i == job[s]
           j == [i EXCEPT !.pc = "commit"]
<1>1. Facts(i, db, moves, books) /\ DOMAIN i = JobFields /\ DOMAIN job = Sessions
  BY DEF FInv, Sound, Facts, JobTyped
<1>2. /\ DOMAIN j = JobFields /\ j.op = i.op /\ j.pc = "commit" /\ j.row = i.row /\ j.set = i.set
      /\ j.scan = i.scan /\ j.carton = i.carton /\ j.lines = i.lines
  <2> HIDE DEF i
  <2> QED
    BY <1>1 DEF JobFields
<1>3. job'[s] = j /\ DOMAIN job' = Sessions /\ \A t \in Sessions \ {s} : job'[t] = job[t]
  BY <1>1
<1>4. Facts(j, db, moves, books)
  <2>1. i.op \notin {"idle", "post"} /\ i.pc \in {"put", "carton"}
    OBVIOUS
  <2> HIDE DEF i, j
  <2> QED
    BY <1>1, <1>2, <2>1 DEF Facts, JobTyped, BundleFacts, ShipmentFacts, SetTyped, CartonFacts, PostFacts,
                            BundleOps, ListOps, Ops, Points
<1> HIDE DEF j
<1>5. \A t \in Sessions : Facts(job'[t], db, moves, books)
  BY <1>3, <1>4 DEF FInv, Sound
<1>6. \A t, u \in Sessions : t # u => Apart(job'[t], job'[u])
  <2> SUFFICES ASSUME NEW t \in Sessions, NEW u \in Sessions, t # u
               PROVE  Apart(job'[t], job'[u])
    OBVIOUS
  <2>1. /\ job'[t].op = job[t].op /\ job'[t].row = job[t].row /\ job'[t].carton = job[t].carton
        /\ job'[u].op = job[u].op /\ job'[u].row = job[u].row /\ job'[u].carton = job[u].carton
    BY <1>2, <1>3
  <2>2. Apart(job[t], job[u])
    BY DEF FInv, Sound
  <2> QED
    BY <2>1, <2>2 DEF Apart
<1>7. OwnRows(mine', job', db)
  <2>1. OwnRows(mine, job, db)
    BY DEF FInv, Sound
  <2>2. DOMAIN mine' = Sessions /\ mine'[s] = rows /\ \A t \in Sessions \ {s} : mine'[t] = mine[t]
    BY <2>1 DEF OwnRows
  <2>3. /\ Locked(job'[s]) = {Target(i)} /\ Target(job'[s]) = Target(i) /\ Written(job'[s], db) = Written(i, db)
        /\ \A t \in Sessions \ {s} : Locked(job'[t]) = Locked(job[t])
    BY <1>2, <1>3 DEF Locked, Target, Written
  <2>4. \A t \in Sessions \ {s} : Target(i) \notin Locked(job[t])
    BY <2>1 DEF Free, OwnRows
  <2>5. ASSUME NEW t \in Sessions
        PROVE  /\ DOMAIN mine'[t] = Locked(job'[t])
               /\ job'[t].pc = "commit" => mine'[t][Target(job'[t])] = Written(job'[t], db)
    <3>1. CASE t = s
      BY <2>2, <2>3, <3>1
    <3>2. CASE t # s
      BY <1>3, <2>1, <2>2, <3>2 DEF OwnRows
    <3> QED
      BY <3>1, <3>2
  <2>6. ASSUME NEW t \in Sessions, NEW u \in Sessions, t # u
        PROVE  Locked(job'[t]) \cap Locked(job'[u]) = {}
    <3>1. Locked(job[t]) \cap Locked(job[u]) = {}
      BY <2>1, <2>6 DEF OwnRows
    <3> QED
      BY <2>3, <2>4, <2>6, <3>1
  <2> QED
    BY <2>2, <2>5, <2>6 DEF OwnRows
<1>8. \A h \in Shipments : Booked(db, job', books, h)
  <2> SUFFICES ASSUME NEW h \in Shipments PROVE Booked(db, job', books, h)
    OBVIOUS
  <2>1. Booked(db, job, books, h)
    BY DEF FInv, Sound
  <2>2. (\E t \in Sessions : job'[t].op = "post" /\ job'[t].row = h)
          <=> \E t \in Sessions : job[t].op = "post" /\ job[t].row = h
    BY <1>2, <1>3
  <2> QED
    BY <2>1, <2>2 DEF Booked
<1>9. Sound(db, mine', job', moves, books)
  BY <1>3, <1>5, <1>6, <1>7, <1>8 DEF FInv, Sound
<1> QED
  BY <1>9 DEF FInv

\* The UPDATE of a bundle or a shipment, and the one statement about a packing-list line.
LEMMA PutRowKeeps ==
  ASSUME FInv, NEW s \in Sessions, PutRow(s) \/ PutCarton(s)
  PROVE  FInv'
<1>1. /\ OwnRows(mine, job, db) /\ Facts(job[s], db, moves, books)
  BY DEF FInv, Sound
<1>2. job[s].pc \in {"put", "carton"}
  BY DEF PutRow, PutCarton, At
<1>3. DOMAIN mine[s] = {}
  BY <1>1, <1>2 DEF OwnRows, Locked
<1>4. CASE PutRow(s)
  <2> DEFINE row == job[s].row
             v == Over(job[s].set, Seen(s, row))
             rows == Over([y \in {row} |-> v], mine[s])
  <2>1. /\ job[s].op \in BundleOps \cup UpdateOps /\ job[s].pc = "put"
        /\ Free(s, row) /\ mine' = [mine EXCEPT ![s] = rows]
        /\ job' = [job EXCEPT ![s].pc = "commit"] /\ UNCHANGED <<db, moves, books>>
    BY <1>4 DEF PutRow, At, Write, Goto, BundleOps, UpdateOps
  <2>2. Target(job[s]) = row /\ Written(job[s], db) = v
    <3>1. Seen(s, row) = db[row]
      BY <1>3 DEF Seen
    <3> QED
      BY <2>1, <3>1 DEF Target, Written, BundleOps, UpdateOps, ListOps
  <2>3. DOMAIN rows = {row} /\ rows[row] = v
    <3> HIDE DEF v, row
    <3> QED
      BY <1>3 DEF Over
  <2>4. job[s].op \notin {"idle", "post"}
    BY <2>1 DEF BundleOps, UpdateOps
  <2> HIDE DEF rows, v
  <2> QED
    BY <2>1, <2>2, <2>3, <2>4, PutKeeps
<1>5. CASE PutCarton(s)
  <2> DEFINE row == job[s].carton
             v == job[s].set
             rows == Over([y \in {row} |-> v], mine[s])
  <2>1. /\ job[s].op \in ListOps /\ job[s].pc = "carton"
        /\ Free(s, row) /\ mine' = [mine EXCEPT ![s] = rows]
        /\ job' = [job EXCEPT ![s].pc = "commit"] /\ UNCHANGED <<db, moves, books>>
    BY <1>5 DEF PutCarton, At, Write, Goto, ListOps
  <2>2. Target(job[s]) = row /\ Written(job[s], db) = v
    BY <2>1 DEF Target, Written
  <2>3. DOMAIN rows = {row} /\ rows[row] = v
    <3> HIDE DEF v, row
    <3> QED
      BY <1>3 DEF Over
  <2>4. job[s].op \notin {"idle", "post"}
    BY <2>1 DEF ListOps
  <2> HIDE DEF rows
  <2> QED
    BY <2>1, <2>2, <2>3, <2>4, PutKeeps
<1> QED
  BY <1>4, <1>5

-----------------------------------------------------------------------------
(* What follows a departure: line by line, out of the store.               *)

\* The rows a job is about are rows of the bundles, the shipments or the packing lists.
LEMMA JobRows ==
  ASSUME FInv, NEW s \in Sessions
  PROVE  /\ job[s].op \in BundleOps => job[s].row \in Bundles
         /\ job[s].op \in UpdateOps \cup ListOps \cup {"post"} => job[s].row \in Shipments
         /\ job[s].op \in ListOps => job[s].carton \in Cartons
         /\ job[s].op \in BundleOps \cup UpdateOps \cup ListOps \cup {"post", "idle"}
         /\ job[s].op \in {"idle", "post"} => job[s].pc # "commit"
<1>1. JobTyped(job[s])
  BY DEF FInv, Sound, Facts
<1> QED
  BY <1>1, IdleIs DEF JobTyped, BundleOps, UpdateOps, ListOps, Ops, Points

\* One step of a posting: the store's row and the shipment's reckoning change, and agree.
LEMMA PostStep ==
  ASSUME FloorAssumption, FInv, NEW s \in Sessions, job[s].op = "post",
         NEW j, job' = [job EXCEPT ![s] = j], JobTyped(j), j.op = "post", j.row = job[s].row,
         j.pc \in {"line", "ship"}, UNCHANGED <<mine, moves>>,
         RowsTyped(db'), \A r \in Documents \ {Store} : db'[r] = db[r],
         BooksTyped(books'), \A h \in Shipments \ {job[s].row} : books'[h] = books[h],
         PostFacts(j, db', books')
  PROVE  FInv'
<1>1. DOMAIN job' = Sessions /\ job'[s] = j /\ \A t \in Sessions \ {s} : job'[t] = job[t]
  BY DEF FInv, Sound
<1>2. /\ \A b \in Bundles : db'[b] = db[b]
      /\ \A h \in Shipments : db'[h] = db[h]
      /\ \A k \in Cartons : db'[k] = db[k]
  BY Apartments DEF Documents
<1>3. \A t \in Sessions \ {s} : job[t].op # "post"
  BY DEF FInv, Sound, Apart, TakesGoods
<1>4. \A h \in Shipments : Owed(db', h) = Owed(db, h)
  BY <1>2, OwedSame
<1>5. j.row \in Shipments /\ ShipmentFacts(j, db[j.row])
  <2>1. ShipmentFacts(job[s], db[job[s].row])
    BY DEF FInv, Sound, Facts
  <2> QED
    BY <2>1, JobRows DEF ShipmentFacts, UpdateOps
<1>6. ASSUME NEW t \in Sessions PROVE Facts(job'[t], db', moves, books')
  <2>1. CASE t = s
    BY <1>1, <1>2, <1>5, <2>1 DEF Facts, BundleOps, ListOps
  <2>2. CASE t # s
    <3>1. Facts(job[t], db, moves, books) /\ job'[t] = job[t]
      BY <1>1, <2>2 DEF FInv, Sound
    <3> QED
      BY <1>2, <1>3, <2>2, <3>1, JobRows DEF Facts, PostFacts
  <2> QED
    BY <2>1, <2>2
<1>7. \A t, u \in Sessions : t # u => Apart(job'[t], job'[u])
  <2> SUFFICES ASSUME NEW t \in Sessions, NEW u \in Sessions, t # u
               PROVE  Apart(job'[t], job'[u])
    OBVIOUS
  <2>1. /\ job'[t].op = job[t].op /\ job'[t].row = job[t].row /\ (job[t].op \in ListOps => job'[t] = job[t])
        /\ job'[u].op = job[u].op /\ job'[u].row = job[u].row /\ (job[u].op \in ListOps => job'[u] = job[u])
    BY <1>1 DEF ListOps
  <2>2. Apart(job[t], job[u])
    BY DEF FInv, Sound
  <2> QED
    BY <2>1, <2>2 DEF Apart, ListOps
<1>8. OwnRows(mine', job', db')
  <2>1. OwnRows(mine, job, db)
    BY DEF FInv, Sound
  <2>2. job[s].pc # "commit" /\ j.pc # "commit"
    BY JobRows
  <2>3. \A t \in Sessions : Locked(job'[t]) = Locked(job[t])
    BY <1>1, <2>2 DEF Locked
  <2>4. \A t \in Sessions : job'[t].pc = "commit" => job'[t] = job[t] /\ Written(job[t], db') = Written(job[t], db)
    <3> SUFFICES ASSUME NEW t \in Sessions, job'[t].pc = "commit"
                 PROVE  job'[t] = job[t] /\ Written(job[t], db') = Written(job[t], db)
      OBVIOUS
    <3>1. job'[t] = job[t] /\ job[t].pc = "commit"
      BY <1>1, <2>2
    <3>2. job[t].op \notin ListOps => db'[job[t].row] = db[job[t].row]
      BY <1>2, <3>1, JobRows
    <3> QED
      BY <3>1, <3>2 DEF Written
  <2> QED
    BY <2>1, <2>3, <2>4 DEF OwnRows
<1>9. \A h \in Shipments : Booked(db', job', books', h)
  <2> SUFFICES ASSUME NEW h \in Shipments PROVE Booked(db', job', books', h)
    OBVIOUS
  <2>1. Booked(db, job, books, h)
    BY DEF FInv, Sound
  <2>2. (\E t \in Sessions : job'[t].op = "post" /\ job'[t].row = h)
          <=> \E t \in Sessions : job[t].op = "post" /\ job[t].row = h
    BY <1>1
  <2>3. CASE h # job[s].row
    BY <1>2, <1>4, <2>1, <2>2, <2>3 DEF Booked
  <2>4. CASE h = job[s].row
    <3>1. db'[h].status # "none" /\ db'[h].stamp
      BY <1>2, <1>5, <2>4 DEF ShipmentFacts
    <3>2. \E t \in Sessions : job'[t].op = "post" /\ job'[t].row = h
      BY <1>1, <2>4
    <3>3. books'[h].posted + books'[h].refused <= Owed(db', h)
      <4>1. /\ j.lines \in SUBSET Cartons
            /\ books'[h].posted + books'[h].refused + PackedIn(db', j.lines) = Owed(db', h)
        BY <2>4 DEF PostFacts, ListOf
      <4>2. PackedIn(db', j.lines) \in Nat
        BY <4>1, PackedTakeOut DEF RowsTyped
      <4>3. books'[h].posted \in Nat /\ books'[h].refused \in Nat
        BY DEF BooksTyped
      <4> QED
        BY <4>1, <4>2, <4>3
    <3> QED
      BY <3>1, <3>2, <3>3 DEF Booked
  <2> QED
    BY <2>3, <2>4
<1>10. DOMAIN moves = Bundles /\ \A b \in Bundles : OnFloor(db'[b].status, moves[b])
  BY <1>2 DEF FInv, Sound
<1>11. Sound(db', mine', job', moves', books')
  BY <1>1, <1>6, <1>7, <1>8, <1>9, <1>10 DEF Sound
<1> QED
  BY <1>11 DEF FInv

\* What is known of a session that posts a departure.
LEMMA PostingIs ==
  ASSUME FloorAssumption, FInv, NEW s \in Sessions, job[s].op = "post"
  PROVE  /\ job[s].row \in Shipments /\ DOMAIN job[s] = JobFields /\ PostFacts(job[s], db, books)
         /\ BooksTyped(books) /\ RowsTyped(db) /\ db[job[s].row].status # "none"
         /\ DOMAIN mine[s] = {}
         /\ ListOf(db, job[s].row) \in SUBSET Cartons
<1>1. Facts(job[s], db, moves, books) /\ OwnRows(mine, job, db)
  BY DEF FInv, Sound
<1>2. Locked(job[s]) = {}
  BY JobRows DEF Locked
<1> QED
  BY <1>1, <1>2, JobRows DEF FInv, Sound, Facts, JobTyped, ShipmentFacts, OwnRows, ListOf

\* The lines are read: they are what the shipment owes.
LEMMA ReadLinesKeeps ==
  ASSUME FloorAssumption, FInv, NEW s \in Sessions, ReadLines(s)
  PROVE  FInv'
<1> DEFINE i == job[s]
           h == i.row
           lines == IF Seen(s, h).ordered THEN {k \in Cartons : db[k].on = h} ELSE {}
           j == [i EXCEPT !.pc = "line", !.lines = lines]
<1>1. /\ i.op = "post" /\ i.pc = "list" /\ job' = [job EXCEPT ![s] = j]
      /\ UNCHANGED <<db, mine, moves, books>>
  BY DEF ReadLines, At, Read
<1>2. /\ h \in Shipments /\ DOMAIN i = JobFields /\ PostFacts(i, db, books) /\ RowsTyped(db)
      /\ BooksTyped(books) /\ db[h].status # "none" /\ DOMAIN mine[s] = {}
  BY <1>1, PostingIs
<1>3. /\ DOMAIN j = JobFields /\ j.op = "post" /\ j.pc = "line" /\ j.row = h /\ j.lines = lines
  <2> HIDE DEF i, lines
  <2> QED
    BY <1>1, <1>2 DEF JobFields
<1>4. lines = IF db[h].ordered THEN ListOf(db, h) ELSE {}
  BY <1>2 DEF Seen, ListOf
<1> HIDE DEF j, lines, h
<1>5. lines \subseteq ListOf(db, h) /\ PackedIn(db, lines) = Owed(db, h) /\ Owed(db, h) \in Int
  <2>1. ListOf(db, h) \in SUBSET Cartons
    BY DEF ListOf
  <2>2. PackedIn(db, ListOf(db, h)) \in Nat
    BY <1>2, <2>1, PackedTakeOut DEF RowsTyped
  <2> QED
    BY <1>2, <1>4, <2>2, PackedNothing DEF Owed
<1>6. PostFacts(j, db, books)
  <2>1. books[h].posted + books[h].refused = 0
    BY <1>1, <1>2 DEF PostFacts, h
  <2>2. books[h].posted + books[h].refused + PackedIn(db, lines) = Owed(db, h)
    BY <1>5, <2>1
  <2> QED
    BY <1>3, <1>5, <2>2 DEF PostFacts
<1>7. JobTyped(j)
  BY <1>2, <1>3 DEF JobTyped, Ops, Points, BundleOps, ListOps
<1> QED
  BY <1>1, <1>2, <1>3, <1>6, <1>7, PostStep DEF h

\* A line is checked: refused for good, or about to be taken out.
LEMMA CheckLineKeeps ==
  ASSUME FloorAssumption, FInv, NEW s \in Sessions, NEW k \in Cartons, CheckLine(s, k)
  PROVE  FInv'
<1> DEFINE i == job[s]
           h == i.row
           lines == IF OnHand(k) THEN i.lines ELSE i.lines \ {k}
           pc == IF OnHand(k) THEN "ship" ELSE "line"
           c == IF OnHand(k) THEN k ELSE "none"
           j == [i EXCEPT !.pc = pc, !.carton = c, !.lines = lines]
           out == IF OnHand(k) THEN 0 ELSE db[k].pieces
<1>1. /\ i.op = "post" /\ i.pc = "line" /\ k \in i.lines
      /\ job' = [job EXCEPT ![s] = j]
      /\ books' = [books EXCEPT ![h].refused = @ + out]
      /\ UNCHANGED <<db, mine, moves>>
  BY DEF CheckLine, At, Read, AfterRefusal
<1>2. /\ h \in Shipments /\ DOMAIN i = JobFields /\ PostFacts(i, db, books) /\ RowsTyped(db)
      /\ BooksTyped(books) /\ ListOf(db, h) \in SUBSET Cartons
  BY <1>1, PostingIs
<1>3. /\ DOMAIN j = JobFields /\ j.op = "post" /\ j.pc = pc /\ j.row = h /\ j.lines = lines /\ j.carton = c
  <2> HIDE DEF i, lines, pc, c
  <2> QED
    BY <1>1, <1>2 DEF JobFields
<1>4. /\ i.lines \subseteq ListOf(db, h)
      /\ books[h].posted + books[h].refused + PackedIn(db, i.lines) = Owed(db, h)
  BY <1>1, <1>2 DEF PostFacts
<1>5. /\ PackedIn(db, i.lines) = db[k].pieces + PackedIn(db, i.lines \ {k})
      /\ PackedIn(db, i.lines) \in Nat /\ PackedIn(db, i.lines \ {k}) \in Nat
  <2>1. i.lines \in SUBSET Cartons /\ i.lines \ {k} \in SUBSET Cartons
    BY <1>2, <1>4
  <2> QED
    BY <1>1, <1>2, <2>1, PackedTakeOut DEF RowsTyped
<1>6. out \in Nat /\ db[k].pieces \in Nat
  BY <1>2, LinePieces DEF RowsTyped
<1> HIDE DEF j, h
<1>7. /\ BooksTyped(books') /\ \A x \in Shipments \ {h} : books'[x] = books[x]
      /\ books'[h].posted = books[h].posted /\ books'[h].refused = books[h].refused + out
      /\ books[h].posted \in Nat /\ books[h].refused \in Nat
  <2> HIDE DEF out
  <2> QED
    BY <1>1, <1>2, <1>6 DEF BooksTyped
<1>8. PostFacts(j, db, books')
  <2>1. lines \subseteq ListOf(db, h)
    BY <1>4
  <2>2. books'[h].posted + books'[h].refused + PackedIn(db, lines) = Owed(db, h)
    <3>1. CASE OnHand(k)
      BY <1>4, <1>5, <1>7, <3>1
    <3>2. CASE ~OnHand(k)
      <4>1. out = db[k].pieces /\ lines = i.lines \ {k}
        BY <3>2
      <4> HIDE DEF out, lines, i
      <4> QED
        BY <1>4, <1>5, <1>6, <1>7, <4>1
    <3> QED
      BY <3>1, <3>2
  <2>3. pc = "ship" => c \in lines /\ db[Store].packed - db[Store].shipped >= db[c].pieces
    BY <1>1 DEF OnHand
  <2>4. pc # "list"
    OBVIOUS
  <2> HIDE DEF lines, pc, c, i
  <2> QED
    BY <1>3, <2>1, <2>2, <2>3, <2>4 DEF PostFacts
<1>9. JobTyped(j)
  BY <1>2, <1>3 DEF JobTyped, Ops, Points, BundleOps, ListOps
<1> QED
  BY <1>1, <1>2, <1>3, <1>7, <1>8, <1>9, PostStep DEF h

\* A line is taken out: the store had it.
LEMMA ShipLineKeeps ==
  ASSUME FloorAssumption, FInv, NEW s \in Sessions, ShipLine(s)
  PROVE  FInv'
<1> DEFINE i == job[s]
           h == i.row
           k == i.carton
           n == db[k].pieces
           lines == i.lines \ {k}
           j == [i EXCEPT !.pc = "line", !.carton = "none", !.lines = lines]
<1>1. /\ i.op = "post" /\ i.pc = "ship"
      /\ job' = [job EXCEPT ![s] = j]
      /\ books' = [books EXCEPT ![h].posted = @ + n]
      /\ db' = [db EXCEPT ![Store].shipped = @ + n]
      /\ UNCHANGED <<mine, moves>>
  BY DEF ShipLine, At
<1>2. /\ h \in Shipments /\ DOMAIN i = JobFields /\ PostFacts(i, db, books) /\ RowsTyped(db)
      /\ BooksTyped(books) /\ ListOf(db, h) \in SUBSET Cartons
  BY <1>1, PostingIs
<1>3. /\ DOMAIN j = JobFields /\ j.op = "post" /\ j.pc = "line" /\ j.row = h /\ j.lines = lines
  <2> HIDE DEF i, lines
  <2> QED
    BY <1>1, <1>2 DEF JobFields
<1>4. /\ i.lines \subseteq ListOf(db, h) /\ k \in i.lines
      /\ books[h].posted + books[h].refused + PackedIn(db, i.lines) = Owed(db, h)
      /\ db[Store].packed - db[Store].shipped >= n
  BY <1>1, <1>2 DEF PostFacts
<1>5. /\ PackedIn(db, i.lines) = n + PackedIn(db, lines)
      /\ PackedIn(db, i.lines) \in Nat /\ PackedIn(db, lines) \in Nat
      /\ lines \in SUBSET Cartons /\ k \in Cartons
  <2>1. i.lines \in SUBSET Cartons /\ i.lines \ {k} \in SUBSET Cartons
    BY <1>2, <1>4
  <2> QED
    BY <1>2, <1>4, <2>1, PackedTakeOut DEF RowsTyped
<1>6. n \in Nat
  BY <1>2, <1>5, LinePieces DEF RowsTyped
<1> HIDE DEF j, h, k, n
<1>7. /\ BooksTyped(books') /\ \A x \in Shipments \ {h} : books'[x] = books[x]
      /\ books'[h].posted = books[h].posted + n /\ books'[h].refused = books[h].refused
      /\ books[h].posted \in Nat /\ books[h].refused \in Nat
  BY <1>1, <1>2, <1>6 DEF BooksTyped
<1>8. RowsTyped(db') /\ \A r \in Documents \ {Store} : db'[r] = db[r]
  <2>1. DOMAIN db = Documents /\ Store \in Documents
    BY <1>2 DEF RowsTyped, Documents
  <2>2. db[Store] \in [packed : 0 .. MaxPacked, shipped : 0 .. MaxPacked] /\ MaxPacked \in Nat
    BY <1>2 DEF RowsTyped, FloorAssumption
  <2>3. /\ DOMAIN db' = Documents /\ \A r \in Documents \ {Store} : db'[r] = db[r]
        /\ db'[Store] = [db[Store] EXCEPT !.shipped = @ + n]
    BY <1>1, <2>1
  <2>4. /\ db'[Store] \in [packed : 0 .. MaxPacked, shipped : 0 .. MaxPacked]
        /\ db'[Store].shipped <= db'[Store].packed
    BY <1>4, <1>6, <2>2, <2>3
  <2>5. \A r \in Bundles \cup Shipments \cup Cartons : db'[r] = db[r]
    BY <2>3, Apartments DEF Documents
  <2> QED
    BY <1>2, <2>3, <2>4, <2>5 DEF RowsTyped
<1>9. PostFacts(j, db', books')
  <2>1. \A x \in Cartons : db'[x] = db[x]
    BY <1>8, Apartments DEF Documents
  <2>2. db'[h] = db[h]
    BY <1>2, <1>8, Apartments DEF Documents, h
  <2>3. Owed(db', h) = Owed(db, h) /\ ListOf(db', h) = ListOf(db, h)
    BY <2>1, <2>2, OwedSame
  <2>4. PackedIn(db', lines) = PackedIn(db, lines)
    <3> HIDE DEF lines
    <3> QED
      BY <1>5, <2>1, PackedSame
  <2>5. lines \subseteq ListOf(db', h)
    BY <1>4, <2>3
  <2>6. books'[h].posted + books'[h].refused + PackedIn(db', lines) = Owed(db', h)
    <3> HIDE DEF lines, i
    <3> QED
      BY <1>4, <1>5, <1>6, <1>7, <2>3, <2>4
  <2> HIDE DEF lines, i
  <2> QED
    BY <1>3, <2>5, <2>6 DEF PostFacts
<1>10. JobTyped(j)
  BY <1>2, <1>3 DEF JobTyped, Ops, Points, BundleOps, ListOps, h
<1> QED
  BY <1>1, <1>3, <1>7, <1>8, <1>9, <1>10, PostStep DEF h

-----------------------------------------------------------------------------
(* The start, new documents, and goods packed.                             *)

\* The initial state is sound.
LEMMA InitSound ==
  ASSUME FloorAssumption, Init
  PROVE  FInv
<1>1. /\ mine = [s \in Sessions |-> NoRows] /\ job = [s \in Sessions |-> Idle]
      /\ moves = [b \in Bundles |-> [stands |-> [x \in Sections |-> 0], scans |-> 0]]
      /\ books = [h \in Shipments |-> [posted |-> 0, refused |-> 0, cut |-> FALSE]]
  BY DEF Init
<1>2. /\ DOMAIN db = Documents
      /\ db[Store] = [packed |-> 0, shipped |-> 0]
      /\ \A k \in Cartons : db[k] = Gone
      /\ \A d \in Bundles \cup Shipments : db[d] = NoDocument
  BY Apartments DEF Init, Documents
<1>3. RowsTyped(db)
  <2>1. db[Store] \in [packed : 0 .. MaxPacked, shipped : 0 .. MaxPacked] /\ db[Store].shipped <= db[Store].packed
    BY <1>2 DEF FloorAssumption
  <2>2. \A k \in Cartons : db[k] \in CartonRow
    BY <1>2 DEF CartonRow
  <2>3. \A d \in Bundles \cup Shipments : db[d].status = "none"
    BY <1>2 DEF NoDocument
  <2> QED
    BY <1>2, <2>1, <2>2, <2>3 DEF RowsTyped, BundleStatus
<1>4. \A s \in Sessions : job[s] = Idle
  BY <1>1
<1>5. \A s \in Sessions : Facts(job[s], db, moves, books)
  BY <1>4, IdleIs DEF Facts, JobTyped, PostFacts, BundleOps, UpdateOps, ListOps
<1>6. \A s, t \in Sessions : Apart(job[s], job[t])
  BY <1>4, IdleIs DEF Apart, TakesGoods, ListOps
<1>7. OwnRows(mine, job, db)
  <2>1. \A s \in Sessions : DOMAIN mine[s] = {}
    BY <1>1 DEF NoRows
  <2> QED
    BY <1>1, <1>4, <2>1, IdleIs DEF OwnRows
<1>8. \A b \in Bundles : OnFloor(db[b].status, moves[b])
  BY <1>1, <1>2 DEF OnFloor, NoDocument
<1>9. BooksTyped(books) /\ \A h \in Shipments : Booked(db, job, books, h)
  <2>1. \A h \in Shipments : books[h].posted + books[h].refused = 0 /\ db[h].status = "none" /\ Owed(db, h) = 0
    BY <1>1, <1>2 DEF NoDocument, Owed
  <2>2. BooksTyped(books)
    BY <1>1 DEF BooksTyped
  <2> QED
    BY <2>1, <2>2 DEF Booked
<1>10. DOMAIN job = Sessions /\ DOMAIN moves = Bundles
  BY <1>1
<1>11. Sound(db, mine, job, moves, books)
  BY <1>3, <1>5, <1>6, <1>7, <1>8, <1>9, <1>10 DEF Sound
<1> QED
  BY <1>11 DEF FInv

\* A document nobody works on yet appears.
LEMMA AppearsWell ==
  ASSUME FloorAssumption, FInv, NEW d \in Bundles \cup Shipments, db[d].status = "none",
         NEW row, db'[d] = row, \A r \in Documents \ {d} : db'[r] = db[r], UNCHANGED <<mine, job, books>>,
         RowsTyped(db'), d \in Shipments => ~row.stamp,
         DOMAIN moves' = Bundles, \A b \in Bundles \ {d} : moves'[b] = moves[b],
         d \in Bundles => OnFloor(row.status, moves'[d])
  PROVE  FInv'
<1>1. /\ RowsTyped(db) /\ DOMAIN job = Sessions /\ OwnRows(mine, job, db)
      /\ \A s, t \in Sessions : s # t => Apart(job[s], job[t])
      /\ \A b \in Bundles : OnFloor(db[b].status, moves[b])
      /\ BooksTyped(books) /\ \A h \in Shipments : Booked(db, job, books, h)
      /\ \A s \in Sessions : Facts(job[s], db, moves, books)
  BY DEF FInv, Sound
<1>2. DOMAIN db = Documents /\ d \in Documents /\ d # Store /\ d \notin Cartons
  BY <1>1, Apartments DEF RowsTyped, Documents
<1>3. /\ db'[d] = row /\ db'[Store] = db[Store]
      /\ \A b \in Bundles \ {d} : db'[b] = db[b]
      /\ \A h \in Shipments \ {d} : db'[h] = db[h]
      /\ \A k \in Cartons : db'[k] = db[k]
  BY <1>2, Apartments DEF Documents
<1>4. \A s \in Sessions : job[s].op # "idle" => job[s].row # d
  <2> SUFFICES ASSUME NEW s \in Sessions, job[s].op # "idle" PROVE db[job[s].row].status # "none"
    OBVIOUS
  <2> QED
    BY <1>1, JobRows DEF Facts, BundleFacts, ShipmentFacts
<1>5. \A h \in Shipments \ {d} : Owed(db', h) = Owed(db, h) /\ ListOf(db', h) = ListOf(db, h)
  <2>1. (\A k \in Cartons : db'[k] = db[k]) /\ \A h \in Shipments \ {d} : db'[h] = db[h]
    BY <1>2, <1>3
  <2> SUFFICES ASSUME NEW h \in Shipments \ {d}
               PROVE  Owed(db', h) = Owed(db, h) /\ ListOf(db', h) = ListOf(db, h)
    OBVIOUS
  <2>2. db'[h].status # "none" /\ db'[h].ordered <=> db[h].status # "none" /\ db[h].ordered
    BY <2>1
  <2>3. \A k \in Cartons : db'[k] = db[k] \/ (db'[k].on # h /\ db[k].on # h)
    BY <2>1
  <2> QED
    BY <2>2, <2>3, OwedSame
<1>6. ASSUME NEW s \in Sessions PROVE Facts(job[s], db', moves', books)
  <2>1. CASE job[s].op = "idle"
    BY <1>1, <2>1 DEF Facts, PostFacts, BundleOps, UpdateOps, ListOps
  <2>2. CASE job[s].op # "idle"
    <3>1. db'[job[s].row] = db[job[s].row] /\ job[s].row # d
      BY <1>3, <1>4, <2>2, JobRows
    <3>2. Facts(job[s], db, moves, books)
      BY <1>1
    <3>3. job[s].op \in BundleOps => moves'[job[s].row] = moves[job[s].row]
      BY <3>1, JobRows
    <3>4. job[s].op \in ListOps => db'[job[s].carton] = db[job[s].carton]
      BY <1>2, <1>3, JobRows
    <3>5. PostFacts(job[s], db', books)
      <4> SUFFICES ASSUME job[s].op = "post" PROVE PostFacts(job[s], db', books)
        BY DEF PostFacts
      <4>1. PostFacts(job[s], db, books) /\ job[s].row \in Shipments
        BY <3>2, JobRows DEF Facts
      <4>2. /\ Owed(db', job[s].row) = Owed(db, job[s].row) /\ ListOf(db', job[s].row) = ListOf(db, job[s].row)
            /\ db'[Store] = db[Store]
        BY <1>2, <1>3, <1>5, <3>1, <4>1
      <4>3. job[s].pc \in {"line", "ship"} =>
              /\ PackedIn(db', job[s].lines) = PackedIn(db, job[s].lines)
              /\ job[s].pc = "ship" => db'[job[s].carton] = db[job[s].carton]
        <5> SUFFICES ASSUME job[s].pc \in {"line", "ship"}
                     PROVE  /\ PackedIn(db', job[s].lines) = PackedIn(db, job[s].lines)
                            /\ job[s].pc = "ship" => db'[job[s].carton] = db[job[s].carton]
          OBVIOUS
        <5>1. job[s].lines \in SUBSET Cartons /\ (job[s].pc = "ship" => job[s].carton \in Cartons)
          BY <4>1 DEF PostFacts, ListOf
        <5>2. \A k \in Cartons : db'[k] = db[k]
          BY <1>2, <1>3
        <5>3. \A k \in job[s].lines : db'[k] = db[k]
          BY <5>1, <5>2
        <5>4. PackedIn(db', job[s].lines) = PackedIn(db, job[s].lines)
          BY <5>1, <5>3, PackedSame
        <5> QED
          BY <5>1, <5>2, <5>4
      <4> QED
        BY <4>1, <4>2, <4>3 DEF PostFacts
    <3> QED
      BY <3>1, <3>2, <3>3, <3>4, <3>5 DEF Facts
  <2> QED
    BY <2>1, <2>2
<1>7. OwnRows(mine, job, db')
  <2>1. ASSUME NEW s \in Sessions, job[s].pc = "commit"
        PROVE  Written(job[s], db') = Written(job[s], db)
    <3>1. job[s].op \notin ListOps => db'[job[s].row] = db[job[s].row]
      BY <1>3, <1>4, <2>1, JobRows
    <3> QED
      BY <3>1 DEF Written
  <2> QED
    BY <1>1, <2>1 DEF OwnRows
<1>8. ASSUME NEW h \in Shipments PROVE Booked(db', job, books, h)
  <2>1. Booked(db, job, books, h)
    BY <1>1
  <2>2. CASE h # d
    BY <1>3, <1>5, <2>1, <2>2 DEF Booked
  <2>3. CASE h = d
    <3>1. books[h].posted + books[h].refused = 0 /\ ~db'[h].stamp
      BY <1>3, <2>1, <2>3 DEF Booked
    <3>2. 0 <= Owed(db', h)
      <4>1. ListOf(db', h) \in SUBSET Cartons
        BY DEF ListOf
      <4>2. PackedIn(db', ListOf(db', h)) \in Nat
        BY <4>1, PackedTakeOut DEF RowsTyped
      <4> QED
        BY <4>2 DEF Owed
    <3> QED
      BY <3>1, <3>2 DEF Booked
  <2> QED
    BY <2>2, <2>3
<1>9. \A b \in Bundles : OnFloor(db'[b].status, moves'[b])
  BY <1>1, <1>3
<1>10. Sound(db', mine', job', moves', books')
  BY <1>1, <1>6, <1>7, <1>8, <1>9 DEF Sound
<1> QED
  BY <1>10 DEF FInv

\* create_bundle: all that was cut stands in one section.
LEMMA CreateBundleKeeps ==
  ASSUME FloorAssumption, FInv, NEW b \in Bundles, NEW origin \in Sections, create_bundle(b, origin)
  PROVE  FInv'
<1> DEFINE row == [status |-> "created", section |-> origin]
<1>1. /\ db[b].status = "none" /\ db' = [db EXCEPT ![b] = row] /\ UNCHANGED <<mine, job, books>>
      /\ moves' = [moves EXCEPT ![b].stands[origin] = Cut]
  BY DEF create_bundle, Create
<1>2. /\ RowsTyped(db) /\ DOMAIN moves = Bundles
      /\ moves[b] = [stands |-> [x \in Sections |-> 0], scans |-> 0]
  BY <1>1 DEF FInv, Sound, OnFloor
<1>3. RowsTyped(db')
  <2>1. DOMAIN db = Documents /\ b \in Documents
    BY <1>2 DEF RowsTyped, Documents
  <2>2. DOMAIN db' = Documents /\ db'[b].status = "created" /\ \A r \in Documents \ {b} : db'[r] = db[r]
    BY <1>1, <2>1
  <2>3. \A r \in (Bundles \ {b}) \cup Shipments \cup Cartons \cup {Store} : db'[r] = db[r]
    BY <2>2, Apartments DEF Documents
  <2> QED
    BY <1>2, <2>2, <2>3 DEF RowsTyped, BundleStatus
<1>4. /\ DOMAIN moves' = Bundles /\ \A c \in Bundles \ {b} : moves'[c] = moves[c]
      /\ moves'[b] = [stands |-> [x \in Sections |-> IF x = origin THEN Cut ELSE 0], scans |-> 0]
  BY <1>1, <1>2
<1>5. OnFloor("created", moves'[b])
  <2> DEFINE f == moves'[b].stands
  <2>1. /\ f \in [Sections -> Int] /\ moves'[b].scans = 0 /\ f[origin] = Cut
        /\ \A x \in Sections \ {origin} : f[x] = 0
        /\ \A x \in Sections : f[x] >= 0
    BY <1>4 DEF FloorAssumption
  <2>2. SumFunctionOnSet(f, Sections) = Cut
    <3>1. IsFiniteSet(Sections) /\ Cut \in Int
      BY DEF FloorAssumption
    <3>2. \A x \in Sections \ {origin} : f[x] = 0
      BY <2>1
    <3> HIDE DEF f
    <3> QED
      BY <2>1, <3>1, <3>2, SumLone
  <2>3. moves'[b] \in Ledgers
    <3>1. moves'[b] = [stands |-> f, scans |-> 0]
      BY <1>4
    <3> HIDE DEF f
    <3> QED
      BY <2>1, <3>1 DEF Ledgers
  <2>4. \A x \in Sections : f[x] >= 0
    BY <1>4 DEF FloorAssumption
  <2> QED
    BY <2>1, <2>2, <2>3, <2>4 DEF OnFloor, Standing, Earned, Total
<1>6. row.status = "created" /\ b \notin Shipments
  BY Apartments
<1> HIDE DEF row
<1>7. \A c \in Bundles \ {b} : moves'[c] = moves[c]
  BY <1>4
<1>8. db'[b] = row /\ \A r \in Documents \ {b} : db'[r] = db[r]
  <2>1. DOMAIN db = Documents /\ b \in Documents
    BY <1>2 DEF RowsTyped, Documents
  <2> QED
    BY <1>1, <2>1
<1>9. b \in Bundles \cup Shipments /\ db[b].status = "none" /\ UNCHANGED <<mine, job, books>>
  BY <1>1
<1>10. DOMAIN moves' = Bundles /\ OnFloor(row.status, moves'[b])
  BY <1>4, <1>5, <1>6
<1> QED
  BY <1>3, <1>6, <1>7, <1>8, <1>9, <1>10, AppearsWell

\* create_shipment, and a shipment of the seed: not stamped, so nothing of it is reported.
LEMMA CreateShipmentKeeps ==
  ASSUME FloorAssumption, FInv, NEW h \in Shipments,
         \/ \E v \in CREATE_STATUS, o \in BOOLEAN : create_shipment(h, v, o)
         \/ SeedShipment(h)
  PROVE  FInv'
<1>1. PICK v \in CREATE_STATUS \cup {"dispatched"}, o \in BOOLEAN :
        /\ Create(h, [status |-> v, stamp |-> FALSE, price |-> CHOOSE p \in Prices : TRUE, ordered |-> o])
        /\ UNCHANGED moves
  BY DEF create_shipment, SeedShipment
<1> DEFINE row == [status |-> v, stamp |-> FALSE, price |-> CHOOSE p \in Prices : TRUE, ordered |-> o]
<1>2. db[h].status = "none" /\ db' = [db EXCEPT ![h] = row] /\ UNCHANGED <<mine, job, books, moves>>
  BY <1>1 DEF Create
<1>3. row \in ShipmentRow /\ ~row.stamp
  <2>1. Prices # {} => (CHOOSE p \in Prices : TRUE) \in Prices
    OBVIOUS
  <2>2. v \in SHIPMENT_STATUS
    BY DEF SHIPMENT_STATUS, LOCKED_STATUS, SHIPPED_STATUS
  <2> QED
    BY <2>1, <2>2 DEF ShipmentRow, FloorAssumption
<1> HIDE DEF row
<1>4. RowsTyped(db')
  <2>0. RowsTyped(db)
    BY DEF FInv, Sound
  <2>1. DOMAIN db = Documents /\ h \in Documents
    BY <2>0 DEF RowsTyped, Documents
  <2>2. DOMAIN db' = Documents /\ db'[h] = row /\ \A r \in Documents \ {h} : db'[r] = db[r]
    BY <1>2, <2>1
  <2>3. \A r \in Bundles \cup (Shipments \ {h}) \cup Cartons \cup {Store} : db'[r] = db[r]
    BY <2>2, Apartments DEF Documents
  <2> QED
    BY <1>3, <2>0, <2>2, <2>3 DEF RowsTyped
<1>5. DOMAIN moves' = Bundles /\ \A b \in Bundles \ {h} : moves'[b] = moves[b]
  BY <1>2 DEF FInv, Sound
<1>6. db'[h] = row /\ \A r \in Documents \ {h} : db'[r] = db[r]
  <2>1. DOMAIN db = Documents /\ h \in Documents
    BY DEF FInv, Sound, RowsTyped, Documents
  <2> QED
    BY <1>2, <2>1
<1>7. h \in Bundles \cup Shipments /\ h \notin Bundles
  BY Apartments
<1> QED
  BY <1>2, <1>3, <1>4, <1>5, <1>6, <1>7, AppearsWell

\* Goods packed only add to what the store can give.
LEMMA PackKeeps ==
  ASSUME FloorAssumption, FInv, NEW n \in CartonSizes, Pack(n)
  PROVE  FInv'
<1>1. /\ db' = [db EXCEPT ![Store].packed = @ + n] /\ UNCHANGED <<mine, job, moves, books>>
      /\ db[Store].packed + n <= MaxPacked
  BY DEF Pack
<1>2. /\ RowsTyped(db) /\ OwnRows(mine, job, db) /\ \A s \in Sessions : Facts(job[s], db, moves, books)
      /\ \A b \in Bundles : OnFloor(db[b].status, moves[b])
      /\ \A h \in Shipments : Booked(db, job, books, h)
  BY DEF FInv, Sound
<1>3. DOMAIN db = Documents /\ Store \in Documents
  BY <1>2 DEF RowsTyped, Documents
<1>4. /\ DOMAIN db' = Documents /\ db'[Store] = [db[Store] EXCEPT !.packed = @ + n]
      /\ \A r \in Documents \ {Store} : db'[r] = db[r]
  BY <1>1, <1>3
<1>5. \A r \in Bundles \cup Shipments \cup Cartons : db'[r] = db[r]
  BY <1>4, Apartments DEF Documents
<1>6. /\ db[Store] \in [packed : 0 .. MaxPacked, shipped : 0 .. MaxPacked] /\ MaxPacked \in Nat /\ n \in Nat
      /\ db[Store].shipped <= db[Store].packed
  BY <1>2 DEF RowsTyped, FloorAssumption
<1>7. /\ db'[Store] \in [packed : 0 .. MaxPacked, shipped : 0 .. MaxPacked]
      /\ db'[Store].shipped <= db'[Store].packed
      /\ db'[Store].packed = db[Store].packed + n /\ db'[Store].shipped = db[Store].shipped
  BY <1>1, <1>4, <1>6
<1>8. RowsTyped(db')
  BY <1>2, <1>4, <1>5, <1>7 DEF RowsTyped
<1>9. \A h \in Shipments : Owed(db', h) = Owed(db, h) /\ ListOf(db', h) = ListOf(db, h)
  BY <1>5, OwedSame
<1>10. ASSUME NEW s \in Sessions PROVE Facts(job[s], db', moves, books)
  <2>1. Facts(job[s], db, moves, books)
    BY <1>2
  <2>2. PostFacts(job[s], db', books)
    <3> SUFFICES ASSUME job[s].op = "post", job[s].pc \in {"line", "ship"}
                 PROVE  PostFacts(job[s], db', books)
      BY <2>1 DEF Facts, PostFacts
    <3>1. PostFacts(job[s], db, books) /\ job[s].row \in Shipments
      BY <2>1, JobRows DEF Facts
    <3>2. job[s].lines \in SUBSET Cartons
      BY <3>1 DEF PostFacts, ListOf
    <3>3. PackedIn(db', job[s].lines) = PackedIn(db, job[s].lines)
      BY <1>5, <3>2, PackedSame
    <3>4. job[s].pc = "ship" =>
            /\ job[s].carton \in job[s].lines /\ db'[job[s].carton] = db[job[s].carton]
            /\ db'[Store].packed - db'[Store].shipped >= db'[job[s].carton].pieces
      <4> SUFFICES ASSUME job[s].pc = "ship"
                   PROVE  /\ job[s].carton \in job[s].lines /\ db'[job[s].carton] = db[job[s].carton]
                          /\ db'[Store].packed - db'[Store].shipped >= db'[job[s].carton].pieces
        OBVIOUS
      <4>1. /\ job[s].carton \in job[s].lines /\ job[s].carton \in Cartons
            /\ db[Store].packed - db[Store].shipped >= db[job[s].carton].pieces
        BY <3>1, <3>2 DEF PostFacts
      <4>2. db[job[s].carton].pieces \in Nat
        BY <1>2, <4>1, LinePieces DEF RowsTyped
      <4> QED
        BY <1>5, <1>6, <1>7, <4>1, <4>2
    <3> QED
      BY <1>9, <3>1, <3>3, <3>4 DEF PostFacts
  <2> QED
    BY <1>5, <2>1, <2>2, JobRows DEF Facts
<1>11. OwnRows(mine, job, db')
  <2>1. \A s \in Sessions : job[s].pc = "commit" => Written(job[s], db') = Written(job[s], db)
    BY <1>5, JobRows DEF Written
  <2> QED
    BY <1>2, <2>1 DEF OwnRows
<1>12. \A h \in Shipments : Booked(db', job, books, h)
  BY <1>2, <1>5, <1>9 DEF Booked
<1>13. \A b \in Bundles : OnFloor(db'[b].status, moves[b])
  BY <1>2, <1>5
<1>14. Sound(db', mine', job', moves', books')
  BY <1>1, <1>8, <1>10, <1>11, <1>12, <1>13 DEF FInv, Sound
<1> QED
  BY <1>14 DEF FInv

-----------------------------------------------------------------------------
(* A function commits.                                                     *)

\* What a posting relies on stays true while its lines and what it owes stay.
LEMMA PostFactsStand ==
  ASSUME FloorAssumption, NEW j, NEW d, NEW e, NEW bk, PostFacts(j, d, bk), e[Store] = d[Store],
         j.op = "post" => /\ e[j.row].status # "none" /\ e[j.row].ordered
                               <=> d[j.row].status # "none" /\ d[j.row].ordered
                          /\ \A k \in Cartons : e[k] = d[k] \/ (e[k].on # j.row /\ d[k].on # j.row)
  PROVE  PostFacts(j, e, bk)
<1> SUFFICES ASSUME j.op = "post", j.pc \in {"line", "ship"} PROVE PostFacts(j, e, bk)
  BY DEF PostFacts
<1>1. Owed(e, j.row) = Owed(d, j.row) /\ ListOf(e, j.row) = ListOf(d, j.row)
  BY OwedSame
<1>2. j.lines \subseteq ListOf(d, j.row)
  BY DEF PostFacts
<1>3. j.lines \in SUBSET Cartons /\ \A k \in j.lines : e[k] = d[k]
  BY <1>2 DEF ListOf
<1>4. PackedIn(e, j.lines) = PackedIn(d, j.lines)
  BY <1>3, PackedSame
<1>5. j.pc = "ship" => e[j.carton] = d[j.carton]
  BY <1>3 DEF PostFacts
<1> QED
  BY <1>1, <1>4, <1>5 DEF PostFacts

\* What a commit does: the row of the job, and no other, becomes what was written.
LEMMA CommitIs ==
  ASSUME FInv, NEW s \in Sessions, CommitJob(s)
  PROVE  /\ job[s].pc = "commit" /\ Target(job[s]) \in Documents
         /\ job[s].op \in BundleOps \cup UpdateOps \cup ListOps
         /\ DOMAIN db' = Documents /\ db'[Target(job[s])] = Written(job[s], db)
         /\ \A r \in Documents \ {Target(job[s])} : db'[r] = db[r]
         /\ DOMAIN mine' = Sessions /\ DOMAIN mine'[s] = {} /\ \A t \in Sessions \ {s} : mine'[t] = mine[t]
         /\ DOMAIN job' = Sessions /\ job'[s] = AfterCommit(job[s])
         /\ \A t \in Sessions \ {s} : job'[t] = job[t]
         /\ moves' = (IF job[s].op = "scan" THEN [moves EXCEPT ![job[s].row] = With(moves[job[s].row], job[s].scan)]
                                            ELSE moves)
         /\ books' = books
<1>1. /\ job[s].pc = "commit" /\ db' = Over(mine[s], db) /\ mine' = [mine EXCEPT ![s] = NoRows]
      /\ job' = [job EXCEPT ![s] = AfterCommit(job[s])] /\ books' = books
      /\ moves' = IF job[s].op = "scan" THEN [moves EXCEPT ![job[s].row] = LedgerWith(job[s].row, job[s].scan)]
                                        ELSE moves
  BY DEF CommitJob, Commit
<1>2. /\ DOMAIN db = Documents /\ DOMAIN job = Sessions /\ OwnRows(mine, job, db)
  BY DEF FInv, Sound, RowsTyped
<1>3. DOMAIN mine[s] = {Target(job[s])} /\ mine[s][Target(job[s])] = Written(job[s], db) /\ DOMAIN mine = Sessions
  BY <1>1, <1>2 DEF OwnRows, Locked
<1>4. job[s].op \in BundleOps \cup UpdateOps \cup ListOps /\ Target(job[s]) \in Documents
  BY <1>1, JobRows DEF Target, Documents, BundleOps, UpdateOps, ListOps
<1>5. /\ DOMAIN db' = Documents /\ db'[Target(job[s])] = Written(job[s], db)
      /\ \A r \in Documents \ {Target(job[s])} : db'[r] = db[r]
  <2>1. DOMAIN db' = {Target(job[s])} \cup Documents /\ \A r \in DOMAIN db' : db'[r] = IF r = Target(job[s]) THEN mine[s][r] ELSE db[r]
    BY <1>1, <1>2, <1>3 DEF Over
  <2> QED
    BY <1>3, <1>4, <2>1
<1>6. DOMAIN mine' = Sessions /\ DOMAIN mine'[s] = {} /\ \A t \in Sessions \ {s} : mine'[t] = mine[t]
  BY <1>1, <1>3 DEF NoRows
<1>7. DOMAIN job' = Sessions /\ job'[s] = AfterCommit(job[s]) /\ \A t \in Sessions \ {s} : job'[t] = job[t]
  BY <1>1, <1>2
<1> QED
  BY <1>1, <1>4, <1>5, <1>6, <1>7, WithIs

\* A commit that leaves the rows, the ledgers and what the others read sound, is sound.
LEMMA CommitWell ==
  ASSUME FloorAssumption, FInv, NEW s \in Sessions, CommitJob(s), RowsTyped(db'),
         \A t \in Sessions \ {s} : Facts(job[t], db', moves', books),
         Facts(job'[s], db', moves', books),
         DOMAIN moves' = Bundles, \A b \in Bundles : OnFloor(db'[b].status, moves'[b]),
         \A h \in Shipments : Booked(db', job', books, h)
  PROVE  FInv'
<1> DEFINE i == job[s]
<1>1. /\ job[s].pc = "commit" /\ i.op \in BundleOps \cup UpdateOps \cup ListOps
      /\ \A r \in Documents \ {Target(i)} : db'[r] = db[r]
      /\ DOMAIN mine' = Sessions /\ DOMAIN mine'[s] = {} /\ \A t \in Sessions \ {s} : mine'[t] = mine[t]
      /\ DOMAIN job' = Sessions /\ job'[s] = AfterCommit(i) /\ \A t \in Sessions \ {s} : job'[t] = job[t]
      /\ books' = books
  BY CommitIs
<1>2. /\ OwnRows(mine, job, db) /\ \A t, u \in Sessions : t # u => Apart(job[t], job[u])
      /\ BooksTyped(books)
  BY DEF FInv, Sound
<1>3. /\ job'[s].op \in {"idle", "post"} /\ job'[s].pc # "commit"
      /\ job'[s].op = "post" => i.op = "depart" /\ job'[s].row = i.row
  <2>1. CASE i.op = "depart"
    <3>1. AfterCommit(i) = Job("post", "list", i.row)
      BY <2>1 DEF AfterCommit
    <3> QED
      BY <1>1, <2>1, <3>1, JobIs
  <2>2. CASE i.op # "depart"
    <3>1. AfterCommit(i) = Idle
      BY <2>2 DEF AfterCommit
    <3> QED
      BY <1>1, <3>1, IdleIs
  <2> QED
    BY <2>1, <2>2
<1>4. ASSUME NEW t \in Sessions \ {s} PROVE Apart(job'[s], job[t]) /\ Apart(job[t], job'[s])
  <2>1. Apart(i, job[t]) /\ Apart(job[t], i)
    BY <1>2
  <2>2. CASE job'[s].op = "idle"
    BY <2>2 DEF Apart, TakesGoods, ListOps
  <2>3. CASE job'[s].op = "post"
    <3>1. i.op = "depart" /\ job'[s].row = i.row
      BY <1>3, <2>3
    <3>2. job[t].op # "depart"
      BY <2>1, <3>1 DEF Apart, TakesGoods
    <3>3. {"post", job[t].op} \notin Harmful /\ {job[t].op, "post"} \notin Harmful
      BY <3>2 DEF Harmful
    <3>4. ~(job[t].op \in TakesGoods)
      BY <2>1, <3>1 DEF Apart, TakesGoods
    <3> QED
      BY <2>3, <3>3, <3>4 DEF Apart, ListOps
  <2> QED
    BY <1>3, <2>2, <2>3
<1>5. \A t, u \in Sessions : t # u => Apart(job'[t], job'[u])
  BY <1>1, <1>2, <1>4
<1>6. OwnRows(mine', job', db')
  <2>1. \A t \in Sessions : Locked(job'[t]) = IF t = s THEN {} ELSE Locked(job[t])
    BY <1>1, <1>3 DEF Locked
  <2>2. ASSUME NEW t \in Sessions, job'[t].pc = "commit"
        PROVE  t # s /\ job'[t] = job[t] /\ Written(job[t], db') = Written(job[t], db)
    <3>1. t # s /\ job'[t] = job[t]
      BY <1>1, <1>3, <2>2
    <3>2. Target(job[t]) # Target(i)
      BY <1>1, <1>2, <2>2, <3>1 DEF OwnRows, Locked
    <3>3. job[t].op \notin ListOps => db'[job[t].row] = db[job[t].row]
      <4> SUFFICES ASSUME job[t].op \notin ListOps PROVE db'[job[t].row] = db[job[t].row]
        OBVIOUS
      <4>1. job[t].row # Target(i) /\ job[t].row \in Documents
        BY <2>2, <3>1, <3>2, JobRows DEF Target, Documents
      <4> QED
        BY <1>1, <4>1
    <3> QED
      BY <3>1, <3>3 DEF Written
  <2>3. ASSUME NEW t \in Sessions
        PROVE  /\ DOMAIN mine'[t] = Locked(job'[t])
               /\ job'[t].pc = "commit" => mine'[t][Target(job'[t])] = Written(job'[t], db')
    <3>1. CASE t = s
      BY <1>1, <1>3, <2>1, <3>1
    <3>2. CASE t # s
      <4>1. mine'[t] = mine[t] /\ job'[t] = job[t] /\ DOMAIN mine[t] = Locked(job[t])
        BY <1>1, <1>2, <3>2 DEF OwnRows
      <4>2. job[t].pc = "commit" => mine[t][Target(job[t])] = Written(job[t], db)
        BY <1>2 DEF OwnRows
      <4> QED
        BY <2>2, <4>1, <4>2
    <3> QED
      BY <3>1, <3>2
  <2>4. \A t, u \in Sessions : t # u => Locked(job'[t]) \cap Locked(job'[u]) = {}
    BY <1>2, <2>1 DEF OwnRows
  <2> QED
    BY <1>1, <2>3, <2>4 DEF OwnRows
<1>7. \A t \in Sessions : Facts(job'[t], db', moves', books)
  BY <1>1
<1>8. Sound(db', mine', job', moves', books')
  BY <1>1, <1>2, <1>5, <1>6, <1>7 DEF Sound
<1> QED
  BY <1>8 DEF FInv

\* An idle session has read nothing.
LEMMA IdleFacts ==
  ASSUME NEW d, NEW m, NEW bk
  PROVE  Facts(Idle, d, m, bk)
BY IdleIs DEF Facts, JobTyped, PostFacts, BundleOps, UpdateOps, ListOps

\* A bundle function commits.
LEMMA CommitBundle ==
  ASSUME FloorAssumption, FInv, NEW s \in Sessions, CommitJob(s), job[s].op \in BundleOps
  PROVE  FInv'
<1> DEFINE i == job[s]
           b == i.row
           r == db[b]
           new == Over(i.set, r)
<1>1. /\ i.pc = "commit" /\ b \in Bundles /\ Target(i) = b
      /\ DOMAIN db' = Documents /\ db'[b] = new
      /\ \A x \in Documents \ {b} : db'[x] = db[x]
      /\ \A t \in Sessions \ {s} : job'[t] = job[t]
      /\ moves' = IF i.op = "scan" THEN [moves EXCEPT ![b] = With(moves[b], i.scan)] ELSE moves
  <2>1. Target(i) = b /\ Written(i, db) = new
    BY DEF Target, Written, BundleOps, ListOps
  <2> QED
    BY <2>1, CommitIs, JobRows
<1>2. job'[s] = Idle
  BY CommitIs DEF AfterCommit, BundleOps
<1>3. /\ RowsTyped(db) /\ DOMAIN moves = Bundles /\ OnFloor(r.status, moves[b])
      /\ \A x \in Bundles : OnFloor(db[x].status, moves[x])
      /\ \A t \in Sessions : Facts(job[t], db, moves, books)
      /\ \A t \in Sessions \ {s} : Apart(i, job[t])
      /\ \A h \in Shipments : Booked(db, job, books, h)
  BY <1>1 DEF FInv, Sound
<1>4. BundleFacts(i, r, moves[b]) /\ r.status \in BundleStatus
  BY <1>1, <1>3 DEF Facts, RowsTyped
<1> HIDE DEF new, r
<1>5. /\ new.status \in BundleStatus
      /\ OnFloor(new.status, IF i.op = "scan" THEN With(moves[b], i.scan) ELSE moves[b])
  BY <1>1, <1>3, <1>4, BundleStep DEF new
<1>6. /\ \A h \in Shipments : db'[h] = db[h]
      /\ \A k \in Cartons : db'[k] = db[k]
      /\ \A x \in Bundles \ {b} : db'[x] = db[x] /\ moves'[x] = moves[x]
      /\ db'[Store] = db[Store]
      /\ DOMAIN moves' = Bundles
      /\ moves'[b] = IF i.op = "scan" THEN With(moves[b], i.scan) ELSE moves[b]
  BY <1>1, <1>3, Apartments DEF Documents
<1>7. RowsTyped(db')
  BY <1>1, <1>3, <1>5, <1>6 DEF RowsTyped
<1>8. \A x \in Bundles : OnFloor(db'[x].status, moves'[x])
  BY <1>1, <1>3, <1>5, <1>6
<1>9. ASSUME NEW t \in Sessions \ {s} PROVE Facts(job[t], db', moves', books)
  <2>1. Facts(job[t], db, moves, books)
    BY <1>3
  <2>2. job[t].op \in BundleOps => BundleFacts(job[t], db'[job[t].row], moves'[job[t].row])
    <3> SUFFICES ASSUME job[t].op \in BundleOps
                 PROVE  BundleFacts(job[t], db'[job[t].row], moves'[job[t].row])
      OBVIOUS
    <3>1. BundleFacts(job[t], db[job[t].row], moves[job[t].row]) /\ job[t].row \in Bundles
      BY <2>1, JobRows DEF Facts
    <3>2. CASE job[t].row # b
      BY <1>6, <3>1, <3>2
    <3>3. CASE job[t].row = b
      <4>1. {i.op, job[t].op} \notin Harmful
        BY <1>3, <3>3 DEF Apart, BundleOps
      <4>2. i.op # "scan" /\ BundleFacts(job[t], new, moves[b])
        BY <1>4, <3>1, <3>3, <4>1, BundleFactsStand DEF new, r
      <4> QED
        BY <1>1, <1>6, <3>3, <4>2
    <3> QED
      BY <3>2, <3>3
  <2>3. PostFacts(job[t], db', books)
    BY <1>6, <2>1, JobRows, PostFactsStand DEF Facts
  <2> QED
    BY <1>6, <2>1, <2>2, <2>3, JobRows DEF Facts
<1>10. ASSUME NEW h \in Shipments PROVE Booked(db', job', books, h)
  <2>1. Owed(db', h) = Owed(db, h)
    BY <1>6, OwedSame
  <2>2. (\E t \in Sessions : job'[t].op = "post" /\ job'[t].row = h)
          <=> \E t \in Sessions : job[t].op = "post" /\ job[t].row = h
    BY <1>1, <1>2, IdleIs DEF BundleOps
  <2> QED
    BY <1>3, <1>6, <2>1, <2>2 DEF Booked
<1>11. Facts(job'[s], db', moves', books)
  BY <1>2, IdleFacts
<1> QED
  BY <1>6, <1>7, <1>8, <1>9, <1>10, <1>11, CommitWell

\* An update of a shipment commits: the row becomes what the update was allowed to make of it.
LEMMA UpdateCommits ==
  ASSUME FloorAssumption, FInv, NEW s \in Sessions, CommitJob(s), job[s].op \in UpdateOps
  PROVE  /\ job[s].row \in Shipments /\ ShipmentFacts(job[s], db[job[s].row])
         /\ Stampable(db[job[s].row])
         /\ db'[job[s].row] = Over(job[s].set, db[job[s].row])
         /\ \A x \in Documents \ {job[s].row} : db'[x] = db[x]
         /\ DOMAIN db' = Documents /\ moves' = moves
         /\ job'[s] = IF job[s].op = "depart" THEN Job("post", "list", job[s].row) ELSE Idle
<1>1. Target(job[s]) = job[s].row /\ Written(job[s], db) = Over(job[s].set, db[job[s].row])
  BY DEF Target, Written, UpdateOps, ListOps
<1>2. job[s].row \in Shipments
  BY JobRows
<1>3. ShipmentFacts(job[s], db[job[s].row])
  BY DEF FInv, Sound, Facts
<1>4. Stampable(db[job[s].row])
  BY <1>2, <1>3, ShipmentIs DEF ShipmentFacts
<1> QED
  BY <1>1, <1>2, <1>3, <1>4, CommitIs DEF AfterCommit, UpdateOps

\* An update commits: what the others have read of the shipment stands.
LEMMA CommitUpdate ==
  ASSUME FloorAssumption, FInv, NEW s \in Sessions, CommitJob(s), job[s].op \in UpdateOps
  PROVE  FInv'
<1> DEFINE i == job[s]
           h == i.row
           r == db[h]
           new == Over(i.set, r)
<1>1. /\ h \in Shipments /\ ShipmentFacts(i, r) /\ Stampable(r) /\ db'[h] = new
      /\ \A x \in Documents \ {h} : db'[x] = db[x]
      /\ DOMAIN db' = Documents /\ moves' = moves
      /\ job'[s] = IF i.op = "depart" THEN Job("post", "list", h) ELSE Idle
  BY UpdateCommits
<1>2. /\ RowsTyped(db) /\ DOMAIN moves = Bundles /\ BooksTyped(books)
      /\ \A b \in Bundles : OnFloor(db[b].status, moves[b])
      /\ \A t \in Sessions : Facts(job[t], db, moves, books)
      /\ \A t \in Sessions \ {s} : Apart(i, job[t])
      /\ \A x \in Shipments : Booked(db, job, books, x)
      /\ \A t \in Sessions \ {s} : job'[t] = job[t]
  BY CommitIs DEF FInv, Sound
<1> HIDE DEF new
<1>3. /\ Stampable(new) /\ new.status # "none" /\ new.ordered = r.ordered /\ r.status # "none"
      /\ (r.stamp => new.stamp) /\ (new.stamp => r.stamp \/ i.op = "depart") /\ (i.op = "depart" => new.stamp)
  BY <1>1, UpdateStep DEF new, ShipmentFacts
<1>4. /\ \A b \in Bundles : db'[b] = db[b]
      /\ \A k \in Cartons : db'[k] = db[k]
      /\ \A x \in Shipments \ {h} : db'[x] = db[x]
      /\ db'[Store] = db[Store]
  BY <1>1, Apartments DEF Documents
<1>5. RowsTyped(db')
  BY <1>1, <1>2, <1>3, <1>4 DEF RowsTyped, Stampable
<1>6. \A x \in Shipments : Owed(db', x) = Owed(db, x)
  <2> SUFFICES ASSUME NEW x \in Shipments PROVE Owed(db', x) = Owed(db, x)
    OBVIOUS
  <2>1. db'[x].status # "none" /\ db'[x].ordered <=> db[x].status # "none" /\ db[x].ordered
    BY <1>1, <1>3, <1>4
  <2> QED
    BY <1>4, <2>1, OwedSame
<1>7. ASSUME NEW t \in Sessions \ {s} PROVE Facts(job[t], db', moves', books)
  <2>1. Facts(job[t], db, moves, books)
    BY <1>2
  <2>2. job[t].op \in UpdateOps \cup ListOps \cup {"post"} => ShipmentFacts(job[t], db'[job[t].row])
    <3> SUFFICES ASSUME job[t].op \in UpdateOps \cup ListOps \cup {"post"}
                 PROVE  ShipmentFacts(job[t], db'[job[t].row])
      OBVIOUS
    <3>1. ShipmentFacts(job[t], db[job[t].row]) /\ job[t].row \in Shipments
      BY <2>1, JobRows DEF Facts
    <3>2. CASE job[t].row # h
      BY <1>4, <3>1, <3>2
    <3>3. CASE job[t].row = h
      <4>1. {i.op, job[t].op} \notin Harmful
        BY <1>2, <3>3 DEF Apart, UpdateOps, ListOps
      <4>2. ShipmentFacts(job[t], new)
        BY <1>1, <3>1, <3>3, <4>1, ShipmentFactsStand DEF new
      <4> QED
        BY <1>1, <3>3, <4>2
    <3> QED
      BY <3>2, <3>3
  <2>3. PostFacts(job[t], db', books)
    <3>1. job[t].op = "post" =>
            (db'[job[t].row].status # "none" /\ db'[job[t].row].ordered
               <=> db[job[t].row].status # "none" /\ db[job[t].row].ordered)
      BY <1>1, <1>3, <1>4, JobRows
    <3> QED
      BY <1>4, <2>1, <3>1, PostFactsStand DEF Facts
  <2> QED
    BY <1>1, <1>4, <2>1, <2>2, <2>3, JobRows DEF Facts
<1>8. Facts(job'[s], db', moves', books)
  <2>1. CASE i.op # "depart"
    BY <1>1, <2>1, IdleFacts
  <2>2. CASE i.op = "depart"
    <3> DEFINE j == Job("post", "list", h)
    <3>1. j.op = "post" /\ j.pc = "list" /\ j.row = h /\ DOMAIN j = JobFields
      BY JobIs
    <3>2. books[h].posted + books[h].refused = 0
      BY <1>1, <1>2, <2>2 DEF Booked, ShipmentFacts
    <3> HIDE DEF j
    <3>3. JobTyped(j) /\ PostFacts(j, db', books)
      BY <1>1, <3>1, <3>2 DEF JobTyped, PostFacts, Ops, Points, BundleOps, ListOps
    <3>4. ShipmentFacts(j, db'[h])
      BY <1>1, <1>3, <2>2, <3>1 DEF ShipmentFacts, UpdateOps
    <3>5. Facts(j, db', moves', books)
      BY <3>1, <3>3, <3>4 DEF Facts, BundleOps, ListOps
    <3> QED
      BY <1>1, <2>2, <3>5 DEF j
  <2> QED
    BY <2>1, <2>2
<1>9. ASSUME NEW x \in Shipments PROVE Booked(db', job', books, x)
  <2>1. Booked(db, job, books, x) /\ Owed(db', x) = Owed(db, x)
    BY <1>2, <1>6
  <2>2. /\ job'[s].op = "post" => i.op = "depart" /\ job'[s].row = h
        /\ i.op = "depart" => job'[s].op = "post" /\ job'[s].row = h
    BY <1>1, JobIs, IdleIs
  <2>3. (\E t \in Sessions : job[t].op = "post" /\ job[t].row = x)
          => \E t \in Sessions : job'[t].op = "post" /\ job'[t].row = x
    BY <1>2 DEF UpdateOps
  <2>4. CASE x # h
    <3>1. (\E t \in Sessions : job'[t].op = "post" /\ job'[t].row = x)
            => \E t \in Sessions : job[t].op = "post" /\ job[t].row = x
      BY <1>2, <2>2, <2>4
    <3> QED
      BY <1>4, <2>1, <2>3, <2>4, <3>1 DEF Booked
  <2>5. CASE x = h /\ i.op = "depart"
    <3>1. \E t \in Sessions : job'[t].op = "post" /\ job'[t].row = x
      BY <2>2, <2>5
    <3> QED
      BY <1>1, <1>3, <2>1, <2>5, <3>1 DEF Booked
  <2>6. CASE x = h /\ i.op # "depart"
    <3>1. new.stamp <=> r.stamp
      BY <1>3, <2>6
    <3>2. (\E t \in Sessions : job'[t].op = "post" /\ job'[t].row = x)
            <=> \E t \in Sessions : job[t].op = "post" /\ job[t].row = x
      BY <1>2, <2>2, <2>3, <2>6
    <3> QED
      BY <1>1, <1>3, <2>1, <2>6, <3>1, <3>2 DEF Booked
  <2> QED
    BY <2>4, <2>5, <2>6
<1>10. DOMAIN moves' = Bundles /\ \A b \in Bundles : OnFloor(db'[b].status, moves'[b])
  BY <1>1, <1>2, <1>4
<1> QED
  BY <1>5, <1>7, <1>8, <1>9, <1>10, CommitWell

\* A line of a packing list commits: its shipment has not left.
LEMMA ListCommits ==
  ASSUME FloorAssumption, FInv, NEW s \in Sessions, CommitJob(s), job[s].op \in ListOps
  PROVE  /\ job[s].row \in Shipments /\ job[s].carton \in Cartons
         /\ db[job[s].row].status # "none" /\ ~EverLeft(db[job[s].row])
         /\ CartonFacts(job[s], db[job[s].carton])
         /\ db'[job[s].carton] = job[s].set
         /\ db'[job[s].carton] \in CartonRow
         /\ \A x \in Shipments : x # job[s].row => db'[job[s].carton].on # x /\ db[job[s].carton].on # x
         /\ \A x \in Documents \ {job[s].carton} : db'[x] = db[x]
         /\ DOMAIN db' = Documents /\ moves' = moves /\ job'[s] = Idle
<1>1. Target(job[s]) = job[s].carton /\ Written(job[s], db) = job[s].set
  BY DEF Target, Written
<1>2. job[s].row \in Shipments /\ job[s].carton \in Cartons
  BY JobRows
<1>3. ShipmentFacts(job[s], db[job[s].row]) /\ CartonFacts(job[s], db[job[s].carton])
  BY DEF FInv, Sound, Facts
<1>4. db[job[s].row].status # "none" /\ ~EverLeft(db[job[s].row])
  BY <1>3 DEF ShipmentFacts, ListOps
<1>5. /\ db'[job[s].carton] = job[s].set /\ \A x \in Documents \ {job[s].carton} : db'[x] = db[x]
      /\ DOMAIN db' = Documents /\ moves' = moves /\ job'[s] = Idle
  BY <1>1, CommitIs DEF AfterCommit, ListOps
<1>6. job[s].set \in CartonRow /\ job[s].set.on \in {job[s].row, "none"} /\ db[job[s].carton].on \in {job[s].row, "none"}
  BY <1>2, <1>3 DEF CartonFacts, ListOps, CartonRow, Gone
<1> QED
  BY <1>2, <1>3, <1>4, <1>5, <1>6, Apartments

\* A line commits: postings are about other shipments, and nobody else adds the line.
LEMMA CommitList ==
  ASSUME FloorAssumption, FInv, NEW s \in Sessions, CommitJob(s), job[s].op \in ListOps
  PROVE  FInv'
<1> DEFINE i == job[s]
           h == i.row
           k == i.carton
<1>1. /\ h \in Shipments /\ k \in Cartons /\ db[h].status # "none" /\ ~EverLeft(db[h])
      /\ CartonFacts(i, db[k]) /\ db'[k] = i.set /\ db'[k] \in CartonRow
      /\ \A x \in Shipments : x # h => db'[k].on # x /\ db[k].on # x
      /\ \A x \in Documents \ {k} : db'[x] = db[x]
      /\ DOMAIN db' = Documents /\ moves' = moves /\ job'[s] = Idle
  BY ListCommits
<1>2. /\ RowsTyped(db) /\ DOMAIN moves = Bundles /\ BooksTyped(books)
      /\ \A b \in Bundles : OnFloor(db[b].status, moves[b])
      /\ \A t \in Sessions : Facts(job[t], db, moves, books)
      /\ \A t \in Sessions \ {s} : Apart(i, job[t]) /\ Apart(job[t], i)
      /\ \A x \in Shipments : Booked(db, job, books, x)
      /\ \A t \in Sessions \ {s} : job'[t] = job[t]
  BY CommitIs DEF FInv, Sound
<1>3. /\ \A b \in Bundles : db'[b] = db[b]
      /\ \A x \in Shipments : db'[x] = db[x]
      /\ \A c \in Cartons \ {k} : db'[c] = db[c]
      /\ db'[Store] = db[Store]
  BY <1>1, Apartments DEF Documents
<1>4. RowsTyped(db')
  BY <1>1, <1>2, <1>3 DEF RowsTyped
<1>5. \A x \in Shipments \ {h} : \A c \in Cartons : db'[c] = db[c] \/ (db'[c].on # x /\ db[c].on # x)
  BY <1>1, <1>3
<1>6. \A x \in Shipments \ {h} : Owed(db', x) = Owed(db, x)
  <2> SUFFICES ASSUME NEW x \in Shipments \ {h} PROVE Owed(db', x) = Owed(db, x)
    OBVIOUS
  <2>1. db'[x].status # "none" /\ db'[x].ordered <=> db[x].status # "none" /\ db[x].ordered
    BY <1>3
  <2> QED
    BY <1>5, <2>1, OwedSame
<1>7. ASSUME NEW t \in Sessions \ {s} PROVE Facts(job[t], db', moves', books)
  <2>1. Facts(job[t], db, moves, books)
    BY <1>2
  <2>2. job[t].op \in ListOps => CartonFacts(job[t], db'[job[t].carton])
    <3> SUFFICES ASSUME job[t].op \in ListOps PROVE CartonFacts(job[t], db'[job[t].carton])
      OBVIOUS
    <3>1. CartonFacts(job[t], db[job[t].carton]) /\ job[t].carton \in Cartons
      BY <2>1, JobRows DEF Facts
    <3>2. CASE job[t].carton # k
      BY <1>3, <3>1, <3>2
    <3>3. CASE job[t].carton = k
      <4>1. job[t].op = "drop" /\ i.op = "drop"
        BY <1>2, <3>3 DEF Apart, ListOps
      <4>2. db'[k] = Gone
        BY <1>1, <4>1 DEF CartonFacts
      <4> QED
        BY <3>1, <3>3, <4>1, <4>2 DEF CartonFacts, Gone
    <3> QED
      BY <3>2, <3>3
  <2>3. PostFacts(job[t], db', books)
    <3>1. job[t].op = "post" => job[t].row \in Shipments \ {h}
      <4>1. job[t].op = "post" => ShipmentFacts(job[t], db[job[t].row])
        BY <2>1 DEF Facts
      <4> QED
        BY <1>1, <4>1, JobRows DEF ShipmentFacts, EverLeft
    <3> QED
      BY <1>3, <1>5, <2>1, <3>1, PostFactsStand DEF Facts
  <2> QED
    BY <1>1, <1>3, <2>1, <2>2, <2>3, JobRows DEF Facts
<1>8. ASSUME NEW x \in Shipments PROVE Booked(db', job', books, x)
  <2>1. Booked(db, job, books, x)
    BY <1>2
  <2>2. (\E t \in Sessions : job'[t].op = "post" /\ job'[t].row = x)
          <=> \E t \in Sessions : job[t].op = "post" /\ job[t].row = x
    BY <1>1, <1>2, IdleIs DEF ListOps
  <2>3. CASE x # h
    BY <1>3, <1>6, <2>1, <2>2, <2>3 DEF Booked
  <2>4. CASE x = h
    <3>1. ~db[x].stamp /\ books[x].posted + books[x].refused = 0
      BY <1>1, <2>1, <2>4 DEF Booked, EverLeft
    <3>2. 0 <= Owed(db', x)
      <4>1. ListOf(db', x) \in SUBSET Cartons
        BY DEF ListOf
      <4>2. PackedIn(db', ListOf(db', x)) \in Nat
        BY <1>4, <4>1, PackedTakeOut DEF RowsTyped
      <4> QED
        BY <4>2 DEF Owed
    <3> QED
      BY <1>3, <3>1, <3>2 DEF Booked
  <2> QED
    BY <2>3, <2>4
<1>9. Facts(job'[s], db', moves', books)
  BY <1>1, IdleFacts
<1>10. DOMAIN moves' = Bundles /\ \A b \in Bundles : OnFloor(db'[b].status, moves'[b])
  BY <1>1, <1>2, <1>3
<1> QED
  BY <1>4, <1>7, <1>8, <1>9, <1>10, CommitWell

-----------------------------------------------------------------------------
(* The theorems.                                                           *)

\* Every step keeps the state sound.
LEMMA NextKeeps ==
  ASSUME FloorAssumption, Safe, FInv, [Next]_vars
  PROVE  FInv'
<1>1. CASE UNCHANGED vars
  <2>1. db' = db /\ mine' = mine /\ job' = job /\ moves' = moves /\ books' = books
    BY <1>1 DEF vars
  <2> QED
    BY <2>1 DEF FInv
<1>2. ASSUME NEW s \in Sessions, Work(s) PROVE FInv'
  <2>1. CASE CommitJob(s)
    BY <2>1, CommitIs, CommitBundle, CommitUpdate, CommitList
  <2>2. CASE LockTimeout(s)
    BY <2>2, StopKeeps DEF LockTimeout
  <2>3. CASE InsertScan(s) \/ PutRow(s) \/ PutCarton(s)
    BY <2>3, InsertKeeps, PutRowKeeps
  <2>4. CASE ReadLines(s) \/ (\E k \in Cartons : CheckLine(s, k)) \/ ShipLine(s) \/ EndPosting(s)
    BY <2>4, ReadLinesKeeps, CheckLineKeeps, ShipLineKeeps, EndKeeps
  <2> QED
    BY <1>2, <2>1, <2>2, <2>3, <2>4 DEF Work
<1> QED
  BY <1>1, <1>2, StartKeeps, StopKeeps, CreateBundleKeeps, CreateShipmentKeeps, PackKeeps DEF Next

\* What the steps of NothingUndone may not do.
ScrapStep == \A b \in Bundles : db[b].status = "rejected" => UNCHANGED moves[b]
ListStep ==
    \A h \in Shipments : Left(h) =>
        PackingList(h)' = PackingList(h) /\ \A k \in PackingList(h) : UNCHANGED db[k]
PriceStep == \A h \in Shipments : Left(h) => db'[h].price = db[h].price
DepartStep == \A h \in Shipments : Left(h) => Left(h)' /\ db'[h].status \in LOCKED_STATUS
VoidStep == \A h \in Shipments : db[h].status = "cancelled" => db'[h].status \notin SHIPPED_STATUS
UndoesNothing == ScrapStep /\ ListStep /\ PriceStep /\ DepartStep /\ VoidStep

\* A step that leaves the shipments, the packing lists and the scrapped ledgers alone.
LEMMA LeavesAlone ==
  ASSUME FloorAssumption, FInv,
         \A h \in Shipments : db[h].status # "none" => db'[h] = db[h],
         \A k \in Cartons : db'[k] = db[k],
         \A b \in Bundles : db[b].status = "rejected" => moves'[b] = moves[b]
  PROVE  UndoesNothing
<1>1. \A h \in Shipments : Left(h) => db[h].status \in LOCKED_STATUS
  BY DEF FInv, Sound, RowsTyped, Left, Made, EverLeft, LOCKED_STATUS
<1>2. \A h \in Shipments : PackingList(h)' = PackingList(h) /\ PackingList(h) \subseteq Cartons
  BY DEF PackingList
<1>3. ListStep
  BY <1>2 DEF ListStep
<1>4. PriceStep /\ DepartStep
  BY <1>1 DEF PriceStep, DepartStep, Left, Made
<1>5. VoidStep
  BY DEF VoidStep, SHIPPED_STATUS
<1> QED
  BY <1>3, <1>4, <1>5 DEF UndoesNothing, ScrapStep

\* What an update commits undoes nothing.
LEMMA UpdateUndoesNothing ==
  ASSUME FloorAssumption, FInv, NEW s \in Sessions, CommitJob(s), job[s].op \in UpdateOps
  PROVE  UndoesNothing
<1> DEFINE h == job[s].row
           r == db[h]
           new == Over(job[s].set, r)
<1>1. /\ h \in Shipments /\ ShipmentFacts(job[s], r) /\ Stampable(r) /\ db'[h] = new
      /\ \A x \in Documents \ {h} : db'[x] = db[x]
      /\ moves' = moves
  BY UpdateCommits
<1> HIDE DEF new
<1>2. /\ EverLeft(r) => EverLeft(new) /\ new.status \in LOCKED_STATUS /\ new.price = r.price
      /\ r.status = "cancelled" => new.status \notin SHIPPED_STATUS
      /\ new.status # "none"
  BY <1>1, UpdateStep DEF new
<1>3. (\A k \in Cartons : db'[k] = db[k]) /\ \A x \in Shipments \ {h} : db'[x] = db[x]
  BY <1>1, Apartments DEF Documents
<1>4. \A x \in Shipments : PackingList(x)' = PackingList(x) /\ PackingList(x) \subseteq Cartons
  BY <1>3 DEF PackingList
<1>5. \A x \in Shipments : Left(x) => db[x].status \in LOCKED_STATUS
  BY DEF FInv, Sound, RowsTyped, Left, Made, EverLeft, LOCKED_STATUS
<1>6. ScrapStep /\ ListStep
  BY <1>1, <1>3, <1>4 DEF ScrapStep, ListStep
<1>7. ASSUME NEW x \in Shipments
      PROVE  /\ Left(x) => /\ db'[x].price = db[x].price
                           /\ Left(x)' /\ db'[x].status \in LOCKED_STATUS
             /\ db[x].status = "cancelled" => db'[x].status \notin SHIPPED_STATUS
  <2>1. CASE x = h
    BY <1>1, <1>2, <2>1 DEF Left, Made
  <2>2. CASE x # h
    BY <1>3, <1>5, <2>2 DEF Left, Made, SHIPPED_STATUS
  <2> QED
    BY <2>1, <2>2
<1> QED
  BY <1>6, <1>7 DEF UndoesNothing, PriceStep, DepartStep, VoidStep

\* Nor does a line of a packing list: its shipment has not left.
LEMMA ListUndoesNothing ==
  ASSUME FloorAssumption, FInv, NEW s \in Sessions, CommitJob(s), job[s].op \in ListOps
  PROVE  UndoesNothing
<1> DEFINE h == job[s].row
           k == job[s].carton
<1>1. /\ h \in Shipments /\ k \in Cartons /\ ~EverLeft(db[h])
      /\ \A x \in Shipments : x # h => db'[k].on # x /\ db[k].on # x
      /\ \A x \in Documents \ {k} : db'[x] = db[x]
      /\ moves' = moves
  BY ListCommits
<1>2. /\ \A x \in Shipments : db'[x] = db[x]
      /\ \A c \in Cartons \ {k} : db'[c] = db[c]
  BY <1>1, Apartments DEF Documents
<1>3. \A x \in Shipments : Left(x) => db[x].status \in LOCKED_STATUS
  BY DEF FInv, Sound, RowsTyped, Left, Made, EverLeft, LOCKED_STATUS
<1>4. ASSUME NEW x \in Shipments, Left(x)
      PROVE  PackingList(x)' = PackingList(x) /\ \A c \in PackingList(x) : UNCHANGED db[c]
  <2>1. x # h
    BY <1>1, <1>4 DEF Left
  <2>2. db'[k].on # x /\ db[k].on # x
    BY <1>1, <2>1
  <2> QED
    BY <1>2, <2>2 DEF PackingList
<1>5. ListStep /\ ScrapStep
  BY <1>1, <1>4 DEF ListStep, ScrapStep
<1>6. PriceStep /\ DepartStep /\ VoidStep
  BY <1>2, <1>3 DEF PriceStep, DepartStep, VoidStep, Left, Made, SHIPPED_STATUS
<1> QED
  BY <1>5, <1>6 DEF UndoesNothing

\* Nor a bundle function: a scan has read a bundle that is not scrapped.
LEMMA BundleUndoesNothing ==
  ASSUME FloorAssumption, FInv, NEW s \in Sessions, CommitJob(s), job[s].op \in BundleOps
  PROVE  UndoesNothing
<1>1. job[s].row \in Bundles /\ BundleFacts(job[s], db[job[s].row], moves[job[s].row])
  BY JobRows DEF FInv, Sound, Facts
<1>2. /\ \A x \in Documents \ {job[s].row} : db'[x] = db[x]
      /\ moves' = IF job[s].op = "scan" THEN [moves EXCEPT ![job[s].row] = With(moves[job[s].row], job[s].scan)]
                                        ELSE moves
  BY CommitIs DEF Target, BundleOps, ListOps
<1>3. (\A h \in Shipments : db'[h] = db[h]) /\ \A k \in Cartons : db'[k] = db[k]
  BY <1>1, <1>2, Apartments DEF Documents
<1>4. DOMAIN moves = Bundles
  BY DEF FInv, Sound
<1>5. \A b \in Bundles : db[b].status = "rejected" => moves'[b] = moves[b]
  BY <1>1, <1>2, <1>4 DEF BundleFacts
<1> QED
  BY <1>3, <1>5, LeavesAlone

\* No step of the system undoes anything.
LEMMA NextUndoesNothing ==
  ASSUME FloorAssumption, FInv, Next
  PROVE  UndoesNothing
<1>1. DOMAIN db = Documents /\ DOMAIN moves = Bundles /\ Store \in Documents
  BY DEF FInv, Sound, RowsTyped, Documents
<1>2. ASSUME UNCHANGED <<db, moves>> PROVE UndoesNothing
  BY <1>2, LeavesAlone
<1>3. ASSUME NEW d \in Bundles \cup Shipments, NEW row, db[d].status = "none",
             db' = [db EXCEPT ![d] = row], \A b \in Bundles : b # d => moves'[b] = moves[b]
      PROVE  UndoesNothing
  <2>1. \A r \in Documents \ {d} : db'[r] = db[r]
    BY <1>1, <1>3
  <2>2. /\ \A h \in Shipments : db[h].status # "none" => db'[h] = db[h]
        /\ \A k \in Cartons : db'[k] = db[k]
        /\ \A b \in Bundles : db[b].status = "rejected" => moves'[b] = moves[b]
    BY <1>3, <2>1, Apartments DEF Documents
  <2> QED
    BY <2>2, LeavesAlone
<1>4. ASSUME NEW row, db' = [db EXCEPT ![Store] = row], moves' = moves PROVE UndoesNothing
  <2>1. \A r \in Documents \ {Store} : db'[r] = db[r]
    BY <1>1, <1>4
  <2>2. (\A h \in Shipments : db'[h] = db[h]) /\ \A k \in Cartons : db'[k] = db[k]
    BY <2>1, Apartments DEF Documents
  <2> QED
    BY <1>4, <2>2, LeavesAlone
<1>5. ASSUME NEW b \in Bundles, NEW x \in Sections, create_bundle(b, x) PROVE UndoesNothing
  <2>1. /\ db[b].status = "none" /\ db' = [db EXCEPT ![b] = [status |-> "created", section |-> x]]
        /\ moves' = [moves EXCEPT ![b].stands[x] = Cut]
    BY <1>5 DEF create_bundle, Create
  <2>2. \A c \in Bundles : c # b => moves'[c] = moves[c]
    BY <1>1, <2>1
  <2> QED
    BY <1>3, <2>1, <2>2
<1>6. ASSUME NEW h \in Shipments, \/ \E v \in CREATE_STATUS, o \in BOOLEAN : create_shipment(h, v, o)
                                  \/ SeedShipment(h)
      PROVE  UndoesNothing
  <2>1. db[h].status = "none" /\ moves' = moves /\ \E row : db' = [db EXCEPT ![h] = row]
    BY <1>6 DEF create_shipment, SeedShipment, Create
  <2> QED
    BY <1>3, <2>1
<1>7. ASSUME NEW n \in CartonSizes, Pack(n) PROVE UndoesNothing
  BY <1>4, <1>7 DEF Pack
<1>8. ASSUME NEW s \in Sessions, Start(s) PROVE UndoesNothing
  <2>1. ASSUME NEW j, Begin(s, j) PROVE UndoesNothing
    BY <1>2, <2>1 DEF Begin, Read
  <2>2. ASSUME NEW b \in Bundles,
               \/ \E from, to \in Sections, qty \in 1 .. Cut : BeginScan(s, b, from, to, qty)
               \/ BeginScrap(s, b) \/ BeginRestore(s, b)
        PROVE  UndoesNothing
    BY <2>1, <2>2 DEF BeginScan, BeginScrap, BeginRestore
  <2>3. ASSUME NEW h \in Shipments,
               \/ \E v \in SHIPMENT_STATUS \cup {"keep"}, p \in Prices : BeginUpdate(s, h, v, p)
               \/ \E k \in Cartons, n \in CartonSizes : BeginAddCarton(s, h, k, n)
        PROVE  UndoesNothing
    BY <2>1, <2>3 DEF BeginUpdate, BeginAddCarton
  <2>4. ASSUME NEW k \in Cartons, BeginDeleteCarton(s, k) PROVE UndoesNothing
    BY <2>1, <2>4 DEF BeginDeleteCarton
  <2> QED
    BY <1>8, <2>2, <2>3, <2>4 DEF Start
<1>9. ASSUME NEW s \in Sessions, Stop(s) PROVE UndoesNothing
  BY <1>2, <1>9 DEF Stop, Rollback
<1>10. ASSUME NEW s \in Sessions, CommitJob(s) PROVE UndoesNothing
  BY <1>10, CommitIs, BundleUndoesNothing, UpdateUndoesNothing, ListUndoesNothing
<1>11. ASSUME NEW s \in Sessions, ShipLine(s) PROVE UndoesNothing
  BY <1>4, <1>11 DEF ShipLine
<1>12. ASSUME NEW s \in Sessions, Work(s) PROVE UndoesNothing
  <2>1. CASE LockTimeout(s)
    BY <1>9, <2>1 DEF LockTimeout
  <2>2. CASE InsertScan(s) \/ ReadLines(s) \/ (\E k \in Cartons : CheckLine(s, k)) \/ EndPosting(s)
    BY <1>2, <2>2 DEF InsertScan, ReadLines, CheckLine, EndPosting, Read
  <2>3. CASE PutRow(s) \/ PutCarton(s)
    BY <1>2, <2>3 DEF PutRow, PutCarton, Write
  <2> QED
    BY <1>10, <1>11, <1>12, <2>1, <2>2, <2>3 DEF Work
<1> QED
  BY <1>5, <1>6, <1>7, <1>8, <1>9, <1>12 DEF Next

\* The inductive invariant holds in every state.
LEMMA AlwaysSound ==
  ASSUME Safe
  PROVE  Spec => []FInv
<1>1. Init => FInv
  BY FloorAssumption, InitSound
<1>2. FInv /\ [Next]_vars => FInv'
  BY FloorAssumption, NextKeeps
<1> QED
  BY <1>1, <1>2, PTL DEF Spec

\* However many sessions scan, scrap and restore however many bundles: as long as no scan
\* overlaps with another function on its bundle, every bundle says what its scans say, and no
\* section passes on more than stood in it (move_bundle, set_bundle_status).
THEOREM FloorStands ==
  ASSUME Safe
  PROVE  Spec => []BundlesTrue
<1>1. FInv => BundlesTrue
  <2> SUFFICES ASSUME FInv PROVE BundlesTrue
    OBVIOUS
  <2>1. RowsTyped(db) /\ \A b \in Bundles : OnFloor(db[b].status, moves[b])
    BY DEF FInv, Sound
  <2>2. TypeOK
    BY <2>1 DEF TypeOK, RowsTyped, BundleStatus, ShipmentRow
  <2>3. NoPhantoms
    BY <2>1 DEF NoPhantoms, OnFloor, Standing
  <2>4. ProgressEarned
    BY <2>1 DEF ProgressEarned, OnFloor, Earned
  <2> QED
    BY <2>2, <2>3, <2>4 DEF BundlesTrue
<1> QED
  BY <1>1, AlwaysSound, PTL

\* The finished-goods store and the departures tell the same story, however many people
\* update shipments, as long as no departure overlaps with a function it harms: the store
\* never ships more than was packed, a departure is taken out at most once, and one that was
\* not cut short entirely (update_shipment, _post_shipped_to_fg, fg_move).
THEOREM StoreAgrees ==
  ASSUME Safe
  PROVE  Spec => []StoreTrue
<1>1. FInv => StoreTrue
  <2> SUFFICES ASSUME FInv PROVE StoreTrue
    OBVIOUS
  <2>1. RowsTyped(db) /\ BooksTyped(books) /\ \A h \in Shipments : Booked(db, job, books, h)
    BY DEF FInv, Sound
  <2>2. StoreCovers
    BY <2>1 DEF StoreCovers, RowsTyped
  <2>3. ASSUME NEW h \in Shipments
        PROVE  Pieces(h) \in Nat /\ Owed(db, h) = IF Made(h) /\ db[h].ordered THEN Pieces(h) ELSE 0
    <3>1. Pieces(h) = PackedIn(db, ListOf(db, h))
      BY DEF Pieces, Packed, PackingList, PackedIn, ListOf
    <3>2. ListOf(db, h) \in SUBSET Cartons
      BY DEF ListOf
    <3>3. PackedIn(db, ListOf(db, h)) \in Nat
      BY FloorAssumption, <2>1, <3>2, PackedTakeOut DEF RowsTyped
    <3> QED
      BY <3>1, <3>3 DEF Owed, Made
  <2>4. PostedOnce
    <3> SUFFICES ASSUME NEW h \in Shipments
                 PROVE  books[h].posted + books[h].refused <= IF Left(h) THEN Pieces(h) ELSE 0
      BY DEF PostedOnce
    <3>1. Booked(db, job, books, h) /\ books[h].posted \in Nat /\ books[h].refused \in Nat
      BY <2>1 DEF BooksTyped
    <3>2. CASE Made(h) /\ db[h].stamp
      <4>1. Left(h)
        BY <3>2 DEF Left, EverLeft
      <4>2. books[h].posted + books[h].refused <= Owed(db, h)
        BY <3>1 DEF Booked
      <4> QED
        BY <2>3, <3>1, <4>1, <4>2
    <3>3. CASE ~(Made(h) /\ db[h].stamp)
      <4>1. books[h].posted + books[h].refused = 0
        BY <3>1, <3>3 DEF Booked, Made
      <4> QED
        BY <2>3, <4>1
    <3> QED
      BY <3>2, <3>3
  <2>5. LinesReckoned
    BY <2>1, <2>3 DEF LinesReckoned, Booked, Reckoned, Stamped, Posting, Made
  <2> QED
    BY <2>2, <2>4, <2>5 DEF StoreTrue
<1> QED
  BY <1>1, AlwaysSound, PTL

\* The scans of a scrapped bundle stop; what has left keeps its packing list, its price and
\* its departure; what is void does not leave: no function undoes this, whatever it overlaps
\* with that it is not harmed by (update_shipment, add_carton, delete_carton, move_bundle).
THEOREM NothingIsUndone ==
  ASSUME Safe
  PROVE  Spec => NothingUndone
<1>1. FInv /\ [Next]_vars => [UndoesNothing]_vars
  BY FloorAssumption, NextUndoesNothing
<1>2. [UndoesNothing]_vars =>
        /\ [\A b \in Bundles : db[b].status = "rejected" => UNCHANGED moves[b]]_vars
        /\ [\A h \in Shipments : Left(h) =>
              PackingList(h)' = PackingList(h) /\ \A k \in PackingList(h) : UNCHANGED db[k]]_vars
        /\ [\A h \in Shipments : Left(h) => db'[h].price = db[h].price]_vars
        /\ [\A h \in Shipments : Left(h) => Left(h)' /\ db'[h].status \in LOCKED_STATUS]_vars
        /\ [\A h \in Shipments : db[h].status = "cancelled" => db'[h].status \notin SHIPPED_STATUS]_vars
  BY DEF UndoesNothing, ScrapStep, ListStep, PriceStep, DepartStep, VoidStep
<1> QED
  BY <1>1, <1>2, AlwaysSound, PTL
     DEF Spec, NothingUndone, ScrapStands, ListFrozen, PriceFrozen, DepartureKept, VoidStays

=============================================================================
