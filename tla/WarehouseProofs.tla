-------------------------- MODULE WarehouseProofs --------------------------
(***************************************************************************)
(* Theorems about WarehouseSessions, for any number of requests, rolls,    *)
(* trims, orders and quantities, as long as only operations overlap that   *)
(* the guards of the code make safe to overlap.                            *)
(*                                                                         *)
(* The argument looks at the store through the eyes of each session: the   *)
(* committed rows with its own writes on top (View).  In every such view   *)
(* the counters are the open allocations plus what the session has counted *)
(* and not yet written down, or the other way round (OnRow, OnHeader).     *)
(* Two sessions never hold the same row, so when one of them commits, the  *)
(* sums in the view of the other change by exactly what was committed.     *)
(***************************************************************************)
EXTENDS WarehouseSessions, SumProofs

\* Only guarded pairs of operations overlap.
Safe == Together \subseteq Guarded

(***************************************************************************)
(* Rows.                                                                   *)
(***************************************************************************)
Rows == Items \cup Claims \cup {Header}
RollStatuses == {"none", "available", "partial", "consumed", "quarantine"}
CountRow == [stock : Nat, reserved : Nat]
RollRow == [stock : Nat, reserved : Nat, status : RollStatuses]
OpenClaim == [status : {"reserved"}, order : Orders, item : Items, qty : Nat \ {0}]
ClaimRow == OpenClaim \cup {NoClaim, Issued, Released}
NewRoll == [NoRoll EXCEPT !.status = "available"]

RowsTyped(e) ==
    /\ e = [x \in Rows |-> e[x]]
    /\ \A x \in Trims \cup {Header} : e[x] \in CountRow
    /\ \A r \in Rolls : e[r] \in RollRow
    /\ \A c \in Claims : e[c] \in ClaimRow
    /\ \A i \in Items : e[i].reserved <= e[i].stock

\* What a status says of the metres.
Tells(row, length) ==
    /\ row.status = "none" => row = NoRoll
    /\ row.status = "consumed" => row.stock = 0
    /\ row.status = "partial" => row.stock \in 1 .. (length - 1)
    /\ row.status = "available" => row.stock >= length

RollsReserved(e) == SumFunctionOnSet([r \in Rolls |-> e[r].reserved], Rolls)
RollsStock(e) == SumFunctionOnSet([r \in Rolls |-> e[r].stock], Rolls)

\* The counters: q more than the open allocations on item x, h more than the
\* rolls on the header in reservations, g in stock.
Counted(e, x, q, h, g) ==
    /\ \A i \in Items : e[i].reserved = ClaimedIn(e, i) + (IF i = x THEN q ELSE 0)
    /\ e[Header].reserved = RollsReserved(e) + h
    /\ e[Header].stock = RollsStock(e) + g

(***************************************************************************)
(* Jobs.                                                                   *)
(***************************************************************************)
JobFields == {"op", "pc", "order", "plan", "made", "ids", "item", "qty", "was", "hdr", "posted"}
NoPosting == [i \in Items |-> 0]
Placing == {"before", "guard", "after", "mirror", "alloc", "placed"}
Closing == {"claim", "held", "unreserve", "header", "commit"}
Moving == {"row", "hdr", "put", "puthdr", "commit"}

Points(op) ==
    CASE op = "reserve" -> Placing
      [] op = "counter" -> Placing \cup {"select"} \cup Closing
      [] op = "issue" -> Closing
      [] op = "release" -> Closing \ {"held"}
      [] op \in MoveOps -> Moving
      [] op = "hold" -> {"puthold", "commit"}

JobTyped(j) ==
    /\ DOMAIN j = JobFields
    /\ j.posted \in [Items -> Int]
    /\ j.op = "idle" => j = Idle
    /\ j.op # "idle" => /\ j.op \in ReserveOps \cup CloseOps \cup MoveOps \cup {"hold"}
                        /\ j.pc \in Points(j.op)

Places(j) == j.op \in ReserveOps /\ j.pc \in Placing
Closes(j) == j.op \in CloseOps /\ j.pc \in Closing

\* The item of the plan, or the allocation, that a job is at.
PlanAt(j) == Earliest(DOMAIN j.plan)
IdAt(j) == Earliest(DOMAIN j.ids)

\* What its view counts and has not written down, or the other way round.
AtRow(j) ==
    IF Places(j) /\ j.pc # "placed" THEN PlanAt(j)
    ELSE IF Closes(j) /\ j.pc # "commit" THEN j.ids[IdAt(j)].item ELSE Header
OnRow(j, m) ==
    IF Places(j) /\ (j.pc \in {"mirror", "alloc"} \/ (j.pc = "after" /\ PlanAt(j) \in DOMAIN m))
    THEN j.plan[PlanAt(j)]
    ELSE IF Closes(j) /\ j.pc \in {"held", "unreserve"} THEN j.ids[IdAt(j)].qty ELSE 0
OnHeader(j, m) ==
    IF Places(j) /\ (j.pc = "mirror" \/ (j.pc = "after" /\ PlanAt(j) \in DOMAIN m \cap Rolls))
    THEN -j.plan[PlanAt(j)]
    ELSE IF Closes(j) /\ j.pc = "header" THEN j.ids[IdAt(j)].qty ELSE 0
OffHeader(j) == IF j.pc = "puthdr" THEN -j.qty ELSE 0

\* receive_roll has inserted the roll and not yet booked its length.
Empty(j, r) == j.op = "receive" /\ j.pc \in {"row", "hdr", "put"} /\ j.item = r

\* The rows e as a session with job j and own writes m sees them; l: the ledger.
View(j, m, e, l) ==
    /\ RowsTyped(e)
    /\ \A r \in Rolls : Tells(e[r], Length[r]) \/ (Empty(j, r) /\ e[r] = NewRoll)
    /\ Counted(e, AtRow(j), OnRow(j, m), OnHeader(j, m), OffHeader(j))
    /\ \A i \in Items : e[i].stock = l[i] + j.posted[i]

(***************************************************************************)
(* What a job has read, and done, and what of it is still so: d the rows   *)
(* as committed, m its own writes.                                         *)
(***************************************************************************)
\* Stock and status of the items are as they were.
SameShelf(m, d) ==
    /\ \A i \in DOMAIN m \cap Items : m[i].stock = d[i].stock
    /\ \A r \in DOMAIN m \cap Rolls : m[r].status = d[r].status

PlaceFacts(j, m, d) ==
    Places(j) =>
        /\ j.order \in Orders /\ j.posted = NoPosting
        /\ j.made = DOMAIN m \cap Claims
        /\ \A c \in j.made : d[c] = NoClaim /\ m[c] \in OpenClaim /\ m[c].order = j.order
        /\ SameShelf(m, d)
        /\ DOMAIN j.plan \subseteq Rolls \/ \E t \in Trims : DOMAIN j.plan = {t}
        /\ \A i \in DOMAIN j.plan : j.plan[i] \in Nat \ {0}
        /\ j.pc = "placed" => j.made # {}
        /\ j.pc # "placed" => DOMAIN j.plan # {}
        /\ \A i \in DOMAIN j.plan : i \in DOMAIN m => j.pc \in {"after", "mirror", "alloc"} /\ i = PlanAt(j)
        /\ j.pc \in {"guard", "after"} =>
             j.was \in Nat /\ (PlanAt(j) \notin DOMAIN m => d[PlanAt(j)].reserved <= j.was)
        /\ j.pc \in {"mirror", "alloc"} => PlanAt(j) \in DOMAIN m
        /\ j.pc = "mirror" => PlanAt(j) \in Rolls

SelectFacts(j, m) ==
    j.op = "counter" /\ j.pc = "select" => DOMAIN m = {} /\ j.made \subseteq Claims /\ j.posted = NoPosting

\* An issue takes from the shelf what it takes from the counter, and nothing
\* of a roll on hold.
Cuts(j, m, d) ==
    /\ \A i \in DOMAIN m \cap Items :
         m[i].stock - d[i].stock = m[i].reserved - d[i].reserved
             + (IF j.pc = "header" /\ i = j.ids[IdAt(j)].item THEN j.ids[IdAt(j)].qty ELSE 0)
    /\ \A r \in DOMAIN m \cap Rolls : m[r].status = "quarantine" <=> d[r].status = "quarantine"
    /\ \A c \in DOMAIN m \cap Claims :
         d[c].item \in Rolls /\ ~(j.pc = "held" /\ c = IdAt(j)) => d[d[c].item].status # "quarantine"

Frees(j, m, d) ==
    /\ SameShelf(m, d) /\ j.posted = NoPosting
    /\ \E c \in Claims : DOMAIN m \cap Claims \subseteq {c} /\ DOMAIN j.ids \subseteq {c}

CloseFacts(j, m, d) ==
    Closes(j) =>
        /\ DOMAIN j.ids \subseteq Claims
        /\ \A c \in DOMAIN j.ids :
             /\ j.ids[c].item \in Items /\ j.ids[c].qty \in Nat \ {0}
             /\ d[c] # NoClaim
             /\ d[c].status = "reserved" => d[c].item = j.ids[c].item /\ d[c].qty = j.ids[c].qty
        /\ \A c \in DOMAIN m \cap Claims :
             d[c].status = "reserved" /\ m[c] = IF j.op = "release" THEN Released ELSE Issued
        /\ \A i \in DOMAIN m \cap Items : m[i].reserved <= d[i].reserved
        /\ j.pc # "commit" => DOMAIN j.ids # {}
        /\ j.pc = "commit" => DOMAIN m \cap Claims # {}
        /\ j.pc \in {"held", "unreserve", "header"} => IdAt(j) \in DOMAIN m
        /\ j.pc = "header" => j.ids[IdAt(j)].item \in DOMAIN m \cap Rolls
        /\ IF j.op = "release" THEN Frees(j, m, d) ELSE Cuts(j, m, d)

\* A receipt, a return, a stock-take: nobody else is at work.
MoveFacts(j, m, d) ==
    j.op \in MoveOps =>
        /\ j.item \in Items /\ j.qty \in Int \ {0}
        /\ j.pc \in {"hdr", "puthdr"} => j.item \in Rolls
        /\ j.pc \in {"row", "hdr", "put"} =>
             /\ j.posted = NoPosting
             /\ \/ DOMAIN m = {} /\ (j.item \in Rolls => d[j.item].status # "none")
                \/ /\ j.op = "receive" /\ j.item \in Rolls /\ DOMAIN m = {j.item}
                   /\ m[j.item] = NewRoll /\ d[j.item] = NoRoll
        /\ j.pc \in {"hdr", "put"} => j.was = Over(m, d)[j.item]
        /\ j.pc = "put" => ~TooLow(j.was, j.qty)
        /\ j.pc \in {"put", "puthdr"} /\ j.item \in Rolls =>
             j.hdr = d[Header].stock /\ j.hdr + j.qty >= 0
        /\ j.pc \in {"puthdr", "commit"} =>
             /\ j.posted = [NoPosting EXCEPT ![j.item] = j.qty]
             /\ j.item \in DOMAIN m
             /\ DOMAIN m \subseteq {j.item, Header}
             /\ j.pc = "puthdr" => DOMAIN m = {j.item}
             /\ m[j.item].stock = d[j.item].stock + j.qty
             /\ m[j.item].reserved = d[j.item].reserved
             /\ j.item \in Rolls => (m[j.item].status = "quarantine" <=> d[j.item].status = "quarantine")

HoldFacts(j, m, d) ==
    j.op = "hold" =>
        /\ j.item \in Rolls /\ d[j.item].status # "none" /\ j.posted = NoPosting
        /\ j.was \in {"quarantine", RollStatus("none", d[j.item].stock, Length[j.item])}
        /\ j.pc = "puthold" => DOMAIN m = {}
        /\ j.pc = "commit" => DOMAIN m = {j.item} /\ m[j.item] = [d[j.item] EXCEPT !.status = j.was]

Facts(j, m, d, l) ==
    /\ JobTyped(j)
    /\ DOMAIN m \subseteq Rows
    /\ j.op = "idle" => DOMAIN m = {}
    /\ View(j, m, Over(m, d), l)
    /\ PlaceFacts(j, m, d) /\ SelectFacts(j, m) /\ CloseFacts(j, m, d)
    /\ MoveFacts(j, m, d) /\ HoldFacts(j, m, d)

\* Two operations at once are a guarded pair.
Apart(i, j) == i.op # "idle" /\ j.op # "idle" => {i.op, j.op} \in Guarded

Sound(d, mn, jb, l) ==
    /\ View(Idle, NoRows, d, l) /\ l \in [Items -> Int]
    /\ DOMAIN mn = Sessions /\ DOMAIN jb = Sessions
    /\ \A s \in Sessions : Facts(jb[s], mn[s], d, l)
    /\ \A s, t \in Sessions : s # t => Apart(jb[s], jb[t]) /\ DOMAIN mn[s] \cap DOMAIN mn[t] = {}

\* The inductive invariant.
WInv == Sound(db, mine, job, ledger)
-----------------------------------------------------------------------------
(* Rows.                                                                   *)

\* Rolls, trims, allocations and the header are different rows.
LEMMA RowsApart ==
  ASSUME StoreAssumption
  PROVE  /\ Rolls \cap Trims = {} /\ Items \cap Claims = {} /\ Header \notin Items /\ Header \notin Claims
         /\ Rolls \subseteq Items /\ Trims \subseteq Items /\ Items = Rolls \cup Trims
         /\ Items \subseteq Rows /\ Claims \subseteq Rows /\ Header \in Rows
         /\ IsFiniteSet(Rolls) /\ IsFiniteSet(Claims)
         /\ Rolls \subseteq Nat /\ Claims \subseteq Nat
BY DEF StoreAssumption, Rows, Items

\* Rows with some of them replaced.
LEMMA OverIs ==
  ASSUME NEW m, NEW d, DOMAIN m \subseteq Rows, DOMAIN d = Rows, NEW e, e = Over(m, d)
  PROVE  /\ DOMAIN e = Rows /\ e = [x \in Rows |-> e[x]]
         /\ \A x \in DOMAIN m : e[x] = m[x]
         /\ \A x \in Rows \ DOMAIN m : e[x] = d[x]
BY DEF Over

\* A job at its next statement.
LEMMA GotoIs ==
  ASSUME NEW j, DOMAIN j = JobFields, NEW pc, NEW k, k = [j EXCEPT !.pc = pc]
  PROVE  /\ DOMAIN k = JobFields
         /\ k.op = j.op /\ k.pc = pc /\ k.order = j.order /\ k.plan = j.plan /\ k.made = j.made
         /\ k.ids = j.ids /\ k.item = j.item /\ k.qty = j.qty /\ k.was = j.was /\ k.hdr = j.hdr
         /\ k.posted = j.posted
BY DEF JobFields

\* What a session reads is what is committed with its own writes on top.
LEMMA SeenIs ==
  ASSUME WInv, NEW s \in Sessions, NEW e, e = Over(mine[s], db)
  PROVE  /\ DOMAIN db = Rows /\ DOMAIN mine[s] \subseteq Rows /\ DOMAIN e = Rows /\ e = [x \in Rows |-> e[x]]
         /\ \A r \in Rows : Seen(s, r) = e[r]
         /\ \A r \in DOMAIN mine[s] : e[r] = mine[s][r]
         /\ \A r \in Rows \ DOMAIN mine[s] : e[r] = db[r]
<1>1. DOMAIN mine[s] \subseteq Rows /\ DOMAIN db = Rows
  BY DEF WInv, Sound, Facts, View, RowsTyped
<1>2. /\ DOMAIN e = Rows /\ e = [x \in Rows |-> e[x]]
      /\ \A r \in DOMAIN mine[s] : e[r] = mine[s][r]
      /\ \A r \in Rows \ DOMAIN mine[s] : e[r] = db[r]
  BY <1>1, OverIs
<1> QED
  BY <1>1, <1>2 DEF Seen

\* The rows have the types of their tables.
LEMMA Columns ==
  ASSUME StoreAssumption, NEW e, RowsTyped(e)
  PROVE  /\ DOMAIN e = Rows
         /\ \A i \in Items \cup {Header} : e[i].stock \in Nat /\ e[i].reserved \in Nat
         /\ \A i \in Items : e[i].reserved <= e[i].stock
         /\ \A r \in Rolls : e[r].status \in RollStatuses
         /\ \A c \in Claims : e[c] \in ClaimRow
BY RowsApart DEF RowsTyped, CountRow, RollRow

\* An allocation counts for its item while it is open, a closed one for none.
LEMMA ClaimedByIs ==
  ASSUME NEW row \in ClaimRow, NEW i
  PROVE  /\ ClaimedBy(row, i) \in Nat
         /\ row.status # "reserved" => ClaimedBy(row, i) = 0
         /\ row.status = "reserved" => row \in OpenClaim /\ row.item \in Items /\ row.qty \in Nat \ {0}
         /\ row.status = "reserved" => ClaimedBy(row, i) = IF row.item = i THEN row.qty ELSE 0
         /\ (row = NoClaim => row.status = "none") /\ (row.status = "none" => row = NoClaim)
         /\ Issued.status = "issued" /\ Released.status = "released"
BY DEF ClaimRow, OpenClaim, NoClaim, Issued, Released, ClaimedBy

\* The sums are natural numbers.
LEMMA SumsTyped ==
  ASSUME StoreAssumption, NEW e, RowsTyped(e)
  PROVE  /\ \A i : ClaimedIn(e, i) \in Nat
         /\ RollsReserved(e) \in Nat /\ RollsStock(e) \in Nat
<1>1. ASSUME NEW i PROVE ClaimedIn(e, i) \in Nat
  <2> DEFINE f == [c \in Claims |-> ClaimedBy(e[c], i)]
  <2>1. \A c \in Claims : f[c] \in Nat
    BY Columns, ClaimedByIs
  <2> HIDE DEF f
  <2> QED
    BY <2>1, SumNat, RowsApart DEF f, ClaimedIn
<1>2. RollsReserved(e) \in Nat
  <2> DEFINE f == [r \in Rolls |-> e[r].reserved]
  <2>1. \A r \in Rolls : f[r] \in Nat
    BY Columns, RowsApart
  <2> HIDE DEF f
  <2> QED
    BY <2>1, SumNat, RowsApart DEF f, RollsReserved
<1>3. RollsStock(e) \in Nat
  <2> DEFINE f == [r \in Rolls |-> e[r].stock]
  <2>1. \A r \in Rolls : f[r] \in Nat
    BY Columns, RowsApart
  <2> HIDE DEF f
  <2> QED
    BY <2>1, SumNat, RowsApart DEF f, RollsStock
<1> QED
  BY <1>1, <1>2, <1>3

\* The allocations are what they were.
LEMMA SameClaims ==
  ASSUME StoreAssumption, NEW e, NEW f, \A c \in Claims : f[c] = e[c]
  PROVE  \A i : ClaimedIn(f, i) = ClaimedIn(e, i)
<1> SUFFICES ASSUME NEW i PROVE ClaimedIn(f, i) = ClaimedIn(e, i)
  OBVIOUS
<1> DEFINE a == [c \in Claims |-> ClaimedBy(e[c], i)]
           b == [c \in Claims |-> ClaimedBy(f[c], i)]
<1>1. a = b
  OBVIOUS
<1> QED
  BY <1>1 DEF ClaimedIn

\* f and g, whole numbers over S, differ at k at most.
Shifted(f, g, S, k) ==
    /\ IsFiniteSet(S) /\ k \in S /\ g[k] \in Int
    /\ \A x \in S : f[x] \in Int
    /\ \A x \in S \ {k} : g[x] = f[x]

\* Then their sums differ by as much.
LEMMA SumShifted ==
  ASSUME NEW f, NEW g, NEW S, NEW k, Shifted(f, g, S, k)
  PROVE  SumFunctionOnSet(g, S) = SumFunctionOnSet(f, S) - f[k] + g[k]
BY SumUpdate DEF Shifted

\* One allocation is opened or closed.
LEMMA OneClaim ==
  ASSUME StoreAssumption, NEW e, NEW f, RowsTyped(e), NEW c \in Claims, f[c] \in ClaimRow,
         \A x \in Claims \ {c} : f[x] = e[x]
  PROVE  \A i : ClaimedIn(f, i) = ClaimedIn(e, i) - ClaimedBy(e[c], i) + ClaimedBy(f[c], i)
<1> SUFFICES ASSUME NEW i
             PROVE  ClaimedIn(f, i) = ClaimedIn(e, i) - ClaimedBy(e[c], i) + ClaimedBy(f[c], i)
  OBVIOUS
<1> DEFINE a == [x \in Claims |-> ClaimedBy(e[x], i)]
           b == [x \in Claims |-> ClaimedBy(f[x], i)]
<1>1. \A x \in Claims : a[x] \in Int
  BY Columns, ClaimedByIs
<1>2. b[c] \in Int
  BY ClaimedByIs
<1>3. \A x \in Claims \ {c} : b[x] = a[x]
  OBVIOUS
<1>4. a[c] = ClaimedBy(e[c], i) /\ b[c] = ClaimedBy(f[c], i)
  OBVIOUS
<1> HIDE DEF a, b
<1>5. Shifted(a, b, Claims, c)
  BY <1>1, <1>2, <1>3, RowsApart DEF Shifted
<1>6. SumFunctionOnSet(b, Claims) = SumFunctionOnSet(a, Claims) - a[c] + b[c]
  BY <1>5, SumShifted
<1> QED
  BY <1>4, <1>6 DEF ClaimedIn, a, b

\* The rolls are what they were, in reservations or in stock.
LEMMA SameRolls ==
  ASSUME NEW e, NEW f
  PROVE  /\ (\A r \in Rolls : f[r].reserved = e[r].reserved) => RollsReserved(f) = RollsReserved(e)
         /\ (\A r \in Rolls : f[r].stock = e[r].stock) => RollsStock(f) = RollsStock(e)
<1>1. ASSUME \A r \in Rolls : f[r].reserved = e[r].reserved PROVE RollsReserved(f) = RollsReserved(e)
  <2>1. [r \in Rolls |-> f[r].reserved] = [r \in Rolls |-> e[r].reserved]
    BY <1>1
  <2> QED
    BY <2>1 DEF RollsReserved
<1>2. ASSUME \A r \in Rolls : f[r].stock = e[r].stock PROVE RollsStock(f) = RollsStock(e)
  <2>1. [r \in Rolls |-> f[r].stock] = [r \in Rolls |-> e[r].stock]
    BY <1>2
  <2> QED
    BY <2>1 DEF RollsStock
<1> QED
  BY <1>1, <1>2

\* One roll changes.
LEMMA OneRoll ==
  ASSUME StoreAssumption, NEW e, NEW f, RowsTyped(e), NEW r \in Rolls,
         f[r].reserved \in Int, f[r].stock \in Int, \A x \in Rolls \ {r} : f[x] = e[x]
  PROVE  /\ RollsReserved(f) = RollsReserved(e) - e[r].reserved + f[r].reserved
         /\ RollsStock(f) = RollsStock(e) - e[r].stock + f[r].stock
<1>1. RollsReserved(f) = RollsReserved(e) - e[r].reserved + f[r].reserved
  <2> DEFINE a == [x \in Rolls |-> e[x].reserved]
             b == [x \in Rolls |-> f[x].reserved]
  <2>1. \A x \in Rolls : a[x] \in Int
    BY Columns, RowsApart
  <2>2. b[r] \in Int /\ a[r] = e[r].reserved /\ b[r] = f[r].reserved /\ \A x \in Rolls \ {r} : b[x] = a[x]
    OBVIOUS
  <2> HIDE DEF a, b
  <2>3. Shifted(a, b, Rolls, r)
    BY <2>1, <2>2, RowsApart DEF Shifted
  <2>4. SumFunctionOnSet(b, Rolls) = SumFunctionOnSet(a, Rolls) - a[r] + b[r]
    BY <2>3, SumShifted
  <2> QED
    BY <2>2, <2>4 DEF RollsReserved, a, b
<1>2. RollsStock(f) = RollsStock(e) - e[r].stock + f[r].stock
  <2> DEFINE a == [x \in Rolls |-> e[x].stock]
             b == [x \in Rolls |-> f[x].stock]
  <2>1. \A x \in Rolls : a[x] \in Int
    BY Columns, RowsApart
  <2>2. b[r] \in Int /\ a[r] = e[r].stock /\ b[r] = f[r].stock /\ \A x \in Rolls \ {r} : b[x] = a[x]
    OBVIOUS
  <2> HIDE DEF a, b
  <2>3. Shifted(a, b, Rolls, r)
    BY <2>1, <2>2, RowsApart DEF Shifted
  <2>4. SumFunctionOnSet(b, Rolls) = SumFunctionOnSet(a, Rolls) - a[r] + b[r]
    BY <2>3, SumShifted
  <2> QED
    BY <2>2, <2>4 DEF RollsStock, a, b
<1> QED
  BY <1>1, <1>2
-----------------------------------------------------------------------------
(* What is counted.                                                        *)

\* One row gets another value of its type.
LEMMA OneRowTyped ==
  ASSUME StoreAssumption, NEW e, RowsTyped(e), NEW r \in Rows, NEW f, f = [x \in Rows |-> f[x]],
         \A x \in Rows \ {r} : f[x] = e[x],
         r \in Trims \cup {Header} => f[r] \in CountRow,
         r \in Rolls => f[r] \in RollRow,
         r \in Claims => f[r] \in ClaimRow,
         r \in Items => f[r].reserved <= f[r].stock
  PROVE  RowsTyped(f)
<1>1. \A x \in Trims \cup {Header} : f[x] \in CountRow
  BY RowsApart DEF RowsTyped
<1>2. \A x \in Rolls : f[x] \in RollRow
  BY RowsApart DEF RowsTyped
<1>3. \A x \in Claims : f[x] \in ClaimRow
  BY RowsApart DEF RowsTyped
<1>4. \A x \in Items : f[x].reserved <= f[x].stock
  BY RowsApart DEF RowsTyped
<1> QED
  BY <1>1, <1>2, <1>3, <1>4 DEF RowsTyped

\* The row of an item changes by a in reservations and by b in stock.
LEMMA ItemCounted ==
  ASSUME StoreAssumption, NEW e, RowsTyped(e), NEW x, NEW q \in Int, NEW h \in Int, NEW g \in Int,
         Counted(e, x, q, h, g), NEW i \in Items, q = 0 \/ x = i,
         NEW f, \A y \in Rows \ {i} : f[y] = e[y], NEW a \in Int, NEW b \in Int,
         f[i].reserved = e[i].reserved + a, f[i].stock = e[i].stock + b
  PROVE  Counted(f, i, q + a, IF i \in Rolls THEN h - a ELSE h, IF i \in Rolls THEN g - b ELSE g)
<1>1. \A y : ClaimedIn(f, y) = ClaimedIn(e, y)
  <2>1. \A c \in Claims : f[c] = e[c]
    BY RowsApart
  <2> QED
    BY <2>1, SameClaims
<1>2. f[Header] = e[Header] /\ e[Header].reserved \in Nat /\ e[Header].stock \in Nat
      /\ e[i].reserved \in Nat /\ e[i].stock \in Nat
  BY RowsApart, Columns
<1>3. \A y : ClaimedIn(e, y) \in Nat
  BY SumsTyped
<1>4. RollsReserved(e) \in Nat /\ RollsStock(e) \in Nat
  BY SumsTyped
<1>5. ASSUME NEW y \in Items
      PROVE  f[y].reserved = ClaimedIn(f, y) + (IF y = i THEN q + a ELSE 0)
  <2>1. e[y].reserved = ClaimedIn(e, y) + (IF y = x THEN q ELSE 0)
    BY DEF Counted
  <2>2. ClaimedIn(f, y) = ClaimedIn(e, y) /\ ClaimedIn(e, y) \in Nat
    BY <1>1, <1>3
  <2>3. CASE y = i
    BY <2>1, <2>2, <2>3, <1>2
  <2>4. CASE y # i
    <3>1. f[y] = e[y]
      BY <2>4, RowsApart
    <3> QED
      BY <2>1, <2>2, <2>4, <3>1
  <2> QED
    BY <2>3, <2>4
<1>6. e[Header].reserved = RollsReserved(e) + h /\ e[Header].stock = RollsStock(e) + g
  BY DEF Counted
<1>7. CASE i \in Rolls
  <2>1. \A y \in Rolls \ {i} : f[y] = e[y]
    BY RowsApart
  <2>2. f[i].reserved \in Int /\ f[i].stock \in Int
    BY <1>2
  <2>3. /\ RollsReserved(f) = RollsReserved(e) - e[i].reserved + f[i].reserved
        /\ RollsStock(f) = RollsStock(e) - e[i].stock + f[i].stock
    BY <1>7, <2>1, <2>2, OneRoll
  <2>4. RollsReserved(f) = RollsReserved(e) + a /\ RollsStock(f) = RollsStock(e) + b
    BY <1>2, <1>4, <2>3
  <2>5. e[Header].reserved = RollsReserved(f) + (h - a) /\ e[Header].stock = RollsStock(f) + (g - b)
    BY <1>2, <1>4, <1>6, <2>4
  <2> QED
    BY <1>2, <1>5, <1>7, <2>5 DEF Counted
<1>8. CASE i \notin Rolls
  <2>1. \A y \in Rolls : f[y] = e[y]
    BY <1>8, RowsApart
  <2>2. RollsReserved(f) = RollsReserved(e) /\ RollsStock(f) = RollsStock(e)
    BY <2>1, SameRolls
  <2> QED
    BY <1>2, <1>5, <1>6, <1>8, <2>2 DEF Counted
<1> QED
  BY <1>7, <1>8

\* So does the header.
LEMMA HeaderCounted ==
  ASSUME StoreAssumption, NEW e, RowsTyped(e), NEW x, NEW q \in Int, NEW h \in Int, NEW g \in Int,
         Counted(e, x, q, h, g),
         NEW f, \A y \in Rows \ {Header} : f[y] = e[y], NEW a \in Int, NEW b \in Int,
         f[Header].reserved = e[Header].reserved + a, f[Header].stock = e[Header].stock + b
  PROVE  Counted(f, x, q, h + a, g + b)
<1>1. \A c \in Claims : f[c] = e[c]
  BY RowsApart
<1>2. \A r \in Rolls : f[r] = e[r]
  BY RowsApart
<1>3. \A y \in Items : f[y] = e[y]
  BY RowsApart
<1>4. \A y : ClaimedIn(f, y) = ClaimedIn(e, y)
  BY <1>1, SameClaims
<1>5. RollsReserved(f) = RollsReserved(e) /\ RollsStock(f) = RollsStock(e)
  BY <1>2, SameRolls
<1>6. RollsReserved(e) \in Nat /\ RollsStock(e) \in Nat
  BY SumsTyped
<1> QED
  BY <1>3, <1>4, <1>5, <1>6 DEF Counted

\* So does an allocation, by what it claims of its item.
LEMMA ClaimCounted ==
  ASSUME StoreAssumption, NEW e, RowsTyped(e), NEW x, NEW q \in Int, NEW h \in Int, NEW g \in Int,
         Counted(e, x, q, h, g), NEW c \in Claims,
         NEW f, \A y \in Rows \ {c} : f[y] = e[y], f[c] \in ClaimRow,
         NEW i \in Items, q = 0 \/ x = i, NEW n \in Int,
         \A y \in Items : ClaimedBy(e[c], y) - ClaimedBy(f[c], y) = (IF y = i THEN n ELSE 0)
  PROVE  Counted(f, i, q + n, h, g)
<1>1. \A y \in Items \cup {Header} : f[y] = e[y]
  BY RowsApart
<1>2. \A y : ClaimedIn(f, y) = ClaimedIn(e, y) - ClaimedBy(e[c], y) + ClaimedBy(f[c], y)
  <2>1. \A y \in Claims \ {c} : f[y] = e[y]
    BY RowsApart
  <2> QED
    BY <2>1, OneClaim
<1>3. RollsReserved(f) = RollsReserved(e) /\ RollsStock(f) = RollsStock(e)
  BY <1>1, RowsApart, SameRolls
<1>4. ASSUME NEW y \in Items PROVE f[y].reserved = ClaimedIn(f, y) + (IF y = i THEN q + n ELSE 0)
  <2>1. f[y].reserved = ClaimedIn(e, y) + (IF y = x THEN q ELSE 0)
    BY <1>1 DEF Counted
  <2>2. ClaimedIn(e, y) \in Nat
    BY SumsTyped
  <2>3. e[c] \in ClaimRow
    BY Columns
  <2>4. ClaimedBy(e[c], y) \in Nat /\ ClaimedBy(f[c], y) \in Nat
    BY <2>3, ClaimedByIs
  <2>5. ClaimedIn(f, y) = ClaimedIn(e, y) - ClaimedBy(e[c], y) + ClaimedBy(f[c], y)
    BY <1>2
  <2>6. ClaimedBy(e[c], y) - ClaimedBy(f[c], y) = (IF y = i THEN n ELSE 0)
    OBVIOUS
  <2>7. CASE y = i
    BY <2>1, <2>2, <2>4, <2>5, <2>6, <2>7
  <2>8. CASE y # i
    BY <2>1, <2>2, <2>4, <2>5, <2>6, <2>8
  <2> QED
    BY <2>7, <2>8
<1> QED
  BY <1>1, <1>3, <1>4 DEF Counted

\* The statements of each operation.
LEMMA PointsAre ==
  /\ Points("reserve") = Placing /\ Points("counter") = Placing \cup {"select"} \cup Closing
  /\ Points("issue") = Closing /\ Points("release") = Closing \ {"held"}
  /\ Points("receive") = Moving /\ Points("return") = Moving /\ Points("adjust") = Moving
  /\ Points("hold") = {"puthold", "commit"}
<1> HIDE DEF Placing, Closing, Moving
<1> QED
  BY DEF Points, MoveOps

\* What a reservation under way has counted.
LEMMA PlacePending ==
  ASSUME NEW j, Places(j), NEW m
  PROVE  /\ ~Closes(j) /\ OffHeader(j) = 0
         /\ j.pc \in {"before", "guard", "placed"} => OnRow(j, m) = 0 /\ OnHeader(j, m) = 0
         /\ j.pc # "placed" => AtRow(j) = PlanAt(j)
         /\ j.pc = "after" /\ PlanAt(j) \notin DOMAIN m => OnRow(j, m) = 0 /\ OnHeader(j, m) = 0
         /\ j.pc = "after" /\ PlanAt(j) \in DOMAIN m =>
              /\ OnRow(j, m) = j.plan[PlanAt(j)]
              /\ OnHeader(j, m) = IF PlanAt(j) \in Rolls THEN -j.plan[PlanAt(j)] ELSE 0
         /\ j.pc = "mirror" => OnRow(j, m) = j.plan[PlanAt(j)] /\ OnHeader(j, m) = -j.plan[PlanAt(j)]
         /\ j.pc = "alloc" => OnRow(j, m) = j.plan[PlanAt(j)] /\ OnHeader(j, m) = 0
BY DEF Places, Closes, Placing, Closing, OnRow, OnHeader, AtRow, OffHeader

\* What an issue or a release under way has counted.
LEMMA ClosePending ==
  ASSUME NEW j, Closes(j), NEW m
  PROVE  /\ ~Places(j) /\ OffHeader(j) = 0
         /\ j.pc \in {"claim", "commit"} => OnRow(j, m) = 0 /\ OnHeader(j, m) = 0
         /\ j.pc # "commit" => AtRow(j) = j.ids[IdAt(j)].item
         /\ j.pc \in {"held", "unreserve"} => OnRow(j, m) = j.ids[IdAt(j)].qty /\ OnHeader(j, m) = 0
         /\ j.pc = "header" => OnRow(j, m) = 0 /\ OnHeader(j, m) = j.ids[IdAt(j)].qty
BY DEF Places, Closes, Placing, Closing, OnRow, OnHeader, AtRow, OffHeader

\* The other operations count no reservation.
LEMMA OtherPending ==
  ASSUME NEW j, ~Places(j), ~Closes(j), NEW m
  PROVE  /\ OnRow(j, m) = 0 /\ OnHeader(j, m) = 0 /\ AtRow(j) = Header
         /\ j.pc # "puthdr" => OffHeader(j) = 0
         /\ j.pc = "puthdr" => OffHeader(j) = -j.qty
BY DEF OnRow, OnHeader, AtRow, OffHeader

\* The view of a session whose next statement has read only.
LEMMA ViewStays ==
  ASSUME NEW j, NEW k, NEW m, NEW n, NEW e, NEW l, View(j, m, e, l), k.posted = j.posted,
         OnRow(k, n) = OnRow(j, m), OnRow(j, m) = 0 \/ AtRow(k) = AtRow(j),
         OnHeader(k, n) = OnHeader(j, m), OffHeader(k) = OffHeader(j),
         \A r \in Rolls : Empty(j, r) => Empty(k, r)
  PROVE  View(k, n, e, l)
<1>1. Counted(e, AtRow(k), OnRow(k, n), OnHeader(k, n), OffHeader(k))
  <2>1. Counted(e, AtRow(j), OnRow(j, m), OnHeader(j, m), OffHeader(j))
    BY DEF View
  <2>2. CASE OnRow(j, m) = 0
    BY <2>1, <2>2 DEF Counted
  <2>3. CASE AtRow(k) = AtRow(j)
    BY <2>1, <2>3
  <2> QED
    BY <2>2, <2>3
<1> QED
  BY <1>1 DEF View
-----------------------------------------------------------------------------
(* Steps of a session.                                                     *)

\* What the invariant says of the committed rows.
LEMMA Committed ==
  ASSUME WInv
  PROVE  /\ View(Idle, NoRows, db, ledger) /\ RowsTyped(db) /\ ledger \in [Items -> Int]
         /\ DOMAIN db = Rows /\ DOMAIN mine = Sessions /\ DOMAIN job = Sessions
BY DEF WInv, Sound, View, RowsTyped

\* What it says of a session at work.
LEMMA AtWork ==
  ASSUME WInv, NEW s \in Sessions, NEW j, j = job[s], NEW m, m = mine[s], j.op # "idle"
  PROVE  /\ JobTyped(j) /\ DOMAIN j = JobFields /\ j.posted \in [Items -> Int]
         /\ j.op \in ReserveOps \cup CloseOps \cup MoveOps \cup {"hold"} /\ j.pc \in Points(j.op)
         /\ DOMAIN m \subseteq Rows
         /\ View(j, m, Over(m, db), ledger) /\ RowsTyped(Over(m, db))
         /\ PlaceFacts(j, m, db) /\ SelectFacts(j, m) /\ CloseFacts(j, m, db)
         /\ MoveFacts(j, m, db) /\ HoldFacts(j, m, db)
BY DEF WInv, Sound, Facts, JobTyped, View

\* A session makes a step without a commit.
LEMMA StepKeeps ==
  ASSUME WInv, NEW s \in Sessions,
         db' = db, ledger' = ledger, DOMAIN mine' = Sessions, DOMAIN job' = Sessions,
         \A t \in Sessions \ {s} : job'[t] = job[t] /\ mine'[t] = mine[t],
         \A t \in Sessions \ {s} : Apart(job'[s], job[t]),
         \A t \in Sessions \ {s} : DOMAIN mine'[s] \cap DOMAIN mine[t] = {},
         Facts(job'[s], mine'[s], db, ledger)
  PROVE  WInv'
<1>1. \A t \in Sessions : Facts(job'[t], mine'[t], db', ledger')
  BY DEF WInv, Sound
<1>2. \A t, u \in Sessions : t # u =>
         Apart(job'[t], job'[u]) /\ DOMAIN mine'[t] \cap DOMAIN mine'[u] = {}
  <2> SUFFICES ASSUME NEW t \in Sessions, NEW u \in Sessions, t # u
               PROVE  Apart(job'[t], job'[u]) /\ DOMAIN mine'[t] \cap DOMAIN mine'[u] = {}
    OBVIOUS
  <2>1. Apart(job[t], job[u]) /\ DOMAIN mine[t] \cap DOMAIN mine[u] = {}
    BY DEF WInv, Sound
  <2>2. CASE t = s
    BY <2>1, <2>2
  <2>3. CASE u = s
    <3>1. Apart(job'[s], job[t]) /\ job'[t] = job[t] /\ job'[u] = job'[s]
      BY <2>3
    <3>2. Apart(job'[t], job'[u])
      <4>1. {job'[s].op, job[t].op} = {job[t].op, job'[s].op}
        OBVIOUS
      <4> QED
        BY <3>1, <4>1 DEF Apart
    <3> QED
      BY <2>1, <2>3, <3>2
  <2>4. CASE t # s /\ u # s
    BY <2>1, <2>4
  <2> QED
    BY <2>2, <2>3, <2>4
<1>3. View(Idle, NoRows, db', ledger') /\ ledger' \in [Items -> Int]
  BY DEF WInv, Sound
<1>4. DOMAIN mine' = Sessions /\ DOMAIN job' = Sessions
  OBVIOUS
<1> HIDE DEF View, Facts, Apart
<1> QED
  BY <1>1, <1>2, <1>3, <1>4 DEF WInv, Sound

\* Its operation stays the same, or ends.
LEMMA GoesOn ==
  ASSUME WInv, NEW s \in Sessions,
         db' = db, ledger' = ledger, DOMAIN mine' = Sessions, DOMAIN job' = Sessions,
         \A t \in Sessions \ {s} : job'[t] = job[t] /\ mine'[t] = mine[t],
         job'[s].op \in {job[s].op, "idle"},
         \A t \in Sessions \ {s} : DOMAIN mine'[s] \cap DOMAIN mine[t] = {},
         Facts(job'[s], mine'[s], db, ledger)
  PROVE  WInv'
<1>1. \A t \in Sessions \ {s} : Apart(job'[s], job[t])
  <2> SUFFICES ASSUME NEW t \in Sessions \ {s} PROVE Apart(job'[s], job[t])
    OBVIOUS
  <2>1. Apart(job[s], job[t])
    BY DEF WInv, Sound
  <2> QED
    BY <2>1 DEF Apart
<1> QED
  BY <1>1, StepKeeps

\* It goes on after a read.
LEMMA ReadGoesOn ==
  ASSUME WInv, NEW s \in Sessions, Read, UNCHANGED ledger, NEW k, job' = [job EXCEPT ![s] = k],
         k.op = job[s].op, Facts(k, mine[s], db, ledger)
  PROVE  WInv'
<1>1. DOMAIN mine = Sessions /\ DOMAIN job = Sessions
      /\ \A t \in Sessions \ {s} : DOMAIN mine[s] \cap DOMAIN mine[t] = {}
  BY DEF WInv, Sound
<1>2. db' = db /\ mine' = mine /\ ledger' = ledger
  BY DEF Read
<1>3. job'[s] = k /\ DOMAIN job' = Sessions /\ \A t \in Sessions \ {s} : job'[t] = job[t]
  BY <1>1
<1> QED
  BY <1>1, <1>2, <1>3, GoesOn

\* A write of one row is a write of several.
LEMMA WriteIsAll ==
  ASSUME NEW s, NEW r, NEW v, Write(s, r, v), NEW put, put = [x \in {r} |-> v]
  PROVE  WriteAll(s, put)
BY DEF Write, WriteAll

\* Rows that are free are nobody else's after the write either.
LEMMA WrittenIsMine ==
  ASSUME WInv, NEW s \in Sessions, NEW put, WriteAll(s, put), NEW n, n = Over(put, mine[s])
  PROVE  /\ db' = db /\ mine' = [mine EXCEPT ![s] = n] /\ mine'[s] = n /\ DOMAIN mine' = Sessions
         /\ \A t \in Sessions \ {s} : mine'[t] = mine[t] /\ DOMAIN mine'[s] \cap DOMAIN mine[t] = {}
<1>1. DOMAIN mine = Sessions /\ \A t \in Sessions \ {s} : DOMAIN mine[s] \cap DOMAIN mine[t] = {}
  BY DEF WInv, Sound
<1>2. db' = db /\ mine' = [mine EXCEPT ![s] = n] /\ \A r \in DOMAIN put : Free(s, r)
  BY DEF WriteAll
<1>3. DOMAIN n = DOMAIN mine[s] \cup DOMAIN put
  BY DEF Over
<1>4. mine'[s] = n /\ DOMAIN mine' = Sessions /\ \A t \in Sessions \ {s} : mine'[t] = mine[t]
  BY <1>1, <1>2
<1>5. \A t \in Sessions \ {s} : DOMAIN n \cap DOMAIN mine[t] = {}
  BY <1>1, <1>2, <1>3 DEF Free
<1> QED
  BY <1>2, <1>4, <1>5

\* It goes on after a write.
LEMMA WriteGoesOn ==
  ASSUME WInv, NEW s \in Sessions, NEW put, WriteAll(s, put), UNCHANGED ledger,
         NEW k, job' = [job EXCEPT ![s] = k], k.op = job[s].op,
         NEW n, n = Over(put, mine[s]), Facts(k, n, db, ledger)
  PROVE  WInv'
<1>1. /\ db' = db /\ mine'[s] = n /\ DOMAIN mine' = Sessions
      /\ \A t \in Sessions \ {s} : mine'[t] = mine[t] /\ DOMAIN mine'[s] \cap DOMAIN mine[t] = {}
  BY WrittenIsMine
<1>2. DOMAIN job = Sessions
  BY DEF WInv, Sound
<1>3. job'[s] = k /\ DOMAIN job' = Sessions /\ \A t \in Sessions \ {s} : job'[t] = job[t]
  BY <1>2
<1>4. job'[s].op \in {job[s].op, "idle"} /\ Facts(job'[s], mine'[s], db, ledger) /\ ledger' = ledger
  BY <1>1, <1>3
<1> QED
  BY <1>1, <1>3, <1>4, GoesOn

\* A job that is none has counted nothing.
LEMMA IdleIs ==
         /\ DOMAIN Idle = JobFields /\ Idle.op = "idle" /\ Idle.pc = "idle" /\ Idle.posted = NoPosting
         /\ ~Places(Idle) /\ ~Closes(Idle) /\ \A r : ~Empty(Idle, r)
BY DEF Idle, JobFields, NoPosting, Places, Closes, Empty, ReserveOps, CloseOps

\* A session with no job is sound.
LEMMA IdleFacts ==
  ASSUME NEW m, DOMAIN m = {}, NEW d, NEW l, View(Idle, NoRows, d, l)
  PROVE  Facts(Idle, m, d, l) /\ Over(m, d) = d
<1>1. d = [x \in Rows |-> d[x]] /\ DOMAIN d = Rows
  BY DEF View, RowsTyped
<1>2. Over(m, d) = d
  BY <1>1 DEF Over
<1>3. View(Idle, m, d, l)
  <2>1. /\ OnRow(Idle, m) = 0 /\ OnHeader(Idle, m) = 0 /\ OnRow(Idle, NoRows) = 0
        /\ OnHeader(Idle, NoRows) = 0
    BY IdleIs, OtherPending
  <2> QED
    BY <2>1, ViewStays
<1>4. JobTyped(Idle)
  BY IdleIs DEF JobTyped, NoPosting
<1>5. PlaceFacts(Idle, m, d) /\ SelectFacts(Idle, m) /\ CloseFacts(Idle, m, d)
      /\ MoveFacts(Idle, m, d) /\ HoldFacts(Idle, m, d)
  BY IdleIs DEF PlaceFacts, SelectFacts, CloseFacts, MoveFacts, HoldFacts, MoveOps
<1> QED
  BY <1>2, <1>3, <1>4, <1>5, IdleIs DEF Facts

\* A refusal or a lock timeout: what is not committed is lost.
LEMMA AbortKeeps ==
  ASSUME WInv, NEW s \in Sessions, Abort(s)
  PROVE  WInv'
<1>1. DOMAIN mine = Sessions /\ DOMAIN job = Sessions /\ View(Idle, NoRows, db, ledger)
  BY Committed
<1>2. /\ db' = db /\ ledger' = ledger
      /\ mine' = [mine EXCEPT ![s] = NoRows] /\ job' = [job EXCEPT ![s] = Idle]
  BY DEF Abort, Rollback, Quit
<1>3. /\ DOMAIN mine' = Sessions /\ DOMAIN job' = Sessions
      /\ job'[s] = Idle /\ mine'[s] = NoRows
      /\ \A t \in Sessions \ {s} : job'[t] = job[t] /\ mine'[t] = mine[t]
  BY <1>1, <1>2
<1>4. DOMAIN mine'[s] = {} /\ job'[s].op = "idle"
  BY <1>3, IdleIs DEF NoRows
<1>5. Facts(job'[s], mine'[s], db, ledger)
  BY <1>1, <1>3, <1>4, IdleFacts
<1> QED
  BY <1>2, <1>3, <1>4, <1>5, GoesOn

\* A session with no job has written nothing and sees what is committed.
LEMMA SeenIdle ==
  ASSUME WInv, NEW s \in Sessions, job[s].op = "idle"
  PROVE  /\ DOMAIN mine[s] = {} /\ Over(mine[s], db) = db
         /\ \A r \in Rows : Seen(s, r) = db[r]
<1>1. DOMAIN mine[s] = {}
  BY DEF WInv, Sound, Facts
<1> QED
  BY <1>1, IdleFacts, Committed DEF Seen

\* An operation that starts does so in the company it may have.
LEMMA StartApart ==
  ASSUME WInv, Safe, NEW s \in Sessions, NEW op, MayStart(s, op), NEW k, k.op = op
  PROVE  \A t \in Sessions \ {s} : Apart(k, job[t])
BY DEF MayStart, Safe, Apart

\* The first statement of an operation, a SELECT.
LEMMA BeginKeeps ==
  ASSUME WInv, Safe, NEW s \in Sessions, NEW k, Begin(s, k),
         JobTyped(k), View(k, mine[s], db, ledger),
         PlaceFacts(k, mine[s], db), SelectFacts(k, mine[s]), CloseFacts(k, mine[s], db),
         MoveFacts(k, mine[s], db), HoldFacts(k, mine[s], db)
  PROVE  WInv'
<1>1. MayStart(s, k.op) /\ job' = [job EXCEPT ![s] = k] /\ db' = db /\ mine' = mine /\ ledger' = ledger
  BY DEF Begin, Read
<1>2. job[s].op = "idle"
  BY <1>1 DEF MayStart
<1>3. DOMAIN mine[s] = {} /\ Over(mine[s], db) = db
  BY <1>2, SeenIdle
<1>4. Facts(k, mine[s], db, ledger)
  BY <1>3 DEF Facts
<1>5. DOMAIN mine = Sessions /\ DOMAIN job = Sessions
  BY Committed
<1>6. /\ job'[s] = k /\ DOMAIN job' = Sessions /\ DOMAIN mine' = Sessions
      /\ \A t \in Sessions \ {s} : job'[t] = job[t] /\ mine'[t] = mine[t]
  BY <1>1, <1>5
<1>7. \A t \in Sessions \ {s} : Apart(job'[s], job[t])
  BY <1>1, <1>6, StartApart
<1>8. \A t \in Sessions \ {s} : DOMAIN mine'[s] \cap DOMAIN mine[t] = {}
  BY <1>1, <1>3
<1>9. Facts(job'[s], mine'[s], db, ledger)
  BY <1>1, <1>4, <1>6
<1> QED
  BY <1>1, <1>6, <1>7, <1>8, <1>9, StepKeeps

\* The committed rows, seen by a job that has counted nothing.
LEMMA ViewFirst ==
  ASSUME NEW k, NEW m, NEW d, NEW l, View(Idle, NoRows, d, l), k.posted = NoPosting,
         OnRow(k, m) = 0, OnHeader(k, m) = 0, OffHeader(k) = 0
  PROVE  View(k, m, d, l)
<1>1. OnRow(Idle, NoRows) = 0 /\ OnHeader(Idle, NoRows) = 0 /\ OffHeader(Idle) = 0
  BY IdleIs, OtherPending
<1> QED
  BY <1>1, IdleIs, ViewStays
-----------------------------------------------------------------------------
(* Statements that write one row.                                          *)

\* The row r of the rows m that a session has written becomes v: n, and f on
\* top of what is committed; e is what it saw.
Wrote(m, e, r, v, n, f) ==
    /\ DOMAIN n = DOMAIN m \cup {r} /\ DOMAIN n \subseteq Rows
    /\ n[r] = v
    /\ \A x \in DOMAIN m \ {r} : n[x] = m[x]
    /\ f = [x \in Rows |-> f[x]]
    /\ f[r] = v
    /\ \A x \in Rows \ {r} : f[x] = e[x]

\* A session that writes one row and stays sound.
LEMMA OneWritten ==
  ASSUME WInv, NEW s \in Sessions, NEW r \in Rows, NEW v, Write(s, r, v), UNCHANGED ledger
  PROVE  \E n : /\ Wrote(mine[s], Over(mine[s], db), r, v, n, Over(n, db))
                /\ \A k : job' = [job EXCEPT ![s] = k] /\ k.op = job[s].op /\ Facts(k, n, db, ledger) => WInv'
<1> DEFINE m == mine[s]
           e == Over(m, db)
           put == [x \in {r} |-> v]
           n == Over(put, m)
           f == Over(n, db)
<1>1. DOMAIN put = {r} /\ put[r] = v /\ e = Over(m, db) /\ n = Over(put, m) /\ f = Over(n, db)
  OBVIOUS
<1>2. DOMAIN m \subseteq Rows /\ DOMAIN db = Rows
  BY SeenIs
<1>3. WriteAll(s, put)
  BY WriteIsAll
<1> HIDE DEF put, n, f, e, m
<1>4. Wrote(m, e, r, v, n, f)
  <2>1. /\ DOMAIN n = DOMAIN m \cup {r}
        /\ n[r] = v
        /\ \A x \in DOMAIN m \ {r} : n[x] = m[x]
    BY <1>1 DEF Over
  <2>2. DOMAIN n \subseteq Rows
    BY <1>2, <2>1
  <2>3. /\ f = [x \in Rows |-> f[x]]
        /\ \A x \in DOMAIN n : f[x] = n[x]
        /\ \A x \in Rows \ DOMAIN n : f[x] = db[x]
    BY <1>1, <1>2, <2>2, OverIs
  <2>4. /\ \A x \in DOMAIN m : e[x] = m[x]
        /\ \A x \in Rows \ DOMAIN m : e[x] = db[x]
    BY <1>1, <1>2, OverIs
  <2>5. f[r] = v
    BY <2>1, <2>3
  <2>6. ASSUME NEW x \in Rows \ {r} PROVE f[x] = e[x]
    <3>1. CASE x \in DOMAIN m
      BY <2>1, <2>3, <2>4, <3>1
    <3>2. CASE x \notin DOMAIN m
      BY <2>1, <2>3, <2>4, <3>2
    <3> QED
      BY <3>1, <3>2
  <2> QED
    BY <2>1, <2>2, <2>3, <2>5, <2>6 DEF Wrote
<1>5. ASSUME NEW k, job' = [job EXCEPT ![s] = k], k.op = job[s].op, Facts(k, n, db, ledger)
      PROVE  WInv'
  BY <1>1, <1>3, <1>5, WriteGoesOn DEF m
<1> QED
  BY <1>1, <1>4, <1>5 DEF m

\* A session writes the row of an item, by a in what is reserved and by b in stock.
ItemWritten(j, m, e, l, i, v, n, f, a, b, k) ==
    /\ View(j, m, e, l) /\ l \in [Items -> Int] /\ j.posted \in [Items -> Int]
    /\ i \in Items /\ Wrote(m, e, i, v, n, f)
    /\ (i \in Trims => v \in CountRow) /\ (i \in Rolls => v \in RollRow) /\ v.reserved <= v.stock
    /\ a \in Int /\ b \in Int /\ v.reserved = e[i].reserved + a /\ v.stock = e[i].stock + b
    /\ k.posted[i] = j.posted[i] + b /\ \A y \in Items \ {i} : k.posted[y] = j.posted[y]
    /\ OnRow(j, m) \in Int /\ OnHeader(j, m) \in Int /\ OffHeader(j) \in Int
    /\ OnRow(j, m) = 0 \/ AtRow(j) = i
    /\ OnRow(k, n) = OnRow(j, m) + a
    /\ OnRow(k, n) = 0 \/ AtRow(k) = i
    /\ i \in Rolls => OnHeader(k, n) = OnHeader(j, m) - a /\ OffHeader(k) = OffHeader(j) - b
    /\ i \notin Rolls => OnHeader(k, n) = OnHeader(j, m) /\ OffHeader(k) = OffHeader(j)
    /\ i \in Rolls => Tells(v, Length[i]) \/ (Empty(k, i) /\ v = NewRoll)
    /\ \A r \in Rolls : Empty(j, r) => r = i \/ Empty(k, r)

\* Its view, when the row is that of an item.
LEMMA ItemView ==
  ASSUME StoreAssumption, NEW j, NEW m, NEW e, NEW l, NEW i, NEW v, NEW n, NEW f, NEW a, NEW b, NEW k,
         ItemWritten(j, m, e, l, i, v, n, f, a, b, k)
  PROVE  View(k, n, f, l)
<1> USE DEF ItemWritten
<1>1. /\ RowsTyped(e) /\ Counted(e, AtRow(j), OnRow(j, m), OnHeader(j, m), OffHeader(j))
      /\ \A r \in Rolls : Tells(e[r], Length[r]) \/ (Empty(j, r) /\ e[r] = NewRoll)
      /\ \A y \in Items : e[y].stock = l[y] + j.posted[y]
  BY DEF View
<1>2. /\ f[i] = v /\ f = [x \in Rows |-> f[x]] /\ \A x \in Rows \ {i} : f[x] = e[x]
  BY DEF Wrote
<1>3. i \in Trims \/ i \in Rolls
  BY RowsApart
<1>4. RowsTyped(f)
  BY <1>1, <1>2, <1>3, OneRowTyped, RowsApart
<1>5. Counted(f, i, OnRow(k, n), OnHeader(k, n), OffHeader(k))
  <2>1. Counted(f, i, OnRow(j, m) + a, IF i \in Rolls THEN OnHeader(j, m) - a ELSE OnHeader(j, m),
                IF i \in Rolls THEN OffHeader(j) - b ELSE OffHeader(j))
    <3> DEFINE x == AtRow(j)
               q == OnRow(j, m)
               h == OnHeader(j, m)
               g == OffHeader(j)
    <3>1. f[i].reserved = e[i].reserved + a /\ f[i].stock = e[i].stock + b
      BY <1>2
    <3>2. RowsTyped(e) /\ Counted(e, x, q, h, g) /\ \A y \in Rows \ {i} : f[y] = e[y]
      BY <1>1, <1>2
    <3>3. q \in Int /\ h \in Int /\ g \in Int /\ (q = 0 \/ x = i)
      OBVIOUS
    <3> HIDE DEF x, q, h, g
    <3>4. Counted(f, i, q + a, IF i \in Rolls THEN h - a ELSE h, IF i \in Rolls THEN g - b ELSE g)
      BY <3>1, <3>2, <3>3, ItemCounted
    <3> QED
      BY <3>4 DEF x, q, h, g
  <2> QED
    BY <2>1
<1>6. Counted(f, AtRow(k), OnRow(k, n), OnHeader(k, n), OffHeader(k))
  <2>1. CASE OnRow(k, n) = 0
    BY <1>5, <2>1 DEF Counted
  <2>2. CASE AtRow(k) = i
    BY <1>5, <2>2
  <2> QED
    BY <2>1, <2>2
<1>7. ASSUME NEW r \in Rolls PROVE Tells(f[r], Length[r]) \/ (Empty(k, r) /\ f[r] = NewRoll)
  <2>1. CASE r = i
    BY <1>2, <2>1
  <2>2. CASE r # i
    <3>1. f[r] = e[r]
      BY <1>2, <2>2, RowsApart
    <3> QED
      BY <1>1, <2>2, <3>1
  <2> QED
    BY <2>1, <2>2
<1>8. ASSUME NEW y \in Items PROVE f[y].stock = l[y] + k.posted[y]
  <2>1. e[y].stock = l[y] + j.posted[y] /\ l[y] \in Int /\ j.posted[y] \in Int
    BY <1>1
  <2>2. CASE y = i
    BY <1>2, <2>1, <2>2
  <2>3. CASE y # i
    <3>1. f[y] = e[y]
      BY <1>2, <2>3, RowsApart
    <3> QED
      BY <2>1, <2>3, <3>1
  <2> QED
    BY <2>2, <2>3
<1> QED
  BY <1>4, <1>6, <1>7, <1>8 DEF View

\* The same for the header.
HeaderWritten(j, m, e, l, v, n, f, a, b, k) ==
    /\ View(j, m, e, l) /\ v \in CountRow /\ Wrote(m, e, Header, v, n, f)
    /\ a \in Int /\ b \in Int /\ v.reserved = e[Header].reserved + a /\ v.stock = e[Header].stock + b
    /\ \A y \in Items : k.posted[y] = j.posted[y]
    /\ OnRow(j, m) \in Int /\ OnHeader(j, m) \in Int /\ OffHeader(j) \in Int
    /\ OnRow(k, n) = OnRow(j, m)
    /\ OnRow(j, m) = 0 \/ AtRow(k) = AtRow(j)
    /\ OnHeader(k, n) = OnHeader(j, m) + a /\ OffHeader(k) = OffHeader(j) + b
    /\ \A r \in Rolls : Empty(j, r) => Empty(k, r)

\* When it is the header.
LEMMA HeaderView ==
  ASSUME StoreAssumption, NEW j, NEW m, NEW e, NEW l, NEW v, NEW n, NEW f, NEW a, NEW b, NEW k,
         HeaderWritten(j, m, e, l, v, n, f, a, b, k)
  PROVE  View(k, n, f, l)
<1> USE DEF HeaderWritten
<1>1. /\ RowsTyped(e) /\ Counted(e, AtRow(j), OnRow(j, m), OnHeader(j, m), OffHeader(j))
      /\ \A r \in Rolls : Tells(e[r], Length[r]) \/ (Empty(j, r) /\ e[r] = NewRoll)
      /\ \A y \in Items : e[y].stock = l[y] + j.posted[y]
  BY DEF View
<1>2. /\ f[Header] = v /\ f = [x \in Rows |-> f[x]] /\ \A x \in Rows \ {Header} : f[x] = e[x]
  BY DEF Wrote
<1>3. RowsTyped(f)
  BY <1>1, <1>2, OneRowTyped, RowsApart
<1>4. Counted(f, AtRow(j), OnRow(k, n), OnHeader(k, n), OffHeader(k))
  <2>1. f[Header].reserved = e[Header].reserved + a /\ f[Header].stock = e[Header].stock + b
    BY <1>2
  <2>2. Counted(f, AtRow(j), OnRow(j, m), OnHeader(j, m) + a, OffHeader(j) + b)
    BY <1>1, <1>2, <2>1, HeaderCounted
  <2> QED
    BY <2>2
<1>5. Counted(f, AtRow(k), OnRow(k, n), OnHeader(k, n), OffHeader(k))
  <2>1. CASE OnRow(j, m) = 0
    BY <1>4, <2>1 DEF Counted
  <2>2. CASE AtRow(k) = AtRow(j)
    BY <1>4, <2>2
  <2> QED
    BY <2>1, <2>2
<1>6. \A y \in Items : f[y] = e[y]
  BY <1>2, RowsApart
<1> QED
  BY <1>1, <1>3, <1>5, <1>6, RowsApart DEF View

\* The same for an allocation, by a in what it takes of item i.
ClaimWritten(j, m, e, l, c, v, n, f, i, a, k) ==
    /\ View(j, m, e, l) /\ c \in Claims /\ v \in ClaimRow /\ Wrote(m, e, c, v, n, f)
    /\ i \in Items /\ a \in Int
    /\ \A y \in Items : ClaimedBy(e[c], y) - ClaimedBy(v, y) = (IF y = i THEN a ELSE 0)
    /\ \A y \in Items : k.posted[y] = j.posted[y]
    /\ OnRow(j, m) \in Int /\ OnHeader(j, m) \in Int /\ OffHeader(j) \in Int
    /\ OnRow(j, m) = 0 \/ AtRow(j) = i
    /\ OnRow(k, n) = OnRow(j, m) + a
    /\ OnRow(k, n) = 0 \/ AtRow(k) = i
    /\ OnHeader(k, n) = OnHeader(j, m) /\ OffHeader(k) = OffHeader(j)
    /\ \A r \in Rolls : Empty(j, r) => Empty(k, r)

\* When it is an allocation.
LEMMA ClaimView ==
  ASSUME StoreAssumption, NEW j, NEW m, NEW e, NEW l, NEW c, NEW v, NEW n, NEW f, NEW i, NEW a, NEW k,
         ClaimWritten(j, m, e, l, c, v, n, f, i, a, k)
  PROVE  View(k, n, f, l)
<1> USE DEF ClaimWritten
<1>1. /\ RowsTyped(e) /\ Counted(e, AtRow(j), OnRow(j, m), OnHeader(j, m), OffHeader(j))
      /\ \A r \in Rolls : Tells(e[r], Length[r]) \/ (Empty(j, r) /\ e[r] = NewRoll)
      /\ \A y \in Items : e[y].stock = l[y] + j.posted[y]
  BY DEF View
<1>2. /\ f[c] = v /\ f = [x \in Rows |-> f[x]] /\ \A x \in Rows \ {c} : f[x] = e[x]
  BY DEF Wrote
<1>3. RowsTyped(f)
  BY <1>1, <1>2, OneRowTyped, RowsApart
<1>4. Counted(f, i, OnRow(k, n), OnHeader(k, n), OffHeader(k))
  <2>1. Counted(f, i, OnRow(j, m) + a, OnHeader(j, m), OffHeader(j))
    <3> DEFINE x == AtRow(j)
               q == OnRow(j, m)
               h == OnHeader(j, m)
               g == OffHeader(j)
    <3>1. RowsTyped(e) /\ Counted(e, x, q, h, g) /\ f[c] \in ClaimRow /\ \A y \in Rows \ {c} : f[y] = e[y]
      BY <1>1, <1>2
    <3>2. q \in Int /\ h \in Int /\ g \in Int /\ (q = 0 \/ x = i)
      OBVIOUS
    <3>3. \A y \in Items : ClaimedBy(e[c], y) - ClaimedBy(f[c], y) = (IF y = i THEN a ELSE 0)
      BY <1>2
    <3> HIDE DEF x, q, h, g
    <3>4. Counted(f, i, q + a, h, g)
      BY <3>1, <3>2, <3>3, ClaimCounted
    <3> QED
      BY <3>4 DEF x, q, h, g
  <2> QED
    BY <2>1
<1>5. Counted(f, AtRow(k), OnRow(k, n), OnHeader(k, n), OffHeader(k))
  <2>1. CASE OnRow(k, n) = 0
    BY <1>4, <2>1 DEF Counted
  <2>2. CASE AtRow(k) = i
    BY <1>4, <2>2
  <2> QED
    BY <2>1, <2>2
<1>6. \A y \in Items : f[y] = e[y]
  BY <1>2, RowsApart
<1> QED
  BY <1>1, <1>3, <1>5, <1>6, RowsApart DEF View
-----------------------------------------------------------------------------
(* Reservations.                                                           *)

\* The first of a set of rolls, or of allocations, is one of them.
LEMMA EarliestIs ==
  ASSUME NEW S, IsFiniteSet(S), S \subseteq Nat, S # {}
  PROVE  Earliest(S) \in S
<1> DEFINE F == {T \in SUBSET S : T = {} \/ \E x \in T : \A y \in T \ {x} : x < y}
<1>1. ASSUME NEW T \in SUBSET S, \A U \in SUBSET T : U # T => U \in F
      PROVE  T \in F
  <2>1. CASE T = {}
    BY <2>1
  <2>2. CASE T # {}
    <3>1. PICK k : k \in T
      BY <2>2
    <3>2. T \ {k} \in F
      BY <1>1, <3>1
    <3>3. CASE T \ {k} = {}
      BY <3>1, <3>3
    <3>4. CASE T \ {k} # {}
      <4>1. PICK x \in T \ {k} : \A y \in (T \ {k}) \ {x} : x < y
        BY <3>2, <3>4
      <4>2. x \in Nat /\ k \in Nat /\ x # k
        BY <3>1, <4>1
      <4>3. CASE x < k
        BY <4>1, <4>2, <4>3
      <4>4. CASE k < x
        <5>1. ASSUME NEW y \in T \ {k} PROVE k < y
          <6>1. y = x \/ x < y
            BY <4>1
          <6> QED
            BY <4>2, <4>4, <6>1
        <5> QED
          BY <3>1, <5>1
      <4> QED
        BY <4>2, <4>3, <4>4
    <3> QED
      BY <3>3, <3>4
  <2> QED
    BY <2>1, <2>2
<1>2. SUBSET S \subseteq F
  <2> HIDE DEF F
  <2> QED
    BY <1>1, SubsetInduction
<1>3. \E x \in S : \A y \in S \ {x} : x < y
  BY <1>2
<1> QED
  BY <1>3 DEF Earliest

\* The only element of a set is its first.
LEMMA EarliestOfOne ==
  ASSUME NEW x
  PROVE  Earliest({x}) = x
BY DEF Earliest

\* What is taken of a roll is a whole number.
LEMMA TakeIs ==
  ASSUME NEW a \in Int, NEW b \in Int
  PROVE  Min({a, Max({b, 0})}) \in Int
<1>1. Max({b, 0}) \in Int
  <2>1. \E x \in {b, 0} : \A y \in {b, 0} : x >= y
    OBVIOUS
  <2>2. Max({b, 0}) \in {b, 0}
    BY <2>1 DEF Max
  <2> QED
    BY <2>2
<1>2. ASSUME NEW c \in Int PROVE Min({a, c}) \in Int
  <2>1. \E x \in {a, c} : \A y \in {a, c} : x <= y
    OBVIOUS
  <2>2. Min({a, c}) \in {a, c}
    BY <2>1 DEF Min
  <2> QED
    BY <2>2
<1> QED
  BY <1>1, <1>2

\* A plan takes some metres of some rolls.
LEMMA PlanIs ==
  ASSUME StoreAssumption, NEW e, RowsTyped(e), NEW q \in Nat, NEW plan, plan = PlanPick(e, q)
  PROVE  DOMAIN plan \subseteq Rolls /\ \A r \in DOMAIN plan : plan[r] \in Nat \ {0}
<1>1. ASSUME NEW S \in SUBSET Rolls PROVE FreeOf(e, S) \in Int
  <2> DEFINE f == [r \in S |-> FreeOn(e, r)]
  <2>1. \A r \in S : f[r] \in Int
    BY Columns, RowsApart DEF FreeOn
  <2>2. IsFiniteSet(S)
    BY FS_Subset, RowsApart
  <2> HIDE DEF f
  <2>3. SumFunctionOnSet(f, S) \in Int
    BY <2>1, <2>2, SumInt
  <2> QED
    BY <2>3 DEF FreeOf, f
<1>2. ASSUME NEW S \in SUBSET Rolls, plan = Takes(e, S, q)
      PROVE  DOMAIN plan \subseteq Rolls /\ \A r \in DOMAIN plan : plan[r] \in Nat \ {0}
  <2> DEFINE before(r) == FreeOf(e, {k \in S : k < r})
             take == [r \in S |-> Min({FreeOn(e, r), Max({q - before(r), 0})})]
  <2>1. plan = [r \in {k \in S : take[k] > 0} |-> take[r]]
    BY <1>2 DEF Takes
  <2>2. ASSUME NEW r \in S PROVE take[r] \in Int
    <3>1. before(r) \in Int
      BY <1>1
    <3>2. q - before(r) \in Int /\ FreeOn(e, r) \in Int
      BY <3>1, Columns, RowsApart DEF FreeOn
    <3> HIDE DEF before
    <3>3. Min({FreeOn(e, r), Max({q - before(r), 0})}) \in Int
      BY <3>2, TakeIs
    <3> QED
      BY <3>3
  <2> HIDE DEF take
  <2>3. DOMAIN plan \subseteq S /\ \A r \in DOMAIN plan : r \in S /\ plan[r] = take[r] /\ take[r] > 0
    BY <2>1
  <2>4. ASSUME NEW r \in DOMAIN plan PROVE plan[r] \in Nat \ {0}
    <3>1. r \in S /\ plan[r] = take[r] /\ take[r] > 0
      BY <2>3
    <3>2. take[r] \in Int
      BY <2>2, <3>1
    <3> QED
      BY <3>1, <3>2
  <2> QED
    BY <2>3, <2>4
<1>3. PICK S : S \in SUBSET Rolls /\ plan = Takes(e, S, q)
  <2> DEFINE cands == Candidates(e)
             ofLot(l) == {r \in cands : Lot[r] = l}
             lots == {r \in cands : FreeOf(e, ofLot(Lot[r])) >= q}
             S == IF lots = {} THEN cands ELSE ofLot(Lot[Min(lots)])
  <2>1. cands \subseteq Rolls
    BY DEF Candidates
  <2>2. S \in SUBSET Rolls
    BY <2>1
  <2>3. plan = Takes(e, S, q)
    BY DEF PlanPick
  <2> QED
    BY <2>2, <2>3
<1> QED
  BY <1>2, <1>3

\* reserve_for_order starts with a plan.
LEMMA BeginReserveKeeps ==
  ASSUME StoreAssumption, WInv, Safe, NEW s \in Sessions, NEW op \in ReserveOps, NEW o \in Orders,
         NEW i \in {Header} \cup Trims, NEW q \in Qtys, BeginReserve(s, op, o, i, q)
  PROVE  WInv'
<1> DEFINE plan == IF i \in Trims THEN [x \in {i} |-> q] ELSE PlanPick(db, q)
           k == [Idle EXCEPT !.op = op, !.pc = "before", !.order = o, !.plan = plan]
<1>1. Picked(plan) = q /\ Begin(s, k)
  BY DEF BeginReserve
<1>2. q \in Nat \ {0}
  BY DEF StoreAssumption
<1>3. View(Idle, NoRows, db, ledger) /\ RowsTyped(db)
  BY Committed
<1>4. /\ DOMAIN plan \subseteq Rolls \/ \E t \in Trims : DOMAIN plan = {t}
      /\ \A x \in DOMAIN plan : plan[x] \in Nat \ {0}
  <2>1. CASE i \in Trims
    BY <1>2, <2>1
  <2>2. CASE i \notin Trims
    BY <1>2, <1>3, <2>2, PlanIs
  <2> QED
    BY <2>1, <2>2
<1>5. DOMAIN plan # {}
  <2>1. Picked(plan) # 0
    BY <1>1, <1>2
  <2> HIDE DEF plan
  <2> QED
    BY <2>1, SumEmpty DEF Picked
<1>6. /\ DOMAIN k = JobFields /\ k.op = op /\ k.pc = "before" /\ k.order = o /\ k.plan = plan
      /\ k.made = {} /\ k.posted = NoPosting
  <2> HIDE DEF plan
  <2> QED
    BY DEF Idle, JobFields, NoPosting
<1>7. job[s].op = "idle"
  BY <1>1 DEF Begin, MayStart
<1>8. DOMAIN mine[s] = {}
  BY <1>7, SeenIdle
<1> HIDE DEF k, plan
<1>9. Places(k)
  BY <1>6 DEF Places, Placing
<1>10. JobTyped(k)
  <2>1. k.op \in ReserveOps /\ k.op # "idle" /\ k.pc \in Points(k.op)
    BY <1>6, PointsAre DEF ReserveOps, Placing
  <2> QED
    BY <1>6, <2>1 DEF JobTyped, NoPosting
<1>11. View(k, mine[s], db, ledger)
  BY <1>3, <1>6, <1>9, PlacePending, ViewFirst
<1>12. PlaceFacts(k, mine[s], db)
  BY <1>4, <1>5, <1>6, <1>8 DEF PlaceFacts, SameShelf
<1>13. /\ SelectFacts(k, mine[s]) /\ CloseFacts(k, mine[s], db)
       /\ MoveFacts(k, mine[s], db) /\ HoldFacts(k, mine[s], db)
  BY <1>6, <1>9, PlacePending DEF SelectFacts, CloseFacts, MoveFacts, HoldFacts, MoveOps, ReserveOps
<1> QED
  BY <1>1, <1>10, <1>11, <1>12, <1>13, BeginKeeps

\* Where a reservation under way is.
LEMMA Placed ==
  ASSUME StoreAssumption, WInv, NEW s \in Sessions, NEW pc \in {"before", "guard", "after", "mirror", "alloc"},
         At(s, ReserveOps, pc), NEW j, j = job[s], NEW m, m = mine[s], NEW e, e = Over(m, db)
  PROVE  /\ j.op \in {"reserve", "counter"} /\ j.pc = pc /\ Places(j)
         /\ DOMAIN j = JobFields /\ j.posted = NoPosting
         /\ DOMAIN m \subseteq Rows /\ View(j, m, e, ledger) /\ RowsTyped(e) /\ RowsTyped(db)
         /\ PlaceFacts(j, m, db)
         /\ PlanItem(s) = PlanAt(j) /\ PlanTake(s) = j.plan[PlanAt(j)]
         /\ PlanAt(j) \in DOMAIN j.plan /\ PlanAt(j) \in Items /\ PlanAt(j) \in Rows
         /\ j.plan[PlanAt(j)] \in Nat \ {0}
         /\ PlanAt(j) \in Rolls \/ (PlanAt(j) \in Trims /\ DOMAIN j.plan = {PlanAt(j)})
<1>1. j.op \in ReserveOps /\ j.pc = pc /\ j.op # "idle"
  BY DEF At, ReserveOps
<1>2. /\ DOMAIN j = JobFields /\ DOMAIN m \subseteq Rows /\ View(j, m, e, ledger) /\ RowsTyped(e)
      /\ PlaceFacts(j, m, db)
  BY <1>1, AtWork
<1>3. Places(j)
  BY <1>1 DEF Places, Placing
<1>4. /\ j.posted = NoPosting /\ DOMAIN j.plan # {}
      /\ DOMAIN j.plan \subseteq Rolls \/ \E t \in Trims : DOMAIN j.plan = {t}
      /\ \A i \in DOMAIN j.plan : j.plan[i] \in Nat \ {0}
  BY <1>1, <1>2, <1>3 DEF PlaceFacts
<1>5. /\ PlanAt(j) \in DOMAIN j.plan
      /\ PlanAt(j) \in Rolls \/ (PlanAt(j) \in Trims /\ DOMAIN j.plan = {PlanAt(j)})
  <2>1. CASE DOMAIN j.plan \subseteq Rolls
    <3>1. IsFiniteSet(DOMAIN j.plan) /\ DOMAIN j.plan \subseteq Nat
      BY <2>1, RowsApart, FS_Subset
    <3> QED
      BY <1>4, <2>1, <3>1, EarliestIs DEF PlanAt
  <2>2. CASE \E t \in Trims : DOMAIN j.plan = {t}
    BY <2>2, EarliestOfOne DEF PlanAt
  <2> QED
    BY <1>4, <2>1, <2>2
<1>6. PlanItem(s) = PlanAt(j) /\ PlanTake(s) = j.plan[PlanAt(j)]
  BY DEF PlanItem, PlanTake, PlanAt
<1>7. PlanAt(j) \in Items /\ PlanAt(j) \in Rows
  BY <1>5, RowsApart
<1>8. RowsTyped(db)
  BY Committed
<1> QED
  BY <1>1, <1>2, <1>3, <1>4, <1>5, <1>6, <1>7, <1>8 DEF ReserveOps

\* What a reservation under way still satisfies, but for its own facts.
LEMMA PlaceGoesOn ==
  ASSUME NEW j, Places(j), NEW m, NEW d, NEW l, DOMAIN j = JobFields, j.posted = NoPosting,
         DOMAIN m \subseteq Rows, View(j, m, Over(m, d), l), PlaceFacts(j, m, d)
  PROVE  Facts(j, m, d, l)
<1>1. /\ j.op \in ReserveOps /\ j.op # "idle" /\ j.pc \in Points(j.op) /\ j.pc # "select"
      /\ j.op \notin MoveOps /\ j.op # "hold" /\ ~Closes(j)
  BY PlacePending, PointsAre DEF Places, ReserveOps, Placing, MoveOps
<1>2. JobTyped(j)
  BY <1>1 DEF JobTyped, NoPosting
<1> QED
  BY <1>1, <1>2 DEF Facts, SelectFacts, CloseFacts, MoveFacts, HoldFacts

\* _try_reserve reads the counter.
LEMMA ReadBeforeKeeps ==
  ASSUME StoreAssumption, WInv, NEW s \in Sessions, ReadBefore(s)
  PROVE  WInv'
<1> DEFINE j == job[s]
           m == mine[s]
           e == Over(m, db)
           x == PlanAt(j)
           k == [j EXCEPT !.was = Seen(s, PlanItem(s)).reserved, !.pc = "guard"]
<1>1. At(s, ReserveOps, "before") /\ job' = [job EXCEPT ![s] = k] /\ Read /\ UNCHANGED ledger
  BY DEF ReadBefore
<1>2. /\ j.op \in {"reserve", "counter"} /\ j.pc = "before" /\ Places(j)
      /\ DOMAIN j = JobFields /\ j.posted = NoPosting
      /\ DOMAIN m \subseteq Rows /\ View(j, m, e, ledger) /\ RowsTyped(e) /\ RowsTyped(db)
      /\ PlaceFacts(j, m, db) /\ PlanItem(s) = x
      /\ x \in DOMAIN j.plan /\ x \in Items /\ x \in Rows
  BY <1>1, Placed
<1>3. x \notin DOMAIN m
  BY <1>2 DEF PlaceFacts
<1>4. Seen(s, PlanItem(s)).reserved = db[x].reserved /\ db[x].reserved \in Nat
  BY <1>2, <1>3, Columns DEF Seen
<1>5. /\ DOMAIN k = JobFields /\ k.op = j.op /\ k.pc = "guard" /\ k.was = db[x].reserved
      /\ k.order = j.order /\ k.plan = j.plan /\ k.made = j.made /\ k.posted = j.posted
  BY <1>2, <1>4 DEF JobFields
<1> HIDE DEF k, e
<1>6. Places(k) /\ PlanAt(k) = x
  BY <1>2, <1>5 DEF Places, Placing, ReserveOps, PlanAt
<1>7. View(k, m, e, ledger)
  <2>1. OnRow(j, m) = 0 /\ OnHeader(j, m) = 0 /\ OffHeader(j) = 0
    BY <1>2, PlacePending
  <2>2. OnRow(k, m) = 0 /\ OnHeader(k, m) = 0 /\ OffHeader(k) = 0
    BY <1>5, <1>6, PlacePending
  <2>3. \A r \in Rolls : ~Empty(j, r)
    BY <1>2 DEF Empty
  <2> QED
    BY <1>2, <1>5, <2>1, <2>2, <2>3, ViewStays
<1>8. PlaceFacts(k, m, db)
  BY <1>2, <1>3, <1>4, <1>5, <1>6 DEF PlaceFacts
<1>9. Facts(k, m, db, ledger)
  BY <1>2, <1>5, <1>6, <1>7, <1>8, PlaceGoesOn DEF e
<1> QED
  BY <1>1, <1>5, <1>9, ReadGoesOn

\* The guarded UPDATE reserves, or finds too little.
LEMMA GuardedReserveKeeps ==
  ASSUME StoreAssumption, WInv, NEW s \in Sessions, GuardedReserve(s)
  PROVE  WInv'
<1> DEFINE j == job[s]
           m == mine[s]
           e == Over(m, db)
           x == PlanAt(j)
           take == j.plan[x]
           k == [j EXCEPT !.pc = "after"]
           row == Seen(s, PlanItem(s))
           new == [row EXCEPT !.reserved = @ + PlanTake(s)]
<1>1. At(s, ReserveOps, "guard") /\ job' = [job EXCEPT ![s] = k] /\ UNCHANGED ledger
  BY DEF GuardedReserve, Goto
<1>2. /\ j.op \in {"reserve", "counter"} /\ j.pc = "guard" /\ Places(j)
      /\ DOMAIN j = JobFields /\ j.posted = NoPosting
      /\ DOMAIN m \subseteq Rows /\ View(j, m, e, ledger) /\ RowsTyped(e) /\ RowsTyped(db)
      /\ PlaceFacts(j, m, db) /\ PlanItem(s) = x /\ PlanTake(s) = take
      /\ x \in DOMAIN j.plan /\ x \in Items /\ x \in Rows /\ take \in Nat \ {0}
      /\ x \in Rolls \/ (x \in Trims /\ DOMAIN j.plan = {x})
  BY <1>1, Placed
<1>3. x \notin DOMAIN m /\ j.was \in Nat /\ db[x].reserved <= j.was
  BY <1>2 DEF PlaceFacts
<1>4. row = e[x] /\ e[x] = db[x]
  BY <1>2, <1>3, SeenIs
<1>5. /\ DOMAIN k = JobFields /\ k.op = j.op /\ k.pc = "after" /\ k.was = j.was
      /\ k.order = j.order /\ k.plan = j.plan /\ k.made = j.made /\ k.posted = j.posted
  BY <1>2, GotoIs
<1>6. Places(k) /\ PlanAt(k) = x
  <2> HIDE DEF k
  <2> QED
    BY <1>2, <1>5 DEF Places, Placing, ReserveOps, PlanAt
<1>7. OnRow(j, m) = 0 /\ OnHeader(j, m) = 0 /\ OffHeader(j) = 0
  BY <1>2, PlacePending
<1>8. CASE ~Affordable(row, PlanTake(s))
  <2>1. Read
    BY <1>8 DEF GuardedReserve
  <2> HIDE DEF k, e
  <2>2. View(k, m, e, ledger)
    <3>1. OnRow(k, m) = 0 /\ OnHeader(k, m) = 0 /\ OffHeader(k) = 0
      BY <1>3, <1>5, <1>6, PlacePending
    <3>2. \A r \in Rolls : ~Empty(j, r)
      BY <1>2 DEF Empty
    <3> QED
      BY <1>2, <1>5, <1>7, <3>1, <3>2, ViewStays
  <2>3. PlaceFacts(k, m, db)
    BY <1>2, <1>3, <1>5, <1>6 DEF PlaceFacts
  <2>4. Facts(k, m, db, ledger)
    BY <1>2, <1>5, <1>6, <2>2, <2>3, PlaceGoesOn DEF e
  <2> QED
    BY <1>1, <1>5, <2>1, <2>4, ReadGoesOn
<1>9. CASE Affordable(row, PlanTake(s))
  <2>1. Write(s, x, new)
    BY <1>2, <1>9 DEF GuardedReserve
  <2>2. PICK n : /\ Wrote(m, e, x, new, n, Over(n, db))
                 /\ \A y : job' = [job EXCEPT ![s] = y] /\ y.op = j.op /\ Facts(y, n, db, ledger) => WInv'
    BY <1>1, <1>2, <2>1, OneWritten
  <2> DEFINE f == Over(n, db)
  <2>3. e[x].stock \in Nat /\ e[x].reserved \in Nat /\ e[x].stock - e[x].reserved >= take
    BY <1>2, <1>4, <1>9, Columns DEF Affordable
  <2>4. x \in Rolls => e[x] \in RollRow
    BY <1>2 DEF RowsTyped
  <2>5. x \in Trims => e[x] \in CountRow
    BY <1>2 DEF RowsTyped
  <2>6. /\ new.reserved = e[x].reserved + take /\ new.stock = e[x].stock
        /\ x \in Rolls => new \in RollRow /\ new.status = e[x].status
        /\ x \in Trims => new \in CountRow
    BY <1>2, <1>4, <2>3, <2>4, <2>5 DEF RollRow, CountRow
  <2>7. Wrote(m, e, x, new, n, f)
    BY <2>2
  <2> HIDE DEF k, e, f, new
  <2>8. DOMAIN n = DOMAIN m \cup {x} /\ DOMAIN n \subseteq Rows /\ n[x] = new
        /\ \A y \in DOMAIN m \ {x} : n[y] = m[y]
    BY <2>7 DEF Wrote
  <2>9. OnRow(k, n) = take /\ OnHeader(k, n) = (IF x \in Rolls THEN -take ELSE 0) /\ OffHeader(k) = 0
        /\ AtRow(k) = x
    BY <1>5, <1>6, <2>8, PlacePending
  <2>10. x \in Rolls => Tells(new, Length[x])
    <3>1. x \in Rolls => Tells(e[x], Length[x])
      BY <1>2 DEF View, Empty
    <3>2. e[x] # NoRoll
      BY <1>2, <2>3 DEF NoRoll
    <3> QED
      BY <2>6, <3>1, <3>2 DEF Tells
  <2>14. View(k, n, f, ledger)
    <3> DEFINE b == 0
    <3>1. k.posted[x] = j.posted[x] + b /\ \A y \in Items \ {x} : k.posted[y] = j.posted[y]
      BY <1>2, <1>5 DEF NoPosting
    <3>2. j.posted \in [Items -> Int] /\ ledger \in [Items -> Int]
      BY <1>2, Committed DEF NoPosting
    <3>3. \A r \in Rolls : ~Empty(j, r)
      BY <1>2 DEF Empty
    <3>4. new.reserved <= new.stock /\ new.stock = e[x].stock + b
      BY <1>2, <2>3, <2>6
    <3>5. /\ OnRow(k, n) = OnRow(j, m) + take
          /\ x \in Rolls => OnHeader(k, n) = OnHeader(j, m) - take /\ OffHeader(k) = OffHeader(j) - b
          /\ x \notin Rolls => OnHeader(k, n) = OnHeader(j, m) /\ OffHeader(k) = OffHeader(j)
      BY <1>2, <1>7, <2>9
    <3>6. /\ View(j, m, e, ledger) /\ x \in Items /\ take \in Int /\ b \in Int
          /\ OnRow(j, m) \in Int /\ OnHeader(j, m) \in Int /\ OffHeader(j) \in Int /\ OnRow(j, m) = 0
      BY <1>2, <1>7
    <3> HIDE DEF m, j, take, x, b
    <3>20. ItemWritten(j, m, e, ledger, x, new, n, f, take, b, k)
      BY <2>6, <2>7, <2>9, <2>10, <3>1, <3>2, <3>3, <3>4, <3>5, <3>6, SMTT(60) DEF ItemWritten
    <3> QED
      BY <3>20, ItemView
  <2>15. PlaceFacts(k, n, db)
    <3>1. DOMAIN n \cap Claims = DOMAIN m \cap Claims /\ \A c \in Claims : c # x
      BY <1>2, <2>8, RowsApart
    <3>2. /\ j.made = DOMAIN m \cap Claims
          /\ \A c \in j.made : db[c] = NoClaim /\ m[c] \in OpenClaim /\ m[c].order = j.order
          /\ SameShelf(m, db)
      BY <1>2 DEF PlaceFacts
    <3>3. \A c \in j.made : n[c] = m[c]
      BY <2>8, <3>1, <3>2
    <3>4. SameShelf(n, db)
      <4>1. ASSUME NEW i \in DOMAIN n \cap Items PROVE n[i].stock = db[i].stock
        <5>1. CASE i = x
          BY <1>4, <2>6, <2>8, <5>1
        <5>2. CASE i # x
          BY <2>8, <3>2, <5>2 DEF SameShelf
        <5> QED
          BY <5>1, <5>2
      <4>2. ASSUME NEW i \in DOMAIN n \cap Rolls PROVE n[i].status = db[i].status
        <5>1. CASE i = x
          BY <1>4, <2>6, <2>8, <5>1
        <5>2. CASE i # x
          BY <2>8, <3>2, <5>2 DEF SameShelf
        <5> QED
          BY <5>1, <5>2
      <4> QED
        BY <4>1, <4>2 DEF SameShelf
    <3>5. \A i \in DOMAIN j.plan : i \in DOMAIN n => i = x
      BY <1>2, <2>8 DEF PlaceFacts
    <3>6. /\ j.order \in Orders
          /\ DOMAIN j.plan \subseteq Rolls \/ \E t \in Trims : DOMAIN j.plan = {t}
          /\ \A i \in DOMAIN j.plan : j.plan[i] \in Nat \ {0}
          /\ DOMAIN j.plan # {}
      BY <1>2 DEF PlaceFacts
    <3>7. x \in DOMAIN n
      BY <2>8
    <3> QED
      BY <1>2, <1>3, <1>5, <1>6, <3>1, <3>2, <3>3, <3>4, <3>5, <3>6, <3>7 DEF PlaceFacts
  <2>16. Facts(k, n, db, ledger)
    BY <1>2, <1>5, <1>6, <2>8, <2>14, <2>15, PlaceGoesOn DEF f
  <2> QED
    BY <1>1, <1>5, <2>2, <2>16
<1> QED
  BY <1>8, <1>9

\* The second read confirms the reservation.
LEMMA ReadAfterKeeps ==
  ASSUME StoreAssumption, WInv, NEW s \in Sessions, ReadAfter(s)
  PROVE  WInv'
<1> DEFINE j == job[s]
           m == mine[s]
           e == Over(m, db)
           x == PlanAt(j)
           k == [j EXCEPT !.pc = IF PlanItem(s) \in Rolls THEN "mirror" ELSE "alloc"]
<1>1. /\ At(s, ReserveOps, "after") /\ Confirmed(s) /\ job' = [job EXCEPT ![s] = k]
      /\ Read /\ UNCHANGED ledger
  BY DEF ReadAfter, Goto
<1>2. /\ j.op \in {"reserve", "counter"} /\ j.pc = "after" /\ Places(j)
      /\ DOMAIN j = JobFields /\ j.posted = NoPosting
      /\ DOMAIN m \subseteq Rows /\ View(j, m, e, ledger) /\ RowsTyped(e) /\ RowsTyped(db)
      /\ PlaceFacts(j, m, db) /\ PlanItem(s) = x
      /\ x \in DOMAIN j.plan /\ x \in Items /\ x \in Rows
      /\ x \in Rolls \/ (x \in Trims /\ DOMAIN j.plan = {x})
  BY <1>1, Placed
<1>3. x \in DOMAIN m
  <2>1. Seen(s, x).reserved > j.was
    BY <1>1, <1>2 DEF Confirmed
  <2>2. ASSUME x \notin DOMAIN m PROVE FALSE
    <3>1. Seen(s, x) = db[x] /\ db[x].reserved <= j.was /\ j.was \in Nat
      BY <1>2, <2>2 DEF Seen, PlaceFacts
    <3>2. db[x].reserved \in Nat
      BY <1>2, Columns
    <3> QED
      BY <2>1, <3>1, <3>2
  <2> QED
    BY <2>2
<1>4. /\ DOMAIN k = JobFields /\ k.op = j.op /\ k.pc = (IF x \in Rolls THEN "mirror" ELSE "alloc")
      /\ k.was = j.was /\ k.order = j.order /\ k.plan = j.plan /\ k.made = j.made /\ k.posted = j.posted
  BY <1>2, GotoIs
<1> HIDE DEF k, e
<1>5. Places(k) /\ PlanAt(k) = x
  BY <1>2, <1>4 DEF Places, Placing, ReserveOps, PlanAt
<1>6. View(k, m, e, ledger)
  <2>1. /\ OnRow(j, m) = j.plan[x] /\ AtRow(j) = x /\ OffHeader(j) = 0
        /\ OnHeader(j, m) = IF x \in Rolls THEN -j.plan[x] ELSE 0
    BY <1>2, <1>3, PlacePending
  <2>2. /\ OnRow(k, m) = j.plan[x] /\ AtRow(k) = x /\ OffHeader(k) = 0
        /\ OnHeader(k, m) = IF x \in Rolls THEN -j.plan[x] ELSE 0
    BY <1>4, <1>5, PlacePending
  <2>3. \A r \in Rolls : ~Empty(j, r)
    BY <1>2 DEF Empty
  <2> QED
    BY <1>2, <1>4, <2>1, <2>2, <2>3, ViewStays
<1>7. PlaceFacts(k, m, db)
  BY <1>2, <1>3, <1>4, <1>5 DEF PlaceFacts
<1>8. Facts(k, m, db, ledger)
  BY <1>2, <1>4, <1>5, <1>6, <1>7, PlaceGoesOn DEF e
<1> QED
  BY <1>1, <1>4, <1>8, ReadGoesOn

\* The header is told of what was reserved on the roll.
LEMMA MirrorKeeps ==
  ASSUME StoreAssumption, WInv, NEW s \in Sessions, Mirror(s)
  PROVE  WInv'
<1> DEFINE j == job[s]
           m == mine[s]
           e == Over(m, db)
           x == PlanAt(j)
           take == j.plan[x]
           k == [j EXCEPT !.pc = "alloc"]
           row == Seen(s, Header)
           new == [row EXCEPT !.reserved = @ + PlanTake(s)]
<1>1. /\ At(s, ReserveOps, "mirror") /\ job' = [job EXCEPT ![s] = k] /\ UNCHANGED ledger
      /\ Write(s, Header, new)
  BY DEF Mirror, Goto
<1>2. /\ j.op \in {"reserve", "counter"} /\ j.pc = "mirror" /\ Places(j)
      /\ DOMAIN j = JobFields /\ j.posted = NoPosting
      /\ DOMAIN m \subseteq Rows /\ View(j, m, e, ledger) /\ RowsTyped(e) /\ RowsTyped(db)
      /\ PlaceFacts(j, m, db) /\ PlanTake(s) = take
      /\ x \in DOMAIN j.plan /\ x \in Items /\ x \in Rows /\ take \in Nat \ {0}
  BY <1>1, Placed
<1>3. PICK n : /\ Wrote(m, e, Header, new, n, Over(n, db))
               /\ \A y : job' = [job EXCEPT ![s] = y] /\ y.op = j.op /\ Facts(y, n, db, ledger) => WInv'
  BY <1>1, RowsApart, OneWritten
<1> DEFINE f == Over(n, db)
<1>4. row = e[Header] /\ e[Header] \in CountRow
  <2>1. row = e[Header]
    BY RowsApart, SeenIs
  <2>2. e[Header] \in CountRow
    BY <1>2 DEF RowsTyped
  <2> QED
    BY <2>1, <2>2
<1>5. /\ new \in CountRow /\ new.reserved = e[Header].reserved + take /\ new.stock = e[Header].stock
  BY <1>2, <1>4 DEF CountRow
<1>6. /\ DOMAIN k = JobFields /\ k.op = j.op /\ k.pc = "alloc" /\ k.was = j.was
      /\ k.order = j.order /\ k.plan = j.plan /\ k.made = j.made /\ k.posted = j.posted
  BY <1>2, GotoIs
<1>7. Wrote(m, e, Header, new, n, f)
  BY <1>3
<1> HIDE DEF k, e, f, new
<1>8. DOMAIN n = DOMAIN m \cup {Header} /\ DOMAIN n \subseteq Rows /\ \A y \in DOMAIN m \ {Header} : n[y] = m[y]
  BY <1>7 DEF Wrote
<1>9. Places(k) /\ PlanAt(k) = x
  BY <1>2, <1>6 DEF Places, Placing, ReserveOps, PlanAt
<1>10. View(k, n, f, ledger)
  <2>1. OnRow(j, m) = take /\ AtRow(j) = x /\ OffHeader(j) = 0 /\ OnHeader(j, m) = -take
    BY <1>2, PlacePending
  <2>2. OnRow(k, n) = take /\ AtRow(k) = x /\ OffHeader(k) = 0 /\ OnHeader(k, n) = 0
    BY <1>6, <1>9, PlacePending
  <2>3. \A r \in Rolls : ~Empty(j, r)
    BY <1>2 DEF Empty
  <2>4. new.stock = e[Header].stock + 0 /\ OnHeader(k, n) = OnHeader(j, m) + take /\ OffHeader(k) = OffHeader(j) + 0
    BY <1>2, <1>4, <1>5, <2>1, <2>2 DEF CountRow
  <2>5. OnRow(j, m) \in Int /\ OnHeader(j, m) \in Int /\ OffHeader(j) \in Int /\ take \in Int
    BY <1>2, <2>1
  <2>20. HeaderWritten(j, m, e, ledger, new, n, f, take, 0, k)
    BY <1>2, <1>5, <1>6, <1>7, <2>1, <2>2, <2>3, <2>4, <2>5, SMTT(60) DEF HeaderWritten
  <2> QED
    BY <2>20, HeaderView
<1>11. PlaceFacts(k, n, db)
  <2>1. /\ DOMAIN n \cap Claims = DOMAIN m \cap Claims /\ DOMAIN n \cap Items = DOMAIN m \cap Items
        /\ DOMAIN n \cap Rolls = DOMAIN m \cap Rolls
        /\ \A y \in Claims \cup Items : y \in DOMAIN n => y \in DOMAIN m /\ n[y] = m[y]
    BY <1>8, RowsApart
  <2>2. SameShelf(n, db)
    <3>1. SameShelf(m, db)
      BY <1>2 DEF PlaceFacts
    <3> QED
      BY <2>1, <3>1, RowsApart DEF SameShelf
  <2>3. /\ j.made = DOMAIN m \cap Claims
        /\ \A c \in j.made : db[c] = NoClaim /\ m[c] \in OpenClaim /\ m[c].order = j.order
    BY <1>2 DEF PlaceFacts
  <2>4. \A c \in k.made : db[c] = NoClaim /\ n[c] \in OpenClaim /\ n[c].order = k.order
    BY <1>6, <2>1, <2>3
  <2>5. /\ j.order \in Orders
        /\ DOMAIN j.plan \subseteq Rolls \/ \E t \in Trims : DOMAIN j.plan = {t}
        /\ \A i \in DOMAIN j.plan : j.plan[i] \in Nat \ {0}
        /\ DOMAIN j.plan # {} /\ x \in DOMAIN m /\ x \in DOMAIN n
    BY <1>2, <1>8 DEF PlaceFacts
  <2>6. \A i \in DOMAIN j.plan : i \in DOMAIN n => i = x
    <3>1. DOMAIN j.plan \subseteq Items
      BY <2>5, RowsApart
    <3> QED
      BY <1>2, <2>1, <3>1 DEF PlaceFacts
  <2> QED
    BY <1>2, <1>6, <1>9, <2>1, <2>2, <2>3, <2>4, <2>5, <2>6 DEF PlaceFacts
<1>12. Facts(k, n, db, ledger)
  BY <1>2, <1>6, <1>8, <1>9, <1>10, <1>11, PlaceGoesOn DEF f
<1> QED
  BY <1>1, <1>3, <1>6, <1>12

\* The allocation row is inserted.
LEMMA AllocKeeps ==
  ASSUME StoreAssumption, WInv, NEW s \in Sessions, Alloc(s)
  PROVE  WInv'
<1> DEFINE j == job[s]
           m == mine[s]
           e == Over(m, db)
           x == PlanAt(j)
           take == j.plan[x]
           new == [status |-> "reserved", order |-> j.order, item |-> x, qty |-> take]
<1>1. At(s, ReserveOps, "alloc") /\ UNCHANGED ledger
  BY DEF Alloc
<1>2. /\ j.op \in {"reserve", "counter"} /\ j.pc = "alloc" /\ Places(j)
      /\ DOMAIN j = JobFields /\ j.posted = NoPosting
      /\ DOMAIN m \subseteq Rows /\ View(j, m, e, ledger) /\ RowsTyped(e) /\ RowsTyped(db)
      /\ PlaceFacts(j, m, db) /\ PlanItem(s) = x /\ PlanTake(s) = take
      /\ x \in DOMAIN j.plan /\ x \in Items /\ x \in Rows /\ take \in Nat \ {0}
      /\ x \in Rolls \/ (x \in Trims /\ DOMAIN j.plan = {x})
  BY <1>1, Placed
<1>3. PICK c \in Claims :
        /\ Seen(s, c) = NoClaim /\ Write(s, c, new)
        /\ job' = [job EXCEPT ![s].plan = Without(@, x), ![s].made = @ \cup {c},
                              ![s].pc = IF DOMAIN j.plan = {x} THEN "placed" ELSE "before"]
  <2> HIDE DEF x
  <2> QED
    BY <1>2 DEF Alloc
<1> DEFINE k == [j EXCEPT !.plan = Without(@, x), !.made = @ \cup {c},
                          !.pc = IF DOMAIN j.plan = {x} THEN "placed" ELSE "before"]
<1>4. job' = [job EXCEPT ![s] = k]
  BY <1>3
<1>5. c \in Rows /\ c \notin Items /\ c # Header
  BY RowsApart
<1>6. PICK n : /\ Wrote(m, e, c, new, n, Over(n, db))
               /\ \A y : job' = [job EXCEPT ![s] = y] /\ y.op = j.op /\ Facts(y, n, db, ledger) => WInv'
  BY <1>1, <1>3, <1>5, OneWritten
<1> DEFINE f == Over(n, db)
<1>7. Wrote(m, e, c, new, n, f)
  BY <1>6
<1>8. /\ DOMAIN k = JobFields /\ k.op = j.op /\ k.pc = IF DOMAIN j.plan = {x} THEN "placed" ELSE "before"
      /\ k.order = j.order /\ k.plan = Without(j.plan, x) /\ k.made = j.made \cup {c} /\ k.posted = j.posted
  <2> HIDE DEF x
  <2> QED
    BY <1>2 DEF JobFields
<1>9. /\ j.order \in Orders /\ j.made = DOMAIN m \cap Claims /\ SameShelf(m, db)
      /\ \A y \in j.made : db[y] = NoClaim /\ m[y] \in OpenClaim /\ m[y].order = j.order
      /\ DOMAIN j.plan \subseteq Rolls \/ \E t \in Trims : DOMAIN j.plan = {t}
      /\ \A y \in DOMAIN j.plan : j.plan[y] \in Nat \ {0}
      /\ \A y \in DOMAIN j.plan : y \in DOMAIN m => y = x
  BY <1>2 DEF PlaceFacts
<1>10. c \notin DOMAIN m /\ e[c] = NoClaim /\ db[c] = NoClaim
  <2>1. ASSUME c \in DOMAIN m PROVE FALSE
    <3>1. m[c] \in OpenClaim /\ m[c] = NoClaim
      BY <1>3, <1>9, <2>1 DEF Seen
    <3> QED
      BY <3>1 DEF OpenClaim, NoClaim
  <2>2. e[c] = Seen(s, c)
    BY <1>5, SeenIs
  <2> QED
    BY <1>3, <2>1, <2>2 DEF Seen
<1>11. new \in OpenClaim /\ new \in ClaimRow /\ new.status = "reserved" /\ new.item = x /\ new.qty = take
       /\ new.order = j.order
  <2> HIDE DEF x
  <2> QED
    BY <1>2, <1>9 DEF OpenClaim, ClaimRow
<1> HIDE DEF k, e, f, new, x
<1>12. DOMAIN n = DOMAIN m \cup {c} /\ DOMAIN n \subseteq Rows /\ n[c] = new /\ \A y \in DOMAIN m \ {c} : n[y] = m[y]
  BY <1>7 DEF Wrote
<1>13. Places(k) /\ OnRow(k, n) = 0 /\ OnHeader(k, n) = 0 /\ OffHeader(k) = 0
  <2>1. Places(k)
    BY <1>2, <1>8 DEF Places, Placing, ReserveOps
  <2> QED
    BY <1>8, <2>1, PlacePending
<1>14. View(k, n, f, ledger)
  <2>1. OnRow(j, m) = take /\ AtRow(j) = x /\ OffHeader(j) = 0 /\ OnHeader(j, m) = 0
    BY <1>2, PlacePending DEF x
  <2>2. \A r \in Rolls : ~Empty(j, r)
    BY <1>2 DEF Empty
  <2>3. OnRow(k, n) = OnRow(j, m) + (-take) /\ OnRow(j, m) \in Int /\ OnHeader(j, m) \in Int
        /\ OffHeader(j) \in Int /\ -take \in Int
    BY <1>2, <1>13, <2>1
  <2>4. ASSUME NEW y \in Items PROVE ClaimedBy(e[c], y) - ClaimedBy(new, y) = (IF y = x THEN -take ELSE 0)
    <3>1. ClaimedBy(e[c], y) = 0
      BY <1>10 DEF ClaimedBy, NoClaim
    <3>2. ClaimedBy(new, y) = IF y = x THEN take ELSE 0
      BY <1>11 DEF ClaimedBy
    <3> QED
      BY <1>2, <3>1, <3>2
  <2>20. ClaimWritten(j, m, e, ledger, c, new, n, f, x, -take, k)
    BY <1>2, <1>7, <1>8, <1>11, <1>13, <2>1, <2>2, <2>3, <2>4, SMTT(60) DEF ClaimWritten
  <2> QED
    BY <2>20, ClaimView
<1>15. PlaceFacts(k, n, db)
  <2>1. k.made = DOMAIN n \cap Claims /\ k.order \in Orders /\ k.posted = NoPosting
    BY <1>2, <1>8, <1>9, <1>12
  <2>2. \A y \in k.made : db[y] = NoClaim /\ n[y] \in OpenClaim /\ n[y].order = k.order
    BY <1>8, <1>9, <1>10, <1>11, <1>12
  <2>3. SameShelf(n, db)
    BY <1>5, <1>9, <1>12, RowsApart DEF SameShelf
  <2>4. DOMAIN k.plan = DOMAIN j.plan \ {x} /\ \A y \in DOMAIN k.plan : k.plan[y] = j.plan[y]
    BY <1>8 DEF Without
  <2>5. DOMAIN k.plan \subseteq Rolls \/ \E t \in Trims : DOMAIN k.plan = {t}
    BY <1>2, <1>9, <2>4
  <2>6. \A y \in DOMAIN k.plan : k.plan[y] \in Nat \ {0} /\ y \notin DOMAIN n
    <3>1. \A y \in DOMAIN j.plan : y \in Items
      BY <1>9, RowsApart
    <3> QED
      BY <1>5, <1>9, <1>12, <2>4, <3>1
  <2>7. k.pc \in {"placed", "before"} /\ k.made # {} /\ (k.pc # "placed" => DOMAIN k.plan # {})
    BY <1>2, <1>8, <2>4
  <2> QED
    BY <2>1, <2>2, <2>3, <2>5, <2>6, <2>7 DEF PlaceFacts
<1>16. Facts(k, n, db, ledger)
  BY <1>2, <1>8, <1>12, <1>13, <1>14, <1>15, PlaceGoesOn DEF f
<1> QED
  BY <1>4, <1>6, <1>8, <1>16
-----------------------------------------------------------------------------
(* Issues and releases.                                                    *)

\* The open allocations among some.
LEMMA OpenRowsAre ==
  ASSUME StoreAssumption, RowsTyped(db), NEW S \in SUBSET Claims, NEW ids, ids = OpenRows(S)
  PROVE  /\ DOMAIN ids \subseteq S /\ DOMAIN ids \subseteq Claims
         /\ \A c \in DOMAIN ids : /\ ids[c].item \in Items /\ ids[c].qty \in Nat \ {0}
                                  /\ db[c].status = "reserved" /\ db[c] # NoClaim
                                  /\ db[c].item = ids[c].item /\ db[c].qty = ids[c].qty
<1>1. DOMAIN ids = {x \in S : db[x].status = "reserved"}
      /\ \A c \in DOMAIN ids : ids[c] = [item |-> db[c].item, qty |-> db[c].qty]
  BY DEF OpenRows
<1> SUFFICES ASSUME NEW c \in DOMAIN ids
             PROVE  /\ ids[c].item \in Items /\ ids[c].qty \in Nat \ {0}
                    /\ db[c].status = "reserved" /\ db[c] # NoClaim
                    /\ db[c].item = ids[c].item /\ db[c].qty = ids[c].qty
  BY <1>1
<1>2. c \in Claims /\ db[c].status = "reserved" /\ db[c] \in ClaimRow
  BY <1>1, Columns
<1>3. db[c].item \in Items /\ db[c].qty \in Nat \ {0} /\ db[c] # NoClaim
  BY <1>2, ClaimedByIs
<1>4. ids[c].item = db[c].item /\ ids[c].qty = db[c].qty
  <2>1. ids[c] = [item |-> db[c].item, qty |-> db[c].qty]
    BY <1>1
  <2> QED
    BY <2>1
<1> QED
  BY <1>2, <1>3, <1>4

\* A job that is to close allocations, and has closed none.
LEMMA CloseStarts ==
  ASSUME StoreAssumption, RowsTyped(db), NEW k, k.op \in CloseOps, k.pc = "claim", k.posted = NoPosting,
         NEW S \in SUBSET Claims, k.ids = OpenRows(S), DOMAIN k.ids # {},
         k.op = "release" => \E c \in Claims : S = {c},
         NEW m, DOMAIN m = {}
  PROVE  Closes(k) /\ CloseFacts(k, m, db)
<1>1. Closes(k)
  BY DEF Closes, Closing
<1>2. /\ DOMAIN k.ids \subseteq S /\ DOMAIN k.ids \subseteq Claims
      /\ \A c \in DOMAIN k.ids : /\ k.ids[c].item \in Items /\ k.ids[c].qty \in Nat \ {0}
                                 /\ db[c].status = "reserved" /\ db[c] # NoClaim
                                 /\ db[c].item = k.ids[c].item /\ db[c].qty = k.ids[c].qty
  BY OpenRowsAre
<1>3. k.op = "release" => Frees(k, m, db)
  BY <1>2 DEF Frees, SameShelf
<1>4. Cuts(k, m, db)
  BY DEF Cuts
<1> QED
  BY <1>1, <1>2, <1>3, <1>4 DEF CloseFacts

\* Where an issue or a release under way is.
LEMMA ClosedAt ==
  ASSUME StoreAssumption, WInv, NEW s \in Sessions, NEW pc \in {"claim", "held", "unreserve", "header"},
         At(s, CloseOps, pc), NEW j, j = job[s], NEW m, m = mine[s], NEW e, e = Over(m, db)
  PROVE  /\ j.op \in {"issue", "release", "counter"} /\ j.pc = pc /\ Closes(j)
         /\ DOMAIN j = JobFields /\ j.posted \in [Items -> Int]
         /\ DOMAIN m \subseteq Rows /\ View(j, m, e, ledger) /\ RowsTyped(e) /\ RowsTyped(db)
         /\ CloseFacts(j, m, db)
         /\ Id(s) = IdAt(j) /\ IdItem(s) = j.ids[IdAt(j)].item /\ IdQty(s) = j.ids[IdAt(j)].qty
         /\ IdAt(j) \in DOMAIN j.ids /\ IdAt(j) \in Claims /\ IdAt(j) \in Rows
         /\ j.ids[IdAt(j)].item \in Items /\ j.ids[IdAt(j)].item \in Rows
         /\ j.ids[IdAt(j)].qty \in Nat \ {0}
         /\ \A r : ~Empty(j, r)
<1>1. j.op \in CloseOps /\ j.pc = pc /\ j.op # "idle"
  BY DEF At, CloseOps
<1>2. /\ DOMAIN j = JobFields /\ DOMAIN m \subseteq Rows /\ View(j, m, e, ledger) /\ RowsTyped(e)
      /\ CloseFacts(j, m, db) /\ j.posted \in [Items -> Int]
  BY <1>1, AtWork
<1>3. Closes(j)
  BY <1>1 DEF Closes, Closing
<1>4. /\ DOMAIN j.ids # {} /\ DOMAIN j.ids \subseteq Claims
      /\ \A c \in DOMAIN j.ids : j.ids[c].item \in Items /\ j.ids[c].qty \in Nat \ {0}
  BY <1>1, <1>2, <1>3 DEF CloseFacts
<1>5. IdAt(j) \in DOMAIN j.ids
  <2>1. IsFiniteSet(DOMAIN j.ids) /\ DOMAIN j.ids \subseteq Nat
    BY <1>4, RowsApart, FS_Subset
  <2> QED
    BY <1>4, <2>1, EarliestIs DEF IdAt
<1>6. Id(s) = IdAt(j) /\ IdItem(s) = j.ids[IdAt(j)].item /\ IdQty(s) = j.ids[IdAt(j)].qty
  BY DEF Id, IdItem, IdQty, IdAt
<1>7. RowsTyped(db) /\ \A r : ~Empty(j, r)
  BY <1>1, Committed DEF Empty, CloseOps
<1>8. IdAt(j) \in Claims /\ IdAt(j) \in Rows /\ j.ids[IdAt(j)].item \in Items /\ j.ids[IdAt(j)].item \in Rows
      /\ j.ids[IdAt(j)].qty \in Nat \ {0}
  BY <1>4, <1>5, RowsApart
<1> QED
  BY <1>1, <1>2, <1>3, <1>5, <1>6, <1>7, <1>8 DEF CloseOps

\* What it still satisfies, but for its own facts.
LEMMA CloseGoesOn ==
  ASSUME NEW j, Closes(j), NEW m, NEW d, NEW l, DOMAIN j = JobFields, j.posted \in [Items -> Int],
         j.op = "release" => j.pc # "held",
         DOMAIN m \subseteq Rows, View(j, m, Over(m, d), l), CloseFacts(j, m, d)
  PROVE  Facts(j, m, d, l)
<1>1. /\ j.op \in CloseOps /\ j.op # "idle" /\ j.pc \in Points(j.op) /\ j.pc # "select"
      /\ j.op \notin MoveOps /\ j.op # "hold" /\ ~Places(j)
  BY ClosePending, PointsAre DEF Closes, CloseOps, Closing, MoveOps
<1>2. JobTyped(j)
  BY <1>1 DEF JobTyped
<1> QED
  BY <1>1, <1>2 DEF Facts, SelectFacts, PlaceFacts, MoveFacts, HoldFacts

\* issue_reserved starts with the open allocations of an order.
LEMMA BeginIssueKeeps ==
  ASSUME StoreAssumption, WInv, Safe, NEW s \in Sessions, NEW o \in Orders, BeginIssue(s, o)
  PROVE  WInv'
<1> DEFINE S == {c \in Claims : db[c].status = "reserved" /\ db[c].order = o}
           k == [Idle EXCEPT !.op = "issue", !.pc = "claim", !.order = o, !.ids = OpenOf(o)]
           m == mine[s]
<1>1. DOMAIN OpenOf(o) # {} /\ Begin(s, k)
  BY DEF BeginIssue
<1>2. OpenOf(o) = OpenRows(S) /\ S \in SUBSET Claims
  BY DEF OpenOf
<1>3. View(Idle, NoRows, db, ledger) /\ RowsTyped(db)
  BY Committed
<1>4. DOMAIN k = JobFields /\ k.op = "issue" /\ k.pc = "claim" /\ k.ids = OpenRows(S) /\ k.posted = NoPosting
  BY <1>2 DEF Idle, JobFields, NoPosting
<1>5. DOMAIN m = {}
  BY <1>1, SeenIdle DEF Begin, MayStart
<1> HIDE DEF k, m, S
<1>6. Closes(k) /\ CloseFacts(k, m, db)
  BY <1>1, <1>2, <1>3, <1>4, <1>5, CloseStarts DEF CloseOps
<1>7. View(k, m, db, ledger)
  BY <1>3, <1>4, <1>6, ClosePending, ViewFirst
<1>8. JobTyped(k)
  <2>1. k.op \in CloseOps /\ k.op # "idle" /\ k.pc \in Points(k.op)
    BY <1>4, PointsAre DEF CloseOps, Closing
  <2> QED
    BY <1>4, <2>1 DEF JobTyped, NoPosting
<1>9. PlaceFacts(k, m, db) /\ SelectFacts(k, m) /\ MoveFacts(k, m, db) /\ HoldFacts(k, m, db)
  BY <1>4, <1>6, ClosePending DEF PlaceFacts, SelectFacts, MoveFacts, HoldFacts, MoveOps
<1> QED
  BY <1>1, <1>6, <1>7, <1>8, <1>9, BeginKeeps DEF m

\* release_allocation with one.
LEMMA BeginReleaseKeeps ==
  ASSUME StoreAssumption, WInv, Safe, NEW s \in Sessions, NEW c \in Claims, BeginRelease(s, c)
  PROVE  WInv'
<1> DEFINE k == [Idle EXCEPT !.op = "release", !.pc = "claim", !.ids = OpenRows({c})]
           m == mine[s]
<1>1. db[c].status = "reserved" /\ Begin(s, k)
  BY DEF BeginRelease
<1>2. DOMAIN OpenRows({c}) # {} /\ {c} \in SUBSET Claims
  BY <1>1 DEF OpenRows
<1>3. View(Idle, NoRows, db, ledger) /\ RowsTyped(db)
  BY Committed
<1>4. DOMAIN k = JobFields /\ k.op = "release" /\ k.pc = "claim" /\ k.ids = OpenRows({c}) /\ k.posted = NoPosting
  BY DEF Idle, JobFields, NoPosting
<1>5. DOMAIN m = {}
  BY <1>1, SeenIdle DEF Begin, MayStart
<1> HIDE DEF k, m
<1>6. Closes(k) /\ CloseFacts(k, m, db)
  <2>1. k.op \in CloseOps /\ DOMAIN k.ids # {} /\ \E x \in Claims : {c} = {x}
    BY <1>2, <1>4 DEF CloseOps
  <2> QED
    BY <1>2, <1>3, <1>4, <1>5, <2>1, CloseStarts
<1>7. View(k, m, db, ledger)
  BY <1>3, <1>4, <1>6, ClosePending, ViewFirst
<1>8. JobTyped(k)
  <2>1. k.op \in CloseOps /\ k.op # "idle" /\ k.pc \in Points(k.op)
    BY <1>4, PointsAre DEF CloseOps, Closing
  <2> QED
    BY <1>4, <2>1 DEF JobTyped, NoPosting
<1>9. PlaceFacts(k, m, db) /\ SelectFacts(k, m) /\ MoveFacts(k, m, db) /\ HoldFacts(k, m, db)
  BY <1>4, <1>6, ClosePending DEF PlaceFacts, SelectFacts, MoveFacts, HoldFacts, MoveOps
<1> QED
  BY <1>1, <1>6, <1>7, <1>8, <1>9, BeginKeeps DEF m

\* A session that ends its request with nothing written.
LEMMA QuitKeeps ==
  ASSUME WInv, NEW s \in Sessions, DOMAIN mine[s] = {}, Quit(s), Read, UNCHANGED ledger
  PROVE  WInv'
<1>1. DOMAIN mine = Sessions /\ DOMAIN job = Sessions /\ View(Idle, NoRows, db, ledger)
  BY Committed
<1>2. db' = db /\ ledger' = ledger /\ mine' = mine /\ job' = [job EXCEPT ![s] = Idle]
  BY DEF Quit, Read
<1>3. /\ DOMAIN mine' = Sessions /\ DOMAIN job' = Sessions /\ job'[s] = Idle /\ DOMAIN mine'[s] = {}
      /\ \A t \in Sessions \ {s} : job'[t] = job[t] /\ mine'[t] = mine[t]
  BY <1>1, <1>2
<1>4. job'[s].op = "idle" /\ Facts(job'[s], mine'[s], db, ledger)
  BY <1>1, <1>3, IdleFacts, IdleIs
<1> QED
  BY <1>2, <1>3, <1>4, GoesOn

\* issue_to_order selects what it has reserved.
LEMMA CounterSelectKeeps ==
  ASSUME StoreAssumption, WInv, NEW s \in Sessions, CounterSelect(s)
  PROVE  WInv'
<1> DEFINE j == job[s]
           m == mine[s]
           ids == OpenRows(j.made)
           k == [j EXCEPT !.ids = ids, !.pc = "claim"]
<1>1. At(s, {"counter"}, "select") /\ Read /\ UNCHANGED ledger
  BY DEF CounterSelect
<1>2. /\ j.op = "counter" /\ j.pc = "select" /\ j.op # "idle"
  BY <1>1 DEF At
<1>3. /\ DOMAIN j = JobFields /\ View(j, m, Over(m, db), ledger) /\ SelectFacts(j, m)
  BY <1>2, AtWork
<1>4. DOMAIN m = {} /\ j.made \in SUBSET Claims /\ j.posted = NoPosting
  BY <1>2, <1>3 DEF SelectFacts
<1>5. RowsTyped(db) /\ View(Idle, NoRows, db, ledger)
  BY Committed
<1>6. CASE DOMAIN ids = {}
  <2>1. Quit(s)
    BY <1>6 DEF CounterSelect
  <2> QED
    BY <1>1, <1>4, <2>1, QuitKeeps
<1>7. CASE DOMAIN ids # {}
  <2>1. job' = [job EXCEPT ![s] = k]
    BY <1>7 DEF CounterSelect
  <2>2. DOMAIN k = JobFields /\ k.op = "counter" /\ k.pc = "claim" /\ k.ids = OpenRows(j.made) /\ k.posted = NoPosting
    <3> HIDE DEF ids
    <3>1. DOMAIN k = JobFields /\ k.op = "counter" /\ k.pc = "claim" /\ k.ids = ids /\ k.posted = NoPosting
      BY <1>2, <1>3, <1>4 DEF JobFields
    <3> QED
      BY <3>1 DEF ids
  <2>3. DOMAIN k.ids # {}
    BY <1>7, <2>2
  <2> HIDE DEF k
  <2>4. Closes(k) /\ CloseFacts(k, m, db)
    <3>1. k.op \in CloseOps /\ k.op # "release"
      BY <2>2 DEF CloseOps
    <3> QED
      BY <1>4, <1>5, <2>2, <2>3, <3>1, CloseStarts
  <2>5. View(k, m, Over(m, db), ledger)
    <3>1. View(k, m, db, ledger)
      BY <1>5, <2>2, <2>4, ClosePending, ViewFirst
    <3>2. Over(m, db) = db
      BY <1>4, <1>5, IdleFacts
    <3> QED
      BY <3>1, <3>2
  <2>6. Facts(k, m, db, ledger)
    <3>1. k.posted \in [Items -> Int] /\ DOMAIN m \subseteq Rows /\ k.op # "release"
      BY <1>4, <2>2 DEF NoPosting
    <3> QED
      BY <2>2, <2>4, <2>5, <3>1, CloseGoesOn
  <2> QED
    BY <1>1, <1>2, <2>1, <2>2, <2>6, ReadGoesOn
<1> QED
  BY <1>6, <1>7

\* UPDATE ... WHERE status = 'reserved'.
LEMMA ClaimKeeps ==
  ASSUME StoreAssumption, WInv, NEW s \in Sessions, Claim(s)
  PROVE  WInv'
<1> DEFINE j == job[s]
           m == mine[s]
           e == Over(m, db)
           c == IdAt(j)
           x == j.ids[c].item
           q == j.ids[c].qty
           new == IF j.op = "release" THEN Released ELSE Issued
           to == IF j.op # "release" /\ x \in Rolls THEN "held" ELSE "unreserve"
           k == [j EXCEPT !.pc = to]
<1>1. At(s, CloseOps, "claim") /\ Claimable(s) /\ UNCHANGED ledger
  BY DEF Claim
<1>2. /\ j.op \in {"issue", "release", "counter"} /\ j.pc = "claim" /\ Closes(j)
      /\ DOMAIN j = JobFields /\ j.posted \in [Items -> Int]
      /\ DOMAIN m \subseteq Rows /\ View(j, m, e, ledger) /\ RowsTyped(e) /\ RowsTyped(db)
      /\ CloseFacts(j, m, db)
      /\ Id(s) = c /\ IdItem(s) = x
      /\ c \in DOMAIN j.ids /\ c \in Claims /\ c \in Rows
      /\ x \in Items /\ q \in Nat \ {0}
      /\ \A r : ~Empty(j, r)
  BY <1>1, ClosedAt
<1>3. Write(s, c, new) /\ job' = [job EXCEPT ![s] = k] /\ Seen(s, c).status = "reserved"
  <2> HIDE DEF c, x
  <2> QED
    BY <1>1, <1>2 DEF Claim, Goto, Claimable
<1>4. PICK n : /\ Wrote(m, e, c, new, n, Over(n, db))
               /\ \A y : job' = [job EXCEPT ![s] = y] /\ y.op = j.op /\ Facts(y, n, db, ledger) => WInv'
  BY <1>1, <1>2, <1>3, OneWritten
<1> DEFINE f == Over(n, db)
<1>5. Wrote(m, e, c, new, n, f)
  BY <1>4
<1>6. /\ DOMAIN k = JobFields /\ k.op = j.op /\ k.pc = to /\ k.ids = j.ids /\ k.posted = j.posted
  <2> HIDE DEF to
  <2> QED
    BY <1>2, GotoIs
<1>7. /\ DOMAIN j.ids \subseteq Claims
      /\ \A y \in DOMAIN j.ids :
           /\ j.ids[y].item \in Items /\ j.ids[y].qty \in Nat \ {0}
           /\ db[y] # NoClaim
           /\ db[y].status = "reserved" => db[y].item = j.ids[y].item /\ db[y].qty = j.ids[y].qty
      /\ \A y \in DOMAIN m \cap Claims : db[y].status = "reserved" /\ m[y] = new
      /\ \A y \in DOMAIN m \cap Items : m[y].reserved <= db[y].reserved
      /\ IF j.op = "release" THEN Frees(j, m, db) ELSE Cuts(j, m, db)
  BY <1>2 DEF CloseFacts
<1>8. new.status # "reserved" /\ new \in ClaimRow
  BY DEF Issued, Released, ClaimRow
<1>9. c \notin DOMAIN m /\ e[c] = db[c]
  <2>1. ASSUME c \in DOMAIN m PROVE FALSE
    <3>1. Seen(s, c) = new
      BY <1>2, <1>7, <2>1 DEF Seen
    <3> QED
      BY <1>3, <1>8, <3>1
  <2>2. e[c] = Seen(s, c)
    BY <1>2, SeenIs
  <2> QED
    BY <2>1, <2>2 DEF Seen
<1>10. e[c].status = "reserved" /\ e[c].item = x /\ e[c].qty = q /\ e[c] \in ClaimRow /\ db[c].status = "reserved"
       /\ db[c].item = x
  <2>1. e[c].status = "reserved" /\ e[c] \in ClaimRow
    BY <1>2, <1>3, <1>9, Columns DEF Seen
  <2> QED
    BY <1>2, <1>7, <1>9, <2>1
<1> HIDE DEF k, e, f, x, q, c
<1>11. DOMAIN n = DOMAIN m \cup {c} /\ DOMAIN n \subseteq Rows /\ n[c] = new /\ \A y \in DOMAIN m \ {c} : n[y] = m[y]
  BY <1>5 DEF Wrote
<1>12. k.pc \in {"held", "unreserve"} /\ (k.pc = "held" <=> j.op # "release" /\ x \in Rolls) /\ Closes(k)
  <2>1. k.pc \in {"held", "unreserve"} /\ (k.pc = "held" <=> j.op # "release" /\ x \in Rolls)
    BY <1>6
  <2> QED
    BY <1>2, <1>6, <2>1 DEF Closes, Closing
<1>13. View(k, n, f, ledger)
  <2>1. OnRow(j, m) = 0 /\ OnHeader(j, m) = 0 /\ OffHeader(j) = 0
    BY <1>2, ClosePending
  <2>2. OnRow(k, n) = 0 + q /\ OnHeader(k, n) = 0 /\ OffHeader(k) = 0 /\ AtRow(k) = x
    <3>1. k.ids[IdAt(k)].qty = q /\ k.ids[IdAt(k)].item = x
      BY <1>6 DEF IdAt, q, x, c
    <3>2. OnRow(k, n) = q /\ OnHeader(k, n) = 0 /\ OffHeader(k) = 0 /\ AtRow(k) = x
      BY <1>12, <3>1, ClosePending
    <3> QED
      BY <1>2, <3>2
  <2>3. ASSUME NEW y \in Items PROVE ClaimedBy(e[c], y) - ClaimedBy(new, y) = (IF y = x THEN q ELSE 0)
    <3>1. ClaimedBy(e[c], y) = IF y = x THEN q ELSE 0
      BY <1>10 DEF ClaimedBy
    <3>2. ClaimedBy(new, y) = 0
      BY <1>8 DEF ClaimedBy
    <3> HIDE DEF new
    <3> QED
      BY <1>2, <3>1, <3>2
  <2> HIDE DEF new
  <2>4. q \in Int
    BY <1>2
  <2>20. ClaimWritten(j, m, e, ledger, c, new, n, f, x, q, k)
    BY <1>2, <1>5, <1>6, <1>8, <2>1, <2>2, <2>3, <2>4, SMTT(60) DEF ClaimWritten
  <2> QED
    BY <2>20, ClaimView
<1>14. CloseFacts(k, n, db)
  <2> HIDE DEF new
  <2>1. \A y \in DOMAIN n \cap Claims : db[y].status = "reserved" /\ n[y] = new
    BY <1>7, <1>10, <1>11
  <2>2. c \notin Items
    BY <1>2, RowsApart
  <2>3. /\ DOMAIN n \cap Items = DOMAIN m \cap Items /\ DOMAIN n \cap Rolls = DOMAIN m \cap Rolls
        /\ \A y \in DOMAIN n \cap Items : y \in DOMAIN m /\ n[y] = m[y]
    BY <1>11, <2>2, RowsApart
  <2>4. \A y \in DOMAIN n \cap Items : n[y].reserved <= db[y].reserved
    BY <1>7, <2>3
  <2>5. IdAt(k) = c /\ c \in DOMAIN n
    BY <1>6, <1>11 DEF IdAt, c
  <2>6. ASSUME j.op = "release" PROVE Frees(k, n, db)
    <3>1. Frees(j, m, db)
      BY <1>7, <2>6
    <3>2. SameShelf(n, db)
      BY <2>3, <3>1, RowsApart DEF Frees, SameShelf
    <3>3. k.posted = NoPosting
      BY <1>6, <3>1 DEF Frees
    <3>4. \E y \in Claims : DOMAIN n \cap Claims \subseteq {y} /\ DOMAIN k.ids \subseteq {y}
      <4>1. PICK y \in Claims : DOMAIN m \cap Claims \subseteq {y} /\ DOMAIN j.ids \subseteq {y}
        BY <3>1 DEF Frees
      <4>2. c = y
        BY <1>2, <4>1
      <4> QED
        BY <1>6, <1>11, <4>1, <4>2
    <3> QED
      BY <3>2, <3>3, <3>4 DEF Frees
  <2>7. ASSUME j.op # "release" PROVE Cuts(k, n, db)
    <3>1. Cuts(j, m, db)
      BY <1>7, <2>7
    <3>2. \A i \in DOMAIN n \cap Items : n[i].stock - db[i].stock = n[i].reserved - db[i].reserved + 0
      BY <1>2, <2>3, <3>1 DEF Cuts
    <3>3. \A r \in DOMAIN n \cap Rolls : n[r].status = "quarantine" <=> db[r].status = "quarantine"
      BY <2>3, <3>1, RowsApart DEF Cuts
    <3>4. ASSUME NEW y \in DOMAIN n \cap Claims, db[y].item \in Rolls, ~(k.pc = "held" /\ y = IdAt(k))
          PROVE  db[db[y].item].status # "quarantine"
      <4>1. CASE y = c
        BY <1>10, <1>12, <2>5, <2>7, <3>4, <4>1
      <4>2. CASE y # c
        BY <1>2, <1>11, <3>1, <3>4, <4>2 DEF Cuts
      <4> QED
        BY <4>1, <4>2
    <3> QED
      BY <1>12, <3>2, <3>3, <3>4 DEF Cuts
  <2>8. DOMAIN k.ids # {}
    BY <1>2, <1>6
  <2>9. new = IF k.op = "release" THEN Released ELSE Issued
    BY <1>6 DEF new
  <2> QED
    BY <1>6, <1>7, <1>12, <2>1, <2>4, <2>5, <2>6, <2>7, <2>8, <2>9 DEF CloseFacts
<1>15. Facts(k, n, db, ledger)
  <2>1. k.op = "release" => k.pc # "held"
    BY <1>6, <1>12
  <2> QED
    BY <1>2, <1>6, <1>11, <1>12, <1>13, <1>14, <2>1, CloseGoesOn DEF f
<1> QED
  BY <1>3, <1>4, <1>6, <1>15

\* A hold on the roll is looked for before it is cut.
LEMMA CheckHeldKeeps ==
  ASSUME StoreAssumption, WInv, NEW s \in Sessions, CheckHeld(s)
  PROVE  WInv'
<1> DEFINE j == job[s]
           m == mine[s]
           e == Over(m, db)
           c == IdAt(j)
           x == j.ids[c].item
           k == [j EXCEPT !.pc = "unreserve"]
<1>1. At(s, CloseOps, "held")
  BY DEF CheckHeld
<1>2. /\ j.op \in {"issue", "release", "counter"} /\ j.pc = "held" /\ Closes(j)
      /\ DOMAIN j = JobFields /\ j.posted \in [Items -> Int]
      /\ DOMAIN m \subseteq Rows /\ View(j, m, e, ledger)
      /\ CloseFacts(j, m, db)
      /\ IdItem(s) = x /\ c \in DOMAIN j.ids
      /\ x \in Items /\ x \in Rows /\ j.ids[c].qty \in Nat \ {0}
      /\ \A r : ~Empty(j, r)
  BY <1>1, ClosedAt
<1>3. CASE Seen(s, x).status = "quarantine"
  BY <1>2, <1>3, AbortKeeps DEF CheckHeld
<1>4. CASE Seen(s, x).status # "quarantine"
  <2>1. job' = [job EXCEPT ![s] = k] /\ Read /\ UNCHANGED ledger
    BY <1>2, <1>4 DEF CheckHeld, Goto
  <2>2. DOMAIN k = JobFields /\ k.op = j.op /\ k.pc = "unreserve" /\ k.ids = j.ids /\ k.posted = j.posted
    BY <1>2, GotoIs
  <2>3. IdAt(k) = c
    BY <2>2 DEF IdAt
  <2>4. j.op # "release"
    <3>1. JobTyped(j) /\ j.op # "idle"
      BY <1>2, AtWork
    <3> QED
      BY <1>2, <3>1, PointsAre DEF JobTyped
  <2> HIDE DEF k, e, c, x
  <2>5. Closes(k)
    BY <1>2, <2>2 DEF Closes, Closing
  <2>6. View(k, m, e, ledger)
    <3>1. OnRow(j, m) = j.ids[c].qty /\ OnHeader(j, m) = 0 /\ OffHeader(j) = 0 /\ AtRow(j) = x
      BY <1>2, ClosePending DEF c, x
    <3>2. OnRow(k, m) = j.ids[c].qty /\ OnHeader(k, m) = 0 /\ OffHeader(k) = 0 /\ AtRow(k) = x
      BY <2>2, <2>3, <2>5, ClosePending DEF x
    <3> QED
      BY <1>2, <2>2, <3>1, <3>2, ViewStays
  <2>7. CloseFacts(k, m, db)
    <3>1. /\ DOMAIN j.ids \subseteq Claims
          /\ \A y \in DOMAIN j.ids :
               /\ j.ids[y].item \in Items /\ j.ids[y].qty \in Nat \ {0}
               /\ db[y] # NoClaim
               /\ db[y].status = "reserved" => db[y].item = j.ids[y].item /\ db[y].qty = j.ids[y].qty
          /\ \A y \in DOMAIN m \cap Claims : db[y].status = "reserved" /\ m[y] = Issued
          /\ \A y \in DOMAIN m \cap Items : m[y].reserved <= db[y].reserved
          /\ DOMAIN j.ids # {} /\ c \in DOMAIN m /\ Cuts(j, m, db)
      BY <1>2, <2>4 DEF CloseFacts, c
    <3>2. ASSUME x \in Rolls PROVE db[x].status # "quarantine"
      <4>1. x \in DOMAIN m => (m[x].status = "quarantine" <=> db[x].status = "quarantine")
        BY <3>1, <3>2 DEF Cuts
      <4> QED
        BY <1>4, <4>1 DEF Seen
    <3>3. ASSUME NEW y \in DOMAIN m \cap Claims, db[y].item \in Rolls PROVE db[db[y].item].status # "quarantine"
      <4>1. CASE y = c
        <5>1. db[y].item = x
          BY <1>2, <3>1, <4>1 DEF x
        <5> QED
          BY <3>2, <3>3, <5>1
      <4>2. CASE y # c
        BY <1>2, <3>1, <3>3, <4>2 DEF Cuts, c
      <4> QED
        BY <4>1, <4>2
    <3>4. Cuts(k, m, db)
      <4>1. \A i \in DOMAIN m \cap Items : m[i].stock - db[i].stock = m[i].reserved - db[i].reserved + 0
        BY <1>2, <3>1 DEF Cuts
      <4>2. \A r \in DOMAIN m \cap Rolls : m[r].status = "quarantine" <=> db[r].status = "quarantine"
        BY <3>1 DEF Cuts
      <4> QED
        BY <2>2, <3>3, <4>1, <4>2 DEF Cuts
    <3> QED
      BY <2>2, <2>3, <2>4, <3>1, <3>4 DEF CloseFacts
  <2>8. Facts(k, m, db, ledger)
    <3>1. k.op = "release" => k.pc # "held"
      BY <2>2
    <3> QED
      BY <1>2, <2>2, <2>5, <2>6, <2>7, <3>1, CloseGoesOn DEF e
  <2> QED
    BY <2>1, <2>2, <2>8, ReadGoesOn
<1> QED
  BY <1>3, <1>4

\* The counter of what is freed goes down by all of it.
LEMMA FreedIs ==
  ASSUME NEW row, NEW q \in Nat, row.reserved \in Nat, q <= row.reserved, row.stock \in Nat
  PROVE  /\ row \in CountRow => Freed(row, q) = [row EXCEPT !.reserved = row.reserved - q] /\ Freed(row, q) \in CountRow
         /\ row \in RollRow => /\ Freed(row, q) = [row EXCEPT !.reserved = row.reserved - q] /\ Freed(row, q) \in RollRow
                               /\ Freed(row, q).status = row.status
         /\ row \in CountRow \cup RollRow =>
              Freed(row, q).reserved = row.reserved - q /\ Freed(row, q).stock = row.stock
<1> DEFINE a == row.reserved - q
<1>1. a \in Nat
  OBVIOUS
<1>2. Max({a, 0}) = a
  <2>1. \E x \in {a, 0} : \A y \in {a, 0} : x >= y
    BY <1>1
  <2>2. Max({a, 0}) \in {a, 0} /\ \A y \in {a, 0} : Max({a, 0}) >= y
    BY <2>1 DEF Max
  <2> HIDE DEF a
  <2> QED
    BY <1>1, <2>2
<1>3. Freed(row, q) = [row EXCEPT !.reserved = a]
  BY <1>2 DEF Freed
<1> HIDE DEF a
<1> QED
  BY <1>1, <1>3 DEF CountRow, RollRow, a

\* The status that _roll_status computes says how many metres are left.
LEMMA StatusTells ==
  ASSUME NEW row, NEW current, NEW left \in Nat, NEW length \in Nat, row.stock = left,
         row.status = RollStatus(current, left, length)
  PROVE  /\ Tells(row, length) /\ row.status \in RollStatuses
         /\ row.status = "quarantine" <=> current = "quarantine"
<1>1. CASE current = "quarantine"
  BY <1>1 DEF RollStatus, Tells, RollStatuses
<1>2. CASE current # "quarantine" /\ left = 0
  <2>1. row.status = "consumed"
    BY <1>2 DEF RollStatus
  <2> QED
    BY <1>2, <2>1 DEF Tells, RollStatuses
<1>3. CASE current # "quarantine" /\ left > 0 /\ left < length
  <2>1. row.status = "partial"
    BY <1>3 DEF RollStatus
  <2> QED
    BY <1>3, <2>1 DEF Tells, RollStatuses
<1>4. CASE current # "quarantine" /\ left > 0 /\ ~(left < length)
  <2>1. row.status = "available"
    BY <1>4 DEF RollStatus
  <2> QED
    BY <1>4, <2>1 DEF Tells, RollStatuses
<1> QED
  BY <1>1, <1>2, <1>3, <1>4

\* The next allocation, or the commit.
LEMMA NextClaimIs ==
  ASSUME NEW s \in Sessions, NEW j, j.ids = job[s].ids, DOMAIN j = JobFields, Closes(j), IdAt(j) \in DOMAIN j.ids,
         NEW k, k = NextClaim(s, j)
  PROVE  /\ DOMAIN k = JobFields /\ k.op = j.op /\ k.posted = j.posted /\ k.pc \in {"claim", "commit"}
         /\ DOMAIN k.ids = DOMAIN j.ids \ {IdAt(j)} /\ \A c \in DOMAIN k.ids : k.ids[c] = j.ids[c]
         /\ k.pc = "claim" => DOMAIN k.ids # {}
         /\ Closes(k) /\ OffHeader(k) = 0 /\ \A n : OnRow(k, n) = 0 /\ OnHeader(k, n) = 0
<1>1. Id(s) = IdAt(j)
  BY DEF Id, IdAt
<1> DEFINE ids == Without(j.ids, IdAt(j))
           pc == IF DOMAIN j.ids = {IdAt(j)} THEN "commit" ELSE "claim"
<1>2. DOMAIN ids = DOMAIN j.ids \ {IdAt(j)} /\ \A c \in DOMAIN ids : ids[c] = j.ids[c]
  BY DEF Without
<1>3. k = [j EXCEPT !.ids = ids, !.pc = pc]
  BY <1>1 DEF NextClaim
<1>4. pc \in {"claim", "commit"} /\ (pc = "claim" => DOMAIN ids # {})
  BY <1>2
<1> HIDE DEF ids, pc
<1>5. DOMAIN k = JobFields /\ k.op = j.op /\ k.posted = j.posted /\ k.pc = pc /\ k.ids = ids
  BY <1>3 DEF JobFields
<1>6. Closes(k)
  BY <1>4, <1>5 DEF Closes, Closing
<1>7. OffHeader(k) = 0 /\ \A n : OnRow(k, n) = 0 /\ OnHeader(k, n) = 0
  BY <1>4, <1>5, <1>6, ClosePending
<1> QED
  BY <1>2, <1>4, <1>5, <1>6, <1>7

\* A job that may book a movement of q on i.
Postable(j, i, q) ==
    DOMAIN j = JobFields /\ Closes(j) /\ j.posted \in [Items -> Int] /\ i \in Items /\ q \in Int

\* A job that has booked a movement.
LEMMA BookedIs ==
  ASSUME NEW j, NEW i, NEW q, Postable(j, i, q), NEW k, k = Booked(j, i, q)
  PROVE  /\ DOMAIN k = JobFields /\ k.op = j.op /\ k.pc = j.pc /\ k.ids = j.ids /\ Closes(k)
         /\ k.posted \in [Items -> Int] /\ k.posted[i] = j.posted[i] + q
         /\ \A y \in Items \ {i} : k.posted[y] = j.posted[y]
<1> USE DEF Postable
<1>1. DOMAIN k = JobFields /\ k.op = j.op /\ k.pc = j.pc /\ k.ids = j.ids
      /\ k.posted = [j.posted EXCEPT ![i] = @ + q]
  BY DEF Booked, JobFields
<1>2. Closes(k)
  BY <1>1 DEF Closes
<1> QED
  BY <1>1, <1>2

\* The facts of a job that leaves an allocation with its item i written.
LEMMA NextFacts ==
  ASSUME StoreAssumption, NEW j, NEW m, NEW d, Closes(j), CloseFacts(j, m, d), j.pc \in {"unreserve", "header"},
         NEW k, Closes(k), k.op = j.op, k.pc \in {"claim", "commit"},
         DOMAIN k.ids = DOMAIN j.ids \ {IdAt(j)}, \A c \in DOMAIN k.ids : k.ids[c] = j.ids[c],
         k.pc = "claim" => DOMAIN k.ids # {},
         NEW n, NEW i, i = j.ids[IdAt(j)].item, i \in Items,
         DOMAIN m \subseteq DOMAIN n, DOMAIN n \subseteq DOMAIN m \cup {i, Header},
         \A x \in (Items \cup Claims) \ {i} : x \in DOMAIN m => n[x] = m[x],
         i \in DOMAIN n, n[i].reserved <= d[i].reserved,
         j.op = "release" => /\ n[i].stock = d[i].stock /\ (i \in Rolls => n[i].status = d[i].status)
                             /\ k.posted = NoPosting,
         j.op # "release" => /\ n[i].stock - d[i].stock = n[i].reserved - d[i].reserved
                             /\ i \in Rolls => (n[i].status = "quarantine" <=> d[i].status = "quarantine"),
         n[i].stock \in Int, d[i].stock \in Int, n[i].reserved \in Int, d[i].reserved \in Int
  PROVE  CloseFacts(k, n, d)
<1>1. /\ DOMAIN j.ids \subseteq Claims
      /\ \A c \in DOMAIN j.ids :
           /\ j.ids[c].item \in Items /\ j.ids[c].qty \in Nat \ {0}
           /\ d[c] # NoClaim
           /\ d[c].status = "reserved" => d[c].item = j.ids[c].item /\ d[c].qty = j.ids[c].qty
      /\ \A c \in DOMAIN m \cap Claims :
           d[c].status = "reserved" /\ m[c] = IF j.op = "release" THEN Released ELSE Issued
      /\ \A y \in DOMAIN m \cap Items : m[y].reserved <= d[y].reserved
      /\ DOMAIN j.ids # {} /\ IdAt(j) \in DOMAIN m
      /\ IF j.op = "release" THEN Frees(j, m, d) ELSE Cuts(j, m, d)
  BY DEF CloseFacts
<1>2. IdAt(j) \in Claims
  <2>1. IsFiniteSet(DOMAIN j.ids) /\ DOMAIN j.ids \subseteq Nat
    BY <1>1, RowsApart, FS_Subset
  <2> QED
    BY <1>1, <2>1, EarliestIs DEF IdAt
<1>3. i \notin Claims /\ Header \notin Claims /\ Header \notin Items
  BY RowsApart
<1>4. DOMAIN n \cap Claims = DOMAIN m \cap Claims /\ \A c \in DOMAIN n \cap Claims : n[c] = m[c]
  BY <1>3
<1>5. \A y \in DOMAIN n \cap Items : y = i \/ (y \in DOMAIN m /\ n[y] = m[y])
  BY <1>3
<1>6. \A y \in DOMAIN n \cap Items : n[y].reserved <= d[y].reserved
  BY <1>1, <1>5
<1>7. ASSUME j.op = "release" PROVE Frees(k, n, d)
  <2>1. Frees(j, m, d)
    BY <1>1, <1>7
  <2>2. SameShelf(n, d)
    <3>1. SameShelf(m, d)
      BY <2>1 DEF Frees
    <3>2. \A y \in DOMAIN n \cap Items : n[y].stock = d[y].stock
      BY <1>5, <1>7, <3>1 DEF SameShelf
    <3>3. \A y \in DOMAIN n \cap Rolls : n[y].status = d[y].status
      BY <1>5, <1>7, <3>1, RowsApart DEF SameShelf
    <3> QED
      BY <3>2, <3>3 DEF SameShelf
  <2>3. k.posted = NoPosting
    BY <1>7
  <2>4. PICK c \in Claims : DOMAIN m \cap Claims \subseteq {c} /\ DOMAIN j.ids \subseteq {c}
    BY <2>1 DEF Frees
  <2>5. DOMAIN n \cap Claims \subseteq {c} /\ DOMAIN k.ids \subseteq {c}
    BY <1>4, <2>4
  <2> QED
    BY <2>2, <2>3, <2>5 DEF Frees
<1>8. ASSUME j.op # "release" PROVE Cuts(k, n, d)
  <2>1. Cuts(j, m, d)
    BY <1>1, <1>8
  <2>2. ASSUME NEW y \in DOMAIN n \cap Items PROVE n[y].stock - d[y].stock = n[y].reserved - d[y].reserved + 0
    <3>1. CASE y = i
      BY <1>8, <3>1
    <3>2. CASE y # i
      <4>1. y \in DOMAIN m /\ n[y] = m[y]
        BY <1>5, <3>2
      <4>2. m[y].stock - d[y].stock = m[y].reserved - d[y].reserved + 0
        BY <2>1, <3>2, <4>1 DEF Cuts
      <4> QED
        BY <4>1, <4>2
    <3> QED
      BY <3>1, <3>2
  <2>3. ASSUME NEW y \in DOMAIN n \cap Rolls PROVE n[y].status = "quarantine" <=> d[y].status = "quarantine"
    <3>1. CASE y = i
      BY <1>8, <3>1
    <3>2. CASE y # i
      <4>1. y \in DOMAIN m /\ n[y] = m[y] /\ y \in Items
        BY <1>5, <3>2, RowsApart
      <4> QED
        BY <2>1, <3>2, <4>1 DEF Cuts
    <3> QED
      BY <3>1, <3>2
  <2>4. \A c \in DOMAIN n \cap Claims : d[c].item \in Rolls => d[d[c].item].status # "quarantine"
    BY <1>4, <2>1 DEF Cuts
  <2> QED
    BY <2>2, <2>3, <2>4 DEF Cuts
<1>9. /\ DOMAIN k.ids \subseteq Claims
      /\ \A c \in DOMAIN k.ids :
           /\ k.ids[c].item \in Items /\ k.ids[c].qty \in Nat \ {0}
           /\ d[c] # NoClaim
           /\ d[c].status = "reserved" => d[c].item = k.ids[c].item /\ d[c].qty = k.ids[c].qty
  BY <1>1
<1>10. /\ \A c \in DOMAIN n \cap Claims :
            d[c].status = "reserved" /\ n[c] = IF k.op = "release" THEN Released ELSE Issued
       /\ DOMAIN n \cap Claims # {}
  BY <1>1, <1>2, <1>4
<1> QED
  BY <1>6, <1>7, <1>8, <1>9, <1>10 DEF CloseFacts

\* A statement that writes two rows writes one after the other.
LEMMA TwoWritten ==
  ASSUME WInv, NEW s \in Sessions, NEW a \in Rows, NEW b \in Rows, a # b, NEW put, DOMAIN put = {a, b},
         WriteAll(s, put), UNCHANGED ledger
  PROVE  \E n1, f1, n :
             /\ Wrote(mine[s], Over(mine[s], db), a, put[a], n1, f1)
             /\ Wrote(n1, f1, b, put[b], n, Over(n, db))
             /\ \A k : job' = [job EXCEPT ![s] = k] /\ k.op = job[s].op /\ Facts(k, n, db, ledger) => WInv'
<1> DEFINE m == mine[s]
           e == Over(m, db)
           one == [x \in {a} |-> put[a]]
           n1 == Over(one, m)
           f1 == Over(n1, db)
           n == Over(put, m)
           f == Over(n, db)
<1>1. DOMAIN one = {a} /\ one[a] = put[a] /\ e = Over(m, db) /\ n1 = Over(one, m) /\ f1 = Over(n1, db)
      /\ n = Over(put, m) /\ f = Over(n, db)
  OBVIOUS
<1>2. DOMAIN m \subseteq Rows /\ DOMAIN db = Rows
  BY SeenIs
<1> HIDE DEF one, n1, n, f1, f, e, m
<1>3. /\ DOMAIN n1 = DOMAIN m \cup {a} /\ n1[a] = put[a] /\ \A x \in DOMAIN m \ {a} : n1[x] = m[x]
      /\ DOMAIN n1 \subseteq Rows
  BY <1>1, <1>2 DEF Over
<1>4. /\ DOMAIN n = DOMAIN m \cup {a, b} /\ n[a] = put[a] /\ n[b] = put[b]
      /\ \A x \in DOMAIN m \ {a, b} : n[x] = m[x]
      /\ DOMAIN n \subseteq Rows
  BY <1>1, <1>2 DEF Over
<1>5. /\ \A x \in DOMAIN m : e[x] = m[x]
      /\ \A x \in Rows \ DOMAIN m : e[x] = db[x]
  BY <1>1, <1>2, OverIs
<1>6. /\ f1 = [x \in Rows |-> f1[x]]
      /\ \A x \in DOMAIN n1 : f1[x] = n1[x]
      /\ \A x \in Rows \ DOMAIN n1 : f1[x] = db[x]
  BY <1>1, <1>2, <1>3, OverIs
<1>7. /\ f = [x \in Rows |-> f[x]]
      /\ \A x \in DOMAIN n : f[x] = n[x]
      /\ \A x \in Rows \ DOMAIN n : f[x] = db[x]
  BY <1>1, <1>2, <1>4, OverIs
<1>8. Wrote(m, e, a, put[a], n1, f1)
  <2>1. ASSUME NEW x \in Rows \ {a} PROVE f1[x] = e[x]
    <3>1. CASE x \in DOMAIN m
      BY <1>3, <1>5, <1>6, <3>1
    <3>2. CASE x \notin DOMAIN m
      BY <1>3, <1>5, <1>6, <3>2
    <3> QED
      BY <3>1, <3>2
  <2>2. f1[a] = put[a]
    BY <1>3, <1>6
  <2> QED
    BY <1>3, <1>6, <2>1, <2>2 DEF Wrote
<1>9. Wrote(n1, f1, b, put[b], n, f)
  <2>1. DOMAIN n = DOMAIN n1 \cup {b} /\ \A x \in DOMAIN n1 \ {b} : n[x] = n1[x]
    BY <1>3, <1>4
  <2>2. ASSUME NEW x \in Rows \ {b} PROVE f[x] = f1[x]
    <3>1. CASE x \in DOMAIN n1
      BY <1>6, <1>7, <2>1, <3>1
    <3>2. CASE x \notin DOMAIN n1
      BY <1>6, <1>7, <2>1, <3>2
    <3> QED
      BY <3>1, <3>2
  <2>3. f[b] = put[b]
    BY <1>4, <1>7
  <2> QED
    BY <1>4, <1>7, <2>1, <2>2, <2>3 DEF Wrote
<1>10. ASSUME NEW k, job' = [job EXCEPT ![s] = k], k.op = job[s].op, Facts(k, n, db, ledger)
       PROVE  WInv'
  BY <1>1, <1>10, WriteGoesOn DEF m
<1> QED
  BY <1>1, <1>8, <1>9, <1>10 DEF m

\* What a job that is to lower a counter knows of it.
LEMMA Pending ==
  ASSUME StoreAssumption, NEW j, NEW m, NEW d, NEW e, e = Over(m, d), NEW l, View(j, m, e, l), Closes(j),
         DOMAIN m \subseteq Rows, RowsTyped(d), CloseFacts(j, m, d),
         NEW i, i = j.ids[IdAt(j)].item, i \in Items, NEW q \in Nat \ {0}, q = j.ids[IdAt(j)].qty,
         j.pc = "unreserve"
  PROVE  /\ e[i].reserved \in Nat /\ e[i].stock \in Nat /\ d[i].reserved \in Nat /\ d[i].stock \in Nat
         /\ q <= e[i].reserved /\ e[i].reserved <= e[i].stock /\ e[i].reserved <= d[i].reserved
         /\ j.op = "release" => e[i].stock = d[i].stock /\ (i \in Rolls => e[i].status = d[i].status)
         /\ j.op # "release" => /\ e[i].stock - d[i].stock = e[i].reserved - d[i].reserved
                                /\ i \in Rolls => (e[i].status = "quarantine" <=> d[i].status = "quarantine")
         /\ OnRow(j, m) = q /\ OnHeader(j, m) = 0 /\ OffHeader(j) = 0 /\ AtRow(j) = i
<1>1. OnRow(j, m) = q /\ OnHeader(j, m) = 0 /\ OffHeader(j) = 0 /\ AtRow(j) = i
  BY ClosePending
<1>2. RowsTyped(e) /\ Counted(e, i, q, 0, 0)
  BY <1>1 DEF View
<1>3. e[i].reserved = ClaimedIn(e, i) + q /\ ClaimedIn(e, i) \in Nat
  BY <1>2, SumsTyped DEF Counted
<1>4. e[i].reserved \in Nat /\ e[i].stock \in Nat /\ d[i].reserved \in Nat /\ d[i].stock \in Nat
      /\ e[i].reserved <= e[i].stock
  BY <1>2, Columns
<1>5. (i \in DOMAIN m => e[i] = m[i]) /\ (i \notin DOMAIN m => e[i] = d[i])
  <2>1. DOMAIN d = Rows /\ i \in Rows
    BY RowsApart, Columns
  <2> QED
    BY <2>1, OverIs
<1>6. CASE i \in DOMAIN m
  <2>1. m[i].reserved <= d[i].reserved
    BY <1>6 DEF CloseFacts
  <2>2. ASSUME j.op = "release" PROVE m[i].stock = d[i].stock /\ (i \in Rolls => m[i].status = d[i].status)
    BY <1>6, <2>2 DEF CloseFacts, Frees, SameShelf
  <2>3. ASSUME j.op # "release"
        PROVE  /\ m[i].stock - d[i].stock = m[i].reserved - d[i].reserved
               /\ i \in Rolls => (m[i].status = "quarantine" <=> d[i].status = "quarantine")
    <3>1. Cuts(j, m, d)
      BY <2>3 DEF CloseFacts
    <3>2. m[i].stock - d[i].stock = m[i].reserved - d[i].reserved + 0
      BY <1>6, <3>1 DEF Cuts
    <3>3. i \in Rolls => (m[i].status = "quarantine" <=> d[i].status = "quarantine")
      BY <1>6, <3>1 DEF Cuts
    <3> QED
      BY <1>4, <1>5, <1>6, <3>2, <3>3
  <2> QED
    BY <1>1, <1>3, <1>4, <1>5, <1>6, <2>1, <2>2, <2>3
<1>7. CASE i \notin DOMAIN m
  BY <1>1, <1>3, <1>4, <1>5, <1>7
<1> QED
  BY <1>6, <1>7

\* _release on a quantity-tracked material, and the movement of an issue.
LEMMA UnreserveTrimKeeps ==
  ASSUME StoreAssumption, WInv, NEW s \in Sessions, UnreserveTrim(s)
  PROVE  WInv'
<1> DEFINE j == job[s]
           m == mine[s]
           e == Over(m, db)
           c == IdAt(j)
           i == IdItem(s)
           q == IdQty(s)
           row == Freed(Seen(s, i), q)
           left == row.stock - q
           k1 == NextClaim(s, j)
           k2 == NextClaim(s, Booked(j, i, -q))
<1>1. At(s, CloseOps, "unreserve") /\ IdItem(s) \in Trims
  BY DEF UnreserveTrim
<1>2. /\ j.op \in {"issue", "release", "counter"} /\ j.pc = "unreserve" /\ Closes(j)
      /\ DOMAIN j = JobFields /\ j.posted \in [Items -> Int]
      /\ DOMAIN m \subseteq Rows /\ View(j, m, e, ledger) /\ RowsTyped(e) /\ RowsTyped(db)
      /\ CloseFacts(j, m, db)
      /\ Id(s) = c /\ i = j.ids[c].item /\ q = j.ids[c].qty
      /\ c \in DOMAIN j.ids /\ c \in Claims
      /\ i \in Items /\ i \in Rows /\ q \in Nat \ {0}
      /\ \A r : ~Empty(j, r)
  BY <1>1, ClosedAt
<1>3. i \in Trims /\ i \notin Rolls
  BY <1>1, <1>2, RowsApart
<1>4. Seen(s, i) = e[i]
  BY <1>2, SeenIs
<1>5. /\ e[i].reserved \in Nat /\ e[i].stock \in Nat /\ db[i].reserved \in Nat /\ db[i].stock \in Nat
      /\ q <= e[i].reserved /\ e[i].reserved <= e[i].stock /\ e[i].reserved <= db[i].reserved
      /\ j.op = "release" => e[i].stock = db[i].stock
      /\ j.op # "release" => e[i].stock - db[i].stock = e[i].reserved - db[i].reserved
      /\ OnRow(j, m) = q /\ OnHeader(j, m) = 0 /\ OffHeader(j) = 0 /\ AtRow(j) = i
  <2> HIDE DEF e, m, j
  <2> QED
    BY <1>2, Pending DEF e
<1>6. e[i] \in CountRow
  BY <1>2, <1>3 DEF RowsTyped
<1>7. row \in CountRow /\ row.reserved = e[i].reserved - q /\ row.stock = e[i].stock
  <2>1. row = Freed(e[i], q)
    BY <1>4
  <2> HIDE DEF row, e, i, q
  <2> QED
    BY <1>2, <1>5, <1>6, <2>1, FreedIs
<1>8. /\ j.op = "release" => Write(s, i, row) /\ job' = [job EXCEPT ![s] = k1] /\ UNCHANGED ledger
      /\ j.op # "release" /\ (left < 0 \/ left < row.reserved) => Abort(s)
      /\ j.op # "release" /\ ~(left < 0 \/ left < row.reserved) =>
           Write(s, i, [row EXCEPT !.stock = left]) /\ job' = [job EXCEPT ![s] = k2] /\ UNCHANGED ledger
  <2>1. IF j.op = "release"
        THEN Write(s, i, row) /\ job' = [job EXCEPT ![s] = k1] /\ UNCHANGED ledger
        ELSE IF left < 0 \/ left < row.reserved THEN Free(s, i) /\ Abort(s)
        ELSE /\ Write(s, i, [row EXCEPT !.stock = left])
             /\ job' = [job EXCEPT ![s] = k2] /\ UNCHANGED ledger
    BY DEF UnreserveTrim
  <2> HIDE DEF i, q, row, left, k1, k2
  <2>2. ASSUME j.op = "release"
        PROVE  Write(s, i, row) /\ job' = [job EXCEPT ![s] = k1] /\ UNCHANGED ledger
    BY <2>1, <2>2
  <2>3. ASSUME j.op # "release", left < 0 \/ left < row.reserved
        PROVE  Abort(s)
    BY <2>1, <2>3
  <2>4. ASSUME j.op # "release", ~(left < 0 \/ left < row.reserved)
        PROVE  Write(s, i, [row EXCEPT !.stock = left]) /\ job' = [job EXCEPT ![s] = k2] /\ UNCHANGED ledger
    BY <2>1, <2>4
  <2> QED
    BY <2>2, <2>3, <2>4
<1>9. CASE j.op # "release" /\ (left < 0 \/ left < row.reserved)
  BY <1>8, <1>9, AbortKeeps
<1>10. CASE j.op = "release" \/ ~(left < 0 \/ left < row.reserved)
  <2> DEFINE new == IF j.op = "release" THEN row ELSE [row EXCEPT !.stock = left]
             k == IF j.op = "release" THEN k1 ELSE k2
             a == -q
             b == IF j.op = "release" THEN 0 ELSE a
  <2>1. Write(s, i, new) /\ job' = [job EXCEPT ![s] = k] /\ UNCHANGED ledger
    BY <1>8, <1>10
  <2>2. new \in CountRow /\ new.reserved = e[i].reserved + a /\ new.stock = e[i].stock + b
        /\ new.reserved <= new.stock
    <3>1. CASE j.op = "release"
      <4>1. new = row /\ b = 0 /\ a = -q
        BY <3>1
      <4> HIDE DEF row, new, a, b, e, i, q
      <4> QED
        BY <1>2, <1>5, <1>7, <4>1
    <3>2. CASE j.op # "release"
      <4>1. left \in Nat /\ row.reserved <= left /\ left = e[i].stock + (-q)
        <5>1. ~(left < 0 \/ left < row.reserved)
          BY <1>10, <3>2
        <5> HIDE DEF row, e, i, q
        <5>2. /\ row.reserved = e[i].reserved - q /\ row.stock = e[i].stock
              /\ e[i].reserved \in Nat /\ e[i].stock \in Nat /\ q \in Nat /\ q <= e[i].reserved
          BY <1>2, <1>5, <1>7
        <5> QED
          BY <5>1, <5>2
      <4>2. [row EXCEPT !.stock = left] \in CountRow /\ [row EXCEPT !.stock = left].stock = left
            /\ [row EXCEPT !.stock = left].reserved = row.reserved
        <5> HIDE DEF row, left
        <5> QED
          BY <1>7, <4>1 DEF CountRow
      <4>3. new = [row EXCEPT !.stock = left] /\ b = -q /\ a = -q
        BY <3>2
      <4> HIDE DEF row, left, new, a, b, e, i, q
      <4> QED
        BY <1>2, <1>5, <1>7, <4>1, <4>2, <4>3
    <3> QED
      BY <3>1, <3>2
  <2>3. PICK n : /\ Wrote(m, e, i, new, n, Over(n, db))
                 /\ \A y : job' = [job EXCEPT ![s] = y] /\ y.op = j.op /\ Facts(y, n, db, ledger) => WInv'
    <3> HIDE DEF new, k
    <3> QED
      BY <1>2, <2>1, OneWritten
  <2> DEFINE f == Over(n, db)
  <2>4. Wrote(m, e, i, new, n, f)
    BY <2>3
  <2>5. /\ DOMAIN k = JobFields /\ k.op = j.op /\ k.pc \in {"claim", "commit"}
        /\ DOMAIN k.ids = DOMAIN j.ids \ {c} /\ \A x \in DOMAIN k.ids : k.ids[x] = j.ids[x]
        /\ k.pc = "claim" => DOMAIN k.ids # {}
        /\ Closes(k) /\ OnRow(k, n) = 0 /\ OnHeader(k, n) = 0 /\ OffHeader(k) = 0
        /\ k.posted \in [Items -> Int]
        /\ k.posted[i] = j.posted[i] + b /\ \A y \in Items \ {i} : k.posted[y] = j.posted[y]
        /\ j.op = "release" => k.posted = j.posted
    <3> DEFINE g == IF j.op = "release" THEN j ELSE Booked(j, i, a)
    <3>1. k = NextClaim(s, g) /\ a \in Int
      BY <1>2
    <3>2. /\ DOMAIN g = JobFields /\ g.op = j.op /\ g.ids = j.ids /\ Closes(g) /\ g.posted \in [Items -> Int]
          /\ g.posted[i] = j.posted[i] + b /\ \A y \in Items \ {i} : g.posted[y] = j.posted[y]
          /\ j.op = "release" => g.posted = j.posted
      <4> HIDE DEF i, q, c
      <4>1. CASE j.op = "release"
        <5>1. g = j /\ b = 0 /\ j.posted[i] \in Int
          BY <1>2, <4>1
        <5> HIDE DEF g, b
        <5> QED
          BY <1>2, <5>1
      <4>2. CASE j.op # "release"
        <5>1. g = Booked(j, i, a) /\ b = a
          BY <4>2
        <5>2. Postable(j, i, a)
          BY <1>2 DEF Postable
        <5> HIDE DEF g, b, a, j
        <5>3. /\ DOMAIN g = JobFields /\ g.op = j.op /\ g.ids = j.ids /\ Closes(g) /\ g.posted \in [Items -> Int]
              /\ g.posted[i] = j.posted[i] + a /\ \A y \in Items \ {i} : g.posted[y] = j.posted[y]
          BY <5>1, <5>2, BookedIs
        <5> QED
          BY <4>2, <5>1, <5>3
      <4> QED
        BY <4>1, <4>2
    <3>3. IdAt(g) = c
      BY <3>2 DEF IdAt
    <3> HIDE DEF k, g, c, i, q
    <3>4. /\ DOMAIN k = JobFields /\ k.op = g.op /\ k.posted = g.posted /\ k.pc \in {"claim", "commit"}
          /\ k.pc = "claim" => DOMAIN k.ids # {}
          /\ Closes(k) /\ OnRow(k, n) = 0 /\ OnHeader(k, n) = 0 /\ OffHeader(k) = 0
      BY <1>2, <3>1, <3>2, <3>3, NextClaimIs
    <3>5. DOMAIN k.ids = DOMAIN g.ids \ {IdAt(g)} /\ \A x \in DOMAIN k.ids : k.ids[x] = g.ids[x]
      BY <1>2, <3>1, <3>2, <3>3, NextClaimIs
    <3> QED
      BY <3>2, <3>3, <3>4, <3>5
  <2>6. a \in Int /\ b \in Int /\ a = -q /\ b = IF j.op = "release" THEN 0 ELSE a
    BY <1>2
  <2> HIDE DEF k, e, f, new, b, a, i, q, c
  <2>7. DOMAIN n = DOMAIN m \cup {i} /\ DOMAIN n \subseteq Rows /\ n[i] = new /\ \A y \in DOMAIN m \ {i} : n[y] = m[y]
    BY <2>4 DEF Wrote
  <2>8. View(k, n, f, ledger)
    <3>1. /\ OnRow(k, n) = OnRow(j, m) + a
          /\ OnHeader(k, n) = OnHeader(j, m) /\ OffHeader(k) = OffHeader(j)
          /\ OnRow(j, m) \in Int /\ OnHeader(j, m) \in Int /\ OffHeader(j) \in Int
      <4>1. OnRow(k, n) = 0 /\ OnHeader(k, n) = 0 /\ OffHeader(k) = 0
        BY <2>5
      <4>2. OnRow(j, m) = q /\ OnHeader(j, m) = 0 /\ OffHeader(j) = 0
        BY <1>5
      <4>3. a = -q /\ q \in Int
        BY <1>2, <2>6
      <4> QED
        BY <4>1, <4>2, <4>3
    <3>2. ledger \in [Items -> Int]
      BY Committed
    <3>3. /\ View(j, m, e, ledger) /\ i \in Items /\ j.posted \in [Items -> Int]
          /\ OnRow(j, m) = 0 \/ AtRow(j) = i
          /\ OnRow(k, n) = 0 \/ AtRow(k) = i
          /\ \A r \in Rolls : ~Empty(j, r)
          /\ k.posted[i] = j.posted[i] + b /\ \A y \in Items \ {i} : k.posted[y] = j.posted[y]
      BY <1>2, <1>5, <2>5
    <3> HIDE DEF m, j
    <3>20. ItemWritten(j, m, e, ledger, i, new, n, f, a, b, k)
      BY <1>3, <2>2, <2>4, <2>6, <3>1, <3>2, <3>3, SMTT(60) DEF ItemWritten
    <3> QED
      BY <3>20, ItemView
  <2>9. CloseFacts(k, n, db)
    <3> DEFINE d == db[i]
    <3>0. /\ e[i].reserved \in Nat /\ e[i].stock \in Nat /\ d.reserved \in Nat /\ d.stock \in Nat
          /\ q \in Nat /\ e[i].reserved <= d.reserved
          /\ j.op = "release" => e[i].stock = d.stock
          /\ j.op # "release" => e[i].stock - d.stock = e[i].reserved - d.reserved
      BY <1>2, <1>5
    <3>1. /\ new.reserved <= d.reserved /\ new.stock \in Int /\ new.reserved \in Int
          /\ j.op = "release" => new.stock = d.stock
          /\ j.op # "release" => new.stock - d.stock = new.reserved - d.reserved
      <4> HIDE DEF j, m, d
      <4> QED
        BY <2>2, <2>6, <3>0
    <3>2. j.op = "release" => n[i].stock = db[i].stock /\ k.posted = NoPosting
      <4>1. j.op = "release" => j.posted = NoPosting
        BY <1>2 DEF CloseFacts, Frees
      <4> QED
        BY <2>5, <2>7, <3>1, <4>1
    <3>3. /\ j.op # "release" => n[i].stock - db[i].stock = n[i].reserved - db[i].reserved
          /\ n[i].reserved <= db[i].reserved /\ n[i].stock \in Int /\ db[i].stock \in Int
          /\ n[i].reserved \in Int /\ db[i].reserved \in Int
      BY <2>7, <3>0, <3>1
    <3>4. \A x \in (Items \cup Claims) \ {i} : x \in DOMAIN m => n[x] = m[x]
      BY <2>7
    <3>5. i = j.ids[IdAt(j)].item
      BY <1>2 DEF c
    <3>6. DOMAIN k.ids = DOMAIN j.ids \ {IdAt(j)}
      BY <2>5 DEF c
    <3> QED
      BY <1>2, <1>3, <2>5, <2>7, <3>2, <3>3, <3>4, <3>5, <3>6, NextFacts
  <2>10. Facts(k, n, db, ledger)
    <3>1. k.op = "release" => k.pc # "held"
      BY <2>5
    <3> QED
      BY <2>5, <2>7, <2>8, <2>9, <3>1, CloseGoesOn DEF f
  <2> QED
    BY <2>1, <2>3, <2>5, <2>10
<1> QED
  BY <1>9, <1>10

\* _release on a roll.
LEMMA UnreserveRollKeeps ==
  ASSUME StoreAssumption, WInv, NEW s \in Sessions, UnreserveRoll(s)
  PROVE  WInv'
<1> DEFINE j == job[s]
           m == mine[s]
           e == Over(m, db)
           d == db
           c == IdAt(j)
           i == IdItem(s)
           q == IdQty(s)
           new == Freed(Seen(s, i), q)
           k == [j EXCEPT !.pc = "header"]
           a == -q
           b == 0
<1>1. /\ At(s, CloseOps, "unreserve") /\ i \in Rolls /\ UNCHANGED ledger
      /\ Write(s, i, new) /\ job' = [job EXCEPT ![s] = k]
  BY DEF UnreserveRoll, Goto
<1>2. /\ j.op \in {"issue", "release", "counter"} /\ j.pc = "unreserve" /\ Closes(j)
      /\ DOMAIN j = JobFields /\ j.posted \in [Items -> Int]
      /\ DOMAIN m \subseteq Rows /\ View(j, m, e, ledger) /\ RowsTyped(e) /\ RowsTyped(d)
      /\ CloseFacts(j, m, d)
      /\ i = j.ids[c].item /\ q = j.ids[c].qty
      /\ c \in DOMAIN j.ids /\ c \in Claims
      /\ i \in Items /\ i \in Rows /\ q \in Nat \ {0}
      /\ \A r : ~Empty(j, r)
  BY <1>1, ClosedAt
<1>3. Seen(s, i) = e[i] /\ e = Over(m, d)
  BY <1>2, SeenIs
<1>4. /\ e[i].reserved \in Nat /\ e[i].stock \in Nat /\ d[i].reserved \in Nat /\ d[i].stock \in Nat
      /\ q <= e[i].reserved /\ e[i].reserved <= e[i].stock /\ e[i].reserved <= d[i].reserved
      /\ j.op = "release" => e[i].stock = d[i].stock /\ e[i].status = d[i].status
      /\ j.op # "release" => /\ e[i].stock - d[i].stock = e[i].reserved - d[i].reserved
                             /\ e[i].status = "quarantine" <=> d[i].status = "quarantine"
      /\ OnRow(j, m) = q /\ OnHeader(j, m) = 0 /\ OffHeader(j) = 0 /\ AtRow(j) = i
  <2> HIDE DEF e, m, j, d, i, q
  <2> QED
    BY <1>1, <1>2, <1>3, Pending
<1>5. e[i] \in RollRow
  BY <1>1, <1>2 DEF RowsTyped
<1>6. new \in RollRow /\ new.reserved = e[i].reserved - q /\ new.stock = e[i].stock /\ new.status = e[i].status
  <2>1. new = Freed(e[i], q)
    BY <1>3
  <2> HIDE DEF new, e, i, q
  <2> QED
    BY <1>2, <1>4, <1>5, <2>1, FreedIs
<1>7. PICK n : /\ Wrote(m, e, i, new, n, Over(n, db))
               /\ \A y : job' = [job EXCEPT ![s] = y] /\ y.op = j.op /\ Facts(y, n, db, ledger) => WInv'
  <2> HIDE DEF new, k
  <2> QED
    BY <1>1, <1>2, OneWritten
<1> DEFINE f == Over(n, db)
<1>8. Wrote(m, e, i, new, n, f)
  BY <1>7
<1>9. DOMAIN k = JobFields /\ k.op = j.op /\ k.pc = "header" /\ k.ids = j.ids /\ k.posted = j.posted
  BY <1>2, GotoIs
<1>10. IdAt(k) = c
  BY <1>9 DEF IdAt
<1>11. a \in Int /\ b \in Int /\ a = -q /\ b = 0
  BY <1>2
<1> HIDE DEF k, e, f, new, a, b, i, q, c
<1>12. Closes(k)
  BY <1>2, <1>9 DEF Closes, Closing
<1>13. OnRow(k, n) = 0 /\ OnHeader(k, n) = q /\ OffHeader(k) = 0
  BY <1>2, <1>9, <1>10, <1>12, ClosePending
<1>14. DOMAIN n = DOMAIN m \cup {i} /\ DOMAIN n \subseteq Rows /\ n[i] = new /\ \A y \in DOMAIN m \ {i} : n[y] = m[y]
  BY <1>8 DEF Wrote
<1>15. View(k, n, f, ledger)
  <2>1. /\ new.reserved = e[i].reserved + a /\ new.stock = e[i].stock + b /\ new.reserved <= new.stock
        /\ OnRow(k, n) = OnRow(j, m) + a
        /\ OnHeader(k, n) = OnHeader(j, m) - a /\ OffHeader(k) = OffHeader(j) - b
        /\ OnRow(j, m) \in Int /\ OnHeader(j, m) \in Int /\ OffHeader(j) \in Int
    BY <1>2, <1>4, <1>6, <1>11, <1>13
  <2>2. Tells(new, Length[i])
    <3>1. Tells(e[i], Length[i])
      BY <1>1, <1>2 DEF View
    <3>2. e[i] # NoRoll
      BY <1>2, <1>4 DEF NoRoll
    <3> QED
      BY <1>6, <3>1, <3>2 DEF Tells
  <2>3. ledger \in [Items -> Int] /\ i \notin Trims
    BY <1>1, Committed, RowsApart
  <2>4. k.posted[i] = j.posted[i] + b /\ \A y \in Items \ {i} : k.posted[y] = j.posted[y]
    BY <1>2, <1>9, <1>11
  <2>5. View(j, m, e, ledger) /\ i \in Items /\ j.posted \in [Items -> Int] /\ AtRow(j) = i
        /\ \A r \in Rolls : ~Empty(j, r)
    BY <1>2, <1>4
  <2>6. a \in Int /\ b \in Int /\ i \in Rolls /\ new \in RollRow /\ OnRow(k, n) = 0
    BY <1>1, <1>6, <1>11, <1>13
  <2> HIDE DEF m, j
  <2>20. ItemWritten(j, m, e, ledger, i, new, n, f, a, b, k)
    BY <1>8, <2>1, <2>2, <2>3, <2>4, <2>5, <2>6, SMTT(60) DEF ItemWritten
  <2> QED
    BY <2>20, ItemView
<1>16. CloseFacts(k, n, d)
  <2> HIDE DEF d
  <2>1. /\ DOMAIN j.ids \subseteq Claims
        /\ \A x \in DOMAIN j.ids :
             /\ j.ids[x].item \in Items /\ j.ids[x].qty \in Nat \ {0}
             /\ d[x] # NoClaim
             /\ d[x].status = "reserved" => d[x].item = j.ids[x].item /\ d[x].qty = j.ids[x].qty
        /\ \A x \in DOMAIN m \cap Claims :
             d[x].status = "reserved" /\ m[x] = IF j.op = "release" THEN Released ELSE Issued
        /\ \A y \in DOMAIN m \cap Items : m[y].reserved <= d[y].reserved
        /\ DOMAIN j.ids # {} /\ c \in DOMAIN m
        /\ IF j.op = "release" THEN Frees(j, m, d) ELSE Cuts(j, m, d)
    BY <1>2 DEF CloseFacts, c
  <2>2. i \notin Claims
    BY <1>2, RowsApart
  <2>3. DOMAIN n \cap Claims = DOMAIN m \cap Claims /\ \A x \in DOMAIN n \cap Claims : n[x] = m[x]
    BY <1>14, <2>2
  <2>4. \A y \in DOMAIN n \cap Items : y = i \/ (y \in DOMAIN m /\ n[y] = m[y])
    BY <1>14
  <2>5. /\ new.reserved <= d[i].reserved
        /\ j.op # "release" => new.stock - d[i].stock = new.reserved - d[i].reserved + q
    <3> DEFINE di == d[i]
               ei == e[i]
    <3>1. /\ ei.reserved \in Nat /\ ei.stock \in Nat /\ di.reserved \in Nat /\ di.stock \in Nat /\ q \in Nat
          /\ ei.reserved <= di.reserved
          /\ j.op # "release" => ei.stock - di.stock = ei.reserved - di.reserved
          /\ new.reserved = ei.reserved - q /\ new.stock = ei.stock
      BY <1>2, <1>4, <1>6
    <3> HIDE DEF di, ei, j
    <3>2. new.reserved <= di.reserved /\ (j.op # "release" => new.stock - di.stock = new.reserved - di.reserved + q)
      BY <3>1
    <3> QED
      BY <3>2 DEF di
  <2>6. \A y \in DOMAIN n \cap Items : n[y].reserved <= d[y].reserved
    BY <1>14, <2>1, <2>4, <2>5
  <2>7. ASSUME j.op = "release" PROVE Frees(k, n, d)
    <3>1. Frees(j, m, d)
      BY <2>1, <2>7
    <3>2. SameShelf(n, d)
      <4>1. SameShelf(m, d)
        BY <3>1 DEF Frees
      <4>2. \A y \in DOMAIN n \cap Items : n[y].stock = d[y].stock
        BY <1>4, <1>6, <1>14, <2>4, <2>7, <4>1 DEF SameShelf
      <4>3. \A y \in DOMAIN n \cap Rolls : n[y].status = d[y].status
        BY <1>4, <1>6, <1>14, <2>4, <2>7, <4>1, RowsApart DEF SameShelf
      <4> QED
        BY <4>2, <4>3 DEF SameShelf
    <3>3. \E x \in Claims : DOMAIN n \cap Claims \subseteq {x} /\ DOMAIN k.ids \subseteq {x}
      BY <1>9, <2>3, <3>1 DEF Frees
    <3>4. k.posted = NoPosting
      BY <1>9, <3>1 DEF Frees
    <3> QED
      BY <3>2, <3>3, <3>4 DEF Frees
  <2>8. ASSUME j.op # "release" PROVE Cuts(k, n, d)
    <3>1. Cuts(j, m, d)
      BY <2>1, <2>8
    <3>2. k.ids[IdAt(k)].item = i /\ k.ids[IdAt(k)].qty = q
      BY <1>2, <1>9, <1>10
    <3>3. ASSUME NEW y \in DOMAIN n \cap Items
          PROVE  n[y].stock - d[y].stock = n[y].reserved - d[y].reserved
                     + (IF k.pc = "header" /\ y = k.ids[IdAt(k)].item THEN k.ids[IdAt(k)].qty ELSE 0)
      <4>1. CASE y = i
        BY <1>9, <1>14, <2>5, <2>8, <3>2, <4>1
      <4>2. CASE y # i
        <5>1. y \in DOMAIN m /\ n[y] = m[y]
          BY <2>4, <4>2
        <5>2. m[y].stock - d[y].stock = m[y].reserved - d[y].reserved + 0
          BY <1>2, <3>1, <5>1 DEF Cuts
        <5> QED
          BY <3>2, <4>2, <5>1, <5>2
      <4> QED
        BY <4>1, <4>2
    <3>4. ASSUME NEW y \in DOMAIN n \cap Rolls PROVE n[y].status = "quarantine" <=> d[y].status = "quarantine"
      <4>1. CASE y = i
        BY <1>4, <1>6, <1>14, <2>8, <4>1
      <4>2. CASE y # i
        <5>1. y \in DOMAIN m /\ n[y] = m[y]
          BY <2>4, <4>2, RowsApart
        <5> QED
          BY <3>1, <5>1 DEF Cuts
      <4> QED
        BY <4>1, <4>2
    <3>5. \A x \in DOMAIN n \cap Claims : d[x].item \in Rolls => d[d[x].item].status # "quarantine"
      BY <1>2, <2>3, <3>1 DEF Cuts
    <3> QED
      BY <3>3, <3>4, <3>5 DEF Cuts
  <2>9. \A x \in DOMAIN n \cap Claims :
           d[x].status = "reserved" /\ n[x] = IF k.op = "release" THEN Released ELSE Issued
    BY <1>9, <2>1, <2>3
  <2>10. c \in DOMAIN n /\ k.ids[IdAt(k)].item \in DOMAIN n \cap Rolls
    BY <1>1, <1>2, <1>9, <1>10, <1>14, <2>1
  <2> QED
    BY <1>9, <1>10, <2>1, <2>6, <2>7, <2>8, <2>9, <2>10 DEF CloseFacts
<1>17. Facts(k, n, db, ledger)
  <2>1. k.op = "release" => k.pc # "held"
    BY <1>9
  <2> QED
    BY <1>2, <1>9, <1>12, <1>14, <1>15, <1>16, <2>1, CloseGoesOn DEF f
<1> QED
  BY <1>1, <1>7, <1>9, <1>17

\* A session writes a roll and the header at once, both by q in stock.
BothWritten(j, m, e, l, i, v, w, n1, f1, n, f, q, k) ==
    /\ View(j, m, e, l) /\ l \in [Items -> Int] /\ j.posted \in [Items -> Int]
    /\ i \in Rolls /\ v \in RollRow /\ w \in CountRow /\ q \in Int
    /\ Wrote(m, e, i, v, n1, f1) /\ Wrote(n1, f1, Header, w, n, f)
    /\ v.reserved = e[i].reserved /\ v.stock = e[i].stock + q /\ v.reserved <= v.stock
    /\ Tells(v, Length[i])
    /\ OnRow(j, m) = 0 /\ OffHeader(j) = 0 /\ OnHeader(j, m) \in Int
    /\ w.reserved = e[Header].reserved - OnHeader(j, m) /\ w.stock = e[Header].stock + q
    /\ OnRow(k, n) = 0 /\ OnHeader(k, n) = 0 /\ OffHeader(k) = 0
    /\ k.posted[i] = j.posted[i] + q /\ \A y \in Items \ {i} : k.posted[y] = j.posted[y]
    /\ \A r \in Rolls : ~Empty(j, r)

\* The view of a session that writes a roll and the header, both by q in stock.
LEMMA RollAndHeaderView ==
  ASSUME StoreAssumption, NEW j, NEW m, NEW e, NEW l, NEW i, NEW v, NEW w, NEW n1, NEW f1, NEW n, NEW f, NEW q, NEW k,
         BothWritten(j, m, e, l, i, v, w, n1, f1, n, f, q, k)
  PROVE  View(k, n, f, l)
<1> USE DEF BothWritten
<1> DEFINE h == OnHeader(j, m)
           x == AtRow(j)
           z == 0
           p == -q
<1>1. /\ RowsTyped(e) /\ Counted(e, x, z, h, z)
      /\ \A r \in Rolls : Tells(e[r], Length[r])
      /\ \A y \in Items : e[y].stock = l[y] + j.posted[y]
  BY DEF View
<1>2. /\ f1[i] = v /\ f1 = [y \in Rows |-> f1[y]] /\ \A y \in Rows \ {i} : f1[y] = e[y]
      /\ f[Header] = w /\ f = [y \in Rows |-> f[y]] /\ \A y \in Rows \ {Header} : f[y] = f1[y]
  BY DEF Wrote
<1>3. i \in Items /\ i \in Rows /\ Header \in Rows /\ i # Header /\ i \notin Trims /\ i \notin Claims
      /\ Header \notin Rolls /\ Header \notin Claims /\ Header \notin Items
  BY RowsApart
<1>4. RowsTyped(f1)
  BY <1>1, <1>2, <1>3, OneRowTyped
<1>5. RowsTyped(f)
  BY <1>2, <1>3, <1>4, OneRowTyped
<1>6. f1[Header] = e[Header] /\ e[Header].reserved \in Nat /\ e[Header].stock \in Nat
      /\ e[i].reserved \in Nat /\ e[i].stock \in Nat
  BY <1>1, <1>2, <1>3, Columns
<1>7. h \in Int /\ z \in Int /\ p \in Int /\ z = 0 /\ p = -q
  OBVIOUS
<1>8. w.reserved = e[Header].reserved - h
  OBVIOUS
<1> HIDE DEF h, x, z, p
<1>9. Counted(f1, i, z + z, h - z, z - q)
  <2>1. f1[i].reserved = e[i].reserved + z /\ f1[i].stock = e[i].stock + q
    BY <1>2, <1>6, <1>7
  <2>2. Counted(f1, i, z + z, IF i \in Rolls THEN h - z ELSE h, IF i \in Rolls THEN z - q ELSE z)
    BY <1>1, <1>2, <1>3, <1>7, <2>1, ItemCounted
  <2> QED
    BY <2>2
<1>10. Counted(f1, i, z, h, p)
  <2>1. z + z = z /\ h - z = h /\ z - q = p
    BY <1>7
  <2> QED
    BY <1>9, <2>1
<1> DEFINE g == -h
<1>11. g \in Int /\ g = -h
  BY <1>7
<1> HIDE DEF g
<1>12. Counted(f, i, z, h + g, p + q)
  <2>1. f[Header].reserved = f1[Header].reserved + g /\ f[Header].stock = f1[Header].stock + q
    BY <1>2, <1>6, <1>7, <1>8, <1>11
  <2> QED
    BY <1>2, <1>4, <1>7, <1>10, <1>11, <2>1, HeaderCounted
<1>13. Counted(f, AtRow(k), OnRow(k, n), OnHeader(k, n), OffHeader(k))
  <2>1. h + g = 0 /\ p + q = 0 /\ z = 0
    BY <1>7, <1>11
  <2>2. Counted(f, i, 0, 0, 0)
    BY <1>12, <2>1
  <2> QED
    BY <2>2 DEF Counted
<1>14. ASSUME NEW r \in Rolls PROVE Tells(f[r], Length[r])
  BY <1>1, <1>2, <1>3, RowsApart
<1>15. ASSUME NEW y \in Items PROVE f[y].stock = l[y] + k.posted[y]
  <2>1. e[y].stock = l[y] + j.posted[y] /\ l[y] \in Int /\ j.posted[y] \in Int
    BY <1>1
  <2>2. CASE y = i
    BY <1>2, <1>3, <2>1, <2>2
  <2>3. CASE y # i
    <3>1. f[y] = e[y]
      BY <1>2, <1>3, <2>3, RowsApart
    <3> QED
      BY <2>1, <2>3, <3>1
  <2> QED
    BY <2>2, <2>3
<1> QED
  BY <1>5, <1>13, <1>14, <1>15 DEF View

\* The header is told, and an issue moves roll and header.
LEMMA UnreserveHeaderKeeps ==
  ASSUME StoreAssumption, WInv, NEW s \in Sessions, UnreserveHeader(s)
  PROVE  WInv'
<1> DEFINE j == job[s]
           m == mine[s]
           e == Over(m, db)
           d == db
           c == IdAt(j)
           i == IdItem(s)
           q == IdQty(s)
           hdr == Freed(Seen(s, Header), q)
           row == Seen(s, i)
           left == row.stock - q
           to == RollStatus(row.status, left, Length[i])
           v == [row EXCEPT !.stock = left, !.status = to]
           w == [hdr EXCEPT !.stock = @ - q]
           put == [x \in {Header, i} |-> IF x = Header THEN w ELSE v]
           p == -q
           k1 == NextClaim(s, j)
           k2 == NextClaim(s, Booked(j, i, p))
<1>1. At(s, CloseOps, "header")
  BY DEF UnreserveHeader
<1>2. /\ j.op \in {"issue", "release", "counter"} /\ j.pc = "header" /\ Closes(j)
      /\ DOMAIN j = JobFields /\ j.posted \in [Items -> Int]
      /\ DOMAIN m \subseteq Rows /\ View(j, m, e, ledger) /\ RowsTyped(e) /\ RowsTyped(d)
      /\ CloseFacts(j, m, d)
      /\ i = j.ids[c].item /\ q = j.ids[c].qty
      /\ c \in DOMAIN j.ids /\ c \in Claims
      /\ i \in Items /\ i \in Rows /\ q \in Nat \ {0}
      /\ \A r : ~Empty(j, r)
  BY <1>1, ClosedAt
<1>3. Seen(s, i) = e[i] /\ Seen(s, Header) = e[Header] /\ e = Over(m, d)
  BY <1>2, SeenIs, RowsApart
<1>4. i \in Rolls /\ i \in DOMAIN m
  <2> HIDE DEF i, d, m, j
  <2> QED
    BY <1>2 DEF CloseFacts, c
<1>5. e[i] = m[i] /\ i # Header /\ i \notin Claims /\ Header \in Rows /\ Header \notin Items /\ Header \notin Claims
  BY <1>2, <1>4, SeenIs, RowsApart
<1>6. /\ e[i].reserved \in Nat /\ e[i].stock \in Nat /\ d[i].reserved \in Nat /\ d[i].stock \in Nat
      /\ e[Header].reserved \in Nat /\ e[Header].stock \in Nat
      /\ e[i] \in RollRow /\ e[Header] \in CountRow /\ e[i].reserved <= e[i].stock
  <2>1. e[i] \in RollRow /\ e[Header] \in CountRow
    BY <1>2, <1>4 DEF RowsTyped
  <2> QED
    BY <1>2, <2>1, Columns
<1>7. OnRow(j, m) = 0 /\ OnHeader(j, m) = q /\ OffHeader(j) = 0
  BY <1>2, ClosePending
<1>8. q <= e[Header].reserved
  <2>1. e[Header].reserved = RollsReserved(e) + q /\ RollsReserved(e) \in Nat
    BY <1>2, <1>7, SumsTyped DEF View, Counted
  <2> HIDE DEF e, q
  <2> QED
    BY <1>2, <1>6, <2>1
<1>9. /\ e[i].reserved <= d[i].reserved
      /\ j.op = "release" => e[i].stock = d[i].stock /\ e[i].status = d[i].status /\ j.posted = NoPosting
      /\ j.op # "release" => /\ e[i].stock - d[i].stock = e[i].reserved - d[i].reserved + q
                             /\ e[i].status = "quarantine" <=> d[i].status = "quarantine"
  <2>1. e[i].reserved <= d[i].reserved
    BY <1>2, <1>4, <1>5 DEF CloseFacts
  <2>2. ASSUME j.op = "release"
        PROVE  e[i].stock = d[i].stock /\ e[i].status = d[i].status /\ j.posted = NoPosting
    BY <1>2, <1>4, <1>5, <2>2 DEF CloseFacts, Frees, SameShelf
  <2>3. ASSUME j.op # "release"
        PROVE  /\ e[i].stock - d[i].stock = e[i].reserved - d[i].reserved + q
               /\ e[i].status = "quarantine" <=> d[i].status = "quarantine"
    <3>1. Cuts(j, m, d)
      BY <1>2, <2>3 DEF CloseFacts
    <3> HIDE DEF i, q, e, d, m, j
    <3>2. m[i].stock - d[i].stock = m[i].reserved - d[i].reserved + q
      BY <1>2, <1>4, <3>1 DEF Cuts, c
    <3>3. m[i].status = "quarantine" <=> d[i].status = "quarantine"
      BY <1>4, <3>1 DEF Cuts
    <3> QED
      BY <1>5, <3>2, <3>3
  <2> QED
    BY <2>1, <2>2, <2>3
<1>10. /\ hdr \in CountRow /\ hdr.reserved = e[Header].reserved + p /\ hdr.stock = e[Header].stock /\ p \in Int
       /\ hdr.reserved = e[Header].reserved - q
  <2>1. hdr = Freed(e[Header], q) /\ p = -q
    BY <1>3
  <2> HIDE DEF hdr, e, q, p
  <2>2. hdr \in CountRow /\ hdr.reserved = e[Header].reserved - q /\ hdr.stock = e[Header].stock
    BY <1>2, <1>6, <1>8, <2>1, FreedIs
  <2> QED
    BY <1>2, <1>6, <2>1, <2>2
<1>11. IF j.op = "release"
       THEN Write(s, Header, hdr) /\ job' = [job EXCEPT ![s] = k1] /\ UNCHANGED ledger
       ELSE IF left < 0 \/ hdr.stock < q \/ left < row.reserved THEN Free(s, Header) /\ Abort(s)
       ELSE /\ WriteAll(s, put)
            /\ job' = [job EXCEPT ![s] = k2] /\ UNCHANGED ledger
  BY DEF UnreserveHeader
<1>12. ledger \in [Items -> Int]
  BY Committed
<1>13. CASE j.op # "release" /\ (left < 0 \/ hdr.stock < q \/ left < row.reserved)
  <2> HIDE DEF i, q, hdr, row, left, k1, k2, put
  <2> QED
    BY <1>11, <1>13, AbortKeeps
<1>14. CASE j.op = "release"
  <2>1. Write(s, Header, hdr) /\ job' = [job EXCEPT ![s] = k1] /\ UNCHANGED ledger
    BY <1>11, <1>14
  <2>2. PICK n : /\ Wrote(m, e, Header, hdr, n, Over(n, db))
                 /\ \A y : job' = [job EXCEPT ![s] = y] /\ y.op = j.op /\ Facts(y, n, db, ledger) => WInv'
    <3> HIDE DEF hdr, k1
    <3> QED
      BY <1>5, <2>1, OneWritten
  <2> DEFINE f == Over(n, db)
             b == 0
  <2>3. Wrote(m, e, Header, hdr, n, f) /\ k1 = NextClaim(s, j) /\ b \in Int /\ b = 0
    BY <2>2
  <2> HIDE DEF k1, f, e, hdr, i, q, c, p, b, d
  <2>4. /\ DOMAIN k1 = JobFields /\ k1.op = j.op /\ k1.posted = j.posted /\ k1.pc \in {"claim", "commit"}
        /\ k1.pc = "claim" => DOMAIN k1.ids # {}
        /\ Closes(k1) /\ OnRow(k1, n) = 0 /\ OnHeader(k1, n) = 0 /\ OffHeader(k1) = 0
    BY <1>2, <2>3, NextClaimIs DEF c
  <2>5. DOMAIN k1.ids = DOMAIN j.ids \ {IdAt(j)} /\ \A x \in DOMAIN k1.ids : k1.ids[x] = j.ids[x]
    BY <1>2, <2>3, NextClaimIs DEF c
  <2>6. DOMAIN n = DOMAIN m \cup {Header} /\ DOMAIN n \subseteq Rows /\ \A y \in DOMAIN m \ {Header} : n[y] = m[y]
    BY <2>3 DEF Wrote
  <2>7. View(k1, n, f, ledger)
    <3>1. /\ hdr.stock = e[Header].stock + b /\ OnHeader(k1, n) = OnHeader(j, m) + p
          /\ OffHeader(k1) = OffHeader(j) + b /\ OnRow(k1, n) = OnRow(j, m)
          /\ OnRow(j, m) \in Int /\ OnHeader(j, m) \in Int /\ OffHeader(j) \in Int /\ OnRow(j, m) = 0
      BY <1>2, <1>6, <1>7, <1>10, <2>3, <2>4 DEF p
    <3>2. View(j, m, e, ledger) /\ hdr \in CountRow /\ p \in Int /\ hdr.reserved = e[Header].reserved + p
          /\ \A r \in Rolls : ~Empty(j, r)
      BY <1>2, <1>10
    <3>3. \A y \in Items : k1.posted[y] = j.posted[y]
      BY <2>4
    <3> HIDE DEF m, j
    <3>20. HeaderWritten(j, m, e, ledger, hdr, n, f, p, b, k1)
      BY <2>3, <3>1, <3>2, <3>3, SMTT(60) DEF HeaderWritten
    <3> QED
      BY <3>20, HeaderView
  <2>8. CloseFacts(k1, n, d)
    <3>1. n[i] = e[i] /\ i \in DOMAIN n
      BY <1>4, <1>5, <2>6
    <3>2. \A x \in (Items \cup Claims) \ {i} : x \in DOMAIN m => n[x] = m[x]
      BY <1>5, <2>6
    <3>3. /\ n[i].stock = d[i].stock /\ n[i].status = d[i].status /\ k1.posted = NoPosting
          /\ n[i].reserved <= d[i].reserved
          /\ n[i].stock \in Int /\ d[i].stock \in Int /\ n[i].reserved \in Int /\ d[i].reserved \in Int
      BY <1>6, <1>9, <1>14, <2>4, <3>1
    <3>4. DOMAIN m \subseteq DOMAIN n /\ DOMAIN n \subseteq DOMAIN m \cup {i, Header}
      BY <2>6
    <3>5. i = j.ids[IdAt(j)].item
      BY <1>2 DEF c
    <3> QED
      BY <1>2, <1>14, <2>4, <2>5, <3>1, <3>2, <3>3, <3>4, <3>5, NextFacts
  <2>9. Facts(k1, n, db, ledger)
    <3>1. k1.op = "release" => k1.pc # "held"
      BY <2>4
    <3> QED
      BY <1>2, <2>4, <2>6, <2>7, <2>8, <3>1, CloseGoesOn DEF f, d
  <2> QED
    BY <2>1, <2>2, <2>4, <2>9
<1>15. CASE j.op # "release" /\ ~(left < 0 \/ hdr.stock < q \/ left < row.reserved)
  <2>1. WriteAll(s, put) /\ job' = [job EXCEPT ![s] = k2] /\ UNCHANGED ledger
    <3> HIDE DEF i, q, hdr, row, left, k1, k2, put
    <3> QED
      BY <1>11, <1>15
  <2>2. DOMAIN put = {i, Header} /\ put[i] = v /\ put[Header] = w
    <3> HIDE DEF v, w
    <3> QED
      BY <1>5
  <2>3. PICK n1, f1, n :
          /\ Wrote(m, e, i, put[i], n1, f1)
          /\ Wrote(n1, f1, Header, put[Header], n, Over(n, db))
          /\ \A y : job' = [job EXCEPT ![s] = y] /\ y.op = j.op /\ Facts(y, n, db, ledger) => WInv'
    <3> HIDE DEF put, k2
    <3> QED
      BY <1>2, <1>5, <2>1, <2>2, TwoWritten
  <2> DEFINE f == Over(n, db)
  <2>4. Wrote(m, e, i, v, n1, f1) /\ Wrote(n1, f1, Header, w, n, f)
    BY <2>2, <2>3
  <2>5. left \in Nat /\ e[i].reserved <= left /\ left = e[i].stock - q /\ q <= e[Header].stock
    <3>1. row = e[i]
      BY <1>3
    <3>2. left = row.stock - q /\ ~(left < 0) /\ ~(left < row.reserved) /\ ~(hdr.stock < q)
      BY <1>15
    <3> HIDE DEF row, left, e, q, hdr, j
    <3> QED
      BY <1>2, <1>6, <1>10, <3>1, <3>2
  <2>6. /\ v \in RollRow /\ v.reserved = e[i].reserved /\ v.stock = left /\ Tells(v, Length[i])
        /\ v.status = "quarantine" <=> e[i].status = "quarantine"
    <3>1. row = e[i]
      BY <1>3
    <3>2. Length[i] \in Nat
      BY <1>4 DEF StoreAssumption
    <3> DEFINE old == e[i].status
               length == Length[i]
    <3>6. to = RollStatus(old, left, length)
      BY <3>1
    <3> HIDE DEF row, left, e, i
    <3>3. v.reserved = e[i].reserved /\ v.stock = left /\ v.status = to /\ DOMAIN v = DOMAIN e[i]
      <4> HIDE DEF to
      <4> QED
        BY <1>6, <3>1 DEF RollRow
    <3>4. Tells(v, Length[i]) /\ v.status \in RollStatuses /\ (v.status = "quarantine" <=> e[i].status = "quarantine")
      <4>1. v.stock = left /\ v.status = RollStatus(old, left, length) /\ left \in Nat /\ length \in Nat
        BY <2>5, <3>2, <3>3, <3>6
      <4> HIDE DEF v, to, old, length
      <4>2. ASSUME NEW x, x.stock = left, x.status = RollStatus(old, left, length)
            PROVE  Tells(x, length) /\ x.status \in RollStatuses /\ (x.status = "quarantine" <=> old = "quarantine")
        <5>1. left \in Nat /\ length \in Nat
          BY <4>1
        <5> QED
          BY <4>2, <5>1, StatusTells
      <4>3. Tells(v, length) /\ v.status \in RollStatuses /\ (v.status = "quarantine" <=> old = "quarantine")
        BY <4>1, <4>2
      <4> QED
        BY <4>3 DEF old, length
    <3>5. v \in RollRow
      <4>1. to \in RollStatuses
        BY <3>3, <3>4
      <4> HIDE DEF to
      <4> QED
        BY <1>6, <2>5, <3>1, <4>1 DEF RollRow
    <3> QED
      BY <3>3, <3>4, <3>5
  <2>7. w \in CountRow /\ w.reserved = e[Header].reserved - q /\ w.stock = e[Header].stock - q
    <3>1. e[Header].stock - q \in Nat
      BY <1>2, <1>6, <2>5
    <3>2. w = [hdr EXCEPT !.stock = e[Header].stock - q]
      BY <1>10
    <3> HIDE DEF hdr, w, e, q
    <3> QED
      BY <1>10, <3>1, <3>2 DEF CountRow
  <2> DEFINE g == Booked(j, i, p)
  <2>8. k2 = NextClaim(s, g) /\ g = Booked(j, i, p) /\ p = -q
    OBVIOUS
  <2> HIDE DEF k2, g, f, e, i, q, p, v, w, c, left, put, to, row, hdr, d
  <2>9. /\ DOMAIN g = JobFields /\ g.op = j.op /\ g.ids = j.ids /\ Closes(g) /\ g.posted \in [Items -> Int]
        /\ g.posted[i] = j.posted[i] + p /\ \A y \in Items \ {i} : g.posted[y] = j.posted[y]
    <3>1. Postable(j, i, p)
      BY <1>2, <1>10 DEF Postable
    <3> HIDE DEF j
    <3> QED
      BY <2>8, <3>1, BookedIs
  <2>10. IdAt(g) = c
    BY <2>9 DEF IdAt, c
  <2>18. DOMAIN g = JobFields /\ Closes(g) /\ IdAt(g) \in DOMAIN g.ids /\ g.ids = job[s].ids
    BY <1>2, <2>9, <2>10
  <2>11. /\ DOMAIN k2 = JobFields /\ k2.op = g.op /\ k2.posted = g.posted /\ k2.pc \in {"claim", "commit"}
         /\ k2.pc = "claim" => DOMAIN k2.ids # {}
         /\ Closes(k2) /\ OnRow(k2, n) = 0 /\ OnHeader(k2, n) = 0 /\ OffHeader(k2) = 0
    <3> HIDE DEF g, j
    <3> QED
      BY <2>8, <2>18, NextClaimIs
  <2>12. DOMAIN k2.ids = DOMAIN g.ids \ {IdAt(g)} /\ \A x \in DOMAIN k2.ids : k2.ids[x] = g.ids[x]
    <3> HIDE DEF g, j
    <3> QED
      BY <2>8, <2>18, NextClaimIs
  <2>13. /\ DOMAIN n1 = DOMAIN m \cup {i} /\ n1[i] = v /\ \A y \in DOMAIN m \ {i} : n1[y] = m[y]
         /\ DOMAIN n = DOMAIN n1 \cup {Header} /\ DOMAIN n \subseteq Rows /\ \A y \in DOMAIN n1 \ {Header} : n[y] = n1[y]
    BY <2>4 DEF Wrote
  <2>14. DOMAIN n = DOMAIN m \cup {Header, i} /\ n[i] = v /\ \A y \in DOMAIN m \ {Header, i} : n[y] = m[y]
    BY <1>5, <2>13
  <2>15. View(k2, n, f, ledger)
    <3>1. /\ View(j, m, e, ledger) /\ i \in Rolls /\ j.posted \in [Items -> Int] /\ \A r \in Rolls : ~Empty(j, r)
          /\ OnRow(j, m) = 0 /\ OffHeader(j) = 0 /\ OnHeader(j, m) \in Int
      BY <1>2, <1>4, <1>7
    <3>2. /\ v.stock = e[i].stock + p /\ v.reserved <= v.stock /\ p \in Int
          /\ w.reserved = e[Header].reserved - OnHeader(j, m) /\ w.stock = e[Header].stock + p
      <4> DEFINE er == e[i].stock
                 eh == e[Header].stock
                 hr == e[Header].reserved
      <4>1. er \in Nat /\ eh \in Nat /\ q \in Nat /\ p = -q /\ left = er - q /\ e[i].reserved <= left
            /\ v.stock = left /\ v.reserved = e[i].reserved /\ w.reserved = hr - q /\ w.stock = eh - q
            /\ OnHeader(j, m) = q
        BY <1>2, <1>6, <1>7, <2>5, <2>6, <2>7, <2>8
      <4>2. er - q = er + p /\ eh - q = eh + p /\ p \in Int
        <5> HIDE DEF er, eh
        <5> QED
          BY <4>1
      <4> QED
        BY <4>1, <4>2
    <3>3. k2.posted[i] = j.posted[i] + p /\ \A y \in Items \ {i} : k2.posted[y] = j.posted[y]
      BY <2>9, <2>11
    <3>4. /\ ledger \in [Items -> Int] /\ v \in RollRow /\ w \in CountRow
          /\ Wrote(m, e, i, v, n1, f1) /\ Wrote(n1, f1, Header, w, n, f)
          /\ v.reserved = e[i].reserved /\ Tells(v, Length[i])
          /\ OnRow(k2, n) = 0 /\ OnHeader(k2, n) = 0 /\ OffHeader(k2) = 0
      BY <1>12, <2>4, <2>6, <2>7, <2>11
    <3> HIDE DEF m, j
    <3>20. BothWritten(j, m, e, ledger, i, v, w, n1, f1, n, f, p, k2)
      BY <3>1, <3>2, <3>3, <3>4, SMTT(60) DEF BothWritten
    <3> QED
      BY <3>20, RollAndHeaderView
  <2>16. CloseFacts(k2, n, d)
    <3>1. n[i].reserved <= d[i].reserved /\ n[i].stock \in Int /\ d[i].stock \in Int /\ n[i].reserved \in Int
          /\ d[i].reserved \in Int
          /\ n[i].stock - d[i].stock = n[i].reserved - d[i].reserved
      <4> DEFINE di == d[i]
                 ei == e[i]
      <4>1. /\ ei.reserved \in Nat /\ ei.stock \in Nat /\ di.reserved \in Nat /\ di.stock \in Nat /\ q \in Nat
            /\ ei.reserved <= di.reserved /\ ei.stock - di.stock = ei.reserved - di.reserved + q
            /\ v.reserved = ei.reserved /\ v.stock = ei.stock - q
        BY <1>2, <1>6, <1>9, <1>15, <2>5, <2>6
      <4> HIDE DEF di, ei, m, j
      <4>2. v.reserved <= di.reserved /\ v.stock \in Int /\ v.reserved \in Int
            /\ v.stock - di.stock = v.reserved - di.reserved
        BY <4>1
      <4> QED
        BY <2>14, <4>1, <4>2 DEF di
    <3>2. n[i].status = "quarantine" <=> d[i].status = "quarantine"
      BY <1>9, <1>15, <2>6, <2>14
    <3>3. \A x \in (Items \cup Claims) \ {i} : x \in DOMAIN m => n[x] = m[x]
      BY <1>5, <2>14
    <3>4. DOMAIN m \subseteq DOMAIN n /\ DOMAIN n \subseteq DOMAIN m \cup {i, Header} /\ i \in DOMAIN n
      BY <2>14
    <3>5. i = j.ids[IdAt(j)].item /\ j.op # "release" /\ k2.op = j.op
      BY <1>2, <1>15, <2>9, <2>11 DEF c
    <3>6. DOMAIN k2.ids = DOMAIN j.ids \ {IdAt(j)} /\ \A x \in DOMAIN k2.ids : k2.ids[x] = j.ids[x]
      BY <2>9, <2>10, <2>12 DEF c
    <3> QED
      BY <1>2, <2>11, <3>1, <3>2, <3>3, <3>4, <3>5, <3>6, NextFacts
  <2>17. Facts(k2, n, db, ledger)
    <3>1. k2.op = "release" => k2.pc # "held"
      BY <2>11
    <3>2. k2.posted \in [Items -> Int]
      BY <2>9, <2>11
    <3> QED
      BY <2>11, <2>14, <2>13, <2>15, <2>16, <3>1, <3>2, CloseGoesOn DEF f, d
  <2> QED
    BY <2>1, <2>3, <2>9, <2>11, <2>17
<1> QED
  BY <1>13, <1>14, <1>15
-----------------------------------------------------------------------------
(* Receipts, returns, corrections and holds.                               *)

\* Where a movement of stock under way is.
LEMMA MoveAt ==
  ASSUME StoreAssumption, WInv, NEW s \in Sessions, NEW pc \in {"row", "hdr", "put", "puthdr"},
         At(s, MoveOps, pc), NEW j, j = job[s], NEW m, m = mine[s], NEW e, e = Over(m, db)
  PROVE  /\ j.op \in MoveOps /\ j.pc = pc
         /\ DOMAIN j = JobFields /\ j.posted \in [Items -> Int]
         /\ DOMAIN m \subseteq Rows /\ View(j, m, e, ledger) /\ RowsTyped(e) /\ RowsTyped(db)
         /\ MoveFacts(j, m, db)
         /\ j.item \in Items /\ j.item \in Rows /\ j.qty \in Int \ {0}
         /\ Seen(s, j.item) = e[j.item] /\ Seen(s, Header) = e[Header]
         /\ OnRow(j, m) = 0 /\ OnHeader(j, m) = 0 /\ ledger \in [Items -> Int]
<1>1. j.op \in MoveOps /\ j.pc = pc /\ j.op # "idle"
  BY DEF At, MoveOps
<1>2. /\ DOMAIN j = JobFields /\ DOMAIN m \subseteq Rows /\ View(j, m, e, ledger) /\ RowsTyped(e)
      /\ MoveFacts(j, m, db) /\ j.posted \in [Items -> Int]
  BY <1>1, AtWork
<1>3. j.item \in Items /\ j.item \in Rows /\ j.qty \in Int \ {0}
  BY <1>1, <1>2, RowsApart DEF MoveFacts
<1>4. Seen(s, j.item) = e[j.item] /\ Seen(s, Header) = e[Header]
  BY <1>3, SeenIs, RowsApart
<1>5. OnRow(j, m) = 0 /\ OnHeader(j, m) = 0
  <2>1. ~Places(j) /\ ~Closes(j)
    BY <1>1 DEF Places, Closes, ReserveOps, CloseOps, MoveOps
  <2> QED
    BY <2>1, OtherPending
<1> QED
  BY <1>1, <1>2, <1>3, <1>4, <1>5, Committed

\* What a movement still satisfies, but for its own facts.
LEMMA MoveGoesOn ==
  ASSUME NEW j, j.op \in MoveOps, j.pc \in Moving, NEW m, NEW d, NEW l,
         DOMAIN j = JobFields, j.posted \in [Items -> Int],
         DOMAIN m \subseteq Rows, View(j, m, Over(m, d), l), MoveFacts(j, m, d)
  PROVE  Facts(j, m, d, l)
<1>1. /\ ~Places(j) /\ ~Closes(j) /\ j.op # "idle" /\ j.op # "counter" /\ j.op # "hold" /\ j.pc \in Points(j.op)
  BY PointsAre DEF Places, Closes, ReserveOps, CloseOps, MoveOps
<1>2. JobTyped(j)
  BY <1>1 DEF JobTyped
<1> QED
  BY <1>1, <1>2 DEF Facts, SelectFacts, PlaceFacts, CloseFacts, HoldFacts

\* What it has counted.
LEMMA MovePending ==
  ASSUME NEW j, j.op \in MoveOps, NEW m
  PROVE  /\ OnRow(j, m) = 0 /\ OnHeader(j, m) = 0
         /\ j.pc # "puthdr" => OffHeader(j) = 0
         /\ j.pc = "puthdr" => OffHeader(j) = -j.qty
<1>1. ~Places(j) /\ ~Closes(j)
  BY DEF Places, Closes, ReserveOps, CloseOps, MoveOps
<1> QED
  BY <1>1, OtherPending

\* A movement that starts with a SELECT.
LEMMA MoveStarts ==
  ASSUME StoreAssumption, WInv, Safe, NEW s \in Sessions, NEW k, Begin(s, k), k.op \in MoveOps, k.pc = "row",
         DOMAIN k = JobFields, k.posted = NoPosting, k.item \in Items, k.qty \in Int \ {0},
         k.item \in Rolls => db[k.item].status # "none"
  PROVE  WInv'
<1> DEFINE m == mine[s]
<1>1. k.op \in MoveOps /\ k.pc = "row" /\ k.posted = NoPosting /\ DOMAIN k = JobFields
  OBVIOUS
<1>2. DOMAIN m = {}
  BY SeenIdle DEF Begin, MayStart
<1>3. View(Idle, NoRows, db, ledger)
  BY Committed
<1> HIDE DEF m
<1>4. /\ ~Places(k) /\ ~Closes(k) /\ k.op # "idle" /\ k.op # "counter" /\ k.op # "hold" /\ k.pc \in Points(k.op)
      /\ k.op \in ReserveOps \cup CloseOps \cup MoveOps \cup {"hold"}
  BY <1>1, PointsAre DEF Places, Closes, ReserveOps, CloseOps, MoveOps, Moving
<1>5. View(k, m, db, ledger)
  <2>1. OnRow(k, m) = 0 /\ OnHeader(k, m) = 0 /\ OffHeader(k) = 0
    BY <1>1, MovePending
  <2> QED
    BY <1>1, <1>3, <2>1, ViewFirst
<1>6. JobTyped(k)
  BY <1>1, <1>4 DEF JobTyped, NoPosting
<1>7. MoveFacts(k, m, db)
  BY <1>1, <1>2 DEF MoveFacts
<1>8. PlaceFacts(k, m, db) /\ SelectFacts(k, m) /\ CloseFacts(k, m, db) /\ HoldFacts(k, m, db)
  BY <1>4 DEF PlaceFacts, SelectFacts, CloseFacts, HoldFacts
<1> QED
  BY <1>5, <1>6, <1>7, <1>8, BeginKeeps DEF m

\* receive_qty, return_to_store and adjust_stock start with one.
LEMMA BeginMoveKeeps ==
  ASSUME StoreAssumption, WInv, Safe, NEW s \in Sessions
  PROVE  /\ \A t \in Trims, q \in Qtys : BeginReceiveQty(s, t, q) => WInv'
         /\ \A r \in Rolls, q \in Bits : BeginReturn(s, r, q) => WInv'
         /\ \A i \in Items, q \in Bits, sign \in {-1, 1} : BeginAdjust(s, i, sign * q) => WInv'
<1>1. Qtys \subseteq Nat \ {0} /\ Bits \subseteq Nat \ {0} /\ Trims \cap Rolls = {}
      /\ Trims \subseteq Items /\ Rolls \subseteq Items
  BY DEF StoreAssumption, Items
<1>2. "receive" \in MoveOps /\ "return" \in MoveOps /\ "adjust" \in MoveOps
  BY DEF MoveOps
<1>3. ASSUME NEW t \in Trims, NEW q \in Qtys, BeginReceiveQty(s, t, q) PROVE WInv'
  <2> DEFINE k == [Idle EXCEPT !.op = "receive", !.pc = "row", !.item = t, !.qty = q]
  <2>1. Begin(s, k)
    BY <1>3 DEF BeginReceiveQty
  <2>2. t \in Items /\ q \in Int \ {0} /\ t \notin Rolls
    BY <1>1
  <2>3. /\ DOMAIN k = JobFields /\ k.op = "receive" /\ k.pc = "row" /\ k.item = t /\ k.qty = q
        /\ k.posted = NoPosting
    BY DEF Idle, JobFields, NoPosting
  <2> HIDE DEF k
  <2> QED
    BY <1>2, <2>1, <2>2, <2>3, MoveStarts
<1>4. ASSUME NEW r \in Rolls, NEW q \in Bits, BeginReturn(s, r, q) PROVE WInv'
  <2> DEFINE k == [Idle EXCEPT !.op = "return", !.pc = "row", !.item = r, !.qty = q]
  <2>1. Begin(s, k) /\ db[r].status # "none"
    BY <1>4 DEF BeginReturn
  <2>2. r \in Items /\ q \in Int \ {0}
    BY <1>1
  <2>3. /\ DOMAIN k = JobFields /\ k.op = "return" /\ k.pc = "row" /\ k.item = r /\ k.qty = q
        /\ k.posted = NoPosting
    BY DEF Idle, JobFields, NoPosting
  <2> HIDE DEF k
  <2> QED
    BY <1>2, <2>1, <2>2, <2>3, MoveStarts
<1>5. ASSUME NEW i \in Items, NEW q \in Bits, NEW sign \in {-1, 1}, BeginAdjust(s, i, sign * q) PROVE WInv'
  <2> DEFINE p == sign * q
             k == [Idle EXCEPT !.op = "adjust", !.pc = "row", !.item = i, !.qty = p]
  <2>1. Begin(s, k)
        /\ (i \in Rolls => db[i].status # "none")
    BY <1>5 DEF BeginAdjust
  <2>2. p \in Int \ {0}
    BY <1>1
  <2> HIDE DEF p
  <2>3. /\ DOMAIN k = JobFields /\ k.op = "adjust" /\ k.pc = "row" /\ k.item = i /\ k.qty = p
        /\ k.posted = NoPosting
    BY DEF Idle, JobFields, NoPosting
  <2> HIDE DEF k
  <2> QED
    BY <1>2, <2>1, <2>2, <2>3, MoveStarts
<1> QED
  BY <1>3, <1>4, <1>5

\* receive_roll starts with an INSERT of the empty roll.
LEMMA BeginReceiveRollKeeps ==
  ASSUME StoreAssumption, WInv, Safe, NEW s \in Sessions, NEW r \in Rolls, BeginReceiveRoll(s, r)
  PROVE  WInv'
<1> DEFINE k == [Idle EXCEPT !.op = "receive", !.pc = "row", !.item = r, !.qty = Length[r]]
           m == mine[s]
           put == [x \in {r} |-> NewRoll]
           n == Over(put, m)
           f == Over(n, db)
           a == 0
<1>1. /\ MayStart(s, "receive") /\ Seen(s, r).status = "none" /\ Write(s, r, NewRoll)
      /\ job' = [job EXCEPT ![s] = k] /\ ledger' = ledger
  BY DEF BeginReceiveRoll, NewRoll
<1>2. DOMAIN m = {} /\ Over(m, db) = db /\ \A x \in Rows : Seen(s, x) = db[x]
  BY <1>1, SeenIdle DEF MayStart
<1>3. /\ View(Idle, NoRows, db, ledger) /\ RowsTyped(db) /\ ledger \in [Items -> Int]
      /\ DOMAIN db = Rows /\ DOMAIN mine = Sessions /\ DOMAIN job = Sessions
  BY Committed
<1>4. r \in Rows /\ r \in Items /\ r \notin Trims
  BY RowsApart
<1>5. db[r] = NoRoll
  <2>1. db[r].status = "none"
    BY <1>1, <1>2, <1>4
  <2>2. Tells(db[r], Length[r])
    BY <1>3, IdleIs DEF View
  <2> QED
    BY <2>1, <2>2 DEF Tells
<1>6. /\ DOMAIN k = JobFields /\ k.op = "receive" /\ k.pc = "row" /\ k.item = r /\ k.qty = Length[r]
      /\ k.posted = NoPosting
  BY DEF Idle, JobFields, NoPosting
<1>7. WriteAll(s, put) /\ DOMAIN put = {r} /\ put[r] = NewRoll /\ n = Over(put, m) /\ f = Over(n, db)
  <2>1. put = [x \in {r} |-> NewRoll] /\ DOMAIN put = {r} /\ put[r] = NewRoll /\ n = Over(put, m) /\ f = Over(n, db)
    OBVIOUS
  <2> HIDE DEF put, n, f, k
  <2>2. Write(s, r, NewRoll)
    BY <1>1
  <2>3. WriteAll(s, put)
    BY <2>1, <2>2 DEF Write, WriteAll
  <2> QED
    BY <2>1, <2>3
<1> HIDE DEF k, put, n, f
<1>8. Wrote(m, db, r, NewRoll, n, f)
  <2>1. DOMAIN n = {r} /\ n[r] = NewRoll
    BY <1>2, <1>7 DEF Over
  <2>2. DOMAIN n \subseteq Rows
    BY <1>4, <2>1
  <2>3. /\ f = [x \in Rows |-> f[x]] /\ \A x \in DOMAIN n : f[x] = n[x]
        /\ \A x \in Rows \ DOMAIN n : f[x] = db[x]
    BY <1>3, <1>7, <2>2, OverIs
  <2> QED
    BY <1>2, <2>1, <2>2, <2>3 DEF Wrote
<1>9. DOMAIN n = {r} /\ n[r] = NewRoll /\ DOMAIN n \subseteq Rows
  BY <1>2, <1>8 DEF Wrote
<1>10. /\ DOMAIN NewRoll = {"stock", "reserved", "status"} /\ NewRoll.stock = 0 /\ NewRoll.reserved = 0
       /\ NewRoll.status = "available" /\ NoRoll.stock = 0 /\ NoRoll.reserved = 0 /\ NewRoll \in RollRow
  BY DEF NewRoll, NoRoll, RollRow, RollStatuses
<1>11. Empty(k, r)
  BY <1>6 DEF Empty
<1>12. View(k, n, f, ledger)
  <2>1. OnRow(k, n) = 0 /\ OnHeader(k, n) = 0 /\ OffHeader(k) = 0
    BY <1>6, MovePending DEF MoveOps
  <2>2. OnRow(Idle, NoRows) = 0 /\ OnHeader(Idle, NoRows) = 0 /\ OffHeader(Idle) = 0
    BY IdleIs, OtherPending
  <2>3. a \in Int /\ a = 0
    OBVIOUS
  <2> HIDE DEF a
  <2>4. NewRoll.reserved = db[r].reserved + a /\ NewRoll.stock = db[r].stock + a /\ NewRoll.reserved <= NewRoll.stock
    BY <1>5, <1>10, <2>3
  <2>5. Wrote(NoRows, db, r, NewRoll, n, f)
    BY <1>2, <1>8 DEF Wrote, NoRows
  <2>6. /\ Idle.posted \in [Items -> Int] /\ k.posted[r] = Idle.posted[r] + a
        /\ \A y \in Items \ {r} : k.posted[y] = Idle.posted[y]
    BY <1>4, <1>6, <2>3, IdleIs DEF NoPosting
  <2>7. /\ OnRow(Idle, NoRows) \in Int /\ OnHeader(Idle, NoRows) \in Int /\ OffHeader(Idle) \in Int
        /\ OnRow(k, n) = OnRow(Idle, NoRows) + a
        /\ OnHeader(k, n) = OnHeader(Idle, NoRows) - a /\ OffHeader(k) = OffHeader(Idle) - a
    BY <2>1, <2>2, <2>3
  <2>8. \A x \in Rolls : ~Empty(Idle, x)
    BY IdleIs
  <2>20. ItemWritten(Idle, NoRows, db, ledger, r, NewRoll, n, f, a, a, k)
    BY <1>3, <1>4, <1>10, <1>11, <2>1, <2>2, <2>3, <2>4, <2>5, <2>6, <2>7, <2>8, SMTT(60) DEF ItemWritten
  <2> QED
    BY <2>20, ItemView
<1>13. MoveFacts(k, n, db)
  <2>1. Length[r] \in Int \ {0}
    BY DEF StoreAssumption
  <2> QED
    BY <1>4, <1>5, <1>6, <1>9, <2>1 DEF MoveFacts
<1>14. Facts(k, n, db, ledger)
  BY <1>6, <1>7, <1>9, <1>12, <1>13, MoveGoesOn DEF MoveOps, Moving, NoPosting
<1>15. /\ db' = db /\ mine'[s] = n /\ DOMAIN mine' = Sessions
       /\ \A t \in Sessions \ {s} : mine'[t] = mine[t] /\ DOMAIN mine'[s] \cap DOMAIN mine[t] = {}
  BY <1>7, WrittenIsMine DEF m
<1>16. job'[s] = k /\ DOMAIN job' = Sessions /\ \A t \in Sessions \ {s} : job'[t] = job[t]
  BY <1>1, <1>3
<1>17. \A t \in Sessions \ {s} : Apart(job'[s], job[t])
  BY <1>1, <1>6, <1>16, StartApart
<1>18. Facts(job'[s], mine'[s], db, ledger)
  BY <1>14, <1>15, <1>16
<1> QED
  BY <1>1, <1>15, <1>16, <1>17, <1>18, StepKeeps

\* _move_stock reads the row, and refuses what would leave too little of a trim.
LEMMA ReadRowKeeps ==
  ASSUME StoreAssumption, WInv, NEW s \in Sessions, ReadRow(s)
  PROVE  WInv'
<1> DEFINE j == job[s]
           m == mine[s]
           e == Over(m, db)
           i == job[s].item
           pc == IF i \in Rolls THEN "hdr" ELSE "put"
           k == [j EXCEPT !.was = Seen(s, i), !.pc = pc]
<1>1. /\ At(s, MoveOps, "row")
      /\ IF i \in Trims /\ TooLow(Seen(s, i), job[s].qty) THEN Abort(s)
         ELSE job' = [job EXCEPT ![s] = k] /\ Read /\ UNCHANGED ledger
  <2>1. /\ At(s, MoveOps, "row")
        /\ IF i \in Trims /\ TooLow(Seen(s, i), job[s].qty) THEN Abort(s)
           ELSE job' = [job EXCEPT ![s].was = Seen(s, i), ![s].pc = pc] /\ Read /\ UNCHANGED ledger
    BY DEF ReadRow
  <2> HIDE DEF i, pc
  <2>2. [job EXCEPT ![s].was = Seen(s, i), ![s].pc = pc] = [job EXCEPT ![s] = k]
    OBVIOUS
  <2> QED
    BY <2>1, <2>2
<1>2. /\ j.op \in MoveOps /\ j.pc = "row" /\ DOMAIN j = JobFields /\ j.posted \in [Items -> Int]
      /\ DOMAIN m \subseteq Rows /\ View(j, m, e, ledger) /\ MoveFacts(j, m, db)
      /\ i \in Items /\ j.qty \in Int \ {0} /\ Seen(s, i) = e[i] /\ i = j.item
  BY <1>1, MoveAt
<1>3. CASE i \in Trims /\ TooLow(Seen(s, i), job[s].qty)
  <2> HIDE DEF i, k
  <2> QED
    BY <1>1, <1>3, AbortKeeps
<1>4. CASE ~(i \in Trims /\ TooLow(Seen(s, i), job[s].qty))
  <2>1. job' = [job EXCEPT ![s] = k] /\ Read /\ UNCHANGED ledger
    <3> HIDE DEF i, k
    <3> QED
      BY <1>1, <1>4
  <2>2. /\ DOMAIN k = JobFields /\ k.op = j.op /\ k.pc = pc /\ k.was = e[i] /\ k.posted = j.posted
        /\ k.item = i /\ k.qty = j.qty
    <3> HIDE DEF i, pc, e
    <3> QED
      BY <1>2 DEF JobFields
  <2>3. pc \in {"hdr", "put"} /\ (pc = "hdr" => i \in Rolls) /\ (pc = "put" => i \in Trims /\ i \notin Rolls)
    BY <1>2, RowsApart
  <2>4. pc = "put" => ~TooLow(e[i], j.qty)
    BY <1>2, <1>4, <2>3
  <2>5. e = Over(m, db)
    OBVIOUS
  <2> HIDE DEF k, pc, e, i, j, m
  <2>6. View(k, m, e, ledger)
    <3>1. /\ OnRow(k, m) = 0 /\ OnRow(j, m) = 0 /\ OnHeader(k, m) = 0 /\ OnHeader(j, m) = 0
          /\ OffHeader(k) = 0 /\ OffHeader(j) = 0
      BY <1>2, <2>2, <2>3, MovePending
    <3>2. \A r \in Rolls : Empty(j, r) => Empty(k, r)
      BY <1>2, <2>2, <2>3 DEF Empty
    <3> QED
      BY <1>2, <2>2, <3>1, <3>2, ViewStays
  <2>7. MoveFacts(k, m, db)
    BY <1>2, <2>2, <2>3, <2>4, <2>5 DEF MoveFacts
  <2>8. Facts(k, m, db, ledger)
    BY <1>2, <2>2, <2>3, <2>5, <2>6, <2>7, MoveGoesOn DEF Moving
  <2> QED
    BY <2>1, <2>2, <2>8, ReadGoesOn DEF j, m
<1> QED
  BY <1>3, <1>4

\* And the header, for a roll.
LEMMA ReadHeaderKeeps ==
  ASSUME StoreAssumption, WInv, NEW s \in Sessions, ReadHeader(s)
  PROVE  WInv'
<1> DEFINE j == job[s]
           m == mine[s]
           e == Over(m, db)
           h == Seen(s, Header).stock
           k == [j EXCEPT !.hdr = h, !.pc = "put"]
           low == TooLow(job[s].was, job[s].qty) \/ h + job[s].qty < 0
<1>1. /\ At(s, MoveOps, "hdr")
      /\ IF low THEN Abort(s)
         ELSE job' = [job EXCEPT ![s] = k] /\ Read /\ UNCHANGED ledger
  <2>1. /\ At(s, MoveOps, "hdr")
        /\ IF low THEN Abort(s)
           ELSE job' = [job EXCEPT ![s].hdr = h, ![s].pc = "put"] /\ Read /\ UNCHANGED ledger
    BY DEF ReadHeader
  <2> HIDE DEF low, h
  <2>2. [job EXCEPT ![s].hdr = h, ![s].pc = "put"] = [job EXCEPT ![s] = k]
    OBVIOUS
  <2> QED
    BY <2>1, <2>2
<1>2. /\ j.op \in MoveOps /\ j.pc = "hdr" /\ DOMAIN j = JobFields /\ j.posted \in [Items -> Int]
      /\ DOMAIN m \subseteq Rows /\ View(j, m, e, ledger) /\ MoveFacts(j, m, db) /\ RowsTyped(db)
      /\ j.qty \in Int \ {0} /\ Seen(s, Header) = e[Header]
  BY <1>1, MoveAt
<1>3. CASE low
  <2> HIDE DEF low, k
  <2> QED
    BY <1>1, <1>3, AbortKeeps
<1>4. CASE ~low
  <2>1. job' = [job EXCEPT ![s] = k] /\ Read /\ UNCHANGED ledger
    <3> HIDE DEF low, k
    <3> QED
      BY <1>1, <1>4
  <2>2. /\ DOMAIN k = JobFields /\ k.op = j.op /\ k.pc = "put" /\ k.was = j.was /\ k.posted = j.posted
        /\ k.item = j.item /\ k.qty = j.qty /\ k.hdr = h
    <3> HIDE DEF h
    <3> QED
      BY <1>2 DEF JobFields
  <2>3. h = db[Header].stock /\ db[Header].stock \in Nat
    <3>1. Header \notin DOMAIN m
      BY <1>2, RowsApart DEF MoveFacts
    <3>2. Seen(s, Header) = db[Header]
      BY <3>1 DEF Seen
    <3> QED
      BY <1>2, <3>2, Columns
  <2>4. ~TooLow(j.was, j.qty) /\ h + j.qty >= 0
    <3>1. ~TooLow(j.was, j.qty) /\ ~(h + j.qty < 0)
      BY <1>4
    <3> HIDE DEF h, j
    <3> QED
      BY <1>2, <2>3, <3>1
  <2>5. e = Over(m, db)
    OBVIOUS
  <2> HIDE DEF k, e, h, j, m
  <2>6. View(k, m, e, ledger)
    <3>1. /\ OnRow(k, m) = 0 /\ OnRow(j, m) = 0 /\ OnHeader(k, m) = 0 /\ OnHeader(j, m) = 0
          /\ OffHeader(k) = 0 /\ OffHeader(j) = 0
      BY <1>2, <2>2, MovePending
    <3>2. \A r \in Rolls : Empty(j, r) => Empty(k, r)
      BY <1>2, <2>2 DEF Empty
    <3> QED
      BY <1>2, <2>2, <3>1, <3>2, ViewStays
  <2>7. MoveFacts(k, m, db)
    BY <1>2, <2>2, <2>3, <2>4, <2>5 DEF MoveFacts
  <2>8. Facts(k, m, db, ledger)
    BY <1>2, <2>2, <2>5, <2>6, <2>7, MoveGoesOn DEF Moving
  <2> QED
    BY <2>1, <2>2, <2>8, ReadGoesOn DEF j, m
<1> QED
  BY <1>3, <1>4

\* The new total is written to the row.
LEMMA PutRowKeeps ==
  ASSUME StoreAssumption, WInv, NEW s \in Sessions, PutRow(s)
  PROVE  WInv'
<1> DEFINE j == job[s]
           m == mine[s]
           e == Over(m, db)
           i == job[s].item
           q == job[s].qty
           was == job[s].was
           after == was.stock + q
           row == Seen(s, i)
           to == RollStatus(was.status, after, Length[i])
           v == IF i \in Rolls THEN [row EXCEPT !.stock = after, !.status = to] ELSE [row EXCEPT !.stock = after]
           pc == IF i \in Rolls THEN "puthdr" ELSE "commit"
           g == Booked(j, i, q)
           k == [g EXCEPT !.pc = pc]
           a == 0
<1>1. At(s, MoveOps, "put") /\ Write(s, i, v) /\ job' = [job EXCEPT ![s] = k] /\ UNCHANGED ledger
  BY DEF PutRow
<1>2. /\ j.op \in MoveOps /\ j.pc = "put" /\ DOMAIN j = JobFields /\ j.posted \in [Items -> Int]
      /\ DOMAIN m \subseteq Rows /\ View(j, m, e, ledger) /\ MoveFacts(j, m, db) /\ RowsTyped(db) /\ RowsTyped(e)
      /\ i \in Items /\ i \in Rows /\ q \in Int \ {0} /\ row = e[i] /\ ledger \in [Items -> Int]
      /\ i = j.item /\ q = j.qty
  BY <1>1, MoveAt
<1>3. /\ j.posted = NoPosting /\ was = e[i] /\ ~TooLow(was, q)
      /\ \/ DOMAIN m = {} /\ e[i] = db[i]
         \/ /\ j.op = "receive" /\ i \in Rolls /\ DOMAIN m = {i}
            /\ e[i] = NewRoll /\ db[i] = NoRoll
      /\ i \in Rolls => j.hdr = db[Header].stock /\ j.hdr + q >= 0
  <2>1. /\ j.posted = NoPosting /\ was = e[i] /\ ~TooLow(was, q)
        /\ i \in Rolls => j.hdr = db[Header].stock /\ j.hdr + q >= 0
        /\ \/ DOMAIN m = {}
           \/ j.op = "receive" /\ i \in Rolls /\ DOMAIN m = {i} /\ m[i] = NewRoll /\ db[i] = NoRoll
    BY <1>2 DEF MoveFacts
  <2>2. (i \in DOMAIN m => e[i] = m[i]) /\ (i \notin DOMAIN m => e[i] = db[i])
    BY <1>2, SeenIs
  <2> HIDE DEF e, i, m, j, was, q
  <2> QED
    BY <2>1, <2>2
<1>4. /\ e[i].reserved \in Nat /\ e[i].stock \in Nat
      /\ i \in Trims => e[i] \in CountRow /\ i \notin Rolls
      /\ i \in Rolls => e[i] \in RollRow /\ i \notin Trims /\ Length[i] \in Nat
      /\ i \in Trims \/ i \in Rolls
  <2>1. i \in Trims => e[i] \in CountRow
    BY <1>2 DEF RowsTyped
  <2>2. i \in Rolls => e[i] \in RollRow /\ Length[i] \in Nat
    BY <1>2 DEF RowsTyped, StoreAssumption
  <2> QED
    BY <1>2, <2>1, <2>2, Columns, RowsApart
<1>5. after \in Nat /\ after = e[i].stock + q /\ e[i].reserved <= after
  <2>1. ~(was.stock + q < 0) /\ ~(was.stock + q < was.reserved)
    BY <1>3 DEF TooLow
  <2>2. was.stock = e[i].stock /\ was.reserved = e[i].reserved
    BY <1>3
  <2> HIDE DEF was, e, i, q
  <2> QED
    BY <1>2, <1>4, <2>1, <2>2
<1>6. /\ v.reserved = e[i].reserved /\ v.stock = after /\ (i \in Trims => v \in CountRow)
      /\ i \in Rolls => /\ v \in RollRow /\ Tells(v, Length[i])
                        /\ (v.status = "quarantine" <=> e[i].status = "quarantine")
  <2> DEFINE old == e[i].status
             length == Length[i]
  <2>1. row = e[i] /\ was = e[i]
    BY <1>2, <1>3
  <2>2. to = RollStatus(old, after, length)
    BY <2>1
  <2>3. i \in Rolls => v = [e[i] EXCEPT !.stock = after, !.status = to]
    BY <2>1
  <2>4. i \notin Rolls => v = [e[i] EXCEPT !.stock = after]
    BY <2>1
  <2> HIDE DEF v, to, after, row, was, e
  <2>5. CASE i \in Trims
    BY <1>4, <1>5, <2>4, <2>5 DEF CountRow
  <2>6. CASE i \in Rolls
    <3>1. v.reserved = e[i].reserved /\ v.stock = after /\ v.status = to
      BY <1>4, <2>3, <2>6 DEF RollRow
    <3>2. v.status = RollStatus(old, after, length) /\ length \in Nat
      BY <1>4, <2>2, <2>6, <3>1
    <3>3. Tells(v, length) /\ v.status \in RollStatuses /\ (v.status = "quarantine" <=> old = "quarantine")
      <4>1. ASSUME NEW x, x.stock = after, x.status = RollStatus(old, after, length)
            PROVE  Tells(x, length) /\ x.status \in RollStatuses /\ (x.status = "quarantine" <=> old = "quarantine")
        <5> HIDE DEF old, length
        <5>1. after \in Nat /\ length \in Nat
          BY <1>5, <3>2
        <5> QED
          BY <4>1, <5>1, StatusTells
      <4> HIDE DEF old, length
      <4> QED
        BY <3>1, <3>2, <4>1
    <3>4. v \in RollRow
      BY <1>4, <1>5, <2>3, <2>6, <3>1, <3>3 DEF RollRow
    <3> QED
      BY <1>4, <2>6, <3>1, <3>3, <3>4 DEF old, length
  <2> QED
    BY <1>4, <2>5, <2>6
<1>7. /\ DOMAIN k = JobFields /\ k.op = j.op /\ k.pc = pc /\ k.item = i /\ k.qty = q /\ k.hdr = j.hdr
      /\ k.posted = [j.posted EXCEPT ![i] = @ + q]
  <2>1. j.item = i /\ j.qty = q
    OBVIOUS
  <2> HIDE DEF i, pc, q, j
  <2>2. /\ DOMAIN g = JobFields /\ g.op = j.op /\ g.item = j.item /\ g.qty = j.qty /\ g.hdr = j.hdr
        /\ g.posted = [j.posted EXCEPT ![i] = @ + q]
    BY <1>2 DEF JobFields, Booked
  <2> HIDE DEF g
  <2> QED
    BY <2>1, <2>2 DEF JobFields
<1>8. pc \in {"puthdr", "commit"} /\ (pc = "puthdr" <=> i \in Rolls)
  OBVIOUS
<1>9. PICK n : /\ Wrote(m, e, i, v, n, Over(n, db))
               /\ \A y : job' = [job EXCEPT ![s] = y] /\ y.op = j.op /\ Facts(y, n, db, ledger) => WInv'
  <2> HIDE DEF v, k, i
  <2> QED
    BY <1>1, <1>2, OneWritten
<1> DEFINE f == Over(n, db)
<1>10. Wrote(m, e, i, v, n, f) /\ f = Over(n, db) /\ a \in Int /\ a = 0
  BY <1>9
<1> HIDE DEF k, f, e, i, q, was, after, row, to, v, pc, a, j, m
<1>11. /\ k.posted \in [Items -> Int] /\ k.posted[i] = j.posted[i] + q /\ k.posted = [NoPosting EXCEPT ![i] = q]
       /\ \A y \in Items \ {i} : k.posted[y] = j.posted[y]
  <2>1. k.posted = [NoPosting EXCEPT ![i] = NoPosting[i] + q] /\ NoPosting \in [Items -> Int] /\ NoPosting[i] = 0
        /\ j.posted = NoPosting /\ q \in Int /\ i \in Items
    BY <1>2, <1>3, <1>7 DEF NoPosting
  <2>2. NoPosting[i] + q = q
    BY <2>1
  <2>3. k.posted = [NoPosting EXCEPT ![i] = q]
    BY <2>1, <2>2
  <2>4. k.posted \in [Items -> Int] /\ k.posted[i] = q /\ \A y \in Items \ {i} : k.posted[y] = NoPosting[y]
    BY <2>1, <2>3
  <2>5. k.posted[i] = j.posted[i] + q
    BY <2>1, <2>2, <2>4
  <2> QED
    BY <2>1, <2>3, <2>4, <2>5
<1>12. View(k, n, f, ledger)
  <2>1. /\ OnRow(j, m) = 0 /\ OnHeader(j, m) = 0 /\ OffHeader(j) = 0 /\ OnRow(k, n) = 0 /\ OnHeader(k, n) = 0
        /\ i \in Rolls => OffHeader(k) = -q
        /\ i \notin Rolls => OffHeader(k) = 0
    BY <1>2, <1>7, <1>8, MovePending
  <2>2. /\ OnRow(j, m) \in Int /\ OnHeader(j, m) \in Int /\ OffHeader(j) \in Int
        /\ OnRow(k, n) = OnRow(j, m) + a /\ q \in Int
        /\ i \in Rolls => OnHeader(k, n) = OnHeader(j, m) - a /\ OffHeader(k) = OffHeader(j) - q
        /\ i \notin Rolls => OnHeader(k, n) = OnHeader(j, m) /\ OffHeader(k) = OffHeader(j)
    BY <1>2, <1>10, <2>1
  <2>3. v.reserved = e[i].reserved + a /\ v.stock = e[i].stock + q /\ v.reserved <= v.stock
    BY <1>4, <1>5, <1>6, <1>10
  <2>4. \A r \in Rolls : Empty(j, r) => r = i
    BY <1>2 DEF Empty
  <2>5. (i \in Trims => v \in CountRow) /\ (i \in Rolls => v \in RollRow /\ Tells(v, Length[i]))
    BY <1>6
  <2>6. View(j, m, e, ledger) /\ i \in Items /\ j.posted \in [Items -> Int] /\ ledger \in [Items -> Int]
        /\ Wrote(m, e, i, v, n, f) /\ a \in Int
    BY <1>2, <1>10
  <2>7. k.posted[i] = j.posted[i] + q /\ \A y \in Items \ {i} : k.posted[y] = j.posted[y]
    BY <1>11
  <2>20. ItemWritten(j, m, e, ledger, i, v, n, f, a, q, k)
    BY <2>1, <2>2, <2>3, <2>4, <2>5, <2>6, <2>7, SMTT(60) DEF ItemWritten
  <2> QED
    BY <2>20, ItemView
<1>13. DOMAIN n = {i} /\ n[i] = v /\ DOMAIN n \subseteq Rows
  BY <1>3, <1>10 DEF Wrote
<1>14. /\ n[i].stock = db[i].stock + q /\ n[i].reserved = db[i].reserved
       /\ i \in Rolls => (n[i].status = "quarantine" <=> db[i].status = "quarantine")
  <2>1. NewRoll.stock = 0 /\ NewRoll.reserved = 0 /\ NewRoll.status = "available"
        /\ NoRoll.stock = 0 /\ NoRoll.reserved = 0 /\ NoRoll.status = "none"
    BY DEF NewRoll, NoRoll
  <2>2. e[i].stock = db[i].stock /\ e[i].reserved = db[i].reserved
        /\ (e[i].status = "quarantine" <=> db[i].status = "quarantine")
    BY <1>3, <2>1
  <2>3. n[i].stock = e[i].stock + q /\ n[i].reserved = e[i].reserved
    BY <1>5, <1>6, <1>13
  <2>4. i \in Rolls => (n[i].status = "quarantine" <=> e[i].status = "quarantine")
    BY <1>6, <1>13
  <2> QED
    BY <2>2, <2>3, <2>4
<1>15. MoveFacts(k, n, db)
  BY <1>2, <1>3, <1>7, <1>8, <1>11, <1>13, <1>14 DEF MoveFacts
<1>16. Facts(k, n, db, ledger)
  BY <1>2, <1>7, <1>8, <1>10, <1>11, <1>12, <1>13, <1>15, MoveGoesOn DEF Moving
<1> QED
  BY <1>1, <1>7, <1>9, <1>16 DEF j

\* And to the header.
LEMMA PutHeaderKeeps ==
  ASSUME StoreAssumption, WInv, NEW s \in Sessions, PutHeader(s)
  PROVE  WInv'
<1> DEFINE j == job[s]
           m == mine[s]
           e == Over(m, db)
           i == j.item
           q == j.qty
           row == Seen(s, Header)
           v == [row EXCEPT !.stock = j.hdr + q]
           k == [j EXCEPT !.pc = "commit"]
           a == 0
<1>1. At(s, MoveOps, "puthdr") /\ Write(s, Header, v) /\ job' = [job EXCEPT ![s] = k] /\ UNCHANGED ledger
  BY DEF PutHeader, Goto
<1>2. /\ j.op \in MoveOps /\ j.pc = "puthdr" /\ DOMAIN j = JobFields /\ j.posted \in [Items -> Int]
      /\ DOMAIN m \subseteq Rows /\ View(j, m, e, ledger) /\ MoveFacts(j, m, db) /\ RowsTyped(db) /\ RowsTyped(e)
      /\ i \in Items /\ q \in Int \ {0} /\ row = e[Header] /\ Header \in Rows
  BY <1>1, MoveAt, RowsApart
<1>3. /\ i \in Rolls /\ j.hdr = db[Header].stock /\ j.hdr + q >= 0 /\ DOMAIN m = {i}
      /\ i # Header /\ Header \in Rows
  BY <1>2, RowsApart DEF MoveFacts
<1>4. e[Header] = db[Header] /\ db[Header] \in CountRow /\ db[Header].stock \in Nat
  <2>1. e[Header] = db[Header]
    BY <1>3, SeenIs
  <2> QED
    BY <1>2, <2>1, Columns DEF RowsTyped
<1>5. v \in CountRow /\ v.reserved = e[Header].reserved + a /\ v.stock = e[Header].stock + q /\ a \in Int /\ a = 0
  <2>1. v = [db[Header] EXCEPT !.stock = db[Header].stock + q] /\ a = 0
    BY <1>2, <1>3, <1>4
  <2>2. db[Header].stock + q \in Nat
    BY <1>2, <1>3, <1>4
  <2> HIDE DEF v, e, q, i, a
  <2>3. v \in CountRow /\ v.reserved = db[Header].reserved /\ v.stock = db[Header].stock + q
    BY <1>4, <2>1, <2>2 DEF CountRow
  <2>4. db[Header].reserved \in Nat
    BY <1>4 DEF CountRow
  <2> QED
    BY <1>4, <2>1, <2>3, <2>4
<1>6. PICK n : /\ Wrote(m, e, Header, v, n, Over(n, db))
               /\ \A y : job' = [job EXCEPT ![s] = y] /\ y.op = j.op /\ Facts(y, n, db, ledger) => WInv'
  <2> HIDE DEF v, k
  <2> QED
    BY <1>1, <1>2, OneWritten
<1> DEFINE f == Over(n, db)
<1>7. Wrote(m, e, Header, v, n, f) /\ f = Over(n, db)
  BY <1>6
<1>8. /\ DOMAIN k = JobFields /\ k.op = j.op /\ k.pc = "commit" /\ k.item = i /\ k.qty = q
      /\ k.posted = j.posted
  BY <1>2 DEF JobFields
<1> HIDE DEF k, f, e, i, q, row, v, a, j, m
<1>9. View(k, n, f, ledger)
  <2>1. /\ OnRow(j, m) = 0 /\ OnHeader(j, m) = 0 /\ OffHeader(j) = -q /\ OnRow(k, n) = 0 /\ OnHeader(k, n) = 0
        /\ OffHeader(k) = 0
    BY <1>2, <1>8, MovePending DEF q
  <2>2. /\ OnRow(j, m) \in Int /\ OnHeader(j, m) \in Int /\ OffHeader(j) \in Int
        /\ OnRow(k, n) = OnRow(j, m) /\ q \in Int
        /\ OnHeader(k, n) = OnHeader(j, m) + a /\ OffHeader(k) = OffHeader(j) + q
    BY <1>2, <1>5, <2>1
  <2>3. \A r \in Rolls : ~Empty(j, r)
    BY <1>2 DEF Empty
  <2>4. \A y \in Items : k.posted[y] = j.posted[y]
    BY <1>8
  <2>20. HeaderWritten(j, m, e, ledger, v, n, f, a, q, k)
    BY <1>2, <1>5, <1>7, <2>1, <2>2, <2>3, <2>4, SMTT(60) DEF HeaderWritten
  <2> QED
    BY <2>20, HeaderView
<1>10. DOMAIN n = {i, Header} /\ n[i] = m[i] /\ DOMAIN n \subseteq Rows
  BY <1>3, <1>7 DEF Wrote
<1>11. MoveFacts(k, n, db)
  <2>1. /\ j.posted = [NoPosting EXCEPT ![i] = q]
        /\ m[i].stock = db[i].stock + q /\ m[i].reserved = db[i].reserved
        /\ m[i].status = "quarantine" <=> db[i].status = "quarantine"
    BY <1>2, <1>3 DEF MoveFacts, i, q
  <2> QED
    BY <1>2, <1>3, <1>8, <1>10, <2>1 DEF MoveFacts
<1>12. Facts(k, n, db, ledger)
  BY <1>2, <1>7, <1>8, <1>9, <1>10, <1>11, MoveGoesOn DEF Moving
<1> QED
  BY <1>1, <1>6, <1>8, <1>12 DEF j

\* set_roll_hold has read the roll.
LEMMA BeginHoldKeeps ==
  ASSUME StoreAssumption, WInv, Safe, NEW s \in Sessions, NEW r \in Rolls, NEW hold \in BOOLEAN, BeginHold(s, r, hold)
  PROVE  WInv'
<1> DEFINE m == mine[s]
           was == IF hold THEN "quarantine" ELSE RollStatus("none", db[r].stock, Length[r])
           k == [Idle EXCEPT !.op = "hold", !.pc = "puthold", !.item = r, !.was = was]
<1>1. db[r].status # "none" /\ Begin(s, k)
  BY DEF BeginHold
<1>2. /\ DOMAIN k = JobFields /\ k.op = "hold" /\ k.pc = "puthold" /\ k.item = r /\ k.was = was
      /\ k.posted = NoPosting
  <2> HIDE DEF was
  <2> QED
    BY DEF Idle, JobFields, NoPosting
<1>3. was \in {"quarantine", RollStatus("none", db[r].stock, Length[r])}
  OBVIOUS
<1>4. View(Idle, NoRows, db, ledger)
  BY Committed
<1> HIDE DEF k, was
<1>5. DOMAIN m = {}
  BY <1>1, SeenIdle DEF Begin, MayStart
<1> HIDE DEF m
<1>6. /\ ~Places(k) /\ ~Closes(k) /\ k.op # "idle" /\ k.op # "counter" /\ k.op \notin MoveOps /\ k.pc \in Points(k.op)
  BY <1>2, PointsAre DEF Places, Closes, ReserveOps, CloseOps, MoveOps
<1>7. View(k, m, db, ledger)
  <2>1. OnRow(k, m) = 0 /\ OnHeader(k, m) = 0 /\ OffHeader(k) = 0
    BY <1>2, <1>6, OtherPending
  <2> QED
    BY <1>2, <1>4, <2>1, ViewFirst
<1>8. JobTyped(k)
  BY <1>2, <1>6 DEF JobTyped, NoPosting
<1>9. HoldFacts(k, m, db)
  BY <1>1, <1>2, <1>3, <1>5 DEF HoldFacts
<1>10. PlaceFacts(k, m, db) /\ SelectFacts(k, m) /\ CloseFacts(k, m, db) /\ MoveFacts(k, m, db)
  BY <1>6 DEF PlaceFacts, SelectFacts, CloseFacts, MoveFacts
<1> QED
  BY <1>1, <1>7, <1>8, <1>9, <1>10, BeginKeeps DEF m

\* And writes its status.
LEMMA PutHoldKeeps ==
  ASSUME StoreAssumption, WInv, NEW s \in Sessions, PutHold(s)
  PROVE  WInv'
<1> DEFINE j == job[s]
           m == mine[s]
           e == Over(m, db)
           i == job[s].item
           was == job[s].was
           row == Seen(s, i)
           v == [row EXCEPT !.status = was]
           k == [j EXCEPT !.pc = "commit"]
           a == 0
<1>1. At(s, {"hold"}, "puthold") /\ Write(s, i, v) /\ job' = [job EXCEPT ![s] = k] /\ UNCHANGED ledger
  BY DEF PutHold, Goto
<1>2. j.op = "hold" /\ j.pc = "puthold" /\ j.op # "idle"
  BY <1>1 DEF At
<1>3. /\ DOMAIN j = JobFields /\ DOMAIN m \subseteq Rows /\ View(j, m, e, ledger) /\ RowsTyped(e)
      /\ HoldFacts(j, m, db) /\ j.posted \in [Items -> Int]
  BY <1>2, AtWork
<1>4. /\ i \in Rolls /\ db[i].status # "none" /\ j.posted = NoPosting /\ DOMAIN m = {}
      /\ was \in {"quarantine", RollStatus("none", db[i].stock, Length[i])}
  BY <1>2, <1>3 DEF HoldFacts
<1>5. /\ i \in Items /\ i \in Rows /\ i \notin Trims /\ row = db[i] /\ e = db
      /\ RowsTyped(db) /\ ledger \in [Items -> Int] /\ DOMAIN db = Rows
  <2>1. i \in Items /\ i \in Rows /\ i \notin Trims
    BY <1>4, RowsApart
  <2>2. row = db[i]
    BY <1>4 DEF Seen
  <2>3. e = db
    BY <1>4, Committed, IdleFacts
  <2> QED
    BY <2>1, <2>2, <2>3, Committed
<1>6. db[i] \in RollRow /\ Length[i] \in Nat /\ db[i].reserved <= db[i].stock
  BY <1>4, <1>5 DEF RowsTyped, StoreAssumption
<1>7. /\ v \in RollRow /\ v.stock = db[i].stock + a /\ v.reserved = db[i].reserved + a /\ v.reserved <= v.stock
      /\ a \in Int /\ a = 0 /\ Tells(v, Length[i]) /\ v = [db[i] EXCEPT !.status = was]
  <2> DEFINE stock == db[i].stock
             length == Length[i]
  <2>1. v = [db[i] EXCEPT !.status = was] /\ a = 0 /\ db[i].stock = stock
    BY <1>5
  <2>2. stock \in Nat /\ db[i].reserved \in Nat /\ length \in Nat /\ db[i].reserved <= stock
    BY <1>6 DEF RollRow
  <2>3. was = "quarantine" \/ was = RollStatus("none", stock, length)
    BY <1>4
  <2> HIDE DEF v, was, a, stock, length, i
  <2>4. v.stock = stock /\ v.reserved = db[i].reserved /\ v.status = was
    BY <1>6, <2>1 DEF RollRow
  <2>5. Tells(v, length) /\ was \in RollStatuses
    <3>1. CASE was = "quarantine"
      BY <2>4, <3>1 DEF Tells, RollStatuses
    <3>2. CASE was = RollStatus("none", stock, length)
      <4>1. ASSUME NEW x, x.stock = stock, x.status = RollStatus("none", stock, length)
            PROVE  Tells(x, length) /\ x.status \in RollStatuses
        BY <2>2, <4>1, StatusTells
      <4> QED
        BY <2>4, <3>2, <4>1
    <3> QED
      BY <2>3, <3>1, <3>2
  <2>6. v \in RollRow
    BY <1>6, <2>1, <2>5 DEF RollRow
  <2> QED
    BY <2>1, <2>2, <2>4, <2>5, <2>6 DEF length
<1>8. PICK n : /\ Wrote(m, e, i, v, n, Over(n, db))
               /\ \A y : job' = [job EXCEPT ![s] = y] /\ y.op = j.op /\ Facts(y, n, db, ledger) => WInv'
  <2> HIDE DEF v, k, i
  <2> QED
    BY <1>1, <1>5, OneWritten
<1> DEFINE f == Over(n, db)
<1>9. Wrote(m, e, i, v, n, f) /\ f = Over(n, db)
  BY <1>8
<1>10. /\ DOMAIN k = JobFields /\ k.op = "hold" /\ k.pc = "commit" /\ k.item = i /\ k.was = was
       /\ k.posted = j.posted
  BY <1>2, <1>3 DEF JobFields
<1>11. e = db
  BY <1>5
<1> HIDE DEF k, f, e, i, was, row, v, a, j, m
<1>12. /\ ~Places(k) /\ ~Closes(k) /\ k.op # "idle" /\ k.op # "counter" /\ k.op \notin MoveOps /\ k.pc \in Points(k.op)
       /\ ~Places(j) /\ ~Closes(j) /\ \A r \in Rolls : ~Empty(j, r)
  BY <1>2, <1>10, PointsAre DEF Places, Closes, ReserveOps, CloseOps, MoveOps, Empty
<1>13. View(k, n, f, ledger)
  <2>1. /\ OnRow(j, m) = 0 /\ OnHeader(j, m) = 0 /\ OffHeader(j) = 0 /\ OnRow(k, n) = 0 /\ OnHeader(k, n) = 0
        /\ OffHeader(k) = 0
    BY <1>2, <1>10, <1>12, OtherPending
  <2>2. /\ OnRow(j, m) \in Int /\ OnHeader(j, m) \in Int /\ OffHeader(j) \in Int
        /\ OnRow(k, n) = OnRow(j, m) + a
        /\ OnHeader(k, n) = OnHeader(j, m) - a /\ OffHeader(k) = OffHeader(j) - a
    BY <1>7, <2>1
  <2>3. k.posted[i] = j.posted[i] + a /\ \A y \in Items \ {i} : k.posted[y] = j.posted[y]
    BY <1>3, <1>5, <1>7, <1>10
  <2>4. v.reserved = e[i].reserved + a /\ v.stock = e[i].stock + a
    BY <1>7, <1>11
  <2>5. /\ i \in Items /\ i \in Rolls /\ i \notin Trims /\ v \in RollRow /\ v.reserved <= v.stock /\ Tells(v, Length[i])
        /\ a \in Int /\ j.posted \in [Items -> Int] /\ ledger \in [Items -> Int]
        /\ \A r \in Rolls : ~Empty(j, r)
    BY <1>3, <1>4, <1>5, <1>7, <1>12
  <2>6. View(j, m, e, ledger) /\ Wrote(m, e, i, v, n, f)
    BY <1>3, <1>9
  <2>20. ItemWritten(j, m, e, ledger, i, v, n, f, a, a, k)
    BY <2>1, <2>2, <2>3, <2>4, <2>5, <2>6, SMTT(60) DEF ItemWritten
  <2> QED
    BY <2>20, ItemView
<1>14. DOMAIN n = {i} /\ n[i] = v /\ DOMAIN n \subseteq Rows
  BY <1>4, <1>9 DEF Wrote
<1>15. HoldFacts(k, n, db)
  BY <1>4, <1>7, <1>10, <1>14 DEF HoldFacts
<1>16. Facts(k, n, db, ledger)
  <2>1. JobTyped(k)
    BY <1>3, <1>10, <1>12 DEF JobTyped
  <2>2. PlaceFacts(k, n, db) /\ SelectFacts(k, n) /\ CloseFacts(k, n, db) /\ MoveFacts(k, n, db)
    BY <1>12 DEF PlaceFacts, SelectFacts, CloseFacts, MoveFacts
  <2> QED
    BY <1>9, <1>12, <1>13, <1>14, <1>15, <2>1, <2>2 DEF Facts
<1> QED
  BY <1>1, <1>2, <1>8, <1>10, <1>16
-----------------------------------------------------------------------------
(* A commit.  What one session commits changes the view of another by just *)
(* as much, as they never hold the same row.                               *)

\* Every term of f is the sum of those of g and h, less that of k.
Blend(f, g, h, k, S) ==
    /\ IsFiniteSet(S)
    /\ \A x \in S : g[x] \in Int /\ h[x] \in Int /\ k[x] \in Int /\ f[x] = g[x] + h[x] - k[x]

\* Then so are the sums.
LEMMA SumMixed ==
  ASSUME NEW f, NEW g, NEW h, NEW k, NEW S, Blend(f, g, h, k, S)
  PROVE  SumFunctionOnSet(f, S) = SumFunctionOnSet(g, S) + SumFunctionOnSet(h, S) - SumFunctionOnSet(k, S)
<1> USE DEF Blend
<1> DEFINE Sm(u, T) == SumFunctionOnSet(u, T)
           F == {T \in SUBSET S : Sm(f, T) = Sm(g, T) + Sm(h, T) - Sm(k, T)}
<1>1. ASSUME NEW T \in SUBSET S, \A U \in SUBSET T : U # T => U \in F
      PROVE  T \in F
  <2>1. IsFiniteSet(T)
    BY FS_Subset
  <2>2. CASE T = {}
    <3>1. Sm(f, T) = 0 /\ Sm(g, T) = 0 /\ Sm(h, T) = 0 /\ Sm(k, T) = 0
      BY <2>2, SumEmpty
    <3> HIDE DEF Sm
    <3> QED
      BY <3>1
  <2>3. CASE T # {}
    <3>1. PICK x : x \in T
      BY <2>3
    <3> DEFINE R == T \ {x}
    <3>2. R \in F
      BY <1>1, <3>1
    <3>3. IsFiniteSet(R) /\ \A y \in T : f[y] \in Int /\ g[y] \in Int /\ h[y] \in Int /\ k[y] \in Int
      BY <2>1, FS_Subset
    <3>4. Sm(g, R) \in Int /\ Sm(h, R) \in Int /\ Sm(k, R) \in Int
      BY <3>3, SumInt
    <3>5. /\ Sm(f, T) = f[x] + Sm(f, R) /\ Sm(g, T) = g[x] + Sm(g, R)
          /\ Sm(h, T) = h[x] + Sm(h, R) /\ Sm(k, T) = k[x] + Sm(k, R)
      BY <2>1, <3>1, <3>3, SumTakeOut
    <3>6. Sm(f, R) = Sm(g, R) + Sm(h, R) - Sm(k, R)
      BY <3>2
    <3>7. f[x] = g[x] + h[x] - k[x] /\ g[x] \in Int /\ h[x] \in Int /\ k[x] \in Int
      BY <3>1
    <3> HIDE DEF Sm, R
    <3>8. Sm(f, T) = Sm(g, T) + Sm(h, T) - Sm(k, T)
      BY <3>4, <3>5, <3>6, <3>7
    <3> QED
      BY <3>8
  <2> QED
    BY <2>2, <2>3
<1>2. SUBSET S \subseteq F
  <2> HIDE DEF F
  <2> QED
    BY <1>1, SubsetInduction
<1> QED
  BY <1>2

\* The rows c that one session commits over d, and how another sees the rows
\* before (e) and after (f): each row is one of the two's at most.
Mixed(d, c, e, f) == \A x \in Rows : (c[x] = d[x] /\ f[x] = e[x]) \/ (e[x] = d[x] /\ f[x] = c[x])

\* They are so mixed when two sessions hold different rows.
LEMMA MixedIs ==
  ASSUME NEW d, DOMAIN d = Rows, NEW m, NEW n, DOMAIN m \subseteq Rows, DOMAIN n \subseteq Rows,
         DOMAIN m \cap DOMAIN n = {}, NEW c, c = Over(m, d), NEW e, e = Over(n, d), NEW f, f = Over(n, c)
  PROVE  Mixed(d, c, e, f) /\ f = [x \in Rows |-> f[x]] /\ DOMAIN c = Rows
         /\ \A x \in DOMAIN n : c[x] = d[x]
<1>1. /\ DOMAIN c = Rows
      /\ \A x \in DOMAIN m : c[x] = m[x]
      /\ \A x \in Rows \ DOMAIN m : c[x] = d[x]
  BY OverIs
<1>2. /\ \A x \in DOMAIN n : e[x] = n[x]
      /\ \A x \in Rows \ DOMAIN n : e[x] = d[x]
  BY OverIs
<1>3. /\ f = [x \in Rows |-> f[x]]
      /\ \A x \in DOMAIN n : f[x] = n[x]
      /\ \A x \in Rows \ DOMAIN n : f[x] = c[x]
  BY <1>1, OverIs
<1>4. ASSUME NEW x \in Rows
      PROVE  (c[x] = d[x] /\ f[x] = e[x]) \/ (e[x] = d[x] /\ f[x] = c[x])
  <2>1. CASE x \in DOMAIN n
    BY <1>1, <1>2, <1>3, <2>1
  <2>2. CASE x \notin DOMAIN n
    BY <1>1, <1>2, <1>3, <2>2
  <2> QED
    BY <2>1, <2>2
<1> QED
  BY <1>1, <1>3, <1>4 DEF Mixed

\* The sums mix as the rows do.
LEMMA SumsMixed ==
  ASSUME StoreAssumption, NEW d, NEW c, NEW e, NEW f, RowsTyped(d), RowsTyped(c), RowsTyped(e), Mixed(d, c, e, f)
  PROVE  /\ \A i : ClaimedIn(f, i) = ClaimedIn(e, i) + ClaimedIn(c, i) - ClaimedIn(d, i)
         /\ RollsReserved(f) = RollsReserved(e) + RollsReserved(c) - RollsReserved(d)
         /\ RollsStock(f) = RollsStock(e) + RollsStock(c) - RollsStock(d)
<1>1. ASSUME NEW i PROVE ClaimedIn(f, i) = ClaimedIn(e, i) + ClaimedIn(c, i) - ClaimedIn(d, i)
  <2> DEFINE Of(u) == [x \in Claims |-> ClaimedBy(u[x], i)]
  <2>1. ASSUME NEW x \in Claims
        PROVE  /\ Of(e)[x] \in Int /\ Of(c)[x] \in Int /\ Of(d)[x] \in Int
               /\ Of(f)[x] = Of(e)[x] + Of(c)[x] - Of(d)[x]
    <3>1. e[x] \in ClaimRow /\ c[x] \in ClaimRow /\ d[x] \in ClaimRow
      BY Columns
    <3>2. ClaimedBy(e[x], i) \in Int /\ ClaimedBy(c[x], i) \in Int /\ ClaimedBy(d[x], i) \in Int
      BY <3>1, ClaimedByIs
    <3>3. x \in Rows
      BY RowsApart
    <3>4. (c[x] = d[x] /\ f[x] = e[x]) \/ (e[x] = d[x] /\ f[x] = c[x])
      BY <3>3 DEF Mixed
    <3>5. ClaimedBy(f[x], i) = ClaimedBy(e[x], i) + ClaimedBy(c[x], i) - ClaimedBy(d[x], i)
      BY <3>2, <3>4
    <3> QED
      BY <3>2, <3>5
  <2>2. /\ ClaimedIn(f, i) = SumFunctionOnSet(Of(f), Claims) /\ ClaimedIn(e, i) = SumFunctionOnSet(Of(e), Claims)
        /\ ClaimedIn(c, i) = SumFunctionOnSet(Of(c), Claims) /\ ClaimedIn(d, i) = SumFunctionOnSet(Of(d), Claims)
    BY DEF ClaimedIn
  <2> DEFINE of == Of(f)
             oe == Of(e)
             oc == Of(c)
             od == Of(d)
  <2>3. Blend(of, oe, oc, od, Claims)
    BY <2>1, RowsApart DEF Blend
  <2> HIDE DEF of, oe, oc, od
  <2>4. SumFunctionOnSet(of, Claims) = SumFunctionOnSet(oe, Claims) + SumFunctionOnSet(oc, Claims) - SumFunctionOnSet(od, Claims)
    BY <2>3, SumMixed
  <2> QED
    BY <2>2, <2>4 DEF of, oe, oc, od
<1>2. ASSUME NEW x \in Rolls
      PROVE  /\ e[x].reserved \in Int /\ c[x].reserved \in Int /\ d[x].reserved \in Int
             /\ e[x].stock \in Int /\ c[x].stock \in Int /\ d[x].stock \in Int
             /\ f[x].reserved = e[x].reserved + c[x].reserved - d[x].reserved
             /\ f[x].stock = e[x].stock + c[x].stock - d[x].stock
  <2>1. /\ e[x].reserved \in Int /\ c[x].reserved \in Int /\ d[x].reserved \in Int
        /\ e[x].stock \in Int /\ c[x].stock \in Int /\ d[x].stock \in Int
    BY Columns, RowsApart
  <2>2. (c[x] = d[x] /\ f[x] = e[x]) \/ (e[x] = d[x] /\ f[x] = c[x])
    BY RowsApart DEF Mixed
  <2> QED
    BY <2>1, <2>2
<1>3. RollsReserved(f) = RollsReserved(e) + RollsReserved(c) - RollsReserved(d)
  <2> DEFINE Of(u) == [x \in Rolls |-> u[x].reserved]
  <2>1. \A x \in Rolls : /\ Of(e)[x] \in Int /\ Of(c)[x] \in Int /\ Of(d)[x] \in Int
                         /\ Of(f)[x] = Of(e)[x] + Of(c)[x] - Of(d)[x]
    BY <1>2
  <2>2. /\ RollsReserved(f) = SumFunctionOnSet(Of(f), Rolls) /\ RollsReserved(e) = SumFunctionOnSet(Of(e), Rolls)
        /\ RollsReserved(c) = SumFunctionOnSet(Of(c), Rolls) /\ RollsReserved(d) = SumFunctionOnSet(Of(d), Rolls)
    BY DEF RollsReserved
  <2> DEFINE of == Of(f)
             oe == Of(e)
             oc == Of(c)
             od == Of(d)
  <2>3. Blend(of, oe, oc, od, Rolls)
    BY <2>1, RowsApart DEF Blend
  <2> HIDE DEF of, oe, oc, od
  <2>4. SumFunctionOnSet(of, Rolls) = SumFunctionOnSet(oe, Rolls) + SumFunctionOnSet(oc, Rolls) - SumFunctionOnSet(od, Rolls)
    BY <2>3, SumMixed
  <2> QED
    BY <2>2, <2>4 DEF of, oe, oc, od
<1>4. RollsStock(f) = RollsStock(e) + RollsStock(c) - RollsStock(d)
  <2> DEFINE Of(u) == [x \in Rolls |-> u[x].stock]
  <2>1. \A x \in Rolls : /\ Of(e)[x] \in Int /\ Of(c)[x] \in Int /\ Of(d)[x] \in Int
                         /\ Of(f)[x] = Of(e)[x] + Of(c)[x] - Of(d)[x]
    BY <1>2
  <2>2. /\ RollsStock(f) = SumFunctionOnSet(Of(f), Rolls) /\ RollsStock(e) = SumFunctionOnSet(Of(e), Rolls)
        /\ RollsStock(c) = SumFunctionOnSet(Of(c), Rolls) /\ RollsStock(d) = SumFunctionOnSet(Of(d), Rolls)
    BY DEF RollsStock
  <2> DEFINE of == Of(f)
             oe == Of(e)
             oc == Of(c)
             od == Of(d)
  <2>3. Blend(of, oe, oc, od, Rolls)
    BY <2>1, RowsApart DEF Blend
  <2> HIDE DEF of, oe, oc, od
  <2>4. SumFunctionOnSet(of, Rolls) = SumFunctionOnSet(oe, Rolls) + SumFunctionOnSet(oc, Rolls) - SumFunctionOnSet(od, Rolls)
    BY <2>3, SumMixed
  <2> QED
    BY <2>2, <2>4 DEF of, oe, oc, od
<1> QED
  BY <1>1, <1>3, <1>4

\* The view of the other session.
LEMMA ViewMixed ==
  ASSUME StoreAssumption, NEW d, NEW c, NEW e, NEW f, Mixed(d, c, e, f), f = [x \in Rows |-> f[x]],
         NEW l, l \in [Items -> Int], NEW k, View(Idle, NoRows, d, l), k \in [Items -> Int], View(Idle, NoRows, c, k),
         NEW j, NEW m, View(j, m, e, l), j.posted \in [Items -> Int],
         OnRow(j, m) \in Int, OnHeader(j, m) \in Int, OffHeader(j) \in Int
  PROVE  View(j, m, f, k)
<1> DEFINE x == AtRow(j)
           q == OnRow(j, m)
           h == OnHeader(j, m)
           g == OffHeader(j)
<1>1. /\ RowsTyped(e) /\ Counted(e, x, q, h, g) /\ q \in Int /\ h \in Int /\ g \in Int
      /\ \A r \in Rolls : Tells(e[r], Length[r]) \/ (Empty(j, r) /\ e[r] = NewRoll)
      /\ \A i \in Items : e[i].stock = l[i] + j.posted[i]
  BY DEF View
<1>2. OnRow(Idle, NoRows) = 0 /\ OnHeader(Idle, NoRows) = 0 /\ OffHeader(Idle) = 0
  BY IdleIs, OtherPending
<1>3. /\ RowsTyped(d) /\ RowsTyped(c)
      /\ Counted(d, Header, 0, 0, 0) /\ Counted(c, Header, 0, 0, 0)
      /\ \A r \in Rolls : Tells(c[r], Length[r])
      /\ \A i \in Items : d[i].stock = l[i] + 0 /\ c[i].stock = k[i] + 0
  <2>1. Counted(d, AtRow(Idle), 0, 0, 0) /\ Counted(c, AtRow(Idle), 0, 0, 0)
    BY <1>2 DEF View
  <2>2. Counted(d, Header, 0, 0, 0) /\ Counted(c, Header, 0, 0, 0)
    BY <2>1 DEF Counted
  <2>3. \A i \in Items : Idle.posted[i] = 0
    BY IdleIs DEF NoPosting
  <2> QED
    BY <2>2, <2>3, IdleIs DEF View
<1>4. \A y \in Rows : (c[y] = d[y] /\ f[y] = e[y]) \/ (e[y] = d[y] /\ f[y] = c[y])
  BY DEF Mixed
<1>5. RowsTyped(f)
  <2>1. \A y \in Rows : f[y] = e[y] \/ f[y] = c[y]
    BY <1>4
  <2>2. ASSUME NEW y \in Trims \cup {Header} PROVE f[y] \in CountRow
    BY <1>1, <1>3, <2>1, RowsApart DEF RowsTyped
  <2>3. ASSUME NEW y \in Rolls PROVE f[y] \in RollRow
    BY <1>1, <1>3, <2>1, RowsApart DEF RowsTyped
  <2>4. ASSUME NEW y \in Claims PROVE f[y] \in ClaimRow
    BY <1>1, <1>3, <2>1, RowsApart DEF RowsTyped
  <2>5. ASSUME NEW y \in Items PROVE f[y].reserved <= f[y].stock
    BY <1>1, <1>3, <2>1, RowsApart DEF RowsTyped
  <2> QED
    BY <2>2, <2>3, <2>4, <2>5 DEF RowsTyped
<1>6. /\ \A i : ClaimedIn(f, i) = ClaimedIn(e, i) + ClaimedIn(c, i) - ClaimedIn(d, i)
      /\ RollsReserved(f) = RollsReserved(e) + RollsReserved(c) - RollsReserved(d)
      /\ RollsStock(f) = RollsStock(e) + RollsStock(c) - RollsStock(d)
  BY <1>1, <1>3, SumsMixed
<1>7. /\ \A i : ClaimedIn(e, i) \in Int /\ ClaimedIn(c, i) \in Int /\ ClaimedIn(d, i) \in Int
      /\ RollsReserved(e) \in Int /\ RollsReserved(c) \in Int /\ RollsReserved(d) \in Int
      /\ RollsStock(e) \in Int /\ RollsStock(c) \in Int /\ RollsStock(d) \in Int
  BY <1>1, <1>3, SumsTyped
<1>8. ASSUME NEW i \in Items \cup {Header}
      PROVE  /\ f[i].reserved = e[i].reserved + c[i].reserved - d[i].reserved
             /\ f[i].stock = e[i].stock + c[i].stock - d[i].stock
             /\ e[i].stock \in Int /\ c[i].stock \in Int /\ d[i].stock \in Int
             /\ e[i].reserved \in Int /\ c[i].reserved \in Int /\ d[i].reserved \in Int
  <2>1. /\ e[i].reserved \in Int /\ c[i].reserved \in Int /\ d[i].reserved \in Int
        /\ e[i].stock \in Int /\ c[i].stock \in Int /\ d[i].stock \in Int
    BY <1>1, <1>3, Columns
  <2>2. (c[i] = d[i] /\ f[i] = e[i]) \/ (e[i] = d[i] /\ f[i] = c[i])
    BY <1>4, RowsApart
  <2> QED
    BY <2>1, <2>2
<1> HIDE DEF x, q, h, g
<1>9. Counted(f, x, q, h, g)
  <2>1. ASSUME NEW i \in Items PROVE f[i].reserved = ClaimedIn(f, i) + (IF i = x THEN q ELSE 0)
    <3>1. /\ e[i].reserved = ClaimedIn(e, i) + (IF i = x THEN q ELSE 0)
          /\ c[i].reserved = ClaimedIn(c, i) + (IF i = Header THEN 0 ELSE 0)
          /\ d[i].reserved = ClaimedIn(d, i) + (IF i = Header THEN 0 ELSE 0)
      BY <1>1, <1>3 DEF Counted
    <3> DEFINE p == IF i = x THEN q ELSE 0
               z == IF i = Header THEN 0 ELSE 0
    <3>2. p \in Int /\ z = 0
      BY <1>1
    <3>3. e[i].reserved = ClaimedIn(e, i) + p /\ c[i].reserved = ClaimedIn(c, i) + z /\ d[i].reserved = ClaimedIn(d, i) + z
      BY <3>1
    <3>4. f[i].reserved = e[i].reserved + c[i].reserved - d[i].reserved
      BY <1>8
    <3>5. ClaimedIn(f, i) = ClaimedIn(e, i) + ClaimedIn(c, i) - ClaimedIn(d, i)
          /\ ClaimedIn(e, i) \in Int /\ ClaimedIn(c, i) \in Int /\ ClaimedIn(d, i) \in Int
      BY <1>6, <1>7
    <3> HIDE DEF p, z
    <3>6. f[i].reserved = ClaimedIn(f, i) + p
      BY <3>2, <3>3, <3>4, <3>5
    <3> QED
      BY <3>6 DEF p
  <2>2. f[Header].reserved = RollsReserved(f) + h
    <3>1. /\ e[Header].reserved = RollsReserved(e) + h /\ c[Header].reserved = RollsReserved(c) + 0
          /\ d[Header].reserved = RollsReserved(d) + 0
      BY <1>1, <1>3 DEF Counted
    <3>2. f[Header].reserved = e[Header].reserved + c[Header].reserved - d[Header].reserved
      BY <1>8
    <3> QED
      BY <1>1, <1>6, <1>7, <3>1, <3>2
  <2>3. f[Header].stock = RollsStock(f) + g
    <3>1. /\ e[Header].stock = RollsStock(e) + g /\ c[Header].stock = RollsStock(c) + 0
          /\ d[Header].stock = RollsStock(d) + 0
      BY <1>1, <1>3 DEF Counted
    <3>2. f[Header].stock = e[Header].stock + c[Header].stock - d[Header].stock
      BY <1>8
    <3> QED
      BY <1>1, <1>6, <1>7, <3>1, <3>2
  <2> QED
    BY <2>1, <2>2, <2>3 DEF Counted
<1>10. ASSUME NEW r \in Rolls PROVE Tells(f[r], Length[r]) \/ (Empty(j, r) /\ f[r] = NewRoll)
  <2>1. f[r] = e[r] \/ f[r] = c[r]
    BY <1>4, RowsApart
  <2> QED
    BY <1>1, <1>3, <2>1
<1>11. ASSUME NEW i \in Items PROVE f[i].stock = k[i] + j.posted[i]
  <2>1. f[i].stock = e[i].stock + c[i].stock - d[i].stock
    BY <1>8
  <2>2. e[i].stock = l[i] + j.posted[i] /\ d[i].stock = l[i] + 0 /\ c[i].stock = k[i] + 0
    BY <1>1, <1>3
  <2>3. l[i] \in Int /\ k[i] \in Int /\ j.posted[i] \in Int
    OBVIOUS
  <2> QED
    BY <2>1, <2>2, <2>3
<1> QED
  BY <1>5, <1>9, <1>10, <1>11 DEF View, x, q, h, g

\* Which operations are at work when another is.
LEMMA GuardedPairs ==
  ASSUME NEW a, NEW b, {a, b} \in Guarded
  PROVE  \/ a = "reserve" /\ b \in {"issue", "release", "hold"}
         \/ b = "reserve" /\ a \in {"issue", "release", "hold"}
         \/ a \in {"issue", "release"} /\ b \in {"issue", "release"}
<1>1. CASE {a, b} \in {{x, y} : x \in {"reserve"}, y \in {"issue", "release"}}
  <2>1. PICK y \in {"issue", "release"} : {a, b} = {"reserve", y}
    BY <1>1
  <2> QED
    BY <2>1
<1>2. CASE {a, b} \in {{x, y} : x, y \in {"issue", "release"}}
  BY <1>2
<1>3. CASE {a, b} = {"reserve", "hold"}
  BY <1>3
<1> QED
  BY <1>1, <1>2, <1>3 DEF Guarded

\* The roll or trim a reservation is at is one of its plan.
LEMMA PlanAtIs ==
  ASSUME StoreAssumption, NEW j, NEW m, NEW d, PlaceFacts(j, m, d), Places(j), j.pc # "placed"
  PROVE  PlanAt(j) \in DOMAIN j.plan /\ PlanAt(j) \in Items /\ j.plan[PlanAt(j)] \in Nat \ {0}
<1>1. /\ DOMAIN j.plan # {}
      /\ DOMAIN j.plan \subseteq Rolls \/ \E t \in Trims : DOMAIN j.plan = {t}
      /\ \A i \in DOMAIN j.plan : j.plan[i] \in Nat \ {0}
  BY DEF PlaceFacts
<1>2. CASE DOMAIN j.plan \subseteq Rolls
  <2>1. IsFiniteSet(DOMAIN j.plan) /\ DOMAIN j.plan \subseteq Nat
    BY <1>2, RowsApart, FS_Subset
  <2> QED
    BY <1>1, <1>2, <2>1, EarliestIs, RowsApart DEF PlanAt
<1>3. CASE \E t \in Trims : DOMAIN j.plan = {t}
  BY <1>1, <1>3, EarliestOfOne, RowsApart DEF PlanAt
<1> QED
  BY <1>1, <1>2, <1>3

\* The allocation an issue or a release is at is one of those it has read.
LEMMA IdAtIs ==
  ASSUME StoreAssumption, NEW j, NEW m, NEW d, CloseFacts(j, m, d), Closes(j), j.pc # "commit"
  PROVE  IdAt(j) \in DOMAIN j.ids /\ j.ids[IdAt(j)].item \in Items /\ j.ids[IdAt(j)].qty \in Nat \ {0}
<1>1. /\ DOMAIN j.ids # {} /\ DOMAIN j.ids \subseteq Claims
      /\ \A c \in DOMAIN j.ids : j.ids[c].item \in Items /\ j.ids[c].qty \in Nat \ {0}
  BY DEF CloseFacts
<1>2. IsFiniteSet(DOMAIN j.ids) /\ DOMAIN j.ids \subseteq Nat
  BY <1>1, RowsApart, FS_Subset
<1> QED
  BY <1>1, <1>2, EarliestIs DEF IdAt

\* What is counted and not written down is a whole number.
LEMMA PendingTyped ==
  ASSUME StoreAssumption, NEW j, NEW m, NEW d, NEW l, Facts(j, m, d, l)
  PROVE  OnRow(j, m) \in Int /\ OnHeader(j, m) \in Int /\ OffHeader(j) \in Int /\ j.posted \in [Items -> Int]
<1>1. JobTyped(j) /\ PlaceFacts(j, m, d) /\ CloseFacts(j, m, d) /\ MoveFacts(j, m, d) /\ j.posted \in [Items -> Int]
  BY DEF Facts, JobTyped
<1>2. CASE Places(j)
  <2>1. CASE j.pc = "placed"
    BY <1>1, <1>2, <2>1, PlacePending
  <2>2. CASE j.pc # "placed"
    <3> DEFINE q == j.plan[PlanAt(j)]
    <3>1. q \in Int /\ -q \in Int
      BY <1>1, <1>2, <2>2, PlanAtIs
    <3>2. OnRow(j, m) \in {0, q} /\ OnHeader(j, m) \in {0, -q} /\ OffHeader(j) = 0
      BY <1>2, PlacePending DEF Places, Placing, OnRow, OnHeader
    <3> QED
      BY <1>1, <3>1, <3>2
  <2> QED
    BY <1>1, <2>1, <2>2
<1>3. CASE Closes(j)
  <2>1. CASE j.pc = "commit"
    BY <1>1, <1>3, <2>1, ClosePending
  <2>2. CASE j.pc # "commit"
    <3> DEFINE q == j.ids[IdAt(j)].qty
    <3>1. q \in Int
      BY <1>1, <1>3, <2>2, IdAtIs
    <3>2. OnRow(j, m) \in {0, q} /\ OnHeader(j, m) \in {0, q} /\ OffHeader(j) = 0
      BY <1>3, <2>2, ClosePending DEF Closes, Closing
    <3> QED
      BY <1>1, <3>1, <3>2
  <2> QED
    BY <2>1, <2>2
<1>4. CASE ~Places(j) /\ ~Closes(j)
  <2>1. OnRow(j, m) = 0 /\ OnHeader(j, m) = 0
    BY <1>4, OtherPending
  <2>2. CASE j.pc = "puthdr"
    <3>1. j.op # "idle"
      BY <1>1, <2>2, IdleIs DEF JobTyped
    <3>2. j.op \in ReserveOps \cup CloseOps \cup MoveOps \cup {"hold"} /\ "puthdr" \in Points(j.op)
      BY <1>1, <2>2, <3>1 DEF JobTyped
    <3>3. j.op \in MoveOps
      BY <3>2, PointsAre DEF ReserveOps, CloseOps, MoveOps, Placing, Closing
    <3>4. j.qty \in Int
      BY <1>1, <3>3 DEF MoveFacts
    <3> QED
      BY <1>1, <1>4, <2>1, <2>2, <3>4, OtherPending
  <2>3. CASE j.pc # "puthdr"
    BY <1>1, <1>4, <2>1, <2>3, OtherPending
  <2> QED
    BY <2>2, <2>3
<1> QED
  BY <1>2, <1>3, <1>4

\* What an operation has done to the rows when it commits.
LEMMA CommitsWhat ==
  ASSUME StoreAssumption, NEW j, NEW m, NEW d, NEW l, Facts(j, m, d, l), RowsTyped(d), j.op # "idle",
         j.pc \in {"placed", "commit"}, NEW c, c = Over(m, d)
  PROVE  /\ j.op = "reserve" \/ (j.op = "counter" /\ j.pc = "placed") =>
              /\ \A x \in Claims : d[x] # NoClaim => c[x] = d[x]
              /\ \A i \in Items : c[i].stock = d[i].stock
              /\ \A r \in Rolls : c[r].status = d[r].status
         /\ j.op \in {"issue", "release"} \/ (j.op = "counter" /\ j.pc = "commit") =>
              /\ \A x \in Claims : c[x] = d[x]
                   \/ (d[x].status = "reserved" /\ c[x] = IF j.op = "release" THEN Released ELSE Issued)
              /\ \A i \in Items : c[i].reserved <= d[i].reserved
              /\ \A r \in Rolls : c[r].status = "quarantine" <=> d[r].status = "quarantine"
              /\ j.op = "release" => /\ \A i \in Items : c[i].stock = d[i].stock
                                     /\ \A r \in Rolls : c[r].status = d[r].status
         /\ j.op = "hold" => \A i \in Items : c[i].reserved <= d[i].reserved
<1>1. /\ JobTyped(j) /\ DOMAIN m \subseteq Rows /\ DOMAIN d = Rows
      /\ PlaceFacts(j, m, d) /\ CloseFacts(j, m, d) /\ HoldFacts(j, m, d)
  BY DEF Facts, RowsTyped
<1>2. /\ \A x \in DOMAIN m : c[x] = m[x]
      /\ \A x \in Rows \ DOMAIN m : c[x] = d[x]
  BY <1>1, OverIs
<1>3. \A i \in Items : d[i].reserved \in Nat
  BY Columns
<1>4. j.op \in ReserveOps \cup CloseOps \cup MoveOps \cup {"hold"} /\ j.pc \in Points(j.op)
  BY <1>1 DEF JobTyped
<1>5. ASSUME j.op = "reserve" \/ (j.op = "counter" /\ j.pc = "placed")
      PROVE  /\ \A x \in Claims : d[x] # NoClaim => c[x] = d[x]
             /\ \A i \in Items : c[i].stock = d[i].stock
             /\ \A r \in Rolls : c[r].status = d[r].status
  <2>1. Places(j)
    BY <1>4, <1>5, PointsAre DEF Places, Placing, ReserveOps
  <2>2. (\A x \in DOMAIN m \cap Claims : d[x] = NoClaim) /\ SameShelf(m, d)
    BY <1>1, <2>1 DEF PlaceFacts
  <2>3. ASSUME NEW x \in Claims, d[x] # NoClaim PROVE c[x] = d[x]
    BY <1>2, <2>2, <2>3, RowsApart
  <2>4. ASSUME NEW i \in Items PROVE c[i].stock = d[i].stock
    BY <1>2, <2>2, RowsApart DEF SameShelf
  <2>5. ASSUME NEW r \in Rolls PROVE c[r].status = d[r].status
    BY <1>2, <2>2, RowsApart DEF SameShelf
  <2> QED
    BY <2>3, <2>4, <2>5
<1>6. ASSUME j.op \in {"issue", "release"} \/ (j.op = "counter" /\ j.pc = "commit")
      PROVE  /\ \A x \in Claims : c[x] = d[x]
                  \/ (d[x].status = "reserved" /\ c[x] = IF j.op = "release" THEN Released ELSE Issued)
             /\ \A i \in Items : c[i].reserved <= d[i].reserved
             /\ \A r \in Rolls : c[r].status = "quarantine" <=> d[r].status = "quarantine"
             /\ j.op = "release" => /\ \A i \in Items : c[i].stock = d[i].stock
                                    /\ \A r \in Rolls : c[r].status = d[r].status
  <2>1. Closes(j)
    BY <1>4, <1>6, PointsAre DEF Closes, Closing, CloseOps
  <2>2. /\ \A x \in DOMAIN m \cap Claims :
             d[x].status = "reserved" /\ m[x] = IF j.op = "release" THEN Released ELSE Issued
        /\ \A i \in DOMAIN m \cap Items : m[i].reserved <= d[i].reserved
        /\ j.op = "release" => SameShelf(m, d)
        /\ j.op # "release" => Cuts(j, m, d)
    BY <1>1, <2>1 DEF CloseFacts, Frees
  <2>3. ASSUME NEW x \in Claims
        PROVE  c[x] = d[x]
               \/ (d[x].status = "reserved" /\ c[x] = IF j.op = "release" THEN Released ELSE Issued)
    BY <1>2, <2>2, RowsApart
  <2>4. ASSUME NEW i \in Items PROVE c[i].reserved <= d[i].reserved
    BY <1>2, <1>3, <2>2, RowsApart
  <2>5. ASSUME j.op = "release"
        PROVE  /\ \A i \in Items : c[i].stock = d[i].stock
               /\ \A r \in Rolls : c[r].status = d[r].status
    BY <1>2, <2>2, <2>5, RowsApart DEF SameShelf
  <2>6. ASSUME NEW r \in Rolls PROVE c[r].status = "quarantine" <=> d[r].status = "quarantine"
    <3>1. CASE r \in DOMAIN m /\ j.op # "release"
      BY <1>2, <2>2, <3>1 DEF Cuts
    <3>2. CASE r \notin DOMAIN m
      BY <1>2, <3>2, RowsApart
    <3>3. CASE j.op = "release"
      BY <2>5, <3>3
    <3> QED
      BY <3>1, <3>2, <3>3
  <2> QED
    BY <2>3, <2>4, <2>5, <2>6
<1>7. ASSUME j.op = "hold", NEW i \in Items PROVE c[i].reserved <= d[i].reserved
  <2>1. j.pc = "commit"
    BY <1>4, <1>7, PointsAre
  <2>2. DOMAIN m = {j.item} /\ m[j.item] = [d[j.item] EXCEPT !.status = j.was]
    BY <1>1, <1>7, <2>1 DEF HoldFacts
  <2>3. CASE i = j.item
    <3>1. d[i] \in CountRow \cup RollRow
      BY RowsApart DEF RowsTyped
    <3>2. c[i] = [d[i] EXCEPT !.status = j.was]
      BY <1>2, <2>2, <2>3
    <3>3. c[i].reserved = d[i].reserved
      BY <3>1, <3>2 DEF CountRow, RollRow
    <3> QED
      BY <1>3, <3>3
  <2>4. CASE i # j.item
    BY <1>2, <1>3, <2>2, <2>4, RowsApart
  <2> QED
    BY <2>3, <2>4
<1> QED
  BY <1>5, <1>6, <1>7

\* What a session has read and done is still so when another has committed.
LEMMA OthersKeep ==
  ASSUME StoreAssumption, NEW d, NEW l, RowsTyped(d), View(Idle, NoRows, d, l), l \in [Items -> Int],
         NEW j, NEW m, Facts(j, m, d, l), NEW k, NEW p, Facts(k, p, d, l),
         k.op # "idle", k.pc \in {"placed", "commit"}, Apart(j, k), DOMAIN p \cap DOMAIN m = {},
         NEW c, c = Over(p, d), NEW h, h \in [Items -> Int], View(Idle, NoRows, c, h)
  PROVE  Facts(j, m, c, h)
<1> DEFINE e == Over(m, d)
           f == Over(m, c)
<1>1. /\ JobTyped(j) /\ DOMAIN m \subseteq Rows /\ DOMAIN p \subseteq Rows /\ DOMAIN d = Rows
      /\ j.op = "idle" => DOMAIN m = {}
      /\ View(j, m, e, l) /\ RowsTyped(c)
      /\ PlaceFacts(j, m, d) /\ SelectFacts(j, m) /\ CloseFacts(j, m, d)
      /\ MoveFacts(j, m, d) /\ HoldFacts(j, m, d)
  BY DEF Facts, View, RowsTyped
<1>2. Mixed(d, c, e, f) /\ f = [x \in Rows |-> f[x]] /\ \A x \in DOMAIN m : c[x] = d[x]
  <2>1. e = Over(m, d) /\ f = Over(m, c)
    OBVIOUS
  <2> HIDE DEF e, f
  <2> QED
    BY <1>1, <2>1, MixedIs
<1>3. View(j, m, f, h)
  <2>1. OnRow(j, m) \in Int /\ OnHeader(j, m) \in Int /\ OffHeader(j) \in Int /\ j.posted \in [Items -> Int]
    BY PendingTyped
  <2> HIDE DEF e, f
  <2>2. /\ Mixed(d, c, e, f) /\ f = [x \in Rows |-> f[x]] /\ l \in [Items -> Int] /\ h \in [Items -> Int]
        /\ View(Idle, NoRows, d, l) /\ View(Idle, NoRows, c, h) /\ View(j, m, e, l)
    BY <1>1, <1>2
  <2> QED
    BY <2>1, <2>2, ViewMixed
<1>4. CASE j.op = "idle"
  <2>1. j = Idle /\ DOMAIN m = {}
    BY <1>1, <1>4 DEF JobTyped
  <2> QED
    BY <2>1, IdleFacts
<1>5. CASE j.op # "idle"
  <2>1. \/ j.op = "reserve" /\ k.op \in {"issue", "release", "hold"}
        \/ k.op = "reserve" /\ j.op \in {"issue", "release", "hold"}
        \/ j.op \in {"issue", "release"} /\ k.op \in {"issue", "release"}
    <3>1. {j.op, k.op} \in Guarded
      BY <1>5 DEF Apart
    <3> QED
      BY <3>1, GuardedPairs
  <2> HIDE DEF e, f
  <2>2. /\ k.op = "reserve" =>
             /\ \A x \in Claims : d[x] # NoClaim => c[x] = d[x]
             /\ \A i \in Items : c[i].stock = d[i].stock
             /\ \A r \in Rolls : c[r].status = d[r].status
        /\ k.op \in {"issue", "release"} =>
             /\ \A x \in Claims : c[x] = d[x]
                  \/ (d[x].status = "reserved" /\ c[x] = IF k.op = "release" THEN Released ELSE Issued)
             /\ \A r \in Rolls : c[r].status = "quarantine" <=> d[r].status = "quarantine"
        /\ k.op \in {"issue", "release", "hold"} => \A i \in Items : c[i].reserved <= d[i].reserved
    BY CommitsWhat
  <2>3. PlaceFacts(j, m, c)
    <3> SUFFICES ASSUME Places(j) PROVE PlaceFacts(j, m, c)
      BY DEF PlaceFacts
    <3>1. k.op \in {"issue", "release", "hold"}
      BY <2>1 DEF Places, ReserveOps
    <3>2. ASSUME j.pc \in {"guard", "after"}, PlanAt(j) \notin DOMAIN m
          PROVE  c[PlanAt(j)].reserved <= j.was
      <4>1. PlanAt(j) \in Items /\ j.was \in Nat /\ d[PlanAt(j)].reserved <= j.was
        BY <1>1, <3>2, PlanAtIs DEF PlaceFacts
      <4>2. c[PlanAt(j)].reserved <= d[PlanAt(j)].reserved
        BY <2>2, <3>1, <4>1
      <4>3. c[PlanAt(j)].reserved \in Nat /\ d[PlanAt(j)].reserved \in Nat
        BY <1>1, <4>1, Columns
      <4> QED
        BY <4>1, <4>2, <4>3
    <3>3. SameShelf(m, c)
      BY <1>1, <1>2 DEF PlaceFacts, SameShelf
    <3>4. \A x \in j.made : c[x] = d[x]
      BY <1>1, <1>2 DEF PlaceFacts
    <3> QED
      BY <1>1, <3>2, <3>3, <3>4 DEF PlaceFacts
  <2>4. CloseFacts(j, m, c)
    <3> SUFFICES ASSUME Closes(j) PROVE CloseFacts(j, m, c)
      BY DEF CloseFacts
    <3>1. j.op \in {"issue", "release"} /\ k.op \in {"reserve", "issue", "release"}
      BY <2>1 DEF Closes, CloseOps
    <3>2. \A x \in DOMAIN m : c[x] = d[x]
      BY <1>2
    <3>3. ASSUME NEW x \in DOMAIN j.ids
          PROVE  /\ c[x] # NoClaim
                 /\ c[x].status = "reserved" => c[x].item = j.ids[x].item /\ c[x].qty = j.ids[x].qty
      <4>1. /\ x \in Claims /\ d[x] # NoClaim
            /\ d[x].status = "reserved" => d[x].item = j.ids[x].item /\ d[x].qty = j.ids[x].qty
        BY <1>1 DEF CloseFacts
      <4>2. c[x] = d[x] \/ c[x] \in {Released, Issued}
        BY <2>2, <3>1, <4>1
      <4>3. Released # NoClaim /\ Issued # NoClaim /\ Released.status # "reserved" /\ Issued.status # "reserved"
        BY DEF Released, Issued, NoClaim
      <4> QED
        BY <4>1, <4>2, <4>3
    <3>4. j.op = "release" => Frees(j, m, c)
      <4> SUFFICES ASSUME j.op = "release" PROVE Frees(j, m, c)
        OBVIOUS
      <4>1. Frees(j, m, d)
        BY <1>1 DEF CloseFacts
      <4>2. SameShelf(m, c)
        BY <3>2, <4>1 DEF Frees, SameShelf
      <4> QED
        BY <4>1, <4>2 DEF Frees
    <3>5. j.op # "release" => Cuts(j, m, c)
      <4> SUFFICES ASSUME j.op # "release" PROVE Cuts(j, m, c)
        OBVIOUS
      <4>1. Cuts(j, m, d)
        BY <1>1 DEF CloseFacts
      <4>2. \A r \in Rolls : c[r].status = "quarantine" <=> d[r].status = "quarantine"
        BY <2>2, <3>1
      <4>3. ASSUME NEW x \in DOMAIN m \cap Claims, c[x].item \in Rolls, ~(j.pc = "held" /\ x = IdAt(j))
            PROVE  c[c[x].item].status # "quarantine"
        <5>1. c[x] = d[x]
          BY <3>2
        <5>2. d[d[x].item].status # "quarantine"
          BY <4>1, <4>3, <5>1 DEF Cuts
        <5> QED
          BY <4>2, <4>3, <5>1, <5>2
      <4>4. \A i \in DOMAIN m \cap Items :
              m[i].stock - c[i].stock = m[i].reserved - c[i].reserved
                + (IF j.pc = "header" /\ i = j.ids[IdAt(j)].item THEN j.ids[IdAt(j)].qty ELSE 0)
        BY <3>2, <4>1 DEF Cuts
      <4>5. \A r \in DOMAIN m \cap Rolls : m[r].status = "quarantine" <=> c[r].status = "quarantine"
        BY <3>2, <4>1 DEF Cuts
      <4> QED
        BY <4>3, <4>4, <4>5 DEF Cuts
    <3>6. /\ DOMAIN j.ids \subseteq Claims
          /\ \A x \in DOMAIN j.ids : j.ids[x].item \in Items /\ j.ids[x].qty \in Nat \ {0}
          /\ j.pc # "commit" => DOMAIN j.ids # {}
          /\ j.pc = "commit" => DOMAIN m \cap Claims # {}
          /\ j.pc \in {"held", "unreserve", "header"} => IdAt(j) \in DOMAIN m
          /\ j.pc = "header" => j.ids[IdAt(j)].item \in DOMAIN m \cap Rolls
      BY <1>1 DEF CloseFacts
    <3>7. /\ \A x \in DOMAIN m \cap Claims :
               c[x].status = "reserved" /\ m[x] = IF j.op = "release" THEN Released ELSE Issued
          /\ \A i \in DOMAIN m \cap Items : m[i].reserved <= c[i].reserved
      BY <1>1, <3>2 DEF CloseFacts
    <3> QED
      BY <3>3, <3>4, <3>5, <3>6, <3>7 DEF CloseFacts
  <2>5. MoveFacts(j, m, c)
    BY <2>1 DEF MoveFacts, MoveOps
  <2>6. HoldFacts(j, m, c)
    <3> SUFFICES ASSUME j.op = "hold" PROVE HoldFacts(j, m, c)
      BY DEF HoldFacts
    <3>1. k.op = "reserve"
      BY <2>1
    <3>2. /\ j.item \in Rolls /\ d[j.item].status # "none" /\ j.posted = NoPosting
          /\ j.was \in {"quarantine", RollStatus("none", d[j.item].stock, Length[j.item])}
          /\ j.pc = "puthold" => DOMAIN m = {}
          /\ j.pc = "commit" => DOMAIN m = {j.item} /\ m[j.item] = [d[j.item] EXCEPT !.status = j.was]
      BY <1>1 DEF HoldFacts
    <3>3. c[j.item].status = d[j.item].status /\ c[j.item].stock = d[j.item].stock
      BY <2>2, <3>1, <3>2, RowsApart
    <3>4. j.pc = "commit" => m[j.item] = [c[j.item] EXCEPT !.status = j.was]
      BY <1>2, <3>2
    <3> QED
      BY <3>2, <3>3, <3>4 DEF HoldFacts
  <2> QED
    BY <1>1, <1>3, <2>3, <2>4, <2>5, <2>6 DEF Facts, f
<1> QED
  BY <1>4, <1>5

\* The rows that are committed, in the view of nobody.
LEMMA CommitView ==
  ASSUME StoreAssumption, NEW j, NEW m, NEW d, NEW l, Facts(j, m, d, l), l \in [Items -> Int],
         j.op # "idle", j.pc \in {"placed", "commit"},
         NEW c, c = Over(m, d), NEW h, h = [i \in Items |-> l[i] + j.posted[i]]
  PROVE  View(Idle, NoRows, c, h) /\ h \in [Items -> Int]
<1>1. View(j, m, c, l) /\ JobTyped(j) /\ j.posted \in [Items -> Int]
  BY DEF Facts, JobTyped
<1>2. OnRow(j, m) = 0 /\ OnHeader(j, m) = 0 /\ OffHeader(j) = 0
  <2>1. CASE Places(j)
    <3>1. j.pc = "placed"
      BY <2>1 DEF Places, Placing
    <3> QED
      BY <2>1, <3>1, PlacePending
  <2>2. CASE Closes(j)
    <3>1. j.pc = "commit"
      BY <2>2 DEF Closes, Closing
    <3> QED
      BY <2>2, <3>1, ClosePending
  <2>3. CASE ~Places(j) /\ ~Closes(j)
    BY <2>3, OtherPending
  <2> QED
    BY <2>1, <2>2, <2>3
<1>3. \A r \in Rolls : ~Empty(j, r)
  BY DEF Empty
<1>4. OnRow(Idle, NoRows) = 0 /\ OnHeader(Idle, NoRows) = 0 /\ OffHeader(Idle) = 0
  BY IdleIs, OtherPending
<1>5. h \in [Items -> Int]
  BY <1>1
<1>6. Counted(c, AtRow(Idle), 0, 0, 0)
  BY <1>1, <1>2 DEF View, Counted
<1>7. ASSUME NEW i \in Items PROVE c[i].stock = h[i] + Idle.posted[i]
  <2>1. c[i].stock = l[i] + j.posted[i] /\ l[i] + j.posted[i] \in Int
    BY <1>1 DEF View
  <2>2. Idle.posted[i] = 0
    BY IdleIs DEF NoPosting
  <2> QED
    BY <2>1, <2>2
<1> QED
  BY <1>1, <1>3, <1>4, <1>5, <1>6, <1>7 DEF View

\* COMMIT.
LEMMA CommitKeeps ==
  ASSUME StoreAssumption, WInv, NEW t \in Sessions, CommitJob(t)
  PROVE  WInv'
<1> DEFINE k == job[t]
           p == mine[t]
           c == Over(p, db)
           h == [i \in Items |-> ledger[i] + k.posted[i]]
           g == [k EXCEPT !.pc = "select"]
<1>1. /\ k.pc \in {"placed", "commit"} /\ db' = c /\ mine' = [mine EXCEPT ![t] = NoRows] /\ ledger' = h
      /\ \/ k.op = "counter" /\ k.pc = "placed" /\ job' = [job EXCEPT ![t] = g]
         \/ job' = [job EXCEPT ![t] = Idle]
  BY DEF CommitJob, Commit, Goto, Quit
<1>2. /\ View(Idle, NoRows, db, ledger) /\ RowsTyped(db) /\ ledger \in [Items -> Int]
      /\ DOMAIN db = Rows /\ DOMAIN mine = Sessions /\ DOMAIN job = Sessions
  BY Committed
<1>3. Facts(k, p, db, ledger)
  BY DEF WInv, Sound
<1>4. k.op # "idle"
  BY <1>1, <1>3, IdleIs DEF Facts, JobTyped
<1>5. c = Over(p, db) /\ h = [i \in Items |-> ledger[i] + k.posted[i]]
  OBVIOUS
<1>6. DOMAIN NoRows = {}
  BY DEF NoRows
<1>7. DOMAIN k = JobFields /\ (k.op = "counter" /\ k.pc = "placed" => k.posted = NoPosting /\ k.made \subseteq Claims)
  BY <1>3 DEF Facts, JobTyped, PlaceFacts, Places, ReserveOps, Placing
<1>8. DOMAIN g = JobFields /\ g.op = k.op /\ g.pc = "select" /\ g.posted = k.posted /\ g.made = k.made
  BY <1>7 DEF JobFields
<1> HIDE DEF k, p, c, h, g
<1>9. View(Idle, NoRows, c, h) /\ h \in [Items -> Int]
  BY <1>1, <1>2, <1>3, <1>4, <1>5, CommitView
<1>10. /\ mine'[t] = NoRows /\ DOMAIN mine' = Sessions /\ DOMAIN job' = Sessions
       /\ \A s \in Sessions \ {t} : mine'[s] = mine[s] /\ job'[s] = job[s]
       /\ job'[t] = Idle \/ (job'[t] = g /\ k.op = "counter" /\ k.pc = "placed")
  BY <1>1, <1>2
<1>11. Facts(job'[t], mine'[t], c, h)
  <2>1. CASE job'[t] = Idle
    BY <1>6, <1>9, <1>10, <2>1, IdleFacts
  <2>2. CASE job'[t] = g /\ k.op = "counter" /\ k.pc = "placed"
    <3>1. Over(NoRows, c) = c
      BY <1>6, <1>9, IdleFacts
    <3>2. /\ ~Places(g) /\ ~Closes(g) /\ g.op # "idle" /\ g.op \notin MoveOps /\ g.op # "hold"
          /\ g.op \in ReserveOps /\ g.pc \in Points(g.op)
      BY <1>8, <2>2, PointsAre DEF Places, Closes, Placing, Closing, MoveOps, ReserveOps
    <3>3. View(g, NoRows, c, h)
      <4>1. OnRow(g, NoRows) = 0 /\ OnHeader(g, NoRows) = 0 /\ OffHeader(g) = 0
        BY <1>8, <3>2, OtherPending
      <4> QED
        BY <1>7, <1>8, <1>9, <2>2, <4>1, ViewFirst
    <3>4. JobTyped(g)
      BY <1>7, <1>8, <2>2, <3>2 DEF JobTyped, NoPosting
    <3>5. SelectFacts(g, NoRows)
      BY <1>6, <1>7, <1>8, <2>2 DEF SelectFacts
    <3>6. PlaceFacts(g, NoRows, c) /\ CloseFacts(g, NoRows, c) /\ MoveFacts(g, NoRows, c) /\ HoldFacts(g, NoRows, c)
      BY <3>2 DEF PlaceFacts, CloseFacts, MoveFacts, HoldFacts
    <3>7. Facts(g, NoRows, c, h)
      BY <1>6, <3>1, <3>2, <3>3, <3>4, <3>5, <3>6 DEF Facts
    <3> QED
      BY <1>10, <2>2, <3>7
  <2> QED
    BY <1>10, <2>1, <2>2
<1>12. ASSUME NEW s \in Sessions, s # t PROVE Facts(job'[s], mine'[s], c, h)
  <2>1. Facts(job[s], mine[s], db, ledger) /\ Apart(job[s], k) /\ DOMAIN p \cap DOMAIN mine[s] = {}
    BY <1>12 DEF WInv, Sound, k, p
  <2>2. Facts(job[s], mine[s], c, h)
    BY <1>1, <1>2, <1>3, <1>4, <1>5, <1>9, <2>1, OthersKeep
  <2> QED
    BY <1>10, <1>12, <2>2
<1>13. ASSUME NEW s \in Sessions, NEW u \in Sessions, s # u
       PROVE  Apart(job'[s], job'[u]) /\ DOMAIN mine'[s] \cap DOMAIN mine'[u] = {}
  <2>1. Apart(job[s], job[u]) /\ DOMAIN mine[s] \cap DOMAIN mine[u] = {}
    BY <1>13 DEF WInv, Sound
  <2>2. \A x \in Sessions : job'[x].op \in {job[x].op, "idle"} /\ (mine'[x] = mine[x] \/ DOMAIN mine'[x] = {})
    <3>1. job'[t].op \in {job[t].op, "idle"}
      BY <1>8, <1>10, IdleIs DEF k
    <3> QED
      BY <1>6, <1>10, <3>1
  <2>3. Apart(job'[s], job'[u])
    BY <2>1, <2>2 DEF Apart
  <2>4. DOMAIN mine'[s] \cap DOMAIN mine'[u] = {}
    BY <2>1, <2>2
  <2> QED
    BY <2>3, <2>4
<1>14. /\ View(Idle, NoRows, db', ledger') /\ ledger' \in [Items -> Int]
       /\ \A s \in Sessions : Facts(job'[s], mine'[s], db', ledger')
  BY <1>1, <1>9, <1>11, <1>12
<1> QED
  BY <1>10, <1>13, <1>14 DEF WInv, Sound
-----------------------------------------------------------------------------
(* The invariant of the whole store.                                       *)

\* An empty store is sound.
LEMMA InitSound ==
  ASSUME StoreAssumption, Init
  PROVE  WInv
<1>1. /\ DOMAIN mine = Sessions /\ DOMAIN job = Sessions
      /\ \A s \in Sessions : mine[s] = NoRows /\ job[s] = Idle
      /\ ledger \in [Items -> Int] /\ \A i \in Items : ledger[i] = 0
      /\ DOMAIN NoRows = {}
  BY DEF Init, NoRows
<1>2. /\ db = [x \in Rows |-> db[x]]
      /\ \A r \in Rolls : db[r] = NoRoll
      /\ \A c \in Claims : db[c] = NoClaim
      /\ \A x \in Trims \cup {Header} : db[x] = [stock |-> 0, reserved |-> 0]
  BY RowsApart DEF Init, Rows
<1>3. /\ NoRoll \in RollRow /\ NoRoll.stock = 0 /\ NoRoll.reserved = 0 /\ NoRoll.status = "none"
      /\ NoClaim \in ClaimRow /\ NoClaim.status # "reserved"
      /\ [stock |-> 0, reserved |-> 0] \in CountRow
  BY DEF NoRoll, NoClaim, RollRow, RollStatuses, ClaimRow, CountRow
<1>4. \A i \in Items \cup {Header} : db[i].stock = 0 /\ db[i].reserved = 0
  BY <1>2, <1>3, RowsApart
<1>5. RowsTyped(db)
  BY <1>2, <1>3, <1>4 DEF RowsTyped
<1>6. \A r \in Rolls : Tells(db[r], Length[r])
  BY <1>2, <1>3 DEF Tells
<1>7. \A i : ClaimedIn(db, i) = 0
  <2> SUFFICES ASSUME NEW i PROVE ClaimedIn(db, i) = 0
    OBVIOUS
  <2> DEFINE f == [c \in Claims |-> ClaimedBy(db[c], i)]
  <2>1. \A c \in Claims : f[c] = 0
    BY <1>2, <1>3 DEF ClaimedBy
  <2>2. ClaimedIn(db, i) = SumFunctionOnSet(f, Claims)
    BY DEF ClaimedIn
  <2> HIDE DEF f
  <2> QED
    BY <2>1, <2>2, SumZero, RowsApart
<1>8. RollsReserved(db) = 0
  <2> DEFINE f == [r \in Rolls |-> db[r].reserved]
  <2>1. \A r \in Rolls : f[r] = 0
    BY <1>4, RowsApart
  <2>2. RollsReserved(db) = SumFunctionOnSet(f, Rolls)
    BY DEF RollsReserved
  <2> HIDE DEF f
  <2> QED
    BY <2>1, <2>2, SumZero, RowsApart
<1>9. RollsStock(db) = 0
  <2> DEFINE f == [r \in Rolls |-> db[r].stock]
  <2>1. \A r \in Rolls : f[r] = 0
    BY <1>4, RowsApart
  <2>2. RollsStock(db) = SumFunctionOnSet(f, Rolls)
    BY DEF RollsStock
  <2> HIDE DEF f
  <2> QED
    BY <2>1, <2>2, SumZero, RowsApart
<1>10. OnRow(Idle, NoRows) = 0 /\ OnHeader(Idle, NoRows) = 0 /\ OffHeader(Idle) = 0
  BY IdleIs, OtherPending
<1>11. Counted(db, AtRow(Idle), 0, 0, 0)
  BY <1>4, <1>7, <1>8, <1>9 DEF Counted
<1>12. \A i \in Items : db[i].stock = ledger[i] + Idle.posted[i]
  <2>1. \A i \in Items : Idle.posted[i] = 0
    BY IdleIs DEF NoPosting
  <2> QED
    BY <1>1, <1>4, <2>1
<1>13. View(Idle, NoRows, db, ledger)
  BY <1>5, <1>6, <1>10, <1>11, <1>12 DEF View
<1>14. ASSUME NEW s \in Sessions PROVE Facts(job[s], mine[s], db, ledger)
  <2>1. Facts(Idle, NoRows, db, ledger)
    BY <1>1, <1>13, IdleFacts
  <2>2. job[s] = Idle /\ mine[s] = NoRows
    BY <1>1
  <2> QED
    BY <2>1, <2>2
<1>15. \A s, t \in Sessions : s # t => Apart(job[s], job[t]) /\ DOMAIN mine[s] \cap DOMAIN mine[t] = {}
  BY <1>1, IdleIs DEF Apart
<1> QED
  BY <1>1, <1>13, <1>14, <1>15 DEF WInv, Sound

\* Every step preserves it.
LEMMA NextKeeps ==
  ASSUME StoreAssumption, Safe, WInv, [Next]_vars
  PROVE  WInv'
<1>1. CASE UNCHANGED vars
  BY <1>1 DEF vars, WInv
<1>2. ASSUME NEW s \in Sessions, Start(s) PROVE WInv'
  <2>1. CASE \E o \in Orders, i \in {Header} \cup Trims, q \in Qtys, op \in ReserveOps : BeginReserve(s, op, o, i, q)
    BY <2>1, BeginReserveKeeps
  <2>2. CASE \E o \in Orders : BeginIssue(s, o)
    BY <2>2, BeginIssueKeeps
  <2>3. CASE \E c \in Claims : BeginRelease(s, c)
    BY <2>3, BeginReleaseKeeps
  <2>4. CASE \E r \in Rolls : BeginReceiveRoll(s, r)
    BY <2>4, BeginReceiveRollKeeps
  <2>5. CASE \E t \in Trims, q \in Qtys : BeginReceiveQty(s, t, q)
    BY <2>5, BeginMoveKeeps
  <2>6. CASE \E r \in Rolls, q \in Bits : BeginReturn(s, r, q)
    BY <2>6, BeginMoveKeeps
  <2>7. CASE \E i \in Items, q \in Bits, sign \in {-1, 1} : BeginAdjust(s, i, sign * q)
    <3>1. PICK i \in Items, q \in Bits, sign \in {-1, 1} : BeginAdjust(s, i, sign * q)
      BY <2>7
    <3> QED
      BY <3>1, BeginMoveKeeps
  <2>8. CASE \E r \in Rolls, hold \in BOOLEAN : BeginHold(s, r, hold)
    BY <2>8, BeginHoldKeeps
  <2> QED
    BY <1>2, <2>1, <2>2, <2>3, <2>4, <2>5, <2>6, <2>7, <2>8 DEF Start
<1>3. ASSUME NEW s \in Sessions, Work(s) PROVE WInv'
  <2>1. CASE ReadBefore(s) \/ GuardedReserve(s) \/ ReadAfter(s) \/ Mirror(s) \/ Alloc(s)
    BY <2>1, ReadBeforeKeeps, GuardedReserveKeeps, ReadAfterKeeps, MirrorKeeps, AllocKeeps
  <2>2. CASE CounterSelect(s) \/ Claim(s) \/ CheckHeld(s)
    BY <2>2, CounterSelectKeeps, ClaimKeeps, CheckHeldKeeps
  <2>3. CASE UnreserveTrim(s) \/ UnreserveRoll(s) \/ UnreserveHeader(s)
    BY <2>3, UnreserveTrimKeeps, UnreserveRollKeeps, UnreserveHeaderKeeps
  <2>4. CASE ReadRow(s) \/ ReadHeader(s) \/ PutRow(s) \/ PutHeader(s) \/ PutHold(s)
    BY <2>4, ReadRowKeeps, ReadHeaderKeeps, PutRowKeeps, PutHeaderKeeps, PutHoldKeeps
  <2>5. CASE CommitJob(s)
    BY <2>5, CommitKeeps
  <2>6. CASE Raced(s) \/ AlreadyClosed(s) \/ LockTimeout(s)
    <3>1. Abort(s)
      BY <2>6 DEF Raced, AlreadyClosed, LockTimeout
    <3> QED
      BY <3>1, AbortKeeps
  <2> QED
    BY <1>3, <2>1, <2>2, <2>3, <2>4, <2>5, <2>6 DEF Work
<1> QED
  BY <1>1, <1>2, <1>3 DEF Next

\* It holds at every moment.
LEMMA AlwaysSound ==
  ASSUME Safe
  PROVE  Spec => []WInv
<1>1. Init => WInv
  BY StoreAssumption, InitSound
<1>2. WInv /\ [Next]_vars => WInv'
  BY StoreAssumption, NextKeeps
<1> QED
  BY <1>1, <1>2, PTL DEF Spec

\* What a session has written is a function of rows.
IsMap(m) == m = [x \in DOMAIN m |-> m[x]]
Functional == \A s \in Sessions : IsMap(mine[s])

\* A step writes rows of one session, and only a commit writes the tables.
Writes ==
    \/ UNCHANGED <<db, mine>>
    \/ \E s \in Sessions : /\ \E n : IsMap(n) /\ mine' = [mine EXCEPT ![s] = n]
                           /\ db' = db \/ CommitJob(s)

\* Every step is such a step.
LEMMA StepWrites ==
  ASSUME [Next]_vars
  PROVE  Writes
<1>1. IsMap(NoRows)
  BY DEF NoRows, IsMap
<1>2. ASSUME NEW m, NEW n PROVE IsMap(Over(m, n))
  BY DEF Over, IsMap
<1>3. ASSUME NEW s \in Sessions, NEW r, NEW v, Write(s, r, v) PROVE Writes
  <2> DEFINE n == Over([x \in {r} |-> v], mine[s])
  <2>1. mine' = [mine EXCEPT ![s] = n] /\ db' = db
    BY <1>3 DEF Write
  <2>2. IsMap(n)
    BY <1>2
  <2> HIDE DEF n
  <2> QED
    BY <2>1, <2>2 DEF Writes
<1>4. ASSUME NEW s \in Sessions, NEW rows, WriteAll(s, rows) PROVE Writes
  <2> DEFINE n == Over(rows, mine[s])
  <2>1. mine' = [mine EXCEPT ![s] = n] /\ db' = db
    BY <1>4 DEF WriteAll
  <2>2. IsMap(n)
    BY <1>2
  <2> HIDE DEF n
  <2> QED
    BY <2>1, <2>2 DEF Writes
<1>5. ASSUME NEW s \in Sessions, Abort(s) PROVE Writes
  <2>1. mine' = [mine EXCEPT ![s] = NoRows] /\ db' = db
    BY <1>5 DEF Abort, Rollback
  <2> QED
    BY <1>1, <2>1 DEF Writes
<1>6. ASSUME NEW s \in Sessions, CommitJob(s) PROVE Writes
  <2>1. mine' = [mine EXCEPT ![s] = NoRows]
    BY <1>6 DEF CommitJob, Commit
  <2> QED
    BY <1>1, <1>6, <2>1 DEF Writes
<1>7. ASSUME Read PROVE Writes
  BY <1>7 DEF Read, Writes
<1>8. CASE UNCHANGED vars
  BY <1>8 DEF vars, Writes
<1>9. ASSUME NEW s \in Sessions, NEW j, Begin(s, j) PROVE Writes
  BY <1>7, <1>9 DEF Begin
<1>10. ASSUME NEW s \in Sessions, Start(s) PROVE Writes
  <2>1. CASE \E r \in Rolls : BeginReceiveRoll(s, r)
    BY <1>3, <2>1 DEF BeginReceiveRoll
  <2>2. CASE \E o \in Orders, i \in {Header} \cup Trims, q \in Qtys, op \in ReserveOps : BeginReserve(s, op, o, i, q)
    BY <1>9, <2>2 DEF BeginReserve
  <2>3. CASE \E o \in Orders : BeginIssue(s, o)
    BY <1>9, <2>3 DEF BeginIssue
  <2>4. CASE \E c \in Claims : BeginRelease(s, c)
    BY <1>9, <2>4 DEF BeginRelease
  <2>5. CASE \E t \in Trims, q \in Qtys : BeginReceiveQty(s, t, q)
    BY <1>9, <2>5 DEF BeginReceiveQty
  <2>6. CASE \E r \in Rolls, q \in Bits : BeginReturn(s, r, q)
    BY <1>9, <2>6 DEF BeginReturn
  <2>7. CASE \E i \in Items, q \in Bits, sign \in {-1, 1} : BeginAdjust(s, i, sign * q)
    BY <1>9, <2>7 DEF BeginAdjust
  <2>8. CASE \E r \in Rolls, hold \in BOOLEAN : BeginHold(s, r, hold)
    BY <1>9, <2>8 DEF BeginHold
  <2> QED
    BY <1>10, <2>1, <2>2, <2>3, <2>4, <2>5, <2>6, <2>7, <2>8 DEF Start
<1>11. ASSUME NEW s \in Sessions, Work(s) PROVE Writes
  <2>1. CASE ReadBefore(s) \/ ReadAfter(s) \/ CounterSelect(s)
    BY <1>7, <2>1 DEF ReadBefore, ReadAfter, CounterSelect
  <2>2. CASE GuardedReserve(s)
    BY <1>3, <1>7, <2>2 DEF GuardedReserve
  <2>3. CASE Mirror(s)
    BY <1>3, <2>3 DEF Mirror
  <2>4. CASE Alloc(s)
    <3>1. PICK c \in Claims : Write(s, c, [status |-> "reserved", order |-> job[s].order,
                                          item |-> PlanItem(s), qty |-> PlanTake(s)])
      BY <2>4, Zenon DEF Alloc
    <3> QED
      BY <1>3, <3>1
  <2>5. CASE Claim(s)
    BY <1>3, <2>5 DEF Claim
  <2>6. CASE CheckHeld(s)
    BY <1>5, <1>7, <2>6 DEF CheckHeld
  <2>7. CASE UnreserveTrim(s)
    BY <1>3, <1>5, <2>7 DEF UnreserveTrim
  <2>8. CASE UnreserveRoll(s)
    BY <1>3, <2>8 DEF UnreserveRoll
  <2>9. CASE UnreserveHeader(s)
    BY <1>3, <1>4, <1>5, <2>9 DEF UnreserveHeader
  <2>10. CASE ReadRow(s) \/ ReadHeader(s)
    BY <1>5, <1>7, <2>10 DEF ReadRow, ReadHeader
  <2>11. CASE PutRow(s) \/ PutHeader(s) \/ PutHold(s)
    BY <1>3, <2>11 DEF PutRow, PutHeader, PutHold
  <2>12. CASE Raced(s) \/ AlreadyClosed(s) \/ LockTimeout(s) \/ CommitJob(s)
    BY <1>5, <1>6, <2>12 DEF Raced, AlreadyClosed, LockTimeout
  <2> QED
    BY <1>11, <2>1, <2>2, <2>3, <2>4, <2>5, <2>6, <2>7, <2>8, <2>9, <2>10, <2>11, <2>12 DEF Work
<1> QED
  BY <1>8, <1>10, <1>11 DEF Next

\* What a session has written stays a function of rows.
LEMMA FunctionalKept ==
  ASSUME WInv, Functional, [Next]_vars
  PROVE  Functional'
<1>1. DOMAIN mine = Sessions
  BY DEF WInv, Sound
<1>2. CASE mine' = mine
  BY <1>2 DEF Functional
<1>3. ASSUME NEW s \in Sessions, NEW n, IsMap(n), mine' = [mine EXCEPT ![s] = n]
      PROVE  Functional'
  <2>1. ASSUME NEW t \in Sessions PROVE IsMap(mine'[t])
    <3>1. CASE t = s
      BY <1>1, <1>3, <3>1
    <3>2. CASE t # s
      <4>1. mine'[t] = mine[t]
        BY <1>1, <1>3, <3>2
      <4> QED
        BY <4>1 DEF Functional
    <3> QED
      BY <3>1, <3>2
  <2> QED
    BY <2>1 DEF Functional
<1>4. Writes
  BY StepWrites
<1> QED
  BY <1>2, <1>3, <1>4 DEF Writes

\* The committed figures of a sound store.
LEMMA SoundFigures ==
  ASSUME StoreAssumption, WInv
  PROVE  /\ RowsTyped(db) /\ \A r \in Rolls : Tells(db[r], Length[r])
         /\ Counted(db, Header, 0, 0, 0)
         /\ \A i \in Items : db[i].stock = ledger[i]
         /\ ledger \in [Items -> Int]
<1>1. View(Idle, NoRows, db, ledger) /\ ledger \in [Items -> Int]
  BY Committed
<1>2. OnRow(Idle, NoRows) = 0 /\ OnHeader(Idle, NoRows) = 0 /\ OffHeader(Idle) = 0
  BY IdleIs, OtherPending
<1>3. Counted(db, AtRow(Idle), 0, 0, 0)
  BY <1>1, <1>2 DEF View
<1>4. Counted(db, Header, 0, 0, 0)
  BY <1>3 DEF Counted
<1>5. \A i \in Items : Idle.posted[i] = 0
  BY IdleIs DEF NoPosting
<1>6. ASSUME NEW i \in Items PROVE db[i].stock = ledger[i]
  <2>1. db[i].stock = ledger[i] + Idle.posted[i]
    BY <1>1 DEF View
  <2> QED
    BY <1>1, <1>5, <2>1
<1> QED
  BY <1>1, <1>4, <1>6, IdleIs DEF View

\* What the invariant says of the rows.
LEMMA SoundRows ==
  ASSUME StoreAssumption, WInv
  PROVE  RowsTrue
<1>1. /\ RowsTyped(db) /\ \A r \in Rolls : Tells(db[r], Length[r])
      /\ Counted(db, Header, 0, 0, 0)
      /\ \A i \in Items : db[i].stock = ledger[i]
      /\ ledger \in [Items -> Int]
  BY SoundFigures
<1>2. TypeOK
  <2>1. DOMAIN db = Items \cup Claims \cup {Header}
    BY <1>1, Columns DEF Rows
  <2>2. \A s \in Sessions : DOMAIN mine[s] \subseteq DOMAIN db
    <3>1. ASSUME NEW s \in Sessions PROVE DOMAIN mine[s] \subseteq Rows
      <4>1. Facts(job[s], mine[s], db, ledger)
        BY DEF WInv, Sound
      <4> QED
        BY <4>1 DEF Facts
    <3>2. Rows = DOMAIN db
      BY <2>1 DEF Rows
    <3> QED
      BY <3>1, <3>2, Zenon
  <2>3. \A c \in Claims : db[c].status \in {"none", "reserved", "issued", "released"}
    BY <1>1, Columns DEF ClaimRow, OpenClaim, NoClaim, Issued, Released
  <2> QED
    BY <1>1, <2>1, <2>2, <2>3, Columns DEF TypeOK, RollStatuses
<1>3. HeaderIsSum
  BY <1>1, SumsTyped DEF Counted, HeaderIsSum, RollsStock, RollsReserved
<1>4. LedgerTrue
  BY <1>1 DEF LedgerTrue
<1>5. StatusTrue
  <2>1. NoRoll.stock = 0
    BY DEF NoRoll
  <2> QED
    BY <1>1 DEF StatusTrue, Tells
<1> QED
  BY <1>2, <1>3, <1>4, <1>5 DEF RowsTrue

\* What it says of the reservations.
LEMMA SoundBacked ==
  ASSUME StoreAssumption, WInv, Functional
  PROVE  Backed
<1>1. RowsTyped(db) /\ Counted(db, Header, 0, 0, 0)
  BY SoundFigures
<1>2. ASSUME NEW i \in Items PROVE db[i].reserved = ClaimedIn(db, i) /\ db[i].reserved <= db[i].stock
  <2>1. db[i].reserved = ClaimedIn(db, i) + 0
    BY <1>1, RowsApart DEF Counted
  <2> QED
    BY <1>1, <2>1, Columns, SumsTyped
<1>3. db[Header].reserved <= db[Header].stock
  <2> DEFINE f == [r \in Rolls |-> db[r].reserved]
             g == [r \in Rolls |-> db[r].stock]
  <2>1. \A r \in Rolls : f[r] \in Int /\ g[r] \in Int /\ f[r] <= g[r]
    BY <1>1, Columns, RowsApart
  <2>2. RollsReserved(db) = SumFunctionOnSet(f, Rolls) /\ RollsStock(db) = SumFunctionOnSet(g, Rolls)
    BY DEF RollsReserved, RollsStock
  <2> HIDE DEF f, g
  <2>3. RollsReserved(db) <= RollsStock(db)
    <3>1. IsFiniteSet(Rolls)
      BY RowsApart
    <3>2. SumFunctionOnSet(f, Rolls) <= SumFunctionOnSet(g, Rolls)
      BY <2>1, <3>1, SumMonotone
    <3> QED
      BY <2>2, <3>2
  <2>4. db[Header].reserved = RollsReserved(db) + 0 /\ db[Header].stock = RollsStock(db) + 0
    BY <1>1 DEF Counted
  <2> QED
    BY <1>1, <2>3, <2>4, SumsTyped
<1>4. NothingLeftOpen
  <2> SUFFICES ASSUME NEW s \in Sessions, job[s].op = "idle" PROVE mine[s] = NoRows
    BY DEF NothingLeftOpen
  <2>1. DOMAIN mine[s] = {}
    BY DEF WInv, Sound, Facts
  <2>2. mine[s] = [x \in DOMAIN mine[s] |-> mine[s][x]]
    BY DEF Functional, IsMap
  <2> QED
    BY <2>1, <2>2 DEF NoRows
<1> QED
  BY <1>2, <1>3, <1>4 DEF Backed

\* The figures of the store are what its movements, its rolls and its statuses
\* say: the header row is the sum of the rolls, every counter the sum of its
\* movements, and no status hides metres (_move_stock, _try_reserve, _roll_status).
THEOREM StoreRowsTrue ==
  ASSUME Safe
  PROVE  Spec => []RowsTrue
<1>1. Spec => []WInv
  BY AlwaysSound
<1>2. WInv => RowsTrue
  BY StoreAssumption, SoundRows
<1> QED
  BY <1>1, <1>2, PTL

\* Reserved counters are exactly the open allocations, the shelf covers them,
\* and a request that ended has left nothing half done, however reservations,
\* issues, releases and holds interleave (_try_reserve, _claim, _release).
THEOREM StoreBacked ==
  ASSUME Safe
  PROVE  Spec => []Backed
<1>1. Spec => []WInv
  BY AlwaysSound
<1>2. ASSUME Init PROVE Functional
  <2>1. IsMap(NoRows)
    BY DEF NoRows, IsMap
  <2>2. ASSUME NEW s \in Sessions PROVE IsMap(mine[s])
    <3>1. mine[s] = NoRows
      BY <1>2 DEF Init
    <3> QED
      BY <2>1, <3>1
  <2> QED
    BY <2>2, Zenon DEF Functional
<1>3. WInv /\ Functional /\ [Next]_vars => Functional'
  BY FunctionalKept
<1>4. WInv /\ Functional => Backed
  BY StoreAssumption, SoundBacked
<1> QED
  BY <1>1, <1>2, <1>3, <1>4, PTL DEF Spec

-----------------------------------------------------------------------------
(* The statements do what the operations promise.                          *)

\* WarehouseStock takes sums from the same module.
LEMMA SameSums ==
  ASSUME NEW f, NEW S
  PROVE  Stock!SumFunctionOnSet(f, S) = SumFunctionOnSet(f, S)
BY DEF Stock!SumFunctionOnSet, SumFunctionOnSet, Stock!FoldFunctionOnSet, FoldFunctionOnSet,
       Stock!MapThenFoldSet, MapThenFoldSet

\* What the promise counts as claimed is what the open allocations add up to.
LEMMA ClaimedAre ==
  ASSUME NEW cs, NEW d, \A c \in Claims : cs[c] = d[c], NEW i
  PROVE  Stock!ClaimedOf(cs, i) = ClaimedIn(d, i)
<1> DEFINE f == [c \in Claims |-> IF cs[c].status = "reserved" /\ cs[c].item = i THEN cs[c].qty ELSE 0]
           g == [c \in Claims |-> ClaimedBy(d[c], i)]
<1>1. f = g
  BY DEF ClaimedBy
<1>2. Stock!ClaimedOf(cs, i) = Stock!SumFunctionOnSet(f, Claims)
  BY DEF Stock!ClaimedOf
<1>3. ClaimedIn(d, i) = SumFunctionOnSet(g, Claims)
  BY DEF ClaimedIn
<1> HIDE DEF f, g
<1> QED
  BY <1>1, <1>2, <1>3, SameSums

\* The committed reservations are the open allocations.
ClaimsMatch == RowsTyped(db) /\ \A i \in Items : db[i].reserved = ClaimedIn(db, i)

\* A sound store matches them.
LEMMA SoundMatch ==
  ASSUME StoreAssumption, WInv
  PROVE  ClaimsMatch
<1>1. RowsTyped(db) /\ Counted(db, Header, 0, 0, 0)
  BY SoundFigures
<1>2. ASSUME NEW i \in Items PROVE db[i].reserved = ClaimedIn(db, i)
  <2>1. db[i].reserved = ClaimedIn(db, i) + 0
    BY <1>1, RowsApart DEF Counted
  <2> QED
    BY <1>1, <2>1, SumsTyped
<1> QED
  BY <1>1, <1>2 DEF ClaimsMatch

\* The shelf and the claims, before and after a step.
LEMMA ShelfIs ==
  ASSUME StoreAssumption, ClaimsMatch, ClaimsMatch', NEW i \in Items
  PROVE  /\ OnHand[i] = db[i].stock /\ OnHand'[i] = db'[i].stock
         /\ Stock!Claimed(i) = db[i].reserved /\ Stock!ClaimedOf(Allocations', i) = db'[i].reserved
         /\ db[i].stock \in Nat /\ db'[i].stock \in Nat /\ db[i].reserved \in Nat /\ db'[i].reserved \in Nat
         /\ db'[i].reserved <= db'[i].stock
<1>1. OnHand[i] = db[i].stock /\ OnHand'[i] = db'[i].stock
  BY DEF OnHand
<1>2. RowsTyped(db) /\ db[i].reserved = ClaimedIn(db, i)
  BY DEF ClaimsMatch
<1>3. RowsTyped(db') /\ db'[i].reserved = ClaimedIn(db', i)
  BY DEF ClaimsMatch
<1>4. (\A c \in Claims : Allocations[c] = db[c]) /\ \A c \in Claims : Allocations'[c] = db'[c]
  BY DEF Allocations
<1>5. Stock!ClaimedOf(Allocations, i) = ClaimedIn(db, i)
  BY <1>4, ClaimedAre
<1>6. Stock!ClaimedOf(Allocations', i) = ClaimedIn(db', i)
  BY <1>4, ClaimedAre
<1>7. Stock!Claimed(i) = db[i].reserved
  BY <1>2, <1>5 DEF Stock!Claimed
<1>8. db[i].stock \in Nat /\ db[i].reserved \in Nat
  BY <1>2, Columns
<1>9. db'[i].stock \in Nat /\ db'[i].reserved \in Nat /\ db'[i].reserved <= db'[i].stock
  BY <1>3, Columns
<1> QED
  BY <1>1, <1>3, <1>6, <1>7, <1>8, <1>9

\* What commits: a placed reservation, a batch of closed allocations, a move
\* or a hold.
LEMMA CommitIs ==
  ASSUME StoreAssumption, WInv, NEW s \in Sessions, CommitJob(s),
         NEW j, j = job[s], NEW m, m = mine[s]
  PROVE  /\ Facts(j, m, db, ledger) /\ DOMAIN m \subseteq Rows /\ DOMAIN db = Rows
         /\ \A x \in DOMAIN m : db'[x] = m[x]
         /\ \A x \in Rows \ DOMAIN m : db'[x] = db[x]
         /\ \/ Places(j) /\ j.pc = "placed"
            \/ Closes(j) /\ j.pc = "commit"
            \/ j.op \in MoveOps /\ j.pc = "commit"
            \/ j.op = "hold" /\ j.pc = "commit"
<1>1. j.pc \in {"placed", "commit"} /\ db' = Over(m, db)
  BY DEF CommitJob, Commit
<1>2. Facts(j, m, db, ledger) /\ DOMAIN db = Rows
  BY Committed DEF WInv, Sound
<1>3. JobTyped(j) /\ DOMAIN m \subseteq Rows
  BY <1>2 DEF Facts
<1>4. j.op # "idle"
  BY <1>1, <1>3, IdleIs DEF JobTyped
<1>5. j.op \in ReserveOps \cup CloseOps \cup MoveOps \cup {"hold"} /\ j.pc \in Points(j.op)
  BY <1>3, <1>4 DEF JobTyped
<1>6. \/ Places(j) /\ j.pc = "placed"
      \/ Closes(j) /\ j.pc = "commit"
      \/ j.op \in MoveOps /\ j.pc = "commit"
      \/ j.op = "hold" /\ j.pc = "commit"
  <2>1. CASE j.op \in MoveOps \cup {"hold"}
    BY <1>1, <1>5, <2>1, PointsAre DEF MoveOps, Moving
  <2>2. CASE j.op \in ReserveOps \cup CloseOps /\ j.pc = "placed"
    BY <1>5, <2>2, PointsAre DEF Places, Placing, Closing, ReserveOps, CloseOps
  <2>3. CASE j.op \in ReserveOps \cup CloseOps /\ j.pc = "commit"
    BY <1>5, <2>3, PointsAre DEF Closes, Placing, Closing, ReserveOps, CloseOps
  <2> QED
    BY <1>1, <1>5, <2>1, <2>2, <2>3
<1>7. /\ \A x \in DOMAIN m : db'[x] = m[x]
      /\ \A x \in Rows \ DOMAIN m : db'[x] = db[x]
  BY <1>1, <1>2, <1>3, OverIs
<1> QED
  BY <1>2, <1>3, <1>6, <1>7

\* A reservation takes all of its batch, of what nobody else claims.
LEMMA ReserveRefines ==
  ASSUME StoreAssumption, ClaimsMatch, ClaimsMatch', NEW j, NEW m, NEW l, Facts(j, m, db, l),
         Places(j), j.pc = "placed",
         \A x \in DOMAIN m : db'[x] = m[x], \A x \in Rows \ DOMAIN m : db'[x] = db[x]
  PROVE  \E batch \in SUBSET Claims : Stock!Reserve(batch)
<1> DEFINE b == j.made
<1>1. /\ b = DOMAIN m \cap Claims /\ b # {} /\ SameShelf(m, db)
      /\ \A c \in b : db[c] = NoClaim /\ m[c] \in OpenClaim /\ m[c].order = j.order
  BY DEF Facts, PlaceFacts
<1> HIDE DEF b
<1>2. ASSUME NEW c \in b
      PROVE  Allocations[c] = Stock!Unused /\ Allocations'[c].status = "reserved" /\ Allocations'[c].order = j.order
  <2>1. c \in Claims /\ db[c] = NoClaim /\ db'[c] \in OpenClaim /\ db'[c].order = j.order
    BY <1>1
  <2>2. db'[c].status = "reserved"
    BY <2>1 DEF OpenClaim
  <2> QED
    BY <2>1, <2>2 DEF Allocations, Stock!Unused, NoClaim
<1>3. ASSUME NEW c \in Claims \ b PROVE Allocations'[c] = Allocations[c]
  BY <1>1, RowsApart DEF Allocations
<1>4. ASSUME NEW i \in Items PROVE db'[i].stock = db[i].stock
  BY <1>1, RowsApart DEF SameShelf
<1>5. OnHand' = OnHand
  BY <1>4 DEF OnHand
<1>6. Quarantined' = Quarantined
  <2>1. \A r \in Rolls : db'[r].status = db[r].status
    BY <1>1, RowsApart DEF SameShelf
  <2> QED
    BY <2>1 DEF Quarantined
<1>7. ASSUME NEW i \in Items PROVE Stock!ClaimedOf(Allocations', i) <= OnHand[i]
  BY <1>4, ShelfIs
<1>8. b \in SUBSET Claims
  BY <1>1
<1>9. Stock!Reserve(b)
  BY <1>1, <1>2, <1>3, <1>5, <1>6, <1>7 DEF Stock!Reserve
<1> QED
  BY <1>8, <1>9

\* An issue closes its claims and takes exactly their material.
LEMMA IssueRefines ==
  ASSUME StoreAssumption, ClaimsMatch, ClaimsMatch', NEW j, NEW m, NEW l, Facts(j, m, db, l),
         Closes(j), j.pc = "commit", j.op # "release",
         \A x \in DOMAIN m : db'[x] = m[x], \A x \in Rows \ DOMAIN m : db'[x] = db[x]
  PROVE  \E batch \in SUBSET Claims : Stock!Issue(batch)
<1> DEFINE b == DOMAIN m \cap Claims
<1>1. /\ b # {} /\ b \subseteq Claims /\ Cuts(j, m, db)
      /\ \A c \in b : c \in DOMAIN m /\ db[c].status = "reserved" /\ m[c] = Issued
      /\ \A c \in Claims \ b : c \notin DOMAIN m
  BY DEF Facts, CloseFacts
<1>2. /\ \A i \in DOMAIN m \cap Items : m[i].stock - db[i].stock = m[i].reserved - db[i].reserved + 0
      /\ \A r \in DOMAIN m \cap Rolls : m[r].status = "quarantine" <=> db[r].status = "quarantine"
      /\ \A c \in b : db[c].item \in Rolls => db[db[c].item].status # "quarantine"
  BY <1>1 DEF Cuts
<1> HIDE DEF b
<1>3. ASSUME NEW c \in b PROVE Stock!Open(c) /\ Allocations[c].item \notin Quarantined
  BY <1>1, <1>2 DEF Stock!Open, Allocations, Quarantined
<1>4. Allocations' = [c \in Claims |-> IF c \in b THEN [status |-> "issued"] ELSE Allocations[c]]
  <2>1. ASSUME NEW c \in Claims PROVE db'[c] = IF c \in b THEN [status |-> "issued"] ELSE db[c]
    BY <1>1, RowsApart DEF Issued
  <2> QED
    BY <2>1 DEF Allocations
<1>5. ASSUME NEW i \in Items PROVE db'[i].stock = db[i].stock - (db[i].reserved - db'[i].reserved)
  <2>1. db[i].stock \in Nat /\ db'[i].stock \in Nat /\ db[i].reserved \in Nat /\ db'[i].reserved \in Nat
    BY ShelfIs
  <2>2. CASE i \in DOMAIN m
    <3>1. db'[i].stock - db[i].stock = db'[i].reserved - db[i].reserved + 0
      BY <1>2, <2>2
    <3> QED
      BY <2>1, <3>1
  <2>3. CASE i \notin DOMAIN m
    BY <2>1, <2>3, RowsApart
  <2> QED
    BY <2>2, <2>3
<1>6. OnHand' = [i \in Items |-> OnHand[i] - (Stock!Claimed(i) - Stock!ClaimedOf(Allocations', i))]
  <2>1. OnHand' = [i \in Items |-> db'[i].stock]
    BY DEF OnHand
  <2>2. ASSUME NEW i \in Items
        PROVE  db'[i].stock = OnHand[i] - (Stock!Claimed(i) - Stock!ClaimedOf(Allocations', i))
    BY <1>5, ShelfIs
  <2> QED
    BY <2>1, <2>2
<1>7. Quarantined' = Quarantined
  <2>1. ASSUME NEW r \in Rolls PROVE db'[r].status = "quarantine" <=> db[r].status = "quarantine"
    BY <1>2, RowsApart
  <2> QED
    BY <2>1 DEF Quarantined
<1>8. Stock!Issue(b)
  BY <1>1, <1>3, <1>4, <1>6, <1>7 DEF Stock!Issue
<1> QED
  BY <1>1, <1>8

\* A release closes one claim and leaves the material.
LEMMA ReleaseRefines ==
  ASSUME StoreAssumption, ClaimsMatch, NEW j, NEW m, NEW l, Facts(j, m, db, l),
         Closes(j), j.pc = "commit", j.op = "release",
         \A x \in DOMAIN m : db'[x] = m[x], \A x \in Rows \ DOMAIN m : db'[x] = db[x]
  PROVE  \E c \in Claims : Stock!Release(c)
<1>1. /\ DOMAIN m \cap Claims # {} /\ Frees(j, m, db)
      /\ \A c \in DOMAIN m \cap Claims : db[c].status = "reserved" /\ m[c] = Released
  BY DEF Facts, CloseFacts
<1>2. PICK c \in Claims : DOMAIN m \cap Claims \subseteq {c}
  BY <1>1 DEF Frees
<1>3. c \in DOMAIN m /\ db[c].status = "reserved" /\ db'[c] = Released
  BY <1>1, <1>2
<1>4. ASSUME NEW x \in Claims, x # c PROVE db'[x] = db[x]
  BY <1>2, <1>4, RowsApart
<1>5. Allocations' = [Allocations EXCEPT ![c] = [status |-> "released"]]
  BY <1>3, <1>4 DEF Allocations, Released
<1>6. SameShelf(m, db)
  BY <1>1 DEF Frees
<1>7. OnHand' = OnHand
  <2>1. \A i \in Items : db'[i].stock = db[i].stock
    BY <1>6, RowsApart DEF SameShelf
  <2> QED
    BY <2>1 DEF OnHand
<1>8. Quarantined' = Quarantined
  <2>1. \A r \in Rolls : db'[r].status = db[r].status
    BY <1>6, RowsApart DEF SameShelf
  <2> QED
    BY <2>1 DEF Quarantined
<1>9. Stock!Open(c)
  BY <1>3 DEF Stock!Open, Allocations
<1> QED
  BY <1>5, <1>7, <1>8, <1>9 DEF Stock!Release

\* A receipt, a return or a stock-take moves one item, and not below what is claimed.
LEMMA MoveRefines ==
  ASSUME StoreAssumption, ClaimsMatch, ClaimsMatch', NEW j, NEW m, NEW l, Facts(j, m, db, l),
         j.op \in MoveOps, j.pc = "commit",
         \A x \in DOMAIN m : db'[x] = m[x], \A x \in Rows \ DOMAIN m : db'[x] = db[x]
  PROVE  \E i \in Items : Stock!Move(i)
<1> DEFINE i == j.item
<1>1. /\ i \in Items /\ j.qty \in Int \ {0} /\ i \in DOMAIN m /\ DOMAIN m \subseteq {i, Header}
      /\ m[i].stock = db[i].stock + j.qty /\ m[i].reserved = db[i].reserved
      /\ i \in Rolls => (m[i].status = "quarantine" <=> db[i].status = "quarantine")
  BY DEF Facts, MoveFacts
<1> HIDE DEF i
<1>2. db'[i].stock # db[i].stock /\ db'[i].reserved = db[i].reserved
  BY <1>1, ShelfIs
<1>3. \A x \in Rows \ {i, Header} : db'[x] = db[x]
  BY <1>1
<1>4. Allocations' = Allocations
  <2>1. \A c \in Claims : db'[c] = db[c]
    BY <1>1, <1>3, RowsApart
  <2> QED
    BY <2>1 DEF Allocations
<1>5. Quarantined' = Quarantined
  <2>1. ASSUME NEW r \in Rolls PROVE db'[r].status = "quarantine" <=> db[r].status = "quarantine"
    BY <1>1, <1>3, RowsApart
  <2> QED
    BY <2>1 DEF Quarantined
<1>6. \A x \in Items \ {i} : OnHand'[x] = OnHand[x]
  BY <1>3, RowsApart DEF OnHand
<1>7. OnHand'[i] # OnHand[i] /\ OnHand'[i] >= Stock!Claimed(i)
  BY <1>1, <1>2, ShelfIs
<1>8. Stock!Move(i)
  BY <1>4, <1>5, <1>6, <1>7 DEF Stock!Move
<1> QED
  BY <1>1, <1>8

\* A hold moves nothing.
LEMMA HoldRefines ==
  ASSUME StoreAssumption, ClaimsMatch, NEW j, NEW m, NEW l, Facts(j, m, db, l),
         j.op = "hold", j.pc = "commit",
         \A x \in DOMAIN m : db'[x] = m[x], \A x \in Rows \ DOMAIN m : db'[x] = db[x]
  PROVE  \E i \in Items : Stock!Hold(i)
<1> DEFINE i == j.item
<1>1. i \in Rolls /\ DOMAIN m = {i} /\ m[i] = [db[i] EXCEPT !.status = j.was]
  BY DEF Facts, HoldFacts
<1> HIDE DEF i
<1>2. \A x \in Rows \ {i} : db'[x] = db[x]
  BY <1>1
<1>3. db[i] \in RollRow /\ db'[i] = [db[i] EXCEPT !.status = j.was]
  BY <1>1 DEF ClaimsMatch, RowsTyped
<1>4. db'[i].stock = db[i].stock
  BY <1>3 DEF RollRow
<1>5. Allocations' = Allocations
  <2>1. \A c \in Claims : db'[c] = db[c]
    BY <1>1, <1>2, RowsApart
  <2> QED
    BY <2>1 DEF Allocations
<1>6. OnHand' = OnHand
  <2>1. \A x \in Items : db'[x].stock = db[x].stock
    BY <1>2, <1>4, RowsApart
  <2> QED
    BY <2>1 DEF OnHand
<1>7. Quarantined' \in {Quarantined \cup {i}, Quarantined \ {i}}
  <2>1. \A r \in Rolls \ {i} : db'[r] = db[r]
    BY <1>2, RowsApart
  <2>2. Quarantined' = {r \in Rolls : db'[r].status = "quarantine"}
    BY DEF Quarantined
  <2>3. CASE db'[i].status = "quarantine"
    <3>1. Quarantined' = Quarantined \cup {i}
      BY <1>1, <2>1, <2>2, <2>3 DEF Quarantined
    <3> QED
      BY <3>1
  <2>4. CASE db'[i].status # "quarantine"
    <3>1. Quarantined' = Quarantined \ {i}
      BY <1>1, <2>1, <2>2, <2>4 DEF Quarantined
    <3> QED
      BY <3>1
  <2> QED
    BY <2>3, <2>4
<1>8. Stock!Hold(i) /\ i \in Items
  BY <1>1, <1>5, <1>6, <1>7, RowsApart DEF Stock!Hold
<1> QED
  BY <1>8

\* Every step is one of the promised operations, or none.
LEMMA StepRefines ==
  ASSUME StoreAssumption, WInv, ClaimsMatch, ClaimsMatch', [Next]_vars
  PROVE  [Stock!Next]_(Stock!vars)
<1>1. CASE db' = db
  <2>1. OnHand' = OnHand /\ Allocations' = Allocations /\ Quarantined' = Quarantined
    BY <1>1 DEF OnHand, Allocations, Quarantined
  <2> QED
    BY <2>1 DEF Stock!vars
<1>2. ASSUME NEW s \in Sessions, CommitJob(s) PROVE Stock!Next
  <2>1. PICK j, m : j = job[s] /\ m = mine[s]
    OBVIOUS
  <2>2. /\ Facts(j, m, db, ledger)
        /\ \A x \in DOMAIN m : db'[x] = m[x]
        /\ \A x \in Rows \ DOMAIN m : db'[x] = db[x]
        /\ \/ Places(j) /\ j.pc = "placed"
           \/ Closes(j) /\ j.pc = "commit"
           \/ j.op \in MoveOps /\ j.pc = "commit"
           \/ j.op = "hold" /\ j.pc = "commit"
    BY <1>2, <2>1, CommitIs
  <2>3. CASE Places(j) /\ j.pc = "placed"
    BY <2>2, <2>3, ReserveRefines DEF Stock!Next
  <2>4. CASE Closes(j) /\ j.pc = "commit" /\ j.op # "release"
    BY <2>2, <2>4, IssueRefines DEF Stock!Next
  <2>5. CASE Closes(j) /\ j.pc = "commit" /\ j.op = "release"
    BY <2>2, <2>5, ReleaseRefines DEF Stock!Next
  <2>6. CASE j.op \in MoveOps /\ j.pc = "commit"
    BY <2>2, <2>6, MoveRefines DEF Stock!Next
  <2>7. CASE j.op = "hold" /\ j.pc = "commit"
    BY <2>2, <2>7, HoldRefines DEF Stock!Next
  <2> QED
    BY <2>2, <2>3, <2>4, <2>5, <2>6, <2>7
<1>3. Writes
  BY StepWrites
<1> QED
  BY <1>1, <1>2, <1>3 DEF Writes

\* What the interleaved statements do to the store is what the operations
\* promise, each at once: a claim is backed by material nobody else claims and
\* closed once, by an issue that takes exactly that material or by a release
\* (reserve_for_order, issue_reserved, release_allocation, _move_stock).
THEOREM StoreKeepsThePromise ==
  ASSUME Safe
  PROVE  Spec => KeepsThePromise
<1>1. Spec => []WInv
  BY AlwaysSound
<1>2. WInv => ClaimsMatch
  BY StoreAssumption, SoundMatch
<1>3. WInv /\ ClaimsMatch /\ ClaimsMatch' /\ [Next]_vars => [Stock!Next]_(Stock!vars)
  BY StoreAssumption, StepRefines
<1>4. Init => Stock!StoreInit
  <2> SUFFICES ASSUME Init PROVE Stock!StoreInit
    OBVIOUS
  <2>1. \A c \in Claims : db[c] = NoClaim
    BY StoreAssumption, RowsApart DEF Init
  <2>2. \A r \in Rolls : db[r] = NoRoll
    BY StoreAssumption, RowsApart DEF Init
  <2>3. Allocations = [c \in Claims |-> Stock!Unused]
    BY <2>1 DEF Allocations, Stock!Unused, NoClaim
  <2>4. Quarantined = {}
    BY <2>2 DEF Quarantined, NoRoll
  <2> QED
    BY <2>3, <2>4 DEF Stock!StoreInit
<1> QED
  BY <1>1, <1>2, <1>3, <1>4, PTL DEF Spec, KeepsThePromise, Stock!Spec


=============================================================================
