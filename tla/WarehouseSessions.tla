------------------------- MODULE WarehouseSessions -------------------------
(***************************************************************************)
(* The raw-material store, statement by statement                          *)
(* (src/app/warehouse/services.py), with several requests in progress on   *)
(* PostgreSQL.  One fabric whose header row carries the sums of its rolls, *)
(* materials counted without rolls.                                        *)
(*                                                                         *)
(* A request is a job: what it does, the statement it is at, and what it   *)
(* has read.  Statements that touch only rows the job has already locked   *)
(* are one step.  Together names the pairs of operations an instance lets  *)
(* overlap; operations that are not paired wait for each other.            *)
(***************************************************************************)
EXTENDS ReadCommitted, Integers, FiniteSets, FiniteSetsExt, Functions

CONSTANTS
    Rolls,          \* rolls of the fabric, numbered in the order of receipt
    Lot,            \* Lot[r]: the shade lot of a roll
    Length,         \* Length[r]: its length as received
    Trims,          \* materials tracked by quantity
    Header,         \* the wh_materials row of the fabric
    Claims,         \* ids for wh_allocations rows
    Orders,         \* customer orders
    Qtys,           \* quantities asked for or received
    Bits,           \* quantities returned or corrected
    MaxStock,       \* MaxStock[i]: bound on the stock of an item
    Together        \* sets of operations that may overlap

VARIABLES
    job,            \* job[s]: the operation session s performs
    ledger          \* ledger[i]: sum of the committed movements of i

vars == <<db, mine, job, ledger>>

Items == Rolls \cup Trims

ASSUME StoreAssumption ==
    /\ IsFiniteSet(Rolls) /\ IsFiniteSet(Trims) /\ IsFiniteSet(Claims)
    /\ Rolls \subseteq Nat /\ Claims \subseteq Nat \ Rolls
    /\ Trims \cap (Rolls \cup Claims) = {} /\ Header \notin Rolls \cup Trims \cup Claims
    /\ Lot \in [Rolls -> Nat] /\ Length \in [Rolls -> Nat \ {0}]
    /\ Qtys \cup Bits \subseteq Nat \ {0} /\ MaxStock \in [Rolls \cup Trims -> Nat]

\* The pairs of operations that the guards of the code make safe to overlap.
Guarded ==
    {{a, b} : a \in {"reserve"}, b \in {"issue", "release"}}
    \cup {{a, b} : a, b \in {"issue", "release"}}
    \cup {{"reserve", "hold"}}

\* plan: what is still to reserve of which roll or trim; made: the rows
\* inserted; ids: the allocations still to close.
NoPlan == [i \in {} |-> 0]
Idle == [op |-> "idle", pc |-> "idle", order |-> 0, plan |-> NoPlan, made |-> {}, ids |-> NoPlan,
         item |-> 0, qty |-> 0, was |-> 0, hdr |-> 0, posted |-> [i \in Items |-> 0]]

NoRoll == [stock |-> 0, reserved |-> 0, status |-> "none"]
NoClaim == [status |-> "none"]

\* Of a closed allocation nothing but the status is read again.
Issued == [status |-> "issued"]
Released == [status |-> "released"]

Init ==
    /\ db = [x \in Items \cup Claims \cup {Header} |->
                IF x \in Rolls THEN NoRoll ELSE IF x \in Claims THEN NoClaim
                ELSE [stock |-> 0, reserved |-> 0]]
    /\ mine = [s \in Sessions |-> NoRows]
    /\ job = [s \in Sessions |-> Idle]
    /\ ledger = [i \in Items |-> 0]

(***************************************************************************)
(* Helpers of the operations.                                              *)
(***************************************************************************)
RollStatus(current, remaining, length) ==
    IF current = "quarantine" THEN current
    ELSE IF remaining <= 0 THEN "consumed"
    ELSE IF remaining < length THEN "partial" ELSE "available"

FreeOn(view, r) == view[r].stock - view[r].reserved
FreeOf(view, S) == SumFunctionOnSet([r \in S |-> FreeOn(view, r)], S)

\* The rolls plan_pick may cut.
Candidates(view) == {r \in Rolls : view[r].status \in {"available", "partial"} /\ FreeOn(view, r) > 0}

\* Take from the rolls in turn, oldest first, until the requirement is met.
Takes(view, rolls, required) ==
    LET before(r) == FreeOf(view, {k \in rolls : k < r})
        take(r) == Min({FreeOn(view, r), Max({required - before(r), 0})})
    IN  [r \in {k \in rolls : take(k) > 0} |-> take(r)]

\* The oldest shade lot that covers the requirement alone, else every lot.
PlanPick(view, required) ==
    LET cands == Candidates(view)
        ofLot(l) == {r \in cands : Lot[r] = l}
        lots == {r \in cands : FreeOf(view, ofLot(Lot[r])) >= required}
    IN  Takes(view, IF lots = {} THEN cands ELSE ofLot(Lot[Min(lots)]), required)

Picked(plan) == SumFunctionOnSet(plan, DOMAIN plan)

\* Rolls and allocations are worked on in the order of their ids.
Earliest(S) == CHOOSE x \in S : \A y \in S \ {x} : x < y
Without(f, x) == [y \in DOMAIN f \ {x} |-> f[y]]

\* Step a job on; drop it.
Goto(s, pc) == job' = [job EXCEPT ![s].pc = pc]
Quit(s) == job' = [job EXCEPT ![s] = Idle]
Abort(s) == Rollback(s) /\ Quit(s) /\ UNCHANGED ledger
At(s, op, pc) == job[s].op \in op /\ job[s].pc = pc

MayStart(s, op) ==
    /\ job[s].op = "idle"
    /\ \A t \in Sessions \ {s} : job[t].op # "idle" => {op, job[t].op} \in Together

\* The first statement of an operation, a SELECT.
Begin(s, j) ==
    /\ MayStart(s, j.op)
    /\ job' = [job EXCEPT ![s] = j]
    /\ Read /\ UNCHANGED ledger

(***************************************************************************)
(* reserve_for_order, and issue_to_order, which goes on to issue exactly   *)
(* what it reserved.                                                       *)
(***************************************************************************)
ReserveOps == {"reserve", "counter"}

\* Allocation rows the reservations in progress may still insert (a bound).
Planned ==
    LET rows == [s \in {t \in Sessions : job[t].op \in ReserveOps} |->
                    Cardinality(DOMAIN job[s].plan) + Cardinality(job[s].made)]
    IN  SumFunctionOnSet(rows, DOMAIN rows)

BeginReserve(s, op, o, i, q) ==
    LET plan == IF i \in Trims THEN [x \in {i} |-> q] ELSE PlanPick(db, q)
    IN  /\ Picked(plan) = q
        /\ Cardinality(DOMAIN plan) + Planned <= Cardinality({c \in Claims : db[c] = NoClaim})
        /\ Begin(s, [Idle EXCEPT !.op = op, !.pc = "before", !.order = o, !.plan = plan])

PlanItem(s) == Earliest(DOMAIN job[s].plan)
PlanTake(s) == job[s].plan[PlanItem(s)]

ReadBefore(s) ==
    /\ At(s, ReserveOps, "before")
    /\ job' = [job EXCEPT ![s].was = Seen(s, PlanItem(s)).reserved, ![s].pc = "guard"]
    /\ Read /\ UNCHANGED ledger

\* UPDATE ... WHERE on hand - reserved >= qty
Affordable(row, q) == row.stock - row.reserved >= q

GuardedReserve(s) ==
    LET row == Seen(s, PlanItem(s))
    IN  /\ At(s, ReserveOps, "guard")
        /\ IF Affordable(row, PlanTake(s))
           THEN Write(s, PlanItem(s), [row EXCEPT !.reserved = @ + PlanTake(s)])
           ELSE Read
        /\ Goto(s, "after")
        /\ UNCHANGED ledger

\* The reservation is confirmed by comparing the counter with the first read.
Confirmed(s) == Seen(s, PlanItem(s)).reserved > job[s].was

ReadAfter(s) ==
    /\ At(s, ReserveOps, "after")
    /\ Confirmed(s)
    /\ Goto(s, IF PlanItem(s) \in Rolls THEN "mirror" ELSE "alloc")
    /\ Read /\ UNCHANGED ledger

Raced(s) ==
    /\ At(s, ReserveOps, "after")
    /\ ~Confirmed(s)
    /\ Abort(s)

\* Mutant: the commitment is not mirrored onto the header.
MirrorSkipped(s) ==
    /\ At(s, ReserveOps, "mirror")
    /\ Goto(s, "alloc")
    /\ Read /\ UNCHANGED ledger

Mirror(s) ==
    LET row == Seen(s, Header)
    IN  /\ At(s, ReserveOps, "mirror")
        /\ Write(s, Header, [row EXCEPT !.reserved = @ + PlanTake(s)])
        /\ Goto(s, "alloc")
        /\ UNCHANGED ledger

Alloc(s) ==
    /\ At(s, ReserveOps, "alloc")
    /\ \E c \in Claims :
        /\ Seen(s, c) = NoClaim
        /\ \A d \in Claims : d < c => Seen(s, d) # NoClaim \/ ~Free(s, d)
        /\ Write(s, c, [status |-> "reserved", order |-> job[s].order,
                        item |-> PlanItem(s), qty |-> PlanTake(s)])
        /\ job' = [job EXCEPT ![s].plan = Without(@, PlanItem(s)), ![s].made = @ \cup {c},
                              ![s].pc = IF DOMAIN job[s].plan = {PlanItem(s)} THEN "placed" ELSE "before"]
    /\ UNCHANGED ledger

(***************************************************************************)
(* issue_reserved and release_allocation.                                  *)
(***************************************************************************)
CloseOps == {"issue", "release", "counter"}

\* SELECT * FROM wh_allocations WHERE status = 'reserved' AND ...
OpenRows(S) ==
    [c \in {x \in S : db[x].status = "reserved"} |-> [item |-> db[c].item, qty |-> db[c].qty]]

OpenOf(o) == OpenRows({c \in Claims : db[c].status = "reserved" /\ db[c].order = o})

BeginIssue(s, o) ==
    /\ DOMAIN OpenOf(o) # {}
    /\ Begin(s, [Idle EXCEPT !.op = "issue", !.pc = "claim", !.order = o, !.ids = OpenOf(o)])

BeginRelease(s, c) ==
    /\ db[c].status = "reserved"
    /\ Begin(s, [Idle EXCEPT !.op = "release", !.pc = "claim", !.ids = OpenRows({c})])

\* issue_to_order selects again what it has just reserved.
CounterSelect(s) ==
    LET ids == OpenRows(job[s].made)
    IN  /\ At(s, {"counter"}, "select")
        /\ IF DOMAIN ids = {} THEN Quit(s)
           ELSE job' = [job EXCEPT ![s].ids = ids, ![s].pc = "claim"]
        /\ Read /\ UNCHANGED ledger

Id(s) == Earliest(DOMAIN job[s].ids)
IdItem(s) == job[s].ids[Id(s)].item
IdQty(s) == job[s].ids[Id(s)].qty

\* Mutant: the status was read before, and is not in the WHERE clause.
ClaimableAsRead(s) == TRUE

\* UPDATE ... WHERE status = 'reserved'
Claimable(s) == Seen(s, Id(s)).status = "reserved"

Claim(s) ==
    /\ At(s, CloseOps, "claim")
    /\ Claimable(s)
    /\ Write(s, Id(s), IF job[s].op = "release" THEN Released ELSE Issued)
    /\ Goto(s, IF job[s].op # "release" /\ IdItem(s) \in Rolls THEN "held" ELSE "unreserve")
    /\ UNCHANGED ledger

AlreadyClosed(s) ==
    /\ At(s, CloseOps, "claim")
    /\ ~Claimable(s)
    /\ Abort(s)

\* Mutant: an older reservation beats the hold.
CheckHeldNot(s) ==
    /\ At(s, CloseOps, "held")
    /\ Goto(s, "unreserve") /\ Read /\ UNCHANGED ledger

\* A quarantine hold beats an older reservation.
CheckHeld(s) ==
    /\ At(s, CloseOps, "held")
    /\ IF Seen(s, IdItem(s)).status = "quarantine"
       THEN Abort(s)
       ELSE Goto(s, "unreserve") /\ Read /\ UNCHANGED ledger

Freed(row, q) == [row EXCEPT !.reserved = Max({@ - q, 0})]

\* The job leaves this claim for the next, or commits.
NextClaim(s, j) ==
    [j EXCEPT !.ids = Without(@, Id(s)), !.pc = IF DOMAIN j.ids = {Id(s)} THEN "commit" ELSE "claim"]

\* A movement of q on i, for the ledger.
Booked(j, i, q) == [j EXCEPT !.posted[i] = @ + q]

\* _release on a quantity-tracked material; an issue then moves the stock of
\* the row it has just locked.
UnreserveTrim(s) ==
    LET i == IdItem(s)
        row == Freed(Seen(s, i), IdQty(s))
        left == row.stock - IdQty(s)
    IN  /\ At(s, CloseOps, "unreserve")
        /\ i \in Trims
        /\ IF job[s].op = "release"
           THEN /\ Write(s, i, row)
                /\ job' = [job EXCEPT ![s] = NextClaim(s, @)]
                /\ UNCHANGED ledger
           ELSE IF left < 0 \/ left < row.reserved
           THEN Free(s, i) /\ Abort(s)
           ELSE /\ Write(s, i, [row EXCEPT !.stock = left])
                /\ job' = [job EXCEPT ![s] = NextClaim(s, Booked(@, i, -IdQty(s)))]
                /\ UNCHANGED ledger

UnreserveRoll(s) ==
    /\ At(s, CloseOps, "unreserve")
    /\ IdItem(s) \in Rolls
    /\ Write(s, IdItem(s), Freed(Seen(s, IdItem(s)), IdQty(s)))
    /\ Goto(s, "header")
    /\ UNCHANGED ledger

\* The mirror on the header; an issue then moves roll and header, both locked.
UnreserveHeader(s) ==
    LET i == IdItem(s)
        q == IdQty(s)
        hdr == Freed(Seen(s, Header), q)
        row == Seen(s, i)
        left == row.stock - q
    IN  /\ At(s, CloseOps, "header")
        /\ IF job[s].op = "release"
           THEN /\ Write(s, Header, hdr)
                /\ job' = [job EXCEPT ![s] = NextClaim(s, @)]
                /\ UNCHANGED ledger
           ELSE IF left < 0 \/ hdr.stock < q \/ left < row.reserved
           THEN Free(s, Header) /\ Abort(s)
           ELSE /\ WriteAll(s, [x \in {Header, i} |->
                     IF x = Header THEN [hdr EXCEPT !.stock = @ - q]
                     ELSE [row EXCEPT !.stock = left, !.status = RollStatus(@, left, Length[i])]])
                /\ job' = [job EXCEPT ![s] = NextClaim(s, Booked(@, i, -q))]
                /\ UNCHANGED ledger

(***************************************************************************)
(* receive_qty, receive_roll, return_to_store and adjust_stock: read, then *)
(* write a total computed from what was read.                              *)
(***************************************************************************)
MoveOps == {"receive", "return", "adjust"}

\* receive_roll inserts the roll empty, then reads it back and the header.
BeginReceiveRoll(s, r) ==
    /\ MayStart(s, "receive")
    /\ Seen(s, r).status = "none"
    /\ Write(s, r, [NoRoll EXCEPT !.status = "available"])
    /\ job' = [job EXCEPT ![s] = [Idle EXCEPT !.op = "receive", !.pc = "row", !.item = r, !.qty = Length[r]]]
    /\ UNCHANGED ledger

BeginReceiveQty(s, t, q) ==
    /\ db[t].stock + q <= MaxStock[t]
    /\ Begin(s, [Idle EXCEPT !.op = "receive", !.pc = "row", !.item = t, !.qty = q])

\* You cannot return more than was cut.
BeginReturn(s, r, q) ==
    /\ db[r].status # "none"
    /\ db[r].stock + q <= Length[r]
    /\ Begin(s, [Idle EXCEPT !.op = "return", !.pc = "row", !.item = r, !.qty = q])

BeginAdjust(s, i, q) ==
    /\ i \in Rolls => db[i].status # "none"
    /\ db[i].stock + q <= MaxStock[i]
    /\ Begin(s, [Idle EXCEPT !.op = "adjust", !.pc = "row", !.item = i, !.qty = q])

\* _move_stock refuses to leave less than nothing, or less than is reserved.
TooLow(row, q) == row.stock + q < 0 \/ row.stock + q < row.reserved

ReadRow(s) ==
    LET i == job[s].item IN
    /\ At(s, MoveOps, "row")
    /\ IF i \in Trims /\ TooLow(Seen(s, i), job[s].qty)
       THEN Abort(s)
       ELSE /\ job' = [job EXCEPT ![s].was = Seen(s, i),
                                  ![s].pc = IF i \in Rolls THEN "hdr" ELSE "put"]
            /\ Read /\ UNCHANGED ledger

ReadHeader(s) ==
    /\ At(s, MoveOps, "hdr")
    /\ IF TooLow(job[s].was, job[s].qty) \/ Seen(s, Header).stock + job[s].qty < 0
       THEN Abort(s)
       ELSE /\ job' = [job EXCEPT ![s].hdr = Seen(s, Header).stock, ![s].pc = "put"]
            /\ Read /\ UNCHANGED ledger

PutRow(s) ==
    LET i == job[s].item
        was == job[s].was
        after == was.stock + job[s].qty
        row == Seen(s, i)
    IN  /\ At(s, MoveOps, "put")
        /\ Write(s, i, IF i \in Rolls
                       THEN [row EXCEPT !.stock = after, !.status = RollStatus(was.status, after, Length[i])]
                       ELSE [row EXCEPT !.stock = after])
        /\ job' = [job EXCEPT ![s] = [Booked(@, i, job[s].qty) EXCEPT
                                       !.pc = IF i \in Rolls THEN "puthdr" ELSE "commit"]]
        /\ UNCHANGED ledger

PutHeader(s) ==
    /\ At(s, MoveOps, "puthdr")
    /\ Write(s, Header, [Seen(s, Header) EXCEPT !.stock = job[s].hdr + job[s].qty])
    /\ Goto(s, "commit")
    /\ UNCHANGED ledger

(***************************************************************************)
(* set_roll_hold.                                                          *)
(***************************************************************************)

BeginHold(s, r, hold) ==
    /\ db[r].status # "none"
    /\ Begin(s, [Idle EXCEPT !.op = "hold", !.pc = "puthold", !.item = r,
                 !.was = IF hold THEN "quarantine" ELSE RollStatus("none", db[r].stock, Length[r])])

PutHold(s) ==
    /\ At(s, {"hold"}, "puthold")
    /\ Write(s, job[s].item, [Seen(s, job[s].item) EXCEPT !.status = job[s].was])
    /\ Goto(s, "commit")
    /\ UNCHANGED ledger

(***************************************************************************)
(* The end of a transaction.                                               *)
(***************************************************************************)
CommitJob(s) ==
    /\ job[s].pc \in {"placed", "commit"}
    /\ Commit(s)
    /\ ledger' = [i \in Items |-> ledger[i] + job[s].posted[i]]
    /\ IF job[s].op = "counter" /\ job[s].pc = "placed"
       THEN Goto(s, "select")
       ELSE Quit(s)

\* The row the job's next UPDATE needs, when its WHERE clause holds.
Wanted(s) ==
    LET j == job[s] IN
    CASE j.pc = "guard" /\ Affordable(Seen(s, PlanItem(s)), PlanTake(s)) -> {PlanItem(s)}
      [] j.pc = "claim" /\ Claimable(s) -> {Id(s)}
      [] j.pc = "unreserve" -> {IdItem(s)}
      [] j.pc \in {"mirror", "header", "puthdr"} -> {Header}
      [] j.pc \in {"put", "puthold"} -> {j.item}
      [] OTHER -> {}

\* Mutant: lock_timeout is not set and no cycle is broken.
LockTimeoutOff(s) == FALSE

\* Waiting for a row ends in an error, after lock_timeout or when PostgreSQL
\* breaks a cycle; the request ends and its connection is rolled back.
LockTimeout(s) ==
    /\ \E r \in Wanted(s) : ~Free(s, r)
    /\ Abort(s)

Work(s) ==
    \/ ReadBefore(s) \/ GuardedReserve(s) \/ ReadAfter(s) \/ Raced(s) \/ Mirror(s) \/ Alloc(s)
    \/ CounterSelect(s) \/ Claim(s) \/ AlreadyClosed(s) \/ CheckHeld(s)
    \/ UnreserveTrim(s) \/ UnreserveRoll(s) \/ UnreserveHeader(s)
    \/ ReadRow(s) \/ ReadHeader(s) \/ PutRow(s) \/ PutHeader(s)
    \/ PutHold(s) \/ CommitJob(s) \/ LockTimeout(s)

Start(s) ==
    \/ \E o \in Orders, i \in {Header} \cup Trims, q \in Qtys, op \in ReserveOps : BeginReserve(s, op, o, i, q)
    \/ \E o \in Orders : BeginIssue(s, o)
    \/ \E c \in Claims : BeginRelease(s, c)
    \/ \E r \in Rolls : BeginReceiveRoll(s, r)
    \/ \E t \in Trims, q \in Qtys : BeginReceiveQty(s, t, q)
    \/ \E r \in Rolls, q \in Bits : BeginReturn(s, r, q)
    \/ \E i \in Items, q \in Bits, sign \in {-1, 1} : BeginAdjust(s, i, sign * q)
    \/ \E r \in Rolls, hold \in BOOLEAN : BeginHold(s, r, hold)

Next == \E s \in Sessions : Start(s) \/ Work(s)

\* A thread that serves a request goes on until it has answered; nothing makes
\* anybody ask for anything.
Spec == Init /\ [][Next]_vars /\ \A s \in Sessions : WF_vars(Work(s))

(***************************************************************************)
(* Properties.  They speak of the committed rows.                          *)
(***************************************************************************)
\* Rows have the values their columns may have.
TypeOK ==
    /\ DOMAIN db = Items \cup Claims \cup {Header}
    /\ \A i \in Items \cup {Header} : db[i].stock \in Nat /\ db[i].reserved \in Nat
    /\ \A r \in Rolls : db[r].status \in {"none", "available", "partial", "consumed", "quarantine"}
    /\ \A c \in Claims : db[c].status \in {"none", "reserved", "issued", "released"}
    /\ \A s \in Sessions : DOMAIN mine[s] \subseteq DOMAIN db
    /\ ledger \in [Items -> Int]

\* What the open allocations of the rows d claim of an item.
ClaimedBy(row, i) == IF row.status = "reserved" /\ row.item = i THEN row.qty ELSE 0
ClaimedIn(d, i) == SumFunctionOnSet([c \in Claims |-> ClaimedBy(d[c], i)], Claims)

\* A request that ended leaves no row locked and nothing half done.
NothingLeftOpen == \A s \in Sessions : job[s].op = "idle" => mine[s] = NoRows

\* Reserved counters are exactly the open allocations: none is stranded, none is unbacked,
\* what is on the shelf covers them, and no request leaves one half done, however issues,
\* releases and reservations interleave (_try_reserve, _claim, _release).
Backed ==
    /\ \A i \in Items : db[i].reserved = ClaimedIn(db, i)
    /\ \A i \in Items \cup {Header} : db[i].reserved <= db[i].stock
    /\ NothingLeftOpen

\* The header of a roll-tracked material is the sum of its rolls, in stock and
\* in reservations (_move_stock, _try_reserve, _release).
HeaderIsSum ==
    /\ db[Header].stock = SumFunctionOnSet([r \in Rolls |-> db[r].stock], Rolls)
    /\ db[Header].reserved = SumFunctionOnSet([r \in Rolls |-> db[r].reserved], Rolls)

\* Every counter is the sum of the movements that led to it: the ledger audits
\* itself (_move_stock writes one row per change).
LedgerTrue == \A i \in Items : db[i].stock = ledger[i]

\* No status hides metres from the picker (_roll_status).
StatusTrue ==
    \A r \in Rolls :
        /\ db[r].status = "consumed" => db[r].stock = 0
        /\ db[r].status = "partial" => db[r].stock \in 1..(Length[r] - 1)
        /\ db[r].status = "available" => db[r].stock >= Length[r]

\* The figures of the store are what its movements, its rolls and its statuses say.
RowsTrue == TypeOK /\ HeaderIsSum /\ LedgerTrue /\ StatusTrue

\* No request waits for ever, whoever holds the rows it needs, in any order.
Finishes == \A s \in Sessions : job[s].op # "idle" ~> job[s].op = "idle"

\* The statements, interleaved, do what the operations promise.
OnHand == [i \in Items |-> db[i].stock]
Allocations == [c \in Claims |-> db[c]]
Quarantined == {r \in Rolls : db[r].status = "quarantine"}

Stock == INSTANCE WarehouseStock WITH onHand <- OnHand, claims <- Allocations, held <- Quarantined

KeepsThePromise == Stock!Spec

=============================================================================
